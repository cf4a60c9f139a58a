------------------------- MODULE HeaderTypes_proofs -------------------------
(***************************************************************************)
(* Proofs about HeaderTypes, for any sources, types, requests and lines of  *)
(* kallsyms.                                                               *)
(***************************************************************************)
EXTENDS HeaderTypes, FiniteSetTheorems, WellFoundedInduction, SequenceTheorems, TLAPS

\* A set of ids has a least one.
LEMMA LeastId ==
  ASSUME NEW S \in SUBSET Nat, S # {}
  PROVE  \E i \in S : \A j \in S : i <= j
<1>1. \A x, y \in Nat : << y, x >> \in OpToRel(<, Nat) <=> y < x
  BY DEF OpToRel
<1>2. PICK R : IsWellFoundedOn(R, Nat) /\ \A x, y \in Nat : << y, x >> \in R <=> y < x
  BY <1>1, NatLessThanWellFounded
<1>3. PICK x \in S : \A y \in S : ~(<< y, x >> \in R)
  BY <1>2, WFMin
<1>4. ASSUME NEW y \in S PROVE x <= y
  <2>1. x \in Nat /\ y \in Nat /\ ~(y < x)
    BY <1>2, <1>3
  <2> QED BY <2>1
<1> QED BY <1>4

\* What a sequence has after one more element, after its first is gone, and
\* when another one is put before it.
LEMMA Appended ==
  ASSUME NEW X, NEW s \in Seq(X), NEW x \in X, NEW t, t = Append(s, x)
  PROVE  /\ t \in Seq(X) /\ t # << >> /\ DOMAIN t = DOMAIN s \cup {Len(s) + 1} /\ t[Len(s) + 1] = x
         /\ \A k \in DOMAIN s : t[k] = s[k]
         /\ \A y : Within(y, t) <=> Within(y, s) \/ y = x
<1>1. /\ t \in Seq(X) /\ t # << >> /\ DOMAIN t = DOMAIN s \cup {Len(s) + 1} /\ t[Len(s) + 1] = x
      /\ \A k \in DOMAIN s : t[k] = s[k]
  OBVIOUS
<1> QED BY <1>1 DEF Within

Plus(s, x) == IF Within(x, s) THEN s ELSE Append(s, x)

LEMMA Extended ==
  ASSUME NEW X, NEW s \in Seq(X), NEW x \in X
  PROVE  /\ Plus(s, x) \in Seq(X)
         /\ \A d \in DOMAIN s : d \in DOMAIN Plus(s, x) /\ Plus(s, x)[d] = s[d]
         /\ \A d \in DOMAIN Plus(s, x) : Plus(s, x)[d] = x \/ (d \in DOMAIN s /\ Plus(s, x)[d] = s[d])
         /\ \E d \in DOMAIN Plus(s, x) : Plus(s, x)[d] = x
<1>1. CASE Within(x, s)
  <2>1. Plus(s, x) = s
    BY <1>1 DEF Plus
  <2> QED BY <1>1, <2>1 DEF Within
<1>2. CASE ~Within(x, s)
  <2>1. Plus(s, x) = Append(s, x)
    BY <1>2 DEF Plus
  <2> QED BY <2>1, Appended
<1> QED BY <1>1, <1>2

LEMMA Shortened ==
  ASSUME NEW X, NEW s \in Seq(X), s # << >>, NEW t, t = Tail(s)
  PROVE  /\ t \in Seq(X) /\ Head(s) \in X /\ Within(Head(s), s)
         /\ \A y : Within(y, s) <=> Within(y, t) \/ y = Head(s)
<1>1. /\ t \in Seq(X) /\ Head(s) \in X /\ Head(s) = s[1] /\ 1 \in DOMAIN s /\ Len(t) = Len(s) - 1 /\ Len(s) \in Nat \ {0}
      /\ \A i \in 1 .. Len(t) : t[i] = s[i + 1]
  BY HeadTailProperties
<1>2. ASSUME NEW i \in DOMAIN s PROVE i = 1 \/ (i - 1 \in DOMAIN t /\ t[i - 1] = s[i])
  BY <1>1
<1>3. ASSUME NEW i \in DOMAIN t PROVE i + 1 \in DOMAIN s /\ t[i] = s[i + 1]
  BY <1>1
<1>4. \A y : Within(y, s) => Within(y, t) \/ y = Head(s)
  BY ZenonT(60), <1>1, <1>2 DEF Within
<1>5. \A y : Within(y, t) \/ y = Head(s) => Within(y, s)
  BY <1>1, <1>3 DEF Within
<1> QED BY <1>1, <1>4, <1>5 DEF Within

LEMMA Joined ==
  ASSUME NEW X, NEW s \in Seq(X), NEW t \in Seq(X), NEW u, u = s \o t
  PROVE  u \in Seq(X) /\ \A y : Within(y, u) <=> Within(y, s) \/ Within(y, t)
<1>1. /\ u \in Seq(X) /\ Len(u) = Len(s) + Len(t) /\ Len(s) \in Nat /\ Len(t) \in Nat
      /\ \A i \in 1 .. Len(s) + Len(t) : u[i] = IF i <= Len(s) THEN s[i] ELSE t[i - Len(s)]
  BY ConcatProperties
<1>2. ASSUME NEW i \in DOMAIN u PROVE (i \in DOMAIN s /\ u[i] = s[i]) \/ (i - Len(s) \in DOMAIN t /\ u[i] = t[i - Len(s)])
  BY <1>1
<1>3. ASSUME NEW i \in DOMAIN s PROVE i \in DOMAIN u /\ u[i] = s[i]
  BY <1>1
<1>4. ASSUME NEW i \in DOMAIN t PROVE Len(s) + i \in DOMAIN u /\ u[Len(s) + i] = t[i]
  BY <1>1
<1>5. ASSUME NEW y, Within(y, u) PROVE Within(y, s) \/ Within(y, t)
  BY <1>2, <1>5 DEF Within
<1>6. ASSUME NEW y, Within(y, s) \/ Within(y, t) PROVE Within(y, u)
  BY <1>3, <1>4, <1>6 DEF Within
<1> QED BY <1>1, <1>5, <1>6

-----------------------------------------------------------------------------
(* What a job gives.                                                        *)

Given == job \in Jobs

LEMMA JobTypes ==
  ASSUME Given
  PROVE  /\ job.names \in Seq(Names) /\ job.given \in Seq(Argument) /\ job.listed \in Seq(Sources \ {Base})
         /\ job.kallsyms \in Seq(Symbol) /\ Base \in Sources
         /\ \A s \in Sources : /\ job.btf[s].ids \subseteq Ids /\ types(s) \in [Ids -> Type]
                               /\ job.btf[s].dump \in Seq(Decl)
<1>1. job \in Job
  BY HeaderInputs DEF Given
<1>2. \A s \in Sources : job.btf[s] \in Btf
  BY <1>1 DEF Job
<1> QED BY <1>1, <1>2, HeaderConstants DEF Job, Btf, types

LEMMA TypeAt ==
  ASSUME Given, NEW s \in Sources, NEW i \in job.btf[s].ids
  PROVE  /\ i \in Ids /\ types(s)[i] \in Type /\ types(s)[i].kind \in Kinds
         /\ types(s)[i].refs \in Seq(Ids \cup {0})
         /\ types(s)[i].kind = "FUNC" => types(s)[i].refs # << >> /\ types(s)[i].refs[1] # 0
         /\ types(s)[i].kind \notin Followed => types(s)[i].refs = << >>
<1>1. i \in Ids /\ types(s)[i] \in Type
  BY JobTypes
<1>2. types(s)[i].kind \in Kinds /\ types(s)[i].refs \in Seq(Ids \cup {0})
  BY <1>1 DEF Type
<1>3. "FUNC" \in Followed
  BY DEF Followed, Kinds
<1>4. IF types(s)[i].kind = "FUNC" THEN types(s)[i].refs # << >> /\ types(s)[i].refs[1] # 0
      ELSE types(s)[i].kind \notin Followed => types(s)[i].refs = << >>
  BY HeaderInputs DEF Given, types
<1> QED BY <1>1, <1>2, <1>3, <1>4

\* A function that a source has leads to a prototype.
LEMMA ProtoId ==
  ASSUME Given, NEW s \in Sources, NEW fn, FuncIds(s, fn) # {}
  PROVE  find_func_proto_id(s, fn) \in Ids /\ find_func_proto_id(s, fn) # 0
<1> DEFINE F == FuncIds(s, fn)
           i == CHOOSE i \in F : \A j \in F : i <= j
<1>1. F \subseteq job.btf[s].ids /\ F \subseteq Nat /\ \A j \in F : types(s)[j].kind = "FUNC"
  BY JobTypes, HeaderConstants DEF FuncIds
<1>2. i \in F
  BY <1>1, LeastId
<1>3. types(s)[i].refs \in Seq(Ids \cup {0}) /\ types(s)[i].refs # << >> /\ types(s)[i].refs[1] # 0
  BY <1>1, <1>2, TypeAt
<1>4. types(s)[i].refs[1] \in Ids \cup {0}
  BY <1>3
<1>5. find_func_proto_id(s, fn) = types(s)[i].refs[1]
  BY DEF find_func_proto_id
<1>6. 0 \notin Ids
  BY HeaderConstants
<1> QED BY <1>3, <1>4, <1>5, <1>6

\* An id means the same to add_type_closure and to split BTF.
LEMMA Looked ==
  ASSUME NEW s, NEW i
  PROVE  lookup_type(s, i) = Meant(s, i)
  BY DEF lookup_type, Meant

LEMMA MeantPlace ==
  ASSUME Given, NEW s \in Sources, NEW i \in Ids
  PROVE  Meant(s, i) \in Place
  BY HeaderConstants DEF Meant, Place

\* The types that a call goes on to are those that the type refers to.
LEMMA Referred ==
  ASSUME Given, NEW y \in Place
  PROVE  /\ References(y) \in Seq(Ids \cup {0})
         /\ RefersTo(y) = {Meant(y[1], References(y)[k]) : k \in {k \in DOMAIN References(y) : References(y)[k] # 0}}
<1>1. y[1] \in Sources
  BY DEF Place
<1>2. CASE y[2] \in job.btf[y[1]].ids
  <2> DEFINE t == types(y[1])[y[2]]
  <2>1. t.refs \in Seq(Ids \cup {0}) /\ (t.kind \notin Followed => t.refs = << >>)
    BY <1>1, <1>2, TypeAt
  <2>2. KindOf(y) = t.kind
    BY <1>2 DEF KindOf
  <2> HIDE DEF t
  <2>3. ASSUME t.kind \in Followed PROVE References(y) = t.refs
    BY <2>2, <2>3 DEF References, t
  <2>4. ASSUME t.kind \notin Followed PROVE References(y) = t.refs
    BY <2>1, <2>2, <2>4 DEF References
  <2>5. References(y) = t.refs
    BY <2>3, <2>4
  <2>6. RefersTo(y) = {Meant(y[1], References(y)[k]) : k \in {k \in DOMAIN References(y) : References(y)[k] # 0}}
    BY <1>2, <2>5 DEF RefersTo, t
  <2> QED BY <2>1, <2>5, <2>6
<1>3. CASE y[2] \notin job.btf[y[1]].ids
  <2>1. "none" \notin Followed
    BY DEF Followed, Kinds
  <2>2. References(y) = << >>
    BY <1>3, <2>1 DEF References, KindOf
  <2>3. RefersTo(y) = {} /\ DOMAIN References(y) = {}
    BY <1>3, <2>2 DEF RefersTo
  <2> QED BY <2>2, <2>3
<1> QED BY <1>2, <1>3

-----------------------------------------------------------------------------
(* The inductive invariant.                                                 *)

Typed ==
  /\ pc \in Steps /\ job \in Jobs /\ todo \in Seq(Names) /\ read \in Nat
  /\ module_candidates \in Seq(Sources) /\ source_order \in Seq(Sources)
  /\ \A h \in Hints : /\ DOMAIN owners[h] \subseteq Names /\ duplicates[h] \subseteq Names
                       /\ \A n \in DOMAIN owners[h] : owners[h][n] \in Sources
  /\ stack \in Seq(Call) /\ marked \subseteq Place
  /\ missing_required \subseteq Names /\ decl_order \in Seq(Sources \X Names)
  /\ header \in Seq(Decl)

\* Where the run is.
Staged ==
  /\ pc \notin {"closure", "raised"} => stack = << >>
  /\ pc \in {"requests", "candidates", "kallsyms"} => decl_order = << >>
  /\ pc \in {"kallsyms", "resolve", "closure"} => source_order # << >>
  /\ pc \in {"requests", "candidates"} => \A h \in Hints : DOMAIN owners[h] = {} /\ duplicates[h] = {}

\* No request is forgotten.
IsDeclared(n) == \E d \in DOMAIN decl_order : decl_order[d][2] = n
Handled ==
  /\ pc \notin {"requests", "raised"} =>
       \A k \in DOMAIN job.names : Within(job.names[k], todo) \/ IsDeclared(job.names[k]) \/ job.names[k] \in missing_required
  /\ pc \in {"emit", "done"} => todo = << >> /\ missing_required = {}

\* What the lines of kallsyms read so far say of a name, and all of them.
OwnersTo(h, n, r) == {job.kallsyms[k].owner : k \in {k \in 1 .. r : job.kallsyms[k].name = n /\ Applies(h, job.kallsyms[k])}}
HintsSoFar ==
  pc = "kallsyms" =>
    /\ read <= Len(job.kallsyms)
    /\ \A h \in Hints : \A n :
         /\ n \in DOMAIN owners[h] <=> OwnersTo(h, n, read) # {}
         /\ n \in DOMAIN owners[h] => owners[h][n] \in OwnersTo(h, n, read)
         /\ n \in duplicates[h] <=> (n \in DOMAIN owners[h] /\ \E o \in OwnersTo(h, n, read) : o # owners[h][n])

HintsKnown ==
  pc \in {"resolve", "closure"} =>
    \A h \in Hints : \A n : /\ n \in DOMAIN owners[h] => OwnersOf(h, n) = {owners[h][n]}
                            /\ \A o : OwnersOf(h, n) = {o} => n \in DOMAIN owners[h]

\* The calls to come wait for these types; what is marked or waits is what the
\* prototypes lead to.
Waiting == {Meant(c.src, c.id) : c \in {c \in Call : Within(c, stack) /\ c.id # 0}}
Reach ==
  /\ Prototypes \subseteq marked \cup Waiting
  /\ \A y \in marked : RefersTo(y) \subseteq marked \cup Waiting
ClosedIn(S) == Prototypes \subseteq S /\ \A y \in S : RefersTo(y) \subseteq S
Minimal == \A S \in SUBSET Place : ClosedIn(S) => marked \cup Waiting \subseteq S

IInv == Typed /\ Staged /\ Handled /\ HintsSoFar /\ HintsKnown /\ SourceChosen /\ Reach /\ Minimal

LEMMA Initially == Init => IInv
<1> SUFFICES ASSUME Init PROVE IInv
  OBVIOUS
<1>1. /\ pc = "requests" /\ job \in Jobs /\ todo = << >> /\ module_candidates = << >> /\ read = 0
      /\ owners = [h \in Hints |-> [n \in {} |-> Base]] /\ duplicates = [h \in Hints |-> {}]
      /\ source_order = << >> /\ stack = << >> /\ marked = {}
      /\ missing_required = {} /\ decl_order = << >> /\ header = << >>
  BY DEF Init
<1>2. Typed
  BY <1>1 DEF Typed, Steps
<1>3. Staged /\ Handled /\ HintsSoFar /\ HintsKnown
  BY <1>1 DEF Staged, Handled, HintsSoFar, HintsKnown
<1>4. SourceChosen
  BY <1>1 DEF SourceChosen, Within
<1>5. Waiting = {} /\ Prototypes = {}
  BY <1>1 DEF Waiting, Prototypes, Within
<1>6. Reach /\ Minimal
  BY <1>1, <1>5 DEF Reach, Minimal
<1> QED BY <1>2, <1>3, <1>4, <1>6 DEF IInv

-----------------------------------------------------------------------------
(* What a step that leaves variables alone leaves true.                     *)

LEMMA KeepsClosure ==
  ASSUME Reach, Minimal, UNCHANGED << job, decl_order, stack, marked >>
  PROVE  Reach' /\ Minimal'
<1>1. Prototypes' = Prototypes /\ Waiting' = Waiting
  BY DEF Prototypes, Waiting, Within, Meant, find_func_proto_id, FuncIds, types
<1>2. \A y : RefersTo(y)' = RefersTo(y)
  BY DEF RefersTo, Meant, types
<1>3. Reach'
  BY <1>1, <1>2 DEF Reach
<1>4. Minimal'
  BY <1>1, <1>2 DEF Minimal, ClosedIn
<1> QED BY <1>3, <1>4

LEMMA KeepsChoice ==
  ASSUME SourceChosen, UNCHANGED << job, decl_order, module_candidates >>
  PROVE  SourceChosen'
<1>1. Searched' = Searched
  BY DEF Searched, SourceAt
<1>2. \A s, n : FuncIds(s, n)' = FuncIds(s, n)
  BY DEF FuncIds, types
<1>3. \A h, n : OwnersOf(h, n)' = OwnersOf(h, n)
  BY DEF OwnersOf, Applies
<1>4. \A h, s, n : Says(h, s, n)' <=> Says(h, s, n)
  BY <1>1, <1>2, <1>3 DEF Says
<1> QED BY <1>1, <1>2, <1>4 DEF SourceChosen

LEMMA KeepsRequests ==
  ASSUME Handled, UNCHANGED << job, todo, decl_order, missing_required >>,
         pc' \in {"requests", "raised"} \/ (pc \notin {"requests", "raised"} /\ (pc' \in {"emit", "done"} => pc \in {"emit", "done"}))
  PROVE  Handled'
  BY DEF Handled, IsDeclared, Within

LEMMA KeepsHints ==
  ASSUME HintsKnown, UNCHANGED << job, owners >>, pc' \in {"resolve", "closure"} => pc \in {"resolve", "closure"}
  PROVE  HintsKnown'
<1>1. \A h, n : OwnersOf(h, n)' = OwnersOf(h, n)
  BY DEF OwnersOf, Applies
<1> QED BY <1>1 DEF HintsKnown

-----------------------------------------------------------------------------
(* The steps.                                                               *)

LEMMA StepReadRequests == ASSUME IInv, ReadRequests PROVE IInv'
<1>1. /\ pc = "requests" /\ todo' = job.names /\ pc' \in {"raised", "candidates"}
      /\ UNCHANGED << job, module_candidates, read, owners, duplicates, source_order, stack, marked, missing_required, decl_order, header >>
  BY DEF ReadRequests, inputs, hints, closes, chosen, output
<1>2. Given /\ job.names \in Seq(Names)
  BY JobTypes DEF IInv, Typed, Given
<1>3. Typed'
  BY <1>1, <1>2 DEF IInv, Typed, Steps
<1>4. Staged'
  BY <1>1 DEF IInv, Staged
<1>5. Handled'
  BY <1>1, <1>2 DEF Handled, Within
<1>6. HintsSoFar' /\ HintsKnown'
  BY <1>1 DEF HintsSoFar, HintsKnown
<1>7. SourceChosen' /\ Reach' /\ Minimal'
  BY <1>1, KeepsChoice, KeepsClosure DEF IInv
<1> QED BY <1>3, <1>4, <1>5, <1>6, <1>7 DEF IInv

LEMMA ArgumentsTyped ==
  ASSUME Given
  PROVE  Arguments \in Seq(Argument)
<1> DEFINE found == [k \in DOMAIN job.listed |-> [name |-> job.listed[k], file |-> NoFile]]
<1>1. job.given \in Seq(Argument) /\ job.listed \in Seq(Sources \ {Base})
  BY JobTypes
<1>2. \A k \in DOMAIN job.listed : found[k] \in Argument
  BY <1>1 DEF Argument
<1>3. found \in Seq(Argument)
  <2>1. PICK n \in Nat : DOMAIN job.listed = 1 .. n
    BY <1>1
  <2>2. DOMAIN found = 1 .. n /\ found = [k \in 1 .. n |-> found[k]]
    BY <2>1
  <2>3. \A k \in 1 .. n : found[k] \in Argument
    BY <1>2, <2>1
  <2> HIDE DEF found
  <2>4. found \in [1 .. n -> Argument]
    BY <2>2, <2>3
  <2> QED BY <2>4
<1> HIDE DEF found
<1>4. job.given \o found \in Seq(Argument)
  BY <1>1, <1>3, ConcatProperties
<1> QED BY <1>4 DEF Arguments, found

LEMMA StepAddCandidate == ASSUME IInv, AddCandidate PROVE IInv'
<1> DEFINE source_id == resolve_module_btf_path(Arguments[read + 1])
<1>1. /\ pc = "candidates" /\ read < Len(Arguments)
      /\ UNCHANGED << job, todo, owners, duplicates, source_order, stack, marked, missing_required, decl_order, header >>
      /\ \/ pc' = "raised" /\ UNCHANGED << read, module_candidates >>
         \/ /\ source_id # NoFile /\ pc' = pc /\ read' = read + 1
            /\ module_candidates' \in {module_candidates, Append(module_candidates, source_id)}
  BY DEF AddCandidate, inputs, hints, closes, chosen, output
<1>2. Given /\ read \in Nat /\ module_candidates \in Seq(Sources)
  BY DEF IInv, Typed, Given
<1>3. Arguments[read + 1] \in Argument
  BY <1>1, <1>2, ArgumentsTyped
<1>4. source_id \in Sources \cup {NoFile}
  BY <1>3 DEF resolve_module_btf_path, Argument
<1>5. module_candidates' \in Seq(Sources) /\ read' \in Nat /\ pc' \in {"raised", "candidates"}
  <2> HIDE DEF source_id
  <2> QED BY SMTT(60), <1>1, <1>2, <1>4
<1>6. Typed'
  BY <1>1, <1>5 DEF IInv, Typed, Steps
<1>7. Staged'
  BY <1>1, <1>5 DEF IInv, Staged
<1>8. Handled' /\ HintsSoFar' /\ HintsKnown'
  BY <1>1, <1>5, KeepsRequests DEF IInv, HintsSoFar, HintsKnown
<1>9. SourceChosen'
  BY <1>1 DEF IInv, Staged, SourceChosen, Within
<1>10. Reach' /\ Minimal'
  BY <1>1, KeepsClosure DEF IInv
<1> QED BY <1>6, <1>7, <1>8, <1>9, <1>10 DEF IInv

LEMMA StepLoadBase == ASSUME IInv, LoadBase PROVE IInv'
<1>1. /\ pc = "candidates" /\ pc' \in {"kallsyms", "raised"} /\ source_order' = << Base >> /\ read' = 0
      /\ UNCHANGED << job, module_candidates, todo, owners, duplicates, stack, marked, missing_required, decl_order, header >>
  BY DEF LoadBase, inputs, hints, closes, chosen, output
<1>2. Given /\ Base \in Sources /\ job.kallsyms \in Seq(Symbol)
  BY JobTypes DEF IInv, Typed, Given
<1>3. source_order' \in Seq(Sources) /\ source_order' # << >>
  BY <1>1, <1>2
<1>4. Typed'
  BY <1>1, <1>3 DEF IInv, Typed, Steps
<1>5. Staged'
  BY <1>1, <1>3 DEF IInv, Staged
<1>6. Handled' /\ HintsKnown'
  BY <1>1, KeepsRequests DEF IInv, HintsKnown
<1>7. HintsSoFar'
  <2>1. \A h, n : OwnersTo(h, n, 0) = {}
    BY DEF OwnersTo
  <2>2. \A h, n : OwnersTo(h, n, 0)' = OwnersTo(h, n, 0)
    BY <1>1 DEF OwnersTo, Applies
  <2>3. \A h \in Hints : DOMAIN owners'[h] = {} /\ duplicates'[h] = {}
    BY <1>1 DEF IInv, Staged
  <2>4. read' <= Len(job'.kallsyms)
    BY <1>1, <1>2
  <2>5. \A h, n : OwnersTo(h, n, read)' = {}
    BY <1>1, <2>1 DEF OwnersTo
  <2> QED BY <2>3, <2>4, <2>5 DEF HintsSoFar
<1>8. SourceChosen' /\ Reach' /\ Minimal'
  BY <1>1, KeepsChoice, KeepsClosure DEF IInv
<1> QED BY <1>4, <1>5, <1>6, <1>7, <1>8 DEF IInv

\* One line more says one thing more.
LEMMA OneMore ==
  ASSUME Given, read \in Nat, read < Len(job.kallsyms), NEW h \in Hints, NEW n
  PROVE  LET l == job.kallsyms[read + 1] IN
         /\ l \in Symbol
         /\ OwnersTo(h, n, read + 1) = OwnersTo(h, n, read) \cup (IF l.name = n /\ Applies(h, l) THEN {l.owner} ELSE {})
<1> DEFINE l == job.kallsyms[read + 1]
<1>1. job.kallsyms \in Seq(Symbol) /\ read + 1 \in DOMAIN job.kallsyms /\ 1 .. read + 1 = (1 .. read) \cup {read + 1}
  BY JobTypes
<1>2. l \in Symbol
  BY <1>1
<1>3. OwnersTo(h, n, read + 1) = OwnersTo(h, n, read) \cup (IF l.name = n /\ Applies(h, l) THEN {l.owner} ELSE {})
  BY <1>1 DEF OwnersTo
<1> QED BY <1>2, <1>3

LEMMA StepReadKallsyms == ASSUME IInv, ReadKallsyms PROVE IInv'
<1> DEFINE l == job.kallsyms[read + 1]
<1>1. /\ pc = "kallsyms" /\ pc' = pc /\ read < Len(job.kallsyms) /\ read' = read + 1
      /\ owners' = [h \in Hints |-> IF Applies(h, l) THEN remember_unique_owner(h, l).owners ELSE owners[h]]
      /\ duplicates' = [h \in Hints |-> IF Applies(h, l) THEN remember_unique_owner(h, l).duplicates ELSE duplicates[h]]
      /\ UNCHANGED << job, module_candidates, todo, source_order, stack, marked, missing_required, decl_order, header >>
  BY DEF ReadKallsyms, inputs, closes, chosen, output
<1>2. Given /\ read \in Nat /\ job.kallsyms \in Seq(Symbol)
  BY JobTypes DEF IInv, Typed, Given
<1>3. l \in Symbol /\ l.name \in Names /\ l.owner \in Sources
  BY <1>1, <1>2, OneMore DEF Symbol, Hints
<1> HIDE DEF l
<1>4. ASSUME NEW h \in Hints
      PROVE  \/ /\ Applies(h, l) /\ l.name \notin DOMAIN owners[h]
                /\ owners'[h] = [m \in DOMAIN owners[h] \cup {l.name} |-> IF m = l.name THEN l.owner ELSE owners[h][m]]
                /\ duplicates'[h] = duplicates[h]
             \/ /\ Applies(h, l) /\ l.name \in DOMAIN owners[h] /\ owners'[h] = owners[h]
                /\ duplicates'[h] = IF owners[h][l.name] # l.owner THEN duplicates[h] \cup {l.name} ELSE duplicates[h]
             \/ /\ ~Applies(h, l) /\ owners'[h] = owners[h] /\ duplicates'[h] = duplicates[h]
  BY <1>1 DEF remember_unique_owner, Owned
<1>5. ASSUME NEW h \in Hints
      PROVE  /\ DOMAIN owners'[h] \subseteq Names /\ duplicates'[h] \subseteq Names
             /\ \A n \in DOMAIN owners'[h] : owners'[h][n] \in Sources
  <2>1. /\ DOMAIN owners[h] \subseteq Names /\ duplicates[h] \subseteq Names
        /\ \A n \in DOMAIN owners[h] : owners[h][n] \in Sources
    BY DEF IInv, Typed
  <2> QED BY ZenonT(60), <1>3, <1>4, <2>1
<1>6. Typed'
  BY <1>1, <1>2, <1>5 DEF IInv, Typed, Steps
<1>7. Staged'
  BY <1>1 DEF IInv, Staged
<1>8. Handled' /\ HintsKnown'
  BY <1>1, KeepsRequests DEF IInv, HintsKnown
<1>9. ASSUME NEW h \in Hints, NEW n
      PROVE  /\ n \in DOMAIN owners'[h] <=> OwnersTo(h, n, read + 1) # {}
             /\ n \in DOMAIN owners'[h] => owners'[h][n] \in OwnersTo(h, n, read + 1)
             /\ n \in duplicates'[h] <=> (n \in DOMAIN owners'[h] /\ \E o \in OwnersTo(h, n, read + 1) : o # owners'[h][n])
  <2> DEFINE before == OwnersTo(h, n, read)  after == OwnersTo(h, n, read + 1)
  <2>1. /\ n \in DOMAIN owners[h] <=> before # {}
        /\ n \in DOMAIN owners[h] => owners[h][n] \in before
        /\ n \in duplicates[h] <=> (n \in DOMAIN owners[h] /\ \E o \in before : o # owners[h][n])
    BY <1>1 DEF IInv, HintsSoFar
  <2>2. after = before \cup (IF l.name = n /\ Applies(h, l) THEN {l.owner} ELSE {})
    BY <1>1, <1>2, OneMore DEF l
  <2> HIDE DEF before, after
  <2>3. CASE ~(l.name = n /\ Applies(h, l))
    <3>1. after = before
      BY <2>2, <2>3
    <3>2. /\ n \in DOMAIN owners'[h] <=> n \in DOMAIN owners[h]
          /\ n \in DOMAIN owners[h] => owners'[h][n] = owners[h][n]
          /\ n \in duplicates'[h] <=> n \in duplicates[h]
      BY <1>4, <2>3
    <3>3. /\ n \in DOMAIN owners'[h] <=> after # {}
          /\ n \in DOMAIN owners'[h] => owners'[h][n] \in after
          /\ n \in duplicates'[h] <=> (n \in DOMAIN owners'[h] /\ \E o \in after : o # owners'[h][n])
      BY <2>1, <3>1, <3>2
    <3> QED BY <3>3 DEF after
  <2>4. CASE l.name = n /\ Applies(h, l) /\ n \notin DOMAIN owners[h]
    <3>1. before = {} /\ after = {l.owner} /\ n \notin duplicates[h]
      BY <2>1, <2>2, <2>4
    <3>2. n \in DOMAIN owners'[h] /\ owners'[h][n] = l.owner /\ duplicates'[h] = duplicates[h]
      BY <1>4, <2>4
    <3> QED BY <3>1, <3>2 DEF after
  <2>5. CASE l.name = n /\ Applies(h, l) /\ n \in DOMAIN owners[h]
    <3>1. after = before \cup {l.owner}
      BY <2>2, <2>5
    <3>2. owners'[h] = owners[h] /\ duplicates'[h] = IF owners[h][n] # l.owner THEN duplicates[h] \cup {n} ELSE duplicates[h]
      BY <1>4, <2>5
    <3>3. /\ n \in DOMAIN owners'[h] <=> after # {}
          /\ n \in DOMAIN owners'[h] => owners'[h][n] \in after
          /\ n \in duplicates'[h] <=> (n \in DOMAIN owners'[h] /\ \E o \in after : o # owners'[h][n])
      BY <2>1, <2>5, <3>1, <3>2
    <3> QED BY <3>3 DEF after
  <2> QED BY <2>3, <2>4, <2>5
<1>10. HintsSoFar'
  <2>1. \A h, n : OwnersTo(h, n, read)' = OwnersTo(h, n, read + 1)
    BY <1>1 DEF OwnersTo, Applies
  <2>2. read' <= Len(job'.kallsyms)
    BY <1>1, <1>2
  <2> QED BY <1>9, <2>1, <2>2 DEF HintsSoFar
<1>11. SourceChosen' /\ Reach' /\ Minimal'
  BY <1>1, KeepsChoice, KeepsClosure DEF IInv
<1> QED BY <1>6, <1>7, <1>8, <1>10, <1>11 DEF IInv

LEMMA StepDropDuplicates == ASSUME IInv, DropDuplicates PROVE IInv'
<1>1. /\ pc = "kallsyms" /\ pc' = "resolve" /\ read = Len(job.kallsyms) /\ read' = 0
      /\ owners' = [h \in Hints |-> [n \in DOMAIN owners[h] \ duplicates[h] |-> owners[h][n]]]
      /\ UNCHANGED << job, module_candidates, todo, duplicates, source_order, stack, marked, missing_required, decl_order, header >>
  BY DEF DropDuplicates, inputs, closes, chosen, output
<1>2. Given /\ job.kallsyms \in Seq(Symbol)
  BY JobTypes DEF IInv, Typed, Given
<1>3. ASSUME NEW h \in Hints
      PROVE  /\ DOMAIN owners'[h] = DOMAIN owners[h] \ duplicates[h]
             /\ \A n \in DOMAIN owners'[h] : owners'[h][n] = owners[h][n]
  BY <1>1
<1>4. Typed'
  BY <1>1, <1>3 DEF IInv, Typed, Steps
<1>5. Staged'
  BY <1>1 DEF IInv, Staged
<1>6. Handled' /\ HintsSoFar'
  BY <1>1, KeepsRequests DEF IInv, HintsSoFar
<1>7. ASSUME NEW h \in Hints, NEW n
      PROVE  /\ n \in DOMAIN owners'[h] => OwnersOf(h, n) = {owners'[h][n]}
             /\ \A o : OwnersOf(h, n) = {o} => n \in DOMAIN owners'[h]
  <2>1. 1 .. read = DOMAIN job.kallsyms
    BY <1>1, <1>2
  <2>2. OwnersTo(h, n, read) = OwnersOf(h, n)
    BY <2>1 DEF OwnersTo, OwnersOf
  <2>3. /\ n \in DOMAIN owners[h] <=> OwnersOf(h, n) # {}
        /\ n \in DOMAIN owners[h] => owners[h][n] \in OwnersOf(h, n)
        /\ n \in duplicates[h] <=> (n \in DOMAIN owners[h] /\ \E o \in OwnersOf(h, n) : o # owners[h][n])
    BY <1>1, <2>2 DEF IInv, HintsSoFar
  <2> QED BY <1>3, <2>3
<1>8. HintsKnown'
  <2>1. \A h, n : OwnersOf(h, n)' = OwnersOf(h, n)
    BY <1>1 DEF OwnersOf, Applies
  <2> QED BY <1>7, <2>1 DEF HintsKnown
<1>9. SourceChosen' /\ Reach' /\ Minimal'
  BY <1>1, KeepsChoice, KeepsClosure DEF IInv
<1> QED BY <1>4, <1>5, <1>6, <1>8, <1>9 DEF IInv

LEMMA StepLoadSource == ASSUME IInv, LoadSource PROVE IInv'
<1>1. /\ pc = "resolve" /\ pc' \in {"resolve", "raised"}
      /\ UNCHANGED << job, module_candidates, todo, read, owners, duplicates, stack, marked, missing_required, decl_order, header >>
      /\ \/ source_order' = source_order
         \/ \E k \in DOMAIN module_candidates : source_order' = Append(source_order, module_candidates[k])
  BY DEF LoadSource, inputs, hints, closes, chosen, output
<1>2. module_candidates \in Seq(Sources) /\ source_order \in Seq(Sources) /\ source_order # << >>
  BY <1>1 DEF IInv, Typed, Staged
<1>3. source_order' \in Seq(Sources) /\ source_order' # << >>
  <2>1. ASSUME NEW k \in DOMAIN module_candidates, source_order' = Append(source_order, module_candidates[k])
        PROVE  source_order' \in Seq(Sources) /\ source_order' # << >>
    <3>1. module_candidates[k] \in Sources
      BY <1>2
    <3> QED BY <1>2, <2>1, <3>1, Appended
  <2> QED BY <1>1, <1>2, <2>1
<1>4. Typed'
  BY <1>1, <1>3 DEF IInv, Typed, Steps
<1>5. Staged'
  BY <1>1, <1>3 DEF IInv, Staged
<1>6. Handled' /\ HintsSoFar' /\ HintsKnown'
  BY <1>1, KeepsRequests, KeepsHints DEF IInv, HintsSoFar
<1>7. SourceChosen' /\ Reach' /\ Minimal'
  BY <1>1, KeepsChoice, KeepsClosure DEF IInv
<1> QED BY <1>4, <1>5, <1>6, <1>7 DEF IInv

\* The first request, without a source.
LEMMA StepMissing ==
  ASSUME IInv, pc = "resolve", todo # << >>, pc' = pc, todo' = Tail(todo),
         missing_required' = missing_required \cup {Head(todo)},
         UNCHANGED << job, module_candidates, read, owners, duplicates, source_order, stack, marked, decl_order, header >>
  PROVE  IInv'
<1>1. todo \in Seq(Names)
  BY DEF IInv, Typed
<1>2. todo' \in Seq(Names) /\ Head(todo) \in Names /\ \A y : Within(y, todo) <=> Within(y, todo') \/ y = Head(todo)
  BY <1>1, Shortened
<1>3. Typed'
  BY <1>2 DEF IInv, Typed
<1>4. Staged' /\ HintsSoFar' /\ HintsKnown'
  BY KeepsHints DEF IInv, Staged, HintsSoFar
<1>5. Handled'
  <2> SUFFICES ASSUME NEW k \in DOMAIN job.names
               PROVE  Within(job.names[k], todo') \/ IsDeclared(job.names[k])' \/ job.names[k] \in missing_required'
    BY DEF Handled
  <2>1. Within(job.names[k], todo) \/ IsDeclared(job.names[k]) \/ job.names[k] \in missing_required
    BY DEF IInv, Handled
  <2> QED BY <1>2, <2>1 DEF IsDeclared
<1>6. SourceChosen' /\ Reach' /\ Minimal'
  BY KeepsChoice, KeepsClosure DEF IInv
<1> QED BY <1>3, <1>4, <1>5, <1>6 DEF IInv

\* What the hints leave over is the source that SourceChosen asks for.
LEMMA OneMatch ==
  ASSUME IInv, pc = "resolve", NEW fn,
         NEW k \in filter_matches_by_owner_hints(fn, discover_sources_for_func(fn)),
         filter_matches_by_owner_hints(fn, discover_sources_for_func(fn)) = {k}
  PROVE  LET s == SourceAt(k) IN
         /\ s \in Sources /\ s \in Searched /\ FuncIds(s, fn) # {}
         /\ \/ Says("text", s, fn)
            \/ (\A z \in Sources : ~Says("text", z, fn)) /\ Says("exported", s, fn)
            \/ \A z \in Searched : /\ ~Says("text", z, fn) /\ ~Says("exported", z, fn)
                                   /\ FuncIds(z, fn) # {} => z = s
<1> DEFINE s == SourceAt(k)
           all == discover_sources_for_func(fn)
           By(h) == {j \in all : fn \in DOMAIN owners[h] /\ SourceAt(j) = owners[h][fn]}
<1>1. \A h \in Hints : /\ fn \in DOMAIN owners[h] => OwnersOf(h, fn) = {owners[h][fn]}
                       /\ \A o : OwnersOf(h, fn) = {o} => fn \in DOMAIN owners[h]
  BY DEF IInv, HintsKnown
<1>2. "text" \in Hints /\ "exported" \in Hints
  BY DEF Hints
<1>3. filter_matches_by_owner_hints(fn, all) =
        IF By("text") # {} THEN By("text") ELSE IF By("exported") # {} THEN By("exported") ELSE all
  BY DEF filter_matches_by_owner_hints
<1>4. \A j : j \in all <=> j \in 0 .. Len(module_candidates) /\ FuncIds(SourceAt(j), fn) # {}
  BY DEF discover_sources_for_func
<1>5. \A z : z \in Searched <=> \E j \in 0 .. Len(module_candidates) : z = SourceAt(j)
  BY DEF Searched
<1>6. \A j : \A h : j \in By(h) <=> j \in all /\ fn \in DOMAIN owners[h] /\ SourceAt(j) = owners[h][fn]
  OBVIOUS
<1> HIDE DEF all, By
<1>7. k \in all
  <2>1. k \in By("text") \/ k \in By("exported") \/ k \in all
    BY <1>3 DEF all
  <2> QED BY <1>6, <2>1
<1>8. s \in Searched /\ FuncIds(s, fn) # {}
  BY <1>4, <1>5, <1>7
<1>9. s \in Sources
  <2>1. module_candidates \in Seq(Sources) /\ Base \in Sources
    BY HeaderConstants DEF IInv, Typed
  <2>2. k \in 0 .. Len(module_candidates)
    BY <1>4, <1>7
  <2>3. CASE k = 0
    BY <2>1, <2>3 DEF SourceAt
  <2>4. CASE k # 0
    <3>1. k \in DOMAIN module_candidates
      BY <2>1, <2>2, <2>4
    <3> QED BY <2>1, <2>4, <3>1 DEF SourceAt
  <2> QED BY <2>3, <2>4
<1>10. ASSUME NEW h \in Hints, NEW z, Says(h, z, fn) PROVE \E j \in By(h) : z = SourceAt(j)
  <2>1. OwnersOf(h, fn) = {z} /\ z \in Searched /\ FuncIds(z, fn) # {}
    BY <1>10 DEF Says
  <2>2. PICK j \in 0 .. Len(module_candidates) : z = SourceAt(j)
    BY <1>5, <2>1
  <2>3. fn \in DOMAIN owners[h] /\ owners[h][fn] = z
    BY <1>1, <2>1
  <2>4. j \in all
    BY <1>4, <2>1, <2>2
  <2> QED BY <1>6, <2>2, <2>3, <2>4
<1>11. ASSUME NEW h \in Hints, By(h) = {k} PROVE Says(h, s, fn)
  <2>1. k \in By(h)
    BY <1>11
  <2>2. fn \in DOMAIN owners[h] /\ s = owners[h][fn]
    BY <1>6, <2>1
  <2>3. OwnersOf(h, fn) = {s}
    BY <1>1, <2>2
  <2> QED BY <1>8, <2>3 DEF Says
<1>12. CASE By("text") # {}
  BY <1>2, <1>3, <1>8, <1>9, <1>11, <1>12 DEF all
<1>13. CASE By("text") = {} /\ By("exported") # {}
  <2>1. \A z : ~Says("text", z, fn)
    BY <1>2, <1>10, <1>13
  <2>2. Says("exported", s, fn)
    BY <1>2, <1>3, <1>11, <1>13 DEF all
  <2> QED BY <1>8, <1>9, <2>1, <2>2
<1>14. CASE By("text") = {} /\ By("exported") = {}
  <2>1. \A z : ~Says("text", z, fn) /\ ~Says("exported", z, fn)
    BY <1>2, <1>10, <1>14
  <2>2. all = {k}
    BY <1>3, <1>14 DEF all
  <2>3. ASSUME NEW z \in Searched, FuncIds(z, fn) # {} PROVE z = s
    <3>1. PICK j \in 0 .. Len(module_candidates) : z = SourceAt(j)
      BY <1>5
    <3>2. j \in all
      BY <1>4, <2>3, <3>1
    <3> QED BY <2>2, <3>1, <3>2
  <2> QED BY <1>8, <1>9, <2>1, <2>3
<1> QED BY <1>12, <1>13, <1>14

\* The declaration of a function is added once.
LEMMA Declare ==
  ASSUME NEW s \in Sources, NEW fn \in Names, decl_order \in Seq(Sources \X Names),
         decl_order' = IF Within(<< s, fn >>, decl_order) THEN decl_order ELSE Append(decl_order, << s, fn >>)
  PROVE  /\ decl_order' \in Seq(Sources \X Names)
         /\ \A d \in DOMAIN decl_order : d \in DOMAIN decl_order' /\ decl_order'[d] = decl_order[d]
         /\ \A d \in DOMAIN decl_order' : decl_order'[d] = << s, fn >> \/ (d \in DOMAIN decl_order /\ decl_order'[d] = decl_order[d])
         /\ \E d \in DOMAIN decl_order' : decl_order'[d] = << s, fn >>
<1> DEFINE keys == Sources \X Names
           key == << s, fn >>
<1>1. decl_order \in Seq(keys) /\ key \in keys /\ decl_order' = Plus(decl_order, key)
  BY DEF Plus
<1> HIDE DEF keys, key
<1>2. Plus(decl_order, key) \in Seq(keys)
  BY <1>1, Extended, Zenon
<1>3. \A d \in DOMAIN decl_order : d \in DOMAIN Plus(decl_order, key) /\ Plus(decl_order, key)[d] = decl_order[d]
  BY <1>1, Extended
<1>4. \A d \in DOMAIN Plus(decl_order, key) :
         Plus(decl_order, key)[d] = key \/ (d \in DOMAIN decl_order /\ Plus(decl_order, key)[d] = decl_order[d])
  BY <1>1, Extended
<1>5. \E d \in DOMAIN Plus(decl_order, key) : Plus(decl_order, key)[d] = key
  BY <1>1, Extended
<1>6. /\ decl_order' \in Seq(keys)
      /\ \A d \in DOMAIN decl_order : d \in DOMAIN decl_order' /\ decl_order'[d] = decl_order[d]
      /\ \A d \in DOMAIN decl_order' : decl_order'[d] = key \/ (d \in DOMAIN decl_order /\ decl_order'[d] = decl_order[d])
      /\ \E d \in DOMAIN decl_order' : decl_order'[d] = key
  BY <1>1, <1>2, <1>3, <1>4, <1>5, Zenon
<1> QED BY <1>6, Zenon DEF keys, key

\* The first request, with its source.
LEMMA StepResolved ==
  ASSUME IInv, pc = "resolve", todo # << >>, pc' = "closure", todo' = Tail(todo), NEW fn, fn = Head(todo),
         NEW k \in filter_matches_by_owner_hints(fn, discover_sources_for_func(fn)),
         filter_matches_by_owner_hints(fn, discover_sources_for_func(fn)) = {k}, NEW s, s = SourceAt(k),
         decl_order' = IF Within(<< s, fn >>, decl_order) THEN decl_order ELSE Append(decl_order, << s, fn >>),
         stack' = << [src |-> s, id |-> find_func_proto_id(s, fn), depth |-> 1] >>,
         UNCHANGED << job, module_candidates, read, owners, duplicates, source_order, marked, missing_required, header >>
  PROVE  IInv'
<1> DEFINE p == find_func_proto_id(s, fn)
<1>1. /\ s \in Sources /\ s \in Searched /\ FuncIds(s, fn) # {}
      /\ \/ Says("text", s, fn)
         \/ (\A z \in Sources : ~Says("text", z, fn)) /\ Says("exported", s, fn)
         \/ \A z \in Searched : /\ ~Says("text", z, fn) /\ ~Says("exported", z, fn)
                                /\ FuncIds(z, fn) # {} => z = s
  BY OneMatch
<1>2. Given /\ todo \in Seq(Names) /\ decl_order \in Seq(Sources \X Names) /\ stack = << >> /\ source_order # << >>
  BY DEF IInv, Typed, Staged, Given
<1>3. todo' \in Seq(Names) /\ fn \in Names /\ \A y : Within(y, todo) <=> Within(y, todo') \/ y = fn
  BY <1>2, Shortened
<1>4. p \in Ids /\ p # 0
  BY <1>1, <1>2, ProtoId
<1> HIDE DEF p
<1>5. stack' = << [src |-> s, id |-> p, depth |-> 1] >> /\ [src |-> s, id |-> p, depth |-> 1] \in Call
  BY <1>1, <1>4 DEF p, Call
<1>6. /\ decl_order' \in Seq(Sources \X Names)
      /\ \A d \in DOMAIN decl_order : d \in DOMAIN decl_order' /\ decl_order'[d] = decl_order[d]
      /\ \A d \in DOMAIN decl_order' : decl_order'[d] = << s, fn >> \/ (d \in DOMAIN decl_order /\ decl_order'[d] = decl_order[d])
      /\ \E d \in DOMAIN decl_order' : decl_order'[d] = << s, fn >>
  BY <1>1, <1>2, <1>3, Declare
<1>7. Typed'
  <2>1. stack' \in Seq(Call)
    BY <1>5
  <2> QED BY <1>3, <1>6, <2>1 DEF IInv, Typed, Steps
<1>8. Staged' /\ HintsSoFar' /\ HintsKnown'
  BY <1>2, KeepsHints DEF IInv, Staged, HintsSoFar
<1>9. Handled'
  <2> SUFFICES ASSUME NEW j \in DOMAIN job.names
               PROVE  Within(job.names[j], todo') \/ IsDeclared(job.names[j])' \/ job.names[j] \in missing_required'
    BY DEF Handled
  <2>1. Within(job.names[j], todo) \/ IsDeclared(job.names[j]) \/ job.names[j] \in missing_required
    BY DEF IInv, Handled
  <2>2. ASSUME IsDeclared(job.names[j]) PROVE IsDeclared(job.names[j])'
    BY <1>6, <2>2 DEF IsDeclared
  <2>3. ASSUME job.names[j] = fn PROVE IsDeclared(job.names[j])'
    BY <1>6, <2>3 DEF IsDeclared
  <2> QED BY <1>3, <2>1, <2>2, <2>3
<1>10. SourceChosen'
  <2>1. Searched' = Searched
    BY DEF Searched, SourceAt
  <2>2. \A t, n : FuncIds(t, n)' = FuncIds(t, n)
    BY DEF FuncIds, types
  <2>3. \A h, n : OwnersOf(h, n)' = OwnersOf(h, n)
    BY DEF OwnersOf, Applies
  <2>4. \A h, t, n : Says(h, t, n)' <=> Says(h, t, n)
    BY <2>1, <2>2, <2>3 DEF Says
  <2>5. SourceChosen
    BY DEF IInv
  <2>6. ASSUME NEW t \in Sources, NEW n \in Names, Within(<< t, n >>, decl_order)'
        PROVE  (t = s /\ n = fn) \/ Within(<< t, n >>, decl_order)
    <3>1. PICK d \in DOMAIN decl_order' : decl_order'[d] = << t, n >>
      BY <2>6 DEF Within
    <3> QED BY <1>6, <3>1 DEF Within
  <2>7. ASSUME NEW t \in Sources, NEW n \in Names, Within(<< t, n >>, decl_order)'
        PROVE  /\ t \in Searched /\ FuncIds(t, n) # {}
               /\ \/ Says("text", t, n)
                  \/ (\A z \in Sources : ~Says("text", z, n)) /\ Says("exported", t, n)
                  \/ \A z \in Searched : /\ ~Says("text", z, n) /\ ~Says("exported", z, n)
                                         /\ FuncIds(z, n) # {} => z = t
    <3>1. CASE t = s /\ n = fn
      BY <1>1, <3>1
    <3>2. CASE Within(<< t, n >>, decl_order)
      BY <2>5, <3>2 DEF SourceChosen
    <3> QED BY <2>6, <2>7, <3>1, <3>2
  <2> QED BY <2>1, <2>2, <2>4, <2>7 DEF SourceChosen
<1>11. Waiting = {} /\ Waiting' = {Meant(s, p)}
  <2>1. \A y : ~Within(y, stack)
    BY <1>2 DEF Within
  <2>2. \A y : Within(y, stack') <=> y = [src |-> s, id |-> p, depth |-> 1]
    BY <1>5 DEF Within
  <2>3. \A t, i : Meant(t, i)' = Meant(t, i)
    BY DEF Meant
  <2> QED BY <1>4, <1>5, <2>1, <2>2, <2>3 DEF Waiting
<1>12. Prototypes' = Prototypes \cup {Meant(s, p)}
  <2>1. \A t, i : Meant(t, i)' = Meant(t, i)
    BY DEF Meant
  <2>2. \A t, n : find_func_proto_id(t, n)' = find_func_proto_id(t, n)
    BY ZenonT(60) DEF find_func_proto_id, FuncIds, types
  <2>3. \A d \in DOMAIN decl_order : Meant(decl_order[d][1], find_func_proto_id(decl_order[d][1], decl_order[d][2])) \in Prototypes'
    BY <1>6, <2>1, <2>2 DEF Prototypes
  <2>4. Meant(s, p) \in Prototypes'
    BY <1>6, <2>1, <2>2 DEF Prototypes, p
  <2>5. \A y \in Prototypes' : y \in Prototypes \/ y = Meant(s, p)
    BY <1>6, <2>1, <2>2 DEF Prototypes, p
  <2>6. Prototypes \subseteq Prototypes'
    BY <2>3 DEF Prototypes
  <2> QED BY SMTT(60), <2>4, <2>5, <2>6
<1>13. \A y : RefersTo(y)' = RefersTo(y)
  BY DEF RefersTo, Meant, types
<1>14. Reach'
  BY <1>11, <1>12, <1>13 DEF IInv, Reach
<1>15. Minimal'
  BY <1>11, <1>12, <1>13 DEF IInv, Minimal, ClosedIn
<1> QED BY <1>7, <1>8, <1>9, <1>10, <1>14, <1>15 DEF IInv

LEMMA StepResolveRequest == ASSUME IInv, ResolveRequest PROVE IInv'
<1> DEFINE fn == Head(todo)
           matches == filter_matches_by_owner_hints(fn, discover_sources_for_func(fn))
<1>1. /\ pc = "resolve" /\ todo # << >> /\ todo' = Tail(todo)
      /\ UNCHANGED << job, module_candidates, read, owners, duplicates, source_order, marked, header >>
      /\ \/ missing_required' = missing_required \cup {fn} /\ UNCHANGED << pc, decl_order, stack >>
         \/ \E k \in matches :
              /\ matches = {k} /\ pc' = "closure" /\ UNCHANGED missing_required
              /\ decl_order' = IF Within(<< SourceAt(k), fn >>, decl_order) THEN decl_order ELSE Append(decl_order, << SourceAt(k), fn >>)
              /\ stack' = << [src |-> SourceAt(k), id |-> find_func_proto_id(SourceAt(k), fn), depth |-> 1] >>
  BY DEF ResolveRequest, inputs, hints, output
<1>2. CASE missing_required' = missing_required \cup {fn} /\ UNCHANGED << pc, decl_order, stack >>
  BY <1>1, <1>2, StepMissing
<1>3. ASSUME NEW k \in matches, matches = {k}, pc' = "closure", UNCHANGED missing_required,
             decl_order' = IF Within(<< SourceAt(k), fn >>, decl_order) THEN decl_order ELSE Append(decl_order, << SourceAt(k), fn >>),
             stack' = << [src |-> SourceAt(k), id |-> find_func_proto_id(SourceAt(k), fn), depth |-> 1] >>
      PROVE  IInv'
  BY <1>1, <1>3, StepResolved
<1> QED BY <1>1, <1>2, <1>3

\* A call that returns at once.
LEMMA StepCallReturns ==
  ASSUME IInv, pc = "closure", stack # << >>, pc' = pc, NEW c, c = Head(stack), NEW y, y = lookup_type(c.src, c.id),
         c.id = 0 \/ y \in marked, stack' = Tail(stack),
         UNCHANGED << job, module_candidates, todo, read, owners, duplicates, source_order, marked, missing_required, decl_order, header >>
  PROVE  IInv'
<1>1. Given /\ stack \in Seq(Call)
  BY DEF IInv, Typed, Given
<1>2. stack' \in Seq(Call) /\ c \in Call /\ \A e : Within(e, stack) <=> Within(e, stack') \/ e = c
  BY <1>1, Shortened
<1>3. Typed'
  BY <1>2 DEF IInv, Typed
<1>4. Staged' /\ HintsSoFar' /\ Handled' /\ HintsKnown'
  BY KeepsRequests, KeepsHints DEF IInv, Staged, HintsSoFar
<1>5. SourceChosen'
  BY KeepsChoice DEF IInv
<1>6. \A t, i : Meant(t, i)' = Meant(t, i)
  BY DEF Meant
<1>7. marked \cup Waiting = marked \cup Waiting'
  <2>1. Waiting' \subseteq Waiting
    BY <1>2, <1>6 DEF Waiting
  <2>2. ASSUME NEW z \in Waiting PROVE z \in Waiting' \cup marked
    <3>1. PICK e \in Call : Within(e, stack) /\ e.id # 0 /\ z = Meant(e.src, e.id)
      BY DEF Waiting
    <3>2. CASE e = c
      BY <3>1, <3>2, Looked
    <3>3. CASE Within(e, stack')
      BY <3>1, <3>3, <1>6 DEF Waiting
    <3> QED BY <1>2, <3>1, <3>2, <3>3
  <2> QED BY <2>1, <2>2
<1>8. Prototypes' = Prototypes
  BY DEF Prototypes, Meant, find_func_proto_id, FuncIds, types
<1>9. \A z : RefersTo(z)' = RefersTo(z)
  BY DEF RefersTo, Meant, types
<1>10. Reach' /\ Minimal'
  BY <1>7, <1>8, <1>9 DEF IInv, Reach, Minimal, ClosedIn
<1> QED BY <1>3, <1>4, <1>5, <1>10 DEF IInv

\* The calls for what a type refers to.
CallsOf(y, depth) == [k \in DOMAIN References(y) |-> [src |-> y[1], id |-> References(y)[k], depth |-> depth + 1]]
On(s) == {Meant(c.src, c.id) : c \in {c \in Call : Within(c, s) /\ c.id # 0}}

LEMMA CallsOn ==
  ASSUME Given, NEW y \in Place, NEW depth \in Nat
  PROVE  CallsOf(y, depth) \in Seq(Call) /\ On(CallsOf(y, depth)) = RefersTo(y)
<1> DEFINE calls == CallsOf(y, depth)
<1>1. References(y) \in Seq(Ids \cup {0}) /\ y[1] \in Sources
  BY Referred DEF Place
<1>2. RefersTo(y) = {Meant(y[1], References(y)[k]) : k \in {k \in DOMAIN References(y) : References(y)[k] # 0}}
  BY Referred
<1>3. \A k \in DOMAIN References(y) : References(y)[k] \in Ids \cup {0}
  BY <1>1
<1>4. /\ DOMAIN calls = DOMAIN References(y)
      /\ \A k \in DOMAIN calls : calls[k] = [src |-> y[1], id |-> References(y)[k], depth |-> depth + 1] /\ calls[k] \in Call
  BY <1>1, <1>3 DEF Call, CallsOf
<1> HIDE DEF calls
<1>5. calls \in Seq(Call)
  <2>1. PICK n \in Nat : DOMAIN References(y) = 1 .. n
    BY <1>1
  <2>2. calls = [k \in 1 .. n |-> calls[k]]
    BY <2>1 DEF calls, CallsOf
  <2>3. calls \in [1 .. n -> Call]
    BY <1>4, <2>1, <2>2
  <2> QED BY <2>3
<1>6. ASSUME NEW c \in Call, Within(c, calls), c.id # 0 PROVE Meant(c.src, c.id) \in RefersTo(y)
  <2>1. PICK k \in DOMAIN calls : calls[k] = c
    BY <1>6 DEF Within
  <2>2. c.src = y[1] /\ c.id = References(y)[k]
    BY <1>4, <2>1
  <2> QED BY <1>2, <1>4, <1>6, <2>1, <2>2
<1>7. ASSUME NEW k \in DOMAIN References(y), References(y)[k] # 0
      PROVE  \E c \in Call : Within(c, calls) /\ c.id # 0 /\ Meant(y[1], References(y)[k]) = Meant(c.src, c.id)
  <2>1. calls[k] \in Call /\ calls[k].src = y[1] /\ calls[k].id = References(y)[k] /\ Within(calls[k], calls)
    BY <1>4 DEF Within
  <2> QED BY <1>7, <2>1
<1>8. On(calls) = RefersTo(y)
  BY SMTT(60), <1>2, <1>6, <1>7 DEF On
<1> QED BY <1>5, <1>8 DEF calls

\* A call that marks a type and goes on to its types.
LEMMA StepCallMarks ==
  ASSUME IInv, pc = "closure", stack # << >>, pc' = pc, NEW c, c = Head(stack), NEW y, y = lookup_type(c.src, c.id),
         c.id # 0, NEW depth \in Nat, marked' = marked \cup {y},
         stack' = [k \in DOMAIN References(y) |-> [src |-> y[1], id |-> References(y)[k], depth |-> depth + 1]] \o Tail(stack),
         UNCHANGED << job, module_candidates, todo, read, owners, duplicates, source_order, missing_required, decl_order, header >>
  PROVE  IInv'
<1> DEFINE calls == CallsOf(y, depth)
           rest  == Tail(stack)
<1>1. Given /\ stack \in Seq(Call) /\ marked \subseteq Place
  BY SMTT(60) DEF IInv, Typed, Given
<1>2. rest \in Seq(Call) /\ c \in Call /\ \A e : Within(e, stack) <=> Within(e, rest) \/ e = c
  BY <1>1, Shortened
<1>3. y = Meant(c.src, c.id) /\ y \in Place
  <2>1. c.src \in Sources /\ c.id \in Ids
    BY SMTT(60), <1>2 DEF Call
  <2> QED BY SMTT(60), <1>1, <2>1, Looked, MeantPlace
<1>4. calls \in Seq(Call) /\ On(calls) = RefersTo(y)
  BY SMTT(60), <1>1, <1>3, CallsOn
<1>5. stack' = calls \o rest
  BY SMTT(60) DEF CallsOf
<1> HIDE DEF calls, rest
<1>6. stack' \in Seq(Call) /\ \A e : Within(e, stack') <=> Within(e, calls) \/ Within(e, rest)
  BY <1>2, <1>4, <1>5, Joined
<1>7. Typed'
  BY <1>1, <1>3, <1>6 DEF IInv, Typed
<1>8. Staged' /\ HintsSoFar' /\ Handled' /\ HintsKnown'
  BY SMTT(60), KeepsRequests, KeepsHints DEF IInv, Staged, HintsSoFar
<1>9. SourceChosen'
  BY SMTT(60), KeepsChoice DEF IInv
<1>10. \A t, i : Meant(t, i)' = Meant(t, i)
  BY SMTT(60) DEF Meant
<1>11. Waiting = On(rest) \cup {y}
  BY <1>2, <1>3 DEF Waiting, On
<1>12. Waiting' = On(rest) \cup RefersTo(y)
  <2>1. Waiting' = {Meant(e.src, e.id) : e \in {e \in Call : (Within(e, calls) \/ Within(e, rest)) /\ e.id # 0}}
    BY <1>6, <1>10 DEF Waiting
  <2>2. Waiting' = On(calls) \cup On(rest)
    BY <2>1 DEF On
  <2> QED BY <1>4, <2>2
<1>13. Prototypes' = Prototypes
  BY SMTT(60) DEF Prototypes, Meant, find_func_proto_id, FuncIds, types
<1>14. \A z : RefersTo(z)' = RefersTo(z)
  BY SMTT(60) DEF RefersTo, Meant, types
<1>15. Reach'
  BY SMTT(60), <1>11, <1>12, <1>13, <1>14 DEF IInv, Reach
<1>16. Minimal'
  <2> SUFFICES ASSUME NEW S \in SUBSET Place, ClosedIn(S) PROVE marked' \cup Waiting' \subseteq S
    BY SMTT(60), <1>13, <1>14 DEF Minimal, ClosedIn
  <2>1. marked \cup Waiting \subseteq S
    BY SMTT(60) DEF IInv, Minimal
  <2>2. y \in S /\ RefersTo(y) \subseteq S
    BY SMTT(60), <1>11, <2>1 DEF ClosedIn
  <2> QED BY SMTT(60), <1>11, <1>12, <2>1, <2>2
<1> QED BY SMTT(60), <1>7, <1>8, <1>9, <1>15, <1>16 DEF IInv

LEMMA StepAddTypeClosure == ASSUME IInv, add_type_closure PROVE IInv'
<1> DEFINE c == Head(stack)
           y == lookup_type(c.src, c.id)
           depth == IF y[1] = c.src THEN c.depth ELSE c.depth + 1
<1>1. /\ pc = "closure" /\ stack # << >>
      /\ UNCHANGED << job, module_candidates, todo, read, owners, duplicates, source_order, missing_required, decl_order, header >>
      /\ \/ pc' = "raised" /\ UNCHANGED << stack, marked >>
         \/ pc' = pc /\ (c.id = 0 \/ y \in marked) /\ stack' = Tail(stack) /\ UNCHANGED marked
         \/ /\ pc' = pc /\ c.id # 0 /\ marked' = marked \cup {y}
            /\ stack' = [k \in DOMAIN References(y) |-> [src |-> y[1], id |-> References(y)[k], depth |-> depth + 1]] \o Tail(stack)
  BY DEF add_type_closure, inputs, hints, closes, chosen, output
<1>2. CASE pc' = "raised" /\ UNCHANGED << stack, marked >>
  <2>1. Typed'
    BY <1>1, <1>2 DEF IInv, Typed, Steps
  <2>2. Staged' /\ Handled' /\ HintsSoFar' /\ HintsKnown'
    BY <1>1, <1>2 DEF Staged, Handled, HintsSoFar, HintsKnown
  <2>3. SourceChosen' /\ Reach' /\ Minimal'
    BY SMTT(60), <1>1, <1>2, KeepsChoice, KeepsClosure DEF IInv
  <2> QED BY <2>1, <2>2, <2>3 DEF IInv
<1>3. CASE pc' = pc /\ (c.id = 0 \/ y \in marked) /\ stack' = Tail(stack) /\ UNCHANGED marked
  BY ZenonT(60), <1>1, <1>3, StepCallReturns
<1>4. CASE /\ pc' = pc /\ c.id # 0 /\ marked' = marked \cup {y}
           /\ stack' = [k \in DOMAIN References(y) |-> [src |-> y[1], id |-> References(y)[k], depth |-> depth + 1]] \o Tail(stack)
  <2>1. depth \in Nat
    <3>1. stack \in Seq(Call)
      BY SMTT(60) DEF IInv, Typed
    <3>2. c \in Call
      BY <1>1, <3>1, Shortened
    <3> QED BY <3>2 DEF Call
  <2> QED BY <1>1, <1>4, <2>1, StepCallMarks
<1> QED BY ZenonT(60), <1>1, <1>2, <1>3, <1>4

\* The steps that only move on: the types and the sources of the functions stay.
LEMMA MovesOn ==
  ASSUME IInv, UNCHANGED << job, module_candidates, todo, owners, duplicates, stack, marked, missing_required, decl_order >>,
         pc \in {"resolve", "closure", "emit"}, pc' \in {"resolve", "emit", "done", "raised"},
         pc' = "resolve" => pc = "closure" /\ stack = << >>, pc = "closure" => pc' = "resolve",
         pc' \in {"emit", "done"} => pc = "emit" \/ (todo = << >> /\ missing_required = {}),
         read' \in Nat, source_order' \in Seq(Sources), header' \in Seq(Decl), pc' = "resolve" => source_order' = source_order
  PROVE  IInv'
<1>1. Typed'
  BY DEF IInv, Typed, Steps
<1>2. Staged'
  BY DEF IInv, Staged
<1>3. Handled'
  BY DEF IInv, Handled, IsDeclared, Within
<1>4. HintsSoFar'
  BY DEF HintsSoFar
<1>5. HintsKnown'
  BY KeepsHints DEF IInv
<1>6. SourceChosen' /\ Reach' /\ Minimal'
  BY KeepsChoice, KeepsClosure DEF IInv
<1> QED BY <1>1, <1>2, <1>3, <1>4, <1>5, <1>6 DEF IInv

LEMMA StepEndClosure == ASSUME IInv, EndClosure PROVE IInv'
<1>1. read \in Nat /\ source_order \in Seq(Sources) /\ header \in Seq(Decl)
  BY DEF IInv, Typed
<1> QED BY <1>1, MovesOn DEF EndClosure, inputs, hints, closes, chosen, output

LEMMA StepEndRequests == ASSUME IInv, EndRequests PROVE IInv'
<1>1. read \in Nat /\ source_order \in Seq(Sources) /\ header \in Seq(Decl) /\ source_order # << >> /\ Base \in Sources
  BY HeaderConstants DEF IInv, Typed, Staged, EndRequests
<1>2. Tail(source_order) \in Seq(Sources)
  BY <1>1, HeadTailProperties
<1>3. Append(Tail(source_order), Base) \in Seq(Sources)
  BY <1>1, <1>2
<1>4. source_order' \in Seq(Sources)
  BY <1>1, <1>3 DEF EndRequests
<1> QED BY <1>1, <1>4, MovesOn DEF EndRequests, inputs, hints, closes, chosen, output

LEMMA StepEmitDecl == ASSUME IInv, EmitDecl PROVE IInv'
<1> DEFINE s == Head(source_order)
           d == job.btf[s].dump[read + 1]
<1>1. /\ pc = "emit" /\ pc' = pc /\ source_order # << >> /\ read < Len(job.btf[s].dump) /\ read' = read + 1
      /\ UNCHANGED << job, module_candidates, todo, owners, duplicates, source_order, stack, marked, missing_required, decl_order >>
      /\ header' \in {Append(header, d), header}
  BY DEF EmitDecl, inputs, hints, closes, chosen
<1>2. Given /\ read \in Nat /\ source_order \in Seq(Sources) /\ header \in Seq(Decl)
  BY DEF IInv, Typed, Given
<1>3. s \in Sources
  BY <1>1, <1>2, HeadTailProperties
<1>4. job.btf[s].dump \in Seq(Decl)
  BY <1>2, <1>3, JobTypes
<1>5. d \in Decl
  BY <1>1, <1>2, <1>4
<1> HIDE DEF s, d
<1>6. header' \in Seq(Decl)
  BY SMTT(60), <1>1, <1>2, <1>5
<1> QED BY <1>1, <1>2, <1>6, MovesOn

LEMMA StepEndSource == ASSUME IInv, EndSource PROVE IInv'
<1>1. read \in Nat /\ source_order \in Seq(Sources) /\ header \in Seq(Decl) /\ source_order # << >>
  BY DEF IInv, Typed, EndSource
<1>2. Tail(source_order) \in Seq(Sources)
  BY <1>1, HeadTailProperties
<1>3. /\ pc = "emit" /\ pc' \in {"emit", "raised"} /\ source_order' \in {source_order, Tail(source_order)} /\ read' \in {0, read}
      /\ UNCHANGED << job, module_candidates, todo, owners, duplicates, stack, marked, missing_required, decl_order, header >>
  BY DEF EndSource, inputs, hints, closes, chosen, output
<1>4. source_order' \in Seq(Sources)
  BY <1>1, <1>2, <1>3, Zenon
<1>5. read' \in Nat
  BY <1>1, <1>3
<1> QED BY <1>1, <1>3, <1>4, <1>5, MovesOn

LEMMA StepRender == ASSUME IInv, render_function_decl PROVE IInv'
<1>1. read \in Nat /\ source_order \in Seq(Sources) /\ header \in Seq(Decl)
  BY DEF IInv, Typed
<1>2. /\ pc = "emit" /\ pc' \in {"emit", "done"}
      /\ UNCHANGED << job, module_candidates, todo, read, owners, duplicates, source_order, stack, marked, missing_required, decl_order, header >>
  BY DEF render_function_decl, inputs, hints, closes, chosen
<1> QED BY <1>1, <1>2, MovesOn

LEMMA Stutters == ASSUME IInv, UNCHANGED vars PROVE IInv'
<1>1. UNCHANGED << pc, job, module_candidates, todo, read, owners, duplicates, source_order, stack, marked, missing_required, decl_order, header >>
  BY DEF vars, inputs, hints, closes, chosen, output
<1>2. Typed'
  BY <1>1 DEF IInv, Typed
<1>3. Staged'
  BY <1>1 DEF IInv, Staged
<1>4. Handled' /\ HintsSoFar' /\ HintsKnown'
  <2>1. \A h, n : OwnersTo(h, n, read)' = OwnersTo(h, n, read)
    BY <1>1 DEF OwnersTo, Applies
  <2> QED BY <1>1, <2>1, KeepsHints DEF IInv, Handled, IsDeclared, Within, HintsSoFar
<1>5. SourceChosen' /\ Reach' /\ Minimal'
  BY <1>1, KeepsChoice, KeepsClosure DEF IInv
<1> QED BY <1>2, <1>3, <1>4, <1>5 DEF IInv

LEMMA Inductive == IInv /\ [Next]_vars => IInv'
<1> SUFFICES ASSUME IInv, [Next]_vars PROVE IInv'
  OBVIOUS
<1>1. CASE ReadRequests       BY <1>1, StepReadRequests
<1>2. CASE AddCandidate       BY <1>2, StepAddCandidate
<1>3. CASE LoadBase           BY <1>3, StepLoadBase
<1>4. CASE ReadKallsyms       BY <1>4, StepReadKallsyms
<1>5. CASE DropDuplicates     BY <1>5, StepDropDuplicates
<1>6. CASE LoadSource         BY <1>6, StepLoadSource
<1>7. CASE ResolveRequest     BY <1>7, StepResolveRequest
<1>8. CASE add_type_closure   BY <1>8, StepAddTypeClosure
<1>9. CASE EndClosure         BY <1>9, StepEndClosure
<1>10. CASE EndRequests       BY <1>10, StepEndRequests
<1>11. CASE EmitDecl          BY <1>11, StepEmitDecl
<1>12. CASE EndSource         BY <1>12, StepEndSource
<1>13. CASE render_function_decl BY <1>13, StepRender
<1>14. CASE Over              BY <1>14, Stutters DEF Over
<1>15. CASE UNCHANGED vars    BY <1>15, Stutters
<1> QED
  BY <1>1, <1>2, <1>3, <1>4, <1>5, <1>6, <1>7, <1>8, <1>9, <1>10, <1>11, <1>12, <1>13, <1>14, <1>15 DEF Next

\* The inductive invariant: what is known of the requests, of the owners and of
\* the types at every step of main.
THEOREM Invariant == Spec => []IInv
  BY Initially, Inductive, PTL DEF Spec

-----------------------------------------------------------------------------
(* What follows.                                                            *)

\* main writes a header only if every request has a source, and all that it
\* keeps has its type.
THEOREM TypeCorrect == Spec => []TypeOK
<1>1. IInv => TypeOK
  <2> SUFFICES ASSUME IInv PROVE TypeOK
    OBVIOUS
  <2>1. pc \in {"emit", "done"} => \A k \in DOMAIN job.names : IsDeclared(job.names[k])
    BY DEF IInv, Handled, Within
  <2> QED BY <2>1 DEF IInv, Typed, TypeOK, IsDeclared
<1> QED BY <1>1, Invariant, PTL

\* filter_matches_by_owner_hints and main declare a function only from the source
\* that kallsyms names, or from the only one.
THEOREM SourceNeverGuessed == Spec => []SourceChosen
<1>1. IInv => SourceChosen
  BY DEF IInv
<1> QED BY <1>1, Invariant, PTL

\* add_type_closure marks what the prototypes lead to and nothing else, whatever
\* the types of the kernel and of the modules refer to.
THEOREM ClosureOfTypes == Spec => []TypesExact
<1>1. IInv => TypesExact
  <2> SUFFICES ASSUME IInv, pc = "done" PROVE TypesExact
    BY DEF TypesExact
  <2> DEFINE next == [y \in marked |-> RefersTo(y)]
  <2>1. Waiting = {} /\ marked \subseteq Place
    BY DEF IInv, Staged, Typed, Waiting, Within
  <2>2. Prototypes \subseteq marked /\ \A y \in marked : next[y] \subseteq marked
    BY <2>1 DEF IInv, Reach
  <2>3. ASSUME NEW S \in SUBSET marked, Prototypes \subseteq S, \A y \in S : next[y] \subseteq S
        PROVE  S = marked
    <3>1. ClosedIn(S)
      BY <2>3 DEF ClosedIn
    <3>2. S \in SUBSET Place
      BY <2>1
    <3> QED BY <2>3, <3>1, <3>2 DEF IInv, Minimal
  <2> QED BY <2>2, <2>3 DEF TypesExact
<1> QED BY <1>1, Invariant, PTL

-----------------------------------------------------------------------------
(* The header.                                                              *)

\* bpftool prints every type of a source that has a name, and numbers those of
\* one name from 1 on.
DumpsComplete ==
  \A j \in Jobs, s \in Sources : j.btf[s].printable =>
    LET dump == j.btf[s].dump IN
    /\ \A i \in j.btf[s].ids :
         LET t == j.btf[s].types[i]
         IN  t.kind \in Layouts /\ t.name # Anon => \E k \in DOMAIN dump : dump[k].tag = t.kind /\ dump[k].name = t.name
    /\ \A k \in DOMAIN dump : \E m \in DOMAIN dump : dump[m].name = dump[k].name /\ dump[m].version = 1

\* It prints a type under its own name.
DumpsTrue ==
  \A j \in Jobs, s \in Sources : \A k \in DOMAIN j.btf[s].dump :
    LET d == j.btf[s].dump[k]
        x == d.type
    IN  x[2] \in j.btf[x[1]].ids => d.tag = j.btf[x[1]].types[x[2]].kind /\ d.name = j.btf[x[1]].types[x[2]].name

\* Nothing is written and nothing is marked before its time; what is marked, and
\* what the calls to come are for, is of sources that are loaded, the kernel's first.
Source(x) == (\E y \in marked : y[1] = x) \/ (\E c \in Call : Within(c, stack) /\ c.src = x)
Loads ==
  /\ pc \notin {"emit", "done", "raised"} => header = << >> /\ declared = << >>
  /\ pc \in {"requests", "candidates", "kallsyms"} => marked = {}
  /\ pc \in {"kallsyms", "resolve", "closure"} => source_order # << >> /\ source_order[1] = Base
  /\ pc \in {"resolve", "closure"} => read = 0 /\ \A x : Source(x) => Within(x, source_order)

Canonical(s, d) == ReadAs(d) \in KeysOf(s) /\ canonical_name_for_dump(s, d)

\* Every definition was taken from the dump of a source that needs its name.
Written ==
  \A k \in DOMAIN header : \E s \in Sources : \E j \in DOMAIN job.btf[s].dump :
    header[k] = job.btf[s].dump[j] /\ Canonical(s, header[k])
Once == \A j, k \in DOMAIN header : j # k => ReadAs(header[j]) # ReadAs(header[k])

\* The names of the sources that are done are written, and those of the source
\* at work as far as its dump is read, but for names that are misread.
Printed == DumpsComplete /\ TagsApart
Done == Printed => \A z \in Earlier : \A q \in KeysOf(z) : ReadRight(q) => q \in emitted
Sliced ==
  Printed /\ source_order # << >> =>
    LET s == Head(source_order) IN \A j \in 1 .. read : LET d == job.btf[s].dump[j] IN Canonical(s, d) /\ ReadRight(ReadAs(d)) => ReadAs(d) \in emitted

Rendered == declared \in Seq([fn : Names, types : SUBSET marked]) /\ Len(declared) <= Len(decl_order)

Emits ==
  pc \in {"emit", "done"} =>
    /\ Written /\ Once /\ Done /\ Rendered
    /\ IF pc = "done" THEN source_order = << >> ELSE Sliced

EInv == Loads /\ Emits

LEMMA EInitially == Init => EInv
<1> SUFFICES ASSUME Init PROVE EInv
  OBVIOUS
<1>1. pc = "requests" /\ header = << >> /\ declared = << >> /\ marked = {}
  BY DEF Init
<1> QED BY <1>1 DEF EInv, Loads, Emits

\* What is known of the sources while nothing is loaded or marked.
LEMMA EStepEarly ==
  ASSUME IInv, EInv, ReadRequests \/ AddCandidate \/ LoadBase \/ ReadKallsyms \/ DropDuplicates
  PROVE  EInv'
<1>1. /\ pc \in {"requests", "candidates", "kallsyms"} /\ pc' \in {"candidates", "kallsyms", "resolve", "raised"}
      /\ UNCHANGED << job, stack, marked, header, declared >>
  BY DEF ReadRequests, AddCandidate, LoadBase, ReadKallsyms, DropDuplicates, inputs, hints, closes, chosen, output
<1>2. marked = {} /\ stack = << >> /\ header = << >> /\ declared = << >>
  BY <1>1 DEF IInv, Staged, EInv, Loads
<1>3. pc' \in {"kallsyms", "resolve"} => source_order' # << >> /\ source_order'[1] = Base
  <2>1. CASE LoadBase
    <3>1. source_order' = << Base >>
      BY <2>1 DEF LoadBase
    <3> QED BY <3>1
  <2>2. CASE ReadKallsyms \/ DropDuplicates
    BY <2>2 DEF ReadKallsyms, DropDuplicates, EInv, Loads
  <2>3. CASE ReadRequests \/ AddCandidate
    BY <2>3 DEF ReadRequests, AddCandidate
  <2> QED BY <2>1, <2>2, <2>3
<1>4. pc' = "resolve" => read' = 0
  BY DEF ReadRequests, AddCandidate, LoadBase, ReadKallsyms, DropDuplicates
<1>5. \A x : ~Source(x)'
  BY <1>1, <1>2 DEF Source, Within
<1>6. Loads'
  BY <1>1, <1>2, <1>3, <1>4, <1>5 DEF Loads
<1> QED BY <1>1, <1>6 DEF EInv, Emits

LEMMA EStepLoadSource == ASSUME IInv, EInv, LoadSource PROVE EInv'
<1>1. /\ pc = "resolve" /\ pc' \in {"resolve", "raised"} /\ UNCHANGED << job, read, stack, marked, header, declared >>
      /\ pc' = "resolve" => \E k \in DOMAIN module_candidates : source_order' = Append(source_order, module_candidates[k])
  BY DEF LoadSource, inputs, hints, closes, chosen, output
<1>2. source_order \in Seq(Sources) /\ module_candidates \in Seq(Sources) /\ source_order # << >> /\ source_order[1] = Base
  BY <1>1 DEF IInv, Typed, EInv, Loads
<1>3. ASSUME pc' = "resolve"
      PROVE  /\ source_order' # << >> /\ source_order'[1] = Base
             /\ \A x : Within(x, source_order) => Within(x, source_order')
  <2>1. PICK k \in DOMAIN module_candidates : source_order' = Append(source_order, module_candidates[k])
    BY <1>1, <1>3
  <2>2. PICK m : m = module_candidates[k]
    OBVIOUS
  <2>3. m \in Sources
    BY <1>2, <2>2
  <2>4. 1 \in DOMAIN source_order
    BY <1>2
  <2>5. PICK t : t = source_order'
    OBVIOUS
  <2>6. /\ t # << >> /\ \A i \in DOMAIN source_order : t[i] = source_order[i]
        /\ \A x : Within(x, t) <=> Within(x, source_order) \/ x = m
    <3>1. PICK s : s = source_order
      OBVIOUS
    <3>2. t = Append(s, m) /\ s \in Seq(Sources) /\ m \in Sources
      BY <1>2, <2>1, <2>2, <2>3, <2>5, <3>1
    <3>3. /\ t # << >> /\ DOMAIN t = DOMAIN s \cup {Len(s) + 1} /\ t[Len(s) + 1] = m
          /\ \A i \in DOMAIN s : t[i] = s[i]
      BY ONLY <3>2
    <3>4. \A x : Within(x, t) <=> Within(x, s) \/ x = m
      BY ONLY <3>3 DEF Within
    <3> QED BY <3>1, <3>3, <3>4
  <2> QED BY <1>2, <2>4, <2>5, <2>6
<1>4. \A x : Source(x)' <=> Source(x)
  BY <1>1 DEF Source, Within
<1>5. Loads'
  BY <1>1, <1>3, <1>4 DEF EInv, Loads
<1> QED BY <1>1, <1>5 DEF EInv, Emits

LEMMA EStepResolveRequest == ASSUME IInv, EInv, ResolveRequest PROVE EInv'
<1>1. /\ pc = "resolve" /\ pc' \in {"resolve", "closure"} /\ UNCHANGED << job, read, marked, header, declared, source_order >>
      /\ \A k \in DOMAIN module_candidates : Within(module_candidates[k], source_order)
  BY DEF ResolveRequest, inputs, hints, output, IsUnloaded
<1>2. \/ stack' = stack
      \/ \E k \in 0 .. Len(module_candidates) : \E i : stack' = << [src |-> SourceAt(k), id |-> i, depth |-> 1] >>
  <2> DEFINE matches == filter_matches_by_owner_hints(Head(todo), discover_sources_for_func(Head(todo)))
  <2>1. stack' = stack \/ \E k \in matches : \E i : stack' = << [src |-> SourceAt(k), id |-> i, depth |-> 1] >>
    BY DEF ResolveRequest
  <2>2. matches \subseteq 0 .. Len(module_candidates)
    BY DEF filter_matches_by_owner_hints, discover_sources_for_func
  <2> HIDE DEF matches
  <2> QED BY <2>1, <2>2
<1>3. source_order \in Seq(Sources) /\ module_candidates \in Seq(Sources) /\ source_order # << >> /\ source_order[1] = Base
  BY <1>1 DEF IInv, Typed, EInv, Loads
<1>4. Within(Base, source_order)
  <2>1. 1 \in DOMAIN source_order
    BY <1>3
  <2> QED BY <1>3, <2>1 DEF Within
<1>5. \A k \in 0 .. Len(module_candidates) : Within(SourceAt(k), source_order)
  <2> SUFFICES ASSUME NEW k \in 0 .. Len(module_candidates) PROVE Within(SourceAt(k), source_order)
    OBVIOUS
  <2>1. CASE k = 0
    BY <1>4, <2>1 DEF SourceAt
  <2>2. CASE k # 0
    <3>1. k \in DOMAIN module_candidates
      BY <1>3, <2>2
    <3> QED BY <1>1, <2>2, <3>1 DEF SourceAt
  <2> QED BY <2>1, <2>2
<1>6. ASSUME NEW x, Source(x)' PROVE Within(x, source_order')
  <2>1. CASE Source(x)
    BY <1>1, <2>1 DEF EInv, Loads, Within
  <2>2. CASE ~Source(x)
    <3>1. PICK c : Within(c, stack') /\ c.src = x /\ ~Within(c, stack)
      BY <1>1, <1>6, <2>2 DEF Source, Within
    <3>5. PICK k \in 0 .. Len(module_candidates) : \E i : stack' = << [src |-> SourceAt(k), id |-> i, depth |-> 1] >>
      BY <1>2, <3>1 DEF Within
    <3>2. PICK i : stack' = << [src |-> SourceAt(k), id |-> i, depth |-> 1] >>
      BY <3>5
    <3>3. c = [src |-> SourceAt(k), id |-> i, depth |-> 1]
      BY <3>1, <3>2 DEF Within
    <3>4. x = SourceAt(k)
      BY <3>1, <3>3
    <3> QED BY <1>1, <1>5, <3>4 DEF Within
  <2> QED BY <2>1, <2>2
<1>7. Loads'
  BY SMTT(60), <1>1, <1>3, <1>6 DEF EInv, Loads
<1> QED BY <1>1, <1>7 DEF EInv, Emits

LEMMA EStepAddTypeClosure == ASSUME IInv, EInv, add_type_closure PROVE EInv'
<1> DEFINE c == Head(stack)
           y == lookup_type(c.src, c.id)
           depth == IF y[1] = c.src THEN c.depth ELSE c.depth + 1
<1>1. /\ pc = "closure" /\ stack # << >> /\ pc' \in {"closure", "raised"}
      /\ UNCHANGED << job, read, source_order, header, declared >>
      /\ \/ pc' = "raised"
         \/ stack' = Tail(stack) /\ marked' = marked
         \/ /\ c.id # 0 /\ marked' = marked \cup {y}
            /\ stack' = [k \in DOMAIN References(y) |-> [src |-> y[1], id |-> References(y)[k], depth |-> depth + 1]] \o Tail(stack)
  BY DEF add_type_closure, inputs, hints, closes, chosen, output
<1>2. /\ stack \in Seq(Call) /\ Tail(stack) \in Seq(Call) /\ c \in Call /\ Given
      /\ \A e : Within(e, stack) <=> Within(e, Tail(stack)) \/ e = c
  <2>1. stack \in Seq(Call) /\ Given
    BY SMTT(60) DEF IInv, Typed, Given
  <2> QED BY <1>1, <2>1, Shortened
<1>3. source_order \in Seq(Sources) /\ source_order # << >> /\ source_order[1] = Base /\ \A x : Source(x) => Within(x, source_order)
  BY <1>1 DEF IInv, Typed, EInv, Loads
<1>4. Within(Base, source_order) /\ Within(c.src, source_order)
  <2>1. 1 \in DOMAIN source_order
    BY <1>3
  <2>2. Source(c.src)
    BY <1>2 DEF Source
  <2> QED BY <1>3, <2>1, <2>2 DEF Within
<1>5. Within(y[1], source_order)
  <2>1. y[1] \in {Base, c.src}
    BY DEF lookup_type
  <2> QED BY <1>4, <2>1
<1>6. CASE pc' = "raised"
  BY SMTT(60), <1>1, <1>6 DEF EInv, Loads, Emits
<1>7. CASE stack' = Tail(stack) /\ marked' = marked
  <2>1. \A x : Source(x)' => Source(x)
    BY SMTT(60), <1>2, <1>7 DEF Source
  <2>2. Loads'
    BY <1>1, <2>1 DEF EInv, Loads
  <2> QED BY <1>1, <2>2 DEF EInv, Emits
<1>8. CASE /\ c.id # 0 /\ marked' = marked \cup {y}
           /\ stack' = [k \in DOMAIN References(y) |-> [src |-> y[1], id |-> References(y)[k], depth |-> depth + 1]] \o Tail(stack)
  <2>1. depth \in Nat
    BY SMTT(60), <1>2 DEF Call
  <2>2. y \in Place
    <3>1. c.src \in Sources /\ c.id \in Ids
      BY ZenonT(60), <1>2, <1>8 DEF Call
    <3> QED BY <1>2, <3>1, Looked, MeantPlace
  <2>3. CallsOf(y, depth) \in Seq(Call) /\ stack' = CallsOf(y, depth) \o Tail(stack)
    BY <1>2, <1>8, <2>1, <2>2, CallsOn DEF CallsOf
  <2>4. \A e : Within(e, stack') <=> Within(e, CallsOf(y, depth)) \/ Within(e, Tail(stack))
    <3>1. PICK a : a = CallsOf(y, depth)
      OBVIOUS
    <3>2. PICK b : b = Tail(stack)
      OBVIOUS
    <3>3. PICK u : u = stack'
      OBVIOUS
    <3>4. a \in Seq(Call) /\ b \in Seq(Call) /\ u = a \o b
      BY <1>2, <2>3, <3>1, <3>2, <3>3
    <3>5. \A e : Within(e, u) <=> Within(e, a) \/ Within(e, b)
      BY ZenonT(60), <3>4, Joined
    <3> QED BY <3>1, <3>2, <3>3, <3>5
  <2>5. \A e : Within(e, CallsOf(y, depth)) => e.src = y[1]
    BY DEF CallsOf, Within
  <2>6. ASSUME NEW x, Source(x)' PROVE Source(x) \/ x = y[1]
    BY <1>2, <1>8, <2>4, <2>5, <2>6 DEF Source
  <2>7. \A x : Source(x)' => Within(x, source_order')
    BY ZenonT(60), <1>1, <1>3, <1>5, <2>6
  <2>8. Loads'
    BY <1>1, <2>7 DEF EInv, Loads
  <2> QED BY <1>1, <2>8 DEF EInv, Emits
<1> QED BY ZenonT(60), <1>1, <1>6, <1>7, <1>8

LEMMA EStepEndClosure == ASSUME IInv, EInv, EndClosure PROVE EInv'
<1>1. pc = "closure" /\ pc' = "resolve" /\ UNCHANGED << job, read, stack, marked, source_order, header, declared >>
  BY DEF EndClosure, inputs, hints, closes, chosen, output
<1>2. \A x : Source(x)' <=> Source(x)
  BY <1>1 DEF Source, Within
<1>3. Loads'
  BY <1>1, <1>2 DEF EInv, Loads, Within
<1> QED BY <1>1, <1>3 DEF EInv, Emits

\* What the dumps and the marks say stays.
LEMMA KeysStay ==
  ASSUME UNCHANGED << job, marked >>
  PROVE  /\ \A s : KeysOf(s)' = KeysOf(s)
         /\ \A s, d : Canonical(s, d)' <=> Canonical(s, d)
         /\ Printed' <=> Printed
         /\ \A q : ReadRight(q)' <=> ReadRight(q)
<1>1. \A y : IsNamed(y)' = IsNamed(y) /\ KeyOf(y)' = KeyOf(y)
  BY DEF IsNamed, KeyOf, KindOf, types
<1>2. \A s : KeysOf(s)' = KeysOf(s)
  BY <1>1 DEF KeysOf
<1>3. \A s, n : prefer_suffixed(s, n)' <=> prefer_suffixed(s, n)
  BY DEF prefer_suffixed
<1>4. \A s, d : canonical_name_for_dump(s, d)' <=> canonical_name_for_dump(s, d)
  BY <1>3 DEF canonical_name_for_dump
<1>5. Printed' <=> Printed
  BY DEF Printed, DumpsComplete, TagsApart
<1>6. \A q : ReadRight(q)' <=> ReadRight(q)
  BY DEF ReadRight
<1> QED BY <1>2, <1>4, <1>5, <1>6 DEF Canonical

LEMMA EStepEndRequests == ASSUME IInv, EInv, EndRequests PROVE EInv'
<1>1. /\ pc = "resolve" /\ pc' \in {"emit", "raised"} /\ UNCHANGED << job, read, stack, marked, header, declared >>
      /\ pc' = "emit" => source_order' = Append(Tail(source_order), Base)
  BY DEF EndRequests, inputs, hints, closes, chosen, output
<1>2. /\ source_order \in Seq(Sources) /\ source_order # << >> /\ source_order[1] = Base /\ read = 0 /\ Base \in Sources
      /\ header = << >> /\ declared = << >> /\ \A x : Source(x) => Within(x, source_order)
  BY <1>1, HeaderConstants DEF IInv, Typed, EInv, Loads
<1>3. Loads'
  BY <1>1 DEF Loads
<1>4. ASSUME pc' = "emit" PROVE Emits'
  <2>1. source_order' = Append(Tail(source_order), Base)
    BY <1>1, <1>4
  <2>2. /\ Tail(source_order) \in Seq(Sources) /\ Head(source_order) = Base
        /\ \A x : Within(x, source_order) <=> Within(x, Tail(source_order)) \/ x = Head(source_order)
    <3>1. Head(source_order) = source_order[1]
      BY <1>2
    <3>2. /\ Tail(source_order) \in Seq(Sources)
          /\ \A x : Within(x, source_order) <=> Within(x, Tail(source_order)) \/ x = Head(source_order)
      BY <1>2, Shortened
    <3> QED BY <1>2, <3>1, <3>2
  <2>3. \A x : Within(x, source_order') <=> Within(x, Tail(source_order)) \/ x = Base
    <3>1. PICK t : t = Tail(source_order)
      OBVIOUS
    <3>2. PICK u : u = source_order'
      OBVIOUS
    <3>3. t \in Seq(Sources) /\ u = Append(t, Base) /\ Base \in Sources
      BY <1>2, <2>1, <2>2, <3>1, <3>2
    <3>4. /\ DOMAIN u = DOMAIN t \cup {Len(t) + 1} /\ u[Len(t) + 1] = Base
          /\ \A i \in DOMAIN t : u[i] = t[i]
      BY ONLY <3>3
    <3>5. \A x : Within(x, u) <=> Within(x, t) \/ x = Base
      BY ONLY <3>4 DEF Within
    <3> QED BY <3>1, <3>2, <3>5
  <2>4. ASSUME NEW z \in Earlier' PROVE KeysOf(z) = {}
    <3>1. ~Within(z, source_order')
      BY <2>4 DEF Earlier, Within
    <3>2. ~Source(z)
      BY <1>2, <2>2, <2>3, <3>1
    <3> QED BY <3>2 DEF KeysOf, Source
  <2>5. Done'
    BY <1>1, <2>4, KeysStay DEF Done
  <2>6. Sliced'
    <3>1. read' = 0
      BY <1>1, <1>2
    <3> QED BY <3>1 DEF Sliced
  <2>7. Written' /\ Once' /\ Rendered'
    BY <1>1, <1>2 DEF Written, Once, Rendered, IInv, Typed, EndRequests, chosen
  <2> QED BY <1>4, <2>5, <2>6, <2>7 DEF Emits
<1>5. CASE pc' = "raised"
  BY <1>3, <1>5 DEF EInv, Emits
<1> QED BY <1>1, <1>3, <1>4, <1>5 DEF EInv

\* The definitions of a dump are of the names that its source needs.
LEMMA DumpOf ==
  ASSUME IInv, pc = "emit", source_order # << >>
  PROVE  /\ Head(source_order) \in Sources /\ job.btf[Head(source_order)].dump \in Seq(Decl)
         /\ Tail(source_order) \in Seq(Sources) /\ read \in Nat /\ header \in Seq(Decl) /\ Given
         /\ \A x : Within(x, source_order) <=> Within(x, Tail(source_order)) \/ x = Head(source_order)
<1>1. Given /\ source_order \in Seq(Sources) /\ read \in Nat /\ header \in Seq(Decl)
  BY DEF IInv, Typed, Given
<1>2. Head(source_order) \in Sources
  BY <1>1, Shortened
<1> QED BY <1>1, <1>2, Shortened, JobTypes

LEMMA EStepEmitDecl == ASSUME IInv, EInv, EmitDecl PROVE EInv'
<1>1. PICK s : s = Head(source_order)
  OBVIOUS
<1>2. PICK dump : dump = job.btf[s].dump
  OBVIOUS
<1>3. PICK d : d = dump[read + 1]
  OBVIOUS
<1>4. /\ pc = "emit" /\ pc' = pc /\ source_order # << >> /\ read < Len(dump) /\ read' = read + 1
      /\ header' = IF ReadAs(d) \in Targets(s) /\ canonical_name_for_dump(s, d) THEN Append(header, d) ELSE header
      /\ UNCHANGED << job, source_order, stack, marked, declared >>
  BY <1>1, <1>2, <1>3 DEF EmitDecl, inputs, hints, closes, chosen, ReadAs
<1>5. /\ s \in Sources /\ dump \in Seq(Decl) /\ read \in Nat /\ header \in Seq(Decl) /\ read + 1 \in DOMAIN dump /\ d \in Decl
  <2>1. s \in Sources /\ dump \in Seq(Decl) /\ read \in Nat /\ header \in Seq(Decl)
    BY <1>1, <1>2, <1>4, DumpOf
  <2>2. read + 1 \in DOMAIN dump
    BY <1>4, <2>1
  <2> QED BY <1>3, <2>1, <2>2
<1>6. Written /\ Once /\ Done /\ Rendered /\ Sliced
  BY <1>4 DEF EInv, Emits
<1>7. Loads'
  BY <1>4 DEF Loads
<1>8. Done => (Canonical(s, d) /\ Printed /\ ReadRight(ReadAs(d)) => ReadAs(d) \in Targets(s) \cup emitted)
  BY DEF Done, Canonical, Targets
<1>9. /\ \A k \in DOMAIN header : k \in DOMAIN header' /\ header'[k] = header[k]
      /\ emitted \subseteq emitted'
      /\ \A k \in DOMAIN header' \ DOMAIN header : header'[k] = d /\ Canonical(s, d) /\ ReadAs(d) \notin emitted
      /\ \A j, k \in DOMAIN header' \ DOMAIN header : j = k
      /\ Canonical(s, d) /\ Printed /\ ReadRight(ReadAs(d)) => ReadAs(d) \in emitted'
  <2>1. CASE ReadAs(d) \in Targets(s) /\ canonical_name_for_dump(s, d)
    <3>1. header' = Append(header, d)
      BY <1>4, <2>1
    <3>2. DOMAIN header' = DOMAIN header \cup {Len(header) + 1} /\ header'[Len(header) + 1] = d
          /\ \A k \in DOMAIN header : header'[k] = header[k]
      BY <1>5, <3>1, Appended
    <3>3. Canonical(s, d) /\ ReadAs(d) \notin emitted
      BY <2>1 DEF Targets, Canonical
    <3>4. emitted \subseteq emitted' /\ ReadAs(d) \in emitted'
      BY <3>2 DEF emitted, ReadAs
    <3> QED BY <3>2, <3>3, <3>4
  <2>2. CASE ~(ReadAs(d) \in Targets(s) /\ canonical_name_for_dump(s, d))
    <3>1. header' = header
      BY <1>4, <2>2
    <3>2. emitted' = emitted
      BY <3>1 DEF emitted
    <3>3. Canonical(s, d) /\ Printed /\ ReadRight(ReadAs(d)) => ReadAs(d) \in emitted
      BY <1>6, <1>8, <2>2 DEF Canonical
    <3> QED BY <3>1, <3>2, <3>3
  <2> QED BY <2>1, <2>2
<1>10. Written'
  <2> SUFFICES ASSUME NEW k \in DOMAIN header'
               PROVE  \E t \in Sources : \E j \in DOMAIN job.btf[t].dump : header'[k] = job.btf[t].dump[j] /\ Canonical(t, header'[k])
    BY <1>4, KeysStay DEF Written
  <2>1. CASE k \in DOMAIN header
    <3>1. header'[k] = header[k]
      BY <1>9, <2>1
    <3> QED BY <1>6, <2>1, <3>1 DEF Written
  <2>2. CASE k \notin DOMAIN header
    <3>1. header'[k] = d /\ Canonical(s, d)
      BY <1>9, <2>2
    <3> QED BY <1>2, <1>3, <1>5, <3>1
  <2> QED BY <2>1, <2>2
<1>11. Once'
  <2>1. ASSUME NEW j \in DOMAIN header', NEW k \in DOMAIN header', j # k
        PROVE  ReadAs(header'[j]) # ReadAs(header'[k])
    <3>1. \A i \in DOMAIN header : ReadAs(header[i]) \in emitted
      BY DEF emitted, ReadAs
    <3>2. CASE j \in DOMAIN header /\ k \in DOMAIN header
      BY <1>6, <1>9, <2>1, <3>2 DEF Once
    <3>3. CASE j \in DOMAIN header /\ k \notin DOMAIN header
      BY <1>9, <3>1, <3>3
    <3>4. CASE j \notin DOMAIN header /\ k \in DOMAIN header
      BY <1>9, <3>1, <3>4
    <3> QED BY <1>9, <2>1, <3>2, <3>3, <3>4
  <2> QED BY <2>1 DEF Once, ReadAs
<1>12. Done'
  <2>1. Earlier' = Earlier
    BY <1>4 DEF Earlier
  <2> QED BY <1>4, <1>6, <1>9, <2>1, KeysStay DEF Done
<1>13. Sliced'
  <2> SUFFICES ASSUME Printed, NEW j \in 1 .. read + 1, Canonical(s, dump[j]), ReadRight(ReadAs(dump[j])) PROVE ReadAs(dump[j]) \in emitted'
    BY <1>1, <1>2, <1>4, KeysStay DEF Sliced, ReadAs
  <2>1. CASE j = read + 1
    BY <1>3, <1>9, <2>1
  <2>2. CASE j \in 1 .. read
    <3>1. ReadAs(dump[j]) \in emitted
      BY <1>1, <1>2, <1>4, <1>6, <2>2 DEF Sliced
    <3> QED BY <1>9, <3>1
  <2> QED BY SMTT(60), <1>5, <2>1, <2>2
<1>14. Rendered'
  BY <1>4, <1>6 DEF Rendered, EmitDecl, chosen
<1> QED BY <1>4, <1>7, <1>10, <1>11, <1>12, <1>13, <1>14 DEF EInv, Emits

\* bpftool's dump of a source has a canonical definition of each name that is
\* not misread.
LEMMA HasCanonical ==
  ASSUME Given, Printed, marked \subseteq Place, NEW s \in Sources, job.btf[s].printable, NEW q \in KeysOf(s), ReadRight(q)
  PROVE  \E j \in DOMAIN job.btf[s].dump : ReadAs(job.btf[s].dump[j]) = q /\ Canonical(s, job.btf[s].dump[j])
<1>1. PICK dump : dump = job.btf[s].dump
  OBVIOUS
<1>2. PICK y \in marked : y[1] = s /\ IsNamed(y) /\ KeyOf(y) = q
  BY DEF KeysOf
<1>3. PICK i : i = y[2]
  BY SMTT(60)
<1>4. PICK t : t = job.btf[s].types[i]
  OBVIOUS
<1>5. i \in job.btf[s].ids /\ t.kind \in Layouts /\ t.name # Anon /\ q = << t.kind, t.name >>
  <2>1. "none" \notin Layouts
    BY DEF Layouts
  <2>2. i \in job.btf[s].ids
    BY SMTT(60), <1>2, <1>3, <2>1 DEF IsNamed, KindOf
  <2> QED BY <1>2, <1>3, <1>4, <2>2 DEF IsNamed, KeyOf, KindOf, types
<1>6. PICK k \in DOMAIN dump : dump[k].tag = t.kind /\ dump[k].name = t.name
  BY <1>1, <1>4, <1>5 DEF Printed, DumpsComplete, Given
<1>7. PICK m \in DOMAIN dump : dump[m].name = t.name /\ dump[m].version = 1
  BY <1>1, <1>6 DEF Printed, DumpsComplete, Given
<1>8. dump \in Seq(Decl)
  BY <1>1, JobTypes
<1>9. \A j \in DOMAIN dump : dump[j].version \in Nat \ {0}
  <2>1. \A j \in DOMAIN dump : dump[j] \in Decl
    BY <1>8
  <2>2. \A d \in Decl : d.version \in Nat \ {0}
    BY DEF Decl
  <2> QED BY <2>1, <2>2
<1>10. \A j, l \in DOMAIN dump : dump[j].name = dump[l].name /\ dump[j].version > 1 => dump[j].tag = dump[l].tag
  BY <1>1 DEF Printed, TagsApart
<1>11. ASSUME NEW l \in DOMAIN dump, dump[l].tag = t.kind, dump[l].name = t.name
       PROVE  ReadAs(dump[l]) = q /\ dump[l].reads.name = t.name /\ dump[l].reads.version = dump[l].version
  <2>1. NameOf(dump[l]) = q
    BY <1>5, <1>11 DEF NameOf
  <2>2. dump[l].reads = [name |-> dump[l].name, version |-> dump[l].version]
    BY <1>1, <2>1 DEF ReadRight, IsReadRight
  <2> QED BY <1>5, <1>11, <2>2 DEF ReadAs
<1>12. CASE s # Base /\ prefer_suffixed(s, t.name)
  <2>1. PICK l \in DOMAIN dump : dump[l].name = t.name /\ dump[l].version > 1
    BY <1>1, <1>12 DEF prefer_suffixed
  <2>2. dump[l].tag = t.kind /\ dump[l].version # 1
    BY <1>6, <1>9, <1>10, <2>1
  <2>3. ReadAs(dump[l]) = q /\ canonical_name_for_dump(s, dump[l])
    BY <1>11, <1>12, <2>1, <2>2 DEF canonical_name_for_dump
  <2> QED BY <1>1, <2>1, <2>3 DEF Canonical
<1>13. CASE ~prefer_suffixed(s, t.name) /\ s # Base
  <2>1. dump[k].version = 1
    BY <1>1, <1>6, <1>9, <1>13 DEF prefer_suffixed
  <2>2. ReadAs(dump[k]) = q /\ canonical_name_for_dump(s, dump[k])
    BY <1>6, <1>11, <1>13, <2>1 DEF canonical_name_for_dump
  <2> QED BY <1>1, <2>2 DEF Canonical
<1>14. CASE s = Base
  <2>1. \A n : ~prefer_suffixed(s, n)
    BY <1>14 DEF prefer_suffixed
  <2>2. PICK l \in {k, m} : dump[l].name = t.name /\ dump[l].version = 1 /\ dump[l].tag = t.kind
    <3>1. CASE dump[k].version = 1
      BY <1>6, <3>1
    <3>2. CASE dump[k].version > 1
      BY <1>6, <1>7, <1>10, <3>2
    <3> QED BY <1>9, <3>1, <3>2
  <2>3. ReadAs(dump[l]) = q /\ canonical_name_for_dump(s, dump[l])
    BY <1>11, <2>1, <2>2 DEF canonical_name_for_dump
  <2> QED BY <1>1, <2>2, <2>3 DEF Canonical
<1> QED BY <1>12, <1>13, <1>14

LEMMA EStepEndSource == ASSUME IInv, EInv, EndSource PROVE EInv'
<1>1. PICK s : s = Head(source_order)
  OBVIOUS
<1>2. /\ pc = "emit" /\ pc' \in {"emit", "raised"} /\ source_order # << >> /\ UNCHANGED << job, stack, marked, header, declared >>
      /\ pc' = "emit" => IsDumped(s) /\ read = Len(job.btf[s].dump) /\ source_order' = Tail(source_order) /\ read' = 0
  BY <1>1 DEF EndSource, inputs, hints, closes, chosen, output
<1>3. /\ s \in Sources /\ Given /\ job.btf[s].dump \in Seq(Decl) /\ marked \subseteq Place
      /\ \A x : Within(x, source_order) <=> Within(x, Tail(source_order)) \/ x = s
  BY <1>1, <1>2, DumpOf DEF IInv, Typed
<1>4. Written /\ Once /\ Done /\ Rendered /\ Sliced
  BY <1>2 DEF EInv, Emits
<1>5. Loads'
  BY <1>2 DEF Loads
<1>6. ASSUME pc' = "emit" PROVE Emits'
  <2>1. IsDumped(s) /\ read = Len(job.btf[s].dump) /\ source_order' = Tail(source_order) /\ read' = 0
    BY <1>2, <1>6
  <2>2. Written' /\ Once' /\ Rendered'
    BY <1>2, <1>4, KeysStay DEF Written, Once, Rendered, ReadAs, EndSource, chosen
  <2>3. ASSUME Printed, NEW q \in KeysOf(s), ReadRight(q) PROVE q \in emitted
    <3>1. CASE job.btf[s].printable
      <4>1. PICK j \in DOMAIN job.btf[s].dump : ReadAs(job.btf[s].dump[j]) = q /\ Canonical(s, job.btf[s].dump[j])
        BY <1>3, <2>3, <3>1, HasCanonical
      <4>2. j \in 1 .. read
        BY <1>3, <2>1, <4>1
      <4> QED BY <1>1, <1>2, <1>4, <2>3, <4>1, <4>2 DEF Sliced
    <3>2. CASE Targets(s) = {}
      BY <1>4, <2>3, <3>2 DEF Targets, Done
    <3> QED BY <2>1, <3>1, <3>2 DEF IsDumped
  <2>4. Earlier' \subseteq Earlier \cup {s}
    BY <1>3, <2>1 DEF Earlier, Within
  <2>5. emitted' = emitted
    BY <1>2 DEF emitted
  <2>6. Done'
    BY <1>2, <1>4, <2>3, <2>4, <2>5, KeysStay DEF Done
  <2>7. Sliced'
    BY <2>1 DEF Sliced
  <2> QED BY <1>6, <2>2, <2>6, <2>7 DEF Emits
<1>7. CASE pc' = "raised"
  BY <1>5, <1>7 DEF EInv, Emits
<1> QED BY <1>2, <1>5, <1>6, <1>7 DEF EInv

-----------------------------------------------------------------------------
(* The declarations.                                                        *)

\* What n steps from a start reach, as a function of n.
ChainFrom(g, N, start, U, R) ==
  g = [n \in 0 .. N |-> IF n = 0 THEN start ELSE g[n - 1] \cup {z \in U : \E y \in g[n - 1] : << y, z >> \in R}]

\* It exists: the pairs of a step and what it reaches are the least set that is
\* closed under it.
LEMMA ChainExists ==
  ASSUME NEW N \in Nat, NEW U, NEW start \in SUBSET U, NEW R
  PROVE  \E g : ChainFrom(g, N, start, U, R) /\ \A n \in 0 .. N : g[n] \subseteq U
<1> DEFINE D == (0 .. N) \X U
           Goes(Y, n, z) == IF n = 0 THEN z \in start ELSE << n - 1, z >> \in Y \/ \E y \in U : << n - 1, y >> \in Y /\ << y, z >> \in R
           Step(Y) == {p \in D : Goes(Y, p[1], p[2])}
           X == {p \in D : \A Y \in SUBSET D : Step(Y) \subseteq Y => p \in Y}
           G == [n \in 0 .. N |-> {z \in U : << n, z >> \in X}]
<1>1. X \in SUBSET D
  OBVIOUS
<1>2. \A Y, Z : Y \subseteq Z => Step(Y) \subseteq Step(Z)
  OBVIOUS
<1>3. Step(X) \subseteq X
  <2> SUFFICES ASSUME NEW p \in Step(X), NEW Y \in SUBSET D, Step(Y) \subseteq Y PROVE p \in Y
    OBVIOUS
  <2>1. X \subseteq Y
    OBVIOUS
  <2> QED BY <2>1, <1>2
<1>4. X \subseteq Step(X)
  <2>1. Step(Step(X)) \subseteq Step(X)
    <3> HIDE DEF Step, X
    <3> QED BY <1>2, <1>3
  <2>2. Step(X) \in SUBSET D
    OBVIOUS
  <2> QED BY <2>1, <2>2
<1>5. ASSUME NEW n \in 0 .. N, NEW z \in U PROVE << n, z >> \in X <=> Goes(X, n, z)
  <2>1. << n, z >> \in D
    OBVIOUS
  <2>2. << n, z >> \in Step(X) <=> Goes(X, n, z)
    BY <2>1
  <2> QED BY <2>2, <1>3, <1>4
<1>6. \A n \in 0 .. N : G[n] = {z \in U : << n, z >> \in X}
  OBVIOUS
<1> HIDE DEF X
<1>7. ASSUME NEW n \in 0 .. N
      PROVE  G[n] = IF n = 0 THEN start ELSE G[n - 1] \cup {z \in U : \E y \in G[n - 1] : << y, z >> \in R}
  <2>1. CASE n = 0
    <3>1. \A z \in U : << n, z >> \in X <=> z \in start
      BY <1>5, <2>1
    <3> QED BY <1>6, <2>1, <3>1
  <2>2. CASE n # 0
    <3>1. n - 1 \in 0 .. N
      BY <2>2
    <3>2. \A z \in U : << n, z >> \in X <=> << n - 1, z >> \in X \/ \E y \in U : << n - 1, y >> \in X /\ << y, z >> \in R
      BY <1>5, <2>2
    <3>3. G[n - 1] = {z \in U : << n - 1, z >> \in X} /\ G[n] = {z \in U : << n, z >> \in X}
      BY <1>6, <3>1
    <3> HIDE DEF G
    <3>4. \A z : z \in G[n] <=> z \in G[n - 1] \/ (z \in U /\ \E y \in G[n - 1] : << y, z >> \in R)
      BY <3>2, <3>3
    <3> QED BY <2>2, <3>4
  <2> QED BY <2>1, <2>2
<1>8. G = [n \in 0 .. N |-> IF n = 0 THEN start ELSE G[n - 1] \cup {z \in U : \E y \in G[n - 1] : << y, z >> \in R}]
  BY <1>7
<1>9. \A n \in 0 .. N : G[n] \subseteq U
  BY <1>6
<1> HIDE DEF G
<1> QED BY <1>8, <1>9 DEF ChainFrom

\* A declaration names only types of the closure of its prototype.
LEMMA RenderedMarked ==
  ASSUME Given, marked \subseteq Place, \A y \in marked : RefersTo(y) \subseteq marked,
         NEW s, NEW i, lookup_type(s, i) \in marked
  PROVE  render_c_decl(s, i) \subseteq marked
<1> DEFINE N == Cardinality(Place)
           start == {lookup_type(s, i)}
           R == {p \in marked \X marked : IsWrapping(p[1]) /\ p[2] \in Successors(p[1])}
           Is(g) == g = [n \in 0 .. N |-> IF n = 0 THEN start
                                          ELSE g[n - 1] \cup UNION {Successors(y) : y \in {y \in g[n - 1] : IsWrapping(y)}}]
<1>1. N \in Nat
  <2>1. IsFiniteSet(Place)
    BY HeaderConstants, FS_Product DEF Place
  <2> QED BY <2>1, FS_CardinalityType
<1>2. \A y \in marked : Successors(y) \subseteq marked
  <2> SUFFICES ASSUME NEW y \in marked PROVE Successors(y) = RefersTo(y)
    OBVIOUS
  <2>1. y \in Place
    OBVIOUS
  <2>2. RefersTo(y) = {Meant(y[1], References(y)[k]) : k \in {k \in DOMAIN References(y) : References(y)[k] # 0}}
    BY <2>1, Referred
  <2>3. \A k : lookup_type(y[1], References(y)[k]) = Meant(y[1], References(y)[k])
    BY Looked
  <2> QED BY <2>2, <2>3 DEF Successors
<1>3. start \in SUBSET marked
  OBVIOUS
<1>4. PICK g : ChainFrom(g, N, start, marked, R) /\ \A n \in 0 .. N : g[n] \subseteq marked
  <2> HIDE DEF N, start, R
  <2> QED BY <1>1, <1>3, ChainExists
<1>5. Is(g)
  <2>1. ASSUME NEW n \in 0 .. N, n # 0
        PROVE  {z \in marked : \E y \in g[n - 1] : << y, z >> \in R} = UNION {Successors(y) : y \in {y \in g[n - 1] : IsWrapping(y)}}
    <3>1. n - 1 \in 0 .. N
      BY <1>1, <2>1
    <3>2. g[n - 1] \subseteq marked
      BY <1>4, <3>1
    <3>3. \A y \in marked, z \in marked : << y, z >> \in R <=> IsWrapping(y) /\ z \in Successors(y)
      OBVIOUS
    <3> HIDE DEF R
    <3> QED BY <1>2, <3>2, <3>3
  <2> HIDE DEF N, start, R
  <2> QED BY <1>4, <2>1 DEF ChainFrom
<1>6. PICK h : h = CHOOSE f : Is(f)
  OBVIOUS
<1>7. Is(h)
  BY <1>5, <1>6
<1>8. render_c_decl(s, i) = {y \in h[N] : ~IsWrapping(y)}
  BY <1>6 DEF render_c_decl, Through
<1>9. \A n \in 0 .. N : h[n] \subseteq marked
  <2> DEFINE Bad == {n \in 0 .. N : ~(h[n] \subseteq marked)}
  <2> SUFFICES ASSUME Bad # {} PROVE FALSE
    OBVIOUS
  <2>1. PICK n \in Bad : \A m \in Bad : n <= m
    <3>1. Bad \in SUBSET Nat
      BY <1>1
    <3> QED BY <3>1, LeastId
  <2>2. n \in 0 .. N /\ ~(h[n] \subseteq marked)
    BY <2>1
  <2>3. h[n] = IF n = 0 THEN start ELSE h[n - 1] \cup UNION {Successors(y) : y \in {y \in h[n - 1] : IsWrapping(y)}}
    BY <1>7, <2>2
  <2>4. n # 0
    BY <1>3, <2>2, <2>3
  <2>5. n - 1 \in 0 .. N /\ n - 1 \notin Bad
    BY <1>1, <2>1, <2>2, <2>4
  <2>6. h[n - 1] \subseteq marked
    BY <2>5
  <2>7. UNION {Successors(y) : y \in {y \in h[n - 1] : IsWrapping(y)}} \subseteq marked
    BY <1>2, <2>6
  <2> QED BY <2>2, <2>3, <2>4, <2>6, <2>7
<1>10. N \in 0 .. N
  BY <1>1
<1> QED BY <1>8, <1>9, <1>10

LEMMA EStepRender == ASSUME IInv, EInv, render_function_decl PROVE EInv'
<1>1. PICK n : n = Len(declared) + 1
  OBVIOUS
<1>2. PICK d : d = decl_order[n]
  OBVIOUS
<1>3. /\ pc = "emit" /\ source_order = << >> /\ UNCHANGED << job, read, source_order, stack, marked, header >>
      /\ IF Len(declared) = Len(decl_order) THEN pc' = "done" /\ declared' = declared
         ELSE pc' = pc /\ declared' = Append(declared, [fn |-> d[2], types |-> render_c_decl(d[1], find_func_proto_id(d[1], d[2]))])
  BY <1>1, <1>2 DEF render_function_decl, inputs, hints, closes, chosen
<1>4. Written /\ Once /\ Done /\ Rendered
  BY <1>3 DEF EInv, Emits
<1>5. Written' /\ Once' /\ Done' /\ Sliced'
  <2>1. emitted' = emitted /\ Earlier' = Earlier
    BY <1>3 DEF emitted, Earlier
  <2>2. Written' /\ Once'
    BY <1>3, <1>4, KeysStay DEF Written, Once, ReadAs
  <2> QED BY <1>3, <1>4, <2>1, <2>2, KeysStay DEF Done, Sliced
<1>6. Loads'
  BY <1>3 DEF Loads
<1>7. CASE Len(declared) = Len(decl_order)
  <2>1. Rendered'
    BY <1>3, <1>4, <1>7 DEF Rendered, render_function_decl, chosen
  <2> QED BY <1>3, <1>5, <1>6, <1>7, <2>1 DEF EInv, Emits
<1>8. CASE Len(declared) # Len(decl_order)
  <2>1. Given /\ decl_order \in Seq(Sources \X Names) /\ marked \subseteq Place /\ declared \in Seq([fn : Names, types : SUBSET marked])
    BY <1>4 DEF IInv, Typed, Given, Rendered
  <2>2. Reach /\ Waiting = {} /\ SourceChosen
    BY <1>3 DEF IInv, Staged, Waiting, Within
  <2>3. \A y \in marked : RefersTo(y) \subseteq marked
    BY <2>2 DEF Reach
  <2>4. n \in DOMAIN decl_order /\ Len(declared) + 1 <= Len(decl_order)
    BY <1>1, <1>4, <1>8, <2>1 DEF Rendered
  <2>5. d \in Sources \X Names /\ d = << d[1], d[2] >>
    BY <1>2, <2>1, <2>4
  <2>6. FuncIds(d[1], d[2]) # {}
    BY <1>2, <2>2, <2>4, <2>5 DEF SourceChosen, Within
  <2>7. PICK i : i = find_func_proto_id(d[1], d[2])
    OBVIOUS
  <2>8. lookup_type(d[1], i) \in marked
    <3>1. Meant(d[1], i) \in Prototypes
      BY <1>2, <2>4, <2>7 DEF Prototypes
    <3> QED BY <2>2, <3>1, Looked DEF Reach
  <2>9. PICK r : r = render_c_decl(d[1], i)
    OBVIOUS
  <2>10. r \subseteq marked
    BY <2>1, <2>3, <2>8, <2>9, RenderedMarked
  <2>11. declared' = Append(declared, [fn |-> d[2], types |-> r]) /\ pc' = pc
    BY <1>3, <1>8, <2>7, <2>9
  <2>12. Rendered'
    <3>1. [fn |-> d[2], types |-> r] \in [fn : Names, types : SUBSET marked]
      BY <2>5, <2>10
    <3>2. declared' \in Seq([fn : Names, types : SUBSET marked]) /\ Len(declared') = Len(declared) + 1
      BY <2>1, <2>11, <3>1
    <3>3. marked' = marked /\ decl_order' = decl_order
      BY <1>3 DEF render_function_decl, chosen
    <3> QED BY <2>4, <3>2, <3>3 DEF Rendered
  <2> QED BY <1>3, <1>5, <1>6, <2>11, <2>12 DEF EInv, Emits
<1> QED BY <1>7, <1>8

LEMMA EStutters == ASSUME EInv, UNCHANGED vars PROVE EInv'
<1>1. UNCHANGED << pc, job, read, source_order, stack, marked, header, declared, decl_order >>
  BY DEF vars, inputs, hints, closes, chosen, output
<1>2. \A x : Source(x)' <=> Source(x)
  BY <1>1 DEF Source, Within
<1>3. Loads'
  BY <1>1, <1>2 DEF EInv, Loads, Within
<1>4. emitted' = emitted /\ Earlier' = Earlier
  BY <1>1 DEF emitted, Earlier
<1>5. ASSUME pc \in {"emit", "done"} PROVE Emits'
  <2>1. Written /\ Once /\ Done /\ Rendered /\ (IF pc = "done" THEN source_order = << >> ELSE Sliced)
    BY <1>5 DEF EInv, Emits
  <2>2. Written' /\ Once' /\ Rendered'
    BY <1>1, <2>1, KeysStay DEF Written, Once, Rendered, ReadAs
  <2>3. Done'
    BY <1>1, <1>4, <2>1, KeysStay DEF Done
  <2>4. Sliced => Sliced'
    BY <1>1, <1>4, KeysStay DEF Sliced, ReadAs
  <2> QED BY <1>1, <2>1, <2>2, <2>3, <2>4 DEF Emits
<1> QED BY <1>1, <1>3, <1>5 DEF EInv, Emits

LEMMA EInductive == IInv /\ EInv /\ [Next]_vars => EInv'
<1> SUFFICES ASSUME IInv, EInv, [Next]_vars PROVE EInv'
  OBVIOUS
<1>1. CASE ReadRequests \/ AddCandidate \/ LoadBase \/ ReadKallsyms \/ DropDuplicates
  BY <1>1, EStepEarly
<1>2. CASE LoadSource
  BY <1>2, EStepLoadSource
<1>3. CASE ResolveRequest
  BY <1>3, EStepResolveRequest
<1>4. CASE add_type_closure
  BY <1>4, EStepAddTypeClosure
<1>5. CASE EndClosure
  BY <1>5, EStepEndClosure
<1>6. CASE EndRequests
  BY <1>6, EStepEndRequests
<1>7. CASE EmitDecl
  BY <1>7, EStepEmitDecl
<1>8. CASE EndSource
  BY <1>8, EStepEndSource
<1>9. CASE render_function_decl
  BY <1>9, EStepRender
<1>10. CASE Over \/ UNCHANGED vars
  BY <1>10, EStutters DEF Over
<1> QED BY <1>1, <1>2, <1>3, <1>4, <1>5, <1>6, <1>7, <1>8, <1>9, <1>10 DEF Next

LEMMA AlwaysEmits == Spec => [](IInv /\ EInv)
<1>1. Init => IInv /\ EInv
  BY Initially, EInitially
<1>2. IInv /\ EInv /\ [Next]_vars => (IInv /\ EInv)'
  BY Inductive, EInductive
<1> QED BY <1>1, <1>2, PTL DEF Spec

\* For any sources and any functions: as long as bpftool prints all that a source
\* has, of the names that extract_typedef_name reads rightly a finished header
\* defines exactly those of the types its functions reach, each of them once, and
\* its declarations use no other (dump_c_for_ids, main, render_c_decl).
THEOREM HeaderComplete ==
  ASSUME DumpsComplete
  PROVE  Spec => []HeaderClosed
<1>1. IInv /\ EInv => HeaderClosed
  <2> SUFFICES ASSUME IInv, EInv, pc = "done", TagsApart PROVE HeaderClosed
    BY DEF HeaderClosed
  <2>1. Written /\ Once /\ Done /\ Rendered /\ source_order = << >>
    BY DEF EInv, Emits
  <2>2. marked \subseteq Place
    BY DEF IInv, Typed
  <2>3. ASSUME NEW k \in DOMAIN header
        PROVE  \E s \in Sources : \E j \in DOMAIN job.btf[s].dump : header[k] = job.btf[s].dump[j] /\ ReadAs(header[k]) \in KeysOf(s)
    BY <2>1, <2>3 DEF Written, Canonical
  <2>4. ASSUME NEW k \in DOMAIN header, NEW q, q \in {NameOf(header[k]), ReadAs(header[k])}, ReadRight(q)
        PROVE  NameOf(header[k]) = q /\ ReadAs(header[k]) = q /\ q \in Needed
    <3>1. PICK s \in Sources : \E j \in DOMAIN job.btf[s].dump : header[k] = job.btf[s].dump[j] /\ ReadAs(header[k]) \in KeysOf(s)
      BY <2>3
    <3>2. IsReadRight(header[k])
      BY <2>4, <3>1 DEF ReadRight
    <3>3. NameOf(header[k]) = ReadAs(header[k])
      BY <3>2 DEF IsReadRight, NameOf, ReadAs
    <3>4. KeysOf(s) \subseteq Needed
      BY DEF KeysOf, Needed
    <3> QED BY <2>4, <3>1, <3>3, <3>4
  <2>5. ASSUME NEW q \in Needed, ReadRight(q) PROVE q \in Defined
    <3>1. PICK y \in marked : IsNamed(y) /\ KeyOf(y) = q
      BY DEF Needed
    <3>2. y[1] \in Sources /\ q \in KeysOf(y[1])
      BY <2>2, <3>1 DEF KeysOf, Place
    <3>3. q \in emitted
      BY <2>1, <2>5, <3>2 DEF Done, Printed, Earlier
    <3>4. PICK k \in DOMAIN header : ReadAs(header[k]) = q
      BY <3>3 DEF emitted
    <3> QED BY <2>4, <2>5, <3>4 DEF Defined
  <2>6. ASSUME NEW q \in Needed \cup Defined, ReadRight(q) PROVE q \in Needed \cap Defined
    <3>1. CASE q \in Needed
      BY <2>5, <2>6, <3>1
    <3>2. CASE q \in Defined
      BY <2>4, <2>6, <3>2 DEF Defined
    <3> QED BY <2>6, <3>1, <3>2
  <2>7. ASSUME NEW j \in DOMAIN header, NEW k \in DOMAIN header, j # k, ReadRight(NameOf(header[j]))
        PROVE  NameOf(header[j]) # NameOf(header[k])
    <3>1. ReadAs(header[j]) # ReadAs(header[k])
      BY <2>1, <2>7 DEF Once
    <3> QED BY <2>4, <2>7, <3>1
  <2>8. ASSUME NEW k \in DOMAIN declared PROVE declared[k].types \subseteq marked
    <3>1. declared \in Seq([fn : Names, types : SUBSET marked])
      BY <2>1 DEF Rendered
    <3>2. PICK X : X = [fn : Names, types : SUBSET marked]
      OBVIOUS
    <3>3. PICK r : r = declared
      OBVIOUS
    <3>4. r \in Seq(X) /\ k \in DOMAIN r
      BY <2>8, <3>1, <3>2, <3>3
    <3>5. r[k] \in X
      BY ONLY <3>4
    <3> QED BY <3>2, <3>3, <3>5
  <2>9. ASSUME NEW k \in DOMAIN declared, NEW y \in declared[k].types, IsNamed(y), ReadRight(KeyOf(y))
        PROVE  KeyOf(y) \in Defined
    <3>1. KeyOf(y) \in Needed
      BY <2>8, <2>9 DEF Needed
    <3> QED BY <2>5, <2>9, <3>1
  <2> QED BY <2>6, <2>7, <2>9 DEF HeaderClosed
<1> QED BY <1>1, AlwaysEmits, PTL

\* For any sources and any dumps that print types under their own names: the
\* definition under a name that is read rightly is the type that the function
\* means, when the dump tells the types of the name apart (canonical_name_for_dump).
THEOREM LayoutsRight ==
  ASSUME DumpsTrue
  PROVE  Spec => []RightLayout
<1>1. IInv /\ EInv => RightLayout
  <2> SUFFICES ASSUME IInv, EInv, pc = "done", NEW k \in DOMAIN header, NEW y \in marked, IsNamed(y), Alone(y),
                      ReadRight(KeyOf(y)), KeyOf(y) = NameOf(header[k])
               PROVE  header[k].type = y
    BY DEF RightLayout
  <2>1. PICK s \in Sources : \E j \in DOMAIN job.btf[s].dump : header[k] = job.btf[s].dump[j] /\ Canonical(s, header[k])
    BY DEF EInv, Emits, Written
  <2>2. PICK dump : dump = job.btf[s].dump
    OBVIOUS
  <2>3. PICK j \in DOMAIN dump : header[k] = dump[j] /\ Canonical(s, header[k])
    BY <2>1, <2>2
  <2>4. IsReadRight(dump[j])
    BY <2>2, <2>3 DEF ReadRight
  <2>5. y[1] = s
    <3>1. KeyOf(y) \in KeysOf(s)
      BY <2>3, <2>4 DEF Canonical, ReadAs, NameOf, IsReadRight
    <3>2. PICK z \in marked : z[1] = s /\ IsNamed(z) /\ KeyOf(z) = KeyOf(y)
      BY <3>1 DEF KeysOf
    <3>3. z = y
      BY <3>2 DEF Alone
    <3> QED BY <3>2, <3>3
  <2>6. PICK m \in DOMAIN dump :
          /\ dump[m].type = y
          /\ \A i \in DOMAIN dump : dump[i].name = dump[m].name =>
                i = m \/ (s # Base /\ dump[m].version = 2 /\ dump[i].version = 1)
    BY <2>2, <2>5 DEF Alone
  <2>7. dump[j].name = dump[m].name
    <3>1. y[1] \in Sources /\ y[2] \in job.btf[y[1]].ids /\ KeyOf(y) = << types(y[1])[y[2]].kind, types(y[1])[y[2]].name >>
      <4>1. "none" \notin Layouts
        BY DEF Layouts
      <4>2. y[2] \in job.btf[y[1]].ids
        BY <4>1 DEF IsNamed, KindOf
      <4> QED BY <2>5, <4>2 DEF KeyOf
    <3>2. job \in Jobs
      BY SMTT(60) DEF IInv, Typed
    <3>3. dump[m].name = types(y[1])[y[2]].name
      BY <2>2, <2>6, <3>1, <3>2 DEF DumpsTrue, types
    <3> QED BY <2>3, <3>1, <3>3 DEF NameOf
  <2>8. ASSUME s # Base, dump[m].version = 2, dump[j].version = 1 PROVE FALSE
    <3>1. prefer_suffixed(s, dump[j].name)
      BY <2>2, <2>7, <2>8 DEF prefer_suffixed
    <3> QED BY <2>3, <2>8, <2>4, <3>1 DEF Canonical, canonical_name_for_dump, IsReadRight
  <2>9. j = m
    BY <2>6, <2>7, <2>8
  <2> QED BY <2>3, <2>6, <2>9
<1> QED BY <1>1, AlwaysEmits, PTL
=============================================================================
