-------------------------- MODULE DsoLayout_proofs --------------------------
(***************************************************************************)
(* Proofs about DsoLayout, for any symbols at any addresses, any names and *)
(* hashes, relocations and synthetic pages.                                *)
(***************************************************************************)
EXTENDS DsoLayout, FiniteSetTheorems, SequenceTheorems, WellFoundedInduction, TLAPS

USE DEF input, areas, dynamics, places, tables, map

-----------------------------------------------------------------------------
(* The inductive invariant, part by part *)

Shaped ==
  /\ LayoutTypeOK
  /\ gnu = [buckets |-> gnu.buckets, chains |-> gnu.chains, bloom |-> gnu.bloom]
  /\ dynstr = [offsets |-> dynstr.offsets, size |-> dynstr.size]

SizesKnown == pc \notin {"idle", "prepare"}

\* Sizes are set before any range is computed.
SizesSet == IF SizesKnown THEN text_min_page % PageSize = 0 /\ \A i \in Defined : symbols[i].size > 0
            ELSE kind = "text"

Source(k)      == IF k = "text" THEN Code ELSE Rodata
IntervalsOf(k) == {Interval(symbols[i]) : i \in Source(k)}

\* The regions of a kind whose intervals are merged, all or some.
Started(k) == SizesKnown /\ (pc # "merge" \/ k = "text" \/ kind = "rodata")
Waiting(k) == IF pc = "merge" /\ kind = k THEN intervals ELSE {}
Taken(k)   == IntervalsOf(k) \ Waiting(k)

PageAligned(rs) == \A n \in DOMAIN rs : /\ rs[n].start % PageSize = 0 /\ rs[n].end % PageSize = 0
                                        /\ rs[n].start < rs[n].end
Ascending(rs)   == \A m, n \in DOMAIN rs : m < n => rs[m].end < rs[n].start
Holds(r, p)     == r.start <= p /\ p < r.end
Covers(rs, vs)  == \A p \in Int : (\E n \in DOMAIN rs : Holds(rs[n], p)) <=> (\E v \in vs : v[1] <= p /\ p < v[2])

\* Regions are whole pages, apart from one another, and cover what was merged.
RegionsRight ==
  \A k \in Kinds :
    IF Started(k)
      THEN /\ PageAligned(regions[k]) /\ Ascending(regions[k]) /\ Covers(regions[k], Taken(k))
           /\ Waiting(k) \subseteq IntervalsOf(k)
           /\ \A v \in Waiting(k) : regions[k] # << >> => regions[k][Len(regions[k])].start <= v[1]
      ELSE regions[k] = << >>

\* The tables of .gnu.hash while symbols enter them in the order of their buckets.
Emitting == pc \notin {"idle", "prepare", "merge", "sections"}
DynBucket(d) == Bucket(dynamic_symbols[d])

Chained ==
  /\ Len(gnu.chains) = Len(dynamic_symbols)
  /\ \A d \in DOMAIN dynamic_symbols :
       /\ gnu.chains[d].hash = HashOf(dynamic_symbols[d]) - (HashOf(dynamic_symbols[d]) % 2)
       /\ BloomBits(HashOf(dynamic_symbols[d])) \subseteq gnu.bloom
  /\ \A d, e \in DOMAIN dynamic_symbols : d <= e => DynBucket(d) <= DynBucket(e)
  /\ \A d \in DOMAIN dynamic_symbols : \A j \in unsorted : DynBucket(d) <= Bucket(j)
  /\ \A d \in DOMAIN dynamic_symbols :
       d < Len(dynamic_symbols) /\ gnu.chains[d].last => DynBucket(d) # DynBucket(d + 1)

Bucketed ==
  /\ DOMAIN gnu.buckets = 0 .. gnu_nbuckets - 1
  /\ \A b \in DOMAIN gnu.buckets : gnu.buckets[b] \in 0 .. Len(dynamic_symbols)
  /\ \A d \in DOMAIN dynamic_symbols : gnu.buckets[DynBucket(d)] \in 1 .. d
  /\ \A b \in DOMAIN gnu.buckets : gnu.buckets[b] # 0 => DynBucket(gnu.buckets[b]) = b

HashRight ==
  IF Emitting
    THEN /\ Chained /\ Bucketed
         /\ dynamic_symbols # << >> =>
              /\ pc = "emit" => ~gnu.chains[Len(gnu.chains)].last
              /\ pc \notin {"emit", "raised"} => gnu.chains[Len(gnu.chains)].last
    ELSE dynamic_symbols = << >> /\ gnu.chains = << >>

\* Sections follow one another in the file, behind the headers.
AllKinds == Kinds \cup {"rw"}
Later(k) == IF k = "text" THEN {"rodata", "rw"} ELSE IF k = "rodata" THEN {"rw"} ELSE {}
FileEnd(s) == s.offset + s.size

InFile ==
  /\ TextBase <= cursor.offset
  /\ \A k \in AllKinds : \A n \in DOMAIN placed[k] : FileEnd(placed[k][n]) <= cursor.offset
  /\ \A k \in AllKinds : \A m, n \in DOMAIN placed[k] : m < n => FileEnd(placed[k][m]) <= placed[k][n].offset
  /\ \A k \in AllKinds : \A j \in Later(k) : \A m \in DOMAIN placed[k] : \A n \in DOMAIN placed[j] :
       FileEnd(placed[k][m]) <= placed[j][n].offset

RegionsPlaced ==
  \A k \in Kinds :
    /\ Len(placed[k]) <= Len(regions[k])
    /\ \A n \in DOMAIN placed[k] :
         /\ placed[k][n].offset % PageSize = 0
         /\ placed[k][n].addr = virtual_address(regions[k][n].start)
         /\ placed[k][n].size = regions[k][n].end - regions[k][n].start

\* The private sections have one distance between offset and address.
RwPlaced ==
  /\ Len(placed["rw"]) <= Len(RwNames)
  /\ placed["rw"] # << >> => (cursor.addr - cursor.offset) % PageSize = 0
  /\ \A n \in DOMAIN placed["rw"] :
       /\ placed["rw"][n].addr - placed["rw"][n].offset = cursor.addr - cursor.offset
       /\ placed["rw"][n].size = RwSize(RwNames[n])

AllPlaced(k) == Len(placed[k]) = Len(regions[k])

PlacedRight ==
  /\ InFile /\ RegionsPlaced /\ RwPlaced
  /\ pc \in {"idle", "prepare", "merge", "sections", "emit"} =>
       /\ placed["text"] = << >> /\ placed["rodata"] = << >> /\ placed["rw"] = << >>
  /\ pc \in {"sections", "emit"} => kind = "text"
  /\ pc = "place" =>
       /\ placed["rw"] = << >>
       /\ IF kind = "text" THEN placed["rodata"] = << >> ELSE AllPlaced("text")
  /\ pc \in {"place_rw", "finish", "map", "done"} => AllPlaced("text") /\ AllPlaced("rodata")
  /\ pc = "place_rw" => /\ Len(placed["rw"]) < Len(RwNames)
                         /\ (cursor.addr - cursor.offset) % PageSize = 0
  /\ pc \in {"finish", "map", "done"} => Len(placed["rw"]) = Len(RwNames)
  /\ pc \in {"place_rw", "finish"} => kind = "text"

\* The page map is made of pages of the regions, each once.
MappingOf(k, n) ==
  {[offset |-> placed[k][n].offset + (p - regions[k][n].start), page |-> p, kind |-> k] :
     p \in Pages(regions[k][n]) \ args.synthetic}

MapRight ==
  /\ pc \in {"map", "done"} => loads # {}
  /\ IF loads = {} THEN page_map = {} /\ mapped = 0
     ELSE /\ pc \in {"map", "done", "raised"}
          /\ loads = Loads /\ AllPlaced("text") /\ AllPlaced("rodata") /\ Len(placed["rw"]) = Len(RwNames)
          /\ dynamic_size = 16 * (Needed + (IF HasRela THEN 9 ELSE 6))
          /\ \A e \in page_map : \E k \in Kinds : \E n \in DOMAIN regions[k] : e \in MappingOf(k, n)
          /\ \A e, f \in page_map : (e.offset = f.offset) <=> (e.page = f.page)
  /\ pc \in {"map", "done"} =>
       /\ mapped <= Len(regions[kind])
       /\ \A k \in Kinds : \A n \in DOMAIN regions[k] :
            (k = kind /\ n <= mapped) \/ (k = "text" /\ kind = "rodata") => MappingOf(k, n) \subseteq page_map
  /\ pc = "done" => kind = "rodata" /\ mapped = Len(regions["rodata"])

IInv == Shaped /\ SizesSet /\ RegionsRight /\ HashRight /\ PlacedRight /\ MapRight

\* A step of the builder, whatever it is called with.
BuilderStep == (\E b \in Argument : Construct(b)) \/ LayoutStep

-----------------------------------------------------------------------------
(* Arithmetic of pages *)

LEMMA PageFacts ==
  ASSUME NEW a \in Int
  PROVE  /\ align_down(a) \in Int /\ align_down(a) % PageSize = 0 /\ align_down(a) <= a /\ a < align_down(a) + PageSize
         /\ PageUp(a) \in Int /\ PageUp(a) % PageSize = 0 /\ a <= PageUp(a) /\ PageUp(a) < a + PageSize
  BY DEF align_down, PageUp, align, PageSize

LEMMA PageDistance ==
  ASSUME NEW p \in Int, NEW a \in Int, p % PageSize = 0, a % PageSize = 0
  PROVE  p = a + PageSize * ((p - a) \div PageSize) /\ (p - a) \div PageSize \in Int
  BY DEF PageSize

\* A set of natural numbers has a least one, which is Min.
LEMMA LeastNat ==
  ASSUME NEW S \in SUBSET Nat, S # {}
  PROVE  \E i \in S : \A j \in S : i <= j
<1>1. \A x, y \in Nat : << y, x >> \in OpToRel(<, Nat) <=> y < x
  BY DEF OpToRel
<1>2. PICK R : IsWellFoundedOn(R, Nat) /\ \A x, y \in Nat : << y, x >> \in R <=> y < x
  BY <1>1, NatLessThanWellFounded
<1>3. PICK x \in S : \A y \in S : ~(<< y, x >> \in R)
  BY <1>2, WFMin
<1>4. ASSUME NEW y \in S PROVE x <= y
  <2>1. x \in Nat /\ y \in Nat /\ ~(y < x)
    BY <1>2, <1>3
  <2> QED BY <2>1
<1> QED BY <1>4

LEMMA MinNat ==
  ASSUME NEW S \in SUBSET Nat, S # {}
  PROVE  Min(S) \in S
<1>1. PICK i \in S : \A j \in S : i <= j
  BY LeastNat
<1> QED BY <1>1 DEF Min

\* The interval of a symbol is a nonempty range of whole pages.
LEMMA IntervalFacts ==
  ASSUME NEW s, s.address \in Nat, s.size \in Nat, s.size > 0
  PROVE  /\ Interval(s) \in Nat \X Nat /\ Interval(s)[1] < Interval(s)[2]
         /\ Interval(s)[1] % PageSize = 0 /\ Interval(s)[2] % PageSize = 0
  BY DEF Interval, align_down, PageUp, align, PageSize

LEMMA SymbolAt ==
  ASSUME NEW q \in Seq(Symbol), NEW i \in DOMAIN q
  PROVE  /\ q[i] \in Symbol /\ q[i].name \in Names /\ q[i].defined \in BOOLEAN /\ q[i].func \in BOOLEAN
         /\ q[i].address \in Nat /\ q[i].size \in Nat
<1>1. q[i] \in Symbol
  OBVIOUS
<1> QED BY <1>1 DEF Symbol

\* The symbols of a build are numbered from 1.
LEMMA DynamicFinite ==
  ASSUME NEW b \in Argument
  PROVE  Cardinality(DynamicSymbols(b)) \in Nat
<1>1. b.symbols \in Seq(Symbol)
  BY DEF Argument
<1>2. DOMAIN b.symbols = 1 .. Len(b.symbols) /\ Len(b.symbols) \in Nat
  BY <1>1
<1>3. IsFiniteSet(1 .. Len(b.symbols))
  BY <1>2, FS_Interval
<1>4. DynamicSymbols(b) \subseteq 1 .. Len(b.symbols)
  BY <1>2 DEF DynamicSymbols
<1> QED BY <1>3, <1>4, FS_Subset, FS_CardinalityType

\* The symbols get sizes and addresses and stay symbols.
LEMMA PreparedType ==
  ASSUME symbols \in Seq(Symbol)
  PROVE  /\ Prepared \in Seq(Symbol) /\ DOMAIN Prepared = DOMAIN symbols
         /\ \A i \in DOMAIN symbols : /\ Prepared[i].defined = symbols[i].defined /\ Prepared[i].func = symbols[i].func
                                      /\ Prepared[i].rodata = symbols[i].rodata
                                      /\ symbols[i].defined => Prepared[i].size > 0
<1>1. DOMAIN symbols = 1 .. Len(symbols) /\ Len(symbols) \in Nat
  OBVIOUS
<1>2. ASSUME NEW i \in DOMAIN symbols PROVE Housed(i) \in Nat
  <2>1. Homeless(i) \subseteq 1 .. Len(symbols)
    BY <1>1 DEF Homeless, Defined
  <2>3. IsFiniteSet(1 .. Len(symbols))
    BY <1>1, FS_Interval
  <2>2. Cardinality(Homeless(i)) \in Nat
    BY <2>1, <2>3, FS_Subset, FS_CardinalityType
  <2> QED BY <2>2, SymbolAt DEF Housed, TextBase, ExportStubSize
<1>3. ASSUME NEW i \in DOMAIN symbols
      PROVE  /\ Prepared[i] \in Symbol /\ Prepared[i].defined = symbols[i].defined
             /\ Prepared[i].func = symbols[i].func /\ Prepared[i].rodata = symbols[i].rodata
             /\ symbols[i].defined => Prepared[i].size > 0
  <2>1. symbols[i] \in Symbol
    BY SymbolAt
  <2>2. Housed(i) \in Nat
    BY <1>2
  <2>3. Sized(symbols[i]) \in Nat /\ Sized(symbols[i]) > 0
    BY <2>1 DEF Sized, Symbol, ExportStubSize
  <2> QED BY <2>1, <2>2, <2>3 DEF Prepared, Symbol
<1>4. DOMAIN Prepared = DOMAIN symbols
  BY DEF Prepared
<1>5. Prepared \in [1 .. Len(symbols) -> Symbol]
  BY <1>1, <1>3, <1>4 DEF Prepared
<1> QED BY <1>1, <1>3, <1>4, <1>5

\* Sequences, their ends, what is appended and what is replaced.
LEMMA SeqFacts ==
  ASSUME NEW S, NEW q \in Seq(S)
  PROVE  /\ Len(q) \in Nat /\ DOMAIN q = 1 .. Len(q)
         /\ \A n \in DOMAIN q : q[n] \in S
         /\ q # << >> => Len(q) > 0 /\ Len(q) \in DOMAIN q /\ q[Len(q)] \in S
<1>1. Len(q) \in Nat /\ DOMAIN q = 1 .. Len(q) /\ \A n \in DOMAIN q : q[n] \in S
  OBVIOUS
<1>2. q # << >> => Len(q) > 0
  BY <1>1, EmptySeq
<1> QED BY <1>1, <1>2

LEMMA AppendFacts ==
  ASSUME NEW S, NEW q \in Seq(S), NEW e \in S
  PROVE  /\ Append(q, e) \in Seq(S) /\ Len(Append(q, e)) = Len(q) + 1
         /\ DOMAIN Append(q, e) = 1 .. (Len(q) + 1) /\ Append(q, e)[Len(q) + 1] = e
         /\ \A n \in DOMAIN q : Append(q, e)[n] = q[n]
  OBVIOUS

LEMMA ReplaceFacts ==
  ASSUME NEW S, NEW q \in Seq(S), NEW k \in DOMAIN q, NEW e \in S
  PROVE  /\ [q EXCEPT ![k] = e] \in Seq(S) /\ Len([q EXCEPT ![k] = e]) = Len(q)
         /\ DOMAIN [q EXCEPT ![k] = e] = DOMAIN q
         /\ \A n \in DOMAIN q : [q EXCEPT ![k] = e][n] = IF n = k THEN e ELSE q[n]
  BY ExceptSeq

-----------------------------------------------------------------------------
(* The initial state *)

LEMMA InitInv == LayoutInit => IInv
<1> SUFFICES ASSUME LayoutInit PROVE IInv
  OBVIOUS
<1> USE DEF LayoutInit
<1>0. placed["text"] = << >> /\ placed["rodata"] = << >> /\ placed["rw"] = << >>
      /\ \A k \in Kinds : placed[k] = << >> /\ regions[k] = << >>
  BY DEF Kinds
<1>1. Shaped
  <2>1. LayoutTypeOK
    BY <1>0 DEF LayoutTypeOK, Steps, Kinds, NoArgument, Argument, TextBase
  <2> QED BY <2>1 DEF Shaped
<1>2. SizesSet
  BY DEF SizesSet, SizesKnown
<1>3. RegionsRight
  BY <1>0 DEF RegionsRight, Started, SizesKnown
<1>4. HashRight
  BY DEF HashRight, Emitting
<1>5. PlacedRight
  <2>2. InFile
    BY <1>0 DEF InFile, TextBase, AllKinds, Later, Kinds
  <2>3. Len(RwNames) \in Nat
    BY DEF RwNames
  <2> QED BY <1>0, <2>2, <2>3 DEF PlacedRight, RegionsPlaced, RwPlaced, AllPlaced
<1>6. MapRight
  BY DEF MapRight
<1> QED BY <1>1, <1>2, <1>3, <1>4, <1>5, <1>6 DEF IInv

-----------------------------------------------------------------------------
(* Types *)

\* The private sections: five of them, or six with relocations; .dynamic is last.
LEMMA RwFacts ==
  ASSUME LayoutTypeOK
  PROVE  /\ Len(RwNames) \in Nat /\ Len(RwNames) > 0 /\ DOMAIN RwNames = 1 .. Len(RwNames)
         /\ \A n \in DOMAIN RwNames : /\ RwNames[n] \in SectionNames /\ RwSize(RwNames[n]) \in Nat
                                      /\ RwAlign(RwNames[n]) \in {1, 8}
         /\ RwSize(RwNames[Len(RwNames)]) = 16 * (Needed + 10)
<1>1. args.data \in Nat /\ Len(args.relocations) \in Nat
  BY DEF LayoutTypeOK, Argument
<1>2. DynCount \in Nat /\ GnuSize \in Nat /\ dynstr.size \in Nat /\ Needed \in Nat
  BY DEF LayoutTypeOK, DynCount, GnuSize, Needed
<1>3. /\ RwSize(".data") \in Nat /\ RwSize(".dynstr") \in Nat /\ RwSize(".dynsym") \in Nat
      /\ RwSize(".gnu.hash") \in Nat /\ RwSize(".rela.dyn") \in Nat /\ RwSize(".dynamic") = 16 * (Needed + 10)
  BY <1>1, <1>2 DEF RwSize
<1>4. \A n : RwAlign(n) \in {1, 8}
  BY DEF RwAlign
<1>5. CASE HasRela
  BY <1>2, <1>3, <1>4, <1>5 DEF RwNames, SectionNames
<1>6. CASE ~HasRela
  BY <1>2, <1>3, <1>4, <1>6 DEF RwNames, SectionNames
<1> QED BY <1>5, <1>6

\* What an argument of the builder is made of.
LEMMA ArgumentFacts ==
  ASSUME NEW b \in Argument
  PROVE  /\ b.symbols \in Seq(Symbol) /\ b.data \in Nat /\ b.rw_base \in Int /\ b.synthetic \in SUBSET Nat
         /\ DOMAIN b.symbols = 1 .. Len(b.symbols) /\ Len(b.symbols) \in Nat
  BY DEF Argument

\* The parts of the type invariant that steps read.
LEMMA TypeFacts ==
  ASSUME LayoutTypeOK
  PROVE  /\ kind \in Kinds /\ args \in Argument /\ symbols \in Seq(Symbol) /\ text_min_page \in Nat
         /\ intervals \in SUBSET (Nat \X Nat)
         /\ \A k \in Kinds : /\ regions[k] \in Seq(Region) /\ Len(regions[k]) \in Nat
                             /\ DOMAIN regions[k] = 1 .. Len(regions[k])
                             /\ \A n \in DOMAIN regions[k] : regions[k][n].start \in Nat /\ regions[k][n].end \in Nat
         /\ \A k \in Kinds \cup {"rw"} :
              /\ placed[k] \in Seq(PlacedSection)
              /\ Len(placed[k]) \in Nat /\ DOMAIN placed[k] = 1 .. Len(placed[k])
              /\ \A n \in DOMAIN placed[k] :
                   placed[k][n].offset \in Nat /\ placed[k][n].addr \in Int /\ placed[k][n].size \in Nat
         /\ cursor.offset \in Nat /\ cursor.addr \in Int
         /\ gnu.chains \in Seq(Chain)
         /\ Len(gnu.chains) \in Nat /\ DOMAIN gnu.chains = 1 .. Len(gnu.chains)
         /\ dynamic_symbols \in Seq(DOMAIN symbols) /\ unsorted \subseteq DOMAIN symbols
         /\ Len(dynamic_symbols) \in Nat /\ DOMAIN dynamic_symbols = 1 .. Len(dynamic_symbols)
         /\ gnu_nbuckets \in Nat \ {0} /\ gnu_bloom_size \in Nat \ {0} /\ dynstr.size \in Nat \ {0}
         /\ mapped \in Nat
<1>1. /\ kind \in Kinds /\ args \in Argument /\ symbols \in Seq(Symbol) /\ text_min_page \in Nat
      /\ intervals \in SUBSET (Nat \X Nat) /\ cursor.offset \in Nat /\ cursor.addr \in Int
      /\ gnu.chains \in Seq(Chain)
      /\ dynamic_symbols \in Seq(DOMAIN symbols) /\ unsorted \subseteq DOMAIN symbols
      /\ gnu_nbuckets \in Nat \ {0} /\ gnu_bloom_size \in Nat \ {0} /\ dynstr.size \in Nat \ {0}
      /\ mapped \in Nat
  BY DEF LayoutTypeOK
<1>2. ASSUME NEW k \in Kinds
      PROVE  /\ regions[k] \in Seq(Region) /\ Len(regions[k]) \in Nat
             /\ DOMAIN regions[k] = 1 .. Len(regions[k])
             /\ \A n \in DOMAIN regions[k] : regions[k][n].start \in Nat /\ regions[k][n].end \in Nat
  <2>1. regions[k] \in Seq(Region)
    BY DEF LayoutTypeOK
  <2>2. \A n \in DOMAIN regions[k] : regions[k][n] \in Region
    BY <2>1
  <2> QED BY <2>1, <2>2 DEF Region
<1>3. ASSUME NEW k \in Kinds \cup {"rw"}
      PROVE  /\ placed[k] \in Seq(PlacedSection)
             /\ Len(placed[k]) \in Nat /\ DOMAIN placed[k] = 1 .. Len(placed[k])
             /\ \A n \in DOMAIN placed[k] :
                  placed[k][n].offset \in Nat /\ placed[k][n].addr \in Int /\ placed[k][n].size \in Nat
  <2>1. placed[k] \in Seq(PlacedSection)
    BY DEF LayoutTypeOK
  <2>2. \A n \in DOMAIN placed[k] : placed[k][n] \in PlacedSection
    BY <2>1
  <2> QED BY <2>1, <2>2 DEF PlacedSection
<1>4. /\ Len(gnu.chains) \in Nat /\ DOMAIN gnu.chains = 1 .. Len(gnu.chains)
      /\ Len(dynamic_symbols) \in Nat /\ DOMAIN dynamic_symbols = 1 .. Len(dynamic_symbols)
  BY <1>1
<1> QED BY <1>1, <1>2, <1>3, <1>4

LEMMA InStringType ==
  ASSUME NEW str, str = [offsets |-> str.offsets, size |-> str.size], str.size \in Nat \ {0},
         NEW n, NameBytes[n] \in Nat \ {0}
  PROVE  /\ InString(str, n).size \in Nat \ {0}
         /\ InString(str, n) = [offsets |-> InString(str, n).offsets, size |-> InString(str, n).size]
<1>1. CASE n \in DOMAIN str.offsets
  BY <1>1 DEF InString
<1>2. CASE n \notin DOMAIN str.offsets
  <2> DEFINE o == [m \in DOMAIN str.offsets \cup {n} |-> IF m = n THEN str.size ELSE str.offsets[m]]
  <2>1. InString(str, n) = [offsets |-> o, size |-> str.size + NameBytes[n]]
    BY <1>2 DEF InString
  <2> HIDE DEF o
  <2> QED BY <2>1
<1> QED BY <1>1, <1>2

LEMMA EndedType ==
  ASSUME NEW chains \in Seq(Chain)
  PROVE  Ended(chains) \in Seq(Chain)
<1>1. CASE chains = << >>
  BY <1>1 DEF Ended
<1>2. CASE chains # << >>
  <2>1. Len(chains) \in DOMAIN chains /\ chains[Len(chains)] \in Chain
    BY <1>2, SeqFacts
  <2> DEFINE e == [chains[Len(chains)] EXCEPT !.last = TRUE]
  <2>2. e \in Chain
    BY <2>1 DEF Chain
  <2>3. Ended(chains) = [chains EXCEPT ![Len(chains)] = e]
    BY <1>2 DEF Ended
  <2> HIDE DEF e
  <2> QED BY <2>1, <2>2, <2>3, ReplaceFacts
<1> QED BY <1>1, <1>2

\* Any number of symbols fills a word.
LEMMA WordsFilled ==
  ASSUME NEW n \in Nat \ {0}
  PROVE  (n + WordBits - 1) \div WordBits \in Nat \ {0}
<1>1. WordBits \in Nat \ {0}
  BY LayoutConstants
<1>2. \A w \in Nat \ {0} : \A x \in Nat : w <= x => x \div w \in Nat \ {0}
  <2> TAKE w \in Nat \ {0}
  <2> TAKE x \in Nat
  <2> HAVE w <= x
  <2>1. x \div w \in Int /\ x < w * (x \div w) + w
    OBVIOUS
  <2>2. ASSUME NEW q \in Int, q <= 0 PROVE w * q <= 0
    BY <2>2
  <2> QED BY <2>1, <2>2
<1> QED BY <1>1, <1>2

LEMMA ShapedStep ==
  ASSUME IInv, BuilderStep
  PROVE  Shaped'
<1>0. LayoutTypeOK /\ gnu = [buckets |-> gnu.buckets, chains |-> gnu.chains, bloom |-> gnu.bloom]
      /\ dynstr = [offsets |-> dynstr.offsets, size |-> dynstr.size]
  BY DEF IInv, Shaped
<1>t. RegionsRight /\ HashRight
  BY DEF IInv
<1>1. ASSUME NEW b \in Argument, Construct(b) PROVE Shaped'
  <2>1. b \in Argument
    OBVIOUS
  <2>2. dynamic_symbols = << >>
    BY <1>1, <1>t DEF Construct, HashRight, Emitting
  <2>3. Cardinality(DynamicSymbols(b)) \in Nat
    BY <2>1, DynamicFinite
  <2>4. gnu_nbuckets' \in Nat \ {0} /\ gnu_bloom_size' \in Nat \ {0}
    <3> PICK n \in Nat : n = Cardinality(DynamicSymbols(b))
      BY <2>3
    <3>1. n > 0 => (n + WordBits - 1) \div WordBits \in Nat \ {0}
      BY WordsFilled
    <3> QED BY <1>1, <3>1 DEF Construct, Larger
  <2>5. unsorted' \subseteq DOMAIN symbols' /\ dynamic_symbols' \in Seq(DOMAIN symbols')
    BY <1>1, <2>2 DEF Construct, DynamicSymbols
  <2>6. args' \in Argument /\ symbols' \in Seq(Symbol)
    BY <1>1, <2>1, ArgumentFacts DEF Construct
  <2> QED BY <1>0, <1>1, <2>4, <2>5, <2>6 DEF Construct, LayoutTypeOK, Shaped, Steps
<1>2. CASE prepare_symbol_virtual_addresses
  <2> USE DEF prepare_symbol_virtual_addresses
  <2>1. symbols' \in Seq(Symbol) /\ DOMAIN symbols' = DOMAIN symbols /\ Prepared \in Seq(Symbol)
    BY <1>0, <1>2, PreparedType DEF LayoutTypeOK
  <2>2. \A i \in DOMAIN symbols : Prepared[i].address \in Nat /\ Prepared[i].size \in Nat
    BY <1>0, <2>1, PreparedType, SymbolAt DEF LayoutTypeOK
  <2>3. text_min_page' \in Nat
    <3> DEFINE anchors == IF Code # {} THEN Code ELSE Defined
               S == {Prepared[i].address : i \in anchors}
    <3>1. CASE anchors = {}
      BY <1>2, <3>1 DEF TextMinPage, TextBase
    <3>2. CASE anchors # {}
      <4>1. S \in SUBSET Nat /\ S # {}
        BY <2>2, <3>2 DEF Code, Defined
      <4>2. Min(S) \in Nat
        BY <4>1, MinNat
      <4>3. align_down(Min(S)) \in Nat
        BY <4>2 DEF align_down, PageSize
      <4> QED BY <1>2, <3>2, <4>3 DEF TextMinPage
    <3> QED BY <3>1, <3>2
  <2>4. intervals' \in SUBSET (Nat \X Nat)
    <3>1. \A i \in Code : Interval(Prepared[i]) \in Nat \X Nat
      BY <2>2, PageFacts DEF Code, Defined, Interval, align_down, PageUp, align, PageSize
    <3> QED BY <1>2, <3>1
  <2>5. unsorted' \subseteq DOMAIN symbols' /\ dynamic_symbols' \in Seq(DOMAIN symbols')
    BY <1>0, <1>2, <2>1 DEF LayoutTypeOK
  <2> QED BY <1>0, <1>2, <2>1, <2>3, <2>4, <2>5 DEF LayoutTypeOK, Shaped, Steps
<1>3. CASE MergeInterval
  <2>1. PICK v \in intervals : regions' = [regions EXCEPT ![kind] = Extended(@, v)] /\ intervals' = intervals \ {v}
    BY <1>3 DEF MergeInterval
  <2>2. v \in Nat \X Nat /\ kind \in Kinds /\ regions[kind] \in Seq(Region)
    BY <1>0, <2>1, TypeFacts
  <2>3. Extended(regions[kind], v) \in Seq(Region)
    <3>1. ASSUME regions[kind] # << >>
          PROVE  [regions[kind] EXCEPT ![Len(regions[kind])].end = Larger(@, v[2])] \in Seq(Region)
      <4> DEFINE l == Len(regions[kind])
                 e == [regions[kind][l] EXCEPT !.end = Larger(@, v[2])]
      <4>1. l \in DOMAIN regions[kind] /\ regions[kind][l] \in Region
        BY <2>2, <3>1, SeqFacts
      <4>2. v[2] \in Nat
        BY <2>2
      <4>3. e \in Region
        BY <4>1, <4>2 DEF Larger, Region
      <4> HIDE DEF e
      <4>4. [regions[kind] EXCEPT ![l] = e] \in Seq(Region)
        BY <2>2, <4>1, <4>3, ReplaceFacts
      <4> QED BY <4>4 DEF e
    <3>2. Append(regions[kind], [start |-> v[1], end |-> v[2]]) \in Seq(Region)
      <4>1. [start |-> v[1], end |-> v[2]] \in Region
        BY <2>2 DEF Region
      <4> QED BY <2>2, <4>1
    <3> QED BY <3>1, <3>2 DEF Extended
  <2>4. regions' \in [Kinds -> Seq(Region)]
    BY <1>0, <2>1, <2>2, <2>3 DEF LayoutTypeOK
  <2>5. intervals' \in SUBSET (Nat \X Nat)
    BY <1>0, <2>1 DEF LayoutTypeOK
  <2> QED BY <1>0, <1>3, <2>4, <2>5 DEF MergeInterval, LayoutTypeOK, Shaped
<1>4. CASE EndRegions
  <2>1. \A i \in Rodata : Interval(symbols[i]) \in Nat \X Nat
    <3>1. \A i \in Rodata : symbols[i].address \in Nat /\ symbols[i].size \in Nat
      BY <1>0, TypeFacts, SymbolAt DEF Rodata, Defined
    <3> QED BY <3>1 DEF Interval, align_down, PageUp, align, PageSize
  <2> QED BY SMTT(60), <1>0, <1>4, <2>1 DEF EndRegions, LayoutTypeOK, Shaped, Steps, Kinds
<1>5. CASE AssignSections
  BY <1>0, <1>5 DEF AssignSections, LayoutTypeOK, Shaped, Steps
<1>6. CASE EmitSymbol
  <2>1. PICK i \in unsorted : /\ unsorted' = unsorted \ {i} /\ dynamic_symbols' = Append(dynamic_symbols, i)
                              /\ dynstr' = InString(dynstr, symbols[i].name) /\ gnu' = Hashed(i)
    BY <1>6 DEF EmitSymbol
  <2>2. i \in DOMAIN symbols /\ symbols[i].name \in Names
    BY <1>0, <2>1, SymbolAt DEF LayoutTypeOK
  <2>3. dynstr'.size \in Nat \ {0} /\ dynstr' = [offsets |-> dynstr'.offsets, size |-> dynstr'.size]
    <3>1. NameBytes[symbols[i].name] \in Nat \ {0}
      BY <2>2, LayoutConstants
    <3> QED BY <1>0, <2>1, <3>1, TypeFacts, InStringType
  <2>4. HashOf(i) - (HashOf(i) % 2) \in Nat
    <3>1. HashOf(i) \in Nat
      BY <2>2, LayoutConstants DEF HashOf
    <3> QED BY <3>1
  <2>5. ChainsBefore(i) \in Seq(Chain)
    <3>1. Ended(gnu.chains) \in Seq(Chain)
      BY <1>0, TypeFacts, EndedType
    <3> QED BY <1>0, <3>1, TypeFacts DEF ChainsBefore
  <2>6. gnu'.chains \in Seq(Chain)
    <3> DEFINE c == [hash |-> HashOf(i) - (HashOf(i) % 2), last |-> FALSE]
    <3>1. c \in Chain
      BY <2>4 DEF Chain
    <3>2. gnu'.chains = Append(ChainsBefore(i), c)
      BY <2>1 DEF Hashed
    <3> HIDE DEF c
    <3> QED BY <2>5, <3>1, <3>2, AppendFacts
  <2>7. gnu' = [buckets |-> gnu'.buckets, chains |-> gnu'.chains, bloom |-> gnu'.bloom]
    BY <2>1 DEF Hashed
  <2>8. dynamic_symbols' \in Seq(DOMAIN symbols') /\ unsorted' \subseteq DOMAIN symbols'
    BY <1>0, <1>6, <2>1, <2>2 DEF EmitSymbol, LayoutTypeOK
  <2> QED BY <1>0, <1>6, <2>3, <2>6, <2>7, <2>8 DEF EmitSymbol, LayoutTypeOK, Shaped
<1>7. CASE EndEmit
  <2>1. dynstr'.size \in Nat \ {0} /\ dynstr' = [offsets |-> dynstr'.offsets, size |-> dynstr'.size]
    <3>1. NameBytes[LIB_SHIM] \in Nat \ {0}
      BY LayoutConstants
    <3> QED BY <1>0, <1>7, <3>1, TypeFacts, InStringType DEF EndEmit
  <2>2. gnu'.chains \in Seq(Chain)
    <3>1. Ended(gnu.chains) \in Seq(Chain)
      BY SMTT(60), <1>0, TypeFacts, EndedType
    <3> QED BY <1>0, <1>7, <3>1, TypeFacts DEF EndEmit
  <2> QED BY <1>0, <1>7, <2>1, <2>2 DEF EndEmit, LayoutTypeOK, Shaped, Steps
<1>8. CASE PlaceRegion
  <2> DEFINE n == Len(placed[kind]) + 1
             r == regions[kind][n]
             s == Section(kind, PageUp(cursor.offset), virtual_address(r.start), r.end - r.start)
  <2>1. kind \in Kinds /\ n \in DOMAIN regions[kind] /\ r \in Region
    <3>1. kind \in Kinds /\ Len(placed[kind]) \in Nat /\ Len(placed[kind]) < Len(regions[kind])
      BY <1>0, <1>8, TypeFacts DEF PlaceRegion
    <3>2. regions[kind] \in Seq(Region)
      BY SMTT(60), <1>0, <3>1, TypeFacts
    <3>3. n \in DOMAIN regions[kind]
      BY SMTT(60), <3>1, <3>2
    <3> QED BY <3>1, <3>2, <3>3
  <2>2. r.start < r.end
    BY <1>8, <1>t, <2>1 DEF PlaceRegion, RegionsRight, Started, SizesKnown, PageAligned
  <2>3. s \in PlacedSection
    <3>1. PageUp(cursor.offset) \in Nat
      BY SMTT(60), <1>0, TypeFacts DEF PageUp, align, PageSize
    <3>4. r.start \in Nat /\ r.end \in Nat /\ text_min_page \in Nat
      BY <1>0, <2>1, TypeFacts DEF Region
    <3> HIDE DEF r
    <3>2. virtual_address(r.start) \in Int
      BY <3>4 DEF virtual_address, TextBase
    <3>3. r.end - r.start \in Nat
      BY <2>2, <3>4
    <3> QED BY <2>1, <3>1, <3>2, <3>3 DEF Section, SectionNames, PlacedSection
  <2>4. placed' = [placed EXCEPT ![kind] = Append(@, s)]
        /\ cursor' = [offset |-> s.offset + s.size, addr |-> Larger(cursor.addr, s.addr + s.size)]
    BY <1>8 DEF PlaceRegion
  <2> HIDE DEF s
  <2>5. cursor' \in [offset : Nat, addr : Int]
    <3>1. s.offset \in Nat /\ s.size \in Nat /\ s.addr \in Int /\ cursor.addr \in Int
      BY <1>0, <2>3, TypeFacts DEF PlacedSection
    <3> QED BY <2>4, <3>1 DEF Larger
  <2>6. placed' \in [Kinds \cup {"rw"} -> Seq(PlacedSection)]
    BY <1>0, <2>1, <2>3, <2>4 DEF LayoutTypeOK
  <2> QED BY SMTT(60), <1>0, <1>8, <2>5, <2>6 DEF PlaceRegion, LayoutTypeOK, Shaped
<1>9. CASE EndRegionsPlaced
  <2>1. PageUp(cursor.offset) \in Nat /\ PageUp(cursor.addr) \in Int /\ PageUp(args.rw_base) \in Int
    <3>1. cursor.offset \in Nat /\ cursor.addr \in Int /\ args.rw_base \in Int
      BY <1>0, TypeFacts, ArgumentFacts
    <3> QED BY <3>1 DEF PageUp, align, PageSize
  <2>2. cursor' \in [offset : Nat, addr : Int]
    BY SMTT(60), <1>0, <1>9, <2>1 DEF EndRegionsPlaced, LayoutTypeOK
  <2> QED BY <1>0, <1>9, <2>2 DEF EndRegionsPlaced, LayoutTypeOK, Shaped, Steps, Kinds
<1>10. CASE PlaceRw
  <2> DEFINE n == RwNames[Len(placed["rw"]) + 1]
             s == Section(n, align(cursor.offset, RwAlign(n)), align(cursor.addr, RwAlign(n)), RwSize(n))
  <2>1. Len(placed["rw"]) + 1 \in DOMAIN RwNames
    <3>1. Len(placed["rw"]) \in Nat /\ Len(placed["rw"]) < Len(RwNames)
      BY <1>0, <1>10, TypeFacts DEF PlaceRw
    <3>2. Len(RwNames) \in Nat /\ DOMAIN RwNames = 1 .. Len(RwNames)
      BY <1>0, RwFacts
    <3> QED BY <3>1, <3>2
  <2>2. n \in SectionNames /\ RwSize(n) \in Nat /\ RwAlign(n) \in {1, 8}
    BY <1>0, <2>1, RwFacts
  <2>3. s \in PlacedSection
    <3>1. align(cursor.offset, RwAlign(n)) \in Nat /\ align(cursor.addr, RwAlign(n)) \in Int
      <4>1. cursor.offset \in Nat /\ cursor.addr \in Int
        BY <1>0, TypeFacts
      <4> HIDE DEF n
      <4> QED BY <2>2, <4>1 DEF align
    <3> HIDE DEF n
    <3> QED BY <2>2, <3>1 DEF Section, PlacedSection
  <2>4. placed' = [placed EXCEPT !["rw"] = Append(@, s)] /\ cursor' = [offset |-> s.offset + s.size, addr |-> s.addr + s.size]
    BY <1>10 DEF PlaceRw
  <2> HIDE DEF s
  <2>5. cursor' \in [offset : Nat, addr : Int]
    <3>1. s.offset \in Nat /\ s.size \in Nat /\ s.addr \in Int
      BY <2>3 DEF PlacedSection
    <3> QED BY <2>4, <3>1
  <2>6. placed' \in [Kinds \cup {"rw"} -> Seq(PlacedSection)]
    BY <1>0, <2>3, <2>4 DEF LayoutTypeOK
  <2> QED BY <1>0, <1>10, <2>5, <2>6 DEF PlaceRw, LayoutTypeOK, Shaped, Steps
<1>11. CASE Finish
  <2>1. dynamic_size' \in Nat
    BY <1>11 DEF Finish, Needed
  <2> QED BY <1>0, <1>11, <2>1 DEF Finish, LayoutTypeOK, Shaped, Steps
<1>12. CASE MapRegion
  BY SMTT(60), <1>0, <1>12 DEF MapRegion, LayoutTypeOK, Shaped, Steps
<1>13. CASE EndMap
  <2>1. UNCHANGED << args, symbols, text_min_page, intervals, regions, unsorted, dynamic_symbols, gnu_nbuckets,
                     gnu_bloom_size, dynstr, gnu, placed, cursor, dynamic_size, page_map >>
    BY <1>13 DEF EndMap
  <2>2. pc' \in Steps /\ kind' \in Kinds /\ mapped' \in Nat /\ (pc' = "done" => page_map # {})
    BY SMTT(60), <1>0, <1>13 DEF EndMap, LayoutTypeOK, Steps, Kinds
  <2>3. LayoutTypeOK'
    BY <1>0, <2>1, <2>2 DEF LayoutTypeOK
  <2> QED BY <1>0, <2>1, <2>3 DEF Shaped
<1> QED BY <1>1, <1>2, <1>3, <1>4, <1>5, <1>6, <1>7, <1>8, <1>9, <1>10, <1>11, <1>12, <1>13 DEF BuilderStep, LayoutStep

-----------------------------------------------------------------------------
(* Sizes, and the regions of pages *)

LEMMA SizesStep ==
  ASSUME IInv, BuilderStep
  PROVE  SizesSet'
<1>0. LayoutTypeOK /\ SizesSet
  BY DEF IInv, Shaped
<1>1. ASSUME NEW b \in Argument, Construct(b) PROVE SizesSet'
  BY <1>0, <1>1 DEF Construct, SizesSet, SizesKnown
<1>2. CASE prepare_symbol_virtual_addresses
  <2>1. symbols' = Prepared /\ pc' = "merge" /\ text_min_page' = TextMinPage(Prepared)
    BY <1>2 DEF prepare_symbol_virtual_addresses
  <2>2. \A i \in Defined' : symbols'[i].size > 0
    BY <1>0, <2>1, TypeFacts, PreparedType DEF Defined
  <2>3. text_min_page' % PageSize = 0
    <3> DEFINE anchors == IF Code # {} THEN Code ELSE Defined
               S == {Prepared[i].address : i \in anchors}
    <3>1. CASE anchors = {}
      BY <2>1, <3>1 DEF TextMinPage, TextBase, PageSize
    <3>2. CASE anchors # {}
      <4>1. \A i \in DOMAIN symbols : Prepared[i].address \in Nat
        BY <1>0, TypeFacts, PreparedType, SymbolAt
      <4>2. S \in SUBSET Nat /\ S # {}
        BY <3>2, <4>1 DEF Code, Defined
      <4>3. Min(S) \in Nat
        BY <4>2, MinNat
      <4>4. align_down(Min(S)) % PageSize = 0
        BY <4>3, PageFacts
      <4> QED BY <2>1, <3>2, <4>4 DEF TextMinPage
    <3> QED BY <3>1, <3>2
  <2> QED BY <2>1, <2>2, <2>3 DEF SizesSet, SizesKnown
<1>3. CASE SizesKnown /\ SizesKnown' /\ UNCHANGED << symbols, text_min_page >>
  BY <1>0, <1>3 DEF SizesSet, Defined
<1>4. CASE LayoutStep /\ ~prepare_symbol_virtual_addresses
  <2>1. SizesKnown /\ SizesKnown' /\ UNCHANGED << symbols, text_min_page >>
    BY <1>4 DEF LayoutStep, SizesKnown, MergeInterval, EndRegions, AssignSections, EmitSymbol, EndEmit, PlaceRegion,
                EndRegionsPlaced, PlaceRw, Finish, MapRegion, EndMap
  <2> QED BY SMTT(60), <1>3, <2>1
<1> QED BY <1>1, <1>2, <1>4 DEF BuilderStep

\* The loop over sorted intervals: one more interval that does not start before
\* the last region.
LEMMA ExtendedRight ==
  ASSUME NEW rs \in Seq(Region), NEW vs, NEW v \in Nat \X Nat,
         PageAligned(rs), Ascending(rs), Covers(rs, vs),
         v[1] < v[2], v[1] % PageSize = 0, v[2] % PageSize = 0,
         rs # << >> => rs[Len(rs)].start <= v[1]
  PROVE  /\ PageAligned(Extended(rs, v)) /\ Ascending(Extended(rs, v)) /\ Covers(Extended(rs, v), vs \cup {v})
         /\ Extended(rs, v) # << >> /\ Extended(rs, v)[Len(Extended(rs, v))].start <= v[1]
<1> DEFINE x == Extended(rs, v)
           l == Len(rs)
<1>1. l \in Nat /\ DOMAIN rs = 1 .. l /\ v[1] \in Nat /\ v[2] \in Nat
  BY SeqFacts
<1>2. \A n \in DOMAIN rs : rs[n].start \in Nat /\ rs[n].end \in Nat
  <2>1. \A n \in DOMAIN rs : rs[n] \in Region
    BY SeqFacts
  <2> QED BY <2>1 DEF Region
<1>3. CASE rs = << >> \/ v[1] > rs[l].end
  <2> DEFINE e == [start |-> v[1], end |-> v[2]]
  <2>1. e \in Region /\ e.start = v[1] /\ e.end = v[2]
    BY <1>1 DEF Region
  <2>2. x = Append(rs, e)
    BY <1>3 DEF Extended
  <2> HIDE DEF x, e
  <2>3. Len(x) = l + 1 /\ DOMAIN x = 1 .. (l + 1) /\ x[l + 1] = e /\ \A n \in DOMAIN rs : x[n] = rs[n]
    BY <2>1, <2>2, AppendFacts
  <2>4. PageAligned(x)
    BY <1>1, <2>1, <2>3 DEF PageAligned
  <2>5. Ascending(x)
    <3>1. ASSUME NEW m \in DOMAIN x, NEW n \in DOMAIN x, m < n PROVE x[m].end < x[n].start
      <4>1. CASE n \in DOMAIN rs
        BY <1>1, <2>3, <3>1, <4>1 DEF Ascending
      <4>2. CASE n = l + 1
        <5>1. m \in DOMAIN rs /\ l \in DOMAIN rs /\ rs # << >>
          BY <1>1, <2>3, <3>1, <4>2
        <5>2. m = l \/ rs[m].end < rs[l].start
          BY <1>1, <5>1 DEF Ascending
        <5>3. rs[m].end <= rs[l].end
          BY <1>2, <5>1, <5>2 DEF PageAligned
        <5>4. v[1] > rs[l].end
          BY <1>3, <5>1
        <5> QED BY SMTT(60), <1>1, <1>2, <2>1, <2>3, <4>2, <5>1, <5>3, <5>4
      <4> QED BY <1>1, <2>3, <4>1, <4>2
    <3> QED BY <3>1 DEF Ascending
  <2>6. Covers(x, vs \cup {v})
    <3>1. ASSUME NEW p \in Int
          PROVE  (\E n \in DOMAIN x : Holds(x[n], p)) <=> (\E w \in vs \cup {v} : w[1] <= p /\ p < w[2])
      <4>1. (\E n \in DOMAIN x : Holds(x[n], p)) <=> (\E n \in DOMAIN rs : Holds(rs[n], p)) \/ Holds(e, p)
        BY <1>1, <2>3
      <4>2. Holds(e, p) <=> v[1] <= p /\ p < v[2]
        BY <2>1 DEF Holds
      <4> QED BY <4>1, <4>2 DEF Covers
    <3> QED BY <3>1 DEF Covers
  <2>7. x # << >> /\ x[Len(x)].start <= v[1]
    BY <1>1, <2>1, <2>3
  <2> QED BY <2>4, <2>5, <2>6, <2>7 DEF x
<1>4. CASE ~(rs = << >> \/ v[1] > rs[l].end)
  <2> DEFINE e == [rs[l] EXCEPT !.end = Larger(@, v[2])]
  <2>1. l \in DOMAIN rs /\ rs[l] \in Region
    BY <1>4, SeqFacts
  <2>2. e \in Region /\ e.start = rs[l].start /\ e.end = Larger(rs[l].end, v[2])
    BY <1>1, <2>1 DEF Region, Larger
  <2>3. x = [rs EXCEPT ![l] = e]
    BY <1>4 DEF Extended
  <2> HIDE DEF x, e
  <2>4. Len(x) = l /\ DOMAIN x = DOMAIN rs /\ \A n \in DOMAIN rs : x[n] = IF n = l THEN e ELSE rs[n]
    BY <2>1, <2>2, <2>3, ReplaceFacts
  <2>5. rs[l].start <= v[1] /\ v[1] <= rs[l].end /\ rs[l].start < rs[l].end
    BY <1>1, <1>2, <1>4, <2>1 DEF PageAligned
  <2>6. PageAligned(x)
    <3>1. e.start % PageSize = 0 /\ e.end % PageSize = 0 /\ e.start < e.end
      BY <1>1, <1>2, <2>1, <2>2, <2>5 DEF PageAligned, Larger
    <3> QED BY <2>4, <3>1 DEF PageAligned
  <2>7. Ascending(x)
    <3>1. ASSUME NEW m \in DOMAIN x, NEW n \in DOMAIN x, m < n PROVE x[m].end < x[n].start
      <4>1. m \in DOMAIN rs /\ n \in DOMAIN rs /\ m # l
        BY <1>1, <2>4, <3>1
      <4>2. rs[m].end < rs[n].start
        BY <3>1, <4>1 DEF Ascending
      <4> QED BY <2>2, <2>4, <4>1, <4>2
    <3> QED BY <3>1 DEF Ascending
  <2>8. Covers(x, vs \cup {v})
    <3>1. ASSUME NEW p \in Int
          PROVE  (\E n \in DOMAIN x : Holds(x[n], p)) <=> (\E w \in vs \cup {v} : w[1] <= p /\ p < w[2])
      <4>1. Holds(e, p) <=> Holds(rs[l], p) \/ (v[1] <= p /\ p < v[2])
        BY <1>1, <1>2, <2>1, <2>2, <2>5 DEF Holds, Larger
      <4>2. (\E n \in DOMAIN x : Holds(x[n], p)) <=> (\E n \in DOMAIN rs : Holds(rs[n], p)) \/ Holds(e, p)
        BY <2>1, <2>4, <4>1
      <4> QED BY <2>1, <4>1, <4>2 DEF Covers
    <3> QED BY <3>1 DEF Covers
  <2>9. x # << >> /\ x[Len(x)].start <= v[1]
    BY <2>1, <2>2, <2>4, <2>5
  <2> QED BY <2>6, <2>7, <2>8, <2>9 DEF x
<1> QED BY <1>3, <1>4

\* Once the regions are built no step changes what they are about.
LEMMA RegionsFrame ==
  ASSUME RegionsRight, pc \notin {"idle", "prepare", "merge"}, pc' \notin {"idle", "prepare", "merge"},
         UNCHANGED << symbols, regions >>
  PROVE  RegionsRight'
<1>1. ASSUME NEW k \in Kinds
      PROVE  /\ Started(k) /\ Started(k)' /\ Waiting(k) = {} /\ Waiting(k)' = {}
             /\ IntervalsOf(k)' = IntervalsOf(k)
  BY DEF Started, SizesKnown, Waiting, IntervalsOf, Source, Code, Rodata, Defined
<1>2. ASSUME NEW k \in Kinds
      PROVE  PageAligned(regions[k]) /\ Ascending(regions[k]) /\ Covers(regions[k], IntervalsOf(k))
  BY <1>1 DEF RegionsRight, Taken
<1>3. ASSUME NEW k \in Kinds
      PROVE  /\ PageAligned(regions[k])' /\ Ascending(regions[k])' /\ Covers(regions[k], Taken(k))'
             /\ (Waiting(k) \subseteq IntervalsOf(k))'
             /\ (\A v \in Waiting(k) : regions[k] # << >> => regions[k][Len(regions[k])].start <= v[1])'
  BY <1>1, <1>2 DEF PageAligned, Ascending, Covers, Holds, Taken
<1> QED BY <1>1, <1>3 DEF RegionsRight

LEMMA RegionsStep ==
  ASSUME IInv, BuilderStep
  PROVE  RegionsRight'
<1>0. LayoutTypeOK /\ SizesSet /\ RegionsRight
  BY DEF IInv, Shaped
<1>1. ASSUME NEW b \in Argument, Construct(b) PROVE RegionsRight'
  BY <1>0, <1>1 DEF Construct, RegionsRight, Started, SizesKnown
<1>2. CASE prepare_symbol_virtual_addresses
  <2>1. /\ pc = "prepare" /\ pc' = "merge" /\ symbols' = Prepared /\ kind = "text" /\ kind' = "text"
        /\ regions' = regions /\ intervals' = {Interval(Prepared[i]) : i \in Code}
    BY <1>0, <1>2 DEF prepare_symbol_virtual_addresses, SizesSet, SizesKnown
  <2>2. \A k \in Kinds : regions[k] = << >>
    BY <1>0, <2>1 DEF RegionsRight, Started, SizesKnown
  <2>3. Code' = Code
    BY <1>0, <2>1, TypeFacts, PreparedType DEF Code, Defined
  <2>4. Waiting("text")' = IntervalsOf("text")' /\ Taken("text")' = {}
    BY <2>1, <2>3 DEF Waiting, IntervalsOf, Taken, Source
  <2>5. /\ PageAligned(regions["text"])' /\ Ascending(regions["text"])' /\ Covers(regions["text"], Taken("text"))'
        /\ regions'["text"] = << >>
    BY <2>1, <2>2, <2>4 DEF Kinds, PageAligned, Ascending, Covers
  <2>6. ~Started("rodata")' /\ regions'["rodata"] = << >>
    BY <2>1, <2>2 DEF Started, Kinds
  <2> QED BY <2>4, <2>5, <2>6 DEF RegionsRight, Kinds
<1>3. CASE MergeInterval
  <2>1. PICK v \in intervals : /\ \A w \in intervals : Before(v, w)
                               /\ regions' = [regions EXCEPT ![kind] = Extended(@, v)]
                               /\ intervals' = intervals \ {v}
    BY <1>3 DEF MergeInterval
  <2>c. PICK c \in Kinds : c = kind
    BY <1>0, TypeFacts
  <2>2. pc = "merge" /\ UNCHANGED << pc, kind, symbols >> /\ c = kind /\ c = kind' /\ Started(c)
    BY <2>c, <1>0, <1>3, TypeFacts DEF MergeInterval, Started, SizesKnown, Kinds
  <2>3. Waiting(c) = intervals /\ Waiting(c)' = intervals \ {v} /\ IntervalsOf(c)' = IntervalsOf(c)
    BY <2>1, <2>2 DEF Waiting, IntervalsOf, Source, Code, Rodata, Defined
  <2>4. /\ PageAligned(regions[c]) /\ Ascending(regions[c]) /\ Covers(regions[c], Taken(c))
        /\ intervals \subseteq IntervalsOf(c)
        /\ regions[c] # << >> => regions[c][Len(regions[c])].start <= v[1]
    BY <1>0, <2>1, <2>2, <2>3 DEF RegionsRight
  <2>5. PICK i \in Source(c) : v = Interval(symbols[i])
    BY <2>1, <2>4 DEF IntervalsOf
  <2>6. symbols[i].address \in Nat /\ symbols[i].size \in Nat /\ symbols[i].size > 0
    <3>1. i \in Defined /\ i \in DOMAIN symbols
      BY <2>5 DEF Source, Code, Rodata, Defined
    <3>2. SizesKnown
      BY <2>2 DEF SizesKnown
    <3> QED BY <1>0, <3>1, <3>2, TypeFacts, SymbolAt DEF SizesSet
  <2>7. v \in Nat \X Nat /\ v[1] < v[2] /\ v[1] % PageSize = 0 /\ v[2] % PageSize = 0
    BY <2>5, <2>6, IntervalFacts
  <2> DEFINE x == Extended(regions[c], v)
  <2>8. /\ PageAligned(x) /\ Ascending(x) /\ Covers(x, Taken(c) \cup {v})
        /\ x # << >> /\ x[Len(x)].start <= v[1]
    <3>1. regions[c] \in Seq(Region)
      BY <1>0, <2>2, TypeFacts
    <3> QED BY <3>1, <2>4, <2>7, ExtendedRight
  <2>9. regions'[c] = x /\ \A k \in Kinds \ {c} : regions'[k] = regions[k]
    BY <1>0, <2>1, <2>2 DEF LayoutTypeOK
  <2> HIDE DEF x
  <2>10. Taken(c)' = Taken(c) \cup {v}
    BY <2>1, <2>3, <2>4 DEF Taken
  <2>11. /\ Started(c)' /\ PageAligned(regions[c])' /\ Ascending(regions[c])'
         /\ Covers(regions[c], Taken(c))' /\ (Waiting(c) \subseteq IntervalsOf(c))'
    <3>1. Started(c)'
      BY <2>2 DEF Started, SizesKnown
    <3>2. (Waiting(c) \subseteq IntervalsOf(c))'
      BY <2>3, <2>4
    <3>3. PageAligned(regions[c])' /\ Ascending(regions[c])' /\ Covers(regions[c], Taken(c))'
      BY <2>2, <2>8, <2>9, <2>10 DEF PageAligned, Ascending, Covers, Holds
    <3> QED BY <3>1, <3>2, <3>3
  <2>12. ASSUME NEW w \in Waiting(c)' PROVE regions'[c][Len(regions'[c])].start <= w[1]
    <3>1. w \in intervals /\ Before(v, w)
      BY <2>1, <2>3
    <3>2. w \in Nat \X Nat /\ x[Len(x)].start \in Nat
      <4>1. x \in Seq(Region)
        BY <1>0, <2>2, <2>9, ShapedStep DEF Shaped, LayoutTypeOK
      <4>2. x[Len(x)] \in Region
        BY <2>8, <4>1, SeqFacts
      <4> QED BY <1>0, <3>1, <4>2, TypeFacts DEF Region
    <3>3. v[1] <= w[1]
      BY <2>7, <3>1, <3>2 DEF Before
    <3> QED BY <2>7, <2>8, <2>9, <3>2, <3>3
  <2>13. ASSUME NEW k \in Kinds, k # c
         PROVE  /\ regions'[k] = regions[k] /\ Started(k)' = Started(k) /\ Waiting(k) = {} /\ Waiting(k)' = {}
                /\ IntervalsOf(k)' = IntervalsOf(k)
    BY <2>2, <2>9, <2>13 DEF Started, SizesKnown, Waiting, IntervalsOf, Source, Code, Rodata, Defined
  <2>14. ASSUME NEW k \in Kinds, k # c, Started(k)
         PROVE  /\ PageAligned(regions[k])' /\ Ascending(regions[k])' /\ Covers(regions[k], Taken(k))'
    <3>1. PageAligned(regions[k]) /\ Ascending(regions[k]) /\ Covers(regions[k], Taken(k))
      BY <1>0, <2>14 DEF RegionsRight
    <3>2. regions'[k] = regions[k] /\ Taken(k)' = Taken(k)
      BY <2>13, <2>14 DEF Taken
    <3> QED BY <2>2, <3>1, <3>2 DEF PageAligned, Ascending, Covers, Holds
  <2>15. ASSUME NEW k \in Kinds, k # c, ~Started(k) PROVE ~Started(k)' /\ regions'[k] = << >>
    BY <1>0, <2>13, <2>15 DEF RegionsRight
  <2>16. ASSUME NEW k \in Kinds
         PROVE  IF Started(k)'
                THEN /\ PageAligned(regions[k])' /\ Ascending(regions[k])' /\ Covers(regions[k], Taken(k))'
                     /\ (Waiting(k) \subseteq IntervalsOf(k))'
                     /\ \A w \in Waiting(k)' : regions'[k] # << >> => regions'[k][Len(regions'[k])].start <= w[1]
                ELSE regions'[k] = << >>
    <3>1. CASE k = c
      BY <2>11, <2>12, <3>1
    <3>2. CASE k # c /\ Started(k)
      <4>1. Started(k)' /\ Waiting(k)' = {}
        BY <2>13, <3>2
      <4> QED BY <2>14, <3>2, <4>1
    <3>3. CASE k # c /\ ~Started(k)
      BY <2>15, <3>3
    <3> QED BY <3>1, <3>2, <3>3
  <2> QED BY <2>16 DEF RegionsRight
<1>4. CASE EndRegions
  <2>1. intervals = {} /\ pc = "merge" /\ UNCHANGED << symbols, regions >> /\ kind \in Kinds
    BY <1>0, <1>4, TypeFacts DEF EndRegions
  <2>2. \A k \in Kinds : Waiting(k) = {} /\ IntervalsOf(k)' = IntervalsOf(k)
    BY <2>1 DEF Waiting, IntervalsOf, Source, Code, Rodata, Defined
  <2>3. ASSUME NEW k \in Kinds, Started(k)
        PROVE  PageAligned(regions[k])' /\ Ascending(regions[k])' /\ Covers(regions[k], IntervalsOf(k))'
    <3>1. PageAligned(regions[k]) /\ Ascending(regions[k]) /\ Covers(regions[k], IntervalsOf(k))
      BY <1>0, <2>2, <2>3 DEF RegionsRight, Taken
    <3> QED BY <2>1, <2>2, <3>1 DEF PageAligned, Ascending, Covers, Holds
  <2>4. CASE kind = "text"
    <3>1. kind' = "rodata" /\ intervals' = IntervalsOf("rodata") /\ pc' = "merge"
      BY <1>4, <2>1, <2>4 DEF EndRegions, IntervalsOf, Source
    <3>2. Started("text") /\ Started("text")' /\ Waiting("text")' = {} /\ Taken("text")' = IntervalsOf("text")'
      BY <2>1, <3>1 DEF Started, SizesKnown, Waiting, Taken
    <3>3. regions'["rodata"] = << >>
      BY <1>0, <2>1, <2>4 DEF RegionsRight, Started, Kinds
    <3>4. Started("rodata")' /\ Waiting("rodata")' = IntervalsOf("rodata")' /\ Taken("rodata")' = {}
      BY <2>1, <2>2, <3>1 DEF Started, SizesKnown, Waiting, Taken, Kinds
    <3>5. PageAligned(regions["rodata"])' /\ Ascending(regions["rodata"])' /\ Covers(regions["rodata"], Taken("rodata"))'
      BY <3>3, <3>4 DEF PageAligned, Ascending, Covers
    <3>6. /\ PageAligned(regions["text"])' /\ Ascending(regions["text"])' /\ Covers(regions["text"], Taken("text"))'
      BY <2>3, <3>2 DEF Kinds
    <3> QED BY <3>2, <3>3, <3>4, <3>5, <3>6 DEF RegionsRight, Kinds
  <2>5. CASE kind = "rodata"
    <3>1. kind' = "text" /\ intervals' = {} /\ pc' = "sections"
      BY <1>4, <2>5 DEF EndRegions
    <3>2. \A k \in Kinds : Started(k) /\ Started(k)' /\ Waiting(k)' = {} /\ Taken(k)' = IntervalsOf(k)'
      BY <2>1, <2>5, <3>1 DEF Started, SizesKnown, Waiting, Taken, Kinds
    <3> QED BY <2>3, <3>2 DEF RegionsRight
  <2> QED BY <2>1, <2>4, <2>5 DEF Kinds
<1>5. CASE LayoutStep /\ ~prepare_symbol_virtual_addresses /\ ~MergeInterval /\ ~EndRegions
  <2>1. /\ pc \notin {"idle", "prepare", "merge"} /\ pc' \notin {"idle", "prepare", "merge"}
        /\ UNCHANGED << symbols, regions >>
    BY <1>5 DEF LayoutStep, AssignSections, EmitSymbol, EndEmit, PlaceRegion,
                EndRegionsPlaced, PlaceRw, Finish, MapRegion, EndMap
  <2> QED BY <1>0, <2>1, RegionsFrame
<1> QED BY <1>1, <1>2, <1>3, <1>4, <1>5 DEF BuilderStep, LayoutStep

-----------------------------------------------------------------------------
(* The hash table *)

LEMMA BucketType ==
  ASSUME LayoutTypeOK, NEW i \in DOMAIN symbols
  PROVE  HashOf(i) \in Nat /\ Bucket(i) \in 0 .. gnu_nbuckets - 1
<1>1. HashOf(i) \in Nat
  BY TypeFacts, SymbolAt, LayoutConstants DEF HashOf
<1>2. \A h \in Nat, n \in Nat \ {0} : h % n \in 0 .. n - 1
  OBVIOUS
<1> QED BY <1>1, <1>2, TypeFacts DEF Bucket

\* What the end of a chain changes.
LEMMA EndedFacts ==
  ASSUME NEW chains \in Seq(Chain)
  PROVE  /\ Ended(chains) \in Seq(Chain) /\ Len(Ended(chains)) = Len(chains) /\ DOMAIN Ended(chains) = DOMAIN chains
         /\ \A d \in DOMAIN chains : /\ Ended(chains)[d].hash = chains[d].hash
                                     /\ d < Len(chains) => Ended(chains)[d] = chains[d]
         /\ chains # << >> => Ended(chains)[Len(chains)].last
<1>1. CASE chains = << >>
  BY <1>1 DEF Ended
<1>2. CASE chains # << >>
  <2> DEFINE e == [chains[Len(chains)] EXCEPT !.last = TRUE]
  <2>1. Len(chains) \in DOMAIN chains /\ chains[Len(chains)] \in Chain
    BY <1>2, SeqFacts
  <2>2. e \in Chain /\ e.hash = chains[Len(chains)].hash /\ e.last
    BY <2>1 DEF Chain
  <2>3. Ended(chains) = [chains EXCEPT ![Len(chains)] = e]
    BY <1>2 DEF Ended
  <2> HIDE DEF e
  <2> QED BY <2>1, <2>2, <2>3, ReplaceFacts
<1> QED BY <1>1, <1>2

\* The tables stay as they are.
LEMMA HashFrame ==
  ASSUME HashRight, Emitting, Emitting', UNCHANGED << symbols, dynamics >>,
         pc' # "emit", pc # "emit", pc' # "raised" => pc # "raised"
  PROVE  HashRight'
<1>1. /\ Chained /\ Bucketed
      /\ dynamic_symbols # << >> /\ pc # "raised" => gnu.chains[Len(gnu.chains)].last
  BY DEF HashRight
<1>2. \A i : HashOf(i)' = HashOf(i) /\ Bucket(i)' = Bucket(i) /\ BloomBits(HashOf(i))' = BloomBits(HashOf(i))
  BY DEF HashOf, Bucket, BloomBits
<1>3. Chained'
  BY <1>1, <1>2 DEF Chained, DynBucket
<1>4. Bucketed'
  BY <1>1, <1>2 DEF Bucketed, DynBucket
<1> QED BY <1>1, <1>3, <1>4 DEF HashRight

LEMMA HashStep ==
  ASSUME IInv, BuilderStep
  PROVE  HashRight'
<1>0. LayoutTypeOK /\ HashRight
  BY DEF IInv, Shaped
<1>1. ASSUME NEW b \in Argument, Construct(b) PROVE HashRight'
  BY <1>0, <1>1 DEF Construct, HashRight, Emitting
<1>2. CASE prepare_symbol_virtual_addresses
  BY <1>0, <1>2 DEF prepare_symbol_virtual_addresses, HashRight, Emitting
<1>3. CASE MergeInterval
  BY <1>0, <1>3 DEF MergeInterval, HashRight, Emitting
<1>4. CASE EndRegions
  BY <1>0, <1>4 DEF EndRegions, HashRight, Emitting
<1>5. CASE AssignSections
  <2>1. dynamic_symbols' = << >> /\ gnu'.chains = << >> /\ gnu'.buckets = [b \in 0 .. gnu_nbuckets - 1 |-> 0]
        /\ gnu_nbuckets' = gnu_nbuckets /\ Emitting'
    BY <1>0, <1>5 DEF AssignSections, HashRight, Emitting, Shaped, IInv
  <2>2. Len(dynamic_symbols') = 0 /\ DOMAIN dynamic_symbols' = {} /\ Len(gnu'.chains) = 0
    BY <2>1
  <2>3. Chained'
    BY <2>2 DEF Chained
  <2>4. Bucketed'
    BY <2>1, <2>2 DEF Bucketed
  <2> QED BY <2>1, <2>3, <2>4 DEF HashRight
<1>6. CASE EmitSymbol
  <2>1. PICK i \in unsorted :
          /\ \A j \in unsorted : SortsBefore(i, j)
          /\ unsorted' = unsorted \ {i} /\ dynamic_symbols' = Append(dynamic_symbols, i) /\ gnu' = Hashed(i)
    BY <1>6 DEF EmitSymbol
  <2>2. pc = "emit" /\ UNCHANGED << pc, symbols, gnu_nbuckets, gnu_bloom_size >>
    BY SMTT(60), <1>6 DEF EmitSymbol
  <2>l. PICK l \in Nat : l = Len(dynamic_symbols)
    BY <1>0, TypeFacts
  <2>b. PICK b : b = Bucket(i)
    OBVIOUS
  <2>3. Chained /\ Bucketed /\ l \in Nat /\ DOMAIN dynamic_symbols = 1 .. l
    BY <2>l, <2>b, <1>0, <2>2, TypeFacts DEF HashRight, Emitting
  <2>4. i \in DOMAIN symbols /\ \A j \in unsorted : j \in DOMAIN symbols
    BY <2>l, <2>b, <1>0, <2>1, TypeFacts
  <2>5. b \in 0 .. gnu_nbuckets - 1 /\ HashOf(i) \in Nat
    BY <2>l, <2>b, <1>0, <2>4, BucketType
  <2>6. \A j \in unsorted : b <= Bucket(j)
    <3>1. ASSUME NEW j \in unsorted PROVE b <= Bucket(j)
      <4>1. b < Bucket(j) \/ b = Bucket(j)
        BY <2>l, <2>b, <2>1 DEF SortsBefore
      <4>2. b \in Nat /\ Bucket(j) \in Nat
        <5>1. Bucket(j) \in 0 .. gnu_nbuckets - 1
          BY <2>l, <2>b, <1>0, <2>4, BucketType
        <5> QED BY <2>l, <2>b, <1>0, <2>5, <5>1, TypeFacts
      <4> QED BY <2>l, <2>b, <4>1, <4>2
    <3> QED BY <2>l, <2>b, <3>1
  <2>7. \A j : HashOf(j)' = HashOf(j) /\ Bucket(j)' = Bucket(j) /\ BloomBits(HashOf(j))' = BloomBits(HashOf(j))
    BY <2>l, <2>b, <2>2 DEF HashOf, Bucket, BloomBits
  <2>8. /\ Len(dynamic_symbols') = l + 1 /\ DOMAIN dynamic_symbols' = 1 .. (l + 1) /\ dynamic_symbols'[l + 1] = i
        /\ \A d \in 1 .. l : dynamic_symbols'[d] = dynamic_symbols[d]
    <3>1. dynamic_symbols \in Seq(DOMAIN symbols)
      BY <2>l, <2>b, <1>0, TypeFacts
    <3> QED BY <2>l, <2>b, <2>1, <2>3, <2>4, <3>1, AppendFacts
  <2>9. \A d \in 1 .. l : DynBucket(d)' = DynBucket(d)
    BY <2>l, <2>b, <2>7, <2>8 DEF DynBucket
  <2>10. DynBucket(l + 1)' = b
    BY <2>l, <2>b, <2>7, <2>8 DEF DynBucket
  <2> DEFINE c == [hash |-> HashOf(i) - (HashOf(i) % 2), last |-> FALSE]
             k == ChainsBefore(i)
  <2>11. k \in Seq(Chain) /\ Len(k) = l /\ \A d \in 1 .. l : k[d].hash = gnu.chains[d].hash /\ (d < l => k[d] = gnu.chains[d])
    <3>1. gnu.chains \in Seq(Chain) /\ Len(gnu.chains) = l /\ DOMAIN gnu.chains = 1 .. l
      BY <2>l, <2>b, <1>0, <2>3, TypeFacts DEF Chained
    <3> QED BY <2>l, <2>b, <3>1, EndedFacts DEF ChainsBefore
  <2>12. l > 0 /\ k[l].last => DynBucket(l) # b
    <3> SUFFICES ASSUME l > 0, k[l].last, DynBucket(l) = b PROVE FALSE
      OBVIOUS
    <3>1. gnu.buckets[b] # 0
      BY <2>l, <2>b, <2>3 DEF Bucketed
    <3>2. k = gnu.chains
      BY <2>l, <2>b, <2>3, <3>1 DEF ChainsBefore, DynBucket
    <3>3. ~gnu.chains[l].last
      <4>1. dynamic_symbols # << >>
        BY <2>l, <2>b, <2>3
      <4> QED BY <2>l, <2>b, <1>0, <2>2, <2>3, <4>1 DEF HashRight, Emitting, Chained
    <3> QED BY <2>l, <2>b, <3>2, <3>3
  <2>13. /\ Len(gnu'.chains) = l + 1 /\ gnu'.chains[l + 1] = c
         /\ \A d \in 1 .. l : gnu'.chains[d] = k[d]
    <3>1. c \in Chain
      BY <2>l, <2>b, <2>5 DEF Chain
    <3>2. gnu'.chains = Append(k, c)
      BY <2>l, <2>b, <2>1 DEF Hashed
    <3> HIDE DEF c, k
    <3> QED BY <2>l, <2>b, <2>11, <3>1, <3>2, AppendFacts, SeqFacts
  <2>14. gnu'.bloom = gnu.bloom \cup BloomBits(HashOf(i))
    BY <2>l, <2>b, <2>1 DEF Hashed
  <2>15. gnu'.buckets = IF gnu.buckets[b] = 0 THEN [gnu.buckets EXCEPT ![b] = l + 1] ELSE gnu.buckets
    BY <2>l, <2>b, <2>1 DEF Hashed
  <2>16. c.hash = HashOf(i) - (HashOf(i) % 2) /\ ~c.last
    OBVIOUS
  <2> HIDE DEF c, k
  <2>17. Chained'
    <3>1. ASSUME NEW d \in 1 .. l + 1
          PROVE  /\ gnu'.chains[d].hash = HashOf(dynamic_symbols[d])' - (HashOf(dynamic_symbols[d])' % 2)
                 /\ BloomBits(HashOf(dynamic_symbols[d]))' \subseteq gnu'.bloom
      <4>1. CASE d \in 1 .. l
        BY SMTT(60), <2>3, <2>7, <2>8, <2>11, <2>13, <2>14, <4>1 DEF Chained
      <4>2. CASE d = l + 1
        BY <2>3, <2>7, <2>8, <2>13, <2>14, <2>16, <4>2
      <4> QED BY <2>3, <4>1, <4>2
    <3>2. ASSUME NEW d \in 1 .. l + 1, NEW e \in 1 .. l + 1, d <= e PROVE DynBucket(d)' <= DynBucket(e)'
      <4>1. CASE e \in 1 .. l
        <5>1. d \in 1 .. l
          BY <2>3, <3>2, <4>1
        <5> QED BY <2>3, <2>9, <3>2, <4>1, <5>1 DEF Chained
      <4>2. CASE e = l + 1 /\ d \in 1 .. l
        BY <2>1, <2>3, <2>9, <2>10, <4>2, <2>b DEF Chained
      <4>3. CASE e = l + 1 /\ d = l + 1
        BY <2>5, <2>10, <4>3, <1>0, TypeFacts
      <4> QED BY <2>3, <4>1, <4>2, <4>3
    <3>3. ASSUME NEW d \in 1 .. l + 1, NEW j \in unsorted' PROVE DynBucket(d)' <= Bucket(j)'
      <4>1. CASE d \in 1 .. l
        BY <2>1, <2>3, <2>7, <2>9, <4>1 DEF Chained
      <4>2. CASE d = l + 1
        BY <2>1, <2>6, <2>7, <2>10, <4>2
      <4> QED BY <2>3, <4>1, <4>2
    <3>4. ASSUME NEW d \in 1 .. l + 1, d < l + 1, gnu'.chains[d].last PROVE DynBucket(d)' # DynBucket(d + 1)'
      <4>1. d \in 1 .. l /\ gnu'.chains[d] = k[d]
        BY <2>3, <2>13, <3>4
      <4>2. CASE d < l
        <5>1. gnu.chains[d].last /\ d + 1 \in 1 .. l
          BY <2>3, <2>11, <3>4, <4>1, <4>2
        <5>2. DynBucket(d) # DynBucket(d + 1)
          BY <2>3, <4>1, <4>2, <5>1, <2>l DEF Chained
        <5> QED BY <2>9, <4>1, <5>1, <5>2
      <4>3. CASE d = l
        BY <2>3, <2>9, <2>10, <2>12, <3>4, <4>1, <4>3
      <4> QED BY <2>3, <4>1, <4>2, <4>3
    <3> QED BY <2>8, <2>13, <3>1, <3>2, <3>3, <3>4 DEF Chained
  <2>18. Bucketed'
    <3>1. b \in DOMAIN gnu.buckets /\ DOMAIN gnu.buckets = 0 .. gnu_nbuckets - 1
      BY <2>3, <2>5 DEF Bucketed
    <3>2. \A a \in DOMAIN gnu.buckets : gnu'.buckets[a] = IF a = b /\ gnu.buckets[b] = 0 THEN l + 1 ELSE gnu.buckets[a]
      BY <2>15, <3>1
    <3>3. DOMAIN gnu'.buckets = DOMAIN gnu.buckets
      BY <2>15, <3>1
    <3>4. \A a \in DOMAIN gnu.buckets : gnu.buckets[a] \in 0 .. l
      BY <2>3, <2>l DEF Bucketed
    <3>5. \A a \in DOMAIN gnu.buckets : gnu'.buckets[a] \in 0 .. l + 1
      BY <2>3, <3>2, <3>4
    <3>6. ASSUME NEW d \in 1 .. l + 1 PROVE gnu'.buckets[DynBucket(d)'] \in 1 .. d
      <4>1. CASE d \in 1 .. l
        <5>1. gnu.buckets[DynBucket(d)] \in 1 .. d
          BY <2>3, <4>1 DEF Bucketed
        <5>2. DynBucket(d) \in DOMAIN gnu.buckets
          <6>1. dynamic_symbols[d] \in DOMAIN symbols
            BY <1>0, <2>3, <4>1, TypeFacts
          <6> QED BY <1>0, <3>1, <6>1, BucketType DEF DynBucket
        <5> QED BY <2>9, <3>2, <4>1, <5>1, <5>2
      <4>2. CASE d = l + 1
        BY <2>3, <2>10, <3>1, <3>2, <3>4, <4>2
      <4> QED BY <2>3, <4>1, <4>2
    <3>7. ASSUME NEW a \in DOMAIN gnu.buckets, NEW e, e = gnu'.buckets[a], e # 0 PROVE DynBucket(e)' = a
      <4>1. CASE a = b /\ gnu.buckets[b] = 0
        BY <2>10, <3>1, <3>2, <3>7, <4>1
      <4>2. CASE ~(a = b /\ gnu.buckets[b] = 0)
        <5>1. e = gnu.buckets[a] /\ e \in 1 .. l
          BY <2>3, <3>2, <3>4, <3>7, <4>2
        <5>2. DynBucket(e) = a
          BY <2>3, <3>7, <5>1 DEF Bucketed
        <5> QED BY <2>9, <5>1, <5>2
      <4> QED BY <4>1, <4>2
    <3> QED BY <2>2, <2>8, <3>1, <3>3, <3>5, <3>6, <3>7 DEF Bucketed
  <2>19. ~gnu'.chains[Len(gnu'.chains)].last
    BY <2>13, <2>16
  <2> QED BY <2>2, <2>17, <2>18, <2>19 DEF HashRight, Emitting
<1>7. CASE EndEmit
  <2>1. /\ pc = "emit" /\ pc' = "place" /\ UNCHANGED << symbols, unsorted, dynamic_symbols, gnu_nbuckets, gnu_bloom_size >>
        /\ gnu'.chains = Ended(gnu.chains) /\ gnu'.buckets = gnu.buckets /\ gnu'.bloom = gnu.bloom
    BY <1>0, <1>7 DEF EndEmit, IInv, Shaped
  <2>2. Chained /\ Bucketed /\ Len(dynamic_symbols) \in Nat /\ DOMAIN dynamic_symbols = 1 .. Len(dynamic_symbols)
    BY <1>0, <2>1, TypeFacts DEF HashRight, Emitting
  <2>3. \A i : HashOf(i)' = HashOf(i) /\ Bucket(i)' = Bucket(i) /\ BloomBits(HashOf(i))' = BloomBits(HashOf(i))
    BY <2>1 DEF HashOf, Bucket, BloomBits
  <2>4. gnu.chains \in Seq(Chain) /\ Len(gnu.chains) = Len(dynamic_symbols) /\ DOMAIN gnu.chains = DOMAIN dynamic_symbols
    BY <1>0, <2>2, TypeFacts DEF Chained
  <2>5. /\ Len(gnu'.chains) = Len(dynamic_symbols)
        /\ \A d \in DOMAIN dynamic_symbols : /\ gnu'.chains[d].hash = gnu.chains[d].hash
                                             /\ d < Len(dynamic_symbols) => gnu'.chains[d] = gnu.chains[d]
        /\ gnu.chains # << >> => gnu'.chains[Len(gnu.chains)].last
    BY <2>1, <2>4, EndedFacts
  <2>6. Chained'
    BY <2>1, <2>2, <2>3, <2>5 DEF Chained, DynBucket
  <2>7. Bucketed'
    BY <2>1, <2>2, <2>3 DEF Bucketed, DynBucket
  <2>8. dynamic_symbols' # << >> => gnu'.chains[Len(gnu'.chains)].last
    <3>1. dynamic_symbols # << >> => gnu.chains # << >>
      BY <2>2, <2>4
    <3> QED BY <2>1, <2>4, <2>5, <3>1
  <2> QED BY <2>1, <2>6, <2>7, <2>8 DEF HashRight, Emitting
<1>8. CASE PlaceRegion \/ EndRegionsPlaced \/ PlaceRw \/ Finish \/ MapRegion \/ EndMap
  <2>1. /\ pc \in {"place", "place_rw", "finish", "map"} /\ pc' \in {"place", "place_rw", "finish", "map", "done", "raised"}
        /\ UNCHANGED << symbols, dynamics >>
    BY <1>8 DEF PlaceRegion, EndRegionsPlaced, PlaceRw, Finish, MapRegion, EndMap
  <2>2. Emitting /\ Emitting' /\ pc # "emit" /\ pc' # "emit" /\ pc # "raised"
    BY <2>1 DEF Emitting
  <2> QED BY SMTT(60), <1>0, <2>1, <2>2, HashFrame
<1> QED BY <1>1, <1>2, <1>3, <1>4, <1>5, <1>6, <1>7, <1>8 DEF BuilderStep, LayoutStep

\* The tables of a finished library serve every lookup.
LEMMA HashRightSuffices ==
  ASSUME IInv
  PROVE  HashLookup
<1> SUFFICES ASSUME Laid PROVE HashLookup
  BY DEF HashLookup
<1>1. Chained /\ Bucketed /\ (dynamic_symbols # << >> => gnu.chains[Len(gnu.chains)].last)
  BY DEF IInv, Laid, HashRight, Emitting
<1>2. LayoutTypeOK /\ Len(dynamic_symbols) \in Nat /\ DOMAIN dynamic_symbols = 1 .. Len(dynamic_symbols)
  BY SMTT(60), TypeFacts DEF IInv, Shaped
<1>3. ASSUME NEW d \in DOMAIN dynamic_symbols PROVE LinkerFinds(symbols[dynamic_symbols[d]].name, d)
  <2> DEFINE b == DynBucket(d)
  <2>1. /\ BloomBits(HashOf(dynamic_symbols[d])) \subseteq gnu.bloom /\ gnu.buckets[b] \in 1 .. d
        /\ gnu.chains[d].hash = HashOf(dynamic_symbols[d]) - (HashOf(dynamic_symbols[d]) % 2)
    BY <1>1, <1>3 DEF Chained, Bucketed
  <2>2. \A e \in DOMAIN dynamic_symbols : DynBucket(e) \in Nat
    <3>1. \A e \in DOMAIN dynamic_symbols : dynamic_symbols[e] \in DOMAIN symbols
      BY <1>2, TypeFacts
    <3>2. \A e \in DOMAIN dynamic_symbols : DynBucket(e) \in 0 .. gnu_nbuckets - 1
      BY <1>2, <3>1, BucketType DEF DynBucket
    <3> QED BY <1>2, <3>2, TypeFacts
  <2>3. b \in DOMAIN gnu.buckets
    <3>1. dynamic_symbols[d] \in DOMAIN symbols
      BY <1>2, <1>3, TypeFacts
    <3> QED BY <1>1, <1>2, <3>1, BucketType DEF Bucketed, DynBucket
  <2>4. gnu.buckets[b] \in DOMAIN dynamic_symbols /\ DynBucket(gnu.buckets[b]) = b
    BY <1>1, <1>2, <2>1, <2>3 DEF Bucketed
  <2>5. ASSUME NEW k \in gnu.buckets[b] .. d - 1 PROVE ~gnu.chains[k].last
    <3>1. k \in 1 .. Len(dynamic_symbols) /\ k + 1 \in 1 .. Len(dynamic_symbols) /\ gnu.buckets[b] <= k /\ k + 1 <= d
      BY <1>2, <2>1, <2>5
    <3>2. b <= DynBucket(k) /\ DynBucket(k) <= DynBucket(k + 1) /\ DynBucket(k + 1) <= b
      BY <1>1, <1>2, <1>3, <2>4, <3>1 DEF Chained
    <3>3. DynBucket(k) = DynBucket(k + 1)
      BY <1>2, <2>2, <3>1, <3>2
    <3>4. k < Len(dynamic_symbols) /\ gnu.chains[k].last => DynBucket(k) # DynBucket(k + 1)
      BY <1>1, <1>2, <3>1 DEF Chained
    <3> QED BY <1>2, <3>1, <3>3, <3>4
  <2> QED BY <2>1, <2>5 DEF LinkerFinds, BloomBits, HashOf, DynBucket, Bucket
<1>4. ASSUME NEW b \in DOMAIN gnu.buckets, gnu.buckets[b] # 0
      PROVE  \E e \in gnu.buckets[b] .. Len(gnu.chains) : gnu.chains[e].last
  <2>1. gnu.buckets[b] \in 1 .. Len(dynamic_symbols) /\ Len(gnu.chains) = Len(dynamic_symbols)
    BY <1>1, <1>2, <1>4 DEF Bucketed, Chained
  <2>2. dynamic_symbols # << >>
    BY <1>2, <2>1
  <2> QED BY <1>1, <1>2, <2>1, <2>2
<1> QED BY <1>3, <1>4 DEF HashLookup

-----------------------------------------------------------------------------
(* Places in the file and in memory *)

\* Before the first section has its place.
LEMMA PlacedEarly ==
  ASSUME PlacedRight, \A k \in AllKinds : placed[k] = << >>, UNCHANGED places, LayoutTypeOK',
         pc' \in {"idle", "prepare", "merge", "sections", "emit", "place", "raised"},
         pc' \in {"sections", "emit", "place"} => kind' = "text"
  PROVE  PlacedRight'
<1>1. /\ placed'["text"] = << >> /\ placed'["rodata"] = << >> /\ placed'["rw"] = << >> /\ cursor' = cursor
      /\ \A k \in AllKinds : placed'[k] = << >>
  BY DEF AllKinds, Kinds
<1>2. InFile'
  BY <1>1 DEF PlacedRight, InFile, AllKinds, Later, Kinds
<1>3. RegionsPlaced'
  <2>1. \A k \in Kinds : Len(regions'[k]) \in Nat
    BY TypeFacts
  <2> QED BY <1>1, <2>1 DEF RegionsPlaced, AllKinds
<1>4. RwPlaced'
  <2>1. Len(RwNames)' \in Nat
    BY RwFacts
  <2> QED BY <1>1, <2>1 DEF RwPlaced
<1> QED BY <1>1, <1>2, <1>3, <1>4 DEF PlacedRight

\* After the last one.
LEMMA PlacedFrame ==
  ASSUME PlacedRight, UNCHANGED << input, areas, dynamics, places >>, pc \in {"finish", "map"},
         pc' \in {"map", "done", "raised"}
  PROVE  PlacedRight'
<1>1. InFile /\ RegionsPlaced /\ RwPlaced /\ AllPlaced("text") /\ AllPlaced("rodata") /\ Len(placed["rw"]) = Len(RwNames)
  BY DEF PlacedRight
<1>2. RwNames' = RwNames /\ \A n : RwSize(n)' = RwSize(n)
  BY DEF RwNames, RwSize, HasRela, DynCount, GnuSize, Needed
<1>3. InFile'
  BY <1>1 DEF InFile
<1>4. RegionsPlaced'
  BY <1>1 DEF RegionsPlaced, virtual_address
<1>5. RwPlaced'
  BY <1>1, <1>2 DEF RwPlaced
<1>6. AllPlaced("text")' /\ AllPlaced("rodata")' /\ Len(placed["rw"])' = Len(RwNames)'
  BY <1>1, <1>2 DEF AllPlaced
<1> QED BY <1>3, <1>4, <1>5, <1>6 DEF PlacedRight

\* One more section at the end of the file.
LEMMA PlacedOneMore ==
  ASSUME LayoutTypeOK, InFile, NEW c \in AllKinds, NEW s \in PlacedSection,
         s.offset >= cursor.offset, \A k \in Later(c) : placed[k] = << >>,
         placed' = [placed EXCEPT ![c] = Append(@, s)], cursor'.offset = FileEnd(s)
  PROVE  InFile'
<1>1. s.offset \in Nat /\ s.size \in Nat /\ cursor.offset \in Nat
  BY TypeFacts DEF PlacedSection
<1>2. /\ placed[c] \in Seq(PlacedSection) /\ DOMAIN placed[c] = 1 .. Len(placed[c]) /\ Len(placed[c]) \in Nat
  BY TypeFacts DEF AllKinds
<1>3. /\ DOMAIN placed'[c] = 1 .. (Len(placed[c]) + 1) /\ placed'[c][Len(placed[c]) + 1] = s
      /\ \A n \in DOMAIN placed[c] : placed'[c][n] = placed[c][n]
  <2>1. placed'[c] = Append(placed[c], s)
    BY DEF LayoutTypeOK, AllKinds
  <2> QED BY <1>2, <2>1, AppendFacts
<1>4. \A k \in AllKinds \ {c} : placed'[k] = placed[k]
  BY DEF LayoutTypeOK, AllKinds
<1>5. \A k \in AllKinds : \A n \in DOMAIN placed[k] :
        /\ FileEnd(placed[k][n]) \in Nat /\ placed[k][n].offset \in Nat /\ FileEnd(placed[k][n]) <= cursor.offset
  <2>1. \A k \in AllKinds : \A n \in DOMAIN placed[k] : placed[k][n].offset \in Nat /\ placed[k][n].size \in Nat
    BY TypeFacts DEF AllKinds
  <2>2. \A k \in AllKinds : \A n \in DOMAIN placed[k] : FileEnd(placed[k][n]) <= cursor.offset
    BY DEF InFile
  <2> QED BY <2>1, <2>2 DEF FileEnd
<1>6. FileEnd(s) \in Nat /\ cursor.offset <= FileEnd(s)
  BY <1>1 DEF FileEnd
<1>7. \A k \in AllKinds : \A n \in DOMAIN placed'[k] :
        (k = c /\ n = Len(placed[c]) + 1 /\ placed'[k][n] = s) \/ (n \in DOMAIN placed[k] /\ placed'[k][n] = placed[k][n])
  BY <1>2, <1>3, <1>4
<1>8. TextBase <= cursor'.offset
  BY <1>1, <1>6 DEF InFile, TextBase
<1>9. \A k \in AllKinds : \A n \in DOMAIN placed'[k] : FileEnd(placed'[k][n]) <= cursor'.offset
  <2>1. ASSUME NEW k \in AllKinds, NEW n \in DOMAIN placed'[k] PROVE FileEnd(placed'[k][n]) <= cursor'.offset
    <3>1. CASE placed'[k][n] = s
      BY <1>6, <3>1
    <3>2. CASE n \in DOMAIN placed[k] /\ placed'[k][n] = placed[k][n]
      BY <1>1, <1>5, <1>6, <3>2
    <3> QED BY <1>7, <3>1, <3>2
  <2> QED BY <2>1
<1>10. \A k \in AllKinds : \A m, n \in DOMAIN placed'[k] : m < n => FileEnd(placed'[k][m]) <= placed'[k][n].offset
  <2>1. ASSUME NEW k \in AllKinds, NEW m \in DOMAIN placed'[k], NEW n \in DOMAIN placed'[k], m < n
        PROVE  FileEnd(placed'[k][m]) <= placed'[k][n].offset
    <3>1. CASE k # c
      BY <1>4, <2>1, <3>1 DEF InFile
    <3>2. CASE k = c /\ n \in DOMAIN placed[c]
      <4>1. m \in DOMAIN placed[c]
        BY <1>2, <1>3, <2>1, <3>2
      <4> QED BY <1>3, <2>1, <3>2, <4>1 DEF InFile
    <3>3. CASE k = c /\ n = Len(placed[c]) + 1
      <4>1. m \in DOMAIN placed[c]
        BY <1>2, <1>3, <2>1, <3>3
      <4> QED BY <1>1, <1>3, <1>5, <3>3, <4>1
    <3> QED BY <1>2, <1>3, <3>1, <3>2, <3>3
  <2> QED BY <2>1
<1>11. \A k \in AllKinds : \A j \in Later(k) : \A m \in DOMAIN placed'[k] : \A n \in DOMAIN placed'[j] :
         FileEnd(placed'[k][m]) <= placed'[j][n].offset
  <2>1. ASSUME NEW k \in AllKinds, NEW j \in Later(k), NEW m \in DOMAIN placed'[k], NEW n \in DOMAIN placed'[j]
        PROVE  FileEnd(placed'[k][m]) <= placed'[j][n].offset
    <3>1. k # j /\ j \in AllKinds
      BY <2>1 DEF Later, AllKinds, Kinds
    <3>2. k # c
      <4> SUFFICES ASSUME k = c PROVE FALSE
        OBVIOUS
      <4>1. placed'[j] = << >>
        BY <1>4, <2>1, <3>1
      <4> QED BY <2>1, <4>1
    <3>3. placed'[k] = placed[k]
      BY <1>4, <3>2
    <3>4. CASE n \in DOMAIN placed[j] /\ placed'[j][n] = placed[j][n]
      BY <2>1, <3>3, <3>4 DEF InFile
    <3>5. CASE placed'[j][n] = s
      <4>1. FileEnd(placed[k][m]) \in Nat /\ FileEnd(placed[k][m]) <= cursor.offset
        BY <1>5, <2>1, <3>3
      <4>2. FileEnd(placed[k][m]) <= s.offset
        BY <1>1, <4>1
      <4> QED BY <3>3, <3>5, <4>2
    <3> QED BY <1>7, <3>1, <3>4, <3>5
  <2> QED BY <2>1
<1> QED BY <1>8, <1>9, <1>10, <1>11 DEF InFile

\* Alignment keeps a distance of whole pages.
LEMMA AlignKeeps ==
  ASSUME NEW a \in Int, NEW o \in Int, NEW n \in {1, 8}, (a - o) % PageSize = 0
  PROVE  /\ align(a, n) \in Int /\ align(o, n) \in Int /\ align(o, n) >= o /\ align(a, n) - align(o, n) = a - o
<1>1. CASE n = 1
  BY <1>1 DEF align
<1>2. CASE n = 8
  <2>1. PICK q \in Int : a - o = 8 * q
    <3>1. a - o = PageSize * ((a - o) \div PageSize)
      BY DEF PageSize
    <3>2. a - o = 8 * (512 * ((a - o) \div PageSize))
      BY <3>1 DEF PageSize
    <3>3. 512 * ((a - o) \div PageSize) \in Int
      BY DEF PageSize
    <3> QED BY <3>2, <3>3
  <2>2. a = o + 8 * q
    BY <2>1
  <2>3. (a + 7) \div 8 = ((o + 7) \div 8) + q
    BY <2>2
  <2> QED BY <1>2, <2>1, <2>3 DEF align
<1> QED BY <1>1, <1>2

LEMMA PlacedStep ==
  ASSUME IInv, BuilderStep
  PROVE  PlacedRight'
<1>0. LayoutTypeOK /\ PlacedRight /\ SizesSet /\ RegionsRight /\ LayoutTypeOK'
  BY ShapedStep DEF IInv, Shaped
<1>p. InFile /\ RegionsPlaced /\ RwPlaced
  BY <1>0 DEF PlacedRight
<1>e. ASSUME pc \in {"idle", "prepare", "merge", "sections", "emit"} PROVE \A k \in AllKinds : placed[k] = << >>
  BY <1>0, <1>e DEF PlacedRight, AllKinds, Kinds
<1>1. ASSUME NEW b \in Argument, Construct(b) PROVE PlacedRight'
  BY <1>0, <1>1, <1>e, PlacedEarly DEF Construct
<1>2. CASE prepare_symbol_virtual_addresses
  BY <1>0, <1>2, <1>e, PlacedEarly DEF prepare_symbol_virtual_addresses
<1>3. CASE MergeInterval
  BY <1>0, <1>3, <1>e, PlacedEarly DEF MergeInterval
<1>4. CASE EndRegions
  BY <1>0, <1>4, <1>e, PlacedEarly DEF EndRegions
<1>5. CASE AssignSections
  <2>1. kind = "text"
    BY <1>0, <1>5 DEF AssignSections, PlacedRight
  <2> QED BY <1>0, <1>5, <1>e, <2>1, PlacedEarly DEF AssignSections
<1>6. CASE EmitSymbol
  <2>1. kind = "text"
    BY <1>0, <1>6 DEF EmitSymbol, PlacedRight
  <2> QED BY <1>0, <1>6, <1>e, <2>1, PlacedEarly DEF EmitSymbol
<1>7. CASE EndEmit
  <2>1. kind = "text"
    BY <1>0, <1>7 DEF EndEmit, PlacedRight
  <2> QED BY <1>0, <1>7, <1>e, <2>1, PlacedEarly DEF EndEmit
<1>8. CASE PlaceRegion
  <2>c. PICK c \in Kinds : c = kind
    BY <1>0, TypeFacts
  <2>l. PICK l \in Nat : l = Len(placed[c])
    BY <1>0, TypeFacts
  <2>r. PICK r : r = regions[c][l + 1]
    OBVIOUS
  <2> DEFINE s == Section(c, PageUp(cursor.offset), virtual_address(r.start), r.end - r.start)
  <2>1. /\ pc = "place" /\ pc' = "place" /\ l < Len(regions[c]) /\ UNCHANGED << input, regions, kind, dynamics >>
        /\ placed' = [placed EXCEPT ![c] = Append(@, s)] /\ cursor'.offset = s.offset + s.size
    BY <1>8, <2>c, <2>l, <2>r DEF PlaceRegion
  <2>2. l + 1 \in DOMAIN regions[c] /\ Len(regions[c]) \in Nat /\ r.start \in Nat /\ r.end \in Nat /\ r.start < r.end
    <3>1. l + 1 \in DOMAIN regions[c] /\ Len(regions[c]) \in Nat
      BY SMTT(60), <1>0, <2>1, TypeFacts
    <3>2. PageAligned(regions[c])
      BY <1>0, <2>1 DEF RegionsRight, Started, SizesKnown
    <3> QED BY <1>0, <2>r, <3>1, <3>2, TypeFacts DEF PageAligned
  <2>3. PageUp(cursor.offset) \in Nat /\ PageUp(cursor.offset) >= cursor.offset /\ PageUp(cursor.offset) % PageSize = 0
    <3>1. cursor.offset \in Nat
      BY <1>0, TypeFacts
    <3> QED BY <3>1, PageFacts
  <2>4. virtual_address(r.start) \in Int
    BY SMTT(60), <1>0, <2>2, TypeFacts DEF virtual_address, TextBase
  <2>5. /\ s \in PlacedSection /\ s.offset = PageUp(cursor.offset) /\ s.addr = virtual_address(r.start)
        /\ s.size = r.end - r.start
    BY <2>2, <2>3, <2>4 DEF Section, PlacedSection, SectionNames
  <2> HIDE DEF s
  <2>6. \A k \in Later(c) : placed[k] = << >>
    BY <1>0, <2>1, <2>c DEF Later, PlacedRight, Kinds
  <2>7. InFile'
    <3>1. c \in AllKinds
      BY DEF AllKinds
    <3> QED BY <1>0, <1>p, <2>1, <2>3, <2>5, <2>6, <3>1, PlacedOneMore DEF FileEnd
  <2>8. /\ placed'[c] = Append(placed[c], s) /\ \A k \in AllKinds \ {c} : placed'[k] = placed[k]
    BY <1>0, <2>1 DEF LayoutTypeOK, AllKinds
  <2>9. /\ Len(placed'[c]) = l + 1 /\ DOMAIN placed'[c] = 1 .. (l + 1) /\ placed'[c][l + 1] = s
        /\ \A n \in 1 .. l : placed'[c][n] = placed[c][n]
    <3>1. placed[c] \in Seq(PlacedSection) /\ DOMAIN placed[c] = 1 .. l
      BY <1>0, <2>l, TypeFacts
    <3> QED BY <2>5, <2>8, <2>l, <3>1, AppendFacts
  <2>10. \A a : virtual_address(a)' = virtual_address(a)
    BY <2>1 DEF virtual_address
  <2>11. RegionsPlaced'
    <3>1. ASSUME NEW k \in Kinds
          PROVE  /\ Len(placed'[k]) <= Len(regions'[k])
                 /\ \A n \in DOMAIN placed'[k] :
                      /\ placed'[k][n].offset % PageSize = 0
                      /\ placed'[k][n].addr = virtual_address(regions[k][n].start)
                      /\ placed'[k][n].size = regions'[k][n].end - regions'[k][n].start
      <4>1. CASE k # c
        <5>1. placed'[k] = placed[k] /\ regions' = regions
          BY <2>1, <2>8, <4>1 DEF AllKinds
        <5> QED BY <1>p, <5>1 DEF RegionsPlaced
      <4>2. CASE k = c
        <5>1. ASSUME NEW n \in 1 .. l
              PROVE  /\ placed'[c][n].offset % PageSize = 0
                     /\ placed'[c][n].addr = virtual_address(regions[c][n].start)
                     /\ placed'[c][n].size = regions'[c][n].end - regions'[c][n].start
          <6>1. n \in DOMAIN placed[c]
            BY <1>0, <2>l, TypeFacts
          <6> QED BY <1>p, <2>1, <2>9, <6>1 DEF RegionsPlaced
        <5>2. /\ s.offset % PageSize = 0 /\ s.addr = virtual_address(regions[c][l + 1].start)
              /\ s.size = regions'[c][l + 1].end - regions'[c][l + 1].start
          BY <2>1, <2>3, <2>5, <2>r
        <5> QED BY SMTT(60), <2>1, <2>2, <2>9, <4>2, <5>1, <5>2
      <4> QED BY <4>1, <4>2
    <3> QED BY <2>1, <2>10, <3>1 DEF RegionsPlaced
  <2>12. placed'["rw"] = << >>
    BY <1>0, <2>1, <2>8 DEF PlacedRight, AllKinds, Kinds
  <2>13. RwPlaced'
    <3>1. Len(RwNames)' \in Nat
      BY <1>0, RwFacts
    <3> QED BY <2>12, <3>1 DEF RwPlaced
  <2>14. IF kind' = "text" THEN placed'["rodata"] = << >> ELSE AllPlaced("text")'
    BY <1>0, <2>1, <2>8, <2>c DEF PlacedRight, AllPlaced, AllKinds, Kinds
  <2> QED BY <2>1, <2>7, <2>11, <2>12, <2>13, <2>14 DEF PlacedRight
<1>9. CASE EndRegionsPlaced
  <2>1. /\ pc = "place" /\ UNCHANGED << input, regions, dynamics, placed >> /\ Len(placed[kind]) = Len(regions[kind])
        /\ kind \in Kinds /\ placed["rw"] = << >>
    BY <1>0, <1>9, TypeFacts DEF EndRegionsPlaced, PlacedRight
  <2>2. RegionsPlaced'
    BY <1>p, <2>1 DEF RegionsPlaced, virtual_address
  <2>3. RwPlaced'
    <3>1. Len(RwNames)' \in Nat
      BY <1>0, RwFacts
    <3> QED BY <2>1, <3>1 DEF RwPlaced
  <2>4. cursor.offset \in Nat /\ cursor.addr \in Int /\ args.rw_base \in Int
    BY <1>0, TypeFacts, ArgumentFacts
  <2>5. CASE kind = "text"
    <3>1. kind' = "rodata" /\ pc' = "place" /\ cursor' = cursor
      BY <1>9, <2>1, <2>5 DEF EndRegionsPlaced
    <3>2. InFile'
      BY <1>p, <2>1, <3>1 DEF InFile
    <3>3. AllPlaced("text")'
      BY <2>1, <2>5 DEF AllPlaced
    <3> QED BY <2>1, <2>2, <2>3, <3>1, <3>2, <3>3 DEF PlacedRight
  <2>6. CASE kind = "rodata"
    <3>1. /\ kind' = "text" /\ pc' = "place_rw" /\ cursor'.offset = PageUp(cursor.offset)
          /\ cursor'.addr = PageUp(IF args.based THEN args.rw_base ELSE cursor.addr)
      BY <1>9, <2>6 DEF EndRegionsPlaced
    <3>2. PageUp(cursor.offset) \in Nat /\ PageUp(cursor.offset) >= cursor.offset
      BY <2>4, PageFacts
    <3>3. InFile'
      <4>1. TextBase <= cursor'.offset
        BY <1>p, <2>4, <3>1, <3>2 DEF InFile, TextBase
      <4>2. ASSUME NEW k \in AllKinds, NEW n \in DOMAIN placed[k] PROVE FileEnd(placed[k][n]) <= cursor'.offset
        <5>1. FileEnd(placed[k][n]) <= cursor.offset
          BY <1>p, <4>2 DEF InFile
        <5>2. FileEnd(placed[k][n]) \in Nat
          <6>1. placed[k][n].offset \in Nat /\ placed[k][n].size \in Nat
            BY <1>0, <4>2, TypeFacts DEF AllKinds
          <6> QED BY <6>1 DEF FileEnd
        <5> QED BY <2>4, <3>1, <3>2, <5>1, <5>2
      <4> QED BY <1>p, <2>1, <4>1, <4>2 DEF InFile
    <3>4. (cursor'.addr - cursor'.offset) % PageSize = 0
      <4>1. cursor'.addr \in Int /\ cursor'.addr % PageSize = 0
        BY <2>4, <3>1, PageFacts
      <4>2. cursor'.offset \in Int /\ cursor'.offset % PageSize = 0
        BY <2>4, <3>1, PageFacts
      <4> QED BY <4>1, <4>2 DEF PageSize
    <3>5. AllPlaced("text")' /\ AllPlaced("rodata")'
      BY <1>0, <2>1, <2>6 DEF AllPlaced, PlacedRight
    <3>6. Len(placed'["rw"]) < Len(RwNames)'
      <4>1. RwNames' = RwNames /\ Len(RwNames) \in Nat /\ Len(RwNames) > 0
        BY <1>0, <2>1, RwFacts DEF RwNames, HasRela
      <4> QED BY <2>1, <4>1
    <3> QED BY <2>2, <2>3, <3>1, <3>3, <3>4, <3>5, <3>6 DEF PlacedRight
  <2> QED BY <2>1, <2>5, <2>6 DEF Kinds
<1>10. CASE PlaceRw
  <2>l. PICK l \in Nat : l = Len(placed["rw"])
    BY <1>0, TypeFacts
  <2>n. PICK n : n = RwNames[l + 1]
    OBVIOUS
  <2> DEFINE s == Section(n, align(cursor.offset, RwAlign(n)), align(cursor.addr, RwAlign(n)), RwSize(n))
  <2>1. /\ pc = "place_rw" /\ l < Len(RwNames) /\ UNCHANGED << input, regions, dynamics, kind >>
        /\ placed' = [placed EXCEPT !["rw"] = Append(@, s)] /\ cursor' = [offset |-> s.offset + s.size, addr |-> s.addr + s.size]
        /\ pc' = IF l + 1 = Len(RwNames) THEN "finish" ELSE pc
    BY <1>10, <2>l, <2>n DEF PlaceRw
  <2>2. /\ Len(RwNames) \in Nat /\ l + 1 \in DOMAIN RwNames
        /\ n \in SectionNames /\ RwSize(n) \in Nat /\ RwAlign(n) \in {1, 8}
    <3>1. Len(RwNames) \in Nat /\ DOMAIN RwNames = 1 .. Len(RwNames)
      BY <1>0, RwFacts
    <3>2. l + 1 \in DOMAIN RwNames
      <4>1. l < Len(RwNames) /\ l \in Nat
        BY <2>1
      <4> HIDE DEF s
      <4> QED BY <3>1, <4>1
    <3> QED BY <1>0, <2>n, <3>1, <3>2, RwFacts
  <2>3. cursor.offset \in Nat /\ cursor.addr \in Int /\ (cursor.addr - cursor.offset) % PageSize = 0
    BY <1>0, <2>1, TypeFacts DEF PlacedRight
  <2>4. /\ align(cursor.offset, RwAlign(n)) \in Nat /\ align(cursor.addr, RwAlign(n)) \in Int
        /\ align(cursor.offset, RwAlign(n)) >= cursor.offset
        /\ align(cursor.addr, RwAlign(n)) - align(cursor.offset, RwAlign(n)) = cursor.addr - cursor.offset
    <3>1. PICK k \in {1, 8} : k = RwAlign(n)
      BY <2>2
    <3>2. /\ align(cursor.addr, k) \in Int /\ align(cursor.offset, k) \in Int /\ align(cursor.offset, k) >= cursor.offset
          /\ align(cursor.addr, k) - align(cursor.offset, k) = cursor.addr - cursor.offset
      <4>1. \A a, o \in Int : (a - o) % PageSize = 0 =>
               /\ align(a, k) \in Int /\ align(o, k) \in Int /\ align(o, k) >= o /\ align(a, k) - align(o, k) = a - o
        BY <3>1, AlignKeeps
      <4>2. cursor.addr \in Int /\ cursor.offset \in Int
        BY <2>3
      <4> QED BY <2>3, <4>1, <4>2
    <3> QED BY <2>3, <3>1, <3>2
  <2>5. /\ s \in PlacedSection /\ s.offset \in Nat /\ s.addr \in Int /\ s.size = RwSize(n) /\ s.offset >= cursor.offset
        /\ s.addr - s.offset = cursor.addr - cursor.offset
    BY <2>2, <2>4 DEF Section, PlacedSection
  <2> HIDE DEF s
  <2>6. cursor'.offset = s.offset + s.size /\ cursor'.addr = s.addr + s.size
        /\ cursor'.addr - cursor'.offset = cursor.addr - cursor.offset
    BY <2>1, <2>2, <2>5
  <2>7. InFile'
    <3>1. "rw" \in AllKinds /\ Later("rw") = {}
      BY DEF AllKinds, Later
    <3> QED BY <1>0, <1>p, <2>1, <2>5, <2>6, <3>1, PlacedOneMore DEF FileEnd
  <2>8. placed'["rw"] = Append(placed["rw"], s) /\ placed'["text"] = placed["text"] /\ placed'["rodata"] = placed["rodata"]
        /\ \A k \in Kinds : placed'[k] = placed[k]
    BY <1>0, <2>1 DEF LayoutTypeOK, Kinds
  <2>9. /\ Len(placed'["rw"]) = l + 1 /\ DOMAIN placed'["rw"] = 1 .. (l + 1) /\ placed'["rw"][l + 1] = s
        /\ \A m \in 1 .. l : placed'["rw"][m] = placed["rw"][m]
    <3>1. placed["rw"] \in Seq(PlacedSection) /\ DOMAIN placed["rw"] = 1 .. l
      BY <1>0, <2>l, TypeFacts
    <3> QED BY <2>5, <2>8, <2>l, <3>1, AppendFacts
  <2>10. RwNames' = RwNames /\ \A m : RwSize(m)' = RwSize(m)
    BY <2>1 DEF RwNames, RwSize, HasRela, DynCount, GnuSize, Needed
  <2>11. RegionsPlaced'
    <3>1. \A a : virtual_address(a)' = virtual_address(a)
      BY <2>1 DEF virtual_address
    <3>2. ASSUME NEW k \in Kinds PROVE placed'[k] = placed[k] /\ regions'[k] = regions[k]
      BY <2>1, <2>8
    <3> QED BY <1>p, <3>1, <3>2 DEF RegionsPlaced
  <2>12. RwPlaced'
    <3>1. ASSUME NEW m \in 1 .. (l + 1)
          PROVE  /\ placed'["rw"][m].addr - placed'["rw"][m].offset = cursor'.addr - cursor'.offset
                 /\ placed'["rw"][m].size = RwSize(RwNames[m])
      <4>1. CASE m \in 1 .. l
        <5>1. m \in DOMAIN placed["rw"]
          BY <1>0, <2>l, <4>1, TypeFacts
        <5> QED BY <1>p, <2>6, <2>9, <4>1, <5>1 DEF RwPlaced
      <4>2. CASE m = l + 1
        BY <2>5, <2>6, <2>9, <2>n, <4>2
      <4> QED BY <4>1, <4>2
    <3>2. Len(placed'["rw"]) <= Len(RwNames)
      BY <2>1, <2>2, <2>9
    <3> QED BY <2>3, <2>6, <2>9, <2>10, <3>1, <3>2 DEF RwPlaced
  <2>13. AllPlaced("text")' /\ AllPlaced("rodata")'
    BY <1>0, <2>1, <2>8 DEF PlacedRight, AllPlaced
  <2>14. kind' = "text"
    BY <1>0, <2>1 DEF PlacedRight
  <2>15. pc' \in {"place_rw", "finish"} /\ (pc' = "finish" => Len(placed'["rw"]) = Len(RwNames)')
         /\ (pc' = "place_rw" => Len(placed'["rw"]) < Len(RwNames)')
    BY <2>1, <2>2, <2>9, <2>10
  <2> QED BY <2>3, <2>6, <2>7, <2>11, <2>12, <2>13, <2>14, <2>15 DEF PlacedRight
<1>11. CASE Finish \/ MapRegion \/ EndMap
  <2>1. /\ pc \in {"finish", "map"} /\ pc' \in {"map", "done", "raised"}
        /\ UNCHANGED << input, areas, dynamics, places >>
    BY <1>11 DEF Finish, MapRegion, EndMap
  <2> QED BY <1>0, <2>1, PlacedFrame
<1> QED BY <1>1, <1>2, <1>3, <1>4, <1>5, <1>6, <1>7, <1>8, <1>9, <1>10, <1>11 DEF BuilderStep, LayoutStep

-----------------------------------------------------------------------------
(* The page map *)

\* The pages of a region: an equality of offsets is one of pages.
LEMMA MappingFacts ==
  ASSUME LayoutTypeOK, NEW k \in Kinds, NEW n \in DOMAIN regions[k], n \in DOMAIN placed[k], NEW e \in MappingOf(k, n)
  PROVE  /\ e.page \in Pages(regions[k][n]) /\ e.page \in Int /\ e.offset \in Int /\ e.page \notin args.synthetic
         /\ e.offset = placed[k][n].offset + (e.page - regions[k][n].start)
<1>1. regions[k][n].start \in Nat /\ regions[k][n].end \in Nat /\ placed[k][n].offset \in Nat
  BY TypeFacts
<1>2. PICK p \in Pages(regions[k][n]) \ args.synthetic :
        e = [offset |-> placed[k][n].offset + (p - regions[k][n].start), page |-> p, kind |-> k]
  BY DEF MappingOf
<1>3. p \in Int
  BY <1>1, <1>2 DEF Pages, PageSize
<1> QED BY <1>1, <1>2, <1>3

LEMMA MapStep ==
  ASSUME IInv, BuilderStep
  PROVE  MapRight'
<1>0. LayoutTypeOK /\ PlacedRight /\ MapRight
  BY DEF IInv, Shaped
<1>1. ASSUME pc \notin {"map", "done", "raised"}, pc' \notin {"map", "done"}, UNCHANGED << loads, page_map, mapped >>
      PROVE  MapRight'
  BY <1>0, <1>1 DEF MapRight
<1>2. ASSUME NEW b \in Argument, Construct(b) PROVE MapRight'
  BY <1>1, <1>2 DEF Construct
<1>3. CASE prepare_symbol_virtual_addresses
  BY <1>1, <1>3 DEF prepare_symbol_virtual_addresses
<1>4. CASE MergeInterval \/ EndRegions \/ AssignSections
  <2>1. pc \in {"merge", "sections"} /\ pc' \in {"merge", "sections", "emit", "raised"} /\ UNCHANGED << loads, page_map, mapped >>
    BY <1>4 DEF MergeInterval, EndRegions, AssignSections
  <2> QED BY <1>1, <2>1
<1>5. CASE EmitSymbol \/ EndEmit \/ PlaceRegion \/ EndRegionsPlaced \/ PlaceRw
  <2>1. pc \in {"emit", "place", "place_rw"} /\ pc' \in {"emit", "place", "place_rw", "finish"}
        /\ UNCHANGED << loads, page_map, mapped >>
    BY <1>5 DEF EmitSymbol, EndEmit, PlaceRegion, EndRegionsPlaced, PlaceRw
  <2> QED BY <1>1, <2>1
<1>6. CASE Finish
  <2>1. /\ pc = "finish" /\ loads' = Loads /\ pc' \in {"raised", "map"} /\ UNCHANGED << kind, input, areas, dynamics, places, map >>
        /\ dynamic_size' = 16 * (Needed + (IF HasRela THEN 9 ELSE 6))
    BY <1>6 DEF Finish
  <2>2. page_map = {} /\ mapped = 0
    BY <1>0, <2>1 DEF MapRight
  <2>3. loads' # {} /\ loads' = Loads'
    <3>1. Loads' = Loads
      BY <2>1 DEF Loads, RwLoad, Load
    <3>2. RwLoad \in Loads
      BY DEF Loads
    <3> QED BY <2>1, <3>1, <3>2
  <2>4. kind = "text" /\ AllPlaced("text")' /\ AllPlaced("rodata")' /\ Len(placed'["rw"]) = Len(RwNames)'
    BY <1>0, <2>1 DEF PlacedRight, AllPlaced, RwNames, HasRela
  <2>5. dynamic_size' = 16 * (Needed' + (IF HasRela' THEN 9 ELSE 6))
    BY <2>1 DEF Needed, HasRela
  <2>6. mapped' <= Len(regions'[kind'])
    BY <1>0, <2>1, <2>2, TypeFacts
  <2>7. \A k \in Kinds : \A n \in DOMAIN regions'[k] : ~(n <= mapped')
    BY <1>0, <2>1, <2>2, TypeFacts
  <2> QED BY <2>1, <2>2, <2>3, <2>4, <2>5, <2>6, <2>7 DEF MapRight
<1>7. CASE MapRegion \/ EndMap
  <2>0. pc = "map" /\ UNCHANGED << input, areas, dynamics, places, tables >> /\ pc' \in {"map", "done", "raised"}
    BY <1>7 DEF MapRegion, EndMap
  <2>1. /\ loads # {} /\ loads = Loads /\ AllPlaced("text") /\ AllPlaced("rodata") /\ Len(placed["rw"]) = Len(RwNames)
        /\ dynamic_size = 16 * (Needed + (IF HasRela THEN 9 ELSE 6))
        /\ \A e \in page_map : \E k \in Kinds : \E n \in DOMAIN regions[k] : e \in MappingOf(k, n)
        /\ \A e, f \in page_map : (e.offset = f.offset) <=> (e.page = f.page)
        /\ mapped <= Len(regions[kind])
        /\ \A k \in Kinds : \A n \in DOMAIN regions[k] :
             (k = kind /\ n <= mapped) \/ (k = "text" /\ kind = "rodata") => MappingOf(k, n) \subseteq page_map
    BY <1>0, <2>0 DEF MapRight
  <2>2. /\ loads' # {} /\ loads' = Loads' /\ AllPlaced("text")' /\ AllPlaced("rodata")' /\ Len(placed'["rw"]) = Len(RwNames)'
        /\ dynamic_size' = 16 * (Needed' + (IF HasRela' THEN 9 ELSE 6))
    BY <2>0, <2>1 DEF Loads, RwLoad, Load, AllPlaced, RwNames, HasRela, Needed
  <2>3. \A k, n : MappingOf(k, n)' = MappingOf(k, n)
    BY <2>0 DEF MappingOf
  <2>4. regions' = regions /\ kind \in Kinds /\ mapped \in Nat
    BY <1>0, <2>0, TypeFacts
  <2>5. CASE MapRegion /\ Clash(Mappings(mapped + 1))
    <3>1. pc' = "raised" /\ page_map' = page_map
      BY <2>5 DEF MapRegion
    <3> QED BY <2>1, <2>2, <2>3, <2>4, <3>1 DEF MapRight
  <2>6. CASE MapRegion /\ ~Clash(Mappings(mapped + 1))
    <3>1. /\ pc' = "map" /\ kind' = kind /\ page_map' = page_map \cup Mappings(mapped + 1) /\ mapped' = mapped + 1
          /\ mapped < Len(regions[kind])
      BY <2>6 DEF MapRegion
    <3>2. Mappings(mapped + 1) = MappingOf(kind, mapped + 1) /\ mapped + 1 \in DOMAIN regions[kind] /\ Len(regions[kind]) \in Nat
      BY <1>0, <2>4, <3>1, TypeFacts DEF Mappings, MappingOf
    <3>3. mapped + 1 \in DOMAIN placed[kind]
      BY <1>0, <2>1, <2>4, <3>2, TypeFacts DEF AllPlaced, Kinds
    <3>4. \A e, f \in MappingOf(kind, mapped + 1) : (e.offset = f.offset) <=> (e.page = f.page)
      <4>1. ASSUME NEW e \in MappingOf(kind, mapped + 1), NEW f \in MappingOf(kind, mapped + 1)
            PROVE  (e.offset = f.offset) <=> (e.page = f.page)
        <5>1. /\ e.page \in Int /\ e.offset = placed[kind][mapped + 1].offset + (e.page - regions[kind][mapped + 1].start)
          BY <1>0, <2>4, <3>2, <3>3, MappingFacts
        <5>2. /\ f.page \in Int /\ f.offset = placed[kind][mapped + 1].offset + (f.page - regions[kind][mapped + 1].start)
          BY <1>0, <2>4, <3>2, <3>3, MappingFacts
        <5>3. placed[kind][mapped + 1].offset \in Int /\ regions[kind][mapped + 1].start \in Int
          BY SMTT(60), <1>0, <2>4, <3>2, <3>3, TypeFacts
        <5>4. \A c, d, x, y \in Int : c + (x - d) = c + (y - d) => x = y
          OBVIOUS
        <5>5. e.offset = f.offset => e.page = f.page
          BY <5>1, <5>2, <5>3, <5>4
        <5>6. e.page = f.page => e.offset = f.offset
          BY <5>1, <5>2
        <5> QED BY <5>5, <5>6
      <4> QED BY <4>1
    <3>5. \A e \in Mappings(mapped + 1), f \in page_map : e.offset # f.offset /\ e.page # f.page
      BY <2>6 DEF Clash
    <3>6. \A e, f \in page_map' : (e.offset = f.offset) <=> (e.page = f.page)
      BY <2>1, <3>1, <3>2, <3>4, <3>5
    <3>7. \A e \in page_map' : \E k \in Kinds : \E n \in DOMAIN regions[k] : e \in MappingOf(k, n)
      BY <2>1, <2>4, <3>1, <3>2
    <3>8. \A k \in Kinds : \A n \in DOMAIN regions[k] :
             (k = kind /\ n <= mapped + 1) \/ (k = "text" /\ kind = "rodata") => MappingOf(k, n) \subseteq page_map'
      <4>1. ASSUME NEW k \in Kinds, NEW n \in DOMAIN regions[k], (k = kind /\ n <= mapped + 1) \/ (k = "text" /\ kind = "rodata")
            PROVE  MappingOf(k, n) \subseteq page_map'
        <5>1. CASE k = kind /\ n = mapped + 1
          BY <3>1, <3>2, <5>1
        <5>2. CASE k = kind /\ n # mapped + 1
          <6>1. n <= mapped
            BY <1>0, <2>4, <4>1, <5>2, TypeFacts
          <6> QED BY <2>1, <3>1, <5>2, <6>1
        <5>3. CASE k # kind
          BY <2>1, <3>1, <4>1, <5>3
        <5> QED BY <5>1, <5>2, <5>3
      <4> QED BY <4>1
    <3>9. mapped + 1 <= Len(regions[kind])
      BY <2>4, <3>1, <3>2
    <3> QED BY <2>2, <2>3, <2>4, <3>1, <3>6, <3>7, <3>8, <3>9 DEF MapRight
  <2>7. CASE EndMap
    <3>1. mapped = Len(regions[kind]) /\ page_map' = page_map
      BY <2>7 DEF EndMap
    <3>2. CASE kind = "text"
      <4>1. kind' = "rodata" /\ mapped' = 0 /\ pc' = "map"
        BY <2>0, <2>7, <3>2 DEF EndMap
      <4>2. \A n \in DOMAIN regions["text"] : MappingOf("text", n) \subseteq page_map
        <5>1. ASSUME NEW n \in DOMAIN regions["text"] PROVE n <= mapped /\ "text" \in Kinds
          BY SMTT(60), <1>0, <3>1, <3>2, TypeFacts DEF Kinds
        <5> QED BY <2>1, <3>2, <5>1
      <4>3. \A n \in DOMAIN regions["rodata"] : ~(n <= 0)
        BY <1>0, TypeFacts DEF Kinds
      <4>4. 0 <= Len(regions["rodata"])
        BY <1>0, TypeFacts DEF Kinds
      <4> QED BY <2>1, <2>2, <2>3, <2>4, <3>1, <4>1, <4>2, <4>3, <4>4 DEF MapRight, Kinds
    <3>3. CASE kind = "rodata"
      <4>1. kind' = "rodata" /\ mapped' = mapped /\ pc' \in {"raised", "done"}
        BY <2>7, <3>3 DEF EndMap
      <4> QED BY <2>1, <2>2, <2>3, <2>4, <3>1, <3>3, <4>1 DEF MapRight
    <3> QED BY <2>4, <3>2, <3>3 DEF Kinds
  <2> QED BY <1>7, <2>5, <2>6, <2>7
<1> QED BY <1>2, <1>3, <1>4, <1>5, <1>6, <1>7 DEF BuilderStep, LayoutStep

-----------------------------------------------------------------------------
(* What the invariant says of the page map and the file *)

\* Every page of the map is a page of some region.
LEMMA EntryFacts ==
  ASSUME IInv, NEW e \in page_map
  PROVE  \E k \in Kinds : \E n \in DOMAIN regions[k] :
           /\ n \in DOMAIN placed[k] /\ loads = Loads
           /\ e.page \in Int /\ e.page \notin args.synthetic /\ e.page % PageSize = 0
           /\ regions[k][n].start <= e.page /\ e.page + PageSize <= regions[k][n].end
           /\ e.offset = placed[k][n].offset + (e.page - regions[k][n].start)
           /\ placed[k][n].offset % PageSize = 0 /\ regions[k][n].start % PageSize = 0
           /\ placed[k][n].addr = virtual_address(regions[k][n].start)
           /\ placed[k][n].size = regions[k][n].end - regions[k][n].start
           /\ regions[k][n].start \in Nat /\ regions[k][n].end \in Nat /\ placed[k][n].offset \in Nat
<1>0. LayoutTypeOK /\ RegionsRight /\ PlacedRight /\ MapRight
  BY DEF IInv, Shaped
<1>1. loads # {} /\ loads = Loads /\ pc \in {"map", "done", "raised"} /\ AllPlaced("text") /\ AllPlaced("rodata")
  BY <1>0 DEF MapRight
<1>2. PICK k, n : k \in Kinds /\ n \in DOMAIN regions[k] /\ e \in MappingOf(k, n)
  BY <1>0, <1>1 DEF MapRight
<1>3. n \in DOMAIN placed[k]
  BY <1>0, <1>1, <1>2, TypeFacts DEF AllPlaced, Kinds
<1>4. /\ e.page \in Pages(regions[k][n]) /\ e.page \in Int /\ e.page \notin args.synthetic
      /\ e.offset = placed[k][n].offset + (e.page - regions[k][n].start)
  BY <1>0, <1>2, <1>3, MappingFacts
<1>5. regions[k][n].start \in Nat /\ regions[k][n].end \in Nat /\ placed[k][n].offset \in Nat
  BY <1>0, <1>2, <1>3, TypeFacts
<1>6. regions[k][n].start % PageSize = 0 /\ regions[k][n].end % PageSize = 0
  <2>1. Started(k)
    BY <1>1 DEF Started, SizesKnown
  <2>2. PageAligned(regions[k])
    BY <1>0, <1>2, <2>1 DEF RegionsRight
  <2> QED BY <1>2, <2>2 DEF PageAligned
<1>7. regions[k][n].start <= e.page /\ e.page + PageSize <= regions[k][n].end /\ e.page % PageSize = 0
  BY <1>4, <1>5, <1>6 DEF Pages, PageSize
<1>8. /\ placed[k][n].offset % PageSize = 0 /\ placed[k][n].addr = virtual_address(regions[k][n].start)
      /\ placed[k][n].size = regions[k][n].end - regions[k][n].start
  BY <1>0, <1>2, <1>3 DEF PlacedRight, RegionsPlaced
<1> QED BY <1>1, <1>2, <1>3, <1>4, <1>5, <1>6, <1>7, <1>8

LEMMA MapFaithfulNow ==
  ASSUME IInv
  PROVE  MapFaithful
<1>1. ASSUME NEW e \in page_map
      PROVE  /\ LoadedAt(e.offset, virtual_address(e.page))
             /\ e.offset % PageSize = 0 /\ e.page % PageSize = 0 /\ e.page \notin args.synthetic
  <2>1. PICK k, n :
          /\ k \in Kinds /\ n \in DOMAIN regions[k]
          /\ n \in DOMAIN placed[k] /\ loads = Loads
          /\ e.page \in Int /\ e.page \notin args.synthetic /\ e.page % PageSize = 0
          /\ regions[k][n].start <= e.page /\ e.page + PageSize <= regions[k][n].end
          /\ e.offset = placed[k][n].offset + (e.page - regions[k][n].start)
          /\ placed[k][n].offset % PageSize = 0 /\ regions[k][n].start % PageSize = 0
          /\ placed[k][n].addr = virtual_address(regions[k][n].start)
          /\ placed[k][n].size = regions[k][n].end - regions[k][n].start
          /\ regions[k][n].start \in Nat /\ regions[k][n].end \in Nat /\ placed[k][n].offset \in Nat
    BY <1>1, EntryFacts
  <2>2. text_min_page \in Nat
    BY TypeFacts DEF IInv, Shaped
  <2> DEFINE l == Load(k, placed[k][n])
  <2>3. /\ l \in loads /\ l.kind = k /\ l.offset = placed[k][n].offset /\ l.addr = placed[k][n].addr
        /\ l.filesz = placed[k][n].size
    BY <2>1 DEF Loads, Load
  <2> HIDE DEF l
  <2>4. l.offset <= e.offset /\ e.offset + PageSize <= l.offset + l.filesz
    BY <2>1, <2>3 DEF PageSize
  <2>5. virtual_address(e.page) - l.addr = e.offset - l.offset
    BY <2>1, <2>2, <2>3 DEF virtual_address, TextBase
  <2>6. e.offset % PageSize = 0
    BY <2>1 DEF PageSize
  <2> QED BY <2>1, <2>3, <2>4, <2>5, <2>6 DEF LoadedAt
<1>2. ASSUME NEW e \in page_map, NEW f \in page_map PROVE (e.offset = f.offset) <=> (e.page = f.page)
  BY <1>2 DEF IInv, MapRight
<1> QED BY <1>1, <1>2 DEF MapFaithful

\* A page that starts within the interval of a symbol is one of its pages.
LEMMA PagesAreInterval ==
  ASSUME NEW s, s.address \in Nat, s.size \in Nat, s.size > 0, NEW p
  PROVE  p \in PagesOf(s) <=> p \in Int /\ p % PageSize = 0 /\ Interval(s)[1] <= p /\ p < Interval(s)[2]
<1>1. ASSUME p \in PagesOf(s) PROVE p \in Int /\ p % PageSize = 0 /\ Interval(s)[1] <= p /\ p < Interval(s)[2]
  BY <1>1 DEF PagesOf, Interval, align_down, PageUp, align, PageSize
<1>2. ASSUME p \in Int, p % PageSize = 0, Interval(s)[1] <= p, p < Interval(s)[2] PROVE p \in PagesOf(s)
  <2> DEFINE q == p \div PageSize
  <2>1. p = PageSize * q /\ q \in Int
    BY <1>2 DEF PageSize
  <2> HIDE DEF q
  <2>2. s.address \div PageSize <= q /\ q <= (s.address + s.size - 1) \div PageSize
    BY <1>2, <2>1 DEF Interval, align_down, PageUp, align, PageSize
  <2>3. q \in s.address \div PageSize .. (s.address + s.size - 1) \div PageSize
    BY <2>1, <2>2 DEF PageSize
  <2> QED BY <2>1, <2>3 DEF PagesOf
<1> QED BY <1>1, <1>2

LEMMA MapExactNow ==
  ASSUME IInv
  PROVE  MapExact
<1> SUFFICES ASSUME pc = "done" PROVE MapExact
  BY DEF MapExact
<1> DEFINE Wanted == (UNION {PagesOf(symbols[i]) : i \in Code \cup Rodata}) \ args.synthetic
<1>0. LayoutTypeOK /\ SizesSet /\ RegionsRight /\ PlacedRight /\ MapRight
  BY DEF IInv, Shaped
<1>1. /\ \A k \in Kinds : Started(k) /\ Taken(k) = IntervalsOf(k)
      /\ \A k \in Kinds : \A n \in DOMAIN regions[k] : MappingOf(k, n) \subseteq page_map
  <2>1. \A k \in Kinds : Started(k) /\ Waiting(k) = {}
    BY DEF Started, SizesKnown, Waiting
  <2>2. kind = "rodata" /\ mapped = Len(regions["rodata"])
    BY <1>0 DEF MapRight
  <2>3. \A k \in Kinds : \A n \in DOMAIN regions[k] : MappingOf(k, n) \subseteq page_map
    <3>1. \A n \in DOMAIN regions["rodata"] : n <= mapped
      BY <1>0, <2>2, TypeFacts DEF Kinds
    <3> QED BY <1>0, <2>2, <3>1 DEF MapRight, Kinds
  <2> QED BY <2>1, <2>3 DEF Taken
<1>2. \A k \in Kinds : PageAligned(regions[k]) /\ Covers(regions[k], IntervalsOf(k))
  BY <1>0, <1>1 DEF RegionsRight
<1>3. ASSUME NEW k \in Kinds, NEW i \in Source(k)
      PROVE  symbols[i].address \in Nat /\ symbols[i].size \in Nat /\ symbols[i].size > 0 /\ i \in Code \cup Rodata
  <2>1. i \in Defined /\ i \in DOMAIN symbols /\ i \in Code \cup Rodata
    BY <1>3 DEF Source, Code, Rodata, Defined
  <2> QED BY <1>0, <2>1, TypeFacts, SymbolAt DEF SizesSet, SizesKnown
<1>4. ASSUME NEW e \in page_map PROVE e.page \in Wanted
  <2>1. PICK k, n :
          /\ k \in Kinds /\ n \in DOMAIN regions[k]
          /\ e.page \in Int /\ e.page \notin args.synthetic /\ e.page % PageSize = 0
          /\ regions[k][n].start <= e.page /\ e.page + PageSize <= regions[k][n].end /\ regions[k][n].end \in Nat
    BY <1>4, EntryFacts
  <2>2. Holds(regions[k][n], e.page)
    BY <2>1 DEF Holds, PageSize
  <2>3. PICK v \in IntervalsOf(k) : v[1] <= e.page /\ e.page < v[2]
    BY <1>2, <2>1, <2>2 DEF Covers
  <2>4. PICK i \in Source(k) : v = Interval(symbols[i])
    BY <2>3 DEF IntervalsOf
  <2>5. e.page \in PagesOf(symbols[i])
    BY <1>3, <2>1, <2>3, <2>4, PagesAreInterval
  <2> QED BY <1>3, <2>1, <2>4, <2>5
<1>5. ASSUME NEW p \in Wanted PROVE \E e \in page_map : e.page = p
  <2>1. PICK i \in Code \cup Rodata : p \in PagesOf(symbols[i])
    BY <1>5
  <2>2. PICK k \in Kinds : i \in Source(k)
    BY <2>1 DEF Kinds, Source
  <2>3. p \in Int /\ p % PageSize = 0 /\ Interval(symbols[i])[1] <= p /\ p < Interval(symbols[i])[2]
    BY <1>3, <2>1, <2>2, PagesAreInterval
  <2>4. Interval(symbols[i]) \in IntervalsOf(k)
    BY <2>2 DEF IntervalsOf
  <2>5. PICK n \in DOMAIN regions[k] : Holds(regions[k][n], p)
    BY <1>2, <2>3, <2>4 DEF Covers
  <2>6. regions[k][n].start \in Nat /\ regions[k][n].end \in Nat
    BY <1>0, <2>5, TypeFacts
  <2>7. regions[k][n].start % PageSize = 0 /\ regions[k][n].end % PageSize = 0
    BY <1>2, <2>5 DEF PageAligned
  <2>8. p \in Pages(regions[k][n])
    <3> DEFINE q == (p - regions[k][n].start) \div PageSize
    <3>1. p = regions[k][n].start + PageSize * q /\ q \in Int
      BY <2>3, <2>6, <2>7, PageDistance
    <3>2. 0 <= q /\ q <= (regions[k][n].end - regions[k][n].start) \div PageSize - 1
      BY <2>3, <2>5, <2>6, <2>7 DEF Holds, PageSize
    <3> HIDE DEF q
    <3>3. q \in 0 .. ((regions[k][n].end - regions[k][n].start) \div PageSize - 1)
      BY <2>6, <3>1, <3>2 DEF PageSize
    <3> QED BY <3>1, <3>3 DEF Pages
  <2>9. p \in Pages(regions[k][n]) \ args.synthetic
    BY <1>5, <2>8
  <2> DEFINE e == [offset |-> placed[k][n].offset + (p - regions[k][n].start), page |-> p, kind |-> k]
  <2>10. e \in MappingOf(k, n) /\ e.page = p
    BY <2>9 DEF MappingOf
  <2> QED BY <1>1, <2>10
<1>6. {e.page : e \in page_map} = Wanted
  BY <1>4, <1>5
<1> QED BY <1>6 DEF MapExact

\* Where the sections of each kind are in the list of all sections.
LEMMA SectionOf ==
  ASSUME LayoutTypeOK, NEW n \in DOMAIN FileSections
  PROVE  LET a == Len(placed["text"])  b == Len(placed["rodata"])  c == Len(placed["rw"]) IN
         /\ n \in 1 .. (a + b + c)
         /\ n <= a => n \in DOMAIN placed["text"] /\ FileSections[n] = placed["text"][n]
         /\ a < n /\ n <= a + b => n - a \in DOMAIN placed["rodata"] /\ FileSections[n] = placed["rodata"][n - a]
         /\ a + b < n => n - (a + b) \in DOMAIN placed["rw"] /\ FileSections[n] = placed["rw"][n - (a + b)]
<1> DEFINE t == placed["text"]
           r == placed["rodata"]
           w == placed["rw"]
<1>1. /\ t \in Seq(PlacedSection) /\ DOMAIN t = 1 .. Len(t) /\ Len(t) \in Nat
      /\ r \in Seq(PlacedSection) /\ DOMAIN r = 1 .. Len(r) /\ Len(r) \in Nat
      /\ w \in Seq(PlacedSection) /\ DOMAIN w = 1 .. Len(w) /\ Len(w) \in Nat
  BY TypeFacts DEF Kinds
<1>2. FileSections = (t \o r) \o w
  BY DEF FileSections
<1> HIDE DEF t, r, w
<1>3. /\ t \o r \in Seq(PlacedSection) /\ Len(t \o r) = Len(t) + Len(r)
      /\ \A i \in 1 .. Len(t) + Len(r) : (t \o r)[i] = IF i <= Len(t) THEN t[i] ELSE r[i - Len(t)]
  BY <1>1, ConcatProperties
<1> DEFINE u == t \o r
<1> HIDE DEF u
<1>4. /\ u \o w \in Seq(PlacedSection) /\ Len(u \o w) = Len(u) + Len(w)
      /\ \A i \in 1 .. Len(u) + Len(w) : (u \o w)[i] = IF i <= Len(u) THEN u[i] ELSE w[i - Len(u)]
  <2>1. u \in Seq(PlacedSection)
    BY <1>3 DEF u
  <2> QED BY <1>1, <2>1, ConcatProperties
<1>5. n \in 1 .. Len(u) + Len(w) /\ FileSections[n] = IF n <= Len(u) THEN u[n] ELSE w[n - Len(u)]
  BY <1>2, <1>4 DEF u
<1>6. Len(u) = Len(t) + Len(r) /\ \A i \in 1 .. Len(t) + Len(r) : u[i] = IF i <= Len(t) THEN t[i] ELSE r[i - Len(t)]
  BY <1>3 DEF u
<1>7. n \in 1 .. (Len(t) + Len(r) + Len(w))
  BY <1>1, <1>5, <1>6
<1>8. n <= Len(t) => n \in DOMAIN t /\ FileSections[n] = t[n]
  BY <1>1, <1>5, <1>6
<1>9. Len(t) < n /\ n <= Len(t) + Len(r) => n - Len(t) \in DOMAIN r /\ FileSections[n] = r[n - Len(t)]
  BY <1>1, <1>5, <1>6
<1>10. Len(t) + Len(r) < n => n - (Len(t) + Len(r)) \in DOMAIN w /\ FileSections[n] = w[n - (Len(t) + Len(r))]
  BY <1>1, <1>5, <1>6
<1> QED BY <1>7, <1>8, <1>9, <1>10 DEF t, r, w

LEMMA FileOrder ==
  ASSUME LayoutTypeOK, InFile, NEW m \in DOMAIN FileSections, NEW n \in DOMAIN FileSections, m < n
  PROVE  FileEnd(FileSections[m]) <= FileSections[n].offset
<1> DEFINE a == Len(placed["text"])
           b == Len(placed["rodata"])
<1>1. a \in Nat /\ b \in Nat /\ m \in Nat /\ n \in Nat
  <2>1. a \in Nat /\ b \in Nat /\ Len(placed["rw"]) \in Nat
    BY TypeFacts DEF Kinds
  <2>2. m \in 1 .. (a + b + Len(placed["rw"])) /\ n \in 1 .. (a + b + Len(placed["rw"]))
    BY SectionOf
  <2> HIDE DEF a, b
  <2> QED BY <2>1, <2>2
<1>2. /\ \A k \in AllKinds : \A i, j \in DOMAIN placed[k] : i < j => FileEnd(placed[k][i]) <= placed[k][j].offset
      /\ \A i \in DOMAIN placed["text"] : \A j \in DOMAIN placed["rodata"] :
           FileEnd(placed["text"][i]) <= placed["rodata"][j].offset
      /\ \A i \in DOMAIN placed["text"] : \A j \in DOMAIN placed["rw"] :
           FileEnd(placed["text"][i]) <= placed["rw"][j].offset
      /\ \A i \in DOMAIN placed["rodata"] : \A j \in DOMAIN placed["rw"] :
           FileEnd(placed["rodata"][i]) <= placed["rw"][j].offset
  BY DEF InFile, AllKinds, Kinds, Later
<1>3. /\ m <= a => m \in DOMAIN placed["text"] /\ FileSections[m] = placed["text"][m]
      /\ a < m /\ m <= a + b => m - a \in DOMAIN placed["rodata"] /\ FileSections[m] = placed["rodata"][m - a]
      /\ a + b < m => m - (a + b) \in DOMAIN placed["rw"] /\ FileSections[m] = placed["rw"][m - (a + b)]
  BY SectionOf
<1>4. /\ n <= a => n \in DOMAIN placed["text"] /\ FileSections[n] = placed["text"][n]
      /\ a < n /\ n <= a + b => n - a \in DOMAIN placed["rodata"] /\ FileSections[n] = placed["rodata"][n - a]
      /\ a + b < n => n - (a + b) \in DOMAIN placed["rw"] /\ FileSections[n] = placed["rw"][n - (a + b)]
  BY SectionOf
<1> HIDE DEF a, b
<1>5. CASE n <= a
  <2>1. m <= a
    BY <1>1, <1>5
  <2> QED BY <1>2, <1>3, <1>4, <1>5, <2>1 DEF AllKinds, Kinds
<1>6. CASE a < n /\ n <= a + b
  <2>1. m <= a \/ (a < m /\ m <= a + b /\ m - a < n - a)
    BY <1>1, <1>6
  <2> QED BY <1>2, <1>3, <1>4, <1>6, <2>1 DEF AllKinds, Kinds
<1>7. CASE a + b < n
  <2>1. m <= a \/ (a < m /\ m <= a + b) \/ (a + b < m /\ m - (a + b) < n - (a + b))
    BY <1>1, <1>7
  <2> QED BY <1>2, <1>3, <1>4, <1>7, <2>1 DEF AllKinds
<1> QED BY <1>1, <1>5, <1>6, <1>7

LEMMA LoadableNow ==
  ASSUME IInv
  PROVE  Loadable
<1> SUFFICES ASSUME Laid PROVE Loadable
  BY DEF Loadable
<1>0. LayoutTypeOK /\ SizesSet /\ RegionsRight /\ PlacedRight /\ MapRight /\ pc \in {"map", "done"}
  BY DEF IInv, Shaped, Laid
<1>1. /\ loads = Loads /\ AllPlaced("text") /\ AllPlaced("rodata") /\ Len(placed["rw"]) = Len(RwNames)
      /\ dynamic_size = 16 * (Needed + (IF HasRela THEN 9 ELSE 6))
  BY <1>0 DEF MapRight
<1>2. InFile /\ RegionsPlaced /\ RwPlaced
  BY <1>0 DEF PlacedRight
<1>3. placed["rw"] # << >> /\ DOMAIN placed["rw"] = 1 .. Len(placed["rw"]) /\ Len(placed["rw"]) \in Nat /\ Len(placed["rw"]) > 0
  BY SMTT(60), <1>0, <1>1, TypeFacts, RwFacts
<1>4. PICK delta \in Int : /\ delta = cursor.addr - cursor.offset /\ delta % PageSize = 0
                           /\ \A n \in DOMAIN placed["rw"] : placed["rw"][n].addr - placed["rw"][n].offset = delta
  <2>1. cursor.addr - cursor.offset \in Int
    BY <1>0, TypeFacts
  <2> QED BY <1>2, <1>3, <2>1 DEF RwPlaced
<1>5. /\ cursor.offset \in Nat /\ cursor.addr \in Int
      /\ \A n \in DOMAIN placed["rw"] : placed["rw"][n].offset \in Nat /\ placed["rw"][n].addr \in Int /\ placed["rw"][n].size \in Nat
  BY <1>0, TypeFacts
<1>6. ASSUME NEW l \in loads PROVE (l.addr - l.offset) % PageSize = 0 /\ l.filesz = l.memsz
  <2>1. CASE l = RwLoad
    <3> DEFINE s == placed["rw"][1]
    <3>1. 1 \in DOMAIN placed["rw"]
      BY <1>3
    <3>2. l.addr = s.addr /\ l.offset = s.offset /\ l.filesz = cursor.offset - s.offset /\ l.memsz = cursor.addr - s.addr
      BY <2>1 DEF RwLoad
    <3>3. s.addr - s.offset = delta /\ s.addr \in Int /\ s.offset \in Nat
      BY <1>4, <1>5, <3>1
    <3> QED BY <1>4, <1>5, <3>2, <3>3
  <2>2. CASE \E k \in Kinds : \E n \in DOMAIN placed[k] : l = Load(k, placed[k][n])
    <3>1. PICK k, n : k \in Kinds /\ n \in DOMAIN placed[k] /\ l = Load(k, placed[k][n])
      BY <2>2
    <3>2. l.addr = placed[k][n].addr /\ l.offset = placed[k][n].offset /\ l.filesz = l.memsz
      BY <3>1 DEF Load
    <3>3. placed[k][n].offset % PageSize = 0 /\ placed[k][n].addr = virtual_address(regions[k][n].start)
      BY <1>2, <3>1 DEF RegionsPlaced
    <3>4. n \in DOMAIN regions[k]
      BY <1>0, <1>1, <3>1, TypeFacts DEF AllPlaced, Kinds
    <3>5. regions[k][n].start % PageSize = 0
      <4>1. Started(k)
        BY <1>0 DEF Started, SizesKnown
      <4>2. PageAligned(regions[k])
        BY <1>0, <3>1, <4>1 DEF RegionsRight
      <4> QED BY <3>4, <4>2 DEF PageAligned
    <3>6. text_min_page % PageSize = 0 /\ text_min_page \in Nat /\ regions[k][n].start \in Nat /\ placed[k][n].offset \in Nat
      BY <1>0, <3>1, <3>4, TypeFacts DEF SizesSet, SizesKnown
    <3>7. virtual_address(regions[k][n].start) % PageSize = 0 /\ virtual_address(regions[k][n].start) \in Int
      BY <3>5, <3>6 DEF virtual_address, TextBase, PageSize
    <3>8. (virtual_address(regions[k][n].start) - placed[k][n].offset) % PageSize = 0
      BY <3>3, <3>6, <3>7 DEF PageSize
    <3> QED BY <3>2, <3>3, <3>8
  <2>3. l = RwLoad \/ \E k \in Kinds : \E n \in DOMAIN placed[k] : l = Load(k, placed[k][n])
    BY <1>1, <1>6 DEF Loads
  <2> QED BY <2>1, <2>2, <2>3
<1>7. \A m, n \in DOMAIN FileSections : m < n => FileSections[m].offset + FileSections[m].size <= FileSections[n].offset
  BY <1>0, <1>2, FileOrder DEF FileEnd
<1>8. ASSUME NEW n \in DOMAIN placed["rw"]
      PROVE  \E l \in loads : /\ l.kind = "rw"
                              /\ placed["rw"][n].addr - l.addr = placed["rw"][n].offset - l.offset
                              /\ placed["rw"][n].offset + placed["rw"][n].size <= l.offset + l.filesz
  <2> DEFINE s == placed["rw"][1]
  <2>1. 1 \in DOMAIN placed["rw"]
    BY <1>3
  <2>2. s.addr - s.offset = delta /\ s.addr \in Int /\ s.offset \in Nat
    BY <1>4, <1>5, <2>1
  <2>3. /\ RwLoad \in loads /\ RwLoad.kind = "rw" /\ RwLoad.addr = s.addr /\ RwLoad.offset = s.offset
        /\ RwLoad.filesz = cursor.offset - s.offset
    BY <1>1 DEF Loads, RwLoad
  <2> HIDE DEF s
  <2>4. placed["rw"][n].addr - RwLoad.addr = placed["rw"][n].offset - RwLoad.offset
    BY <1>4, <1>5, <1>8, <2>2, <2>3
  <2>5. placed["rw"][n].offset + placed["rw"][n].size <= cursor.offset
    BY <1>2, <1>8 DEF InFile, AllKinds, FileEnd
  <2>6. RwLoad.offset + RwLoad.filesz = cursor.offset
    BY <1>5, <2>2, <2>3
  <2> QED BY <2>3, <2>4, <2>5, <2>6
<1>9. dynamic_size <= placed["rw"][Len(placed["rw"])].size
  <2>1. placed["rw"][Len(placed["rw"])].size = RwSize(RwNames[Len(RwNames)])
    BY <1>1, <1>2, <1>3 DEF RwPlaced
  <2>2. RwSize(RwNames[Len(RwNames)]) = 16 * (Needed + 10)
    BY <1>0, RwFacts
  <2> QED BY <1>1, <2>1, <2>2 DEF Needed
<1> QED BY <1>6, <1>7, <1>8, <1>9 DEF Loadable

-----------------------------------------------------------------------------
(* Memory                                                                   *)

MemoryEnds(a) == \A k \in Kinds : \A n \in DOMAIN placed[k] : placed[k][n].addr + placed[k][n].size <= a
PrivateAt(a)  == IF args.based THEN a = PageUp(args.rw_base) ELSE MemoryEnds(a)

\* The private sections start behind all regions, or where the module's data lies.
InMemory ==
  /\ pc = "place" => MemoryEnds(cursor.addr)
  /\ pc = "place_rw" /\ placed["rw"] = << >> => PrivateAt(cursor.addr) /\ cursor.addr % PageSize = 0
  /\ placed["rw"] # << >> => PrivateAt(placed["rw"][1].addr)

\* A symbol that has an address keeps it.
Origin ==
  pc # "idle" =>
    /\ DOMAIN symbols = DOMAIN args.symbols
    /\ \A i \in DOMAIN symbols :
         LET s == symbols[i]  t == args.symbols[i] IN
         /\ s.name = t.name /\ s.defined = t.defined /\ s.func = t.func /\ s.rodata = t.rodata /\ s.exported = t.exported
         /\ IF SizesKnown /\ t.defined THEN s.size = Sized(t) /\ (t.address # 0 => s.address = t.address)
            ELSE s.address = t.address /\ s.size = t.size

LEMMA OriginStep ==
  ASSUME IInv, Origin, [BuilderStep]_lvars
  PROVE  Origin'
<1>0. LayoutTypeOK
  BY DEF IInv, Shaped
<1>1. CASE \E b \in Argument : Construct(b)
  <2>1. PICK b \in Argument : Construct(b)
    BY <1>1
  <2>2. args' = b /\ symbols' = b.symbols /\ pc' = "prepare"
    BY <2>1 DEF Construct
  <2> QED BY <2>2 DEF Origin, SizesKnown
<1>2. CASE prepare_symbol_virtual_addresses
  <2>1. pc = "prepare" /\ pc' = "merge" /\ args' = args /\ symbols' = Prepared
    BY <1>2 DEF prepare_symbol_virtual_addresses
  <2>2. symbols \in Seq(Symbol)
    BY <1>0, TypeFacts
  <2>3. /\ DOMAIN symbols = DOMAIN args.symbols
        /\ \A i \in DOMAIN symbols :
             LET s == symbols[i]  t == args.symbols[i] IN
             /\ s.name = t.name /\ s.defined = t.defined /\ s.func = t.func /\ s.rodata = t.rodata /\ s.exported = t.exported
             /\ s.address = t.address /\ s.size = t.size
    BY <2>1 DEF Origin, SizesKnown
  <2>4. DOMAIN Prepared = DOMAIN symbols
    BY DEF Prepared
  <2>5. ASSUME NEW i \in DOMAIN symbols
        PROVE  LET s == Prepared[i]  t == args.symbols[i] IN
               /\ s.name = t.name /\ s.defined = t.defined /\ s.func = t.func /\ s.rodata = t.rodata /\ s.exported = t.exported
               /\ IF t.defined THEN s.size = Sized(t) /\ (t.address # 0 => s.address = t.address)
                  ELSE s.address = t.address /\ s.size = t.size
    <3>1. symbols[i] \in Symbol
      BY <2>2, SymbolAt
    <3>2. PICK s : s = symbols[i]
      OBVIOUS
    <3>3. Prepared[i] = IF s.defined THEN [s EXCEPT !.size = Sized(s), !.address = Housed(i)] ELSE s
      BY <3>2 DEF Prepared
    <3>4. Sized(s) = Sized(args.symbols[i])
      BY <2>3, <3>2 DEF Sized
    <3>5. s.address # 0 => Housed(i) = s.address
      BY <3>2 DEF Housed
    <3> QED BY <2>3, <3>1, <3>2, <3>3, <3>4, <3>5 DEF Symbol
  <2> QED BY <2>1, <2>3, <2>4, <2>5 DEF Origin, SizesKnown
<1>3. CASE UNCHANGED << args, symbols >> /\ (pc' # "idle" => pc # "idle") /\ (SizesKnown' <=> SizesKnown)
  BY <1>3 DEF Origin
<1>4. CASE \/ MergeInterval \/ EndRegions \/ AssignSections \/ EmitSymbol \/ EndEmit \/ PlaceRegion \/ EndRegionsPlaced
           \/ PlaceRw \/ Finish \/ MapRegion \/ EndMap
  <2>1. /\ pc \in {"merge", "sections", "emit", "place", "place_rw", "finish", "map"} /\ UNCHANGED << args, symbols >>
        /\ pc' \in {"merge", "sections", "emit", "place", "place_rw", "finish", "map", "done", "raised"}
    BY <1>4 DEF MergeInterval, EndRegions, AssignSections, EmitSymbol, EndEmit, PlaceRegion, EndRegionsPlaced,
                PlaceRw, Finish, MapRegion, EndMap
  <2> QED BY SMTT(60), <1>3, <2>1 DEF SizesKnown
<1>5. CASE UNCHANGED lvars
  <2>1. UNCHANGED << args, symbols, pc >>
    BY <1>5 DEF lvars
  <2> QED BY <1>3, <2>1 DEF SizesKnown
<1> QED BY <1>1, <1>2, <1>4, <1>5 DEF BuilderStep, LayoutStep

LEMMA InMemoryStep ==
  ASSUME IInv, InMemory, [BuilderStep]_lvars
  PROVE  InMemory'
<1>0. LayoutTypeOK /\ PlacedRight /\ RegionsRight
  BY DEF IInv, Shaped
<1>1. ASSUME placed["rw"] = << >>, placed' = placed, pc' \notin {"place", "place_rw"} PROVE InMemory'
  BY <1>1 DEF InMemory
<1>2. CASE \E b \in Argument : Construct(b)
  <2>1. pc = "idle" /\ pc' = "prepare" /\ placed' = placed
    BY <1>2 DEF Construct
  <2> QED BY <1>0, <1>1, <2>1 DEF PlacedRight
<1>3. CASE \/ prepare_symbol_virtual_addresses \/ MergeInterval \/ EndRegions \/ AssignSections \/ EmitSymbol
  <2>1. pc \in {"prepare", "merge", "sections", "emit"} /\ pc' \in {"merge", "sections", "emit", "raised"} /\ placed' = placed
    BY <1>3 DEF prepare_symbol_virtual_addresses, MergeInterval, EndRegions, AssignSections, EmitSymbol
  <2> QED BY <1>0, <1>1, <2>1 DEF PlacedRight
<1>4. CASE EndEmit
  <2>1. pc = "emit" /\ pc' = "place" /\ placed' = placed
    BY <1>4 DEF EndEmit
  <2>2. \A k \in Kinds : placed'[k] = << >>
    BY <1>0, <2>1 DEF PlacedRight, Kinds
  <2>3. placed'["rw"] = << >>
    BY <1>0, <2>1 DEF PlacedRight
  <2> QED BY <2>1, <2>2, <2>3 DEF InMemory, MemoryEnds
<1>5. CASE PlaceRegion
  <2>1. PICK r : r = regions[kind][Len(placed[kind]) + 1]
    OBVIOUS
  <2>2. PICK s : s = Section(kind, PageUp(cursor.offset), virtual_address(r.start), r.end - r.start)
    BY SMTT(60)
  <2>3. /\ pc = "place" /\ pc' = "place" /\ Len(placed[kind]) < Len(regions[kind])
        /\ placed' = [placed EXCEPT ![kind] = Append(@, s)] /\ cursor'.addr = Larger(cursor.addr, s.addr + s.size)
        /\ cursor'.offset = s.offset + s.size /\ UNCHANGED << regions, text_min_page >>
    BY <1>5, <2>1, <2>2 DEF PlaceRegion
  <2>4. kind \in Kinds /\ cursor.addr \in Int /\ \A k \in Kinds \cup {"rw"} : placed[k] \in Seq(PlacedSection)
    BY <1>0, TypeFacts
  <2>5. r.start \in Nat /\ r.end \in Nat
    <3>1. Len(placed[kind]) + 1 \in DOMAIN regions[kind]
      BY SMTT(60), <1>0, <2>3, <2>4, TypeFacts
    <3> QED BY <1>0, <2>1, <2>4, <3>1, TypeFacts
  <2>6. s.addr \in Int /\ s.size \in Int
    BY SMTT(60), <1>0, <2>2, <2>5, TypeFacts DEF Section, virtual_address, TextBase
  <2>7. cursor'.addr >= cursor.addr /\ cursor'.addr >= s.addr + s.size /\ cursor'.addr \in Int
    BY <2>3, <2>4, <2>6 DEF Larger
  <2>8. placed'[kind] = Append(placed[kind], s) /\ \A k \in Kinds \cup {"rw"} : k # kind => placed'[k] = placed[k]
    BY <1>0, <2>3, <2>4 DEF LayoutTypeOK
  <2>9. MemoryEnds(cursor.addr)
    BY <2>3 DEF InMemory
  <2>10. ASSUME NEW k \in Kinds, NEW n \in DOMAIN placed'[k] PROVE placed'[k][n].addr + placed'[k][n].size <= cursor'.addr
    <3>1. CASE n \in DOMAIN placed[k] /\ placed'[k][n] = placed[k][n]
      <4>1. placed[k][n].addr \in Int /\ placed[k][n].size \in Nat
        BY <1>0, <3>1, TypeFacts
      <4>2. placed[k][n].addr + placed[k][n].size <= cursor.addr
        BY <2>9, <3>1 DEF MemoryEnds
      <4> QED BY <2>4, <2>7, <3>1, <4>1, <4>2
    <3>2. CASE k = kind /\ placed'[k][n] = s
      BY <2>7, <3>2
    <3>3. CASE k # kind
      BY <2>8, <3>1, <3>3
    <3>4. CASE k = kind
      <4>1. PICK p : p = placed[kind]
        OBVIOUS
      <4>2. p \in Seq(PlacedSection) /\ placed'[kind] = Append(p, s)
        BY <2>4, <2>8, <4>1
      <4>3. n \in DOMAIN Append(p, s)
        BY <3>4, <4>2
      <4>4. (n \in DOMAIN p /\ Append(p, s)[n] = p[n]) \/ Append(p, s)[n] = s
        BY <4>2, <4>3
      <4> QED BY <3>1, <3>2, <3>4, <4>1, <4>2, <4>4
    <3> QED BY <3>3, <3>4
  <2>11. placed'["rw"] = << >>
    BY <1>0, <2>3, <2>4, <2>8 DEF PlacedRight, Kinds
  <2> QED BY <2>3, <2>10, <2>11 DEF InMemory, MemoryEnds
<1>6. CASE EndRegionsPlaced
  <2>1. pc = "place" /\ placed' = placed /\ args' = args
    BY <1>6 DEF EndRegionsPlaced
  <2>2. MemoryEnds(cursor.addr) /\ placed["rw"] = << >> /\ cursor.addr \in Int /\ args.rw_base \in Int
    BY <1>0, <2>1, TypeFacts, ArgumentFacts DEF InMemory, PlacedRight
  <2>3. CASE kind = "text"
    <3>1. pc' = "place" /\ cursor' = cursor
      BY <1>6, <2>1, <2>3 DEF EndRegionsPlaced
    <3> QED BY <2>1, <2>2, <3>1 DEF InMemory, MemoryEnds
  <2>4. CASE kind # "text"
    <3>1. pc' = "place_rw" /\ cursor'.addr = PageUp(IF args.based THEN args.rw_base ELSE cursor.addr)
      BY <1>6, <2>4 DEF EndRegionsPlaced
    <3>2. cursor'.addr \in Int /\ cursor'.addr % PageSize = 0
      BY <2>2, <3>1, PageFacts
    <3>3. CASE args.based
      BY <2>1, <2>2, <3>1, <3>2, <3>3 DEF InMemory, PrivateAt
    <3>4. CASE ~args.based
      <4>1. cursor.addr <= cursor'.addr
        BY <2>2, <3>1, <3>4, PageFacts
      <4>2. ASSUME NEW k \in Kinds, NEW n \in DOMAIN placed[k] PROVE placed[k][n].addr + placed[k][n].size <= cursor'.addr
        <5>1. placed[k][n].addr \in Int /\ placed[k][n].size \in Nat
          BY <1>0, <4>2, TypeFacts
        <5>2. placed[k][n].addr + placed[k][n].size <= cursor.addr
          BY <2>2, <4>2 DEF MemoryEnds
        <5> QED BY <2>2, <3>2, <4>1, <5>1, <5>2
      <4> QED BY <2>1, <2>2, <3>1, <3>2, <3>4, <4>2 DEF InMemory, PrivateAt, MemoryEnds
    <3> QED BY <3>3, <3>4
  <2> QED BY <2>3, <2>4
<1>7. CASE PlaceRw
  <2>1. PICK l : l = Len(placed["rw"]) + 1
    OBVIOUS
  <2>2. PICK s : s = Section(RwNames[l], align(cursor.offset, RwAlign(RwNames[l])), align(cursor.addr, RwAlign(RwNames[l])), RwSize(RwNames[l]))
    OBVIOUS
  <2>3. /\ pc = "place_rw" /\ pc' \in {"place_rw", "finish"} /\ placed' = [placed EXCEPT !["rw"] = Append(@, s)]
        /\ UNCHANGED << args >>
    BY <1>7, <2>1, <2>2 DEF PlaceRw
  <2>4. placed["rw"] \in Seq(PlacedSection)
    BY <1>0, TypeFacts
  <2>5. placed'["rw"] = Append(placed["rw"], s) /\ \A k \in Kinds : placed'[k] = placed[k]
    BY <1>0, <2>3 DEF LayoutTypeOK, Kinds
  <2>6. placed'["rw"] # << >> /\ placed'["rw"][1] = IF placed["rw"] = << >> THEN s ELSE placed["rw"][1]
    <3>1. PICK p : p = placed["rw"]
      OBVIOUS
    <3>2. p \in Seq(PlacedSection) /\ placed'["rw"] = Append(p, s)
      BY <2>4, <2>5, <3>1
    <3>3. Append(p, s) # << >> /\ Append(p, s)[1] = IF p = << >> THEN s ELSE p[1]
      BY <3>2
    <3> QED BY <3>1, <3>2, <3>3
  <2>7. \A a : PrivateAt(a)' <=> PrivateAt(a)
    BY <2>3, <2>5 DEF PrivateAt, MemoryEnds
  <2>8. CASE placed["rw"] # << >>
    <3>1. placed'["rw"][1] = placed["rw"][1] /\ PrivateAt(placed["rw"][1].addr)
      BY <2>6, <2>8 DEF InMemory
    <3>2. PrivateAt(placed["rw"][1].addr)'
      BY <2>3, <2>5, <3>1 DEF PrivateAt, MemoryEnds
    <3> QED BY <2>3, <2>6, <3>2 DEF InMemory
  <2>9. CASE placed["rw"] = << >>
    <3>1. PrivateAt(cursor.addr) /\ cursor.addr % PageSize = 0 /\ cursor.addr \in Int
      BY <1>0, <2>3, <2>9, TypeFacts DEF InMemory
    <3>2. l = 1 /\ RwAlign(RwNames[1]) = 8
      BY <2>1, <2>9 DEF RwNames, RwAlign
    <3>3. s.addr = cursor.addr
      <4>1. align(cursor.addr, 8) = cursor.addr
        BY <3>1 DEF align, PageSize
      <4> QED BY <2>2, <3>2, <4>1 DEF Section
    <3>4. placed'["rw"][1].addr = cursor.addr
      BY <2>6, <2>9, <3>3
    <3>5. PrivateAt(placed["rw"][1].addr)'
      BY <2>3, <2>5, <3>1, <3>4 DEF PrivateAt, MemoryEnds
    <3> QED BY <2>3, <2>6, <3>5 DEF InMemory
  <2> QED BY <2>8, <2>9
<1>8. CASE UNCHANGED << placed, args >> /\ pc' \notin {"place", "place_rw"}
  BY <1>8 DEF InMemory, PrivateAt, MemoryEnds
<1>9. CASE Finish \/ MapRegion \/ EndMap
  <2>1. UNCHANGED << placed, args >> /\ pc \in {"finish", "map"} /\ pc' \in {"map", "done", "raised"}
    BY <1>9 DEF Finish, MapRegion, EndMap
  <2> QED BY <1>8, <2>1
<1>10. CASE UNCHANGED lvars
  <2>1. UNCHANGED << placed, args, pc, cursor >>
    BY <1>10 DEF lvars
  <2> QED BY <2>1 DEF InMemory, PrivateAt, MemoryEnds
<1> QED BY <1>2, <1>3, <1>4, <1>5, <1>6, <1>7, <1>9, <1>10 DEF BuilderStep, LayoutStep

\* No read-only object has a page of synthetic thunks.
DataApart == \A i \in Rodata : PagesOf(symbols[i]) \cap args.synthetic = {}

LEMMA DoneFacts ==
  ASSUME IInv, pc = "done"
  PROVE  /\ LayoutTypeOK /\ loads = Loads /\ InFile /\ RegionsPlaced /\ text_min_page \in Nat /\ text_min_page % PageSize = 0
         /\ \A k \in Kinds : /\ AllPlaced(k) /\ PageAligned(regions[k]) /\ Ascending(regions[k])
                             /\ Covers(regions[k], IntervalsOf(k))
         /\ \A k \in Kinds : \A n \in DOMAIN regions[k] :
              /\ MappingOf(k, n) \subseteq page_map /\ n \in DOMAIN placed[k]
              /\ regions[k][n].start \in Nat /\ regions[k][n].end \in Nat /\ regions[k][n].start < regions[k][n].end
              /\ regions[k][n].start % PageSize = 0 /\ regions[k][n].end % PageSize = 0
              /\ placed[k][n].offset \in Nat /\ placed[k][n].addr = virtual_address(regions[k][n].start)
              /\ placed[k][n].size = regions[k][n].end - regions[k][n].start
         /\ \A e, f \in page_map : (e.offset = f.offset) <=> (e.page = f.page)
         /\ placed["rw"] # << >>
<1>0. LayoutTypeOK /\ SizesSet /\ RegionsRight /\ PlacedRight /\ MapRight
  BY DEF IInv, Shaped
<1>1. \A k \in Kinds : Started(k) /\ Taken(k) = IntervalsOf(k)
  BY DEF Started, SizesKnown, Waiting, Taken
<1>2. \A k \in Kinds : PageAligned(regions[k]) /\ Ascending(regions[k]) /\ Covers(regions[k], IntervalsOf(k))
  BY <1>0, <1>1 DEF RegionsRight
<1>3. loads # {} /\ kind = "rodata" /\ mapped = Len(regions["rodata"])
  BY <1>0 DEF MapRight
<1>4. loads = Loads /\ AllPlaced("text") /\ AllPlaced("rodata") /\ Len(placed["rw"]) = Len(RwNames)
      /\ \A e, f \in page_map : (e.offset = f.offset) <=> (e.page = f.page)
  BY <1>0, <1>3 DEF MapRight
<1>5. \A k \in Kinds : \A n \in DOMAIN regions[k] : MappingOf(k, n) \subseteq page_map
  <2>1. \A n \in DOMAIN regions["rodata"] : n <= mapped
    BY <1>0, <1>3, TypeFacts DEF Kinds
  <2> QED BY <1>0, <1>3, <2>1 DEF MapRight, Kinds
<1>6. \A k \in Kinds : AllPlaced(k)
  BY <1>4 DEF Kinds
<1>7. ASSUME NEW k \in Kinds, NEW n \in DOMAIN regions[k]
      PROVE  /\ n \in DOMAIN placed[k] /\ regions[k][n].start \in Nat /\ regions[k][n].end \in Nat
             /\ placed[k][n].offset \in Nat
  BY <1>0, <1>6, TypeFacts DEF AllPlaced
<1>8. ASSUME NEW k \in Kinds, NEW n \in DOMAIN regions[k]
      PROVE  /\ regions[k][n].start < regions[k][n].end
             /\ regions[k][n].start % PageSize = 0 /\ regions[k][n].end % PageSize = 0
  BY <1>2 DEF PageAligned
<1>9. InFile /\ RegionsPlaced
  BY <1>0 DEF PlacedRight
<1>10. ASSUME NEW k \in Kinds, NEW n \in DOMAIN regions[k]
       PROVE  /\ placed[k][n].addr = virtual_address(regions[k][n].start)
              /\ placed[k][n].size = regions[k][n].end - regions[k][n].start
  BY <1>7, <1>9 DEF RegionsPlaced
<1>11. text_min_page \in Nat /\ text_min_page % PageSize = 0
  BY <1>0, TypeFacts DEF SizesSet, SizesKnown
<1>12. placed["rw"] # << >>
  BY <1>0, <1>4, RwFacts
<1> QED BY <1>0, <1>2, <1>4, <1>5, <1>6, <1>7, <1>8, <1>9, <1>10, <1>11, <1>12

\* A page of a region belongs to a symbol, and is in the map unless it is synthetic.
LEMMA PageOfRegion ==
  ASSUME IInv, pc = "done", NEW k \in Kinds, NEW n \in DOMAIN regions[k], NEW p \in Int, p % PageSize = 0,
         Holds(regions[k][n], p)
  PROVE  /\ \E i \in Source(k) : p \in PagesOf(symbols[i])
         /\ p \notin args.synthetic =>
              \E e \in page_map : e.page = p /\ e.offset = placed[k][n].offset + (p - regions[k][n].start)
<1>1. /\ LayoutTypeOK /\ SizesSet /\ Covers(regions[k], IntervalsOf(k)) /\ MappingOf(k, n) \subseteq page_map
      /\ regions[k][n].start \in Nat /\ regions[k][n].end \in Nat
      /\ regions[k][n].start % PageSize = 0 /\ regions[k][n].end % PageSize = 0
  BY DoneFacts DEF IInv
<1>2. \E i \in Source(k) : p \in PagesOf(symbols[i])
  <2>1. PICK v \in IntervalsOf(k) : v[1] <= p /\ p < v[2]
    BY <1>1 DEF Covers
  <2>2. PICK i \in Source(k) : v = Interval(symbols[i])
    BY <2>1 DEF IntervalsOf
  <2>3. i \in Defined /\ i \in DOMAIN symbols
    BY <2>2 DEF Source, Code, Rodata, Defined
  <2>4. symbols[i].address \in Nat /\ symbols[i].size \in Nat /\ symbols[i].size > 0
    BY <1>1, <2>3, TypeFacts, SymbolAt DEF SizesSet, SizesKnown
  <2> QED BY <2>1, <2>2, <2>4, PagesAreInterval
<1>3. p \in Pages(regions[k][n])
  <2> DEFINE q == (p - regions[k][n].start) \div PageSize
  <2>1. p = regions[k][n].start + PageSize * q /\ q \in Int
    BY <1>1, PageDistance
  <2>2. 0 <= q /\ q <= (regions[k][n].end - regions[k][n].start) \div PageSize - 1
    BY <1>1 DEF Holds, PageSize
  <2> HIDE DEF q
  <2>3. q \in 0 .. ((regions[k][n].end - regions[k][n].start) \div PageSize - 1)
    BY <1>1, <2>1, <2>2 DEF PageSize
  <2> QED BY <2>1, <2>3 DEF Pages
<1>4. ASSUME p \notin args.synthetic
      PROVE  \E e \in page_map : e.page = p /\ e.offset = placed[k][n].offset + (p - regions[k][n].start)
  <2> DEFINE e == [offset |-> placed[k][n].offset + (p - regions[k][n].start), page |-> p, kind |-> k]
  <2>1. e \in MappingOf(k, n)
    BY <1>3, <1>4 DEF MappingOf
  <2>2. e.page = p /\ e.offset = placed[k][n].offset + (p - regions[k][n].start)
    OBVIOUS
  <2> HIDE DEF e
  <2> QED BY <1>1, <2>1, <2>2
<1> QED BY <1>2, <1>4

\* Text and read-only regions share no page: the map would name it twice.
LEMMA KindsApart ==
  ASSUME IInv, pc = "done", DataApart, NEW m \in DOMAIN regions["text"], NEW n \in DOMAIN regions["rodata"]
  PROVE  regions["text"][m].end <= regions["rodata"][n].start \/ regions["rodata"][n].end <= regions["text"][m].start
<1>1. PICK r : r = regions["text"][m]
  OBVIOUS
<1>2. PICK q : q = regions["rodata"][n]
  OBVIOUS
<1>3. /\ r.start \in Nat /\ r.end \in Nat /\ r.start < r.end /\ r.start % PageSize = 0 /\ r.end % PageSize = 0
      /\ placed["text"][m].offset \in Nat /\ placed["text"][m].size = r.end - r.start /\ m \in DOMAIN placed["text"]
  BY <1>1, DoneFacts DEF Kinds
<1>4. /\ q.start \in Nat /\ q.end \in Nat /\ q.start < q.end /\ q.start % PageSize = 0 /\ q.end % PageSize = 0
      /\ placed["rodata"][n].offset \in Nat /\ n \in DOMAIN placed["rodata"]
  BY <1>2, DoneFacts DEF Kinds
<1> SUFFICES ASSUME q.start < r.end, r.start < q.end PROVE FALSE
  BY <1>1, <1>2, <1>3, <1>4
<1>5. PICK p \in Int : p % PageSize = 0 /\ Holds(r, p) /\ Holds(q, p)
  <2>1. CASE r.start <= q.start
    BY <1>3, <1>4, <2>1 DEF Holds
  <2>2. CASE q.start <= r.start
    BY <1>3, <1>4, <2>2 DEF Holds
  <2> QED BY <1>3, <1>4, <2>1, <2>2
<1>6. PICK i \in Rodata : p \in PagesOf(symbols[i])
  BY <1>2, <1>5, PageOfRegion DEF Kinds, Source
<1>7. p \notin args.synthetic
  BY <1>6 DEF DataApart
<1>8. PICK e \in page_map : e.page = p /\ e.offset = placed["text"][m].offset + (p - r.start)
  BY <1>1, <1>5, <1>7, PageOfRegion DEF Kinds
<1>9. PICK f \in page_map : f.page = p /\ f.offset = placed["rodata"][n].offset + (p - q.start)
  BY <1>2, <1>5, <1>7, PageOfRegion DEF Kinds
<1>10. e.offset = f.offset
  BY <1>8, <1>9, DoneFacts
<1>11. placed["text"][m].offset + placed["text"][m].size <= placed["rodata"][n].offset
  BY <1>3, <1>4, DoneFacts DEF InFile, AllKinds, Kinds, Later, FileEnd
<1>12. p < r.end /\ q.start <= p
  BY <1>5 DEF Holds
<1> QED BY <1>3, <1>4, <1>8, <1>9, <1>10, <1>11, <1>12

\* A region ends before the private sections.
LEMMA PrivateBehind ==
  ASSUME IInv, InMemory, pc = "done", args.based => ~SomethingBehind, NEW k \in Kinds, NEW n \in DOMAIN regions[k]
  PROVE  placed[k][n].addr + placed[k][n].size <= placed["rw"][1].addr
<1>1. PICK r : r = regions[k][n]
  OBVIOUS
<1>2. /\ LayoutTypeOK /\ n \in DOMAIN placed[k] /\ r.start \in Nat /\ r.end \in Nat /\ r.start < r.end
      /\ r.start % PageSize = 0 /\ r.end % PageSize = 0
      /\ placed[k][n].addr = virtual_address(r.start) /\ placed[k][n].size = r.end - r.start
      /\ text_min_page \in Nat /\ text_min_page % PageSize = 0 /\ placed["rw"] # << >> /\ Covers(regions[k], IntervalsOf(k))
  BY <1>1, DoneFacts
<1>3. PrivateAt(placed["rw"][1].addr)
  BY <1>2 DEF InMemory
<1>4. CASE ~args.based
  BY <1>2, <1>3, <1>4 DEF PrivateAt, MemoryEnds
<1>5. CASE args.based
  <2>1. placed["rw"][1].addr = PageUp(args.rw_base) /\ args.rw_base \in Int
    BY <1>2, <1>3, <1>5, TypeFacts, ArgumentFacts DEF PrivateAt
  <2>2. PICK p \in Int : p = r.end - PageSize /\ p % PageSize = 0 /\ Holds(r, p)
    <3>1. \A a, b \in Nat : a < b /\ a % PageSize = 0 /\ b % PageSize = 0 =>
            b - PageSize \in Int /\ (b - PageSize) % PageSize = 0 /\ a <= b - PageSize /\ b - PageSize < b
      BY DEF PageSize
    <3>2. r.end - PageSize \in Int /\ (r.end - PageSize) % PageSize = 0 /\ r.start <= r.end - PageSize /\ r.end - PageSize < r.end
      BY <1>2, <3>1
    <3> QED BY <3>2 DEF Holds
  <2>3. PICK i \in Source(k) : p \in PagesOf(symbols[i])
    BY <1>1, <2>2, PageOfRegion
  <2>4. i \in Code \cup Rodata /\ i \in Defined /\ i \in DOMAIN symbols
    BY <2>3 DEF Source, Code, Rodata, Defined
  <2>5. symbols[i].address \in Nat /\ symbols[i].size \in Nat /\ symbols[i].size > 0
    BY <1>2, <2>4, TypeFacts, SymbolAt DEF IInv, SizesSet, SizesKnown
  <2>6. PICK e : e = symbols[i].address + symbols[i].size
    OBVIOUS
  <2>7. e \in Nat /\ p < e
    <3>1. e \in Nat /\ p < PageUp(e)
      BY <2>3, <2>5, <2>6, PagesAreInterval DEF Interval
    <3>2. PageUp(e) \in Int /\ PageUp(e) % PageSize = 0 /\ PageUp(e) < e + PageSize
      BY <3>1, PageFacts
    <3>3. \A a, b, c \in Int : a % PageSize = 0 /\ b % PageSize = 0 /\ a < b /\ b < c + PageSize => a < c
      BY DEF PageSize
    <3> QED BY <2>2, <3>1, <3>2, <3>3
  <2>8. ~(virtual_address(e) > args.rw_base)
    BY <1>5, <2>4, <2>6 DEF SomethingBehind
  <2>9. virtual_address(e) <= args.rw_base /\ virtual_address(r.end) < virtual_address(e) + PageSize
        /\ virtual_address(r.end) \in Int /\ virtual_address(r.end) % PageSize = 0 /\ virtual_address(e) \in Int
    <3>1. virtual_address(e) \in Int /\ virtual_address(r.end) \in Int
      BY <1>2, <2>7 DEF virtual_address, TextBase
    <3>2. virtual_address(e) <= args.rw_base
      BY <2>1, <2>8, <3>1
    <3>3. \A a, b, c, t \in Int : a = b - PageSize /\ a < c => TextBase + (b - t) < TextBase + (c - t) + PageSize
      BY DEF PageSize, TextBase
    <3>4. \A b, t \in Int : b % PageSize = 0 /\ t % PageSize = 0 => (TextBase + (b - t)) % PageSize = 0
      BY DEF PageSize, TextBase
    <3>5. r.end \in Int /\ e \in Int /\ text_min_page \in Int
      BY <1>2, <2>7
    <3>6. virtual_address(r.end) < virtual_address(e) + PageSize
      BY <2>2, <2>7, <3>3, <3>5 DEF virtual_address
    <3>7. virtual_address(r.end) % PageSize = 0
      BY <1>2, <3>4, <3>5 DEF virtual_address
    <3> QED BY <3>1, <3>2, <3>6, <3>7
  <2>10. virtual_address(r.end) < args.rw_base + PageSize
    BY <2>1, <2>9 DEF PageSize
  <2>11. virtual_address(r.end) <= PageUp(args.rw_base)
    <3>1. PageUp(args.rw_base) \in Int /\ PageUp(args.rw_base) % PageSize = 0 /\ args.rw_base <= PageUp(args.rw_base)
      BY <2>1, PageFacts
    <3>2. \A a, b, c \in Int : a % PageSize = 0 /\ b % PageSize = 0 /\ a < c + PageSize /\ c <= b => a <= b
      BY DEF PageSize
    <3> QED BY <2>1, <2>9, <2>10, <3>1, <3>2
  <2> QED BY <1>2, <2>1, <2>11 DEF virtual_address, TextBase
<1> QED BY <1>4, <1>5

LEMMA ApartNow ==
  ASSUME IInv, InMemory, DataApart
  PROVE  ApartInMemory
<1> SUFFICES ASSUME pc = "done", args.based => ~SomethingBehind, NEW l \in loads, NEW m \in loads, l # m
             PROVE  l.addr + l.memsz <= m.addr \/ m.addr + m.memsz <= l.addr
  BY DEF ApartInMemory
<1> DEFINE Of(x, k, n) == n \in DOMAIN placed[k] /\ x = Load(k, placed[k][n])
<1>1. \A x \in loads : x = RwLoad \/ \E k \in Kinds : \E n \in DOMAIN placed[k] : x = Load(k, placed[k][n])
  BY DoneFacts DEF Loads
<1>2. ASSUME NEW k \in Kinds, NEW n \in DOMAIN placed[k], NEW x, x = Load(k, placed[k][n])
      PROVE  /\ n \in DOMAIN regions[k] /\ regions[k][n].start \in Nat /\ regions[k][n].end \in Nat
             /\ x.addr = virtual_address(regions[k][n].start) /\ x.addr + x.memsz = virtual_address(regions[k][n].end)
             /\ x.addr + x.memsz <= RwLoad.addr
  <2>1. n \in DOMAIN regions[k]
    BY <1>2, DoneFacts, TypeFacts DEF AllPlaced
  <2>2. /\ regions[k][n].start \in Nat /\ regions[k][n].end \in Nat /\ text_min_page \in Nat
        /\ placed[k][n].addr = virtual_address(regions[k][n].start)
        /\ placed[k][n].size = regions[k][n].end - regions[k][n].start
    BY <2>1, DoneFacts
  <2>3. x.addr = placed[k][n].addr /\ x.memsz = placed[k][n].size
    BY <1>2 DEF Load
  <2>4. x.addr + x.memsz = virtual_address(regions[k][n].end)
    BY <2>2, <2>3 DEF virtual_address, TextBase
  <2>5. RwLoad.addr = placed["rw"][1].addr
    BY DEF RwLoad
  <2> QED BY <2>1, <2>2, <2>3, <2>4, <2>5, PrivateBehind
<1>3. \A a, b \in Nat : a <= b => virtual_address(a) <= virtual_address(b)
  BY DoneFacts DEF virtual_address, TextBase
<1>4. ASSUME NEW k \in Kinds, NEW n \in DOMAIN placed[k], NEW i \in Kinds, NEW j \in DOMAIN placed[i], k # i \/ n # j
      PROVE  regions[k][n].end <= regions[i][j].start \/ regions[i][j].end <= regions[k][n].start
  <2>1. n \in DOMAIN regions[k] /\ j \in DOMAIN regions[i]
    BY <1>2
  <2>2. CASE k # i
    BY <2>1, <2>2, KindsApart DEF Kinds
  <2>3. CASE k = i
    <3>1. n \in Nat /\ j \in Nat
      <4>1. LayoutTypeOK
        BY DoneFacts
      <4>2. DOMAIN regions[k] = 1 .. Len(regions[k]) /\ DOMAIN regions[i] = 1 .. Len(regions[i])
        BY <4>1, TypeFacts
      <4> QED BY <2>1, <4>2
    <3>2. regions[k][n].end < regions[k][j].start \/ regions[k][j].end < regions[k][n].start
      BY <1>4, <2>1, <2>3, <3>1, DoneFacts DEF Ascending
    <3>3. /\ regions[k][n].start \in Nat /\ regions[k][n].end \in Nat
          /\ regions[k][j].start \in Nat /\ regions[k][j].end \in Nat
      BY <2>1, <2>3, DoneFacts
    <3> QED BY <2>3, <3>2, <3>3
  <2> QED BY <2>2, <2>3
<1>5. CASE l = RwLoad
  BY <1>1, <1>2, <1>5
<1>6. CASE m = RwLoad
  BY <1>1, <1>2, <1>6
<1>7. CASE l # RwLoad /\ m # RwLoad
  <2>1. PICK k \in Kinds : \E n \in DOMAIN placed[k] : l = Load(k, placed[k][n])
    BY <1>1, <1>7
  <2>2. PICK n \in DOMAIN placed[k] : l = Load(k, placed[k][n])
    BY <2>1
  <2>3. PICK i \in Kinds : \E j \in DOMAIN placed[i] : m = Load(i, placed[i][j])
    BY <1>1, <1>7
  <2>4. PICK j \in DOMAIN placed[i] : m = Load(i, placed[i][j])
    BY <2>3
  <2>5. k # i \/ n # j
    BY <2>2, <2>4
  <2>6. /\ l.addr = virtual_address(regions[k][n].start) /\ l.addr + l.memsz = virtual_address(regions[k][n].end)
        /\ regions[k][n].start \in Nat /\ regions[k][n].end \in Nat
    BY <1>2, <2>2
  <2>7. /\ m.addr = virtual_address(regions[i][j].start) /\ m.addr + m.memsz = virtual_address(regions[i][j].end)
        /\ regions[i][j].start \in Nat /\ regions[i][j].end \in Nat
    BY <1>2, <2>4
  <2>8. regions[k][n].end <= regions[i][j].start \/ regions[i][j].end <= regions[k][n].start
    BY <1>4, <2>5
  <2> QED BY <1>3, <2>6, <2>7, <2>8
<1> QED BY <1>5, <1>6, <1>7

\* Read-only objects have addresses, and none lies on a page of synthetic thunks.
DataOffThunks(b) ==
  \A i \in DOMAIN b.symbols :
    LET s == b.symbols[i] IN
    s.defined /\ ~s.func /\ s.rodata => s.address # 0 /\ PagesOf([s EXCEPT !.size = Sized(s)]) \cap b.synthetic = {}

LEMMA DataStaysApart ==
  ASSUME IInv, Origin, pc = "done", DataOffThunks(args)
  PROVE  DataApart
<1> SUFFICES ASSUME NEW i \in Rodata PROVE PagesOf(symbols[i]) \cap args.synthetic = {}
  BY DEF DataApart
<1>1. PICK t : t = args.symbols[i]
  OBVIOUS
<1>2. i \in DOMAIN symbols /\ symbols[i].defined /\ ~symbols[i].func /\ symbols[i].rodata
  BY DEF Rodata, Defined
<1>3. /\ i \in DOMAIN args.symbols /\ t.defined /\ ~t.func /\ t.rodata /\ symbols[i].size = Sized(t)
      /\ t.address # 0 => symbols[i].address = t.address
  BY <1>1, <1>2 DEF Origin, SizesKnown
<1>4. t.address # 0 /\ PagesOf([t EXCEPT !.size = Sized(t)]) \cap args.synthetic = {}
  BY <1>1, <1>3 DEF DataOffThunks
<1>5. t \in Symbol
  <2>1. args \in Argument
    BY TypeFacts DEF IInv, Shaped
  <2> QED BY <1>1, <1>3, <2>1, ArgumentFacts, SymbolAt
<1>6. [t EXCEPT !.size = Sized(t)].address = t.address /\ [t EXCEPT !.size = Sized(t)].size = Sized(t)
  BY <1>5 DEF Symbol
<1>7. PagesOf(symbols[i]) = PagesOf([t EXCEPT !.size = Sized(t)])
  BY <1>3, <1>4, <1>6 DEF PagesOf
<1> QED BY <1>4, <1>7

-----------------------------------------------------------------------------
(* Relocations *)

\* Every dynamic symbol is listed or yet to be, and the entries of .rela.dyn are
\* those of the arguments, at the place of .data.
SlotTables ==
  /\ pc # "idle" =>
       \A i \in DynamicSymbols(args) : i \in unsorted \/ \E d \in DOMAIN dynamic_symbols : dynamic_symbols[d] = i
  /\ pc \in {"place", "place_rw", "finish", "map", "done"} => unsorted = {}
  /\ Laid => rela = RelaEntries
  /\ SizesKnown => text_min_page = TextMinPage(symbols)

LEMMA SlotTablesStep ==
  ASSUME IInv, SlotTables, [BuilderStep]_lvars
  PROVE  SlotTables'
<1>0. LayoutTypeOK
  BY DEF IInv, Shaped
<1>1. CASE \E b \in Argument : Construct(b)
  <2>1. PICK b \in Argument : Construct(b)
    BY <1>1
  <2>2. pc' = "prepare" /\ args' = b /\ unsorted' = DynamicSymbols(b)
    BY <2>1 DEF Construct
  <2> QED BY <2>2 DEF SlotTables, SizesKnown, Laid
<1>2. CASE prepare_symbol_virtual_addresses
  <2>1. /\ pc = "prepare" /\ pc' = "merge" /\ symbols' = Prepared /\ text_min_page' = TextMinPage(Prepared)
        /\ UNCHANGED << args, unsorted, dynamic_symbols >>
    BY <1>2 DEF prepare_symbol_virtual_addresses
  <2>2. TextMinPage(symbols)' = TextMinPage(Prepared)
    <3>1. DOMAIN Prepared = DOMAIN symbols
      BY DEF Prepared
    <3>2. ASSUME NEW i \in DOMAIN symbols
          PROVE  Prepared[i].defined = symbols[i].defined /\ Prepared[i].func = symbols[i].func
      <4>1. symbols[i] \in Symbol
        BY <1>0, TypeFacts, SymbolAt
      <4> PICK s : s = symbols[i]
        OBVIOUS
      <4>2. Prepared[i] = IF s.defined THEN [s EXCEPT !.size = Sized(s), !.address = Housed(i)] ELSE s
        BY DEF Prepared
      <4> QED BY <4>1, <4>2 DEF Symbol
    <3>3. Defined' = Defined
      BY <2>1, <3>1, <3>2 DEF Defined
    <3>4. Code' = Code
      BY <2>1, <3>1, <3>2, <3>3 DEF Code, Defined
    <3> QED BY <2>1, <3>3, <3>4 DEF TextMinPage
  <2>3. \A i \in DynamicSymbols(args)' : i \in unsorted' \/ \E d \in DOMAIN dynamic_symbols' : dynamic_symbols'[d] = i
    BY <2>1 DEF SlotTables, DynamicSymbols
  <2> QED BY <2>1, <2>2, <2>3 DEF SlotTables, Laid
<1>3. ASSUME UNCHANGED << args, symbols, text_min_page, unsorted, dynamic_symbols >>, pc # "idle" \/ pc' = pc,
             SizesKnown' => SizesKnown,
             pc' \in {"place", "place_rw", "finish", "map", "done"} =>
               unsorted = {} \/ pc \in {"place", "place_rw", "finish", "map", "done"},
             Laid' => rela' = RelaEntries'
      PROVE  SlotTables'
  BY <1>3 DEF SlotTables, TextMinPage, Code, Defined
<1>4. CASE MergeInterval \/ EndRegions \/ AssignSections \/ PlaceRegion \/ EndRegionsPlaced \/ PlaceRw
  <2>1. /\ UNCHANGED << args, symbols, text_min_page, unsorted, dynamic_symbols >>
        /\ pc \in {"merge", "sections", "place", "place_rw"}
        /\ pc' \in {"merge", "sections", "emit", "raised", "place", "place_rw", "finish"}
        /\ pc' \in {"place", "place_rw", "finish"} => pc \in {"place", "place_rw"}
    BY <1>4 DEF MergeInterval, EndRegions, AssignSections, PlaceRegion, EndRegionsPlaced, PlaceRw
  <2> QED BY <1>3, <2>1 DEF SizesKnown, Laid
<1>5. CASE EmitSymbol
  <2>1. PICK i \in unsorted : unsorted' = unsorted \ {i} /\ dynamic_symbols' = Append(dynamic_symbols, i)
    BY <1>5 DEF EmitSymbol
  <2>2. pc = "emit" /\ pc' = "emit" /\ UNCHANGED << args, symbols, text_min_page >>
    BY <1>5 DEF EmitSymbol
  <2>3. dynamic_symbols \in Seq(DOMAIN symbols) /\ i \in DOMAIN symbols
    BY <1>0, <2>1 DEF LayoutTypeOK
  <2>4. /\ Len(dynamic_symbols) + 1 \in DOMAIN dynamic_symbols' /\ dynamic_symbols'[Len(dynamic_symbols) + 1] = i
        /\ \A d \in DOMAIN dynamic_symbols : d \in DOMAIN dynamic_symbols' /\ dynamic_symbols'[d] = dynamic_symbols[d]
    BY <2>1, <2>3, AppendFacts
  <2>5. ASSUME NEW j \in DynamicSymbols(args)
        PROVE  j \in unsorted' \/ \E d \in DOMAIN dynamic_symbols' : dynamic_symbols'[d] = j
    <3>1. j \in unsorted \/ \E d \in DOMAIN dynamic_symbols : dynamic_symbols[d] = j
      BY <2>2 DEF SlotTables
    <3> QED BY <2>1, <2>4, <3>1
  <2>6. DynamicSymbols(args)' = DynamicSymbols(args) /\ TextMinPage(symbols)' = TextMinPage(symbols)
    BY <2>2 DEF DynamicSymbols, TextMinPage, Code, Defined
  <2> QED BY <2>2, <2>5, <2>6 DEF SlotTables, SizesKnown, Laid
<1>6. CASE EndEmit
  <2>1. pc = "emit" /\ unsorted = {} /\ pc' = "place"
        /\ UNCHANGED << args, symbols, text_min_page, unsorted, dynamic_symbols >>
    BY <1>6 DEF EndEmit
  <2> QED BY <1>3, <2>1 DEF SizesKnown, Laid
<1>7. CASE Finish
  <2>1. /\ pc = "finish" /\ pc' \in {"raised", "map"} /\ rela' = RelaEntries
        /\ UNCHANGED << args, symbols, text_min_page, unsorted, dynamic_symbols, placed >>
    BY <1>7 DEF Finish
  <2>2. RelaEntries' = RelaEntries
    BY <2>1 DEF RelaEntries, DynIndex
  <2> QED BY <1>3, <2>1, <2>2 DEF SizesKnown
<1>8. CASE MapRegion \/ EndMap \/ UNCHANGED lvars
  <2>1. /\ pc' = pc \/ (pc = "map" /\ pc' \in {"map", "done", "raised"})
        /\ UNCHANGED << args, symbols, text_min_page, unsorted, dynamic_symbols, placed, rela >>
    BY <1>8 DEF MapRegion, EndMap, lvars
  <2>2. RelaEntries' = RelaEntries
    BY <2>1 DEF RelaEntries, DynIndex
  <2>3. Laid' => Laid
    BY <2>1 DEF Laid
  <2>4. Laid => rela = RelaEntries
    BY DEF SlotTables
  <2> QED BY <1>3, <2>1, <2>2, <2>3, <2>4 DEF SizesKnown
<1> QED BY <1>1, <1>2, <1>4, <1>5, <1>6, <1>7, <1>8 DEF BuilderStep, LayoutStep

\* The symbol that an entry of .rela.dyn names by its index.
LEMMA EntryNames ==
  ASSUME IInv, SlotTables, Origin, Laid, NEW r \in DOMAIN args.relocations,
         args.relocations[r].symbol \in DOMAIN args.symbols
  PROVE  /\ r \in DOMAIN rela /\ rela[r].offset = placed["rw"][1].addr + args.relocations[r].offset
         /\ rela[r].addend = args.relocations[r].addend
         /\ dynamic_symbols[rela[r].index] = args.relocations[r].symbol
<1> DEFINE i == args.relocations[r].symbol
<1>1. i \in DynamicSymbols(args)
  BY DEF DynamicSymbols
<1>2. \E d \in DOMAIN dynamic_symbols : dynamic_symbols[d] = i
  <2> HIDE DEF i
  <2> QED BY <1>1 DEF SlotTables, Laid
<1>3. dynamic_symbols[DynIndex(i)] = i
  <2> HIDE DEF i
  <2> QED BY <1>2 DEF DynIndex
<1>4. rela = RelaEntries
  BY DEF SlotTables
<1> QED BY <1>3, <1>4 DEF RelaEntries

-----------------------------------------------------------------------------
(* The theorems *)

LEMMA IInvStep == IInv /\ [BuilderStep]_lvars => IInv'
<1> SUFFICES ASSUME IInv, [BuilderStep]_lvars PROVE IInv'
  OBVIOUS
<1>1. CASE BuilderStep
  BY <1>1, ShapedStep, SizesStep, RegionsStep, HashStep, PlacedStep, MapStep DEF IInv
<1>2. CASE UNCHANGED lvars
  <2>1. UNCHANGED << pc, kind, args, symbols, text_min_page, intervals, regions, unsorted, dynamic_symbols, gnu_nbuckets,
                     gnu_bloom_size, dynstr, gnu, placed, cursor, rela, dynamic_size, loads, page_map, mapped >>
    BY <1>2 DEF lvars
  <2>2. Shaped'
    <3>1. LayoutTypeOK /\ gnu = [buckets |-> gnu.buckets, chains |-> gnu.chains, bloom |-> gnu.bloom]
          /\ dynstr = [offsets |-> dynstr.offsets, size |-> dynstr.size]
      BY DEF IInv, Shaped
    <3>2. LayoutTypeOK'
      BY <2>1, <3>1 DEF LayoutTypeOK
    <3> QED BY <2>1, <3>1, <3>2 DEF Shaped
  <2>3. SizesSet'
    BY <2>1 DEF IInv, SizesSet, SizesKnown, Defined
  <2>4. RegionsRight'
    <3>1. Code' = Code /\ Rodata' = Rodata /\ SizesKnown' = SizesKnown
      BY <2>1 DEF Code, Rodata, Defined, SizesKnown
    <3>2. ASSUME NEW k
          PROVE  Started(k)' = Started(k) /\ Waiting(k)' = Waiting(k) /\ IntervalsOf(k)' = IntervalsOf(k)
      BY <2>1, <3>1 DEF Started, Waiting, IntervalsOf, Source
    <3>3. \A k : Taken(k)' = Taken(k)
      BY <3>2 DEF Taken
    <3>4. RegionsRight
      BY DEF IInv
    <3> QED BY <2>1, <3>2, <3>3, <3>4 DEF RegionsRight
  <2>5. HashRight'
    <3>1. /\ \A i : HashOf(i)' = HashOf(i) /\ Bucket(i)' = Bucket(i)
          /\ \A h : BloomBits(h)' = BloomBits(h)
      BY <2>1 DEF Bucket, HashOf, BloomBits
    <3>2. \A d : DynBucket(d)' = DynBucket(d)
      BY <2>1, <3>1 DEF DynBucket
    <3>3. Chained => Chained'
      BY <2>1, <3>1, <3>2 DEF Chained
    <3>4. Bucketed => Bucketed'
      BY <2>1, <3>2 DEF Bucketed
    <3> QED BY <2>1, <3>3, <3>4 DEF IInv, HashRight, Emitting
  <2>6. PlacedRight'
    BY <2>1 DEF IInv, PlacedRight, InFile, RegionsPlaced, RwPlaced, AllPlaced, virtual_address, RwNames, RwSize,
                HasRela, DynCount, GnuSize, Needed
  <2>7. MapRight'
    BY <2>1 DEF IInv, MapRight, Loads, RwLoad, Load, AllPlaced, RwNames, HasRela, Needed, MappingOf
  <2> QED BY <2>2, <2>3, <2>4, <2>5, <2>6, <2>7 DEF IInv
<1> QED BY <1>1, <1>2

LEMMA InvAlways == LayoutSpec => []IInv
<1>1. LayoutNext => BuilderStep
  BY LayoutArguments DEF LayoutNext, BuilderStep
<1> QED BY <1>1, InitInv, IInvStep, PTL DEF LayoutSpec

\* All variables keep their types, and no library is finished without a page map.
THEOREM TypesHold == LayoutSpec => []LayoutTypeOK
<1>1. IInv => LayoutTypeOK
  BY DEF IInv, Shaped
<1> QED BY <1>1, InvAlways, PTL

\* Every page of the map lies in the file and in memory where the kernel's page
\* lies, and is named once: for any symbols, addresses and relocations.
THEOREM MapIsFaithful == LayoutSpec => []MapFaithful
  BY MapFaithfulNow, InvAlways, PTL

\* A finished library maps exactly the pages of its functions and read-only objects.
THEOREM MapIsExact == LayoutSpec => []MapExact
  BY MapExactNow, InvAlways, PTL

\* If the dynamic linker takes the table, which needs a number of words that is a
\* power of two, it finds every dynamic symbol in it, and no chain runs out of the
\* table: for any hash function, any size of the words and any set of symbols.
THEOREM LookupsSucceed == LayoutSpec => []HashLookup
  BY HashRightSuffices, InvAlways, PTL

\* The file can be mapped and nothing in it overlaps.
THEOREM FileIsLoadable == LayoutSpec => []Loadable
  BY LoadableNow, InvAlways, PTL

\* The segments of a finished library do not overlap in memory: if no read-only
\* object shares a page with synthetic thunks, which build_builtin_thunk_pages
\* sees only for the page on which the object starts.
THEOREM SegmentsApart ==
  ASSUME \A b \in Builders : DataOffThunks(b)
  PROVE  LayoutSpec => []ApartInMemory
<1> DEFINE Called == pc # "idle" => args \in Builders
           Inv == IInv /\ Origin /\ InMemory /\ Called
<1>1. LayoutInit => Inv
  BY InitInv DEF LayoutInit, Origin, InMemory, AllKinds, Kinds
<1>2. Inv /\ [LayoutNext]_lvars => Inv'
  <2> SUFFICES ASSUME Inv, [LayoutNext]_lvars PROVE Inv'
    OBVIOUS
  <2>1. [BuilderStep]_lvars
    BY LayoutArguments DEF LayoutNext, BuilderStep
  <2>2. IInv' /\ Origin' /\ InMemory'
    BY <2>1, IInvStep, OriginStep, InMemoryStep
  <2>3. Called'
    <3>1. CASE \E b \in Builders : Construct(b)
      BY <3>1 DEF Construct
    <3>2. CASE LayoutStep
      <4>1. pc # "idle" /\ args' = args
        BY <3>2 DEF LayoutStep, prepare_symbol_virtual_addresses, MergeInterval, EndRegions, AssignSections, EmitSymbol,
                    EndEmit, PlaceRegion, EndRegionsPlaced, PlaceRw, Finish, MapRegion, EndMap
      <4> QED BY SMTT(60), <4>1
    <3>3. CASE UNCHANGED lvars
      <4>1. pc' = pc /\ args' = args
        BY <3>3 DEF lvars
      <4> QED BY <4>1
    <3> QED BY <3>1, <3>2, <3>3 DEF LayoutNext
  <2> QED BY <2>2, <2>3
<1>3. Inv => ApartInMemory
  <2> SUFFICES ASSUME Inv, pc = "done" PROVE ApartInMemory
    BY DEF ApartInMemory
  <2> QED BY DataStaysApart, ApartNow
<1> QED BY <1>1, <1>2, <1>3, PTL DEF LayoutSpec
=============================================================================
