------------------------------ MODULE DsoLayout ------------------------------
(***************************************************************************)
(* ManualElfBuilder of make_dll/build_PIC_so.py: from the resolved symbols  *)
(* to the sparse shared object and its page map.  Kernel code and read-only *)
(* data keep their distances in memory but lie packed in the file; the page *)
(* map says which page of the file stands for which page of the kernel.     *)
(*                                                                         *)
(* write() runs the steps below in this order, one loop turn per action.    *)
(* Bytes are counted, not written: a section is its place and its size, a   *)
(* page of synthetic thunks is its address.  Names are compared and hashed; *)
(* gnu_hash is the constant Hash, and WordBits is a constant so that a few  *)
(* symbols fill several words of the filter.                               *)
(***************************************************************************)
EXTENDS Integers, Sequences, FiniteSets, FiniteSetsExt

CONSTANTS
  Names,      \* symbol names
  LIB_SHIM,   \* the only library a DSO may need
  Hash,       \* gnu_hash: of each name a number
  NameBytes,  \* length of each name or library in a string table, with its NUL
  WordBits,   \* bits of a word of the Bloom filter: 64
  Builders    \* what the builder is called with

PageSize       == 4096  \* PAGE_SIZE
TextBase       == 4096  \* TEXT_BASE_VADDR and TEXT_BASE_OFFSET
ExportStubSize == 16    \* DEFAULT_EXPORT_STUB_SIZE

align_down(v) == (v \div PageSize) * PageSize
align(v, a)   == ((v + a - 1) \div a) * a
PageUp(v)     == align(v, PageSize)
Larger(a, b)  == IF a > b THEN a ELSE b

\* func: st_type is STT_FUNC; rodata: reuse_kind is "rodata" or the name starts with .rodata.
Symbol == [name : Names, defined : BOOLEAN, exported : BOOLEAN, func : BOOLEAN, rodata : BOOLEAN,
           address : Nat, size : Nat, export_order : Nat, original_order : Nat]
DataRelocation == [offset : Nat, symbol : Nat, addend : Int]
Argument == [symbols : Seq(Symbol), shim : BOOLEAN, data : Nat, relocations : Seq(DataRelocation),
             based : BOOLEAN, rw_base : Int, synthetic : SUBSET Nat]

ASSUME LayoutConstants ==
  /\ LIB_SHIM \notin Names /\ WordBits \in Nat \ {0}
  /\ Hash \in [Names -> Nat] /\ NameBytes \in [Names \cup {LIB_SHIM} -> Nat \ {0}]

\* Symbols are kept in a dictionary by name and numbered as they come.
ASSUME LayoutArguments ==
  \A b \in Builders :
    /\ b \in Argument
    /\ \A r \in DOMAIN b.relocations : b.relocations[r].symbol \in DOMAIN b.symbols
    /\ \A i, j \in DOMAIN b.symbols :
         i # j => /\ b.symbols[i].name # b.symbols[j].name
                  /\ b.symbols[i].original_order # b.symbols[j].original_order
    /\ \A p \in b.synthetic : p % PageSize = 0

VARIABLES
  pc,               \* the step write() is at, "raised" after an error
  kind,             \* the loop it is in: over "text" or over "rodata"
  args,             \* the arguments
  symbols,          \* the symbols, with the addresses of this run
  text_min_page,    \* the kernel page that becomes TEXT_BASE_VADDR
  intervals,        \* page ranges of symbols, not merged yet
  regions,          \* text_regions and ro_regions
  unsorted,         \* dynamic symbols that have no index yet
  dynamic_symbols,  \* the others, in the order of .dynsym
  gnu_nbuckets,     \* gnu_nbuckets and
  gnu_bloom_size,   \* gnu_bloom_size, from the number of dynamic symbols
  dynstr,           \* dynstr_offsets and the length of .dynstr
  gnu,              \* buckets, chains and bloom of _build_gnu_hash
  placed,           \* the sections that have an offset and an address
  cursor,           \* the next file offset and address
  rela,             \* entries of .rela.dyn
  dynamic_size,     \* of .dynamic
  loads,            \* the PT_LOAD headers
  page_map,         \* page_mappings.txt
  mapped            \* how many regions of this kind have their pages in it

input    == << args, symbols, text_min_page >>
areas    == << intervals, regions >>
dynamics == << unsorted, dynamic_symbols, gnu_nbuckets, gnu_bloom_size, dynstr, gnu >>
places   == << placed, cursor >>
tables   == << rela, dynamic_size, loads >>
map      == << page_map, mapped >>
lvars    == << pc, kind, input, areas, dynamics, places, tables, map >>

Kinds == {"text", "rodata"}
NoArgument == [symbols |-> << >>, shim |-> FALSE, data |-> 0, relocations |-> << >>,
               based |-> FALSE, rw_base |-> 0, synthetic |-> {}]

LayoutInit ==
  /\ pc = "idle" /\ kind = "text" /\ args = NoArgument /\ symbols = << >>
  /\ text_min_page = TextBase /\ intervals = {} /\ regions = [k \in Kinds |-> << >>]
  /\ unsorted = {} /\ dynamic_symbols = << >> /\ gnu_nbuckets = 1 /\ gnu_bloom_size = 1
  /\ dynstr = [offsets |-> [n \in {} |-> 0], size |-> 1]
  /\ gnu = [buckets |-> << >>, chains |-> << >>, bloom |-> {}]
  /\ placed = [k \in Kinds \cup {"rw"} |-> << >>] /\ cursor = [offset |-> TextBase, addr |-> TextBase]
  /\ rela = << >> /\ dynamic_size = 0 /\ loads = {} /\ page_map = {} /\ mapped = 0

-----------------------------------------------------------------------------
(* __init__ and _prepare_symbol_virtual_addresses *)

Defined == {i \in DOMAIN symbols : symbols[i].defined}
Code    == {i \in Defined : symbols[i].func}
Rodata  == {i \in Defined : ~symbols[i].func /\ symbols[i].rodata}

\* Exports, imports and targets of relocations have an entry in .dynsym.
DynamicSymbols(b) ==
  {i \in DOMAIN b.symbols : \/ ~b.symbols[i].defined
                            \/ b.symbols[i].exported
                            \/ \E r \in DOMAIN b.relocations : b.relocations[r].symbol = i}

Construct(b) ==
  /\ pc = "idle"
  /\ args' = b /\ symbols' = b.symbols
  /\ LET n == Cardinality(DynamicSymbols(b)) IN
       /\ gnu_nbuckets' = IF n > 0 THEN Larger(3, n) ELSE 1
       /\ gnu_bloom_size' = IF n > 0 THEN (n + WordBits - 1) \div WordBits ELSE 1
  /\ unsorted' = DynamicSymbols(b)
  /\ pc' = "prepare"
  /\ UNCHANGED << kind, text_min_page, areas, dynamic_symbols, dynstr, gnu, places, tables, map >>

\* A symbol without a size or an address gets one here.
Homeless(i) == {j \in Defined : j < i /\ symbols[j].address = 0}
Sized(s)  == IF s.size = 0 THEN ExportStubSize ELSE s.size
Housed(i) == IF symbols[i].address = 0 THEN TextBase + ExportStubSize * Cardinality(Homeless(i))
             ELSE symbols[i].address
Prepared == [i \in DOMAIN symbols |->
               IF symbols[i].defined THEN [symbols[i] EXCEPT !.size = Sized(symbols[i]), !.address = Housed(i)]
               ELSE symbols[i]]

\* Mutant: only the page that a symbol starts on.
FirstPage(s) == << align_down(s.address), align_down(s.address) + PageSize >>

\* The whole pages of a symbol.
Interval(s) == << align_down(s.address), PageUp(s.address + s.size) >>

TextMinPage(syms) ==
  LET anchors == IF Code # {} THEN Code ELSE Defined IN
  IF anchors = {} THEN TextBase ELSE align_down(Min({syms[i].address : i \in anchors}))

prepare_symbol_virtual_addresses ==
  /\ pc = "prepare"
  /\ symbols' = Prepared
  /\ text_min_page' = TextMinPage(Prepared)
  /\ intervals' = {Interval(Prepared[i]) : i \in Code}
  /\ pc' = "merge"
  /\ UNCHANGED << kind, args, regions, dynamics, places, tables, map >>

\* Where a kernel address lies in the memory image of the DSO.
virtual_address(a) == TextBase + (a - text_min_page)

-----------------------------------------------------------------------------
(* _build_regions, _assign_symbol_sections *)

Before(v, w) == v[1] < w[1] \/ (v[1] = w[1] /\ v[2] <= w[2])

\* The loop over the sorted intervals: ranges that touch become one region.
Extended(rs, v) ==
  IF rs = << >> \/ v[1] > rs[Len(rs)].end
    THEN Append(rs, [start |-> v[1], end |-> v[2]])
    ELSE [rs EXCEPT ![Len(rs)].end = Larger(@, v[2])]

MergeInterval ==
  /\ pc = "merge"
  /\ \E v \in intervals :
       /\ \A w \in intervals : Before(v, w)
       /\ intervals' = intervals \ {v}
       /\ regions' = [regions EXCEPT ![kind] = Extended(@, v)]
  /\ UNCHANGED << pc, kind, input, dynamics, places, tables, map >>

EndRegions ==
  /\ pc = "merge" /\ intervals = {}
  /\ IF kind = "text"
       THEN kind' = "rodata" /\ intervals' = {Interval(symbols[i]) : i \in Rodata} /\ pc' = pc
       ELSE kind' = "text" /\ intervals' = {} /\ pc' = "sections"
  /\ UNCHANGED << input, regions, dynamics, places, tables, map >>

\* _find_region_for_address: the regions of kind k that hold address a.
RegionsFor(k, a) == {n \in DOMAIN regions[k] : regions[k][n].start <= a /\ a < regions[k][n].end}

\* A symbol that no region covers stops the build.
AssignSections ==
  /\ pc = "sections"
  /\ pc' = IF /\ \A i \in Code : RegionsFor("text", symbols[i].address) # {}
              /\ \A i \in Rodata : RegionsFor("rodata", symbols[i].address) # {}
           THEN "emit" ELSE "raised"
  /\ gnu' = [gnu EXCEPT !.buckets = [b \in 0 .. gnu_nbuckets - 1 |-> 0]]
  /\ UNCHANGED << kind, input, areas, unsorted, dynamic_symbols, gnu_nbuckets, gnu_bloom_size, dynstr, places, tables, map >>

-----------------------------------------------------------------------------
(* _reorder_symbols_for_hash, _build_dynstr, _build_dynsym, _build_gnu_hash *)

HashOf(i) == Hash[symbols[i].name]
Bucket(i) == HashOf(i) % gnu_nbuckets

\* Mutant: the order of the symbols, without their buckets.
SortsUnbucketed(i, j) == symbols[i].original_order <= symbols[j].original_order

\* The sort key: the bucket, defined symbols first, export_order, original_order.
SortsBefore(i, j) ==
  LET s == symbols[i]  t == symbols[j] IN
  \/ Bucket(i) < Bucket(j)
  \/ /\ Bucket(i) = Bucket(j)
     /\ \/ s.defined /\ ~t.defined
        \/ /\ s.defined = t.defined
           /\ \/ s.export_order < t.export_order
              \/ s.export_order = t.export_order /\ s.original_order <= t.original_order

InString(str, n) == IF n \in DOMAIN str.offsets THEN str
                    ELSE [offsets |-> [m \in DOMAIN str.offsets \cup {n} |-> IF m = n THEN str.size ELSE str.offsets[m]],
                          size |-> str.size + NameBytes[n]]

\* The word and the two bits; gnu_bloom_shift is the logarithm of WordBits.
BloomBits(h) == {(h \div WordBits) % gnu_bloom_size} \X {h % WordBits, (h \div WordBits) % WordBits}

\* A chain ends before a symbol of another bucket.
Ended(chains) == IF chains = << >> THEN chains ELSE [chains EXCEPT ![Len(chains)].last = TRUE]
ChainsBefore(i) ==
  IF \/ gnu.buckets[Bucket(i)] = 0
     \/ dynamic_symbols # << >> /\ Bucket(i) # Bucket(dynamic_symbols[Len(dynamic_symbols)])
    THEN Ended(gnu.chains) ELSE gnu.chains

Hashed(i) ==
  [buckets |-> IF gnu.buckets[Bucket(i)] = 0 THEN [gnu.buckets EXCEPT ![Bucket(i)] = Len(dynamic_symbols) + 1]
               ELSE gnu.buckets,
   chains  |-> Append(ChainsBefore(i), [hash |-> HashOf(i) - (HashOf(i) % 2), last |-> FALSE]),
   bloom   |-> gnu.bloom \cup BloomBits(HashOf(i))]

\* The next symbol of the sorted order enters .dynstr, .dynsym and .gnu.hash.
EmitSymbol ==
  /\ pc = "emit"
  /\ \E i \in unsorted :
       /\ \A j \in unsorted : SortsBefore(i, j)
       /\ unsorted' = unsorted \ {i}
       /\ dynamic_symbols' = Append(dynamic_symbols, i)
       /\ dynstr' = InString(dynstr, symbols[i].name)
       /\ gnu' = Hashed(i)
  /\ UNCHANGED << pc, kind, input, areas, gnu_nbuckets, gnu_bloom_size, places, tables, map >>

EndEmit ==
  /\ pc = "emit" /\ unsorted = {}
  /\ dynstr' = IF args.shim THEN InString(dynstr, LIB_SHIM) ELSE dynstr
  /\ gnu' = [gnu EXCEPT !.chains = Ended(@)]
  /\ pc' = "place"
  /\ UNCHANGED << kind, input, areas, unsorted, dynamic_symbols, gnu_nbuckets, gnu_bloom_size, places, tables, map >>

\* Mutant: the place in the order from before the sort.
UnsortedIndex(i) == Cardinality({j \in DynamicSymbols(args) : j <= i})

\* The place of a symbol in .dynsym.
DynIndex(i) == CHOOSE d \in DOMAIN dynamic_symbols : dynamic_symbols[d] = i

-----------------------------------------------------------------------------
(* _build_content_sections and _assign_offsets_and_addresses *)

Needed     == IF args.shim THEN 1 ELSE 0
DynCount   == Len(dynamic_symbols)
HasRela    == args.relocations # << >>
GnuSize    == IF DynCount = 0 THEN 0 ELSE 16 + 8 * gnu_bloom_size + 4 * gnu_nbuckets + 4 * DynCount

RwNames == IF HasRela THEN << ".data", ".dynstr", ".dynsym", ".gnu.hash", ".rela.dyn", ".dynamic" >>
           ELSE << ".data", ".dynstr", ".dynsym", ".gnu.hash", ".dynamic" >>
RwAlign(n) == IF n = ".dynstr" THEN 1 ELSE 8
RwSize(n)  ==
  CASE n = ".data"     -> args.data
    [] n = ".dynstr"   -> dynstr.size
    [] n = ".dynsym"   -> 24 * (DynCount + 1)
    [] n = ".gnu.hash" -> GnuSize
    [] n = ".rela.dyn" -> 24 * Len(args.relocations)
    [] n = ".dynamic"  -> 16 * (Needed + 10)

SectionNames == Kinds \cup {".data", ".dynstr", ".dynsym", ".gnu.hash", ".rela.dyn", ".dynamic"}
Section(n, o, a, s) == [name |-> n, offset |-> o, addr |-> a, size |-> s]

\* Mutant: read-only regions do not move the end of memory.
PlaceRegionBelow ==
  /\ pc = "place" /\ Len(placed[kind]) < Len(regions[kind])
  /\ LET r == regions[kind][Len(placed[kind]) + 1]
         s == Section(kind, PageUp(cursor.offset), virtual_address(r.start), r.end - r.start)
     IN /\ placed' = [placed EXCEPT ![kind] = Append(@, s)]
        /\ cursor' = [offset |-> s.offset + s.size,
                      addr |-> IF kind = "text" THEN Larger(cursor.addr, s.addr + s.size) ELSE cursor.addr]
  /\ UNCHANGED << pc, kind, input, areas, dynamics, tables, map >>

\* Text and read-only regions lie page after page in the file and where the
\* kernel has them in memory.
PlaceRegion ==
  /\ pc = "place" /\ Len(placed[kind]) < Len(regions[kind])
  /\ LET r == regions[kind][Len(placed[kind]) + 1]
         s == Section(kind, PageUp(cursor.offset), virtual_address(r.start), r.end - r.start)
     IN /\ placed' = [placed EXCEPT ![kind] = Append(@, s)]
        /\ cursor' = [offset |-> s.offset + s.size, addr |-> Larger(cursor.addr, s.addr + s.size)]
  /\ UNCHANGED << pc, kind, input, areas, dynamics, tables, map >>

\* Mutant: the private sections follow without a gap, in the file and in memory.
EndRegionsPlacedTight ==
  /\ pc = "place" /\ Len(placed[kind]) = Len(regions[kind])
  /\ IF kind = "text"
       THEN kind' = "rodata" /\ UNCHANGED << pc, cursor >>
       ELSE /\ kind' = "text" /\ pc' = "place_rw"
            /\ cursor' = [cursor EXCEPT !.addr = IF args.based THEN args.rw_base + 8 ELSE @ + 8]
  /\ UNCHANGED << input, areas, dynamics, placed, tables, map >>

\* The private sections follow in the file; in memory .data starts where the
\* kernel has the module's data, if there is a module.
EndRegionsPlaced ==
  /\ pc = "place" /\ Len(placed[kind]) = Len(regions[kind])
  /\ IF kind = "text"
       THEN kind' = "rodata" /\ UNCHANGED << pc, cursor >>
       ELSE /\ kind' = "text" /\ pc' = "place_rw"
            /\ cursor' = [offset |-> PageUp(cursor.offset),
                          addr |-> PageUp(IF args.based THEN args.rw_base ELSE cursor.addr)]
  /\ UNCHANGED << input, areas, dynamics, placed, tables, map >>

PlaceRw ==
  /\ pc = "place_rw"
  /\ Len(placed["rw"]) < Len(RwNames)
  /\ LET n == RwNames[Len(placed["rw"]) + 1]
         s == Section(n, align(cursor.offset, RwAlign(n)), align(cursor.addr, RwAlign(n)), RwSize(n))
     IN /\ placed' = [placed EXCEPT !["rw"] = Append(@, s)]
        /\ cursor' = [offset |-> s.offset + s.size, addr |-> s.addr + s.size]
        /\ pc' = IF Len(placed["rw"]) + 1 = Len(RwNames) THEN "finish" ELSE pc
  /\ UNCHANGED << kind, input, areas, dynamics, tables, map >>

-----------------------------------------------------------------------------
(* build_relocations, _finalize_dynamic_section, _build_program_headers *)

RelaEntries ==
  [r \in DOMAIN args.relocations |->
     [offset |-> placed["rw"][1].addr + args.relocations[r].offset,
      index  |-> DynIndex(args.relocations[r].symbol),
      addend |-> args.relocations[r].addend]]

Load(k, s) == [kind |-> k, offset |-> s.offset, addr |-> s.addr, filesz |-> s.size, memsz |-> s.size]
RwLoad     == LET s == placed["rw"][1] IN
              [kind |-> "rw", offset |-> s.offset, addr |-> s.addr,
               filesz |-> cursor.offset - s.offset, memsz |-> cursor.addr - s.addr]
Loads      == (UNION {{Load(k, placed[k][n]) : n \in DOMAIN placed[k]} : k \in Kinds}) \cup {RwLoad}

\* An address below zero cannot be packed: the run ends before the file is opened.
Finish ==
  /\ pc = "finish"
  /\ rela' = RelaEntries
  /\ dynamic_size' = 16 * (Needed + (IF HasRela THEN 9 ELSE 6))
  /\ loads' = Loads
  /\ pc' = IF \E l \in Loads : l.addr < 0 THEN "raised" ELSE "map"
  /\ UNCHANGED << kind, input, areas, dynamics, places, map >>

-----------------------------------------------------------------------------
(* reusable_page_mappings and write_reusable_page_map *)

Pages(r) == {r.start + PageSize * n : n \in 0 .. ((r.end - r.start) \div PageSize - 1)}

Mappings(n) ==
  LET r == regions[kind][n] IN
  {[offset |-> placed[kind][n].offset + (p - r.start), page |-> p, kind |-> kind] : p \in Pages(r) \ args.synthetic}

Clash(new) == \E e \in new, f \in page_map : e.offset = f.offset \/ e.page = f.page

\* Mutant: a page that is in the map already is listed again.
MapRegionTwice ==
  /\ pc = "map" /\ mapped < Len(regions[kind])
  /\ page_map' = page_map \cup Mappings(mapped + 1) /\ mapped' = mapped + 1
  /\ UNCHANGED << pc, kind, input, areas, dynamics, places, tables >>

\* A page of the file or of the kernel that is already in the map stops the run.
MapRegion ==
  /\ pc = "map" /\ mapped < Len(regions[kind])
  /\ LET new == Mappings(mapped + 1) IN
       IF Clash(new) THEN pc' = "raised" /\ UNCHANGED map
       ELSE pc' = pc /\ page_map' = page_map \cup new /\ mapped' = mapped + 1
  /\ UNCHANGED << kind, input, areas, dynamics, places, tables >>

\* A map without pages is an error too.
EndMap ==
  /\ pc = "map" /\ mapped = Len(regions[kind])
  /\ IF kind = "text"
       THEN kind' = "rodata" /\ mapped' = 0 /\ pc' = pc
       ELSE kind' = kind /\ mapped' = mapped /\ pc' = IF page_map = {} THEN "raised" ELSE "done"
  /\ UNCHANGED << input, areas, dynamics, places, tables, page_map >>

LayoutStep ==
  \/ prepare_symbol_virtual_addresses \/ MergeInterval \/ EndRegions \/ AssignSections
  \/ EmitSymbol \/ EndEmit \/ PlaceRegion \/ EndRegionsPlaced \/ PlaceRw \/ Finish \/ MapRegion \/ EndMap

LayoutNext == (\E b \in Builders : Construct(b)) \/ LayoutStep

LayoutSpec == LayoutInit /\ [][LayoutNext]_lvars

-----------------------------------------------------------------------------
(* Properties *)

Steps == {"idle", "prepare", "merge", "sections", "emit", "place", "place_rw", "finish", "map", "done", "raised"}

\* The steps at which the section layout and the tables are complete.
Laid == pc \in {"map", "done"}

Region        == [start : Nat, end : Nat]
Chain         == [hash : Nat, last : BOOLEAN]
PlacedSection == [name : SectionNames, offset : Nat, addr : Int, size : Nat]

\* All variables have their types, and a run that ends well has mapped a page.
LayoutTypeOK ==
  /\ pc \in Steps /\ kind \in Kinds
  /\ args \in Argument /\ symbols \in Seq(Symbol) /\ text_min_page \in Nat
  /\ intervals \in SUBSET (Nat \X Nat)
  /\ regions \in [Kinds -> Seq(Region)]
  /\ unsorted \subseteq DOMAIN symbols /\ dynamic_symbols \in Seq(DOMAIN symbols)
  /\ gnu_nbuckets \in Nat \ {0} /\ gnu_bloom_size \in Nat \ {0}
  /\ dynstr.size \in Nat \ {0}
  /\ gnu.chains \in Seq(Chain)
  /\ placed \in [Kinds \cup {"rw"} -> Seq(PlacedSection)]
  /\ cursor \in [offset : Nat, addr : Int]
  /\ dynamic_size \in Nat /\ mapped \in Nat
  /\ pc = "done" => page_map # {}

\* A page of the file that a header loads at an address.
LoadedAt(offset, addr) ==
  \E l \in loads : /\ l.kind \in Kinds
                   /\ l.offset <= offset /\ offset + PageSize <= l.offset + l.filesz
                   /\ addr - l.addr = offset - l.offset

\* Each entry of the page map is a page of the file that lies in memory exactly
\* where the kernel's page lies relative to all others, its content is not a
\* synthetic thunk page, and no page is named twice on either side. The manager
\* grafts by this map without looking at anything else.
MapFaithful ==
  \A e \in page_map :
    /\ LoadedAt(e.offset, virtual_address(e.page))
    /\ e.offset % PageSize = 0 /\ e.page % PageSize = 0
    /\ e.page \notin args.synthetic
    /\ \A f \in page_map : (e.offset = f.offset) <=> (e.page = f.page)

\* The pages that a symbol touches.
PagesOf(s) == {PageSize * n : n \in s.address \div PageSize .. (s.address + s.size - 1) \div PageSize}

\* The map of a finished library names the pages of its functions and read-only
\* objects, no page that none of them touches and none that is synthetic.
MapExact ==
  pc = "done" => {e.page : e \in page_map} = (UNION {PagesOf(symbols[i]) : i \in Code \cup Rodata}) \ args.synthetic

\* The dynamic linker, an external: it takes a table only if the number of words is a
\* power of two, as it finds the word with a mask, which is then this remainder; and
\* its walk from the filter through the bucket and the chain.
TableTaken == \E k \in 0 .. gnu_bloom_size : gnu_bloom_size = 2 ^ k
LinkerFinds(n, d) ==
  LET h == Hash[n]  b == h % gnu_nbuckets  word == (h \div WordBits) % gnu_bloom_size IN
  /\ \A bit \in {h % WordBits, (h \div WordBits) % WordBits} : << word, bit >> \in gnu.bloom
  /\ gnu.buckets[b] \in 1 .. d
  /\ \A k \in gnu.buckets[b] .. d - 1 : ~gnu.chains[k].last
  /\ gnu.chains[d].hash = h - (h % 2)

\* If the linker takes the table, a lookup of any symbol of .dynsym reaches its entry:
\* the two Bloom bits are set in the word the linker looks at, the chain of its bucket
\* starts at or before it and does not end before it. No chain runs out of the table,
\* whatever name is looked for.
HashLookup ==
  Laid =>
    /\ TableTaken => \A d \in DOMAIN dynamic_symbols : LinkerFinds(symbols[dynamic_symbols[d]].name, d)
    /\ \A b \in DOMAIN gnu.buckets :
         gnu.buckets[b] # 0 => \E e \in gnu.buckets[b] .. Len(gnu.chains) : gnu.chains[e].last

\* What does not hold: the linker takes every table. One word for each 64 symbols makes
\* three of 129 to 192 symbols.
TablesTaken == Laid => TableTaken

\* What the file holds: sections, in the order of their offsets.
FileSections == placed["text"] \o placed["rodata"] \o placed["rw"]

\* The kernel can map the file: offset and address of a segment agree within
\* the page. No section overwrites another one in the file, every private one
\* lies in the last segment at the distance it has in the file, and the final
\* .dynamic fits in the room guessed for it.
Loadable ==
  Laid =>
    /\ \A l \in loads : (l.addr - l.offset) % PageSize = 0 /\ l.filesz = l.memsz
    /\ \A m, n \in DOMAIN FileSections :
         m < n => FileSections[m].offset + FileSections[m].size <= FileSections[n].offset
    /\ \A n \in DOMAIN placed["rw"] :
         \E l \in loads : /\ l.kind = "rw"
                          /\ placed["rw"][n].addr - l.addr = placed["rw"][n].offset - l.offset
                          /\ placed["rw"][n].offset + placed["rw"][n].size <= l.offset + l.filesz
    /\ dynamic_size <= placed["rw"][Len(placed["rw"])].size

\* Code or read-only data lies behind the start of the module's data.
SomethingBehind == \E i \in Code \cup Rodata : virtual_address(symbols[i].address + symbols[i].size) > args.rw_base

\* The segments of a finished library do not overlap in memory, unless a symbol
\* lies behind the module's data, where the private sections go.
ApartInMemory ==
  (pc = "done" /\ (args.based => ~SomethingBehind)) =>
    \A l, m \in loads : l # m => l.addr + l.memsz <= m.addr \/ m.addr + m.memsz <= l.addr
=============================================================================
