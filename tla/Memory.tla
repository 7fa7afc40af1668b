------------------------------- MODULE Memory -------------------------------
(***************************************************************************)
(* The memory managers put together: PMM::init(), VMM::init() and          *)
(* Heap::init() as kmain() calls them (main.cpp:100-102), then expand() of *)
(* the heap and other callers of map(), unmap(), PMM::alloc() and free().  *)
(* Each page frame a page table or the heap takes is a call of             *)
(* PMM::alloc() here, which may find none.                                 *)
(***************************************************************************)
EXTENDS PMM

CONSTANTS
  ENTRIES, Virt, Boot, NX_BIT,     \* those of VMM.tla; Virt is for callers other
                                   \* than the heap
  HEAP_START,           \* first page of the heap
  HEAP_INITIAL_PAGES,   \* pages Heap::init() asks expand() for
  EXPAND_PAGES,         \* pages kmalloc() asks it for
  HeapLimit,            \* bound: pages the heap may reach
  MaxHeld               \* bound: frames the other callers hold at a time

HeapPages == HEAP_START .. HEAP_START + HeapLimit - 1

VARIABLES
  held, pml4, tab, tlb, vpc, call, level, table,   \* those of VMM.tla, its pc as vpc
  heap_end,     \* the next page expand() maps
  n,            \* pages it still has to map
  hpc,          \* where it is: "start" (of Heap::init()), "alloc", "map",
                \* "mapping", then "idle"
  arena,        \* history: the frames expand() obtained, latest last
  was           \* history: free frames and mapped pages as its iteration began

vmmvars == <<held, pml4, tab, tlb, vpc, call, level, table>>
heapvars == <<heap_end, n, hpc, arena, was>>
allvars == <<vars, vmmvars, heapvars>>

UsableFrames(m) == UNION {EntryPages(m[j]) : j \in {x \in 1 .. Len(m) : m[x].usable}}
PageFrames == UNION {UsableFrames(m) : m \in MemMaps}
AllVirt == Virt \cup HeapPages

V == INSTANCE VMM
  WITH Virt <- AllVirt,
       free <- IF pc = "ready" THEN Zeros ELSE {}, pc <- vpc

ASSUME VMMAssumption == V!ConstantsOK
\* The heap has its pages to itself, and at least those Heap::init() asks for.
ASSUME HeapAssumption ==
  /\ HEAP_START \in Nat /\ HEAP_INITIAL_PAGES \in Nat /\ EXPAND_PAGES \in Nat
  /\ HeapLimit \in Nat /\ HEAP_INITIAL_PAGES <= HeapLimit
  /\ Virt \cap HeapPages = {} /\ MaxHeld \in Nat

Present(f, nx) == V!Present(f, nx)
Leaf(v) == V!Leaf(v)
MappedHeap == {p \in HeapPages : Leaf(p).present}
Now == [phys |-> Cardinality(Zeros), mapped |-> MappedHeap]
ArenaFrames == {arena[j] : j \in DOMAIN arena}

MemoryInit ==
  /\ Init /\ V!Init
  /\ heap_end = HEAP_START /\ n = 0 /\ hpc = "start" /\ arena = <<>>
  /\ was = [phys |-> 0, mapped |-> {}]

\* kmain() calls VMM::init() when PMM::init() has returned, with or without a bitmap.
PMMInitialized == pc \in {"ready", "nobitmap"}
\* PMM::alloc() returns NULL.
NoFrame == AllocFails \/ (total_pages = 0 /\ AllocWithoutBitmap)
-----------------------------------------------------------------------------
(* Initialisation *)

PMMStep == InitStep /\ UNCHANGED <<vmmvars, heapvars>>

\* The result of alloc() is not tested.
InitVMM ==
  /\ vpc = "init" /\ PMMInitialized
  /\ Alloc \/ NoFrame
  /\ V!VMMInit
  /\ UNCHANGED heapvars

\* alloc() runs through the null pointer of a bitmap that found no place.
InitVMMFaults ==
  /\ vpc = "init" /\ total_pages > 0
  /\ AllocWithoutBitmap
  /\ UNCHANGED <<vmmvars, heapvars>>

-----------------------------------------------------------------------------
(* expand() of the heap *)

Expand(pages) ==
  /\ n' = pages /\ hpc' = "alloc" /\ was' = Now
  /\ UNCHANGED <<vars, vmmvars, heap_end, arena>>

HeapInit == hpc = "start" /\ vpc = "idle" /\ pc # "fault" /\ Expand(HEAP_INITIAL_PAGES)

\* kmalloc() found no chunk; it gives up after one expansion.
KmallocExpands ==
  /\ hpc = "idle" /\ vpc = "idle" /\ heap_end + EXPAND_PAGES <= HEAP_START + HeapLimit
  /\ Expand(EXPAND_PAGES)

ExpandAlloc ==
  /\ hpc = "alloc" /\ n > 0
  /\ Alloc /\ V!Obtain
  /\ arena' = Append(arena, CHOOSE q \in held' : q \notin held)
  /\ hpc' = "map"
  /\ UNCHANGED <<heap_end, n, was>>

\* Out of physical memory, or all pages are mapped.
ExpandReturns ==
  /\ hpc = "alloc"
  /\ (n > 0 /\ NoFrame) \/ (n = 0 /\ UNCHANGED vars)
  /\ hpc' = "idle"
  /\ UNCHANGED <<vmmvars, heap_end, n, arena, was>>

ExpandMap ==
  /\ hpc = "map" /\ hpc' = "mapping"
  /\ UNCHANGED <<vars, heap_end, n, arena, was>>
  /\ V!Map(heap_end, arena[Len(arena)], FALSE)

\* VMM::map() has returned, whether it mapped the page or not.
ExpandNext ==
  /\ hpc = "mapping" /\ vpc = "idle"
  /\ heap_end' = heap_end + 1 /\ n' = n - 1 /\ hpc' = "alloc"
  /\ was' = Now
  /\ UNCHANGED <<vars, vmmvars, arena>>

-----------------------------------------------------------------------------
(* Other callers, and the steps of a map() or unmap() in progress *)

OthersObtain ==
  /\ hpc = "idle" /\ Cardinality(held \ ArenaFrames) < MaxHeld
  /\ Alloc /\ V!Obtain
  /\ UNCHANGED heapvars

\* A caller frees a frame that it obtained and that is mapped nowhere any more.
OthersFree(q) ==
  /\ hpc = "idle" /\ vpc = "idle"
  /\ \A v \in Virt : Leaf(v).present => Leaf(v).frame # q
  /\ Free(q) /\ held' = held \ {q}
  /\ UNCHANGED <<pml4, tab, tlb, vpc, call, level, table, heapvars>>

OthersCall ==
  /\ hpc = "idle" /\ UNCHANGED <<vars, heapvars>>
  /\ \E v \in Virt :
       V!Unmap(v) \/ \E q \in held \ ArenaFrames, nx \in BOOLEAN : V!Map(v, q, nx)

\* A call takes a frame for a table, finds none, or takes no frame.
CallStep ==
  /\ \/ Alloc /\ V!CreateTable
     \/ call.entry.present /\ AllocFails /\ V!GiveUp
     \/ UNCHANGED vars /\ (V!Descend \/ V!WriteEntry \/ V!Invlpg)
     \/ ~call.entry.present /\ UNCHANGED vars /\ V!GiveUp
  /\ UNCHANGED heapvars

\* The processor's use of its TLB.
TLBStep ==
  /\ UNCHANGED <<vars, heapvars>>
  /\ \E v \in AllVirt : V!TLBFill(v) \/ V!TLBEvict(v)

\* The processor stops at a fault: no exception handler is installed this early.
Stopped == Fault /\ UNCHANGED <<vmmvars, heapvars>>

MemoryNext ==
  \/ PMMStep \/ InitVMM \/ InitVMMFaults
  \/ HeapInit \/ KmallocExpands
  \/ ExpandAlloc \/ ExpandReturns \/ ExpandMap \/ ExpandNext
  \/ OthersObtain \/ OthersCall \/ \E q \in held \ ArenaFrames : OthersFree(q)
  \/ CallStep \/ TLBStep \/ Stopped

MemorySpec == MemoryInit /\ [][MemoryNext]_allvars

-----------------------------------------------------------------------------
\* The page tables stay a typed tree of frames nobody else has, walked on the page's
\* own path and outside the kernel's half, while callers and the heap take frames.
PageTablesInv == V!TablesInv

\* The processor never uses a translation the tables do not hold, but for one page
\* between the write of its entry and its invlpg.
NoStaleTranslation == V!NoStaleTranslation

\* A map() or unmap() that reaches its invlpg did what it was asked for, and
\* virt_to_phys() tells so, but for pages with FLAG_NX.
CallTakesEffect == V!CallTakesEffect

\* A call changes the translation of its page, once, or fails and changes none.
ImplementsAddressSpace == V!ImplementsAddressSpace

\* Every frame taken from PMM::alloc() and not freed is a table that the processor's
\* walk can reach or a frame its caller still knows, whatever calls failed half way;
\* the heap's are mapped in its pages, or lost to a map() that failed: as many as the
\* arena has holes.  No translation leads to a frame that is not held: to a free one
\* or to a table.
FramesAccounted ==
  /\ vpc # "init" =>
       owned = (held \cup {pml4} \cup V!PDPTs \cup V!PDs \cup V!PTs) \ {NULL}
  /\ hpc \in {"alloc", "idle"} =>
       Cardinality(ArenaFrames \ {Leaf(p).frame : p \in MappedHeap})
         = Cardinality((HEAP_START .. heap_end - 1) \ MappedHeap)
  /\ \A v \in AllVirt :
       /\ Leaf(v).present => Leaf(v).frame \in held
       /\ v \in DOMAIN tlb => tlb[v].frame \in held

\* What Heap.tla assumes of expand(): an iteration uses the frames of the page and of
\* the tables it needs, or all that are left; it then moves heap_end past the page,
\* mapped or not; and expand() returns when it has done all or finds no frame.
H == INSTANCE Heap
  WITH WORD <- 8, SIZE_T <- 64, HDR <- 0, PAGE <- 1, TABLE_ENTRIES <- ENTRIES,
       Requests <- {}, Frames <- {}, hdr <- <<>>, req <- 0, cur <- 0, live <- <<>>,
       phys <- was.phys, mapped <- was.mapped, pc <- "expand"
ExpandsAsHeapAssumes ==
  [][(ExpandNext => H!ExpandPage) /\ (ExpandReturns => H!ExpandReturns)]_allvars
=============================================================================
