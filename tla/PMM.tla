-------------------------------- MODULE PMM --------------------------------
(***************************************************************************)
(* The physical memory manager, src/memory/pmm.cpp: a bitmap of pages that *)
(* init() builds from the boot loader's memory map and that alloc() and    *)
(* free() update.  Addresses and lengths are counted in 4096-byte pages;   *)
(* the HHDM offset, which init() adds to and subtracts from the address of *)
(* the bitmap, cancels out.  init() runs before interrupts are enabled; it *)
(* is split at the iterations of its loops, nothing interleaves with it.   *)
(***************************************************************************)
EXTENDS Integers, Sequences, FiniteSets

CONSTANTS
  MemMaps,    \* the memory maps the boot loader may supply (sequences of entries)
  WordBits,   \* bits of one bitmap word: 64
  PageBits    \* bits of one page: 8 * 4096

\* An entry of the memory map; "usable" stands for LIMINE_MEMMAP_USABLE.
MemMapEntry == [base : Nat, length : Nat \ {0}, usable : BOOLEAN]
EntryPages(e) == e.base .. e.base + e.length - 1

\* What the boot protocol guarantees of a map: usable entries are whole pages,
\* never contain page 0, and overlap no other entry.
MemMapOK(m) ==
  /\ m \in Seq(MemMapEntry)
  /\ \A j \in 1 .. Len(m) : m[j].usable => m[j].base > 0
  /\ \A j, k \in 1 .. Len(m) :
       j # k => EntryPages(m[j]) \cap EntryPages(m[k]) = {}

ASSUME MemMapAssumption == \A m \in MemMaps : MemMapOK(m)
ASSUME BitsAssumption == WordBits \in Nat \ {0} /\ PageBits \in Nat \ {0}

NULL == 0     \* the null pointer, which is also the address of page 0

VARIABLES
  memmap,       \* the memory map response
  pc,           \* where init() is, then "ready"; "nobitmap": it returned early;
                \* "fault": a null bitmap was dereferenced
  i,            \* the loop's entry, as memmap[i]
  k,            \* the loop's page within the entry or within the bitmap
  bitmap,       \* pages whose bit is 1 (in use)
  base,         \* first page of the bitmap itself, NULL before it is placed
  total_pages,
  free_pages,
  owned         \* history: pages callers obtained and have not freed

vars == <<memmap, pc, i, k, bitmap, base, total_pages, free_pages, owned>>

Entries == 1 .. Len(memmap)
Usable == UNION {EntryPages(memmap[j]) : j \in {n \in Entries : memmap[n].usable}}

CeilDiv(a, b) == (a + b - 1) \div b
\* The bitmap's size in bits, rounded up to whole words, and in pages.
BitmapBits == CeilDiv(total_pages, WordBits) * WordBits
BitmapPagesFloor == BitmapBits \div PageBits          \* mutant: rounds down
BitmapPages == CeilDiv(BitmapBits, PageBits)
BitmapFrames == base .. base + BitmapPages - 1

Zeros == {q \in 0 .. total_pages - 1 : q \notin bitmap}

bitmap_set_lost(q) == bitmap                          \* mutant: &= for |=
bitmap_set(q) == bitmap \cup {q}
bitmap_clear_wide(q) == bitmap \ {q, q + 1}           \* mutant: 3ULL <<
bitmap_clear(q) == bitmap \ {q}

Fits(j) == memmap[j].usable /\ memmap[j].length * PageBits >= BitmapBits

Init ==
  /\ memmap \in MemMaps
  /\ pc = "scan" /\ i = 1 /\ k = 0
  /\ bitmap = {} /\ base = NULL /\ owned = {}
  /\ total_pages = 0 /\ free_pages = 0

-----------------------------------------------------------------------------
(* init() *)

\* Step 1: one iteration of the search for the highest usable address.
Scan ==
  /\ pc = "scan" /\ i \in Entries
  /\ LET top == memmap[i].base + memmap[i].length IN
     total_pages' = IF memmap[i].usable /\ top > total_pages THEN top ELSE total_pages
  /\ i' = i + 1
  /\ UNCHANGED <<memmap, pc, k, bitmap, base, free_pages, owned>>

\* Steps 2 and 3: the first usable entry that is large enough holds the bitmap,
\* which starts with every page in use.
PlaceBitmap ==
  /\ pc = "scan" /\ i = Len(memmap) + 1
  /\ \E j \in Entries :
       /\ Fits(j) /\ \A n \in 1 .. j - 1 : ~Fits(n)
       /\ base' = memmap[j].base
  /\ bitmap' = 0 .. total_pages - 1
  /\ pc' = "clear" /\ i' = 1 /\ k' = 0
  /\ UNCHANGED <<memmap, total_pages, free_pages, owned>>

\* No entry is large enough, or there is no map at all: init() returns early.
NoSpaceForBitmap ==
  /\ pc = "scan" /\ i = Len(memmap) + 1
  /\ \A j \in Entries : ~Fits(j)
  /\ pc' = "nobitmap"
  /\ UNCHANGED <<memmap, i, k, bitmap, base, total_pages, free_pages, owned>>

\* Step 4: clear the bit of one page of a usable entry.
ClearPage ==
  /\ pc = "clear" /\ i \in Entries
  /\ memmap[i].usable /\ k < memmap[i].length
  /\ bitmap' = bitmap_clear(memmap[i].base + k)
  /\ free_pages' = free_pages + 1
  /\ k' = k + 1
  /\ UNCHANGED <<memmap, pc, i, base, total_pages, owned>>

NextEntry ==
  /\ pc = "clear" /\ i \in Entries
  /\ ~memmap[i].usable \/ k >= memmap[i].length
  /\ i' = i + 1 /\ k' = 0
  /\ UNCHANGED <<memmap, pc, bitmap, base, total_pages, free_pages, owned>>

ClearDone ==
  /\ pc = "clear" /\ i = Len(memmap) + 1
  /\ pc' = "mark" /\ k' = 0
  /\ UNCHANGED <<memmap, i, bitmap, base, total_pages, free_pages, owned>>

\* Step 5: mark one page of the bitmap itself as used.
MarkBitmapPage ==
  /\ pc = "mark" /\ k < BitmapPages
  /\ bitmap' = bitmap_set(base + k)
  /\ free_pages' = free_pages - 1
  /\ k' = k + 1
  /\ UNCHANGED <<memmap, pc, i, base, total_pages, owned>>

InitDone ==
  /\ pc = "mark" /\ k >= BitmapPages
  /\ pc' = "ready"
  /\ UNCHANGED <<memmap, i, k, bitmap, base, total_pages, free_pages, owned>>

-----------------------------------------------------------------------------
(* alloc() and free() *)

\* alloc() takes the first page whose bit is 0 and returns its address; a caller
\* takes the address NULL (page 0) for a failure, and then owns nothing.
Alloc ==
  \E q \in Zeros :
    /\ pc = "ready" /\ \A z \in Zeros : q <= z
    /\ bitmap' = bitmap_set(q)
    /\ free_pages' = free_pages - 1
    /\ owned' = IF q = NULL THEN owned ELSE owned \cup {q}
    /\ UNCHANGED <<memmap, pc, i, k, base, total_pages>>

\* alloc() finds no 0 bit among the total_pages first ones.
AllocFails ==
  /\ pc = "ready" /\ Zeros = {}
  /\ UNCHANGED vars

\* Without a bitmap alloc() finds no page when total_pages is 0, and reads
\* through the null bitmap pointer otherwise.
AllocWithoutBitmap ==
  /\ pc = "nobitmap"
  /\ pc' = IF total_pages = 0 THEN pc ELSE "fault"
  /\ UNCHANGED <<memmap, i, k, bitmap, base, total_pages, free_pages, owned>>

\* free() of a page the caller owns.
Free(q) ==
  /\ pc = "ready" /\ q \in owned
  /\ bitmap' = bitmap_clear(q)
  /\ free_pages' = free_pages + 1
  /\ owned' = owned \ {q}
  /\ UNCHANGED <<memmap, pc, i, k, base, total_pages>>

\* The processor stops: no exception handler is installed this early.
Fault == pc = "fault" /\ UNCHANGED vars

InitStep ==
  \/ Scan \/ PlaceBitmap \/ NoSpaceForBitmap
  \/ ClearPage \/ NextEntry \/ ClearDone
  \/ MarkBitmapPage \/ InitDone

Next ==
  \/ InitStep
  \/ Alloc \/ AllocFails \/ AllocWithoutBitmap
  \/ \E q \in owned : Free(q)
  \/ Fault

Spec == Init /\ [][Next]_vars

-----------------------------------------------------------------------------
TypeOK ==
  /\ memmap \in MemMaps
  /\ pc \in {"scan", "clear", "mark", "ready", "nobitmap", "fault"}
  /\ i \in Nat \ {0} /\ k \in Nat
  /\ bitmap \subseteq 0 .. total_pages - 1
  /\ base \in Nat /\ total_pages \in Nat
  /\ free_pages \in Int
  /\ owned \subseteq Nat \ {NULL}

\* free_pages, which init() counts up and then down page by page and alloc()
\* and free() step, is at all times the number of 0 bits in the bitmap: it
\* neither drifts nor wraps below zero.
FreeCountExact ==
  pc \in {"clear", "mark", "ready"} => free_pages = Cardinality(Zeros)

\* After init(), the usable pages are exactly the free ones, the ones callers
\* own and the ones the bitmap lies in, with no page in two roles, whatever
\* sequence of alloc() and free() was made: no page is handed out twice or lost.
\* Page 0, whose address alloc() returns for a failure, is never free.
PagesPartitioned ==
  pc = "ready" =>
    /\ NULL \notin Zeros
    /\ Usable = Zeros \cup owned \cup BitmapFrames
    /\ Zeros \cap owned = {} /\ owned \cap BitmapFrames = {}
    /\ Zeros \cap BitmapFrames = {}

\* Every page is accounted for, in the bitmap and in the count.
PagesAccounted == FreeCountExact /\ PagesPartitioned

\* No page that is free or that a caller owns contains a bit of the bitmap: the pages
\* that step 5 marks are enough for the words that step 3 wrote.
BitmapKept ==
  pc = "ready" =>
    \A q \in Zeros \cup owned : q < base \/ (q - base) * PageBits >= BitmapBits

\* While init() is still clearing bits, the bitmap it writes lies wholly inside
\* one usable entry: step 4 and step 5 overwrite no reserved memory.
BitmapInUsableMemory == pc \in {"clear", "mark", "ready"} => BitmapFrames \subseteq Usable

\* alloc() and free() implement the abstract page allocator, in which a page is
\* handed out only while nobody holds it.
Allocator == INSTANCE PageAllocator
  WITH avail <- IF pc = "ready" THEN Zeros ELSE {},
       held <- owned
ImplementsAllocator == Allocator!Spec
=============================================================================
