-------------------------------- MODULE Heap --------------------------------
(***************************************************************************)
(* The kernel heap, src/memory/heap.cpp: a doubly linked list of chunks,   *)
(* each a header followed by its data, that kmalloc() splits and kfree()   *)
(* merges.  Addresses and sizes are counted in 8-byte words, requests in   *)
(* bytes.  No two heap calls ever overlap: kmalloc() is called by kmain()  *)
(* alone, before it starts the processes.                                  *)
(***************************************************************************)
EXTENDS Integers

CONSTANTS
  WORD,               \* bytes of a word: 8
  SIZE_T,             \* number of values of size_t: 2^64
  HDR,                \* words of a Header: 4
  PAGE,               \* words of a page: 512
  HEAP_START,         \* first word of the heap
  HEAP_INITIAL_PAGES, \* 1024
  EXPAND_PAGES,       \* 64
  TABLE_ENTRIES,      \* entries of a page table: 512
  Requests,           \* the sizes callers ask for
  Frames              \* numbers of free page frames heap init may find

ASSUME UnitAssumption ==
  /\ WORD \in Nat \ {0} /\ SIZE_T \in Nat \ {0} /\ SIZE_T % WORD = 0
  /\ HDR \in Nat \ {0} /\ PAGE \in Nat /\ HDR < PAGE
ASSUME ArenaAssumption ==
  /\ HEAP_START \in Nat \ {0} /\ HEAP_START % PAGE = 0
  /\ HEAP_INITIAL_PAGES \in Nat \ {0} /\ EXPAND_PAGES \in Nat
  /\ TABLE_ENTRIES \in Nat \ {0}
  \* one page directory is enough for the initial heap and one expansion
  /\ HEAP_INITIAL_PAGES + EXPAND_PAGES <= TABLE_ENTRIES * TABLE_ENTRIES
ASSUME InputAssumption == Requests \subseteq 0 .. SIZE_T - 1 /\ Frames \subseteq Nat

NULL == 0
HEAP_END_INIT == HEAP_START + HEAP_INITIAL_PAGES * PAGE

Header == [size : Nat, used : BOOLEAN, next : Nat, prev : Nat]
EmptyFn == [a \in {} |-> NULL]

VARIABLES
  hdr,        \* the headers that were written and are not merged away, by address
  heap_end,
  mapped,     \* first words of the heap's pages that are mapped
  phys,       \* number of free page frames
  pc,         \* "init", "idle", "walk", "expand", "fault"
  n,          \* pages expand() still has to map
  req,        \* argument of the current kmalloc()
  cur,        \* the chunk kmalloc() looks at
  live        \* history: blocks callers hold, with the size they asked for

vars == <<hdr, heap_end, mapped, phys, pc, n, req, cur, live>>

Chunks == DOMAIN hdr
End(f, a) == a + HDR + f[a].size              \* first word after chunk a
HeaderMapped(a) == a .. a + HDR - 1 \subseteq UNION {p .. p + PAGE - 1 : p \in mapped}

\* The list f with the used flag of chunk a set to u.
Mark(f, a, u) == [f EXCEPT ![a].used = u]

AlignedDown(r) == r \div WORD                                   \* mutant
\* The aligned size, in words; the addition of 7 wraps around.
Aligned(r) == ((r + WORD - 1) % SIZE_T) \div WORD
Size == Aligned(req)

Init ==
  /\ hdr = EmptyFn /\ live = EmptyFn
  /\ heap_end = HEAP_START /\ mapped = {} /\ phys \in Frames
  /\ pc = "init" /\ n = HEAP_INITIAL_PAGES
  /\ req = 0 /\ cur = NULL

-----------------------------------------------------------------------------
(* expand() and init() *)

\* Page tables VMM::map must allocate for the heap page at p: the first page needs
\* all three levels, every TABLE_ENTRIES-th page one more table.
Tables(p) ==
  LET k == (p - HEAP_START) \div PAGE IN
  IF k = 0 THEN 3 ELSE IF k % TABLE_ENTRIES = 0 THEN 1 ELSE 0


\* One iteration of expand().  VMM::map returns nothing: when the frames run out
\* in the middle of it the page stays unmapped, and heap_end moves on anyway.
ExpandPage ==
  /\ pc \in {"init", "expand"} /\ n > 0 /\ phys > 0
  /\ LET enough == phys > Tables(heap_end) IN
     /\ mapped' = IF enough THEN mapped \cup {heap_end} ELSE mapped
     /\ phys' = IF enough THEN phys - 1 - Tables(heap_end) ELSE 0
  /\ heap_end' = heap_end + PAGE
  /\ n' = n - 1
  /\ UNCHANGED <<hdr, pc, req, cur, live>>

ExpandReturns == n = 0 \/ phys = 0

\* init() writes the first header, whatever expand() mapped.
FirstChunk ==
  /\ pc = "init" /\ ExpandReturns
  /\ IF HeaderMapped(HEAP_START)
     THEN /\ hdr' = [a \in {HEAP_START} |->
                       [size |-> HEAP_INITIAL_PAGES * PAGE - HDR, used |-> FALSE,
                        next |-> NULL, prev |-> NULL]]
          /\ pc' = "idle"
     ELSE pc' = "fault" /\ UNCHANGED hdr
  /\ UNCHANGED <<heap_end, mapped, phys, n, req, cur, live>>

-----------------------------------------------------------------------------
(* kmalloc() *)

Kmalloc(r) ==
  /\ pc = "idle"
  /\ req' = r /\ cur' = HEAP_START /\ pc' = "walk"
  /\ UNCHANGED <<hdr, heap_end, mapped, phys, n, live>>

Suits(a) == ~hdr[a].used /\ hdr[a].size >= Size

Stays(a) == a                     \* mutant: continue without current->next
Following(a) == hdr[a].next
SkipChunk ==
  /\ pc = "walk" /\ cur # NULL /\ ~Suits(cur)
  /\ cur' = Following(cur)
  /\ UNCHANGED <<hdr, heap_end, mapped, phys, pc, n, req, live>>

Splits(a) == hdr[a].size >= Size + HDR + 1

\* The list after chunk a was cut after its first Size words of data.
SplitList(a) ==
  LET new == a + HDR + Size IN
  [c \in Chunks \cup {new} |->
     IF c = new THEN [size |-> hdr[a].size - Size - HDR, used |-> FALSE,
                      next |-> hdr[a].next, prev |-> a]
     ELSE IF c = a THEN [hdr[a] EXCEPT !.next = new, !.size = Size]
     ELSE IF c = hdr[a].next THEN [hdr[c] EXCEPT !.prev = new]
     ELSE hdr[c]]

\* The chunk at cur is taken; the header split off behind it may lie in a page
\* that was never mapped.
TakeChunk ==
  /\ pc = "walk" /\ cur # NULL /\ Suits(cur)
  /\ Splits(cur) => HeaderMapped(cur + HDR + Size)
  /\ hdr' = Mark(IF Splits(cur) THEN SplitList(cur) ELSE hdr, cur, TRUE)
  /\ live' = [p \in DOMAIN live \cup {cur + HDR} |->
                IF p = cur + HDR THEN req ELSE live[p]]
  /\ pc' = "idle" /\ cur' = NULL
  /\ UNCHANGED <<heap_end, mapped, phys, n, req>>

SplitFaults ==
  /\ pc = "walk" /\ cur # NULL /\ Suits(cur)
  /\ Splits(cur) /\ ~HeaderMapped(cur + HDR + Size)
  /\ pc' = "fault"
  /\ UNCHANGED <<hdr, heap_end, mapped, phys, n, req, cur, live>>

\* The end of the list: no chunk suits, the heap is expanded.
StartExpand ==
  /\ pc = "walk" /\ cur = NULL
  /\ pc' = "expand" /\ n' = EXPAND_PAGES
  /\ UNCHANGED <<hdr, heap_end, mapped, phys, req, cur, live>>

\* The chunk for the new pages is appended to the list and kmalloc() starts again.
AddChunk ==
  /\ pc = "expand" /\ ExpandReturns
  /\ IF HeaderMapped(heap_end)
     THEN \E last \in Chunks :
            /\ hdr[last].next = NULL
            /\ hdr' = [a \in Chunks \cup {heap_end} |->
                         IF a = heap_end
                         THEN [size |-> EXPAND_PAGES * PAGE - HDR, used |-> FALSE,
                               next |-> NULL, prev |-> last]
                         ELSE IF a = last THEN [hdr[a] EXCEPT !.next = heap_end]
                         ELSE hdr[a]]
            /\ pc' = "walk" /\ cur' = HEAP_START
     ELSE pc' = "fault" /\ UNCHANGED <<hdr, cur>>
  /\ UNCHANGED <<heap_end, mapped, phys, n, req, live>>

-----------------------------------------------------------------------------
(* kfree() *)

DataOnly(a, b) == a + b             \* mutant: sizeof(Header) is not added
Joined(a, b) == a + HDR + b
\* Chunk a takes in the chunk that follows it in the list f.
Absorb(f, a) ==
  LET b == f[a].next IN
  [c \in DOMAIN f \ {b} |->
     IF c = a THEN [f[a] EXCEPT !.size = Joined(@, f[b].size), !.next = f[b].next]
     ELSE IF c = f[b].next THEN [f[c] EXCEPT !.prev = a]
     ELSE f[c]]

Mergeable(f, a) == a # NULL /\ ~f[a].used

MergeNext(f, h) == IF Mergeable(f, f[h].next) THEN Absorb(f, h) ELSE f
MergePrevNever(f, h) == f           \* mutant
MergePrevUsed(f, h) == IF f[h].prev # NULL THEN Absorb(f, f[h].prev) ELSE f    \* mutant
MergePrev(f, h) == IF Mergeable(f, f[h].prev) THEN Absorb(f, f[h].prev) ELSE f

\* kfree() of a block the caller holds.
Kfree(p) ==
  /\ pc = "idle" /\ p \in DOMAIN live
  /\ LET h == p - HDR IN
     hdr' = MergePrev(MergeNext(Mark(hdr, h, FALSE), h), h)
  /\ live' = [q \in DOMAIN live \ {p} |-> live[q]]
  /\ UNCHANGED <<heap_end, mapped, phys, pc, n, req, cur>>

\* The page fault handler halts for good (interrupts.cpp, vector 14); before the
\* handler is installed the processor resets.
Fault == pc = "fault" /\ UNCHANGED vars

HeapStep ==
  \/ ExpandPage \/ FirstChunk
  \/ SkipChunk \/ TakeChunk \/ SplitFaults
  \/ StartExpand \/ AddChunk

Next ==
  \/ HeapStep
  \/ \E r \in Requests : Kmalloc(r)
  \/ \E p \in DOMAIN live : Kfree(p)
  \/ Fault

Spec == Init /\ [][Next]_vars

\* A call that was entered is executed; callers need not make another.
FairSpec == Spec /\ WF_vars(HeapStep)

-----------------------------------------------------------------------------
TypeOK ==
  /\ Chunks \subseteq Nat /\ hdr \in [Chunks -> Header]
  /\ heap_end \in Nat /\ mapped \subseteq Nat /\ phys \in Nat
  /\ pc \in {"init", "idle", "walk", "expand", "fault"}
  /\ n \in Nat /\ req \in 0 .. SIZE_T - 1 /\ cur \in Chunks \cup {NULL}
  /\ DOMAIN live \subseteq Nat /\ live \in [DOMAIN live -> 0 .. SIZE_T - 1]

\* The list f is well formed: from the first chunk on, each chunk begins where
\* the previous one ends, next and prev are inverse of each other, and the last
\* chunk ends with the arena.
Linked(f) ==
  /\ DOMAIN f \subseteq HEAP_START .. HEAP_END_INIT - HDR
  /\ HEAP_START \in DOMAIN f /\ f[HEAP_START].prev = NULL
  /\ \A a \in DOMAIN f :
       /\ f[a].next = NULL <=> End(f, a) = HEAP_END_INIT
       /\ f[a].next # NULL => /\ f[a].next \in DOMAIN f
                              /\ f[a].next = End(f, a)
                              /\ f[f[a].next].prev = a
       /\ a # HEAP_START => f[a].prev \in DOMAIN f /\ f[f[a].prev].next = a
Disjoint(f) ==
  \A a, b \in DOMAIN f : a < b => End(f, a) <= b

\* Whatever sequence of kmalloc() and kfree() was made, the chunks tile the
\* initial arena exactly: no word is lost to fragmentation of the bookkeeping
\* and no chunk overlaps the header or the data of another.
ChunksTileArena == Chunks # {} => Linked(hdr) /\ Disjoint(hdr)

\* kfree() merges in both directions, so that two free chunks are never adjacent
\* and a heap of which everything was freed is one chunk again.
NoFreeNeighbours ==
  \A a \in Chunks : hdr[a].next # NULL => hdr[a].used \/ hdr[hdr[a].next].used

\* The used chunks are exactly those of the blocks callers hold, and each is as
\* large as was asked for, unless rounding the request up wrapped around.
LiveBlocksBacked ==
  /\ DOMAIN live = {a + HDR : a \in {c \in Chunks : hdr[c].used}}
  /\ \A p \in DOMAIN live :
       live[p] <= SIZE_T - WORD => hdr[p - HDR].size * WORD >= live[p]

\* expand() never maps a page twice, so no frame is lost, and the word at heap_end
\* is never mapped: the chunk kmalloc() puts there after an expansion always faults.
NothingMappedAtEnd == \A p \in mapped : p + PAGE <= heap_end

\* Until it is freed the header of a block callers hold keeps its size: neither a
\* split nor a merge of its neighbours moves its end.
LiveBlocksStay ==
  [][\A p \in DOMAIN live \cap DOMAIN live' :
       p - HDR \in DOMAIN hdr' /\ hdr'[p - HDR].size = hdr[p - HDR].size]_vars

\* The heap is expanded only when no free chunk is large enough: the walk has passed
\* every chunk.
ExpandsOnlyWhenFull ==
  [][StartExpand => \A a \in Chunks : hdr[a].used \/ hdr[a].size < Size]_vars

\* kmalloc() ends its walk over the list: it returns a block or the processor stops.
KmallocEnds == pc = "walk" ~> pc \in {"idle", "fault"}

\* The heap implements an allocator of disjoint blocks within its arena.
Blocks == INSTANCE BlockAllocator
  WITH Lo <- HEAP_START, Hi <- HEAP_END_INIT,
       blocks <- [p \in DOMAIN live |-> hdr[p - HDR].size]
ImplementsBlocks == Blocks!Spec

\* heap.cpp:86-102, "No free chunk found so expand heap and try again": with
\* frames to spare kmalloc() never brings the processor down.
ExpansionSucceeds == pc # "fault"
=============================================================================
