--------------------------- MODULE Memory_proofs ---------------------------
(***************************************************************************)
(* Proofs about the memory managers: first PMM alone, then Memory, which   *)
(* composes it with VMM and the heap's expand(), for every memory map the  *)
(* boot protocol allows, every size of a bitmap word, a page and a table,  *)
(* and every set of pages that callers map.                                *)
(*   PMM      the invariant IInv follows the phases of init(): what is     *)
(*            zero in the bitmap is, while step 4 runs, what it has        *)
(*            visited, while step 5 runs, the usable memory less what it   *)
(*            has marked, and afterwards what nobody owns.                 *)
(*   Memory   the page tables are taken apart as functions of their        *)
(*            contents and root: linking an empty table and writing the    *)
(*            entry of a last-level table keep them a tree, and change the *)
(*            translation of no page and of one.  On that the invariant    *)
(*            MInv rests: IInv, and who owns each frame, where the call    *)
(*            under way stands, what the TLB may hold, where translations  *)
(*            lead, and which frame expand() took for which page.          *)
(***************************************************************************)
EXTENDS Memory, FiniteSetTheorems, TLAPS

-----------------------------------------------------------------------------
(* PMM *)

USE DEF bitmap_set, bitmap_clear

\* The entry at which init() has arrived was visited up to its k-th page.
Cleared ==
  {q \in Usable : \E j \in Entries : /\ memmap[j].usable /\ q \in EntryPages(memmap[j])
                                     /\ j < i \/ (j = i /\ q < memmap[j].base + k)}

\* Every usable entry that the search of step 1 has passed ends below total_pages.
TopsBounded(m) ==
  \A j \in Entries : j < m /\ memmap[j].usable =>
                       memmap[j].base + memmap[j].length <= total_pages

Placed == pc \in {"clear", "mark", "ready"}

ScanInv ==
  pc = "scan" => /\ i \in 1 .. Len(memmap) + 1 /\ TopsBounded(i)
                 /\ free_pages = 0 /\ k = 0
ClearInv ==
  pc = "clear" => /\ i \in 1 .. Len(memmap) + 1
                  /\ i \in Entries /\ memmap[i].usable => k <= memmap[i].length
                  /\ Zeros = Cleared
MarkInv ==
  pc = "mark" => /\ k <= BitmapPages
                 /\ Zeros = Usable \ (base .. base + k - 1)

IInv ==
  /\ TypeOK
  /\ ScanInv /\ ClearInv /\ MarkInv
  /\ pc # "scan" => TopsBounded(Len(memmap) + 1)
  /\ pc # "ready" => owned = {}
  /\ BitmapInUsableMemory
  /\ FreeCountExact
  /\ PagesPartitioned
-----------------------------------------------------------------------------
(* Arithmetic of the bitmap's size. *)

\* Rounding up gives a natural number, the least that covers a.
LEMMA CeilDivBound ==
  ASSUME NEW a \in Nat, NEW b \in Nat \ {0}
  PROVE  /\ CeilDiv(a, b) \in Nat
         /\ \A m \in Nat : a <= m * b => CeilDiv(a, b) <= m
<1> DEFINE d == (a + b - 1) \div b
<1>1. d \in Int /\ d * b <= a + b - 1 /\ a + b - 1 < (d + 1) * b
  OBVIOUS
<1>2. d >= 0
  <2>1. ASSUME d <= -1 PROVE FALSE
    <3>1. (d + 1) * b <= 0
      BY <1>1, <2>1
    <3>2. QED BY <1>1, <3>1
  <2>2. QED BY <1>1, <2>1
<1>3. ASSUME NEW m \in Nat, a <= m * b PROVE d <= m
  <2>1. ASSUME d >= m + 1 PROVE FALSE
    <3>1. d * b >= (m + 1) * b
      BY <1>1, <2>1
    <3>2. (m + 1) * b = m * b + b
      OBVIOUS
    <3>3. QED BY <1>1, <1>3, <3>1, <3>2
  <2>2. QED BY <1>1, <2>1
<1>4. QED BY <1>1, <1>2, <1>3 DEF CeilDiv

\* Rounding up covers a.
LEMMA CeilDivCovers ==
  ASSUME NEW a \in Nat, NEW b \in Nat \ {0}
  PROVE  CeilDiv(a, b) * b >= a
<1> DEFINE d == (a + b - 1) \div b
<1>1. d \in Int /\ a + b - 1 < (d + 1) * b
  OBVIOUS
<1>2. (d + 1) * b = d * b + b
  BY <1>1
<1>3. QED BY <1>1, <1>2 DEF CeilDiv

\* What the boot protocol guarantees of the map in use, spelled out.
LEMMA MemMapFacts ==
  ASSUME TypeOK
  PROVE  /\ Len(memmap) \in Nat
         /\ \A j \in Entries : /\ memmap[j].base \in Nat /\ memmap[j].length \in Nat \ {0}
                               /\ memmap[j].usable \in BOOLEAN
                               /\ memmap[j].usable => memmap[j].base > 0
         /\ \A j, m \in Entries : j # m =>
              \A q \in EntryPages(memmap[j]) : q \notin EntryPages(memmap[m])
         /\ \A j \in Entries : memmap[j].usable => EntryPages(memmap[j]) \subseteq Usable
         /\ \A q \in Usable : /\ q \in Nat /\ q > 0
                              /\ \E j \in Entries : memmap[j].usable /\ q \in EntryPages(memmap[j])
<1>1. MemMapOK(memmap)
  BY MemMapAssumption DEF TypeOK
<1>2. Len(memmap) \in Nat /\ \A j \in Entries : memmap[j] \in MemMapEntry
  BY <1>1 DEF MemMapOK, Entries
<1>3. /\ Len(memmap) \in Nat
      /\ \A j \in Entries : /\ memmap[j].base \in Nat /\ memmap[j].length \in Nat \ {0}
                            /\ memmap[j].usable \in BOOLEAN
                            /\ memmap[j].usable => memmap[j].base > 0
  BY <1>1, <1>2 DEF MemMapOK, Entries, MemMapEntry
<1>4. \A j, m \in Entries : j # m =>
        \A q \in EntryPages(memmap[j]) : q \notin EntryPages(memmap[m])
  BY <1>1 DEF MemMapOK, Entries
<1>5. \A j \in Entries : memmap[j].usable => EntryPages(memmap[j]) \subseteq Usable
  BY DEF Usable
<1>6. \A q \in Usable : \E j \in Entries : memmap[j].usable /\ q \in EntryPages(memmap[j])
  BY DEF Usable
<1>7. \A q \in Usable : q \in Nat /\ q > 0
  BY <1>3, <1>6 DEF EntryPages
<1>8. QED BY <1>2, <1>3, <1>4, <1>5, <1>6, <1>7

\* The bitmap is no longer than an entry it fits in.
LEMMA BitmapPagesType ==
  ASSUME TypeOK
  PROVE  /\ BitmapBits \in Nat /\ BitmapPages \in Nat
         /\ \A j \in Entries : Fits(j) => BitmapPages <= memmap[j].length
<1>1. CeilDiv(total_pages, WordBits) \in Nat
  BY CeilDivBound, BitsAssumption DEF TypeOK
<1>2. BitmapBits \in Nat
  BY <1>1, BitsAssumption DEF BitmapBits
<1>3. \A j \in Entries : memmap[j].length \in Nat
  BY MemMapFacts
<1>4. QED
  BY <1>2, <1>3, CeilDivBound, BitsAssumption DEF BitmapPages, Fits

\* The 0 bits form a finite set, and stepping one bit steps its cardinality.
LEMMA ZerosFinite ==
  ASSUME TypeOK
  PROVE  /\ IsFiniteSet(Zeros) /\ Cardinality(Zeros) \in Nat
         /\ \A q : Cardinality(Zeros \cup {q}) =
                     IF q \in Zeros THEN Cardinality(Zeros) ELSE Cardinality(Zeros) + 1
         /\ \A q : Cardinality(Zeros \ {q}) =
                     IF q \in Zeros THEN Cardinality(Zeros) - 1 ELSE Cardinality(Zeros)
<1>1. IsFiniteSet(0 .. total_pages - 1)
  BY FS_Interval DEF TypeOK
<1>2. Zeros \in SUBSET (0 .. total_pages - 1)
  BY DEF Zeros
<1>3. IsFiniteSet(Zeros)
  BY <1>1, <1>2, FS_Subset
<1>4. QED
  BY <1>3, FS_CardinalityType, FS_AddElement, FS_RemoveElement

-----------------------------------------------------------------------------
(* The invariant: initially, and through each step of init(), alloc() and
   free(). *)

LEMMA InitIInv == Init => IInv
<1> SUFFICES ASSUME Init PROVE IInv
  OBVIOUS
<1>1. TypeOK /\ pc = "scan"
  BY DEF Init, TypeOK, NULL
<1>2. ScanInv
  BY <1>1, MemMapFacts DEF Init, ScanInv, TopsBounded, Entries
<1>3. QED
  BY <1>1, <1>2 DEF Init, IInv, ClearInv, MarkInv, BitmapInUsableMemory, FreeCountExact,
                    PagesPartitioned

LEMMA ScanStep == ASSUME IInv, Scan PROVE IInv'
<1>1. TypeOK' /\ pc' = "scan"
  <2>1. (memmap[i].base + memmap[i].length) \in Nat
    BY MemMapFacts DEF IInv, Scan
  <2>2. total_pages' \in Nat /\ total_pages' >= total_pages
    BY <2>1 DEF IInv, TypeOK, Scan
  <2>3. bitmap' \subseteq 0 .. total_pages' - 1
    BY <2>2 DEF IInv, TypeOK, Scan
  <2>4. QED BY <2>2, <2>3 DEF IInv, TypeOK, Scan
<1>2. ScanInv'
  <2>1. i' \in 1 .. Len(memmap') + 1
    BY MemMapFacts DEF IInv, Scan, Entries, TypeOK
  <2>2. ASSUME NEW j \in Entries, j < i', memmap[j].usable
        PROVE  memmap[j].base + memmap[j].length <= total_pages'
    <3>1. j < i \/ j = i
      BY <2>2 DEF Scan, IInv, TypeOK, Entries
    <3>2. \A m \in Entries : memmap[m].base + memmap[m].length \in Nat
      BY MemMapFacts DEF IInv
    <3>3. CASE j < i
      BY <2>2, <3>2, <3>3 DEF Scan, IInv, ScanInv, TopsBounded, TypeOK
    <3>4. CASE j = i
      BY <2>2, <3>2, <3>4 DEF Scan, IInv, TypeOK
    <3>5. QED BY <3>1, <3>3, <3>4
  <2>3. QED
    BY <2>1, <2>2 DEF ScanInv, TopsBounded, Scan, IInv, Entries
<1>3. owned' = {}
  BY DEF IInv, Scan
<1>4. QED
  BY <1>1, <1>2, <1>3 DEF IInv, ClearInv, MarkInv, BitmapInUsableMemory, FreeCountExact,
                         PagesPartitioned

LEMMA PlaceBitmapStep == ASSUME IInv, PlaceBitmap PROVE IInv'
<1>1. PICK j \in Entries : Fits(j) /\ base' = memmap[j].base
  BY DEF PlaceBitmap
<1>2. TypeOK' /\ pc' = "clear" /\ pc = "scan"
  BY <1>1, MemMapFacts DEF IInv, TypeOK, PlaceBitmap
<1>3. Zeros' = {}
  BY <1>2 DEF Zeros, PlaceBitmap, TypeOK
<1>4. Cleared' = {}
  <2>1. ASSUME NEW m \in Entries, NEW q \in EntryPages(memmap[m]),
               m < 1 \/ (m = 1 /\ q < memmap[m].base + 0)
        PROVE  FALSE
    BY <2>1, MemMapFacts DEF IInv, Entries, EntryPages
  <2>2. QED
    BY <2>1 DEF Cleared, PlaceBitmap, Entries
<1>5. ClearInv' /\ TopsBounded(Len(memmap) + 1)'
  BY <1>2, <1>3, <1>4, MemMapFacts
     DEF IInv, ScanInv, TopsBounded, ClearInv, PlaceBitmap, Entries
<1>6. BitmapInUsableMemory'
  <2>1. BitmapPages \in Nat /\ BitmapPages <= memmap[j].length
    BY <1>1, BitmapPagesType DEF IInv
  <2>2. BitmapPages' = BitmapPages
    BY DEF PlaceBitmap, BitmapPages, BitmapBits
  <2>3. base' .. base' + BitmapPages' - 1 \subseteq EntryPages(memmap[j])
    BY <1>1, <2>1, <2>2, MemMapFacts DEF IInv, EntryPages
  <2>4. EntryPages(memmap[j]) \subseteq Usable
    BY <1>1, MemMapFacts DEF IInv, Fits
  <2>5. Usable' = Usable
    BY DEF PlaceBitmap, Usable, Entries
  <2>6. QED
    BY <2>3, <2>4, <2>5 DEF BitmapInUsableMemory, BitmapFrames
<1>7. FreeCountExact'
  BY <1>2, <1>3, FS_EmptySet DEF FreeCountExact, IInv, ScanInv, PlaceBitmap
<1>8. QED
  BY <1>2, <1>5, <1>6, <1>7
     DEF IInv, ScanInv, MarkInv, PagesPartitioned, PlaceBitmap, TopsBounded, Entries

LEMMA NoSpaceStep == ASSUME IInv, NoSpaceForBitmap PROVE IInv'
<1>1. TypeOK' /\ pc' = "nobitmap"
  BY DEF IInv, TypeOK, NoSpaceForBitmap
<1>2. TopsBounded(Len(memmap) + 1)'
  BY DEF IInv, ScanInv, TopsBounded, NoSpaceForBitmap, Entries
<1>3. QED
  BY <1>1, <1>2 DEF IInv, ScanInv, ClearInv, MarkInv, BitmapInUsableMemory, FreeCountExact,
                    PagesPartitioned, NoSpaceForBitmap

\* The page that ClearPage visits was not visited before: entries are disjoint.
LEMMA ClearPageStep == ASSUME IInv, ClearPage PROVE IInv'
<1> DEFINE q == memmap[i].base + k
<1>1. i \in Entries /\ q \in EntryPages(memmap[i]) /\ q \in Usable /\ q \in 0 .. total_pages - 1
  <2>1. /\ i \in Entries /\ memmap[i].usable /\ k < memmap[i].length
        /\ memmap[i].base \in Nat /\ memmap[i].length \in Nat /\ k \in Nat /\ total_pages \in Nat
    BY MemMapFacts DEF IInv, TypeOK, ClearPage
  <2>2. memmap[i].base + memmap[i].length <= total_pages
    BY <2>1, MemMapFacts DEF IInv, TopsBounded, ClearPage, Entries
  <2>3. q \in Nat /\ memmap[i].base <= q /\ q < memmap[i].base + memmap[i].length
    BY <2>1
  <2>4. q \in EntryPages(memmap[i])
    BY <2>1, <2>3 DEF EntryPages
  <2>5. q \in Usable
    BY <2>1, <2>4, MemMapFacts DEF IInv
  <2>6. QED BY <2>1, <2>2, <2>3, <2>4, <2>5
<1> HIDE DEF q
<1>2. TypeOK'
  <2>1. bitmap' \subseteq bitmap
    BY DEF ClearPage
  <2>2. k' \in Nat /\ free_pages' \in Int
    BY DEF IInv, TypeOK, ClearPage
  <2>3. UNCHANGED <<memmap, pc, i, base, total_pages, owned>>
    BY DEF ClearPage
  <2>4. QED BY <2>1, <2>2, <2>3 DEF IInv, TypeOK
<1>3. Zeros' = Zeros \cup {q}
  BY <1>1 DEF Zeros, ClearPage, q
<1>4. Cleared' = Cleared \cup {q}
  <2>1. Cleared' = {r \in Usable : \E j \in Entries :
                      /\ memmap[j].usable /\ r \in EntryPages(memmap[j])
                      /\ j < i \/ (j = i /\ r < memmap[j].base + (k + 1))}
    BY DEF Cleared, ClearPage, Usable, Entries
  <2>2. ASSUME NEW r \in Usable, NEW j \in Entries, r \in EntryPages(memmap[j]), j = i
        PROVE  r < memmap[j].base + (k + 1) <=> r < memmap[j].base + k \/ r = q
    <3>1. memmap[j].base \in Nat /\ r \in Nat /\ k \in Nat
      BY MemMapFacts DEF IInv, TypeOK
    <3>2. QED BY <2>2, <3>1 DEF q
  <2>3. ASSUME NEW r \in Cleared' PROVE r \in Cleared \/ r = q
    BY <2>1, <2>2, <2>3 DEF Cleared
  <2>4. Cleared \subseteq Cleared'
    BY <2>1, <2>2 DEF Cleared
  <2>5. q \in Cleared'
    BY <1>1, <2>1, <2>2 DEF ClearPage
  <2>6. QED BY <2>3, <2>4, <2>5
<1>5. q \notin Zeros
  <2>1. SUFFICES ASSUME q \in Cleared PROVE FALSE
    BY DEF IInv, ClearInv, ClearPage
  <2>2. PICK j \in Entries : /\ q \in EntryPages(memmap[j])
                             /\ j < i \/ (j = i /\ q < memmap[j].base + k)
    BY <2>1 DEF Cleared
  <2>3. j = i
    BY <1>1, <2>2, MemMapFacts DEF IInv
  <2>4. memmap[i].base \in Nat /\ k \in Nat /\ i \in Int
    BY <1>1, MemMapFacts DEF IInv, TypeOK
  <2>5. QED BY <2>2, <2>3, <2>4 DEF q
<1>6. ClearInv'
  <2>1. k + 1 <= memmap[i].length
    BY MemMapFacts DEF IInv, TypeOK, ClearPage
  <2>2. QED
    BY <1>3, <1>4, <2>1 DEF ClearInv, ClearPage, IInv, Entries
<1>7. FreeCountExact'
  BY <1>3, <1>5, ZerosFinite DEF FreeCountExact, IInv, ClearPage
<1>8. BitmapInUsableMemory' /\ TopsBounded(Len(memmap) + 1)'
  BY DEF IInv, BitmapInUsableMemory, TopsBounded, ClearPage, BitmapFrames, BitmapPages,
         BitmapBits, Usable, Entries
<1>9. QED
  BY <1>2, <1>6, <1>7, <1>8 DEF IInv, ScanInv, MarkInv, PagesPartitioned, ClearPage

LEMMA NextEntryStep == ASSUME IInv, NextEntry PROVE IInv'
<1>1. TypeOK' /\ i \in Entries
  BY DEF IInv, TypeOK, NextEntry
<1>2. Cleared' = Cleared
  <2>1. Cleared' = {r \in Usable : \E j \in Entries :
                      /\ memmap[j].usable /\ r \in EntryPages(memmap[j])
                      /\ j < i + 1 \/ (j = i + 1 /\ r < memmap[j].base + 0)}
    BY DEF Cleared, NextEntry, Usable, Entries
  <2>2. ASSUME NEW j \in Entries, NEW r \in EntryPages(memmap[j]), memmap[j].usable
        PROVE  (j < i + 1 \/ (j = i + 1 /\ r < memmap[j].base + 0))
                 <=> (j < i \/ (j = i /\ r < memmap[j].base + k))
    <3>1. /\ memmap[j].base \in Nat /\ memmap[j].length \in Nat /\ k \in Nat
          /\ i \in Int /\ j \in Int
      BY <1>1, MemMapFacts DEF IInv, TypeOK, Entries
    <3>2. r \in Int /\ memmap[j].base <= r /\ r < memmap[j].base + memmap[j].length
      BY <3>1 DEF EntryPages
    <3>3. j = i => k >= memmap[j].length
      BY <2>2 DEF NextEntry
    <3>4. QED BY <3>1, <3>2, <3>3
  <2>3. QED BY <2>1, <2>2 DEF Cleared
<1>3. ClearInv'
  <2>1. i' \in 1 .. Len(memmap) + 1
    BY <1>1, MemMapFacts DEF IInv, NextEntry, Entries
  <2>2. \A j \in Entries : memmap[j].length >= 0
    BY MemMapFacts DEF IInv
  <2>3. Zeros' = Zeros
    BY DEF Zeros, NextEntry
  <2>4. QED
    BY <1>2, <2>1, <2>2, <2>3 DEF ClearInv, NextEntry, IInv, Entries
<1>4. FreeCountExact'
  BY DEF FreeCountExact, IInv, NextEntry, Zeros
<1>5. BitmapInUsableMemory' /\ TopsBounded(Len(memmap) + 1)'
  BY DEF IInv, BitmapInUsableMemory, TopsBounded, NextEntry, BitmapFrames, BitmapPages,
         BitmapBits, Usable, Entries
<1>6. QED
  BY <1>1, <1>3, <1>4, <1>5 DEF IInv, ScanInv, MarkInv, PagesPartitioned, NextEntry

LEMMA ClearDoneStep == ASSUME IInv, ClearDone PROVE IInv'
<1>1. TypeOK'
  BY DEF IInv, TypeOK, ClearDone
<1>2. Zeros' = Usable
  <2>1. \A j \in Entries : j < i
    BY MemMapFacts DEF IInv, ClearDone, Entries
  <2>2. Usable \subseteq Cleared
    BY <2>1, MemMapFacts DEF IInv, Cleared
  <2>3. Zeros' = Cleared
    BY DEF Zeros, ClearDone, IInv, ClearInv
  <2>4. QED BY <2>2, <2>3 DEF Cleared
<1>3. MarkInv'
  <2>1. BitmapPages' = BitmapPages /\ BitmapPages >= 0 /\ base' \in Nat /\ k' = 0
    BY BitmapPagesType DEF IInv, TypeOK, ClearDone, BitmapPages, BitmapBits
  <2>2. base' .. base' + k' - 1 = {}
    <3>1. \A b \in Nat : b .. b + 0 - 1 = {}
      OBVIOUS
    <3>2. QED BY <2>1, <3>1
  <2>3. Usable' = Usable
    BY DEF ClearDone, Usable, Entries
  <2>4. QED BY <1>2, <2>1, <2>2, <2>3 DEF MarkInv
<1>4. FreeCountExact'
  BY DEF FreeCountExact, IInv, ClearDone, Zeros
<1>5. BitmapInUsableMemory' /\ TopsBounded(Len(memmap) + 1)'
  BY DEF IInv, BitmapInUsableMemory, TopsBounded, ClearDone, BitmapFrames, BitmapPages,
         BitmapBits, Usable, Entries
<1>6. QED
  BY <1>1, <1>3, <1>4, <1>5 DEF IInv, ScanInv, ClearInv, PagesPartitioned, ClearDone

\* The page that MarkBitmapPage marks was free: it is usable and not yet marked.
LEMMA MarkPageStep == ASSUME IInv, MarkBitmapPage PROVE IInv'
<1>1. /\ base \in Nat /\ k \in Nat /\ BitmapPages \in Nat /\ k < BitmapPages
      /\ BitmapPages' = BitmapPages
  BY BitmapPagesType DEF IInv, TypeOK, MarkBitmapPage, BitmapPages, BitmapBits
<1>2. base + k \in Usable /\ base + k \in Zeros
  <2>1. base + k \in BitmapFrames
    BY <1>1 DEF BitmapFrames
  <2>2. base + k \in Usable
    BY <2>1 DEF IInv, BitmapInUsableMemory, MarkBitmapPage
  <2>3. base + k \notin base .. base + k - 1
    BY <1>1
  <2>4. QED BY <2>2, <2>3 DEF IInv, MarkInv, MarkBitmapPage
<1>3. Zeros' = Zeros \ {base + k}
  BY DEF Zeros, MarkBitmapPage
<1>4. TypeOK'
  <2>1. bitmap' \subseteq 0 .. total_pages - 1
    BY <1>2 DEF IInv, TypeOK, MarkBitmapPage, Zeros
  <2>2. k' \in Nat /\ free_pages' \in Int
    BY DEF IInv, TypeOK, MarkBitmapPage
  <2>3. UNCHANGED <<memmap, pc, i, base, total_pages, owned>>
    BY DEF MarkBitmapPage
  <2>4. QED BY <2>1, <2>2, <2>3 DEF IInv, TypeOK
<1>5. MarkInv'
  <2>1. base .. base + (k + 1) - 1 = (base .. base + k - 1) \cup {base + k}
    BY <1>1
  <2>2. Zeros' = Usable \ (base .. base + (k + 1) - 1)
    BY <1>3, <2>1 DEF IInv, MarkInv, MarkBitmapPage
  <2>3. Usable' = Usable /\ k' = k + 1 /\ base' = base
    BY DEF MarkBitmapPage, Usable, Entries
  <2>4. QED BY <1>1, <2>2, <2>3 DEF MarkInv
<1>6. FreeCountExact'
  BY <1>2, <1>3, ZerosFinite DEF FreeCountExact, IInv, MarkBitmapPage
<1>7. BitmapInUsableMemory' /\ TopsBounded(Len(memmap) + 1)'
  BY DEF IInv, BitmapInUsableMemory, TopsBounded, MarkBitmapPage, BitmapFrames, BitmapPages,
         BitmapBits, Usable, Entries
<1>8. QED
  BY <1>4, <1>5, <1>6, <1>7 DEF IInv, ScanInv, ClearInv, PagesPartitioned, MarkBitmapPage

LEMMA InitDoneStep == ASSUME IInv, InitDone PROVE IInv'
<1>1. TypeOK' /\ owned' = {}
  BY DEF IInv, TypeOK, InitDone
<1>2. k = BitmapPages
  BY BitmapPagesType DEF IInv, TypeOK, MarkInv, InitDone
<1>3. Zeros' = Usable \ BitmapFrames /\ BitmapFrames \subseteq Usable
  BY <1>2 DEF IInv, MarkInv, InitDone, Zeros, BitmapFrames, BitmapInUsableMemory
<1>4. BitmapFrames' = BitmapFrames /\ Usable' = Usable
  BY DEF InitDone, BitmapFrames, BitmapPages, BitmapBits, Usable, Entries
<1>5. PagesPartitioned' /\ BitmapInUsableMemory'
  <2>1. NULL \notin Usable
    BY MemMapFacts DEF IInv, NULL
  <2>2. QED BY <1>1, <1>3, <1>4, <2>1 DEF PagesPartitioned, BitmapInUsableMemory
<1>6. FreeCountExact' /\ TopsBounded(Len(memmap) + 1)'
  BY DEF IInv, FreeCountExact, InitDone, Zeros, TopsBounded, Entries
<1>7. QED
  BY <1>1, <1>5, <1>6 DEF IInv, ScanInv, ClearInv, MarkInv, InitDone

\* alloc() and free() leave alone everything that init() computed.
LEMMA SameMemory ==
  ASSUME IInv, UNCHANGED <<memmap, base, total_pages>>, pc # "scan"
  PROVE  /\ Usable' = Usable /\ BitmapFrames' = BitmapFrames
         /\ TopsBounded(Len(memmap) + 1)'
  BY DEF IInv, TopsBounded, BitmapFrames, BitmapPages, BitmapBits, Usable, Entries

LEMMA AllocStep == ASSUME IInv, Alloc PROVE IInv'
<1>1. PICK q \in Zeros :
        /\ pc = "ready"
        /\ bitmap' = bitmap \cup {q} /\ free_pages' = free_pages - 1
        /\ owned' = IF q = NULL THEN owned ELSE owned \cup {q}
        /\ UNCHANGED <<memmap, pc, i, k, base, total_pages>>
  BY DEF Alloc
<1>2. q \in Usable /\ q \in Nat /\ q > 0 /\ q \in 0 .. total_pages - 1
  BY <1>1, MemMapFacts DEF IInv, PagesPartitioned, Zeros
<1>3. Zeros' = Zeros \ {q} /\ owned' = owned \cup {q}
  BY <1>1, <1>2 DEF Zeros, NULL
<1>4. TypeOK'
  BY <1>1, <1>2, <1>3 DEF IInv, TypeOK, NULL
<1>5. FreeCountExact'
  BY <1>1, <1>3, ZerosFinite DEF FreeCountExact, IInv
<1>6. PagesPartitioned' /\ BitmapInUsableMemory'
  BY <1>1, <1>2, <1>3, SameMemory DEF IInv, PagesPartitioned, BitmapInUsableMemory
<1>7. QED
  BY <1>1, <1>3, <1>4, <1>5, <1>6, SameMemory DEF IInv, ScanInv, ClearInv, MarkInv

LEMMA FreeStep == ASSUME IInv, NEW q \in owned, Free(q) PROVE IInv'
<1>1. q \in Usable /\ q \notin Zeros /\ q \notin BitmapFrames /\ pc = "ready" /\ q # NULL
  BY DEF IInv, PagesPartitioned, Free, TypeOK
<1>2. q \in 0 .. total_pages - 1
  <2>1. PICK j \in Entries : memmap[j].usable /\ q \in EntryPages(memmap[j])
    BY <1>1, MemMapFacts DEF IInv
  <2>2. memmap[j].base \in Nat /\ memmap[j].length \in Nat /\ Len(memmap) \in Nat
    BY MemMapFacts DEF IInv
  <2>3. memmap[j].base + memmap[j].length <= total_pages
    BY <1>1, <2>1, <2>2 DEF IInv, TopsBounded, Entries
  <2>4. QED BY <2>1, <2>2, <2>3 DEF EntryPages, IInv, TypeOK
<1>3. Zeros' = Zeros \cup {q} /\ owned' = owned \ {q}
  BY <1>2 DEF Zeros, Free
<1>4. TypeOK'
  <2>1. bitmap' \subseteq bitmap /\ owned' \subseteq owned
    BY DEF Free
  <2>2. free_pages' \in Int
    BY DEF IInv, TypeOK, Free
  <2>3. UNCHANGED <<memmap, pc, i, k, base, total_pages>>
    BY DEF Free
  <2>4. QED BY <2>1, <2>2, <2>3 DEF IInv, TypeOK
<1>5. FreeCountExact'
  BY <1>1, <1>3, ZerosFinite DEF FreeCountExact, IInv, Free
<1>6. PagesPartitioned' /\ BitmapInUsableMemory'
  BY <1>1, <1>3, SameMemory DEF IInv, PagesPartitioned, BitmapInUsableMemory, Free
<1>7. QED
  BY <1>1, <1>4, <1>5, <1>6, SameMemory DEF IInv, ScanInv, ClearInv, MarkInv, Free

\* A step that changes nothing but the control point of an allocator without a
\* bitmap.
LEMMA QuietSteps ==
  ASSUME IInv, AllocFails \/ AllocWithoutBitmap \/ UNCHANGED vars
  PROVE  IInv'
<1>2. CASE AllocWithoutBitmap
  <2>1. TypeOK'
    BY <1>2 DEF AllocWithoutBitmap, IInv, TypeOK, NULL
  <2>2. QED
    BY <1>2, <2>1, SameMemory
       DEF AllocWithoutBitmap, IInv, ScanInv, ClearInv, MarkInv, BitmapInUsableMemory,
           FreeCountExact, PagesPartitioned
<1>3. CASE UNCHANGED vars
  <2>1. /\ Zeros' = Zeros /\ Usable' = Usable /\ BitmapPages' = BitmapPages
        /\ BitmapFrames' = BitmapFrames /\ Cleared' = Cleared
        /\ \A m : TopsBounded(m) => TopsBounded(m)'
    BY <1>3 DEF vars, Zeros, Usable, BitmapFrames, BitmapPages, BitmapBits, Cleared,
                TopsBounded, Entries
  <2>2. TypeOK'
    BY <1>3 DEF vars, IInv, TypeOK
  <2>3. ScanInv' /\ ClearInv' /\ MarkInv'
    BY <1>3, <2>1 DEF vars, IInv, ScanInv, ClearInv, MarkInv, TopsBounded, Entries
  <2>4. FreeCountExact' /\ PagesPartitioned' /\ BitmapInUsableMemory'
    BY <1>3, <2>1 DEF vars, IInv, FreeCountExact, PagesPartitioned, BitmapInUsableMemory
  <2>5. QED
    BY <1>3, <2>1, <2>2, <2>3, <2>4 DEF vars, IInv
<1>4. QED BY <1>2, <1>3 DEF AllocFails

LEMMA NextIInv == IInv /\ [Next]_vars => IInv'
<1> SUFFICES ASSUME IInv, [Next]_vars PROVE IInv'
  OBVIOUS
<1>1. CASE InitStep
  BY <1>1, ScanStep, PlaceBitmapStep, NoSpaceStep, ClearPageStep, NextEntryStep,
     ClearDoneStep, MarkPageStep, InitDoneStep DEF InitStep
<1>2. CASE Alloc
  BY <1>2, AllocStep
<1>3. CASE \E q \in owned : Free(q)
  BY <1>3, FreeStep
<1>4. CASE AllocFails \/ AllocWithoutBitmap \/ Fault \/ UNCHANGED vars
  BY <1>4, QuietSteps DEF Fault
<1>5. QED
  BY <1>1, <1>2, <1>3, <1>4 DEF Next

\* The strengthened invariant holds in every reachable state.
THEOREM IInvHolds == Spec => []IInv
BY InitIInv, NextIInv, PTL DEF Spec
-----------------------------------------------------------------------------
\* Every variable of the memory manager keeps its type.
THEOREM TypeCorrect == Spec => []TypeOK
<1>1. IInv => TypeOK
  BY DEF IInv
<1>2. QED BY <1>1, IInvHolds, PTL

\* free_pages counts the 0 bits exactly, through init(), alloc() and free().
THEOREM FreeCount == Spec => []FreeCountExact
<1>1. IInv => FreeCountExact
  BY DEF IInv
<1>2. QED BY <1>1, IInvHolds, PTL

\* The usable pages are partitioned into free, owned and bitmap pages: no page
\* is ever in the hands of two callers, or of a caller and the bitmap.
THEOREM Partition == Spec => []PagesPartitioned
<1>1. IInv => PagesPartitioned
  BY DEF IInv
<1>2. QED BY <1>1, IInvHolds, PTL

\* Both together, for every memory map and every sequence of calls.
THEOREM Accounted == Spec => []PagesAccounted
BY FreeCount, Partition, PTL DEF PagesAccounted

\* init() writes its bitmap inside usable memory only.
THEOREM BitmapPlacement == Spec => []BitmapInUsableMemory
<1>1. IInv => BitmapInUsableMemory
  BY DEF IInv
<1>2. QED BY <1>1, IInvHolds, PTL

\* No bit of the bitmap lies in a page that is free or owned.
THEOREM BitmapIsKept == Spec => []BitmapKept
<1>1. ASSUME IInv, pc = "ready", NEW q \in Zeros \cup owned, q >= base
      PROVE  (q - base) * PageBits >= BitmapBits
  <2>1. q \in Nat /\ base \in Nat /\ PageBits \in Nat \ {0}
    BY <1>1, BitsAssumption DEF IInv, TypeOK, Zeros
  <2>2. BitmapBits \in Nat /\ BitmapPages \in Nat
    BY <1>1, BitmapPagesType DEF IInv
  <2>3. q \notin BitmapFrames
    BY <1>1 DEF IInv, PagesPartitioned
  <2>4. q - base >= BitmapPages
    BY <1>1, <2>1, <2>2, <2>3 DEF BitmapFrames
  <2>5. BitmapPages * PageBits >= BitmapBits
    BY <2>1, <2>2, CeilDivCovers DEF BitmapPages
  <2>6. (q - base) * PageBits >= BitmapPages * PageBits
    BY <2>1, <2>2, <2>4
  <2>7. QED BY <2>1, <2>2, <2>5, <2>6
<1>2. IInv => BitmapKept
  <2>1. ASSUME IInv, NEW q \in Zeros \cup owned PROVE base \in Int /\ q \in Int
    BY <2>1 DEF IInv, TypeOK, Zeros
  <2>2. ASSUME NEW b \in Int, NEW q \in Int PROVE q < b \/ q >= b
    OBVIOUS
  <2>3. QED BY <1>1, <2>1, <2>2 DEF BitmapKept
<1>3. QED BY <1>2, IInvHolds, PTL

\* The memory manager implements the abstract page allocator: every one of its
\* steps publishes, hands out or takes back one page, or changes neither set.
THEOREM Refinement == Spec => ImplementsAllocator
<1> DEFINE pool == IF pc = "ready" THEN Zeros ELSE {}
<1>1. Init => Allocator!Init
  BY DEF Init, Allocator!Init
<1>2. ASSUME IInv, IInv', [Next]_vars PROVE [Allocator!Next]_(Allocator!vars)
  <2>1. CASE InitDone
    <3>1. pool = {} /\ owned = {} /\ owned' = owned /\ pool' = Zeros'
      BY <1>2, <2>1 DEF InitDone, IInv
    <3>2. Zeros' \subseteq Nat
      BY <1>2 DEF Zeros, IInv, TypeOK
    <3>3. QED
      BY <3>1, <3>2 DEF Allocator!Next, Allocator!Publish
  <2>2. CASE InitStep /\ ~InitDone
    <3>1. pool' = pool /\ owned' = owned
      BY <2>2 DEF InitStep, InitDone, Scan, PlaceBitmap, NoSpaceForBitmap, ClearPage, NextEntry,
                  ClearDone, MarkBitmapPage
    <3>2. QED BY <3>1 DEF Allocator!vars
  <2>3. CASE Alloc
    <3>1. PICK q \in Zeros : /\ bitmap' = bitmap \cup {q}
                             /\ owned' = IF q = NULL THEN owned ELSE owned \cup {q}
                             /\ pc = "ready" /\ pc' = pc /\ total_pages' = total_pages
      BY <2>3 DEF Alloc
    <3>2. pool' = pool \ {q} /\ owned' = owned \cup {q} /\ q \in pool
      BY <1>2, <3>1 DEF Zeros, IInv, PagesPartitioned
    <3>3. QED BY <3>2 DEF Allocator!Next, Allocator!Obtain
  <2>4. CASE \E q \in owned : Free(q)
    <3>1. PICK q \in owned : Free(q)
      BY <2>4
    <3>2. q \in Usable' /\ q \notin owned'
      BY <1>2, <3>1 DEF Free, IInv, PagesPartitioned, Usable, Entries
    <3>3. pool' = pool \cup {q} /\ owned' = owned \ {q}
      <4>1. q \in Zeros'
        BY <1>2, <3>1, <3>2 DEF Free, IInv, PagesPartitioned, BitmapFrames, BitmapPages, BitmapBits
      <4>2. QED BY <3>1, <4>1 DEF Free, Zeros
    <3>4. QED BY <3>3 DEF Allocator!Next, Allocator!GiveBack
  <2>5. CASE AllocFails \/ AllocWithoutBitmap \/ Fault \/ UNCHANGED vars
    <3>1. pool' = pool /\ owned' = owned
      BY <2>5 DEF AllocFails, AllocWithoutBitmap, Fault, vars, Zeros
    <3>2. QED BY <3>1 DEF Allocator!vars
  <2>6. QED
    BY <1>2, <2>1, <2>2, <2>3, <2>4, <2>5 DEF Next
<1>3. QED
  BY <1>1, <1>2, IInvHolds, PTL DEF ImplementsAllocator, Allocator!Spec, Spec

-----------------------------------------------------------------------------
(* Page tables, as functions from frames to tables: g is what they contain, *)
(* r their root.                                                            *)

Idx == V!Idx
Low == V!Idx \ V!High
Zero == V!Zero
None == -1                        \* no table

\* An entry, and the table it leads to.
Ent(g, t, x) == IF t \in DOMAIN g THEN g[t][x] ELSE Zero
Down(g, t, x) == IF Ent(g, t, x).present THEN Ent(g, t, x).frame ELSE None

\* The table of page v at a level.
Node3(g, r, v) == Down(g, r, V!Index(v, 4))
Node2(g, r, v) == Down(g, Node3(g, r, v), V!Index(v, 3))
Node1(g, r, v) == Down(g, Node2(g, r, v), V!Index(v, 2))
Node(g, r, v, l) ==
  IF l = 4 THEN r ELSE IF l = 3 THEN Node3(g, r, v) ELSE IF l = 2 THEN Node2(g, r, v)
  ELSE Node1(g, r, v)
LeafAt(g, r, v) == Ent(g, Node1(g, r, v), V!Index(v, 1))

\* The tables of a level, and that no two of their entries share one below.
Sub(g, T, S) == UNION {{g[t][x].frame : x \in {y \in S : g[t][y].present}} : t \in T}
Set3(g, r) == Sub(g, {r}, Low)
Set2(g, r) == Sub(g, Set3(g, r), Idx)
Set1(g, r) == Sub(g, Set2(g, r), Idx)
Apart(g, T, S) ==
  \A t, u \in T : \A x, y \in S :
    g[t][x].present /\ g[u][y].present /\ g[t][x].frame = g[u][y].frame => t = u /\ x = y

Typed(g) == DOMAIN g \subseteq Nat /\ g \in [DOMAIN g -> [Idx -> V!Entry]]
Tree(g, r) ==
  /\ Typed(g)
  /\ DOMAIN g = {r} \cup Set3(g, r) \cup Set2(g, r) \cup Set1(g, r)
  /\ r \notin Set3(g, r) \cup Set2(g, r) \cup Set1(g, r)
  /\ Set3(g, r) \cap Set2(g, r) = {} /\ Set2(g, r) \cap Set1(g, r) = {}
  /\ Set3(g, r) \cap Set1(g, r) = {}
  /\ Apart(g, {r}, Low) /\ Apart(g, Set3(g, r), Idx) /\ Apart(g, Set2(g, r), Idx)

\* What a table created for a page, or an entry written, makes of the tables.
Link(g, t, x, f) ==
  [u \in DOMAIN g \cup {f} |->
     IF u = f THEN [y \in Idx |-> Zero]
     ELSE [g EXCEPT ![t][x] = V!Present(f, FALSE)][u]]
Write(g, t, x, e) == [g EXCEPT ![t][x] = e]

LEMMA EntryFacts ==
  /\ V!Zero \in V!Entry /\ ~V!Zero.present /\ None \notin Nat
  /\ \A f \in Nat, b \in BOOLEAN :
       V!Present(f, b) \in V!Entry /\ V!Present(f, b).present /\ V!Present(f, b).frame = f
  /\ \A e \in V!Entry : e.present \in BOOLEAN /\ e.frame \in Nat
  /\ Low \subseteq Idx
BY DEF V!Zero, V!Entry, V!Present, None, Low, Idx

LEMMA SubMember ==
  ASSUME NEW g, NEW T, NEW S, NEW z
  PROVE  z \in Sub(g, T, S) <=> \E t \in T, x \in S : g[t][x].present /\ g[t][x].frame = z
BY DEF Sub

\* The definitions of VMM in these terms.
LEMMA SameTerms ==
  /\ V!PDPTs = Set3(tab, pml4) /\ V!PDs = Set2(tab, pml4) /\ V!PTs = Set1(tab, pml4)
  /\ V!NoSharing({pml4}, V!Idx \ V!High) <=> Apart(tab, {pml4}, Low)
  /\ V!NoSharing(V!PDPTs, V!Idx) <=> Apart(tab, Set3(tab, pml4), Idx)
  /\ V!NoSharing(V!PDs, V!Idx) <=> Apart(tab, Set2(tab, pml4), Idx)
<1>1. V!PDPTs = Set3(tab, pml4)
  BY DEF V!PDPTs, V!Below, Set3, Sub, Low
<1>2. V!PDs = Set2(tab, pml4)
  BY <1>1 DEF V!PDs, V!Below, Set2, Sub, Idx
<1>3. V!PTs = Set1(tab, pml4)
  BY <1>2 DEF V!PTs, V!Below, Set1, Sub, Idx
<1>4. QED BY <1>1, <1>2, <1>3 DEF V!NoSharing, Apart, Low, Idx

LEMMA SameLeaf ==
  ASSUME Typed(tab), NEW v
  PROVE  V!Leaf(v) = LeafAt(tab, pml4, v)
<1>1. None \notin DOMAIN tab /\ ~Zero.present
  BY EntryFacts DEF Typed, Zero
<1> HIDE DEF Zero, None
<1>2. QED BY <1>1 DEF V!Leaf, V!Lookup, LeafAt, Node1, Node2, Node3, Down, Ent, Zero

-----------------------------------------------------------------------------
(* A page's indices are the digits of its number. *)

LEMMA Digits ==
  ASSUME NEW E \in Nat \ {0}, NEW a \in Nat, NEW b \in Nat,
         a \div E = b \div E, a % E = b % E
  PROVE  a = b
OBVIOUS

LEMMA DigitType ==
  ASSUME NEW E \in Nat \ {0}, NEW a \in Nat
  PROVE  a \div E \in Nat /\ a % E \in 0 .. E - 1 /\ (a < E => a % E = a)
<1>1. a = E * (a \div E) + (a % E) /\ a % E \in 0 .. E - 1 /\ a \div E \in Int
  OBVIOUS
<1>2. a \div E >= 0
  <2>1. ASSUME a \div E <= -1 PROVE FALSE
    <3>1. E * (a \div E) <= -E
      BY <1>1, <2>1
    <3>2. QED BY <1>1, <3>1
  <2>2. QED BY <1>1, <2>1
<1>3. a < E => a \div E = 0
  <2>1. ASSUME a < E, a \div E >= 1 PROVE FALSE
    <3>1. E * (a \div E) >= E
      BY <1>1, <2>1
    <3>2. QED BY <1>1, <2>1, <3>1
  <2>2. QED BY <1>1, <1>2, <2>1
<1>4. QED BY <1>1, <1>2, <1>3

\* The parts of a page's number that its indices are.
LEMMA Indices ==
  ASSUME NEW v \in AllVirt
  PROVE  LET up == v \div ENTRIES
             upup == up \div ENTRIES
             top == upup \div ENTRIES
         IN  /\ v \in Nat /\ up \in Nat /\ upup \in Nat /\ top \in Nat
             /\ V!Index(v, 4) = top /\ 2 * top < ENTRIES /\ top < ENTRIES
             /\ V!Index(v, 3) = upup % ENTRIES /\ V!Index(v, 2) = up % ENTRIES
             /\ V!Index(v, 1) = v % ENTRIES
<1>1. /\ ENTRIES \in Nat \ {0}
      /\ v \in Nat /\ 2 * (((v \div ENTRIES) \div ENTRIES) \div ENTRIES) < ENTRIES
  BY VMMAssumption DEF V!ConstantsOK
<1> DEFINE up == v \div ENTRIES
           upup == up \div ENTRIES
           top == upup \div ENTRIES
<1>2. up \in Nat
  BY <1>1, DigitType
<1> HIDE DEF up
<1>3. upup \in Nat
  BY <1>1, <1>2, DigitType
<1> HIDE DEF upup
<1>4. top \in Nat
  BY <1>1, <1>3, DigitType
<1>5. 2 * top < ENTRIES
  BY <1>1 DEF up, upup
<1> HIDE DEF top
<1>6. top < ENTRIES
  BY <1>1, <1>4, <1>5
<1>7. top % ENTRIES = top
  BY <1>1, <1>4, <1>6, DigitType
<1>8. QED BY <1>1, <1>2, <1>3, <1>4, <1>5, <1>6, <1>7 DEF V!Index, up, upup, top

LEMMA IndexType ==
  ASSUME NEW v \in AllVirt
  PROVE  /\ V!Index(v, 4) \in Low
         /\ \A l \in 1 .. 4 : V!Index(v, l) \in Idx
<1>1. ENTRIES \in Nat \ {0} /\ Idx = 0 .. ENTRIES - 1
  BY VMMAssumption DEF V!ConstantsOK, V!Idx, Idx
<1> DEFINE up == v \div ENTRIES
           upup == up \div ENTRIES
           top == upup \div ENTRIES
<1>2. /\ v \in Nat /\ up \in Nat /\ upup \in Nat /\ top \in Nat
      /\ V!Index(v, 4) = top /\ 2 * top < ENTRIES /\ top < ENTRIES
      /\ V!Index(v, 3) = upup % ENTRIES /\ V!Index(v, 2) = up % ENTRIES
      /\ V!Index(v, 1) = v % ENTRIES
  BY Indices
<1> HIDE DEF up, upup, top
<1>3. V!Index(v, 4) \in Idx /\ V!Index(v, 4) \notin V!High
  BY <1>1, <1>2 DEF V!High
<1>4. V!Index(v, 3) \in Idx /\ V!Index(v, 2) \in Idx /\ V!Index(v, 1) \in Idx
  BY <1>1, <1>2, DigitType
<1>5. \A l \in 1 .. 4 : l = 1 \/ l = 2 \/ l = 3 \/ l = 4
  OBVIOUS
<1>6. QED BY <1>3, <1>4, <1>5 DEF Low, Idx

LEMMA IndicesDiffer ==
  ASSUME NEW v \in AllVirt, NEW w \in AllVirt,
         V!Index(v, 4) = V!Index(w, 4), V!Index(v, 3) = V!Index(w, 3),
         V!Index(v, 2) = V!Index(w, 2), V!Index(v, 1) = V!Index(w, 1)
  PROVE  v = w
<1>1. ENTRIES \in Nat \ {0}
  BY VMMAssumption DEF V!ConstantsOK
<1> DEFINE up(x) == x \div ENTRIES
           upup(x) == up(x) \div ENTRIES
           top(x) == upup(x) \div ENTRIES
<1>2. \A x \in {v, w} :
        /\ x \in Nat /\ up(x) \in Nat /\ upup(x) \in Nat
        /\ V!Index(x, 4) = top(x) /\ V!Index(x, 3) = upup(x) % ENTRIES
        /\ V!Index(x, 2) = up(x) % ENTRIES /\ V!Index(x, 1) = x % ENTRIES
  BY Indices
<1>3. upup(v) = upup(w)
  <2>1. /\ upup(v) \in Nat /\ upup(w) \in Nat
        /\ upup(v) \div ENTRIES = upup(w) \div ENTRIES /\ upup(v) % ENTRIES = upup(w) % ENTRIES
    BY <1>2
  <2> HIDE DEF upup
  <2>2. QED BY <1>1, <2>1, Digits
<1>4. up(v) = up(w)
  <2>1. /\ up(v) \in Nat /\ up(w) \in Nat
        /\ up(v) \div ENTRIES = up(w) \div ENTRIES /\ up(v) % ENTRIES = up(w) % ENTRIES
    BY <1>2, <1>3
  <2> HIDE DEF up
  <2>2. QED BY <1>1, <2>1, Digits
<1>5. QED BY <1>1, <1>2, <1>4, Digits

-----------------------------------------------------------------------------
(* Pages walk through the tree, each to an entry of its own. *)

LEMMA NodesInTree ==
  ASSUME NEW g, NEW r, Tree(g, r), NEW v \in AllVirt
  PROVE  /\ Node3(g, r, v) \in Set3(g, r) \cup {None}
         /\ Node2(g, r, v) \in Set2(g, r) \cup {None}
         /\ Node1(g, r, v) \in Set1(g, r) \cup {None}
         /\ None \notin DOMAIN g /\ r \in DOMAIN g
         /\ Set3(g, r) \subseteq DOMAIN g /\ Set2(g, r) \subseteq DOMAIN g /\ Set1(g, r) \subseteq DOMAIN g
<1>1. None \notin DOMAIN g /\ r \in DOMAIN g
  BY EntryFacts DEF Tree, Typed
<1>2. /\ Set3(g, r) \subseteq DOMAIN g /\ Set2(g, r) \subseteq DOMAIN g /\ Set1(g, r) \subseteq DOMAIN g
  BY DEF Tree
<1>3. V!Index(v, 4) \in Low /\ V!Index(v, 3) \in Idx /\ V!Index(v, 2) \in Idx
  BY IndexType
<1>4. ASSUME NEW T, NEW S, NEW t \in T \cup {None}, NEW x \in S, T \subseteq DOMAIN g
      PROVE  Down(g, t, x) \in Sub(g, T, S) \cup {None}
  <2>1. ~Zero.present
    BY EntryFacts DEF Zero
  <2>2. QED BY <1>1, <1>4, <2>1, SubMember DEF Down, Ent
<1>5. Node3(g, r, v) \in Set3(g, r) \cup {None}
  BY <1>1, <1>3, <1>4 DEF Node3, Set3
<1>6. Node2(g, r, v) \in Set2(g, r) \cup {None}
  BY <1>2, <1>3, <1>4, <1>5 DEF Node2, Set2
<1>7. Node1(g, r, v) \in Set1(g, r) \cup {None}
  BY <1>2, <1>3, <1>4, <1>6 DEF Node1, Set1
<1>8. QED BY <1>1, <1>2, <1>5, <1>6, <1>7

\* No two pages are translated by the same entry.
LEMMA OwnEntry ==
  ASSUME NEW g, NEW r, Tree(g, r), NEW v \in AllVirt, NEW w \in AllVirt,
         Node1(g, r, v) # None, Node1(g, r, v) = Node1(g, r, w),
         V!Index(v, 1) = V!Index(w, 1)
  PROVE  v = w
<1>1. /\ \A l \in 1 .. 4 : V!Index(v, l) \in Idx /\ V!Index(w, l) \in Idx
      /\ V!Index(v, 4) \in Low /\ V!Index(w, 4) \in Low
  BY IndexType
<1>2. /\ None \notin DOMAIN g /\ r \in DOMAIN g
      /\ \A x \in {v, w} : /\ Node3(g, r, x) \in Set3(g, r) \cup {None}
                           /\ Node2(g, r, x) \in Set2(g, r) \cup {None}
      /\ Set3(g, r) \subseteq DOMAIN g /\ Set2(g, r) \subseteq DOMAIN g
  BY NodesInTree
<1>3. ASSUME NEW T, NEW S, T \subseteq DOMAIN g, Apart(g, T, S),
             NEW t \in T \cup {None}, NEW u \in T \cup {None}, NEW x \in S, NEW y \in S,
             Down(g, t, x) # None, Down(g, t, x) = Down(g, u, y)
      PROVE  t = u /\ x = y /\ t # None
  <2>1. ~Zero.present
    BY EntryFacts DEF Zero
  <2>2. t # None /\ u # None /\ g[t][x].present /\ g[u][y].present /\ g[t][x].frame = g[u][y].frame
    BY <1>2, <1>3, <2>1 DEF Down, Ent
  <2>3. QED BY <1>3, <2>2 DEF Apart
<1>4. Apart(g, {r}, Low) /\ Apart(g, Set3(g, r), Idx) /\ Apart(g, Set2(g, r), Idx)
  BY DEF Tree
<1>5. /\ Node2(g, r, v) = Node2(g, r, w) /\ Node2(g, r, v) # None
      /\ V!Index(v, 2) = V!Index(w, 2)
  <2>1. V!Index(v, 2) \in Idx /\ V!Index(w, 2) \in Idx
    BY <1>1
  <2>2. QED BY <1>2, <1>3, <1>4, <2>1 DEF Node1
<1>6. /\ Node3(g, r, v) = Node3(g, r, w) /\ Node3(g, r, v) # None
      /\ V!Index(v, 3) = V!Index(w, 3)
  <2>1. V!Index(v, 3) \in Idx /\ V!Index(w, 3) \in Idx
    BY <1>1
  <2>2. QED BY <1>2, <1>3, <1>4, <1>5, <2>1 DEF Node2
<1>7. V!Index(v, 4) = V!Index(w, 4)
  BY <1>1, <1>2, <1>3, <1>4, <1>6 DEF Node3
<1>8. QED BY <1>5, <1>6, <1>7, IndicesDiffer

\* What a walk depends on.
LEMMA SubSame ==
  ASSUME NEW g, NEW h, NEW T, NEW S, \A t \in T, x \in S : h[t][x] = g[t][x]
  PROVE  Sub(h, T, S) = Sub(g, T, S) /\ (Apart(g, T, S) => Apart(h, T, S))
<1>1. \A z : z \in Sub(h, T, S) <=> z \in Sub(g, T, S)
  BY SubMember
<1>2. QED BY <1>1 DEF Apart

Rewrites(g, h, r, t, s, e) ==
  /\ Tree(h, r) /\ DOMAIN h = DOMAIN g /\ h[r] = g[r]
  /\ Set3(h, r) = Set3(g, r) /\ Set2(h, r) = Set2(g, r) /\ Set1(h, r) = Set1(g, r)
  /\ \A v \in AllVirt :
       /\ Node3(h, r, v) = Node3(g, r, v) /\ Node2(h, r, v) = Node2(g, r, v)
       /\ Node1(h, r, v) = Node1(g, r, v)
       /\ LeafAt(h, r, v) = IF Node1(g, r, v) = t /\ V!Index(v, 1) = s THEN e
                            ELSE LeafAt(g, r, v)

\* Writing an entry of a page table leaves the tree as it is, and changes the
\* translation of the one page.
LEMMA WriteKeepsTree ==
  ASSUME NEW g, NEW r, Tree(g, r), NEW t \in Set1(g, r), NEW s \in Idx, NEW e \in V!Entry,
         NEW h, h = Write(g, t, s, e)
  PROVE  Rewrites(g, h, r, t, s, e)
<1>1. /\ t \in DOMAIN g /\ t # r /\ t \notin Set3(g, r) /\ t \notin Set2(g, r)
      /\ r \in DOMAIN g
  BY DEF Tree
<1>2. /\ DOMAIN h = DOMAIN g /\ Typed(h)
      /\ \A u \in DOMAIN g : u # t => h[u] = g[u]
      /\ h[t][s] = e /\ \A x \in Idx : x # s => h[t][x] = g[t][x]
  BY <1>1 DEF Tree, Typed, Write
<1>3. Set3(g, r) \subseteq DOMAIN g /\ Set2(g, r) \subseteq DOMAIN g
  BY DEF Tree
<1>4. Set3(h, r) = Set3(g, r) /\ Apart(h, {r}, Low)
  <2>1. \A u \in {r}, x \in Low : h[u][x] = g[u][x]
    BY <1>1, <1>2
  <2>2. QED BY <2>1, SubSame DEF Set3, Tree
<1>5. Set2(h, r) = Set2(g, r) /\ Apart(h, Set3(h, r), Idx)
  <2>1. \A u \in Set3(g, r), x \in Idx : h[u][x] = g[u][x]
    BY <1>1, <1>2, <1>3
  <2>2. QED BY <1>4, <2>1, SubSame DEF Set2, Tree
<1>6. Set1(h, r) = Set1(g, r) /\ Apart(h, Set2(h, r), Idx)
  <2>1. \A u \in Set2(g, r), x \in Idx : h[u][x] = g[u][x]
    BY <1>1, <1>2, <1>3
  <2>2. QED BY <1>5, <2>1, SubSame DEF Set1, Tree
<1>7. Tree(h, r)
  BY <1>2, <1>4, <1>5, <1>6 DEF Tree
<1>8. ASSUME NEW v \in AllVirt
      PROVE  /\ Node3(h, r, v) = Node3(g, r, v) /\ Node2(h, r, v) = Node2(g, r, v)
             /\ Node1(h, r, v) = Node1(g, r, v)
             /\ LeafAt(h, r, v) = IF Node1(g, r, v) = t /\ V!Index(v, 1) = s THEN e
                                  ELSE LeafAt(g, r, v)
  <2>1. /\ Node3(g, r, v) \in Set3(g, r) \cup {None} /\ Node2(g, r, v) \in Set2(g, r) \cup {None}
        /\ None \notin DOMAIN g
    BY NodesInTree
  <2>2. \A u, x : u # t => Ent(h, u, x) = Ent(g, u, x) /\ Down(h, u, x) = Down(g, u, x)
    BY <1>2 DEF Ent, Down
  <2>3. Node3(h, r, v) = Node3(g, r, v)
    BY <1>1, <2>2 DEF Node3
  <2>4. Node2(h, r, v) = Node2(g, r, v)
    BY <1>1, <2>1, <2>2, <2>3 DEF Node2
  <2>5. Node1(h, r, v) = Node1(g, r, v)
    BY <1>1, <2>1, <2>2, <2>4 DEF Node1
  <2>6. V!Index(v, 1) \in Idx
    BY IndexType
  <2>7. QED BY <1>1, <1>2, <2>3, <2>4, <2>5, <2>6 DEF LeafAt, Ent
<1>9. h[r] = g[r]
  BY <1>1, <1>2
<1>10. QED BY <1>2, <1>4, <1>5, <1>6, <1>7, <1>8, <1>9 DEF Rewrites

\* The tables of a level, and the indices of their entries.
Tables(g, r, l) ==
  IF l = 4 THEN {r} ELSE IF l = 3 THEN Set3(g, r) ELSE IF l = 2 THEN Set2(g, r) ELSE Set1(g, r)
Slots(l) == IF l = 4 THEN Low ELSE Idx

Absent(g, t, x) == ~g[t][x].present

NewTable(g, h, t, s, f) ==
  /\ Typed(h) /\ DOMAIN h = DOMAIN g \cup {f}
  /\ \A u \in DOMAIN g : u # t => h[u] = g[u]
  /\ \A x \in Idx : ~h[f][x].present /\ h[f][x] = Zero
  /\ h[t][s].present /\ h[t][s].frame = f
  /\ \A x \in Idx : x # s => h[t][x] = g[t][x]

\* What a new table, empty and linked once, makes of the sets of tables.
LEMMA LinkFacts ==
  ASSUME NEW g, Typed(g), NEW t \in DOMAIN g, NEW s \in Idx,
         NEW f \in Nat, f \notin DOMAIN g, NEW h, h = Link(g, t, s, f)
  PROVE  NewTable(g, h, t, s, f)
<1>1. V!Present(f, FALSE) \in V!Entry /\ V!Present(f, FALSE).present /\ V!Present(f, FALSE).frame = f
  BY EntryFacts
<1>2. Zero \in V!Entry /\ ~Zero.present
  BY EntryFacts DEF Zero
<1>3. DOMAIN h = DOMAIN g \cup {f} /\ h[f] = [y \in Idx |-> Zero]
  BY DEF Link
<1>4. \A u \in DOMAIN g : h[u] = [g EXCEPT ![t][s] = V!Present(f, FALSE)][u]
  BY DEF Link
<1> HIDE DEF Zero
<1>5. \A u \in DOMAIN g : u # t => h[u] = g[u]
  BY <1>4
<1>6. h[t] = [g[t] EXCEPT ![s] = V!Present(f, FALSE)] /\ g[t] \in [Idx -> V!Entry]
  BY <1>4 DEF Typed
<1>7. h[t][s] = V!Present(f, FALSE) /\ \A x \in Idx : x # s => h[t][x] = g[t][x]
  BY <1>6
<1>8. Typed(h)
  <2>1. \A u \in DOMAIN h : h[u] \in [Idx -> V!Entry]
    <3> SUFFICES ASSUME NEW u \in DOMAIN h PROVE h[u] \in [Idx -> V!Entry]
      OBVIOUS
    <3>1. CASE u = f
      BY <1>2, <1>3, <3>1
    <3>2. CASE u = t
      BY <1>1, <1>6, <3>2
    <3>3. CASE u # f /\ u # t
      BY <1>3, <1>5, <3>3 DEF Typed
    <3>4. QED BY <3>1, <3>2, <3>3
  <2>2. h = [u \in DOMAIN h |-> h[u]]
    BY DEF Link
  <2>3. QED BY <1>3, <2>1, <2>2 DEF Typed
<1>9. \A x \in Idx : h[f][x] = Zero
  BY <1>3
<1>10. \A x \in Idx : ~h[f][x].present
  BY <1>2, <1>9
<1>11. h[t][s].present
  BY <1>1, <1>7
<1>12. h[t][s].frame = f
  BY <1>1, <1>7
<1>13. QED BY <1>3, <1>5, <1>7, <1>8, <1>9, <1>10, <1>11, <1>12 DEF NewTable

LEMMA SubGrows ==
  ASSUME NEW g, NEW h, NEW T, NEW S, NEW t \in T, NEW s \in S, NEW f,
         \A u \in T : \A x \in S : ~(u = t /\ x = s) => h[u][x] = g[u][x],
         h[t][s].present, h[t][s].frame = f, ~g[t][s].present
  PROVE  /\ Sub(h, T, S) = Sub(g, T, S) \cup {f}
         /\ Apart(g, T, S) /\ f \notin Sub(g, T, S) => Apart(h, T, S)
<1>1. \A z : z \in Sub(h, T, S) <=> z \in Sub(g, T, S) \cup {f}
  BY SubMember
<1>2. ASSUME Apart(g, T, S), f \notin Sub(g, T, S),
             NEW u \in T, NEW v \in T, NEW x \in S, NEW y \in S,
             h[u][x].present, h[v][y].present, h[u][x].frame = h[v][y].frame
      PROVE  u = v /\ x = y
  <2>1. \A w \in T, z \in S : g[w][z].present => g[w][z].frame # f
    BY <1>2, SubMember
  <2>2. QED BY <1>2, <2>1 DEF Apart
<1>3. QED BY <1>1, <1>2 DEF Apart

LEMMA SubOfEmpty ==
  ASSUME NEW h, NEW T, NEW S, NEW f, \A x \in S : ~h[f][x].present
  PROVE  /\ Sub(h, T \cup {f}, S) = Sub(h, T, S)
         /\ Apart(h, T, S) => Apart(h, T \cup {f}, S)
<1>1. \A z : z \in Sub(h, T \cup {f}, S) <=> z \in Sub(h, T, S)
  BY SubMember
<1>2. QED BY <1>1 DEF Apart

Grows(g, h, r, l, t, s, f) ==
  /\ Tree(h, r) /\ DOMAIN h = DOMAIN g \cup {f}
  /\ \A y \in Idx \ Low : h[r][y] = g[r][y]
  /\ \A v \in AllVirt : LeafAt(h, r, v) = LeafAt(g, r, v)
  /\ \A v \in AllVirt, j \in l .. 4 : Node(h, r, v, j) = Node(g, r, v, j)
  /\ Ent(h, t, s).present /\ Ent(h, t, s).frame = f

\* A new table keeps the tree, is one more table of its level, and changes no page's
\* translation, nor the way to a table of a level that is not below.
LEMMA LinkKeepsTree ==
  ASSUME NEW g, NEW r, Tree(g, r), NEW l \in 2 .. 4, NEW t \in Tables(g, r, l), NEW s \in Slots(l),
         Absent(g, t, s), NEW f \in Nat, f \notin DOMAIN g, NEW h, h = Link(g, t, s, f)
  PROVE  Grows(g, h, r, l, t, s, f)
<1>1. /\ t \in DOMAIN g /\ s \in Idx /\ r \in DOMAIN g /\ Typed(g) /\ Low \subseteq Idx
      /\ l = 2 \/ l = 3 \/ l = 4
  BY EntryFacts DEF Tree, Tables, Slots
<1>2. /\ Typed(h) /\ DOMAIN h = DOMAIN g \cup {f}
      /\ \A u \in DOMAIN g : u # t => h[u] = g[u]
      /\ \A x \in Idx : ~h[f][x].present /\ h[f][x] = Zero
      /\ h[t][s].present /\ h[t][s].frame = f
      /\ \A x \in Idx : x # s => h[t][x] = g[t][x]
  <2>1. NewTable(g, h, t, s, f)
    BY <1>1, LinkFacts
  <2>2. QED BY <2>1 DEF NewTable
<1>3. /\ Set3(g, r) \subseteq DOMAIN g /\ Set2(g, r) \subseteq DOMAIN g /\ Set1(g, r) \subseteq DOMAIN g
      /\ Apart(g, {r}, Low) /\ Apart(g, Set3(g, r), Idx) /\ Apart(g, Set2(g, r), Idx)
  BY DEF Tree
<1>4. ASSUME NEW T, NEW S, T \subseteq DOMAIN g, S \subseteq Idx, t \notin T
      PROVE  /\ Sub(h, T, S) = Sub(g, T, S) /\ (Apart(g, T, S) => Apart(h, T, S))
             /\ Sub(h, T \cup {f}, S) = Sub(g, T, S)
             /\ (Apart(g, T, S) => Apart(h, T \cup {f}, S))
  <2>1. \A u \in T, x \in S : h[u][x] = g[u][x]
    BY <1>2, <1>4
  <2>2. Sub(h, T, S) = Sub(g, T, S) /\ (Apart(g, T, S) => Apart(h, T, S))
    BY <2>1, SubSame
  <2>3. \A x \in S : ~h[f][x].present
    BY <1>2, <1>4
  <2>4. /\ Sub(h, T \cup {f}, S) = Sub(h, T, S)
        /\ Apart(h, T, S) => Apart(h, T \cup {f}, S)
    BY <2>3, SubOfEmpty
  <2>5. QED BY <2>2, <2>4
<1>5. ASSUME NEW T, NEW S, T \subseteq DOMAIN g, S \subseteq Idx, t \in T, s \in S,
             Sub(g, T, S) \subseteq DOMAIN g
      PROVE  /\ Sub(h, T, S) = Sub(g, T, S) \cup {f}
             /\ Apart(g, T, S) => Apart(h, T, S)
  <2>1. \A u \in T : \A x \in S : ~(u = t /\ x = s) => h[u][x] = g[u][x]
    BY <1>2, <1>5
  <2>2. f \notin Sub(g, T, S)
    BY <1>5
  <2>3. QED BY <1>2, <1>5, <2>1, <2>2, SubGrows DEF Absent
\* The sets of tables, by the level of the new table's parent.
<1>6. /\ Set3(h, r) = Set3(g, r) \cup (IF l = 4 THEN {f} ELSE {}) /\ Apart(h, {r}, Low)
      /\ Set2(h, r) = Set2(g, r) \cup (IF l = 3 THEN {f} ELSE {}) /\ Apart(h, Set3(h, r), Idx)
      /\ Set1(h, r) = Set1(g, r) \cup (IF l = 2 THEN {f} ELSE {}) /\ Apart(h, Set2(h, r), Idx)
  <2>1. CASE l = 4
    <3>1. t = r /\ s \in Low /\ t \notin Set3(g, r) /\ t \notin Set2(g, r)
      BY <2>1 DEF Tree, Tables, Slots
    <3>2. Set3(h, r) = Set3(g, r) \cup {f} /\ Apart(h, {r}, Low)
      BY <1>1, <1>3, <1>5, <3>1 DEF Set3
    <3>3. Set2(h, r) = Set2(g, r) /\ Apart(h, Set3(h, r), Idx)
      BY <1>3, <1>4, <3>1, <3>2 DEF Set2
    <3>4. Set1(h, r) = Set1(g, r) /\ Apart(h, Set2(h, r), Idx)
      BY <1>3, <1>4, <3>1, <3>3 DEF Set1
    <3>5. QED BY <2>1, <3>2, <3>3, <3>4
  <2>2. CASE l = 3
    <3>1. t # r /\ t \in Set3(g, r) /\ t \notin Set2(g, r)
      BY <2>2 DEF Tree, Tables
    <3>2. Set3(h, r) = Set3(g, r) /\ Apart(h, {r}, Low)
      BY <1>1, <1>3, <1>4, <3>1 DEF Set3
    <3>3. Set2(h, r) = Set2(g, r) \cup {f} /\ Apart(h, Set3(h, r), Idx)
      BY <1>1, <1>3, <1>5, <3>1, <3>2 DEF Set2
    <3>4. Set1(h, r) = Set1(g, r) /\ Apart(h, Set2(h, r), Idx)
      BY <1>3, <1>4, <3>1, <3>3 DEF Set1
    <3>5. QED BY <2>2, <3>2, <3>3, <3>4
  <2>3. CASE l = 2
    <3>1. t # r /\ t \notin Set3(g, r) /\ t \in Set2(g, r)
      BY <2>3 DEF Tree, Tables
    <3>2. Set3(h, r) = Set3(g, r) /\ Apart(h, {r}, Low)
      BY <1>1, <1>3, <1>4, <3>1 DEF Set3
    <3>3. Set2(h, r) = Set2(g, r) /\ Apart(h, Set3(h, r), Idx)
      BY <1>3, <1>4, <3>1, <3>2 DEF Set2
    <3>4. Set1(h, r) = Set1(g, r) \cup {f} /\ Apart(h, Set2(h, r), Idx)
      BY <1>1, <1>3, <1>5, <3>1, <3>3 DEF Set1
    <3>5. QED BY <2>3, <3>2, <3>3, <3>4
  <2>4. QED BY <1>1, <2>1, <2>2, <2>3
<1>7. Tree(h, r)
  BY <1>1, <1>2, <1>3, <1>6 DEF Tree
\* The walks: a page that now reaches the new table reached none before.
<1>8. ASSUME NEW v \in AllVirt
      PROVE  /\ LeafAt(h, r, v) = LeafAt(g, r, v)
             /\ \A j \in l .. 4 : Node(h, r, v, j) = Node(g, r, v, j)
  <2>1. /\ Node3(g, r, v) \in Set3(g, r) \cup {None} /\ Node2(g, r, v) \in Set2(g, r) \cup {None}
        /\ Node1(g, r, v) \in Set1(g, r) \cup {None}
        /\ None \notin DOMAIN g /\ None \notin DOMAIN h /\ f # None
    BY <1>7, NodesInTree, EntryFacts
  <2>2. /\ V!Index(v, 4) \in Idx /\ V!Index(v, 3) \in Idx /\ V!Index(v, 2) \in Idx
        /\ V!Index(v, 1) \in Idx
    BY IndexType
  <2>3. ~Zero.present
    BY EntryFacts DEF Zero
  <2> HIDE DEF Zero, None
  <2>4. /\ \A u, x : u # f /\ x \in Idx /\ ~(u = t /\ x = s) => Ent(h, u, x) = Ent(g, u, x)
        /\ \A x \in Idx : Ent(h, f, x) = Zero /\ ~Ent(h, f, x).present
        /\ ~Ent(g, t, s).present /\ Ent(h, t, s).present /\ Ent(h, t, s).frame = f
        /\ \A x \in Idx : Ent(g, None, x) = Zero
    BY <1>1, <1>2, <2>1, <2>3 DEF Ent, Absent
  <2>5. /\ \A u, x : u # f /\ x \in Idx /\ ~(u = t /\ x = s) => Down(h, u, x) = Down(g, u, x)
        /\ \A x \in Idx : Down(h, f, x) = None
        /\ Down(g, t, s) = None /\ Down(h, t, s) = f
        /\ \A x \in Idx : Down(g, None, x) = None
    BY <2>3, <2>4 DEF Down
  <2>6. f # r /\ Node3(g, r, v) # f /\ Node2(g, r, v) # f /\ Node1(g, r, v) # f
    BY <1>1, <1>3, <2>1
  <2>7. CASE l = 4
    <3>1. t = r /\ Node3(g, r, v) # t /\ Node2(g, r, v) # t /\ Node1(g, r, v) # t
      BY <1>1, <2>1, <2>7 DEF Tree, Tables
    <3>2. CASE V!Index(v, 4) = s
      <4>1. Node3(h, r, v) = f /\ Node3(g, r, v) = None
        BY <2>5, <3>1, <3>2 DEF Node3
      <4>2. Node2(h, r, v) = None /\ Node2(g, r, v) = None
        BY <2>2, <2>5, <4>1 DEF Node2
      <4>3. Node1(h, r, v) = None /\ Node1(g, r, v) = None
        BY <1>1, <2>1, <2>2, <2>5, <4>2 DEF Node1
      <4>4. LeafAt(h, r, v) = LeafAt(g, r, v)
        BY <2>1, <4>3 DEF LeafAt, Ent
      <4>5. QED BY <2>7, <4>4 DEF Node
    <3>3. CASE V!Index(v, 4) # s
      <4>1. Node3(h, r, v) = Node3(g, r, v)
        BY <2>2, <2>5, <2>6, <3>3 DEF Node3
      <4>2. Node2(h, r, v) = Node2(g, r, v)
        BY <2>2, <2>5, <2>6, <3>1, <4>1 DEF Node2
      <4>3. Node1(h, r, v) = Node1(g, r, v)
        BY <2>2, <2>5, <2>6, <3>1, <4>2 DEF Node1
      <4>4. LeafAt(h, r, v) = LeafAt(g, r, v)
        BY <2>2, <2>4, <2>6, <3>1, <4>3 DEF LeafAt
      <4>5. QED BY <2>7, <4>4 DEF Node
    <3>4. QED BY <3>2, <3>3
  <2>8. CASE l = 3
    <3>1. t # r /\ Node2(g, r, v) # t /\ Node1(g, r, v) # t
      BY <1>1, <2>1, <2>8 DEF Tree, Tables
    <3>2. Node3(h, r, v) = Node3(g, r, v)
      BY <2>2, <2>5, <2>6, <3>1 DEF Node3
    <3>3. CASE Node3(g, r, v) = t /\ V!Index(v, 3) = s
      <4>1. Node2(h, r, v) = f /\ Node2(g, r, v) = None
        BY <2>5, <3>2, <3>3 DEF Node2
      <4>2. Node1(h, r, v) = None /\ Node1(g, r, v) = None
        BY <2>2, <2>5, <4>1 DEF Node1
      <4>3. LeafAt(h, r, v) = LeafAt(g, r, v)
        BY <2>1, <4>2 DEF LeafAt, Ent
      <4>4. QED BY <2>8, <3>2, <4>3 DEF Node
    <3>4. CASE ~(Node3(g, r, v) = t /\ V!Index(v, 3) = s)
      <4>1. Node2(h, r, v) = Node2(g, r, v)
        BY <2>2, <2>5, <2>6, <3>2, <3>4 DEF Node2
      <4>2. Node1(h, r, v) = Node1(g, r, v)
        BY <2>2, <2>5, <2>6, <3>1, <4>1 DEF Node1
      <4>3. LeafAt(h, r, v) = LeafAt(g, r, v)
        BY <2>2, <2>4, <2>6, <3>1, <4>2 DEF LeafAt
      <4>4. QED BY <2>8, <3>2, <4>3 DEF Node
    <3>5. QED BY <3>3, <3>4
  <2>9. CASE l = 2
    <3>1. t # r /\ Node3(g, r, v) # t /\ Node1(g, r, v) # t
      BY <1>1, <2>1, <2>9 DEF Tree, Tables
    <3>2. Node3(h, r, v) = Node3(g, r, v)
      BY <2>2, <2>5, <2>6, <3>1 DEF Node3
    <3>3. Node2(h, r, v) = Node2(g, r, v)
      BY <2>2, <2>5, <2>6, <3>1, <3>2 DEF Node2
    <3>4. CASE Node2(g, r, v) = t /\ V!Index(v, 2) = s
      <4>1. Node1(h, r, v) = f /\ Node1(g, r, v) = None
        BY <2>5, <3>3, <3>4 DEF Node1
      <4>2. LeafAt(h, r, v) = LeafAt(g, r, v)
        BY <2>1, <2>2, <2>4, <4>1 DEF LeafAt
      <4>3. QED BY <2>9, <3>2, <3>3, <4>2 DEF Node
    <3>5. CASE ~(Node2(g, r, v) = t /\ V!Index(v, 2) = s)
      <4>1. Node1(h, r, v) = Node1(g, r, v)
        BY <2>2, <2>5, <2>6, <3>3, <3>5 DEF Node1
      <4>2. LeafAt(h, r, v) = LeafAt(g, r, v)
        BY <2>2, <2>4, <2>6, <3>1, <4>1 DEF LeafAt
      <4>3. QED BY <2>9, <3>2, <3>3, <4>2 DEF Node
    <3>6. QED BY <3>4, <3>5
  <2>10. QED BY <1>1, <2>7, <2>8, <2>9
<1>9. \A y \in Idx \ Low : h[r][y] = g[r][y]
  <2>1. CASE l = 4
    BY <1>1, <1>2, <2>1 DEF Tables, Slots
  <2>2. CASE l # 4
    <3>1. t # r
      BY <1>1, <2>2 DEF Tables, Tree
    <3>2. QED BY <1>1, <1>2, <3>1
  <2>3. QED BY <2>1, <2>2
<1>10. Ent(h, t, s).present /\ Ent(h, t, s).frame = f
  BY <1>1, <1>2 DEF Ent
<1>11. QED BY <1>2, <1>7, <1>8, <1>9, <1>10 DEF Grows

-----------------------------------------------------------------------------
(* The invariant *)

FreeSet == IF pc = "ready" THEN Zeros ELSE {}
InCall == vpc \in {"walk", "flush"}
LeafNow(v) == LeafAt(tab, pml4, v)

\* An entry that a call may write, and one that leads to a frame that is held.
Leads(e) == e.present /\ e.frame \in held
MayWrite(e) == e = Zero \/ Leads(e)

TablesInv ==
  /\ Typed(tab)
  /\ vpc # "init" => Tree(tab, pml4) /\ \A x \in Idx \ Low : tab[pml4][x] = Boot[x]

\* Who has the frames that PMM::alloc() handed out.
OwnersInv ==
  /\ held \subseteq PageFrames /\ pml4 \in PageFrames \cup {NULL}
  /\ DOMAIN tab \subseteq PageFrames \cup {NULL}
  /\ IF vpc = "init" THEN held = {} /\ owned = {} /\ DOMAIN tab = {}
     ELSE /\ PMMInitialized /\ held \cap DOMAIN tab = {}
          /\ owned = (held \cup DOMAIN tab) \ {NULL}

\* A call's cursor is on its own page's way through the tables.
CallInv ==
  /\ vpc \in {"init", "idle", "walk", "flush"} /\ call \in [page : Nat, entry : V!Entry]
  /\ level \in 1 .. 4 /\ table \in Nat
  /\ InCall => /\ call.page \in AllVirt /\ MayWrite(call.entry)
               /\ table = Node(tab, pml4, call.page, level)
               /\ table \in Tables(tab, pml4, level)
  /\ vpc = "flush" => level = 1 /\ LeafNow(call.page) = call.entry

\* The TLB holds what the tables hold, and both lead to frames that are held.
TLBInv ==
  /\ DOMAIN tlb \subseteq AllVirt /\ tlb \in [DOMAIN tlb -> V!Entry]
  /\ vpc = "init" => DOMAIN tlb = {}
  /\ \A v \in DOMAIN tlb :
       Leads(tlb[v]) /\ (tlb[v] = LeafNow(v) \/ (vpc = "flush" /\ call.page = v))

LeavesInv == \A v \in AllVirt : LeafNow(v) = Zero \/ Leads(LeafNow(v))

\* Where expand() is, and which frame it obtained for which page of the heap.
ArenaInv ==
  /\ hpc \in {"start", "alloc", "map", "mapping", "idle"}
  /\ heap_end \in Nat /\ n \in Nat /\ HEAP_START <= heap_end
  /\ heap_end + (IF hpc \in {"alloc", "map", "mapping"} THEN n ELSE 0) <= HEAP_START + HeapLimit
  /\ hpc = "start" => heap_end = HEAP_START
  /\ hpc \in {"map", "mapping"} => n > 0
  /\ arena \in Seq(held)
  /\ Len(arena) = heap_end - HEAP_START + (IF hpc \in {"map", "mapping"} THEN 1 ELSE 0)
  /\ \A a, b \in 1 .. Len(arena) : a # b => arena[a] # arena[b]
  /\ \A p \in HeapPages : LeafNow(p) # Zero =>
       p - HEAP_START + 1 \in 1 .. Len(arena) /\ LeafNow(p).frame = arena[p - HEAP_START + 1]
  /\ vpc = "init" => hpc = "start"
  /\ InCall => IF hpc = "mapping"
               THEN call.page = heap_end /\ call.entry = V!Present(arena[Len(arena)], FALSE)
               ELSE hpc = "idle" /\ call.page \in Virt

TInv == TablesInv /\ OwnersInv /\ CallInv /\ TLBInv /\ LeavesInv /\ ArenaInv
MInv == IInv /\ TInv

\* What the assumptions say of the constants.
LEMMA ConstantFacts ==
  /\ PageFrames \subseteq Nat /\ NULL \notin PageFrames /\ NULL = 0 /\ V!NULL = 0
  /\ AllVirt \subseteq Nat /\ Virt \subseteq AllVirt /\ HeapPages \subseteq AllVirt
  /\ Virt \cap HeapPages = {} /\ HeapPages = HEAP_START .. HEAP_START + HeapLimit - 1
  /\ HEAP_START \in Nat /\ HeapLimit \in Nat /\ HEAP_INITIAL_PAGES \in Nat /\ EXPAND_PAGES \in Nat
  /\ HEAP_INITIAL_PAGES <= HeapLimit
  /\ Boot \in [V!High -> V!Entry] /\ V!High \subseteq Idx
BY VMMAssumption, HeapAssumption
DEF V!ConstantsOK, V!NULL, NULL, AllVirt, HeapPages, V!High, Idx

\* A free frame is one that nobody owns.
LEMMA FreeFacts ==
  ASSUME IInv
  PROVE  FreeSet \subseteq PageFrames /\ FreeSet \cap owned = {} /\ NULL \notin FreeSet
<1>1. CASE pc = "ready"
  <2>1. /\ Usable = Zeros \cup owned \cup BitmapFrames /\ Zeros \cap owned = {} /\ NULL \notin Zeros
    BY <1>1 DEF IInv, PagesPartitioned
  <2>2. memmap \in MemMaps
    BY DEF IInv, TypeOK
  <2>3. Usable = UsableFrames(memmap)
    BY DEF Usable, UsableFrames, Entries
  <2>4. QED BY <1>1, <2>1, <2>2, <2>3 DEF FreeSet, PageFrames
<1>2. CASE pc # "ready"
  BY <1>2 DEF FreeSet
<1>3. QED BY <1>1, <1>2

\* The frame a caller takes is the one PMM::alloc() gives.
LEMMA TakeFrame ==
  ASSUME IInv, Alloc, NEW f \in FreeSet, FreeSet' = FreeSet \ {f}
  PROVE  /\ pc = "ready" /\ pc' = "ready" /\ owned' = owned \cup {f}
         /\ f \in PageFrames /\ f \in Nat /\ f # NULL /\ f \notin owned
<1>1. PICK q \in Zeros :
        /\ pc = "ready" /\ pc' = "ready" /\ bitmap' = bitmap \cup {q} /\ total_pages' = total_pages
        /\ owned' = IF q = NULL THEN owned ELSE owned \cup {q}
  BY DEF Alloc, bitmap_set
<1>2. FreeSet = Zeros /\ FreeSet' = Zeros'
  BY <1>1 DEF FreeSet
<1>3. Zeros' = Zeros \ {q}
  BY <1>1 DEF Zeros
<1>4. f = q
  BY <1>1, <1>2, <1>3
<1>5. f # NULL /\ f \notin owned /\ f \in PageFrames
  BY FreeFacts
<1>6. QED BY <1>1, <1>4, <1>5, ConstantFacts

\* A step that leaves the tables alone.
LEMMA TablesStay ==
  ASSUME TInv, UNCHANGED <<tab, pml4>>, vpc = "init" => vpc' = "init"
  PROVE  TablesInv' /\ \A v : LeafNow(v)' = LeafNow(v)
BY DEF TInv, TablesInv, LeafNow

LEMMA OwnersStay ==
  ASSUME TInv, UNCHANGED <<tab, pml4, held, owned>>, vpc' = "init" <=> vpc = "init",
         PMMInitialized => PMMInitialized'
  PROVE  OwnersInv'
BY DEF TInv, OwnersInv

\* ... and takes no frame from those that hold one, outside the writing of an entry.
LEMMA LeavesStay ==
  ASSUME TInv, UNCHANGED <<tab, pml4>>, held \subseteq held'
  PROVE  LeavesInv'
BY DEF TInv, LeavesInv, LeafNow, Leads

LEMMA TLBStays ==
  ASSUME TInv, UNCHANGED <<tab, pml4, tlb>>, held \subseteq held', vpc # "flush",
         vpc' = "init" => vpc = "init"
  PROVE  TLBInv'
BY DEF TInv, TLBInv, LeafNow, Leads

-----------------------------------------------------------------------------
(* Initialisation *)

LEMMA InitTInv == MemoryInit => TInv
<1> SUFFICES ASSUME MemoryInit PROVE TInv
  OBVIOUS
<1>1. /\ held = {} /\ pml4 = NULL /\ tab = [f \in {} |-> NULL] /\ tlb = [v \in {} |-> Zero]
      /\ vpc = "init" /\ call = [page |-> 0, entry |-> Zero] /\ level = 4 /\ table = NULL
      /\ owned = {} /\ heap_end = HEAP_START /\ n = 0 /\ hpc = "start" /\ arena = <<>>
  BY DEF MemoryInit, V!Init, Init, Zero, V!NULL, NULL
<1>2. DOMAIN tab = {} /\ DOMAIN tlb = {} /\ Zero \in V!Entry /\ ~Zero.present
  BY <1>1, EntryFacts DEF Zero
<1> HIDE DEF Zero
<1>3. \A v : LeafNow(v) = Zero
  BY <1>2 DEF LeafNow, LeafAt, Ent
<1>4. Typed(tab)
  BY <1>1, <1>2 DEF Typed
<1>5. TablesInv /\ OwnersInv /\ LeavesInv
  BY <1>1, <1>2, <1>3, <1>4 DEF TablesInv, OwnersInv, LeavesInv
<1>6. CallInv
  BY <1>1, <1>2, ConstantFacts DEF CallInv, InCall
<1>7. TLBInv
  BY <1>1, <1>2 DEF TLBInv
<1>8. ArenaInv
  BY <1>1, <1>3, ConstantFacts DEF ArenaInv, InCall
<1>9. QED BY <1>5, <1>6, <1>7, <1>8 DEF TInv

\* PMM::init() runs before there are tables.
LEMMA PMMTStep == ASSUME MInv, PMMStep PROVE TInv'
<1>1. /\ ~PMMInitialized /\ UNCHANGED owned
      /\ UNCHANGED <<held, pml4, tab, tlb, vpc, call, level, table, heap_end, n, hpc, arena, was>>
  BY DEF PMMStep, InitStep, Scan, PlaceBitmap, NoSpaceForBitmap, ClearPage, NextEntry, ClearDone,
         MarkBitmapPage, InitDone, vmmvars, heapvars, PMMInitialized
<1>2. vpc = "init"
  BY <1>1 DEF MInv, TInv, OwnersInv
<1>3. TablesInv' /\ LeavesInv' /\ \A v : LeafNow(v)' = LeafNow(v)
  BY <1>1, TablesStay, LeavesStay DEF MInv
<1>4. OwnersInv' /\ CallInv' /\ TLBInv' /\ ArenaInv'
  BY <1>1, <1>2, <1>3
  DEF MInv, TInv, OwnersInv, CallInv, InCall, MayWrite, Leads, TLBInv, ArenaInv
<1>5. QED BY <1>3, <1>4 DEF TInv

\* The root table, with the kernel's half copied and nothing else.
LEMMA RootTree ==
  ASSUME NEW f \in Nat, NEW g, g = [u \in {f} |-> V!InitTable]
  PROVE  /\ Tree(g, f) /\ \A x \in Idx \ Low : g[f][x] = Boot[x]
         /\ \A v \in AllVirt : LeafAt(g, f, v) = Zero
<1>1. V!High \subseteq Idx /\ Boot \in [V!High -> V!Entry] /\ Zero \in V!Entry /\ ~Zero.present
  BY ConstantFacts, EntryFacts DEF Zero
<1> HIDE DEF Zero
<1>2. g[f] = [x \in Idx |-> IF x \in V!High THEN Boot[x] ELSE Zero] /\ DOMAIN g = {f}
  BY DEF V!InitTable, Idx, Zero
<1>3. (\A x \in Low : g[f][x] = Zero) /\ (\A x \in Idx \ Low : g[f][x] = Boot[x])
  BY <1>1, <1>2 DEF Low, Idx
<1>4. Typed(g)
  <2>1. g[f] \in [Idx -> V!Entry]
    BY <1>1, <1>2
  <2>2. QED BY <1>2, <2>1 DEF Typed
<1>5. ASSUME NEW S PROVE Sub(g, {}, S) = {}
  BY DEF Sub
<1>6. Sub(g, {f}, Low) = {} /\ Apart(g, {f}, Low)
  BY <1>1, <1>3, SubMember DEF Apart
<1>7. Set3(g, f) = {} /\ Set2(g, f) = {} /\ Set1(g, f) = {}
  BY <1>5, <1>6 DEF Set3, Set2, Set1
<1>8. Tree(g, f)
  BY <1>2, <1>4, <1>6, <1>7 DEF Tree, Apart
<1>9. \A v \in AllVirt : LeafAt(g, f, v) = Zero
  <2> SUFFICES ASSUME NEW v \in AllVirt PROVE LeafAt(g, f, v) = Zero
    OBVIOUS
  <2>1. Node1(g, f, v) = None /\ None \notin DOMAIN g
    BY <1>7, <1>8, NodesInTree
  <2>2. QED BY <2>1 DEF LeafAt, Ent
<1>10. QED BY <1>3, <1>8, <1>9

LEMMA InitVMMStep ==
  ASSUME MInv, InitVMM
  PROVE  TInv' /\ \A v \in AllVirt : LeafNow(v)' = LeafNow(v)
<1>1. PICK f \in FreeSet \cup {NULL} :
        /\ V!IsAlloc(f) /\ pml4' = f /\ tab' = [u \in {f} |-> V!InitTable]
        /\ FreeSet' = FreeSet \ {f}
  BY DEF InitVMM, V!VMMInit, FreeSet, V!NULL, NULL
<1>2. /\ vpc = "init" /\ vpc' = "idle" /\ PMMInitialized /\ (Alloc \/ NoFrame)
      /\ UNCHANGED <<held, tlb, call, level, table, heap_end, n, hpc, arena, was>>
  BY DEF InitVMM, V!VMMInit, heapvars
<1>3. held = {} /\ owned = {} /\ DOMAIN tab = {}
  BY <1>2 DEF MInv, TInv, OwnersInv
<1>4. /\ f \in PageFrames \cup {NULL} /\ f \in Nat /\ PMMInitialized' /\ owned' = {f} \ {NULL}
  <2>1. CASE Alloc
    <3>1. FreeSet # {}
      BY <2>1 DEF Alloc, FreeSet
    <3>2. f \in FreeSet
      BY <1>1, <3>1 DEF V!IsAlloc, FreeSet
    <3>3. QED BY <1>1, <1>3, <2>1, <3>2, TakeFrame DEF MInv, PMMInitialized
  <2>2. CASE NoFrame
    <3>1. FreeSet = {} /\ UNCHANGED owned /\ PMMInitialized'
      BY <2>2 DEF NoFrame, AllocFails, AllocWithoutBitmap, FreeSet, PMMInitialized, vars
    <3>2. f = NULL
      BY <1>1, <3>1
    <3>3. QED BY <1>3, <3>1, <3>2, ConstantFacts
  <2>3. QED BY <1>2, <2>1, <2>2
<1>5. /\ Tree(tab', pml4') /\ \A x \in Idx \ Low : tab'[pml4'][x] = Boot[x]
      /\ \A v \in AllVirt : LeafAt(tab', pml4', v) = Zero
      /\ DOMAIN tab' = {f}
  BY <1>1, <1>4, RootTree
<1>6. TablesInv' /\ OwnersInv' /\ LeavesInv'
  <2>1. TablesInv'
    BY <1>2, <1>5 DEF TablesInv, Tree
  <2>2. OwnersInv'
    BY <1>1, <1>2, <1>3, <1>4, <1>5 DEF OwnersInv
  <2>3. LeavesInv'
    BY <1>5 DEF LeavesInv, LeafNow
  <2>4. QED BY <2>1, <2>2, <2>3
<1>7. CallInv' /\ TLBInv'
  BY <1>2 DEF MInv, TInv, CallInv, InCall, TLBInv
<1>8. ArenaInv'
  <2>1. \A p \in HeapPages : LeafNow(p)' = Zero
    BY <1>5, ConstantFacts DEF LeafNow
  <2> HIDE DEF Zero
  <2>2. QED BY <1>2, <2>1 DEF MInv, TInv, ArenaInv, InCall
<1>9. \A v \in AllVirt : LeafNow(v)' = LeafNow(v)
  <2>1. \A v \in AllVirt : LeafNow(v) = Zero
    BY <1>3 DEF LeafNow, LeafAt, Ent
  <2>2. QED BY <1>5, <2>1 DEF LeafNow
<1>10. QED BY <1>6, <1>7, <1>8, <1>9 DEF TInv

\* The step takes nothing from and adds nothing to what VMM keeps.
LEMMA VMMStays ==
  ASSUME TInv, UNCHANGED vmmvars, UNCHANGED owned, PMMInitialized => PMMInitialized'
  PROVE  /\ TablesInv' /\ OwnersInv' /\ CallInv' /\ TLBInv' /\ LeavesInv'
         /\ \A v : LeafNow(v)' = LeafNow(v)
<1>1. UNCHANGED <<held, pml4, tab, tlb, vpc, call, level, table>>
  BY DEF vmmvars
<1>2. TablesInv' /\ LeavesInv' /\ \A v : LeafNow(v)' = LeafNow(v)
  BY <1>1, TablesStay, LeavesStay
<1>3. OwnersInv'
  BY <1>1, OwnersStay
<1>4. CallInv'
  BY <1>1, <1>2 DEF TInv, CallInv, InCall, MayWrite, Leads
<1>5. TLBInv'
  BY <1>1, <1>2 DEF TInv, TLBInv, Leads
<1>6. QED BY <1>2, <1>3, <1>4, <1>5

LEMMA FaultSteps ==
  ASSUME MInv, InitVMMFaults \/ Stopped \/ UNCHANGED allvars
  PROVE  TInv'
<1>1. /\ UNCHANGED owned /\ UNCHANGED vmmvars /\ UNCHANGED heapvars
      /\ pc' = pc \/ vpc = "init"
  BY DEF InitVMMFaults, Stopped, Fault, allvars, vars, AllocWithoutBitmap
<1>2. UNCHANGED <<held, tab, vpc, call, heap_end, n, hpc, arena>>
  BY <1>1 DEF vmmvars, heapvars
<1>3. CASE pc' = pc
  <2>1. PMMInitialized => PMMInitialized'
    BY <1>3 DEF PMMInitialized
  <2>2. /\ TablesInv' /\ OwnersInv' /\ CallInv' /\ TLBInv' /\ LeavesInv'
        /\ \A v : LeafNow(v)' = LeafNow(v)
    BY <1>1, <2>1, VMMStays DEF MInv
  <2>3. ArenaInv'
    BY <1>2, <2>2 DEF MInv, TInv, ArenaInv, InCall
  <2>4. QED BY <2>2, <2>3 DEF TInv
<1>4. CASE vpc = "init"
  <2>1. UNCHANGED <<held, pml4, tab, tlb, vpc, call, level, table, owned>>
    BY <1>1 DEF vmmvars
  <2>2. TablesInv' /\ LeavesInv' /\ \A v : LeafNow(v)' = LeafNow(v)
    BY <2>1, TablesStay, LeavesStay DEF MInv
  <2>3. OwnersInv'
    BY <1>4, <2>1 DEF MInv, TInv, OwnersInv
  <2>4. CallInv' /\ TLBInv'
    BY <1>4, <2>1, <2>2 DEF MInv, TInv, CallInv, TLBInv, InCall
  <2>5. ArenaInv'
    BY <1>2, <2>2 DEF MInv, TInv, ArenaInv, InCall
  <2>6. QED BY <2>2, <2>3, <2>4, <2>5 DEF TInv
<1>5. QED BY <1>1, <1>3, <1>4

-----------------------------------------------------------------------------
(* expand() *)

LEMMA ExpandStep == ASSUME MInv, HeapInit \/ KmallocExpands PROVE TInv'
<1>1. /\ UNCHANGED vars /\ UNCHANGED vmmvars /\ UNCHANGED heap_end /\ UNCHANGED arena
      /\ hpc' = "alloc" /\ vpc = "idle" /\ n' \in Nat /\ hpc \in {"start", "idle"}
      /\ heap_end + n' <= HEAP_START + HeapLimit
  BY ConstantFacts DEF HeapInit, KmallocExpands, Expand, MInv, TInv, ArenaInv
<1>2. UNCHANGED owned /\ UNCHANGED pc /\ UNCHANGED <<held, vpc>>
  BY <1>1 DEF vars, vmmvars
<1>3. PMMInitialized => PMMInitialized'
  BY <1>2 DEF PMMInitialized
<1>4. /\ TablesInv' /\ OwnersInv' /\ CallInv' /\ TLBInv' /\ LeavesInv'
      /\ \A v : LeafNow(v)' = LeafNow(v)
  BY <1>1, <1>2, <1>3, VMMStays DEF MInv
<1>5. ArenaInv'
  BY <1>1, <1>2, <1>4 DEF MInv, TInv, ArenaInv, InCall
<1>6. QED BY <1>4, <1>5 DEF TInv

LEMMA ExpandReturnsStep == ASSUME MInv, ExpandReturns PROVE TInv'
<1>1. /\ UNCHANGED owned /\ UNCHANGED vmmvars /\ UNCHANGED <<heap_end, n, arena>>
      /\ hpc = "alloc" /\ hpc' = "idle" /\ (PMMInitialized => PMMInitialized')
  BY DEF ExpandReturns, NoFrame, AllocFails, AllocWithoutBitmap, vars, PMMInitialized
<1>2. UNCHANGED <<held, vpc>>
  BY <1>1 DEF vmmvars
<1>3. /\ TablesInv' /\ OwnersInv' /\ CallInv' /\ TLBInv' /\ LeavesInv'
      /\ \A v : LeafNow(v)' = LeafNow(v)
  BY <1>1, VMMStays DEF MInv
<1>4. ~InCall
  BY <1>1 DEF MInv, TInv, ArenaInv
<1>5. ArenaInv'
  <2>1. heap_end \in Nat /\ n \in Nat /\ heap_end + n <= HEAP_START + HeapLimit /\ HEAP_START <= heap_end
    BY <1>1 DEF MInv, TInv, ArenaInv
  <2>2. heap_end + 0 <= HEAP_START + HeapLimit
    BY <2>1, ConstantFacts
  <2>3. ~InCall' /\ vpc # "init" /\ vpc' # "init"
    BY <1>1, <1>2, <1>4 DEF MInv, TInv, ArenaInv, InCall
  <2>4. QED BY <1>1, <1>2, <1>3, <2>2, <2>3 DEF MInv, TInv, ArenaInv
<1>6. QED BY <1>3, <1>5 DEF TInv

LEMMA ExpandNextStep == ASSUME MInv, ExpandNext PROVE TInv'
<1>1. /\ UNCHANGED vars /\ UNCHANGED vmmvars /\ UNCHANGED arena
      /\ hpc = "mapping" /\ hpc' = "alloc" /\ vpc = "idle" 
      /\ heap_end' = heap_end + 1 /\ n' = n - 1
  BY DEF ExpandNext
<1>2. UNCHANGED owned /\ UNCHANGED pc /\ UNCHANGED <<held, vpc>>
  BY <1>1 DEF vars, vmmvars
<1>3. PMMInitialized => PMMInitialized'
  BY <1>2 DEF PMMInitialized
<1>4. /\ TablesInv' /\ OwnersInv' /\ CallInv' /\ TLBInv' /\ LeavesInv'
      /\ \A v : LeafNow(v)' = LeafNow(v)
  BY <1>1, <1>2, <1>3, VMMStays DEF MInv
<1>5. ArenaInv'
  BY <1>1, <1>2, <1>4, ConstantFacts DEF MInv, TInv, ArenaInv, InCall
<1>6. QED BY <1>4, <1>5 DEF TInv

\* What a caller's frame adds, whoever takes it.
LEMMA ObtainStep ==
  ASSUME MInv, Alloc, V!Obtain
  PROVE  /\ vpc = "idle" /\ UNCHANGED <<pml4, tab, tlb, vpc, call, level, table>>
         /\ TablesInv' /\ OwnersInv' /\ CallInv' /\ TLBInv' /\ LeavesInv'
         /\ \A v : LeafNow(v)' = LeafNow(v)
         /\ \E f \in FreeSet : f \notin held /\ held' = held \cup {f}
<1>1. PICK f \in FreeSet : /\ held' = held \cup {f} /\ FreeSet' = FreeSet \ {f}
                           /\ vpc = "idle" /\ UNCHANGED <<pml4, tab, tlb, vpc, call, level, table>>
  BY DEF V!Obtain, FreeSet
<1>2. /\ pc = "ready" /\ pc' = "ready" /\ owned' = owned \cup {f}
      /\ f \in PageFrames /\ f \in Nat /\ f # NULL /\ f \notin owned
  BY <1>1, TakeFrame DEF MInv
<1>3. /\ held \subseteq PageFrames /\ held \cap DOMAIN tab = {} /\ owned = (held \cup DOMAIN tab) \ {NULL}
      /\ NULL \notin PageFrames
  BY <1>1, ConstantFacts DEF MInv, TInv, OwnersInv
<1>4. f \notin held /\ f \notin DOMAIN tab
  BY <1>2, <1>3
<1>5. TablesInv' /\ LeavesInv' /\ \A v : LeafNow(v)' = LeafNow(v)
  BY <1>1, TablesStay, LeavesStay DEF MInv
<1>6. TLBInv'
  BY <1>1, TLBStays DEF MInv
<1>7. OwnersInv'
  BY <1>1, <1>2, <1>3, <1>4 DEF MInv, TInv, OwnersInv, PMMInitialized
<1>8. CallInv'
  BY <1>1 DEF MInv, TInv, CallInv, InCall
<1>9. QED BY <1>1, <1>4, <1>5, <1>6, <1>7, <1>8

LEMMA ExpandAllocStep == ASSUME MInv, ExpandAlloc PROVE TInv'
<1>1. /\ hpc = "alloc" /\ hpc' = "map" /\ n > 0 /\ UNCHANGED <<heap_end, n>>
      /\ arena' = Append(arena, CHOOSE q \in held' : q \notin held)
  BY DEF ExpandAlloc
<1>2. /\ vpc = "idle" /\ UNCHANGED vpc /\ TablesInv' /\ OwnersInv' /\ CallInv' /\ TLBInv' /\ LeavesInv'
      /\ \A v : LeafNow(v)' = LeafNow(v)
      /\ \E f \in FreeSet : f \notin held /\ held' = held \cup {f}
  BY ObtainStep DEF ExpandAlloc
<1>3. PICK f : f \notin held /\ held' = held \cup {f}
  BY <1>2
<1>4. (CHOOSE q \in held' : q \notin held) = f
  <2>1. \E q \in held' : q \notin held
    BY <1>3
  <2>2. (CHOOSE q \in held' : q \notin held) \in held' /\ (CHOOSE q \in held' : q \notin held) \notin held
    BY <2>1
  <2>3. QED BY <1>3, <2>2
<1>5. arena' = Append(arena, f) /\ arena \in Seq(held)
  BY <1>1, <1>4 DEF MInv, TInv, ArenaInv
<1>6. /\ arena' \in Seq(held') /\ Len(arena') = Len(arena) + 1 /\ Len(arena) \in Nat
      /\ \A a \in 1 .. Len(arena) : arena'[a] = arena[a] /\ arena[a] \in held
      /\ arena'[Len(arena) + 1] = f
  <2>1. arena \in Seq(held')
    BY <1>3, <1>5
  <2>2. QED BY <1>3, <1>5, <2>1
<1>7. ArenaInv'
  <2>1. \A a, b \in 1 .. Len(arena') : a # b => arena'[a] # arena'[b]
    BY <1>3, <1>6 DEF MInv, TInv, ArenaInv
  <2>2. \A p \in HeapPages : LeafNow(p)' # Zero =>
          p - HEAP_START + 1 \in 1 .. Len(arena') /\ LeafNow(p)'.frame = arena'[p - HEAP_START + 1]
    BY <1>2, <1>6 DEF MInv, TInv, ArenaInv
  <2>3. /\ hpc' = "map" /\ heap_end' = heap_end /\ n' = n /\ n > 0 /\ vpc' = "idle"
        /\ heap_end \in Nat /\ n \in Nat /\ HEAP_START <= heap_end
        /\ heap_end + n <= HEAP_START + HeapLimit /\ Len(arena) = heap_end - HEAP_START
    BY <1>1, <1>2, ConstantFacts DEF MInv, TInv, ArenaInv
  <2>4. Len(arena') = heap_end' - HEAP_START + 1
    BY <1>6, <2>3, ConstantFacts
  <2>5. QED BY <1>6, <2>1, <2>2, <2>3, <2>4 DEF ArenaInv, InCall
<1>8. QED BY <1>2, <1>7 DEF TInv

-----------------------------------------------------------------------------
(* The calls of map() and unmap() *)

\* A call begins at the root of the tables.
LEMMA StartStep ==
  ASSUME MInv, UNCHANGED vars, NEW v \in AllVirt, NEW e \in V!Entry, MayWrite(e), V!Start(v, e)
  PROVE  /\ TablesInv' /\ OwnersInv' /\ CallInv' /\ TLBInv' /\ LeavesInv'
         /\ \A w : LeafNow(w)' = LeafNow(w)
         /\ vpc = "idle" /\ vpc' = "walk" /\ call'.page = v /\ call'.entry = e /\ UNCHANGED held
<1>1. /\ vpc = "idle" /\ vpc' = "walk" /\ call' = [page |-> v, entry |-> e] /\ level' = 4
      /\ table' = pml4 /\ UNCHANGED <<held, pml4, tab, tlb>>
  BY DEF V!Start
<1>2. UNCHANGED owned /\ UNCHANGED pc /\ (PMMInitialized => PMMInitialized')
  BY DEF vars, PMMInitialized
<1>3. TablesInv' /\ LeavesInv' /\ \A w : LeafNow(w)' = LeafNow(w)
  BY <1>1, TablesStay, LeavesStay DEF MInv
<1>4. OwnersInv'
  BY <1>1, <1>2, OwnersStay DEF MInv
<1>5. TLBInv'
  BY <1>1, TLBStays DEF MInv
<1>6. pml4 \in Nat
  BY ConstantFacts DEF MInv, TInv, OwnersInv
<1>7. call'.page = v /\ call'.entry = e /\ MayWrite(e)' /\ v \in Nat
  BY <1>1, ConstantFacts DEF MayWrite, Leads
<1>8. CallInv'
  BY <1>1, <1>6, <1>7 DEF CallInv, InCall, Node, Tables
<1>9. QED BY <1>1, <1>3, <1>4, <1>5, <1>7, <1>8

LEMMA ExpandMapStep == ASSUME MInv, ExpandMap PROVE TInv'
<1> DEFINE f == arena[Len(arena)]
<1>1. /\ hpc = "map" /\ hpc' = "mapping" /\ UNCHANGED vars /\ UNCHANGED <<heap_end, n, arena>>
      /\ V!Start(heap_end, V!Present(f, FALSE))
  BY DEF ExpandMap, V!Map
<1>2. /\ heap_end \in Nat /\ n \in Nat /\ HEAP_START <= heap_end /\ n > 0
      /\ heap_end + n <= HEAP_START + HeapLimit
      /\ arena \in Seq(held) /\ Len(arena) = heap_end - HEAP_START + 1
  BY <1>1 DEF MInv, TInv, ArenaInv
<1>3. heap_end \in HeapPages /\ heap_end \in AllVirt
  BY <1>2, ConstantFacts
<1>4. f \in held /\ f \in Nat
  <2>1. Len(arena) \in 1 .. Len(arena)
    BY <1>2, ConstantFacts
  <2>2. f \in held
    BY <1>2, <2>1
  <2>3. QED BY <2>2, ConstantFacts DEF MInv, TInv, OwnersInv
<1>5. V!Present(f, FALSE) \in V!Entry /\ MayWrite(V!Present(f, FALSE))
  BY <1>4, EntryFacts DEF MayWrite, Leads
<1>6. /\ TablesInv' /\ OwnersInv' /\ CallInv' /\ TLBInv' /\ LeavesInv'
      /\ \A w : LeafNow(w)' = LeafNow(w)
      /\ vpc = "idle" /\ vpc' = "walk" /\ call'.page = heap_end
      /\ call'.entry = V!Present(f, FALSE) /\ UNCHANGED held
  BY <1>1, <1>3, <1>5, StartStep
<1>7. ArenaInv'
  BY <1>1, <1>6 DEF MInv, TInv, ArenaInv, InCall
<1>8. QED BY <1>6, <1>7 DEF TInv

LEMMA OthersCallStep == ASSUME MInv, OthersCall PROVE TInv'
<1>1. /\ hpc = "idle" /\ UNCHANGED vars /\ UNCHANGED <<heap_end, n, hpc, arena>>
  BY DEF OthersCall, heapvars
<1>2. PICK v \in Virt, e \in V!Entry : MayWrite(e) /\ V!Start(v, e)
  <2>1. PICK v \in Virt :
          V!Unmap(v) \/ \E q \in held \ ArenaFrames, nx \in BOOLEAN : V!Map(v, q, nx)
    BY DEF OthersCall
  <2>2. CASE V!Unmap(v)
    <3>1. MayWrite(V!Zero) /\ V!Start(v, V!Zero) /\ V!Zero \in V!Entry
      BY <2>2, EntryFacts DEF V!Unmap, MayWrite, Zero
    <3>2. QED BY <3>1
  <2>3. CASE \E q \in held \ ArenaFrames, nx \in BOOLEAN : V!Map(v, q, nx)
    <3>1. PICK q \in held, nx \in BOOLEAN : V!Start(v, V!Present(q, nx))
      BY <2>3 DEF V!Map
    <3>2. q \in Nat
      BY ConstantFacts DEF MInv, TInv, OwnersInv
    <3>3. MayWrite(V!Present(q, nx)) /\ V!Present(q, nx) \in V!Entry
      BY <3>2, EntryFacts DEF MayWrite, Leads
    <3>4. QED BY <3>1, <3>3
  <2>4. QED BY <2>1, <2>2, <2>3
<1>3. v \in AllVirt
  BY ConstantFacts
<1>4. /\ TablesInv' /\ OwnersInv' /\ CallInv' /\ TLBInv' /\ LeavesInv'
      /\ \A w : LeafNow(w)' = LeafNow(w)
      /\ vpc = "idle" /\ vpc' = "walk" /\ call'.page = v /\ UNCHANGED held
  BY <1>1, <1>2, <1>3, StartStep
<1>5. ArenaInv'
  BY <1>1, <1>4 DEF MInv, TInv, ArenaInv, InCall
<1>6. QED BY <1>4, <1>5 DEF TInv

LEMMA OthersObtainStep == ASSUME MInv, OthersObtain PROVE TInv'
<1>1. Alloc /\ V!Obtain /\ UNCHANGED <<heap_end, n, hpc, arena>> /\ hpc = "idle"
  BY DEF OthersObtain, heapvars
<1>2. /\ vpc = "idle" /\ UNCHANGED vpc /\ TablesInv' /\ OwnersInv' /\ CallInv' /\ TLBInv' /\ LeavesInv'
      /\ \A v : LeafNow(v)' = LeafNow(v) /\ held \subseteq held'
  BY <1>1, ObtainStep
<1>3. arena \in Seq(held')
  BY <1>2 DEF MInv, TInv, ArenaInv
<1>4. ArenaInv'
  BY <1>1, <1>2, <1>3 DEF MInv, TInv, ArenaInv, InCall
<1>5. QED BY <1>2, <1>4 DEF TInv

\* A caller gives back a frame that no translation leads to.
LEMMA OthersFreeStep == ASSUME MInv, NEW q \in held \ ArenaFrames, OthersFree(q) PROVE TInv'
<1>1. /\ hpc = "idle" /\ vpc = "idle" /\ Free(q) /\ held' = held \ {q}
      /\ \A v \in Virt : Leaf(v).present => Leaf(v).frame # q
      /\ UNCHANGED <<pml4, tab, tlb, vpc, call, level, table, heap_end, n, hpc, arena>>
  BY DEF OthersFree, heapvars
<1>2. owned' = owned \ {q} /\ pc' = pc
  BY <1>1 DEF Free
<1>3. TablesInv' /\ \A v : LeafNow(v)' = LeafNow(v)
  BY <1>1, TablesStay DEF MInv
<1>4. OwnersInv'
  <2>1. /\ OwnersInv /\ PMMInitialized /\ vpc # "init"
        /\ held \cap DOMAIN tab = {} /\ owned = (held \cup DOMAIN tab) \ {NULL}
    BY <1>1 DEF MInv, TInv, OwnersInv
  <2>2. PMMInitialized' /\ vpc' # "init"
    BY <1>1, <1>2, <2>1 DEF PMMInitialized
  <2>3. held' \cap DOMAIN tab' = {} /\ owned' = (held' \cup DOMAIN tab') \ {NULL}
    BY <1>1, <1>2, <2>1
  <2>4. QED BY <1>1, <2>1, <2>2, <2>3 DEF OwnersInv
<1>5. \A v \in AllVirt : Leaf(v) = LeafNow(v)
  BY SameLeaf DEF MInv, TInv, TablesInv, LeafNow, Leaf
<1>6. \A v \in AllVirt : LeafNow(v) = Zero \/ (LeafNow(v).present /\ LeafNow(v).frame \in held')
  <2> SUFFICES ASSUME NEW v \in AllVirt, LeafNow(v) # Zero
               PROVE  LeafNow(v).present /\ LeafNow(v).frame \in held'
    OBVIOUS
  <2>1. LeafNow(v).present /\ LeafNow(v).frame \in held
    BY DEF MInv, TInv, LeavesInv, Leads
  <2>2. CASE v \in Virt
    BY <1>1, <1>5, <2>1, <2>2
  <2>3. CASE v \in HeapPages
    <3>1. LeafNow(v).frame \in ArenaFrames
      BY <2>3 DEF MInv, TInv, ArenaInv, ArenaFrames
    <3>2. QED BY <1>1, <2>1, <3>1
  <2>4. QED BY <2>2, <2>3 DEF AllVirt
<1>7. LeavesInv'
  BY <1>3, <1>6 DEF LeavesInv, Leads
<1>8. TLBInv'
  <2>1. \A v \in DOMAIN tlb : /\ v \in AllVirt /\ tlb[v] = LeafNow(v) /\ tlb[v].present
    BY <1>1 DEF MInv, TInv, TLBInv, Leads
  <2>2. \A v \in DOMAIN tlb : tlb[v] # Zero
    BY <2>1, EntryFacts DEF Zero
  <2>3. \A v \in DOMAIN tlb : tlb[v].frame \in held'
    BY <1>6, <2>1, <2>2
  <2>4. QED BY <1>1, <1>3, <2>1, <2>3 DEF MInv, TInv, TLBInv, Leads
<1>9. CallInv'
  BY <1>1 DEF MInv, TInv, CallInv, InCall
<1>10. ArenaInv'
  <2>1. arena \in Seq(held) /\ \A a \in 1 .. Len(arena) : arena[a] # q
    BY DEF MInv, TInv, ArenaInv, ArenaFrames
  <2>2. arena \in Seq(held')
    BY <1>1, <2>1
  <2>3. QED BY <1>1, <1>3, <2>2 DEF MInv, TInv, ArenaInv, InCall
<1>11. QED BY <1>3, <1>4, <1>7, <1>8, <1>9, <1>10 DEF TInv

-----------------------------------------------------------------------------
(* The steps of a call *)

\* The entry that a call has come to.
LEMMA CursorFacts ==
  ASSUME MInv, InCall
  PROVE  /\ Tree(tab, pml4) /\ call.page \in AllVirt /\ level \in 1 .. 4
         /\ table = Node(tab, pml4, call.page, level) /\ table \in Tables(tab, pml4, level)
         /\ V!Slot = V!Index(call.page, level) /\ V!Slot \in Slots(level) /\ V!Slot \in Idx
         /\ table \in DOMAIN tab /\ PMMInitialized /\ vpc # "init"
         /\ MayWrite(call.entry) /\ call.entry \in V!Entry
<1>1. /\ call.page \in AllVirt /\ level \in 1 .. 4 /\ table = Node(tab, pml4, call.page, level)
      /\ table \in Tables(tab, pml4, level) /\ vpc # "init"
      /\ MayWrite(call.entry) /\ call.entry \in V!Entry
  BY DEF MInv, TInv, CallInv, InCall
<1>2. Tree(tab, pml4) /\ PMMInitialized
  BY <1>1 DEF MInv, TInv, TablesInv, OwnersInv
<1>3. level = 1 \/ level = 2 \/ level = 3 \/ level = 4
  BY <1>1
<1>4. V!Slot = V!Index(call.page, level) /\ V!Slot \in Slots(level) /\ V!Slot \in Idx
  BY <1>1, <1>3, IndexType DEF V!Slot, Slots
<1>5. table \in DOMAIN tab
  BY <1>1, <1>2, <1>3 DEF Tables, Tree
<1>6. QED BY <1>1, <1>2, <1>4, <1>5

\* The way of a page to the next level.
LEMMA NodeBelow ==
  ASSUME NEW g, NEW r, Tree(g, r), NEW v \in AllVirt, NEW l \in 2 .. 4, NEW t, NEW f,
         t = Node(g, r, v, l), Ent(g, t, V!Index(v, l)).present,
         Ent(g, t, V!Index(v, l)).frame = f, f # None
  PROVE  f = Node(g, r, v, l - 1) /\ f \in Tables(g, r, l - 1)
<1>1. Down(g, t, V!Index(v, l)) = f
  BY DEF Down
<1>2. /\ Node3(g, r, v) \in Set3(g, r) \cup {None} /\ Node2(g, r, v) \in Set2(g, r) \cup {None}
      /\ Node1(g, r, v) \in Set1(g, r) \cup {None}
  BY NodesInTree
<1>3. CASE l = 4
  BY <1>1, <1>2, <1>3 DEF Node, Node3, Tables
<1>4. CASE l = 3
  BY <1>1, <1>2, <1>4 DEF Node, Node2, Tables
<1>5. CASE l = 2
  BY <1>1, <1>2, <1>5 DEF Node, Node1, Tables
<1>6. l = 2 \/ l = 3 \/ l = 4
  OBVIOUS
<1>7. QED BY <1>3, <1>4, <1>5, <1>6

LEMMA DescendStep == ASSUME MInv, UNCHANGED vars, UNCHANGED heapvars, V!Descend PROVE TInv'
<1> DEFINE f == tab[table][V!Slot].frame
<1>1. /\ vpc = "walk" /\ level > 1 /\ tab[table][V!Slot].present
      /\ table' = f /\ level' = level - 1
      /\ UNCHANGED <<held, pml4, tab, tlb, vpc, call, heap_end, n, hpc, arena>>
  BY DEF V!Descend, heapvars
<1>2. UNCHANGED owned /\ (PMMInitialized => PMMInitialized')
  BY DEF vars, PMMInitialized
<1>3. InCall
  BY <1>1 DEF InCall
<1>4. /\ Tree(tab, pml4) /\ call.page \in AllVirt /\ level \in 2 .. 4
      /\ table = Node(tab, pml4, call.page, level)
      /\ V!Slot = V!Index(call.page, level) /\ V!Slot \in Idx /\ table \in DOMAIN tab
  BY <1>1, <1>3, CursorFacts
<1>5. f \in Nat /\ f # None
  <2>1. tab[table][V!Slot] \in V!Entry
    BY <1>4 DEF Tree, Typed
  <2>2. QED BY <2>1, EntryFacts
<1>6. /\ f = Node(tab, pml4, call.page, level - 1) /\ f \in Tables(tab, pml4, level - 1)
  <2>1. Ent(tab, table, V!Index(call.page, level)) = tab[table][V!Slot]
    BY <1>4 DEF Ent
  <2>2. QED BY <1>1, <1>4, <1>5, <2>1, NodeBelow
<1>7. TablesInv' /\ LeavesInv' /\ OwnersInv' /\ TLBInv' /\ \A v : LeafNow(v)' = LeafNow(v)
  BY <1>1, <1>2, TablesStay, LeavesStay, OwnersStay, TLBStays DEF MInv
<1>8. CallInv'
  <2>1. CallInv
    BY DEF MInv, TInv
  <2>2. level' \in 1 .. 4 /\ table' \in Nat /\ vpc' = "walk"
    BY <1>1, <1>4, <1>5
  <2>3. MayWrite(call.entry)'
    BY <1>1, <1>3, <2>1 DEF CallInv, MayWrite, Leads
  <2>4. table' = Node(tab', pml4', call'.page, level') /\ table' \in Tables(tab', pml4', level')
    BY <1>1, <1>6
  <2>5. QED BY <1>1, <1>4, <2>1, <2>2, <2>3, <2>4 DEF CallInv
<1>9. ArenaInv'
  BY <1>1, <1>7 DEF MInv, TInv, ArenaInv, InCall
<1>10. QED BY <1>7, <1>8, <1>9 DEF TInv

LEMMA CreateTableStep ==
  ASSUME MInv, Alloc, UNCHANGED heapvars, V!CreateTable
  PROVE  TInv' /\ \A v \in AllVirt : LeafNow(v)' = LeafNow(v)
<1>1. PICK f \in FreeSet :
        /\ FreeSet' = FreeSet \ {f} /\ tab' = V!WithTable(f)
        /\ table' = f /\ level' = level - 1
        /\ vpc = "walk" /\ level > 1 /\ ~tab[table][V!Slot].present
        /\ UNCHANGED <<held, pml4, tlb, vpc, call, heap_end, n, hpc, arena>>
  BY DEF V!CreateTable, FreeSet, heapvars
<1>2. InCall
  BY <1>1 DEF InCall
<1>3. /\ Tree(tab, pml4) /\ call.page \in AllVirt /\ level \in 2 .. 4
      /\ table = Node(tab, pml4, call.page, level) /\ table \in Tables(tab, pml4, level)
      /\ V!Slot = V!Index(call.page, level) /\ V!Slot \in Slots(level) /\ V!Slot \in Idx
      /\ table \in DOMAIN tab /\ PMMInitialized /\ vpc # "init"
  BY <1>1, <1>2, CursorFacts
<1>4. /\ pc = "ready" /\ pc' = "ready" /\ owned' = owned \cup {f}
      /\ f \in PageFrames /\ f \in Nat /\ f # NULL /\ f \notin owned
  BY <1>1, TakeFrame DEF MInv
<1>5. f \notin DOMAIN tab /\ f \notin held
  BY <1>3, <1>4 DEF MInv, TInv, OwnersInv
<1>6. tab' = Link(tab, table, V!Slot, f)
  BY <1>1 DEF V!WithTable, V!Linked, V!Empty, Link, Zero, Idx
<1>7. Absent(tab, table, V!Slot)
  BY <1>1 DEF Absent
<1> HIDE DEF Idx, Low
<1>8. /\ Tree(tab', pml4) /\ DOMAIN tab' = DOMAIN tab \cup {f}
      /\ \A y \in Idx \ Low : tab'[pml4][y] = tab[pml4][y]
      /\ \A v \in AllVirt : LeafAt(tab', pml4, v) = LeafAt(tab, pml4, v)
      /\ \A v \in AllVirt, j \in level .. 4 : Node(tab', pml4, v, j) = Node(tab, pml4, v, j)
      /\ Ent(tab', table, V!Slot).present /\ Ent(tab', table, V!Slot).frame = f
  <2>1. Grows(tab, tab', pml4, level, table, V!Slot, f)
    BY <1>3, <1>4, <1>5, <1>6, <1>7, LinkKeepsTree
  <2>2. QED BY <2>1 DEF Grows
<1>9. \A v \in AllVirt : LeafNow(v)' = LeafNow(v)
  BY <1>1, <1>8 DEF LeafNow
<1>10. TablesInv'
  <2>1. \A y \in Idx \ Low : tab'[pml4][y] = Boot[y]
    BY <1>3, <1>8 DEF MInv, TInv, TablesInv
  <2>2. QED BY <1>1, <1>8, <2>1 DEF TablesInv, Tree
<1>11. OwnersInv'
  <2>1. /\ held \subseteq PageFrames /\ pml4 \in PageFrames \cup {NULL}
        /\ DOMAIN tab \subseteq PageFrames \cup {NULL} /\ held \cap DOMAIN tab = {}
        /\ owned = (held \cup DOMAIN tab) \ {NULL}
    BY <1>3 DEF MInv, TInv, OwnersInv
  <2>2. held' \cap DOMAIN tab' = {} /\ owned' = (held' \cup DOMAIN tab') \ {NULL}
    BY <1>1, <1>4, <1>5, <1>8, <2>1
  <2>3. DOMAIN tab' \subseteq PageFrames \cup {NULL}
    BY <1>4, <1>8, <2>1
  <2>4. PMMInitialized' /\ vpc' # "init"
    BY <1>1, <1>4 DEF PMMInitialized
  <2>5. QED BY <1>1, <2>1, <2>2, <2>3, <2>4 DEF OwnersInv
<1>12. LeavesInv'
  BY <1>1, <1>9 DEF MInv, TInv, LeavesInv, Leads
<1>13. TLBInv'
  BY <1>1, <1>9 DEF MInv, TInv, TLBInv, Leads
<1>14. CallInv'
  <2>1. CallInv
    BY DEF MInv, TInv
  <2>2. level' \in 1 .. 4 /\ table' \in Nat /\ vpc' = "walk"
    BY <1>1, <1>3, <1>4
  <2>3. MayWrite(call.entry)'
    BY <1>1, <1>2, <2>1 DEF CallInv, MayWrite, Leads
  <2>4. f = Node(tab', pml4, call.page, level - 1) /\ f \in Tables(tab', pml4, level - 1)
    <3>1. table = Node(tab', pml4, call.page, level)
      BY <1>3, <1>8
    <3>2. f # None
      BY <1>4, EntryFacts
    <3>3. QED BY <1>3, <1>8, <3>1, <3>2, NodeBelow
  <2>5. QED BY <1>1, <1>3, <2>1, <2>2, <2>3, <2>4 DEF CallInv
<1>15. ArenaInv'
  BY <1>1, <1>9, ConstantFacts DEF MInv, TInv, ArenaInv, InCall
<1>16. QED BY <1>9, <1>10, <1>11, <1>12, <1>13, <1>14, <1>15 DEF TInv

LEMMA WriteEntryStep ==
  ASSUME MInv, UNCHANGED vars, UNCHANGED heapvars, V!WriteEntry
  PROVE  /\ TInv' /\ call.page \in AllVirt /\ call.entry \in V!Entry /\ MayWrite(call.entry)
         /\ \A v \in AllVirt : LeafNow(v)' = IF v = call.page THEN call.entry ELSE LeafNow(v)
<1> DEFINE e == call.entry
           p == call.page
<1>1. /\ tab' = Write(tab, table, V!Slot, e)
      /\ vpc = "walk" /\ level = 1 /\ vpc' = "flush"
      /\ UNCHANGED <<held, pml4, tlb, call, level, table, heap_end, n, hpc, arena>>
  BY DEF V!WriteEntry, Write, heapvars
<1>2. UNCHANGED owned /\ (PMMInitialized => PMMInitialized')
  BY DEF vars, PMMInitialized
<1>3. InCall
  BY <1>1 DEF InCall
<1>4. /\ Tree(tab, pml4) /\ p \in AllVirt
      /\ table = Node1(tab, pml4, p) /\ table \in Set1(tab, pml4) /\ table \in DOMAIN tab
      /\ V!Slot = V!Index(p, 1) /\ V!Slot \in Idx /\ e \in V!Entry /\ MayWrite(e) /\ vpc # "init"
  BY <1>1, <1>3, CursorFacts DEF Node, Tables
<1>5. table # None
  BY <1>4, NodesInTree
<1> HIDE DEF e, p
<1>6. /\ Tree(tab', pml4) /\ DOMAIN tab' = DOMAIN tab /\ tab'[pml4] = tab[pml4]
      /\ Set1(tab', pml4) = Set1(tab, pml4)
      /\ \A v \in AllVirt :
           /\ Node1(tab', pml4, v) = Node1(tab, pml4, v)
           /\ LeafAt(tab', pml4, v) = IF Node1(tab, pml4, v) = table /\ V!Index(v, 1) = V!Slot
                                      THEN e ELSE LeafAt(tab, pml4, v)
  <2>1. Rewrites(tab, tab', pml4, table, V!Slot, e)
    BY <1>1, <1>4, WriteKeepsTree DEF e
  <2>2. QED BY <2>1 DEF Rewrites
<1>7. \A v \in AllVirt : LeafNow(v)' = IF v = p THEN e ELSE LeafNow(v)
  <2> SUFFICES ASSUME NEW v \in AllVirt PROVE LeafNow(v)' = IF v = p THEN e ELSE LeafNow(v)
    OBVIOUS
  <2>1. CASE v = p
    BY <1>1, <1>4, <1>6, <2>1 DEF LeafNow
  <2>2. CASE v # p
    <3>1. ~(Node1(tab, pml4, v) = table /\ V!Index(v, 1) = V!Slot)
      BY <1>4, <1>5, <2>2, OwnEntry
    <3>2. QED BY <1>1, <1>6, <2>2, <3>1 DEF LeafNow
  <2>3. QED BY <2>1, <2>2
<1>8. TablesInv'
  <2>1. \A y \in Idx \ Low : tab'[pml4][y] = Boot[y]
    BY <1>4, <1>6 DEF MInv, TInv, TablesInv
  <2>2. QED BY <1>1, <1>6, <2>1 DEF TablesInv, Tree
<1>9. OwnersInv'
  BY <1>1, <1>2, <1>4, <1>6 DEF MInv, TInv, OwnersInv
<1>10. MayWrite(e)' /\ (MayWrite(e) => e = Zero \/ Leads(e)') /\ \A x : Leads(x)' = Leads(x)
  BY <1>1, <1>4 DEF MayWrite, Leads, e
<1>11. LeavesInv'
  <2>1. \A v \in AllVirt : LeafNow(v)' = e \/ LeafNow(v)' = LeafNow(v)
    BY <1>7
  <2>2. \A v \in AllVirt : LeafNow(v) = Zero \/ Leads(LeafNow(v))
    BY DEF MInv, TInv, LeavesInv
  <2>3. QED BY <1>1, <1>4, <1>10, <2>1, <2>2 DEF LeavesInv, Leads, MayWrite
<1>12. TLBInv'
  <2>1. /\ DOMAIN tlb \subseteq AllVirt /\ tlb \in [DOMAIN tlb -> V!Entry]
        /\ \A v \in DOMAIN tlb : Leads(tlb[v]) /\ tlb[v] = LeafNow(v)
    BY <1>1 DEF MInv, TInv, TLBInv
  <2>2. \A v \in DOMAIN tlb : tlb[v] = LeafNow(v)' \/ v = p
    BY <1>7, <2>1
  <2>3. \A v \in DOMAIN tlb : Leads(tlb[v])'
    BY <1>1, <2>1 DEF Leads
  <2>4. QED BY <1>1, <2>1, <2>2, <2>3 DEF TLBInv, p
<1>13. CallInv'
  <2>1. CallInv
    BY DEF MInv, TInv
  <2>2. table = Node(tab', pml4, p, 1) /\ table \in Tables(tab', pml4, 1)
    BY <1>4, <1>6 DEF Node, Tables
  <2>3. LeafAt(tab', pml4', p) = e
    BY <1>4, <1>7 DEF LeafNow
  <2>4. LeafNow(call.page)' = call'.entry
    BY <1>1, <2>3 DEF p, e, LeafNow
  <2>5. QED BY <1>1, <1>4, <1>10, <2>1, <2>2, <2>4 DEF CallInv, InCall, p, e
<1>14. ArenaInv'
  <2>1. IF hpc = "mapping" THEN p = heap_end /\ e = V!Present(arena[Len(arena)], FALSE)
        ELSE hpc = "idle" /\ p \in Virt
    BY <1>3 DEF MInv, TInv, ArenaInv, p, e
  <2>2. ASSUME NEW q \in HeapPages, LeafNow(q)' # Zero
        PROVE  q - HEAP_START + 1 \in 1 .. Len(arena) /\ LeafNow(q)'.frame = arena[q - HEAP_START + 1]
    <3>1. CASE q # p
      <4>1. LeafNow(q)' = LeafNow(q)
        BY <1>7, <3>1, ConstantFacts
      <4>2. QED BY <2>2, <4>1 DEF MInv, TInv, ArenaInv
    <3>2. CASE q = p
      <4>1. hpc = "mapping" /\ q = heap_end
        BY <2>1, <3>2, ConstantFacts
      <4>2. LeafNow(q)' = V!Present(arena[Len(arena)], FALSE)
        BY <1>7, <2>1, <3>2, <4>1, ConstantFacts
      <4>3. LeafNow(q)'.frame = arena[Len(arena)]
        BY <4>2 DEF V!Present
      <4>4. /\ heap_end \in Nat /\ HEAP_START <= heap_end /\ HEAP_START \in Nat
            /\ Len(arena) = heap_end - HEAP_START + 1
        BY <4>1, ConstantFacts DEF MInv, TInv, ArenaInv
      <4>5. QED BY <4>1, <4>3, <4>4
    <3>3. QED BY <3>1, <3>2
  <2>3. QED BY <1>1, <2>2 DEF MInv, TInv, ArenaInv, InCall
<1>15. QED BY <1>4, <1>7, <1>8, <1>9, <1>11, <1>12, <1>13, <1>14 DEF TInv, p, e

\* map() or unmap() returns before it has written anything.
LEMMA GiveUpStep ==
  ASSUME MInv, AllocFails \/ UNCHANGED vars, UNCHANGED heapvars, V!GiveUp
  PROVE  TInv'
<1>1. /\ vpc = "walk" /\ vpc' = "idle"
      /\ UNCHANGED <<held, pml4, tab, tlb, call, level, table, heap_end, n, hpc, arena>>
  BY DEF V!GiveUp, heapvars
<1>2. UNCHANGED owned /\ (PMMInitialized => PMMInitialized')
  BY DEF vars, PMMInitialized, AllocFails
<1>3. TablesInv' /\ LeavesInv' /\ OwnersInv' /\ TLBInv' /\ \A v : LeafNow(v)' = LeafNow(v)
  BY <1>1, <1>2, TablesStay, LeavesStay, OwnersStay, TLBStays DEF MInv
<1>4. CallInv'
  BY <1>1 DEF MInv, TInv, CallInv, InCall
<1>5. ArenaInv'
  BY <1>1, <1>3 DEF MInv, TInv, ArenaInv, InCall
<1>6. QED BY <1>3, <1>4, <1>5 DEF TInv

LEMMA InvlpgStep == ASSUME MInv, UNCHANGED vars, UNCHANGED heapvars, V!Invlpg PROVE TInv'
<1>1. /\ vpc = "flush" /\ vpc' = "idle" /\ tlb' = [w \in DOMAIN tlb \ {call.page} |-> tlb[w]]
      /\ UNCHANGED <<held, pml4, tab, call, level, table, heap_end, n, hpc, arena>>
  BY DEF V!Invlpg, V!Without, heapvars
<1>2. UNCHANGED owned /\ (PMMInitialized => PMMInitialized')
  BY DEF vars, PMMInitialized
<1>3. TablesInv' /\ LeavesInv' /\ OwnersInv' /\ \A v : LeafNow(v)' = LeafNow(v)
  BY <1>1, <1>2, TablesStay, LeavesStay, OwnersStay DEF MInv
<1>4. CallInv'
  BY <1>1 DEF MInv, TInv, CallInv, InCall
<1>5. TLBInv'
  <2>1. /\ DOMAIN tlb \subseteq AllVirt /\ tlb \in [DOMAIN tlb -> V!Entry]
        /\ \A v \in DOMAIN tlb : Leads(tlb[v]) /\ (tlb[v] = LeafNow(v) \/ call.page = v)
    BY DEF MInv, TInv, TLBInv
  <2>2. /\ DOMAIN tlb' \subseteq AllVirt /\ tlb' \in [DOMAIN tlb' -> V!Entry]
        /\ \A v \in DOMAIN tlb' : v \in DOMAIN tlb /\ v # call.page /\ tlb'[v] = tlb[v]
    BY <1>1, <2>1
  <2>3. \A v \in DOMAIN tlb' : Leads(tlb[v])'
    BY <1>1, <2>1, <2>2 DEF Leads
  <2>4. QED BY <1>1, <1>3, <2>1, <2>2, <2>3 DEF TLBInv
<1>6. ArenaInv'
  BY <1>1, <1>3 DEF MInv, TInv, ArenaInv, InCall
<1>7. QED BY <1>3, <1>4, <1>5, <1>6 DEF TInv

LEMMA CallStepStep == ASSUME MInv, CallStep PROVE TInv'
<1>1. CASE Alloc /\ V!CreateTable
  BY <1>1, CreateTableStep DEF CallStep
<1>2. CASE (AllocFails \/ UNCHANGED vars) /\ V!GiveUp
  BY <1>2, GiveUpStep DEF CallStep
<1>3. CASE UNCHANGED vars /\ (V!Descend \/ V!WriteEntry \/ V!Invlpg)
  BY <1>3, DescendStep, WriteEntryStep, InvlpgStep DEF CallStep
<1>4. QED BY <1>1, <1>2, <1>3 DEF CallStep

\* The processor finds a translation in the tables, or drops one.
LEMMA TLBStepStep == ASSUME MInv, TLBStep PROVE TInv'
<1>1. PICK v \in AllVirt : V!TLBFill(v) \/ V!TLBEvict(v)
  BY DEF TLBStep
<1>2. /\ UNCHANGED <<held, pml4, tab, vpc, call, level, table, owned, pc, heap_end, n, hpc, arena>>
      /\ vpc = "init" => DOMAIN tlb = {} /\ ~V!TLBFill(v)
  BY <1>1 DEF V!TLBFill, V!TLBEvict, TLBStep, vars, heapvars, MInv, TInv, TLBInv
<1>3. TablesInv' /\ LeavesInv' /\ OwnersInv' /\ \A w : LeafNow(w)' = LeafNow(w)
  BY <1>2, TablesStay, LeavesStay, OwnersStay DEF MInv, PMMInitialized
<1>4. CallInv' /\ ArenaInv'
  <2>1. CallInv'
    BY <1>2, <1>3 DEF MInv, TInv, CallInv, InCall, MayWrite, Leads
  <2>2. ArenaInv'
    BY <1>2, <1>3 DEF MInv, TInv, ArenaInv, InCall
  <2>3. QED BY <2>1, <2>2
<1>5. /\ DOMAIN tlb \subseteq AllVirt /\ tlb \in [DOMAIN tlb -> V!Entry]
      /\ \A w \in DOMAIN tlb : Leads(tlb[w]) /\ (tlb[w] = LeafNow(w) \/ (vpc = "flush" /\ call.page = w))
  BY DEF MInv, TInv, TLBInv
<1>6. \A x : Leads(x)' = Leads(x)
  BY <1>2 DEF Leads
<1>7. TLBInv'
  <2>1. CASE V!TLBFill(v)
    <3>1. /\ vpc # "init" /\ V!Leaf(v).present
          /\ tlb' = [w \in DOMAIN tlb \cup {v} |-> IF w = v THEN V!Leaf(v) ELSE tlb[w]]
      BY <2>1 DEF V!TLBFill
    <3>2. V!Leaf(v) = LeafNow(v)
      BY SameLeaf DEF MInv, TInv, TablesInv, LeafNow
    <3>3. Leads(LeafNow(v))
      BY <3>1, <3>2, EntryFacts DEF MInv, TInv, LeavesInv, Zero
    <3>4. LeafNow(v) \in V!Entry
      <4>1. Tree(tab, pml4)
        BY <3>1 DEF MInv, TInv, TablesInv
      <4>2. V!Index(v, 1) \in Idx
        BY IndexType
      <4>3. QED BY <4>1, <4>2, EntryFacts DEF LeafNow, LeafAt, Ent, Zero, Tree, Typed
    <3>5. /\ DOMAIN tlb' \subseteq AllVirt /\ tlb' \in [DOMAIN tlb' -> V!Entry]
          /\ \A w \in DOMAIN tlb' : IF w = v THEN tlb'[w] = LeafNow(v)
                                    ELSE w \in DOMAIN tlb /\ tlb'[w] = tlb[w]
      BY <1>5, <3>1, <3>2, <3>4
    <3>6. \A w \in DOMAIN tlb' : Leads(tlb[w])'
      BY <1>2, <1>5, <3>3, <3>5 DEF Leads
    <3>7. QED BY <1>2, <1>3, <1>5, <3>1, <3>5, <3>6 DEF TLBInv
  <2>2. CASE V!TLBEvict(v)
    <3>1. tlb' = [w \in DOMAIN tlb \ {v} |-> tlb[w]] /\ v \in DOMAIN tlb
      BY <2>2 DEF V!TLBEvict, V!Without
    <3>2. /\ DOMAIN tlb' \subseteq AllVirt /\ tlb' \in [DOMAIN tlb' -> V!Entry]
          /\ \A w \in DOMAIN tlb' : w \in DOMAIN tlb /\ tlb'[w] = tlb[w]
      BY <1>5, <3>1
    <3>3. \A w \in DOMAIN tlb' : Leads(tlb[w])'
      BY <1>2, <1>5, <3>2 DEF Leads
    <3>4. QED BY <1>2, <1>3, <1>5, <3>1, <3>2, <3>3 DEF TLBInv
  <2>3. QED BY <1>1, <2>1, <2>2
<1>8. QED BY <1>3, <1>4, <1>7 DEF TInv

-----------------------------------------------------------------------------
(* Every step of the memory managers is one of the physical memory manager. *)

LEMMA PMMSteps == ASSUME MemoryNext \/ UNCHANGED allvars PROVE [Next]_vars
<1>1. PMMStep \/ InitVMM \/ InitVMMFaults \/ HeapInit \/ KmallocExpands => [Next]_vars
  BY DEF PMMStep, InitVMM, InitVMMFaults, HeapInit, KmallocExpands, Expand, Next, NoFrame, AllocFails
<1>2. ExpandAlloc \/ ExpandReturns \/ ExpandMap \/ ExpandNext => [Next]_vars
  BY DEF ExpandAlloc, ExpandReturns, ExpandMap, ExpandNext, Next, NoFrame, AllocFails, vars
<1>3. OthersObtain \/ OthersCall \/ CallStep \/ TLBStep \/ Stopped \/ UNCHANGED allvars => [Next]_vars
  BY DEF OthersObtain, OthersCall, CallStep, TLBStep, Stopped, Fault, Next, AllocFails, allvars, vars
<1>4. \A q : OthersFree(q) => [Next]_vars
  BY DEF OthersFree, Free, Next
<1>5. QED BY <1>1, <1>2, <1>3, <1>4 DEF MemoryNext

LEMMA NextMInv == MInv /\ [MemoryNext]_allvars => MInv'
<1> SUFFICES ASSUME MInv, [MemoryNext]_allvars PROVE MInv'
  OBVIOUS
<1>1. IInv'
  BY PMMSteps, NextIInv DEF MInv
<1>2. TInv'
  <2>1. CASE PMMStep \/ InitVMM \/ InitVMMFaults \/ Stopped \/ UNCHANGED allvars
    BY <2>1, PMMTStep, InitVMMStep, FaultSteps
  <2>2. CASE HeapInit \/ KmallocExpands \/ ExpandAlloc \/ ExpandReturns \/ ExpandMap \/ ExpandNext
    BY <2>2, ExpandStep, ExpandAllocStep, ExpandReturnsStep, ExpandMapStep, ExpandNextStep
  <2>3. CASE OthersObtain \/ OthersCall \/ \E q \in held \ ArenaFrames : OthersFree(q)
    BY <2>3, OthersObtainStep, OthersCallStep, OthersFreeStep
  <2>4. CASE CallStep \/ TLBStep
    BY <2>4, CallStepStep, TLBStepStep
  <2>5. QED BY <2>1, <2>2, <2>3, <2>4 DEF MemoryNext
<1>3. QED BY <1>1, <1>2 DEF MInv

LEMMA InitMInv == MemoryInit => MInv
BY InitIInv, InitTInv DEF MemoryInit, MInv

\* The tables, their owners, the call under way, the TLB and the heap's frames keep to
\* the invariant, whatever the memory map, the pages and the interleaving.
THEOREM MInvHolds == MemorySpec => []MInv
BY InitMInv, NextMInv, PTL DEF MemorySpec

-----------------------------------------------------------------------------
(* What the invariant says of the memory managers *)

\* No frame is free and owned, by a caller or as a table.
LEMMA OwnersApart ==
  ASSUME MInv
  PROVE  FreeSet \subseteq PageFrames /\ FreeSet \cap held = {} /\ FreeSet \cap DOMAIN tab = {}
<1>1. FreeSet \subseteq PageFrames /\ FreeSet \cap owned = {} /\ NULL \notin FreeSet
  BY FreeFacts DEF MInv
<1>2. held \subseteq PageFrames /\ NULL \notin PageFrames
  BY ConstantFacts DEF MInv, TInv, OwnersInv
<1>3. CASE vpc = "init"
  BY <1>1, <1>3 DEF MInv, TInv, OwnersInv
<1>4. CASE vpc # "init"
  <2>1. owned = (held \cup DOMAIN tab) \ {NULL}
    BY <1>4 DEF MInv, TInv, OwnersInv
  <2>2. QED BY <1>1, <1>2, <2>1
<1>5. QED BY <1>3, <1>4

LEMMA TablesTyped == MInv => V!TypeOK
<1> SUFFICES ASSUME MInv PROVE V!TypeOK
  OBVIOUS
<1>1. FreeSet \subseteq PageFrames
  BY OwnersApart
<1>2. DOMAIN tab \subseteq PageFrames \cup {V!NULL} /\ tab \in [DOMAIN tab -> [V!Idx -> V!Entry]]
  BY ConstantFacts DEF MInv, TInv, TablesInv, OwnersInv, Typed, Idx
<1>3. held \subseteq PageFrames /\ pml4 \in PageFrames \cup {V!NULL}
  BY ConstantFacts DEF MInv, TInv, OwnersInv
<1>4. DOMAIN tlb \subseteq AllVirt /\ tlb \in [DOMAIN tlb -> V!Entry]
  BY DEF MInv, TInv, TLBInv
<1>5. /\ vpc \in {"init", "idle", "walk", "flush"} /\ call \in [page : Nat, entry : V!Entry]
      /\ level \in 1 .. 4 /\ table \in Nat
  BY DEF MInv, TInv, CallInv
<1>6. QED BY <1>1, <1>2, <1>3, <1>4, <1>5 DEF V!TypeOK, FreeSet

LEMMA TablesAreTree == MInv => V!TablesFormTree
<1> SUFFICES ASSUME MInv, vpc # "init"
             PROVE  /\ DOMAIN tab = {pml4} \cup V!PDPTs \cup V!PDs \cup V!PTs
                    /\ pml4 \notin V!PDPTs \cup V!PDs \cup V!PTs
                    /\ V!PDPTs \cap V!PDs = {} /\ V!PDs \cap V!PTs = {} /\ V!PDPTs \cap V!PTs = {}
                    /\ V!NoSharing({pml4}, V!Idx \ V!High)
                    /\ V!NoSharing(V!PDPTs, V!Idx) /\ V!NoSharing(V!PDs, V!Idx)
                    /\ DOMAIN tab \cap (FreeSet \cup held) = {} /\ FreeSet \cap held = {}
  BY DEF V!TablesFormTree, FreeSet
<1>1. Tree(tab, pml4)
  BY DEF MInv, TInv, TablesInv
<1>2. held \cap DOMAIN tab = {}
  BY DEF MInv, TInv, OwnersInv
<1>3. QED BY <1>1, <1>2, OwnersApart, SameTerms DEF Tree

LEMMA TablesWalked == MInv => V!CursorOnPath /\ V!KernelHalfKept
<1> SUFFICES ASSUME MInv PROVE V!CursorOnPath /\ V!KernelHalfKept
  OBVIOUS
<1>1. V!CursorOnPath
  <2> SUFFICES ASSUME InCall
               PROVE  table \in CASE level = 4 -> {pml4} [] level = 3 -> V!PDPTs
                                  [] level = 2 -> V!PDs [] level = 1 -> V!PTs
    BY DEF V!CursorOnPath, InCall
  <2>1. table \in Tables(tab, pml4, level) /\ level \in 1 .. 4
    BY CursorFacts
  <2>2. level = 1 \/ level = 2 \/ level = 3 \/ level = 4
    BY <2>1
  <2>3. QED BY <2>1, <2>2, SameTerms DEF Tables
<1>2. V!KernelHalfKept
  <2>1. \A x \in V!High : x \in Idx \ Low
    BY ConstantFacts DEF Low, Idx
  <2>2. QED BY <2>1 DEF MInv, TInv, TablesInv, V!KernelHalfKept
<1>3. QED BY <1>1, <1>2

\* The page tables are at all times a tree of typed tables in frames nobody else has,
\* walked on the page's own path and outside the kernel's half.
THEOREM PageTablesKept == MemorySpec => []PageTablesInv
<1>1. MInv => PageTablesInv
  BY TablesTyped, TablesAreTree, TablesWalked DEF PageTablesInv, V!TablesInv
<1>2. QED BY <1>1, MInvHolds, PTL

\* No translation outlives its entry, but for the one that is about to be flushed.
THEOREM TLBCoherent == MemorySpec => []NoStaleTranslation
<1>1. MInv => NoStaleTranslation
  <2> SUFFICES ASSUME MInv, NEW v \in DOMAIN tlb
               PROVE  tlb[v] = V!Leaf(v) \/ (vpc = "flush" /\ call.page = v)
    BY DEF NoStaleTranslation, V!NoStaleTranslation
  <2>1. Typed(tab)
    BY DEF MInv, TInv, TablesInv
  <2>2. QED BY <2>1, SameLeaf DEF MInv, TInv, TLBInv, LeafNow
<1>2. QED BY <1>1, MInvHolds, PTL

\* PMM keeps what it promises under these callers.
THEOREM PagesStayAccounted == MemorySpec => [](PagesAccounted /\ BitmapKept)
<1>1. MemoryInit => Init
  BY DEF MemoryInit
<1>2. [MemoryNext]_allvars => [Next]_vars
  BY PMMSteps
<1>3. MemorySpec => Spec
  BY <1>1, <1>2, PTL DEF MemorySpec, Spec
<1>4. QED BY <1>3, Accounted, BitmapIsKept, PTL

\* Composed with its users, the physical memory manager still implements PageAllocator.
THEOREM AllocatorStaysImplemented == MemorySpec => ImplementsAllocator
<1>1. MemoryInit => Init
  BY DEF MemoryInit
<1>2. [MemoryNext]_allvars => [Next]_vars
  BY PMMSteps
<1>3. MemorySpec => Spec
  BY <1>1, <1>2, PTL DEF MemorySpec, Spec
<1>4. QED BY <1>3, Refinement
-----------------------------------------------------------------------------
\* What an invlpg ends: the page is mapped as the call asked for.
LEMMA InvlpgEnds ==
  ASSUME MInv, V!Invlpg
  PROVE  LET e == call.entry IN
           /\ V!Leaf(call.page) = e /\ call.page \notin DOMAIN tlb'
           /\ ~e.nx => V!virt_to_phys(call.page) = IF e.present THEN e.frame ELSE V!NULL
<1>1. /\ vpc = "flush" /\ tlb' = [w \in DOMAIN tlb \ {call.page} |-> tlb[w]]
  BY DEF V!Invlpg, V!Without
<1>2. LeafNow(call.page) = call.entry
  BY <1>1 DEF MInv, TInv, CallInv
<1>3. V!Leaf(call.page) = call.entry
  BY <1>2, SameLeaf DEF MInv, TInv, TablesInv, LeafNow
<1>4. call.page \notin DOMAIN tlb'
  BY <1>1
<1>5. call.entry \in V!Entry /\ call.entry.frame \in Nat
  BY EntryFacts DEF MInv, TInv, CallInv
<1>6. QED BY <1>3, <1>4, <1>5 DEF V!virt_to_phys

\* A map() or unmap() that reaches its invlpg did what it was asked for.
THEOREM CallsTakeEffect == MemorySpec => CallTakesEffect
<1>1. MInv /\ [MemoryNext]_allvars =>
        [V!Invlpg => LET e == call.entry IN
           /\ V!Leaf(call.page) = e /\ call.page \notin DOMAIN tlb'
           /\ ~e.nx => V!virt_to_phys(call.page) = IF e.present THEN e.frame ELSE V!NULL]_(V!vars)
  BY InvlpgEnds
<1>2. QED BY <1>1, MInvHolds, PTL DEF MemorySpec, CallTakesEffect, V!CallTakesEffect

\* The page of the heap that the frame at a place of the arena is for.
LEMMA ArenaFacts ==
  ASSUME MInv, hpc \in {"alloc", "idle"}
  PROVE  LET X == (HEAP_START .. heap_end - 1) \ MappedHeap
             Y == ArenaFrames \ {Leaf(p).frame : p \in MappedHeap}
         IN  Cardinality(Y) = Cardinality(X)
<1> DEFINE X == (HEAP_START .. heap_end - 1) \ MappedHeap
           Y == ArenaFrames \ {Leaf(p).frame : p \in MappedHeap}
           place(p) == p - HEAP_START + 1
           f == [p \in X |-> arena[place(p)]]
<1>1. /\ heap_end \in Nat /\ HEAP_START \in Nat /\ HEAP_START <= heap_end
      /\ Len(arena) = heap_end - HEAP_START
      /\ DOMAIN arena = 1 .. Len(arena)
      /\ \A a, b \in 1 .. Len(arena) : a # b => arena[a] # arena[b]
  BY ConstantFacts DEF MInv, TInv, ArenaInv
<1>2. \A p \in HeapPages : Leaf(p) = LeafNow(p)
  BY SameLeaf, ConstantFacts DEF MInv, TInv, TablesInv, LeafNow, Leaf
<1>3. \A p \in MappedHeap : place(p) \in 1 .. Len(arena) /\ Leaf(p).frame = arena[place(p)]
  <2> SUFFICES ASSUME NEW p \in MappedHeap
               PROVE  place(p) \in 1 .. Len(arena) /\ Leaf(p).frame = arena[place(p)]
    OBVIOUS
  <2>1. p \in HeapPages /\ Leaf(p).present
    BY DEF MappedHeap
  <2>2. LeafNow(p) # Zero
    BY <1>2, <2>1, EntryFacts DEF Zero
  <2>3. QED BY <1>2, <2>1, <2>2 DEF MInv, TInv, ArenaInv
<1>4. \A p \in HEAP_START .. heap_end - 1 : place(p) \in 1 .. Len(arena)
  BY <1>1
<1>5. \A p, q \in Int : place(p) = place(q) => p = q
  BY <1>1
<1>6. MappedHeap \subseteq Int
  BY <1>1, ConstantFacts DEF MappedHeap
<1>7. f \in [X -> Y]
  <2> SUFFICES ASSUME NEW p \in X PROVE arena[place(p)] \in Y
    OBVIOUS
  <2>1. arena[place(p)] \in ArenaFrames
    BY <1>1, <1>4 DEF ArenaFrames
  <2>2. ASSUME NEW q \in MappedHeap PROVE Leaf(q).frame # arena[place(p)]
    <3>1. p # q /\ p \in Int /\ q \in Int
      BY <1>1, <1>6
    <3>2. place(p) # place(q)
      BY <1>5, <3>1
    <3>3. place(q) \in 1 .. Len(arena) /\ Leaf(q).frame = arena[place(q)] /\ place(p) \in 1 .. Len(arena)
      BY <1>3, <1>4
    <3> HIDE DEF place
    <3>4. QED BY <1>1, <3>2, <3>3
  <2>3. QED BY <2>1, <2>2
<1>8. ASSUME NEW p \in X, NEW q \in X, f[p] = f[q] PROVE p = q
  <2>1. /\ p \in Int /\ q \in Int /\ place(p) \in 1 .. Len(arena) /\ place(q) \in 1 .. Len(arena)
        /\ arena[place(p)] = arena[place(q)]
    BY <1>1, <1>4, <1>8
  <2> HIDE DEF place
  <2>2. place(p) = place(q)
    BY <1>1, <2>1
  <2>3. QED BY <1>5, <2>1, <2>2
<1>9. ASSUME NEW y \in Y PROVE \E p \in X : f[p] = y
  <2>1. PICK a \in 1 .. Len(arena) : arena[a] = y
    BY <1>1 DEF ArenaFrames
  <2>2. HEAP_START + a - 1 \in HEAP_START .. heap_end - 1 /\ place(HEAP_START + a - 1) = a
    BY <1>1
  <2>3. HEAP_START + a - 1 \notin MappedHeap
    <3>1. ASSUME NEW q \in MappedHeap, q = HEAP_START + a - 1 PROVE FALSE
      <4>1. Leaf(q).frame = arena[a]
        BY <1>3, <2>2, <3>1
      <4>2. QED BY <2>1, <4>1
    <3>2. QED BY <3>1
  <2>4. QED BY <2>1, <2>2, <2>3
<1> HIDE DEF X, Y, f
<1>10. f \in Bijection(X, Y)
  <2>1. DOMAIN f = X
    BY <1>7
  <2>2. QED BY <1>7, <1>8, <1>9, <2>1 DEF Bijection, Injection, Surjection, IsInjective
<1>11. IsFiniteSet(X)
  <2>1. IsFiniteSet(HEAP_START .. heap_end - 1)
    BY <1>1, FS_Interval
  <2>2. QED BY <2>1, FS_Subset DEF X
<1>12. Cardinality(X) = Cardinality(Y)
  BY <1>10, <1>11, FS_Bijection DEF ExistsBijection
<1>13. QED BY <1>12 DEF X, Y

\* Every frame taken and not freed is a table that can be reached or is known to its
\* caller, and every translation leads to a frame that is held.
THEOREM FramesStayAccounted == MemorySpec => []FramesAccounted
<1>1. MInv => FramesAccounted
  <2> SUFFICES ASSUME MInv PROVE FramesAccounted
    OBVIOUS
  <2>1. vpc # "init" => owned = (held \cup {pml4} \cup V!PDPTs \cup V!PDs \cup V!PTs) \ {NULL}
    <3> SUFFICES ASSUME vpc # "init"
                 PROVE  owned = (held \cup {pml4} \cup V!PDPTs \cup V!PDs \cup V!PTs) \ {NULL}
      OBVIOUS
    <3>1. Tree(tab, pml4) /\ owned = (held \cup DOMAIN tab) \ {NULL}
      BY DEF MInv, TInv, TablesInv, OwnersInv
    <3>2. QED BY <3>1, SameTerms DEF Tree
  <2>2. \A v \in AllVirt : Leaf(v).present => Leaf(v).frame \in held
    <3> SUFFICES ASSUME NEW v \in AllVirt, Leaf(v).present PROVE Leaf(v).frame \in held
      OBVIOUS
    <3>1. Leaf(v) = LeafNow(v)
      BY SameLeaf DEF MInv, TInv, TablesInv, LeafNow, Leaf
    <3>2. LeafNow(v) # Zero
      BY <3>1, EntryFacts DEF Zero
    <3>3. QED BY <3>1, <3>2 DEF MInv, TInv, LeavesInv, Leads
  <2>3. \A v \in DOMAIN tlb : tlb[v].frame \in held
    BY DEF MInv, TInv, TLBInv, Leads
  <2>4. QED BY <2>1, <2>2, <2>3, ArenaFacts DEF FramesAccounted
<1>2. QED BY <1>1, MInvHolds, PTL
-----------------------------------------------------------------------------
(* The address space that the tables implement *)

Same == \A v \in AllVirt : V!Leaf(v) = LeafNow(v)

\* What is mapped, and to what; how far the latest call is.
Space == [v \in {w \in AllVirt : V!Leaf(w).present} |-> V!Leaf(v)]
Progress == IF vpc = "walk" THEN "called" ELSE IF vpc = "flush" THEN "done" ELSE "returned"
Asked == [present : {TRUE}, frame : PageFrames, nx : BOOLEAN]

\* No page's translation changes.
StillMapped == \A v \in AllVirt : LeafNow(v)' = LeafNow(v)

LEMMA SpaceSame == ASSUME Same, Same', StillMapped PROVE Space' = Space
<1>1. \A v \in AllVirt : V!Leaf(v)' = V!Leaf(v)
  BY DEF Same, StillMapped
<1>2. QED BY <1>1 DEF Space

LEMMA SpaceChanged ==
  ASSUME MInv, Same, Same', NEW p \in AllVirt, NEW e \in V!Entry, MayWrite(e),
         \A v \in AllVirt : LeafNow(v)' = IF v = p THEN e ELSE LeafNow(v)
  PROVE  Space' = V!AddressSpace!Changed(p, e)
<1>1. \A v \in AllVirt : V!Leaf(v)' = IF v = p THEN e ELSE V!Leaf(v)
  BY DEF Same
<1>2. DOMAIN Space = {w \in AllVirt : V!Leaf(w).present} /\ \A v \in DOMAIN Space : Space[v] = V!Leaf(v)
  BY DEF Space
<1>3. DOMAIN Space' = {w \in AllVirt : V!Leaf(w)'.present} /\ \A v \in DOMAIN Space' : Space'[v] = V!Leaf(v)'
  BY DEF Space
<1>4. Space' = [w \in DOMAIN Space' |-> Space'[w]]
  BY DEF Space
<1>5. CASE e = Zero
  <2>1. ~e.present
    BY <1>5, EntryFacts DEF Zero
  <2>2. DOMAIN Space' = DOMAIN Space \ {p} /\ \A v \in DOMAIN Space' : Space'[v] = Space[v]
    BY <1>1, <1>2, <1>3, <2>1
  <2>3. Space' = [w \in DOMAIN Space \ {p} |-> Space[w]]
    BY <1>4, <2>2
  <2>4. QED BY <1>5, <2>3 DEF V!AddressSpace!Changed, Space, Zero
<1>6. CASE e # Zero
  <2>1. e.present
    BY <1>6 DEF MayWrite, Leads
  <2>2. DOMAIN Space' = DOMAIN Space \cup {p} /\ Space'[p] = e
    BY <1>1, <1>2, <1>3, <2>1
  <2>3. \A w \in DOMAIN Space' : Space'[w] = IF w = p THEN e ELSE Space[w]
    BY <1>1, <1>2, <1>3, <2>2
  <2>4. Space' = [w \in DOMAIN Space \cup {p} |-> IF w = p THEN e ELSE Space[w]]
    BY <1>4, <2>2, <2>3
  <2>5. QED BY <1>6, <2>4 DEF V!AddressSpace!Changed, Space, Zero
<1>7. QED BY <1>5, <1>6

\* A call that begins asks for an entry that leads to a held frame, or for none.
LEMMA CallBegins ==
  ASSUME MInv, Same, Same', NEW p \in AllVirt, NEW e \in Asked \cup {Zero}, V!Start(p, e)
  PROVE  V!AddressSpace!Next
<1>1. /\ vpc = "idle" /\ vpc' = "walk" /\ call' = [page |-> p, entry |-> e]
      /\ UNCHANGED <<tab, pml4>>
  BY DEF V!Start
<1>2. Space' = Space
  BY <1>1, SpaceSame DEF StillMapped, LeafNow
<1>3. Progress = "returned" /\ Progress' = "called"
  BY <1>1 DEF Progress
<1>4. V!AddressSpace!Call(p, e)
  BY <1>1, <1>2, <1>3 DEF V!AddressSpace!Call, Space, Progress
<1>5. QED BY <1>4 DEF V!AddressSpace!Next, Asked, Zero

LEMMA CallsBegin ==
  ASSUME MInv, Same, Same', ExpandMap \/ OthersCall
  PROVE  V!AddressSpace!Next
<1>1. \A q \in held, nx \in BOOLEAN : V!Present(q, nx) \in Asked
  BY DEF MInv, TInv, OwnersInv, V!Present, Asked
<1>2. CASE ExpandMap
  <2>1. hpc = "map" /\ V!Start(heap_end, V!Present(arena[Len(arena)], FALSE))
    BY <1>2 DEF ExpandMap, V!Map
  <2>2. /\ heap_end \in Nat /\ n \in Nat /\ HEAP_START <= heap_end /\ n > 0
        /\ heap_end + n <= HEAP_START + HeapLimit
        /\ arena \in Seq(held) /\ Len(arena) = heap_end - HEAP_START + 1
    BY <2>1 DEF MInv, TInv, ArenaInv
  <2>3. heap_end \in AllVirt
    BY <2>2, ConstantFacts
  <2>4. Len(arena) \in 1 .. Len(arena)
    BY <2>2, ConstantFacts
  <2>5. arena[Len(arena)] \in held
    BY <2>2, <2>4
  <2>6. V!Present(arena[Len(arena)], FALSE) \in Asked \cup {Zero}
    BY <1>1, <2>5
  <2>7. QED BY <2>1, <2>3, <2>6, CallBegins
<1>3. CASE OthersCall
  <2>1. PICK p \in Virt :
          V!Unmap(p) \/ \E q \in held \ ArenaFrames, nx \in BOOLEAN : V!Map(p, q, nx)
    BY <1>3 DEF OthersCall
  <2>2. p \in AllVirt
    BY ConstantFacts
  <2>3. CASE V!Unmap(p)
    BY <2>2, <2>3, CallBegins DEF V!Unmap, Zero
  <2>4. CASE \E q \in held \ ArenaFrames, nx \in BOOLEAN : V!Map(p, q, nx)
    <3>1. PICK q \in held, nx \in BOOLEAN : V!Start(p, V!Present(q, nx))
      BY <2>4 DEF V!Map
    <3>2. V!Present(q, nx) \in Asked \cup {Zero}
      BY <1>1
    <3>3. QED BY <2>2, <3>1, <3>2, CallBegins
  <2>5. QED BY <2>1, <2>3, <2>4
<1>4. QED BY <1>2, <1>3

\* Below a table that is absent nothing is mapped.
LEMMA NothingBelow ==
  ASSUME MInv, vpc = "walk", level > 1, ~tab[table][V!Slot].present
  PROVE  LeafNow(call.page) = Zero
<1> DEFINE p == call.page
<1>1. /\ Tree(tab, pml4) /\ p \in AllVirt /\ level \in 2 .. 4
      /\ table = Node(tab, pml4, p, level) /\ V!Slot = V!Index(p, level)
      /\ table \in DOMAIN tab
  BY CursorFacts DEF InCall
<1>2. ~Ent(tab, table, V!Index(p, level)).present
  BY <1>1 DEF Ent
<1>3. None \notin DOMAIN tab /\ ~Zero.present
  BY EntryFacts DEF Zero, MInv, TInv, TablesInv, Typed
<1>4. Down(tab, table, V!Index(p, level)) = None
  BY <1>2 DEF Down
<1> HIDE DEF p, Zero, None
<1>5. \A x : Down(tab, None, x) = None /\ Ent(tab, None, x) = Zero
  BY <1>3 DEF Down, Ent
<1>6. level = 4 => Node3(tab, pml4, p) = None
  BY <1>1, <1>4 DEF Node, Node3
<1>7. level \in {3, 4} => Node2(tab, pml4, p) = None
  BY <1>1, <1>4, <1>5, <1>6 DEF Node, Node2
<1>8. Node1(tab, pml4, p) = None
  BY <1>1, <1>4, <1>5, <1>7 DEF Node, Node1
<1>9. QED BY <1>5, <1>8 DEF LeafNow, LeafAt, p

\* The steps of a call: it goes on, takes effect, returns or gives up.
LEMMA CallGoesOn ==
  ASSUME MInv, Same, Same', CallStep
  PROVE  V!AddressSpace!Next \/ UNCHANGED <<Space, call, Progress>>
<1>1. CASE Alloc /\ V!CreateTable
  <2>1. StillMapped
    BY <1>1, CreateTableStep DEF CallStep, StillMapped
  <2>2. UNCHANGED <<vpc, call>>
    BY <1>1 DEF V!CreateTable
  <2>3. QED BY <2>1, <2>2, SpaceSame DEF Progress
<1>2. CASE V!Descend
  <2>1. UNCHANGED <<tab, pml4, vpc, call>>
    BY <1>2 DEF V!Descend
  <2>2. QED BY <2>1, SpaceSame DEF Progress, StillMapped, LeafNow
<1>3. CASE UNCHANGED vars /\ V!WriteEntry
  <2>1. /\ call.page \in AllVirt /\ call.entry \in V!Entry /\ MayWrite(call.entry)
        /\ \A v \in AllVirt : LeafNow(v)' = IF v = call.page THEN call.entry ELSE LeafNow(v)
    BY <1>3, WriteEntryStep DEF CallStep
  <2>2. Space' = V!AddressSpace!Changed(call.page, call.entry)
    BY <2>1, SpaceChanged
  <2>3. vpc = "walk" /\ vpc' = "flush" /\ UNCHANGED call
    BY <1>3 DEF V!WriteEntry
  <2>4. Progress = "called" /\ Progress' = "done"
    BY <2>3 DEF Progress
  <2>5. V!AddressSpace!TakeEffect
    BY <2>2, <2>3, <2>4 DEF V!AddressSpace!TakeEffect, Space, Progress
  <2>6. QED BY <2>5 DEF V!AddressSpace!Next
<1>4. CASE V!Invlpg
  <2>1. vpc = "flush" /\ vpc' = "idle" /\ UNCHANGED <<tab, pml4, call>>
    BY <1>4 DEF V!Invlpg
  <2>2. Space' = Space
    BY <2>1, SpaceSame DEF StillMapped, LeafNow
  <2>3. Progress = "done" /\ Progress' = "returned"
    BY <2>1 DEF Progress
  <2>4. V!AddressSpace!Return
    BY <2>1, <2>2, <2>3 DEF V!AddressSpace!Return, Space, Progress
  <2>5. QED BY <2>4 DEF V!AddressSpace!Next
<1>5. CASE V!GiveUp
  <2>1. /\ vpc = "walk" /\ vpc' = "idle" /\ UNCHANGED <<tab, pml4, call>>
        /\ level > 1 /\ ~tab[table][V!Slot].present
    BY <1>5 DEF V!GiveUp
  <2>2. Space' = Space
    BY <2>1, SpaceSame DEF StillMapped, LeafNow
  <2>3. Progress = "called" /\ Progress' = "returned"
    BY <2>1 DEF Progress
  <2>4. LeafNow(call.page) = Zero
    BY <2>1, NothingBelow
  <2>5. call.page \notin DOMAIN Space
    <3>1. call.page \in AllVirt => ~V!Leaf(call.page).present
      BY <2>4, EntryFacts DEF Same, Zero
    <3>2. QED BY <3>1 DEF Space
  <2>6. V!AddressSpace!Fail
    BY <2>1, <2>2, <2>3, <2>5 DEF V!AddressSpace!Fail, Space, Progress
  <2>7. QED BY <2>6 DEF V!AddressSpace!Next
<1>6. QED BY <1>1, <1>2, <1>3, <1>4, <1>5 DEF CallStep

LEMMA SpaceStep ==
  ASSUME MInv, Same, Same', [MemoryNext]_allvars
  PROVE  V!AddressSpace!Next \/ UNCHANGED <<Space, call, Progress>>
<1>1. CASE InitVMM
  <2>1. StillMapped
    BY <1>1, InitVMMStep DEF StillMapped
  <2>2. vpc = "init" /\ vpc' = "idle" /\ UNCHANGED call
    BY <1>1 DEF InitVMM, V!VMMInit
  <2>3. QED BY <2>1, <2>2, SpaceSame DEF Progress
<1>2. CASE ExpandMap \/ OthersCall
  BY <1>2, CallsBegin
<1>3. CASE CallStep
  BY <1>3, CallGoesOn
<1>4. CASE ~(InitVMM \/ ExpandMap \/ OthersCall \/ CallStep)
  <2>1. UNCHANGED <<tab, pml4, vpc, call>>
    <3>1. PMMStep \/ InitVMMFaults \/ HeapInit \/ KmallocExpands \/ Stopped \/ UNCHANGED allvars
            => UNCHANGED <<tab, pml4, vpc, call>>
      BY DEF PMMStep, InitVMMFaults, HeapInit, KmallocExpands, Expand, Stopped, allvars, vmmvars
    <3>2. ExpandAlloc \/ ExpandReturns \/ ExpandNext => UNCHANGED <<tab, pml4, vpc, call>>
      BY DEF ExpandAlloc, ExpandReturns, ExpandNext, V!Obtain, vmmvars
    <3>3. OthersObtain \/ TLBStep \/ (\E q : OthersFree(q)) => UNCHANGED <<tab, pml4, vpc, call>>
      BY DEF OthersObtain, TLBStep, OthersFree, V!Obtain, V!TLBFill, V!TLBEvict
    <3>4. QED BY <1>4, <3>1, <3>2, <3>3 DEF MemoryNext
  <2>2. QED BY <2>1, SpaceSame DEF Progress, StillMapped, LeafNow
<1>5. QED BY <1>1, <1>2, <1>3, <1>4

\* The page tables implement the abstract address space: whatever a call does to the
\* tables on its way, it maps or unmaps its own page, in one step, and no other; and
\* when it gives up it has changed no translation, which an unmap() does only of a
\* page that is not mapped.
THEOREM SpaceRefinement == MemorySpec => ImplementsAddressSpace
<1>1. MInv => Same
  BY SameLeaf DEF Same, MInv, TInv, TablesInv, LeafNow
<1>2. MemoryInit => V!AddressSpace!Init
  <2> SUFFICES ASSUME MemoryInit PROVE Space = [v \in {} |-> Zero] /\ Progress = "returned"
    BY DEF V!AddressSpace!Init, Space, Progress, Zero
  <2>1. DOMAIN tab = {} /\ MInv /\ vpc = "init"
    BY InitMInv DEF MemoryInit, V!Init
  <2>2. \A v \in AllVirt : V!Leaf(v) = Zero
    BY <1>1, <2>1 DEF Same, LeafNow, LeafAt, Ent
  <2>3. {w \in AllVirt : V!Leaf(w).present} = {}
    BY <2>2, EntryFacts DEF Zero
  <2>4. QED BY <2>1, <2>3 DEF Space, Progress
<1>3. ASSUME MInv, Same, Same', [MemoryNext]_allvars
      PROVE  [V!AddressSpace!Next]_(V!AddressSpace!asvars)
  BY <1>3, SpaceStep DEF V!AddressSpace!asvars, Space, Progress
<1>4. QED
  BY <1>1, <1>2, <1>3, MInvHolds, PTL
  DEF MemorySpec, ImplementsAddressSpace, V!ImplementsAddressSpace, V!AddressSpace!Spec
=============================================================================
