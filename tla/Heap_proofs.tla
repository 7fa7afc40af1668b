----------------------------- MODULE Heap_proofs -----------------------------
(***************************************************************************)
(* Proofs about Heap, for every size of a word, a header and a page, every *)
(* number of frames and every set of requests.  The lemmas about one list  *)
(* operation (split, absorb) say what it does to a well-formed list; the   *)
(* invariant follows from them action by action.                           *)
(***************************************************************************)
EXTENDS Heap, TLAPS

ListOK(f) ==
  /\ DOMAIN f \subseteq Nat /\ f \in [DOMAIN f -> Header]
  /\ Linked(f) /\ Disjoint(f)

UsedChunks(f) == {c \in DOMAIN f : f[c].used}
NoFree(f) == \A a \in DOMAIN f : f[a].next # NULL => f[a].used \/ f[f[a].next].used

\* The chunks kmalloc() has passed do not suit the request.
WalkInv == pc = "walk" => \A a \in Chunks : cur = NULL \/ a < cur => ~Suits(a)

\* kmalloc() looks at a chunk only while it walks.
CurInv == pc \in {"init", "idle"} => cur = NULL

IInv ==
  /\ TypeOK /\ CurInv
  /\ NothingMappedAtEnd
  /\ pc = "init" => Chunks = {} /\ DOMAIN live = {}
  /\ pc \in {"idle", "walk", "expand"} => Chunks # {}
  /\ ChunksTileArena
  /\ NoFreeNeighbours
  /\ LiveBlocksBacked
  /\ WalkInv
-----------------------------------------------------------------------------
(* Arithmetic *)

LEMMA Units ==
  /\ WORD \in Nat \ {0} /\ SIZE_T \in Nat \ {0}
  /\ HDR \in Nat \ {0} /\ PAGE \in Nat /\ HDR < PAGE
  /\ HEAP_START \in Nat \ {0}
  /\ HEAP_END_INIT \in Nat /\ HEAP_START + PAGE <= HEAP_END_INIT
  /\ HEAP_INITIAL_PAGES * PAGE \in Nat
  /\ HEAP_END_INIT = HEAP_START + HEAP_INITIAL_PAGES * PAGE
<1>1. /\ WORD \in Nat \ {0} /\ SIZE_T \in Nat \ {0}
      /\ HDR \in Nat \ {0} /\ PAGE \in Nat /\ HDR < PAGE
  BY UnitAssumption
<1>2. HEAP_START \in Nat \ {0} /\ HEAP_INITIAL_PAGES \in Nat \ {0}
  BY ArenaAssumption
<1>3. HEAP_INITIAL_PAGES * PAGE \in Nat /\ PAGE <= HEAP_INITIAL_PAGES * PAGE
  BY <1>1, <1>2
<1>4. QED BY <1>1, <1>2, <1>3 DEF HEAP_END_INIT

\* The aligned size is a number of words that covers the request, unless the
\* addition wraps around.
LEMMA AlignedCovers ==
  ASSUME NEW r \in 0 .. SIZE_T - 1
  PROVE  /\ Aligned(r) \in Nat
         /\ r <= SIZE_T - WORD => Aligned(r) * WORD >= r
<1> DEFINE x == (r + WORD - 1) % SIZE_T
           d == x \div WORD
<1>1. WORD \in Nat \ {0} /\ SIZE_T \in Nat \ {0} /\ r \in Nat
  BY Units
<1>2. x \in Nat /\ (r + WORD - 1 < SIZE_T => x = r + WORD - 1)
  BY <1>1
<1> HIDE DEF x
<1>3. d \in Int /\ d * WORD <= x /\ x < (d + 1) * WORD
  BY <1>1, <1>2
<1>4. d >= 0
  <2>1. ASSUME d <= -1 PROVE FALSE
    <3>1. (d + 1) * WORD <= 0 /\ (d + 1) * WORD \in Int
      BY <1>1, <1>3, <2>1
    <3>2. x < 0
      BY <1>2, <1>3, <3>1
    <3>3. QED BY <1>2, <3>2
  <2>2. QED BY <1>3, <2>1
<1>5. (d + 1) * WORD = d * WORD + WORD
  BY <1>1, <1>3
<1>6. ASSUME r <= SIZE_T - WORD PROVE d * WORD >= r
  <2>1. x = r + WORD - 1
    BY <1>1, <1>2, <1>6
  <2>2. d * WORD \in Int
    BY <1>1, <1>3
  <2>3. QED BY <1>1, <1>3, <1>5, <2>1, <2>2
<1>7. Aligned(r) = d
  BY DEF Aligned, x
<1>8. QED BY <1>3, <1>4, <1>6, <1>7
-----------------------------------------------------------------------------
(* One operation on a well-formed list *)

\* The elements of a well-formed list, spelled out.
LEMMA ListFacts ==
  ASSUME NEW f, ListOK(f), NEW a \in DOMAIN f
  PROVE  /\ a \in Nat /\ f[a].size \in Nat /\ f[a].used \in BOOLEAN
         /\ f[a].next \in Nat /\ f[a].prev \in Nat
         /\ End(f, a) = a + HDR + f[a].size /\ End(f, a) > a
         /\ HEAP_START <= a /\ a # NULL /\ End(f, a) <= HEAP_END_INIT
         /\ f[a].next = NULL <=> End(f, a) = HEAP_END_INIT
         /\ f[a].next # NULL => /\ f[a].next \in DOMAIN f /\ f[a].next > a
                                /\ f[a].next = End(f, a)
                                /\ f[f[a].next].prev = a
         /\ f[HEAP_START].prev = NULL
         /\ a # HEAP_START => f[a].prev \in DOMAIN f /\ f[f[a].prev].next = a
<1>1. /\ a \in Nat /\ f[a].size \in Nat /\ f[a].used \in BOOLEAN
      /\ f[a].next \in Nat /\ f[a].prev \in Nat
  BY DEF ListOK, Header
<1>2. End(f, a) = a + HDR + f[a].size /\ End(f, a) > a /\ End(f, a) \in Nat
  BY <1>1, Units DEF End
<1>3. a \in HEAP_START .. HEAP_END_INIT - HDR
  BY DEF ListOK, Linked
<1>4. /\ f[a].next = NULL <=> End(f, a) = HEAP_END_INIT
      /\ f[a].next # NULL => /\ f[a].next \in DOMAIN f
                             /\ f[a].next = End(f, a)
                             /\ f[f[a].next].prev = a
      /\ f[HEAP_START].prev = NULL
      /\ a # HEAP_START => f[a].prev \in DOMAIN f /\ f[f[a].prev].next = a
  BY DEF ListOK, Linked
<1>5. f[a].next # NULL => f[a].next \in HEAP_START .. HEAP_END_INIT - HDR
  BY <1>4 DEF ListOK, Linked
<1>6. End(f, a) <= HEAP_END_INIT
  BY <1>2, <1>4, <1>5, Units
<1>7. QED BY <1>1, <1>2, <1>3, <1>4, <1>6, Units DEF NULL

\* g is the list f with the used flag of h set to u.
Marked(f, h, u, g) ==
  /\ ListOK(g) /\ DOMAIN g = DOMAIN f
  /\ \A c \in DOMAIN f : /\ g[c].size = f[c].size /\ g[c].next = f[c].next
                         /\ g[c].used = IF c = h THEN u ELSE f[c].used

\* Marking a chunk used or free keeps the list well formed.
LEMMA MarkList ==
  ASSUME NEW f, ListOK(f), NEW h \in DOMAIN f, NEW u \in BOOLEAN
  PROVE  Marked(f, h, u, Mark(f, h, u))
<1> SUFFICES ASSUME NEW g, g = Mark(f, h, u) PROVE Marked(f, h, u, g)
  OBVIOUS
<1>1. f \in [DOMAIN f -> Header] /\ DOMAIN f \subseteq Nat
  BY DEF ListOK
<1>2. DOMAIN g = DOMAIN f /\ g \in [DOMAIN g -> Header]
  BY <1>1 DEF Header, Mark
<1>3. \A c \in DOMAIN f : /\ g[c].size = f[c].size /\ g[c].next = f[c].next
                          /\ g[c].prev = f[c].prev
                          /\ g[c].used = IF c = h THEN u ELSE f[c].used
  BY <1>1 DEF Header, Mark
<1>4. \A c \in DOMAIN f : End(g, c) = End(f, c)
  BY <1>3 DEF End
<1>5. Linked(g)
  BY <1>2, <1>3, <1>4 DEF ListOK, Linked
<1>6. Disjoint(g)
  BY <1>2, <1>4 DEF ListOK, Disjoint
<1>7. QED BY <1>1, <1>2, <1>3, <1>5, <1>6 DEF ListOK, Marked

\* g is the list f after chunk a took in its successor: every other chunk kept its
\* place.
Absorbed(f, a, g) ==
  LET b == f[a].next IN
  /\ ListOK(g) /\ DOMAIN g = DOMAIN f \ {b} /\ b \in DOMAIN f /\ b # a
  /\ g[a].next = f[b].next
  /\ \A c \in DOMAIN g : /\ g[c].used = f[c].used
                         /\ c # a => /\ g[c].size = f[c].size
                                     /\ g[c].next = f[c].next
                                     /\ f[c].next # b

\* A chunk that takes in its successor covers both.
LEMMA AbsorbList ==
  ASSUME NEW f, ListOK(f), NEW a \in DOMAIN f, f[a].next # NULL
  PROVE  Absorbed(f, a, Absorb(f, a))
<1> SUFFICES ASSUME NEW b, b = f[a].next, NEW g, g = Absorb(f, a)
             PROVE  Absorbed(f, a, g)
  OBVIOUS
<1> DEFINE n2 == f[b].next
<1>1. f \in [DOMAIN f -> Header] /\ DOMAIN f \subseteq Nat
  BY DEF ListOK
<1>2. b \in DOMAIN f /\ b # a /\ b > a /\ b = End(f, a) /\ f[b].prev = a /\ b # NULL
  BY ListFacts
<1>3. n2 \in Nat /\ n2 # a /\ n2 # b
  BY <1>2, ListFacts DEF NULL
<1>4. DOMAIN g = DOMAIN f \ {b} /\ a \in DOMAIN g
  BY <1>2 DEF Absorb, Joined
<1>5. /\ g[a].size = f[a].size + HDR + f[b].size /\ g[a].next = n2
      /\ g[a].prev = f[a].prev /\ g[a].used = f[a].used
  BY <1>1, <1>2, <1>4 DEF Absorb, Joined, Header
<1>6. \A c \in DOMAIN g \ {a} : /\ g[c].size = f[c].size /\ g[c].next = f[c].next
                                /\ g[c].used = f[c].used
                                /\ g[c].prev = IF c = n2 THEN a ELSE f[c].prev
  BY <1>1, <1>2, <1>4 DEF Absorb, Joined, Header
<1>7. \A c \in DOMAIN g : g[c] \in Header
  <2>1. f[a].size + HDR + f[b].size \in Nat
    BY <1>2, ListFacts, Units
  <2>2. \A c \in DOMAIN f : f[c] \in Header
    BY <1>1
  <2>3. g[a] \in Header
    BY <1>2, <1>4, <1>1, <2>1, <2>2, <1>3 DEF Absorb, Joined, Header
  <2>4. ASSUME NEW c \in DOMAIN g \ {a} PROVE g[c] \in Header
    BY <1>1, <1>4, <2>2, <2>4 DEF Absorb, Joined, Header
  <2>5. QED BY <2>3, <2>4
<1>8. g \in [DOMAIN g -> Header]
  BY <1>7 DEF Absorb, Joined
<1>9. \A c \in DOMAIN g \ {a} : f[c].next # b
  BY <1>2, <1>4, ListFacts
<1>10. \A c \in DOMAIN g : c # n2 => g[c].prev = f[c].prev
  BY <1>5, <1>6
<1>11. End(g, a) = End(f, b) /\ \A c \in DOMAIN g \ {a} : End(g, c) = End(f, c)
  <2>1. b = a + HDR + f[a].size
    BY <1>2, ListFacts
  <2>2. /\ f[a].size \in Nat /\ f[b].size \in Nat /\ a \in Nat /\ HDR \in Nat
        /\ End(f, b) = b + HDR + f[b].size
    BY <1>2, ListFacts, Units
  <2>3. End(g, a) = a + HDR + (f[a].size + HDR + f[b].size)
    BY <1>5 DEF End
  <2>4. End(g, a) = End(f, b)
    BY <2>1, <2>2, <2>3
  <2>5. QED BY <1>6, <2>4 DEF End
<1>12. Linked(g)
  <2>1. /\ DOMAIN g \subseteq HEAP_START .. HEAP_END_INIT - HDR
        /\ HEAP_START \in DOMAIN g
    <3>1. b # HEAP_START
      BY <1>2, ListFacts
    <3>2. QED BY <1>4, <3>1 DEF ListOK, Linked
  <2>2. g[HEAP_START].prev = NULL
    <3>1. HEAP_START <= b /\ (n2 # NULL => n2 > b)
      BY <1>2, ListFacts
    <3>2. n2 # HEAP_START
      BY <1>2, <1>3, <3>1, Units DEF NULL, ListOK
    <3>3. QED BY <1>10, <2>1, <3>2, ListFacts
  <2>3. ASSUME NEW c \in DOMAIN g PROVE g[c].next = NULL <=> End(g, c) = HEAP_END_INIT
    BY <1>2, <1>4, <1>5, <1>6, <1>11, ListFacts
  <2>4. ASSUME NEW c \in DOMAIN g, g[c].next # NULL
        PROVE  /\ g[c].next \in DOMAIN g /\ g[c].next = End(g, c)
               /\ g[g[c].next].prev = c
    <3>1. CASE c = a
      <4>1. n2 \in DOMAIN f /\ n2 = End(f, b)
        BY <1>2, <1>5, <2>4, <3>1, ListFacts
      <4>2. QED BY <1>3, <1>4, <1>5, <1>6, <1>11, <3>1, <4>1
    <3>2. CASE c # a
      <4>1. g[c].next = f[c].next /\ f[c].next # b /\ c # b
        BY <1>4, <1>6, <1>9, <3>2
      <4>2. f[c].next \in DOMAIN g /\ f[c].next = End(g, c) /\ f[f[c].next].prev = c
        BY <1>4, <1>11, <2>4, <3>2, <4>1, ListFacts
      <4>3. f[c].next # n2
        <5>1. n2 # NULL => f[n2].prev = b
          BY <1>2, ListFacts
        <5>2. QED BY <2>4, <4>1, <4>2, <5>1
      <4>4. QED BY <1>10, <4>1, <4>2, <4>3
    <3>3. QED BY <3>1, <3>2
  <2>5. ASSUME NEW c \in DOMAIN g, c # HEAP_START
        PROVE  g[c].prev \in DOMAIN g /\ g[g[c].prev].next = c
    <3>1. CASE c = n2
      BY <1>3, <1>4, <1>5, <1>6, <3>1
    <3>2. CASE c # n2
      <4>1. g[c].prev = f[c].prev /\ f[c].prev \in DOMAIN f /\ f[f[c].prev].next = c
        BY <1>4, <1>10, <2>5, <3>2, ListFacts
      <4>2. f[c].prev # b
        BY <3>2, <4>1
      <4>3. f[c].prev # a
        BY <1>4, <4>1
      <4>4. QED BY <1>4, <1>6, <4>1, <4>2, <4>3
    <3>3. QED BY <3>1, <3>2
  <2>6. QED BY <2>1, <2>2, <2>3, <2>4, <2>5 DEF Linked
<1>13. Disjoint(g)
  <2> SUFFICES ASSUME NEW c \in DOMAIN g, NEW e \in DOMAIN g, c < e PROVE End(g, c) <= e
    BY DEF Disjoint
  <2>1. c \in DOMAIN f /\ e \in DOMAIN f /\ e # b /\ End(f, c) <= e
    BY <1>4 DEF ListOK, Disjoint
  <2>2. CASE c = a
    <3>1. b <= e
      BY <1>2, <2>1, <2>2
    <3>2. b < e
      BY <1>1, <1>2, <2>1, <3>1
    <3>3. End(f, b) <= e
      BY <1>2, <2>1, <3>2 DEF ListOK, Disjoint
    <3>4. QED BY <1>11, <2>2, <3>3
  <2>3. CASE c # a
    BY <1>11, <2>1, <2>3
  <2>4. QED BY <2>2, <2>3
<1>14. ListOK(g)
  BY <1>1, <1>4, <1>8, <1>12, <1>13 DEF ListOK
<1>15. QED BY <1>2, <1>4, <1>5, <1>6, <1>9, <1>14 DEF Absorbed

LEMMA SizeType == ASSUME TypeOK PROVE Size \in Nat
BY AlignedCovers DEF TypeOK, Size

\* g is the list after chunk a was cut and a free chunk put at new.
Split(a, new, g) ==
  /\ ListOK(g) /\ DOMAIN g = Chunks \cup {new} /\ new \notin Chunks /\ new # a
  /\ g[a].size = Size /\ g[a].used = hdr[a].used /\ g[a].next = new
  /\ g[new].used = FALSE /\ g[new].next = hdr[a].next
  /\ \A c \in Chunks \ {a} : /\ g[c].size = hdr[c].size
                             /\ g[c].used = hdr[c].used
                             /\ g[c].next = hdr[c].next

\* Splitting a chunk shortens it and puts a free chunk where its rest was.
LEMMA SplitListOK ==
  ASSUME TypeOK, ListOK(hdr), NEW a \in Chunks, Splits(a)
  PROVE  Split(a, a + HDR + Size, SplitList(a))
<1> SUFFICES ASSUME NEW new, new = a + HDR + Size, NEW g, g = SplitList(a)
             PROVE  Split(a, new, g)
  OBVIOUS
<1> DEFINE n1 == hdr[a].next
<1>1. hdr \in [Chunks -> Header] /\ Chunks \subseteq Nat /\ Size \in Nat /\ HDR \in Nat \ {0}
  BY SizeType, Units DEF ListOK, Chunks
<1>2. /\ a \in Nat /\ hdr[a].size \in Nat /\ hdr[a].size >= Size + HDR + 1
      /\ End(hdr, a) = a + HDR + hdr[a].size /\ HEAP_START <= a /\ n1 \in Nat
      /\ End(hdr, a) <= HEAP_END_INIT
  BY ListFacts DEF Splits, Chunks
<1>3. new \in Nat /\ a < new /\ new + HDR < End(hdr, a)
  BY <1>1, <1>2
<1>4. new \notin Chunks
  <2>1. ASSUME new \in Chunks PROVE FALSE
    <3>1. End(hdr, a) <= new
      BY <1>3, <2>1 DEF ListOK, Disjoint, Chunks
    <3>2. QED BY <1>1, <1>2, <1>3, <3>1
  <2>2. QED BY <2>1
<1>5. n1 # new /\ n1 # a /\ (n1 # NULL => n1 \in Chunks /\ n1 = End(hdr, a))
  BY <1>1, <1>2, <1>3, ListFacts DEF Chunks, NULL
<1>6. DOMAIN g = Chunks \cup {new}
  BY DEF SplitList
<1>7. /\ g[new].size = hdr[a].size - Size - HDR /\ g[new].used = FALSE
      /\ g[new].next = n1 /\ g[new].prev = a
  BY <1>6 DEF SplitList
<1>8. /\ g[a].size = Size /\ g[a].used = hdr[a].used
      /\ g[a].next = new /\ g[a].prev = hdr[a].prev
  BY <1>1, <1>3, <1>4, <1>6 DEF SplitList, Header
<1>9. \A c \in Chunks \ {a} : /\ g[c].size = hdr[c].size /\ g[c].used = hdr[c].used
                             /\ g[c].next = hdr[c].next
                             /\ g[c].prev = IF c = n1 THEN new ELSE hdr[c].prev
  BY <1>1, <1>4, <1>6 DEF SplitList, Header
<1>10. \A c \in DOMAIN g : g[c] \in Header
  <2>1. hdr[a].size - Size - HDR \in Nat
    BY <1>1, <1>2
  <2>2. g[new] \in Header
    BY <1>2, <1>6, <2>1 DEF SplitList, Header
  <2>3. ASSUME NEW c \in Chunks PROVE g[c] \in Header
    <3>1. hdr[c] \in Header
      BY <1>1
    <3>2. QED BY <1>1, <1>3, <1>4, <1>6, <3>1 DEF SplitList, Header
  <2>4. QED BY <1>6, <2>2, <2>3
<1>11. g \in [DOMAIN g -> Header]
  BY <1>10 DEF SplitList
<1>12. /\ End(g, new) = End(hdr, a) /\ End(g, a) = new
       /\ \A c \in Chunks \ {a} : End(g, c) = End(hdr, c)
  <2>1. End(g, new) = new + HDR + (hdr[a].size - Size - HDR)
    BY <1>7 DEF End
  <2>2. End(g, new) = End(hdr, a)
    BY <1>1, <1>2, <2>1
  <2>3. QED BY <1>8, <1>9, <2>2 DEF End
<1>13. Linked(g)
  <2>1. /\ DOMAIN g \subseteq HEAP_START .. HEAP_END_INIT - HDR
        /\ HEAP_START \in DOMAIN g
    <3>1. Chunks \subseteq HEAP_START .. HEAP_END_INIT - HDR /\ HEAP_START \in Chunks
      BY DEF ListOK, Linked, Chunks
    <3>2. End(hdr, a) \in Nat
      BY <1>1, <1>2
    <3>3. new \in HEAP_START .. HEAP_END_INIT - HDR
      BY <1>1, <1>2, <1>3, <3>2, Units
    <3>4. QED BY <1>6, <3>1, <3>3
  <2>2. g[HEAP_START].prev = NULL
    <3>1. hdr[HEAP_START].prev = NULL /\ HEAP_START \in Chunks
      BY ListFacts DEF ListOK, Linked, Chunks
    <3>2. n1 # HEAP_START
      BY <1>2, ListFacts, Units DEF Chunks, NULL
    <3>3. QED BY <1>8, <1>9, <3>1, <3>2
  <2>3. ASSUME NEW c \in DOMAIN g PROVE g[c].next = NULL <=> End(g, c) = HEAP_END_INIT
    <3>1. CASE c = new
      BY <1>7, <1>12, <3>1, ListFacts DEF Chunks
    <3>2. CASE c = a
      <4>1. End(hdr, a) \in Nat
        BY <1>1, <1>2
      <4>2. new # NULL /\ new # HEAP_END_INIT
        BY <1>1, <1>2, <1>3, <4>1, Units DEF NULL
      <4>3. QED BY <1>8, <1>12, <3>2, <4>2
    <3>3. CASE c \in Chunks \ {a}
      BY <1>9, <1>12, <3>3, ListFacts DEF Chunks
    <3>4. QED BY <1>6, <3>1, <3>2, <3>3
  <2>4. ASSUME NEW c \in DOMAIN g, g[c].next # NULL
        PROVE  /\ g[c].next \in DOMAIN g /\ g[c].next = End(g, c)
               /\ g[g[c].next].prev = c
    <3>1. CASE c = new
      BY <1>5, <1>6, <1>7, <1>9, <1>12, <2>4, <3>1
    <3>2. CASE c = a
      BY <1>6, <1>7, <1>8, <1>12, <3>2
    <3>3. CASE c \in Chunks \ {a}
      <4>1. /\ hdr[c].next \in Chunks /\ hdr[c].next = End(hdr, c)
            /\ hdr[hdr[c].next].prev = c
        BY <1>9, <2>4, <3>3, ListFacts DEF Chunks
      <4>2. hdr[c].next # n1
        <5>1. n1 # NULL => hdr[n1].prev = a
          BY ListFacts DEF Chunks
        <5>2. QED BY <1>9, <2>4, <3>3, <4>1, <5>1
      <4>3. g[hdr[c].next].prev = c
        BY <1>8, <1>9, <4>1, <4>2
      <4>4. QED BY <1>6, <1>9, <1>12, <3>3, <4>1, <4>3
    <3>4. QED BY <1>6, <3>1, <3>2, <3>3
  <2>5. ASSUME NEW c \in DOMAIN g, c # HEAP_START
        PROVE  g[c].prev \in DOMAIN g /\ g[g[c].prev].next = c
    <3>1. CASE c = new
      BY <1>6, <1>7, <1>8, <3>1
    <3>2. CASE c \in Chunks /\ c = n1
      BY <1>5, <1>6, <1>7, <1>9, <3>2
    <3>3. CASE c \in Chunks /\ c # n1
      <4>1. hdr[c].prev \in Chunks /\ hdr[hdr[c].prev].next = c
        BY <2>5, <3>3, ListFacts DEF Chunks
      <4>2. hdr[c].prev # a
        BY <3>3, <4>1
      <4>3. g[c].prev = hdr[c].prev
        BY <1>8, <1>9, <3>3
      <4>4. QED BY <1>6, <1>9, <4>1, <4>2, <4>3
    <3>4. QED BY <1>6, <3>1, <3>2, <3>3
  <2>6. QED BY <2>1, <2>2, <2>3, <2>4, <2>5 DEF Linked
<1>14. Disjoint(g)
  <2> SUFFICES ASSUME NEW c \in DOMAIN g, NEW e \in DOMAIN g, c < e PROVE End(g, c) <= e
    BY DEF Disjoint
  <2>0. \A p, q \in Chunks : p < q => End(hdr, p) <= q
    BY DEF ListOK, Disjoint, Chunks
  <2>1. End(hdr, a) \in Nat /\ \A q \in Chunks : End(hdr, q) \in Nat /\ q < End(hdr, q)
    BY <1>1, <1>2, ListFacts DEF Chunks, End
  <2>a. c \in Nat /\ e \in Nat /\ a \in Nat /\ new \in Nat
    BY <1>1, <1>2, <1>3, <1>6
  <2>b. a < new /\ new < End(hdr, a)
    BY <1>1, <1>3, <2>1
  <2>2. CASE c = a /\ e = new
    BY <1>12, <2>2, <2>a
  <2>3. CASE c = a /\ e \in Chunks
    <3>1. End(hdr, a) <= e
      BY <2>0, <2>3
    <3>2. new <= e
      BY <2>1, <2>a, <2>b, <3>1
    <3>3. QED BY <1>12, <2>3, <3>2
  <2>4. CASE c = new /\ e \in Chunks
    <3>1. a < e
      BY <2>4, <2>a, <2>b
    <3>2. QED BY <1>12, <2>0, <2>4, <3>1
  <2>5. CASE c \in Chunks \ {a} /\ e = new
    <3>1. ASSUME a < c PROVE FALSE
      <4>1. End(hdr, a) <= c
        BY <2>0, <2>5, <3>1
      <4>2. new < c
        BY <2>1, <2>a, <2>b, <4>1
      <4>3. QED BY <2>5, <2>a, <4>2
    <3>2. c < a
      BY <2>5, <2>a, <3>1
    <3>3. End(hdr, c) <= a
      BY <2>0, <2>5, <3>2
    <3>4. End(hdr, c) <= new
      BY <2>1, <2>5, <2>a, <2>b, <3>3
    <3>5. QED BY <1>12, <2>5, <3>4
  <2>6. CASE c \in Chunks \ {a} /\ e \in Chunks
    BY <1>12, <2>0, <2>6
  <2>7. CASE c = new /\ e = new
    BY <2>7, <2>a
  <2>8. QED BY <1>6, <2>2, <2>3, <2>4, <2>5, <2>6, <2>7
<1>15. DOMAIN g \subseteq Nat
  BY <1>1, <1>3, <1>6
<1>16. ListOK(g)
  BY <1>11, <1>13, <1>14, <1>15 DEF ListOK
<1>17. QED BY <1>2, <1>3, <1>4, <1>6, <1>7, <1>8, <1>9, <1>16 DEF Split

\* Freeing a used chunk and merging both ways frees that chunk alone, and leaves
\* a well-formed list without adjacent free chunks.
LEMMA FreeList ==
  ASSUME NEW f, ListOK(f), NoFree(f), NEW h \in DOMAIN f, f[h].used
  PROVE  LET g == MergePrev(MergeNext(Mark(f, h, FALSE), h), h) IN
         /\ ListOK(g) /\ NoFree(g) /\ DOMAIN g \subseteq DOMAIN f
         /\ UsedChunks(g) = UsedChunks(f) \ {h}
         /\ \A c \in UsedChunks(g) : g[c].size = f[c].size
<1> DEFINE f0 == Mark(f, h, FALSE)
           f1 == MergeNext(f0, h)
           f2 == MergePrev(f1, h)
<1>1. /\ ListOK(f0) /\ DOMAIN f0 = DOMAIN f
      /\ \A c \in DOMAIN f : /\ f0[c].size = f[c].size /\ f0[c].next = f[c].next
                             /\ f0[c].used = IF c = h THEN FALSE ELSE f[c].used
  <2>1. Marked(f, h, FALSE, f0)
    BY MarkList
  <2>2. QED BY <2>1 DEF Marked
<1> HIDE DEF f0
<1>2. ASSUME NEW a \in DOMAIN f0, a # h, f0[a].next # NULL, f0[a].next # h
      PROVE  f0[a].used \/ f0[f0[a].next].used
  <2>1. f[a].next \in DOMAIN f /\ f[a].next # h
    BY <1>1, <1>2, ListFacts
  <2>2. f[a].used \/ f[f[a].next].used
    BY <1>1, <1>2 DEF NoFree
  <2>3. QED BY <1>1, <1>2, <2>1, <2>2
<1>3. /\ ListOK(f1) /\ DOMAIN f1 \subseteq DOMAIN f0 /\ h \in DOMAIN f1
      /\ UsedChunks(f1) = UsedChunks(f0) /\ ~f1[h].used
      /\ \A c \in DOMAIN f1 : c # h => f1[c].size = f0[c].size
      /\ \A a \in DOMAIN f1 : a # h /\ f1[a].next # NULL /\ f1[a].next # h =>
                              f1[a].used \/ f1[f1[a].next].used
      /\ f1[h].next # NULL => f1[f1[h].next].used
  <2>1. CASE f0[h].next # NULL /\ ~f0[f0[h].next].used
    <3> DEFINE b == f0[h].next
    <3>1. f1 = Absorb(f0, h)
      BY <2>1 DEF MergeNext, Mergeable
    <3> HIDE DEF f1
    <3>2. /\ ListOK(f1) /\ DOMAIN f1 = DOMAIN f0 \ {b} /\ b \in DOMAIN f0 /\ b # h
          /\ f1[h].next = f0[b].next
          /\ \A c \in DOMAIN f1 : /\ f1[c].used = f0[c].used
                                  /\ c # h => /\ f1[c].size = f0[c].size
                                              /\ f1[c].next = f0[c].next
                                              /\ f0[c].next # b
      <4>1. Absorbed(f0, h, f1)
        BY <1>1, <2>1, <3>1, AbsorbList
      <4>2. QED BY <4>1 DEF Absorbed
    <3>3. UsedChunks(f1) = UsedChunks(f0)
      BY <2>1, <3>2 DEF UsedChunks
    <3>4. ~f1[h].used
      BY <1>1, <3>2
    <3>5. \A a \in DOMAIN f1 : a # h /\ f1[a].next # NULL /\ f1[a].next # h =>
                              f1[a].used \/ f1[f1[a].next].used
      BY <1>1, <1>2, <3>2, ListFacts
    <3>6. f1[h].next # NULL => f1[f1[h].next].used
      <4> SUFFICES ASSUME f0[b].next # NULL PROVE f1[f0[b].next].used
        BY <3>2
      <4>1. f0[b].next \in DOMAIN f0 /\ f0[b].next > b /\ b > h /\ b \in Nat /\ h \in Nat
        BY <1>1, <2>1, <3>2, ListFacts
      <4>2. f0[b].next \in Nat
        BY <1>1, <3>2, ListFacts
      <4>3. f0[b].next # h /\ f0[b].next # b
        BY <4>1, <4>2
      <4>4. f0[f0[b].next].used
        BY <1>2, <2>1, <3>2, <4>3
      <4>5. QED BY <3>2, <4>1, <4>3, <4>4
    <3>7. QED BY <1>1, <3>2, <3>3, <3>4, <3>5, <3>6
  <2>2. CASE ~(f0[h].next # NULL /\ ~f0[f0[h].next].used)
    <3>1. f1 = f0
      BY <2>2 DEF MergeNext, Mergeable
    <3> HIDE DEF f1
    <3>2. QED BY <1>1, <1>2, <2>2, <3>1
  <2>3. QED BY <2>1, <2>2
<1> HIDE DEF f1
<1>4. /\ ListOK(f2) /\ NoFree(f2) /\ DOMAIN f2 \subseteq DOMAIN f1
      /\ UsedChunks(f2) = UsedChunks(f1)
      /\ \A c \in UsedChunks(f2) : f2[c].size = f1[c].size
  <2> DEFINE p == f1[h].prev
  <2>1. CASE p # NULL /\ ~f1[p].used
    <3>1. f2 = Absorb(f1, p)
      BY <2>1 DEF MergePrev, Mergeable
    <3> HIDE DEF f2
    <3>2. p \in DOMAIN f1 /\ f1[p].next = h /\ h # NULL
      BY <1>3, <2>1, ListFacts
    <3>3. /\ ListOK(f2) /\ DOMAIN f2 = DOMAIN f1 \ {h} /\ p # h
          /\ f2[p].next = f1[h].next
          /\ \A c \in DOMAIN f2 : /\ f2[c].used = f1[c].used
                                  /\ c # p => /\ f2[c].size = f1[c].size
                                              /\ f2[c].next = f1[c].next
                                              /\ f1[c].next # h
      <4>1. Absorbed(f1, p, f2)
        BY <1>3, <3>1, <3>2, AbsorbList
      <4>2. QED BY <3>2, <4>1 DEF Absorbed
    <3>4. UsedChunks(f2) = UsedChunks(f1)
      BY <1>3, <3>3 DEF UsedChunks
    <3>5. \A c \in UsedChunks(f2) : f2[c].size = f1[c].size
      BY <2>1, <3>3 DEF UsedChunks
    <3>6. ASSUME NEW a \in DOMAIN f2, f2[a].next # NULL
          PROVE  f2[a].used \/ f2[f2[a].next].used
      <4>1. f2[a].next \in DOMAIN f2
        BY <3>3, <3>6, ListFacts
      <4>2. CASE a = p
        BY <1>3, <3>3, <3>6, <4>1, <4>2
      <4>3. CASE a # p
        BY <1>3, <3>3, <3>6, <4>1, <4>3
      <4>4. QED BY <4>2, <4>3
    <3>7. QED BY <3>3, <3>4, <3>5, <3>6 DEF NoFree
  <2>2. CASE ~(p # NULL /\ ~f1[p].used)
    <3>1. f2 = f1
      BY <2>2 DEF MergePrev, Mergeable
    <3> HIDE DEF f2
    <3>2. ASSUME NEW a \in DOMAIN f1, f1[a].next # NULL
          PROVE  f1[a].used \/ f1[f1[a].next].used
      <4>1. CASE a = h
        BY <1>3, <3>2, <4>1
      <4>2. CASE a # h /\ f1[a].next = h
        <5>1. p = a /\ a # NULL
          BY <1>3, <3>2, <4>2, ListFacts
        <5>2. QED BY <2>2, <5>1
      <4>3. CASE a # h /\ f1[a].next # h
        BY <1>3, <3>2, <4>3
      <4>4. QED BY <4>1, <4>2, <4>3
    <3>3. QED BY <1>3, <3>1, <3>2 DEF NoFree
  <2>3. QED BY <2>1, <2>2
<1>5. UsedChunks(f0) = UsedChunks(f) \ {h}
  BY <1>1 DEF UsedChunks
<1>6. \A c \in UsedChunks(f2) : c # h /\ c \in DOMAIN f1 /\ c \in DOMAIN f
  BY <1>1, <1>3, <1>4 DEF UsedChunks
<1>7. \A c \in UsedChunks(f2) : f2[c].size = f[c].size
  BY <1>1, <1>3, <1>4, <1>6
<1>8. DOMAIN f2 \subseteq DOMAIN f
  BY <1>1, <1>3, <1>4
<1>9. QED BY <1>3, <1>4, <1>5, <1>7, <1>8 DEF f0, f1
-----------------------------------------------------------------------------
(* The invariant, action by action *)

LEMMA InvFacts ==
  ASSUME IInv
  PROVE  /\ hdr \in [Chunks -> Header] /\ Chunks \subseteq Nat
         /\ heap_end \in Nat /\ mapped \subseteq Nat /\ phys \in Nat /\ n \in Nat
         /\ cur \in Chunks \cup {NULL} /\ req \in 0 .. SIZE_T - 1 /\ Size \in Nat
         /\ Chunks # {} => ListOK(hdr) /\ NoFree(hdr) /\ HEAP_START \in Chunks
         /\ NULL \notin Chunks
         /\ DOMAIN live = {a + HDR : a \in UsedChunks(hdr)}
<1>1. /\ hdr \in [Chunks -> Header] /\ Chunks \subseteq Nat
      /\ heap_end \in Nat /\ mapped \subseteq Nat /\ phys \in Nat /\ n \in Nat
      /\ cur \in Chunks \cup {NULL} /\ req \in 0 .. SIZE_T - 1
  BY DEF IInv, TypeOK
<1>2. Size \in Nat
  BY SizeType DEF IInv
<1>3. Chunks # {} => ListOK(hdr) /\ HEAP_START \in Chunks
  BY <1>1 DEF IInv, ChunksTileArena, ListOK, Linked, Chunks
<1>4. NoFree(hdr)
  BY DEF IInv, NoFreeNeighbours, NoFree, Chunks
<1>5. NULL \notin Chunks
  BY <1>3, ListFacts DEF Chunks
<1>6. DOMAIN live = {a + HDR : a \in UsedChunks(hdr)}
  BY DEF IInv, LiveBlocksBacked, UsedChunks, Chunks
<1>7. QED BY <1>1, <1>2, <1>3, <1>4, <1>5, <1>6

LEMMA InitIInv == Init => IInv
<1> SUFFICES ASSUME Init PROVE IInv
  OBVIOUS
<1>1. Chunks = {} /\ DOMAIN live = {} /\ hdr = EmptyFn /\ live = EmptyFn
  BY DEF Init, Chunks, EmptyFn
<1>2. hdr \in [Chunks -> Header] /\ live \in [DOMAIN live -> 0 .. SIZE_T - 1]
  BY <1>1 DEF EmptyFn
<1>3. HEAP_START \in Nat /\ HEAP_INITIAL_PAGES \in Nat /\ 0 \in 0 .. SIZE_T - 1
  BY Units, ArenaAssumption
<1>4. TypeOK
  BY <1>1, <1>2, <1>3, InputAssumption DEF Init, TypeOK, NULL
<1>5. LiveBlocksBacked
  BY <1>1 DEF LiveBlocksBacked
<1>6. QED
  BY <1>1, <1>4, <1>5 DEF Init, IInv, NothingMappedAtEnd, ChunksTileArena, NoFreeNeighbours,
                          WalkInv, CurInv

\* What depends on the list, the blocks and the size of the request only.
ListUnchanged == UNCHANGED <<hdr, live, req>>

LEMMA ListKept ==
  ASSUME IInv, ListUnchanged
  PROVE  /\ Chunks' = Chunks /\ Size' = Size
         /\ ChunksTileArena' /\ NoFreeNeighbours' /\ LiveBlocksBacked'
         /\ \A a \in Chunks : Suits(a)' <=> Suits(a)
<1>1. hdr' = hdr /\ live' = live /\ req' = req
  BY DEF ListUnchanged
<1>2. Chunks' = Chunks /\ Size' = Size
  BY <1>1 DEF Chunks, Size
<1>3. ChunksTileArena'
  BY <1>1 DEF IInv, ChunksTileArena, Chunks
<1>4. NoFreeNeighbours'
  BY <1>1 DEF IInv, NoFreeNeighbours, Chunks
<1>5. LiveBlocksBacked'
  BY <1>1 DEF IInv, LiveBlocksBacked, Chunks
<1>6. \A a \in Chunks : Suits(a)' <=> Suits(a)
  BY <1>1, <1>2 DEF Suits
<1>7. QED BY <1>2, <1>3, <1>4, <1>5, <1>6

LEMMA ExpandPageStep == ASSUME IInv, ExpandPage PROVE IInv'
<1>1. ListUnchanged /\ pc' = pc /\ pc \in {"init", "expand"} /\ cur' = cur
  BY DEF ExpandPage, ListUnchanged
<1>2. heap_end' = heap_end + PAGE /\ heap_end' \in Nat /\ n' \in Nat
  BY InvFacts, Units DEF ExpandPage
<1>3. phys' \in Nat
  <2>1. Tables(heap_end) \in Nat
    BY DEF Tables
  <2>2. QED BY <2>1, InvFacts DEF ExpandPage
<1>4. mapped' \subseteq mapped \cup {heap_end}
  BY DEF ExpandPage
<1>5. TypeOK'
  BY <1>1, <1>2, <1>3, <1>4, ListKept, InvFacts DEF IInv, TypeOK, ListUnchanged
<1>6. NothingMappedAtEnd'
  <2> SUFFICES ASSUME NEW p \in mapped' PROVE p + PAGE <= heap_end'
    BY DEF NothingMappedAtEnd
  <2>1. CASE p \in mapped
    <3>1. p + PAGE <= heap_end /\ p \in Nat /\ heap_end \in Nat
      BY <2>1, InvFacts DEF IInv, CurInv, NothingMappedAtEnd
    <3>2. QED BY <1>2, <3>1, Units
  <2>2. CASE p = heap_end
    BY <1>2, <2>2, InvFacts, Units
  <2>3. QED BY <1>4, <2>1, <2>2
<1>7. QED
  BY <1>1, <1>5, <1>6, ListKept DEF IInv, WalkInv, CurInv, ListUnchanged

LEMMA FirstChunkStep == ASSUME IInv, FirstChunk PROVE IInv'
<1>1. /\ pc = "init" /\ Chunks = {} /\ DOMAIN live = {}
      /\ UNCHANGED <<heap_end, mapped, phys, n, req, cur, live>>
  BY DEF IInv, FirstChunk
<1>2. CASE pc' = "fault" /\ hdr' = hdr
  <2>1. ListUnchanged
    BY <1>1, <1>2 DEF ListUnchanged
  <2>2. TypeOK'
    BY <1>1, <1>2, <2>1, ListKept DEF IInv, TypeOK, ListUnchanged
  <2>3. QED
    BY <1>1, <1>2, <2>1, <2>2, ListKept
    DEF IInv, WalkInv, CurInv, ListUnchanged, NothingMappedAtEnd
<1>3. CASE /\ pc' = "idle"
           /\ hdr' = [a \in {HEAP_START} |->
                        [size |-> HEAP_INITIAL_PAGES * PAGE - HDR, used |-> FALSE,
                         next |-> NULL, prev |-> NULL]]
  <2>1. Chunks' = {HEAP_START}
    BY <1>3 DEF Chunks
  <2>2. /\ hdr'[HEAP_START].size = HEAP_INITIAL_PAGES * PAGE - HDR
        /\ hdr'[HEAP_START].used = FALSE
        /\ hdr'[HEAP_START].next = NULL /\ hdr'[HEAP_START].prev = NULL
    BY <1>3
  <2>3. HEAP_INITIAL_PAGES * PAGE - HDR \in Nat /\ HEAP_START \in Nat
    BY Units
  <2>4. hdr' \in [Chunks' -> Header]
    BY <1>3, <2>1, <2>3 DEF Header, NULL
  <2>5. cur = NULL
    BY <1>1, InvFacts
  <2>6. TypeOK'
    BY <1>1, <1>3, <2>1, <2>3, <2>4, <2>5 DEF IInv, TypeOK
  <2>7. End(hdr, HEAP_START)' = HEAP_END_INIT
    <3>1. HEAP_START + HDR + (HEAP_INITIAL_PAGES * PAGE - HDR) = HEAP_END_INIT
      BY Units
    <3>2. QED BY <2>2, <3>1 DEF End
  <2>8. Linked(hdr)' /\ Disjoint(hdr)'
    BY <2>1, <2>2, <2>7, Units DEF Linked, Disjoint, Chunks
  <2>9. NoFreeNeighbours'
    BY <2>1, <2>2 DEF NoFreeNeighbours
  <2>10. LiveBlocksBacked'
    BY <1>1, <2>1, <2>2 DEF LiveBlocksBacked
  <2>11. QED
    BY <1>1, <1>3, <2>1, <2>6, <2>8, <2>9, <2>10
    DEF IInv, WalkInv, CurInv, ChunksTileArena, NothingMappedAtEnd
<1>4. QED BY <1>2, <1>3 DEF FirstChunk

LEMMA KmallocStep == ASSUME IInv, NEW r \in Requests, Kmalloc(r) PROVE IInv'
<1>1. /\ pc = "idle" /\ pc' = "walk" /\ cur' = HEAP_START /\ req' = r
      /\ UNCHANGED <<hdr, heap_end, mapped, phys, n, live>>
  BY DEF Kmalloc
<1>2. Chunks # {} /\ Chunks' = Chunks
  BY <1>1 DEF IInv, Chunks
<1>3. r \in 0 .. SIZE_T - 1
  BY InputAssumption
<1>4. TypeOK'
  BY <1>1, <1>2, <1>3, InvFacts DEF IInv, TypeOK
<1>5. ChunksTileArena' /\ NoFreeNeighbours' /\ LiveBlocksBacked' /\ NothingMappedAtEnd'
  BY <1>1 DEF IInv, ChunksTileArena, NoFreeNeighbours, LiveBlocksBacked, NothingMappedAtEnd, Chunks
<1>6. WalkInv'
  <2>1. \A a \in Chunks : HEAP_START <= a /\ a \in Nat
    BY <1>2, InvFacts, ListFacts DEF Chunks
  <2>2. \A a \in Chunks : ~(a < HEAP_START)
    BY <2>1, Units
  <2>3. HEAP_START # NULL
    BY Units DEF NULL
  <2>4. QED BY <1>1, <1>2, <2>2, <2>3 DEF WalkInv
<1>7. QED BY <1>1, <1>2, <1>4, <1>5, <1>6 DEF IInv, CurInv

LEMMA SkipChunkStep == ASSUME IInv, SkipChunk PROVE IInv'
<1>1. /\ pc = "walk" /\ pc' = "walk" /\ cur # NULL /\ ~Suits(cur) /\ cur' = hdr[cur].next
      /\ UNCHANGED <<hdr, heap_end, mapped, phys, n, req, live>>
  BY DEF SkipChunk, Following
<1>2. ListUnchanged
  BY <1>1 DEF ListUnchanged
<1>3. cur \in Chunks /\ Chunks # {} /\ ListOK(hdr)
  BY <1>1, InvFacts
<1>4. cur' \in Chunks \cup {NULL}
  BY <1>1, <1>3, ListFacts DEF Chunks
<1>5. TypeOK'
  BY <1>1, <1>2, <1>4, ListKept DEF IInv, TypeOK
<1>6. WalkInv'
  <2> SUFFICES ASSUME NEW a \in Chunks, cur' = NULL \/ a < cur' PROVE ~Suits(a)
    BY <1>2, ListKept DEF WalkInv
  <2>1. CASE a < cur
    BY <1>1, <2>1 DEF IInv, WalkInv
  <2>2. CASE a = cur
    BY <1>1, <2>2
  <2>3. ASSUME cur < a PROVE FALSE
    <3>1. End(hdr, cur) <= a /\ a \in Nat /\ HDR \in Nat \ {0} /\ End(hdr, cur) \in Nat
      BY <1>3, <2>3, Units, InvFacts, ListFacts DEF ListOK, Disjoint, Chunks, End
    <3>2. CASE cur' = NULL
      <4>1. End(hdr, cur) = HEAP_END_INIT /\ End(hdr, a) <= HEAP_END_INIT /\ End(hdr, a) > a
        BY <1>1, <1>3, <3>2, ListFacts DEF Chunks
      <4>2. End(hdr, a) \in Nat /\ HEAP_END_INIT \in Nat
        BY <1>3, Units, ListFacts DEF Chunks
      <4>3. QED BY <3>1, <4>1, <4>2
    <3>3. CASE cur' # NULL
      <4>1. cur' = End(hdr, cur)
        BY <1>1, <1>3, <3>3, ListFacts DEF Chunks
      <4>2. a < cur'
        BY <3>3
      <4>3. QED BY <3>1, <4>1, <4>2
    <3>4. QED BY <3>2, <3>3
  <2>4. a \in Nat /\ cur \in Nat
    BY <1>3, InvFacts
  <2>5. QED BY <2>1, <2>2, <2>3, <2>4
<1>7. QED
  BY <1>1, <1>2, <1>3, <1>5, <1>6, ListKept DEF IInv, CurInv, NothingMappedAtEnd

\* Taking a chunk makes that chunk used, with at least the size asked for, and
\* leaves the chunks already used as they were.
Taken(g) ==
  /\ ListOK(g) /\ NoFree(g)
  /\ cur \in DOMAIN g /\ UsedChunks(g) = UsedChunks(hdr) \cup {cur}
  /\ cur \notin UsedChunks(hdr)
  /\ g[cur].size \in Nat /\ g[cur].size >= Size
  /\ \A c \in UsedChunks(hdr) : g[c].size = hdr[c].size

LEMMA TakeList == ASSUME IInv, TakeChunk PROVE Taken(hdr')
<1>1. /\ cur \in Chunks /\ ListOK(hdr) /\ NoFree(hdr) /\ TypeOK
      /\ ~hdr[cur].used /\ hdr[cur].size >= Size
      /\ hdr' = Mark(IF Splits(cur) THEN SplitList(cur) ELSE hdr, cur, TRUE)
  BY InvFacts DEF TakeChunk, Suits, IInv
<1>2. cur \notin UsedChunks(hdr)
  BY <1>1 DEF UsedChunks
<1>3. CASE Splits(cur)
  <2> DEFINE new == cur + HDR + Size
  <2>1. PICK g : g = SplitList(cur) /\ Split(cur, new, g)
    BY <1>1, <1>3, SplitListOK
  <2> HIDE DEF new
  <2>2. ListOK(g) /\ cur \in DOMAIN g /\ hdr' = Mark(g, cur, TRUE)
    BY <1>1, <1>3, <2>1 DEF Split
  <2>3. Marked(g, cur, TRUE, hdr')
    BY <2>2, MarkList
  <2>4. /\ ListOK(hdr') /\ DOMAIN hdr' = Chunks \cup {new} /\ new \notin Chunks /\ new # cur
        /\ hdr'[cur].size = Size /\ hdr'[cur].used = TRUE /\ hdr'[cur].next = new
        /\ hdr'[new].used = FALSE /\ hdr'[new].next = hdr[cur].next
        /\ \A c \in Chunks \ {cur} : /\ hdr'[c].size = hdr[c].size
                                     /\ hdr'[c].used = hdr[c].used
                                     /\ hdr'[c].next = hdr[c].next
    <3>1. ListOK(hdr') /\ DOMAIN hdr' = Chunks \cup {new} /\ new \notin Chunks /\ new # cur
      BY <2>1, <2>3 DEF Split, Marked
    <3>2. /\ hdr'[cur].size = Size /\ hdr'[cur].used = TRUE /\ hdr'[cur].next = new
      BY <1>1, <2>1, <2>3 DEF Split, Marked
    <3>3. hdr'[new].used = FALSE /\ hdr'[new].next = hdr[cur].next
      BY <1>1, <2>1, <2>3 DEF Split, Marked
    <3>4. ASSUME NEW c \in Chunks \ {cur}
          PROVE  hdr'[c].size = hdr[c].size /\ hdr'[c].used = hdr[c].used
                 /\ hdr'[c].next = hdr[c].next
      <4>1. /\ c \in DOMAIN g /\ g[c].size = hdr[c].size /\ g[c].used = hdr[c].used
            /\ g[c].next = hdr[c].next
        BY <2>1, <3>4 DEF Split
      <4>2. QED BY <2>3, <3>4, <4>1 DEF Marked
    <3>5. QED BY <3>1, <3>2, <3>3, <3>4
  <2>5. UsedChunks(hdr') = UsedChunks(hdr) \cup {cur}
    BY <1>1, <2>4 DEF UsedChunks, Chunks
  <2>6. ASSUME NEW a \in DOMAIN hdr', hdr'[a].next # NULL
        PROVE  hdr'[a].used \/ hdr'[hdr'[a].next].used
    <3>1. CASE a = cur
      BY <2>4, <3>1
    <3>2. CASE a = new
      <4>0. hdr[cur].next # NULL
        BY <2>4, <2>6, <3>2
      <4>1. hdr[cur].next \in Chunks /\ hdr[cur].next # cur
        BY <1>1, <4>0, ListFacts DEF Chunks
      <4>2. hdr[hdr[cur].next].used
        BY <1>1, <4>0 DEF NoFree, Chunks
      <4>3. QED BY <2>4, <3>2, <4>1, <4>2
    <3>3. CASE a \in Chunks \ {cur}
      <4>0. hdr[a].next # NULL /\ hdr'[a].next = hdr[a].next /\ hdr'[a].used = hdr[a].used
        BY <2>4, <2>6, <3>3
      <4>1. hdr[a].next \in Chunks
        BY <1>1, <3>3, <4>0, ListFacts DEF Chunks
      <4>2. hdr[a].used \/ hdr[hdr[a].next].used
        BY <1>1, <3>3, <4>0 DEF NoFree, Chunks
      <4>3. QED BY <2>4, <4>0, <4>1, <4>2
    <3>4. QED BY <2>4, <3>1, <3>2, <3>3
  <2>7. Size \in Nat
    BY InvFacts
  <2>8. \A c \in UsedChunks(hdr) : c \in Chunks \ {cur}
    BY <1>2 DEF UsedChunks, Chunks
  <2>9. NoFree(hdr')
    BY <2>6 DEF NoFree
  <2>10. cur \in DOMAIN hdr' /\ hdr'[cur].size \in Nat /\ hdr'[cur].size >= Size
    <3>1. hdr'[cur].size = Size
      BY <2>4
    <3>2. cur \in DOMAIN hdr'
      BY <1>1, <2>4
    <3>3. QED BY <2>7, <3>1, <3>2
  <2>11. \A c \in UsedChunks(hdr) : hdr'[c].size = hdr[c].size
    BY <2>4, <2>8
  <2>12. ListOK(hdr')
    BY <2>4
  <2>13. QED BY <1>2, <2>5, <2>9, <2>10, <2>11, <2>12 DEF Taken
<1>4. CASE ~Splits(cur)
  <2>1. Marked(hdr, cur, TRUE, hdr')
    BY <1>1, <1>4, MarkList DEF Chunks
  <2>2. /\ ListOK(hdr') /\ DOMAIN hdr' = Chunks
        /\ \A c \in Chunks : /\ hdr'[c].size = hdr[c].size /\ hdr'[c].next = hdr[c].next
                             /\ hdr'[c].used = IF c = cur THEN TRUE ELSE hdr[c].used
    BY <2>1 DEF Marked, Chunks
  <2>3. UsedChunks(hdr') = UsedChunks(hdr) \cup {cur}
    BY <1>1, <2>2 DEF UsedChunks, Chunks
  <2>4. ASSUME NEW a \in Chunks, hdr'[a].next # NULL
        PROVE  hdr'[a].used \/ hdr'[hdr'[a].next].used
    <3>0. hdr[a].next # NULL /\ hdr'[a].next = hdr[a].next
      BY <2>2, <2>4
    <3>1. hdr[a].next \in Chunks
      BY <1>1, <3>0, ListFacts DEF Chunks
    <3>2. hdr[a].used \/ hdr[hdr[a].next].used
      BY <1>1, <3>0 DEF NoFree, Chunks
    <3>3. QED BY <2>2, <3>0, <3>1, <3>2
  <2>5. hdr[cur].size \in Nat
    BY <1>1, ListFacts DEF Chunks
  <2>6. QED BY <1>1, <1>2, <2>2, <2>3, <2>4, <2>5 DEF Taken, NoFree, UsedChunks, Chunks
<1>5. QED BY <1>3, <1>4

LEMMA TakeChunkStep == ASSUME IInv, TakeChunk PROVE IInv'
<1>1. /\ pc = "walk" /\ pc' = "idle" /\ cur' = NULL /\ cur \in Chunks
      /\ live' = [p \in DOMAIN live \cup {cur + HDR} |->
                    IF p = cur + HDR THEN req ELSE live[p]]
      /\ UNCHANGED <<heap_end, mapped, phys, n, req>>
  BY InvFacts DEF TakeChunk
<1>2. Taken(hdr') /\ Chunks' = DOMAIN hdr' /\ cur \in Nat /\ HDR \in Nat \ {0}
  BY <1>1, TakeList, InvFacts, Units DEF Chunks
<1>3. DOMAIN live' = DOMAIN live \cup {cur + HDR}
  BY <1>1
<1>4. TypeOK'
  <2>1. hdr' \in [Chunks' -> Header] /\ Chunks' \subseteq Nat
    BY <1>2 DEF Taken, ListOK
  <2>2. live' \in [DOMAIN live' -> 0 .. SIZE_T - 1] /\ DOMAIN live' \subseteq Nat
    BY <1>1, <1>2, <1>3, InvFacts DEF IInv, TypeOK
  <2>3. QED BY <1>1, <2>1, <2>2 DEF IInv, TypeOK
<1>5. ChunksTileArena' /\ NoFreeNeighbours' /\ Chunks' # {}
  BY <1>2 DEF Taken, ListOK, ChunksTileArena, NoFree, NoFreeNeighbours, Chunks
<1>6. LiveBlocksBacked'
  <2>1. DOMAIN live' = {a + HDR : a \in UsedChunks(hdr')}
    BY <1>2, <1>3, InvFacts DEF Taken
  <2>2. ASSUME NEW p \in DOMAIN live', live'[p] <= SIZE_T - WORD
        PROVE  hdr'[p - HDR].size * WORD >= live'[p]
    <3>1. CASE p = cur + HDR
      <4>1. p - HDR = cur /\ live'[p] = req /\ req \in 0 .. SIZE_T - 1
        BY <1>1, <1>2, <3>1, InvFacts
      <4>2. Size * WORD >= req /\ Size \in Nat
        BY <2>2, <4>1, AlignedCovers DEF Size
      <4>3. PICK z \in Nat : z = hdr'[cur].size /\ z >= Size
        BY <1>2 DEF Taken
      <4>4. z * WORD >= Size * WORD /\ z * WORD \in Nat /\ Size * WORD \in Nat
        BY <4>2, <4>3, Units
      <4>5. req \in Nat
        BY <4>1
      <4>6. z * WORD >= req
        BY <4>2, <4>4, <4>5
      <4>7. QED BY <4>1, <4>3, <4>6
    <3>2. CASE p # cur + HDR
      <4>1. p \in DOMAIN live /\ live'[p] = live[p]
        BY <1>1, <1>3, <3>2
      <4>2. PICK c \in UsedChunks(hdr) : p = c + HDR
        BY <4>1, InvFacts
      <4>3. c \in Nat /\ p - HDR = c
        BY <1>2, <4>2, InvFacts DEF UsedChunks, Chunks
      <4>4. hdr'[c].size = hdr[c].size
        BY <1>2, <4>2 DEF Taken
      <4>5. hdr[c].size * WORD >= live[p]
        BY <2>2, <4>1, <4>3 DEF IInv, LiveBlocksBacked
      <4>6. QED BY <4>1, <4>3, <4>4, <4>5
    <3>3. QED BY <3>1, <3>2
  <2>3. QED BY <1>1, <2>1, <2>2, Units DEF LiveBlocksBacked, UsedChunks, Chunks
<1>7. QED
  BY <1>1, <1>4, <1>5, <1>6 DEF IInv, WalkInv, CurInv, NothingMappedAtEnd

LEMMA SplitFaultsStep == ASSUME IInv, SplitFaults PROVE IInv'
<1>1. ListUnchanged /\ pc' = "fault"
  BY DEF SplitFaults, ListUnchanged
<1>2. TypeOK'
  BY <1>1, ListKept DEF SplitFaults, IInv, TypeOK, ListUnchanged
<1>3. QED
  BY <1>1, <1>2, ListKept DEF SplitFaults, IInv, WalkInv, CurInv, NothingMappedAtEnd

LEMMA StartExpandStep == ASSUME IInv, StartExpand PROVE IInv'
<1>1. ListUnchanged /\ pc = "walk" /\ pc' = "expand"
  BY DEF StartExpand, ListUnchanged
<1>2. TypeOK'
  BY <1>1, ListKept, ArenaAssumption DEF StartExpand, IInv, TypeOK, ListUnchanged
<1>3. QED
  BY <1>1, <1>2, ListKept DEF StartExpand, IInv, WalkInv, CurInv, NothingMappedAtEnd

\* The word at heap_end is in no mapped page, so the chunk is never added.
LEMMA AddChunkStep == ASSUME IInv, AddChunk PROVE IInv' /\ pc' = "fault"
<1>1. ~HeaderMapped(heap_end)
  <2>1. heap_end \in Nat /\ \A p \in mapped : p \in Nat /\ p + PAGE <= heap_end
    BY InvFacts DEF IInv, CurInv, NothingMappedAtEnd
  <2>2. \A p \in mapped : heap_end \notin p .. p + PAGE - 1
    BY <2>1, Units
  <2>3. heap_end \in heap_end .. heap_end + HDR - 1
    BY <2>1, Units
  <2>4. QED BY <2>2, <2>3 DEF HeaderMapped
<1>2. ListUnchanged /\ pc' = "fault" /\ pc = "expand" /\ cur' = cur
  BY <1>1 DEF AddChunk, ListUnchanged
<1>3. TypeOK'
  BY <1>2, ListKept DEF AddChunk, IInv, TypeOK, ListUnchanged
<1>4. QED
  BY <1>2, <1>3, ListKept DEF AddChunk, IInv, WalkInv, CurInv, NothingMappedAtEnd

\* Freeing a block makes its chunk alone unused and leaves the others as they were.
Freed(h, g) ==
  /\ ListOK(g) /\ NoFree(g)
  /\ h \in UsedChunks(hdr) /\ UsedChunks(g) = UsedChunks(hdr) \ {h}
  /\ \A c \in UsedChunks(g) : g[c].size = hdr[c].size

LEMMA KfreeList ==
  ASSUME IInv, NEW p \in DOMAIN live, Kfree(p)
  PROVE  Freed(p - HDR, hdr') /\ p - HDR \in Nat
<1>1. PICK h \in UsedChunks(hdr) : p = h + HDR
  BY InvFacts
<1>2. h \in Chunks /\ hdr[h].used /\ Chunks # {} /\ ListOK(hdr) /\ NoFree(hdr)
  BY <1>1, InvFacts DEF UsedChunks, Chunks
<1>3. h \in Nat /\ HDR \in Nat
  BY <1>2, InvFacts, Units
<1>4. p - HDR = h
  BY <1>1, <1>3
<1>5. hdr' = MergePrev(MergeNext(Mark(hdr, h, FALSE), h), h)
  BY <1>4 DEF Kfree
<1>6. /\ ListOK(hdr') /\ NoFree(hdr')
      /\ UsedChunks(hdr') = UsedChunks(hdr) \ {h}
      /\ \A c \in UsedChunks(hdr') : hdr'[c].size = hdr[c].size
  BY <1>2, <1>5, FreeList DEF Chunks
<1>7. QED BY <1>1, <1>3, <1>4, <1>6 DEF Freed

LEMMA KfreeStep ==
  ASSUME IInv, NEW p \in DOMAIN live, Kfree(p)
  PROVE  IInv'
<1>1. /\ pc = "idle" /\ pc' = pc /\ live' = [q \in DOMAIN live \ {p} |-> live[q]]
      /\ UNCHANGED <<heap_end, mapped, phys, n, req, cur>>
  BY DEF Kfree
<1>2. PICK h \in Nat : h = p - HDR /\ Freed(h, hdr')
  BY KfreeList
<1>3. p = h + HDR /\ p \in Nat /\ HDR \in Nat
  BY <1>2, Units DEF IInv, TypeOK
<1>4. ListOK(hdr') /\ Chunks' = DOMAIN hdr' /\ HEAP_START \in Chunks'
  BY <1>2 DEF Freed, ListOK, Linked, Chunks
<1>5. DOMAIN live' = DOMAIN live \ {p} /\ \A q \in DOMAIN live' : live'[q] = live[q]
  BY <1>1
<1>6. cur = NULL
  BY <1>1 DEF IInv, CurInv
<1>7. TypeOK'
  <2>1. hdr' \in [Chunks' -> Header] /\ Chunks' \subseteq Nat
    BY <1>4 DEF ListOK
  <2>2. live' \in [DOMAIN live' -> 0 .. SIZE_T - 1] /\ DOMAIN live' \subseteq Nat
    BY <1>1, <1>5 DEF IInv, TypeOK
  <2>3. QED BY <1>1, <1>6, <2>1, <2>2 DEF IInv, TypeOK
<1>8. ChunksTileArena' /\ NoFreeNeighbours' /\ Chunks' # {}
  BY <1>2, <1>4 DEF Freed, ListOK, ChunksTileArena, NoFree, NoFreeNeighbours, Chunks
<1>9. LiveBlocksBacked'
  <2>1. DOMAIN live' = {a + HDR : a \in UsedChunks(hdr')}
    <3>1. DOMAIN live = {a + HDR : a \in UsedChunks(hdr)}
      BY InvFacts
    <3>2. UsedChunks(hdr') = UsedChunks(hdr) \ {h}
      BY <1>2 DEF Freed
    <3>3. \A a \in UsedChunks(hdr) : a \in Nat /\ (a + HDR = p <=> a = h)
      BY <1>2, <1>3, InvFacts DEF UsedChunks, Chunks
    <3>4. QED BY <1>5, <3>1, <3>2, <3>3
  <2>2. ASSUME NEW q \in DOMAIN live', live'[q] <= SIZE_T - WORD
        PROVE  hdr'[q - HDR].size * WORD >= live'[q]
    <3>1. PICK c \in UsedChunks(hdr') : q = c + HDR
      BY <2>1
    <3>2. c \in Nat /\ q - HDR = c
      BY <1>3, <1>4, <3>1 DEF UsedChunks, ListOK
    <3>3. hdr'[c].size = hdr[c].size
      BY <1>2, <3>1 DEF Freed
    <3>4. hdr[c].size * WORD >= live[q]
      BY <1>5, <2>2, <3>2 DEF IInv, LiveBlocksBacked
    <3>5. QED BY <1>5, <3>2, <3>3, <3>4
  <2>3. QED BY <1>1, <2>1, <2>2, Units DEF LiveBlocksBacked, UsedChunks, Chunks
<1>10. QED
  BY <1>1, <1>6, <1>7, <1>8, <1>9 DEF IInv, WalkInv, CurInv, NothingMappedAtEnd

LEMMA NextIInv == IInv /\ [Next]_vars => IInv'
<1> SUFFICES ASSUME IInv, [Next]_vars PROVE IInv'
  OBVIOUS
<1>1. CASE UNCHANGED vars
  BY <1>1 DEF vars, IInv, TypeOK, NothingMappedAtEnd, ChunksTileArena, NoFreeNeighbours,
              LiveBlocksBacked, WalkInv, CurInv, Suits, Size, Chunks
<1>2. CASE Next
  <2>1. CASE Fault
    BY <1>1, <2>1 DEF Fault
  <2>2. CASE \E r \in Requests : Kmalloc(r)
    BY <2>2, KmallocStep
  <2>3. CASE \E p \in DOMAIN live : Kfree(p)
    BY <2>3, KfreeStep
  <2>4. CASE HeapStep
    BY <2>4, ExpandPageStep, FirstChunkStep, SkipChunkStep, TakeChunkStep, SplitFaultsStep,
       StartExpandStep, AddChunkStep DEF HeapStep
  <2>5. QED BY <1>2, <2>1, <2>2, <2>3, <2>4 DEF Next
<1>3. QED BY <1>1, <1>2

\* The inductive invariant of the heap holds in every reachable state.
THEOREM IInvHolds == Spec => []IInv
BY InitIInv, NextIInv, PTL DEF Spec
-----------------------------------------------------------------------------
\* The type invariant.
THEOREM TypeCorrect == Spec => []TypeOK
<1>1. IInv => TypeOK
  BY DEF IInv
<1>2. QED BY <1>1, IInvHolds, PTL

\* Whatever the sizes and the order of kmalloc() and kfree(), the chunks tile the
\* arena: the list is linked both ways and no two chunks overlap.
THEOREM Tiling == Spec => []ChunksTileArena
<1>1. IInv => ChunksTileArena
  BY DEF IInv
<1>2. QED BY <1>1, IInvHolds, PTL

\* Two free chunks are never adjacent.
THEOREM Coalesced == Spec => []NoFreeNeighbours
<1>1. IInv => NoFreeNeighbours
  BY DEF IInv
<1>2. QED BY <1>1, IInvHolds, PTL

\* Each block callers hold has a used chunk of at least the size asked for.
THEOREM Backed == Spec => []LiveBlocksBacked
<1>1. IInv => LiveBlocksBacked
  BY DEF IInv
<1>2. QED BY <1>1, IInvHolds, PTL

\* No page is mapped at or beyond heap_end.
THEOREM EndUnmapped == Spec => []NothingMappedAtEnd
<1>1. IInv => NothingMappedAtEnd
  BY DEF IInv
<1>2. QED BY <1>1, IInvHolds, PTL

\* The heap is expanded only when no free chunk is large enough: when kmalloc()
\* reaches the end of the list it has passed every chunk.
THEOREM ExpandsLast == Spec => ExpandsOnlyWhenFull
<1>1. ASSUME IInv, StartExpand
      PROVE  \A a \in Chunks : hdr[a].used \/ hdr[a].size < Size
  <2> SUFFICES ASSUME NEW a \in Chunks, ~hdr[a].used PROVE hdr[a].size < Size
    OBVIOUS
  <2>1. ~Suits(a)
    BY <1>1 DEF IInv, WalkInv, StartExpand
  <2>2. hdr[a].size \in Nat /\ Size \in Nat
    BY <1>1, InvFacts DEF Header
  <2>3. QED BY <2>1, <2>2 DEF Suits
<1>2. IInv => [StartExpand => \A a \in Chunks : hdr[a].used \/ hdr[a].size < Size]_vars
  BY <1>1
<1>3. QED BY <1>2, IInvHolds, PTL DEF ExpandsOnlyWhenFull
-----------------------------------------------------------------------------
(* The blocks callers hold *)

\* The size of the block at p, and its chunk.
BlockSize(p) == hdr[p - HDR].size

LEMMA BlockFacts ==
  ASSUME IInv, NEW p \in DOMAIN live
  PROVE  /\ p - HDR \in UsedChunks(hdr) /\ p - HDR \in Chunks /\ Chunks # {}
         /\ p \in Nat /\ BlockSize(p) \in Nat
         /\ p \in HEAP_START .. HEAP_END_INIT /\ p + BlockSize(p) <= HEAP_END_INIT
<1>1. PICK h \in UsedChunks(hdr) : p = h + HDR
  BY InvFacts
<1>2. h \in Chunks /\ h \in Nat /\ HDR \in Nat /\ Chunks # {} /\ ListOK(hdr)
  BY <1>1, InvFacts, Units DEF UsedChunks, Chunks
<1>3. p - HDR = h /\ p \in Nat
  BY <1>1, <1>2
<1>4. /\ hdr[h].size \in Nat /\ HEAP_START <= h
      /\ h + HDR + hdr[h].size <= HEAP_END_INIT
  BY <1>2, ListFacts DEF Chunks
<1>5. HEAP_START \in Nat /\ HEAP_END_INIT \in Nat
  BY Units
<1>6. QED BY <1>1, <1>2, <1>3, <1>4, <1>5 DEF BlockSize

\* Two blocks do not overlap.
LEMMA BlocksApart ==
  ASSUME IInv, NEW p \in DOMAIN live, NEW q \in DOMAIN live, p < q
  PROVE  p + BlockSize(p) <= q
<1>1. /\ p - HDR \in Chunks /\ q - HDR \in Chunks /\ p \in Nat /\ q \in Nat
      /\ BlockSize(p) \in Nat /\ ListOK(hdr) /\ HDR \in Nat
  BY BlockFacts, InvFacts, Units
<1>2. p - HDR < q - HDR
  BY <1>1
<1>3. (p - HDR) + HDR + BlockSize(p) <= q - HDR
  BY <1>1, <1>2 DEF ListOK, Disjoint, End, BlockSize, Chunks
<1>4. QED BY <1>1, <1>3

\* A step either takes a chunk, frees a block, or leaves every block as it was.
LEMMA BlockSteps ==
  ASSUME IInv, [Next]_vars
  PROVE  \/ TakeChunk
         \/ \E p \in DOMAIN live : Kfree(p)
         \/ /\ DOMAIN live' = DOMAIN live
            /\ \A p \in DOMAIN live : p - HDR \in Chunks' /\ BlockSize(p)' = BlockSize(p)
<1>1. CASE hdr' = hdr /\ live' = live
  BY <1>1, BlockFacts DEF BlockSize, Chunks
<1>2. CASE FirstChunk
  BY <1>2 DEF IInv, FirstChunk
<1>3. CASE AddChunk
  BY <1>1, <1>3, AddChunkStep DEF AddChunk
<1>4. QED
  BY <1>1, <1>2, <1>3 DEF Next, HeapStep, vars, ExpandPage, SkipChunk, SplitFaults, StartExpand,
                          Kmalloc, Fault

\* A block keeps its place and size until it is freed.
LEMMA BlocksKept ==
  ASSUME IInv, [Next]_vars, NEW p \in DOMAIN live \cap DOMAIN live'
  PROVE  p - HDR \in Chunks' /\ BlockSize(p)' = BlockSize(p)
<1>1. p - HDR \in UsedChunks(hdr) /\ p \in Nat /\ HDR \in Nat
  BY BlockFacts, Units
<1>2. CASE TakeChunk
  <2>1. Taken(hdr')
    BY <1>2, TakeList
  <2>2. p - HDR \in UsedChunks(hdr') /\ hdr'[p - HDR].size = hdr[p - HDR].size
    BY <1>1, <2>1 DEF Taken
  <2>3. QED BY <2>2 DEF UsedChunks, Chunks, BlockSize
<1>3. ASSUME NEW q \in DOMAIN live, Kfree(q)
      PROVE  p - HDR \in Chunks' /\ BlockSize(p)' = BlockSize(p)
  <2>1. Freed(q - HDR, hdr') /\ q \in Nat
    BY <1>3, KfreeList, BlockFacts
  <2>2. p # q
    BY <1>3 DEF Kfree
  <2>3. p - HDR # q - HDR
    BY <1>1, <2>1, <2>2
  <2>4. p - HDR \in UsedChunks(hdr') /\ hdr'[p - HDR].size = hdr[p - HDR].size
    BY <1>1, <2>1, <2>3 DEF Freed
  <2>5. QED BY <2>4 DEF UsedChunks, Chunks, BlockSize
<1>4. QED BY <1>2, <1>3, BlockSteps

\* No kmalloc() and no kfree() of another block moves the end of a block.
THEOREM BlocksStay == Spec => LiveBlocksStay
<1>1. IInv /\ [Next]_vars =>
        [\A p \in DOMAIN live \cap DOMAIN live' :
           p - HDR \in DOMAIN hdr' /\ hdr'[p - HDR].size = hdr[p - HDR].size]_vars
  BY BlocksKept DEF Chunks, BlockSize
<1>2. QED BY <1>1, IInvHolds, PTL DEF Spec, LiveBlocksStay
-----------------------------------------------------------------------------
(* The heap implements an allocator of disjoint blocks *)

BlockMap == [p \in DOMAIN live |-> BlockSize(p)]

\* The blocks of m lie in the arena and do not overlap.
Apart(m) ==
  /\ \A p \in DOMAIN m : /\ p \in Nat /\ m[p] \in Nat
                         /\ HEAP_START <= p /\ p + m[p] <= HEAP_END_INIT
  /\ \A p, q \in DOMAIN m : p < q => p + m[p] <= q

LEMMA BlocksAreApart == IInv => Apart(BlockMap)
<1> SUFFICES ASSUME IInv PROVE Apart(BlockMap)
  OBVIOUS
<1>1. DOMAIN BlockMap = DOMAIN live /\ \A p \in DOMAIN live : BlockMap[p] = BlockSize(p)
  BY DEF BlockMap
<1>2. \A p \in DOMAIN live : /\ p \in Nat /\ BlockSize(p) \in Nat
                             /\ HEAP_START <= p /\ p + BlockSize(p) <= HEAP_END_INIT
  BY BlockFacts, Units
<1>3. \A p, q \in DOMAIN live : p < q => p + BlockSize(p) <= q
  BY BlocksApart
<1>4. QED BY <1>1, <1>2, <1>3 DEF Apart

\* What an allocation and a release ask of the map of blocks, m before and g after.
LEMMA Allocates ==
  ASSUME NEW m, NEW g, NEW p \in DOMAIN g, Apart(g), p \notin DOMAIN m,
         DOMAIN g = DOMAIN m \cup {p}, \A q \in DOMAIN m : g[q] = m[q]
  PROVE  /\ Blocks!Extent(p, g[p]) \subseteq HEAP_START .. HEAP_END_INIT - 1
         /\ \A q \in DOMAIN m : Blocks!Extent(p, g[p]) \cap Blocks!Extent(q, m[q]) = {}
         /\ p \in HEAP_START .. HEAP_END_INIT
         /\ g[p] \in 0 .. HEAP_END_INIT - HEAP_START
<1>1. /\ p \in Nat /\ g[p] \in Nat /\ HEAP_START <= p /\ p + g[p] <= HEAP_END_INIT
      /\ HEAP_START \in Nat /\ HEAP_END_INIT \in Nat
  BY Units DEF Apart
<1>2. ASSUME NEW q \in DOMAIN m
      PROVE  Blocks!Extent(p, g[p]) \cap Blocks!Extent(q, m[q]) = {}
  <2>1. q \in DOMAIN g /\ q # p /\ g[q] = m[q]
    OBVIOUS
  <2>2. q \in Nat /\ m[q] \in Nat
    BY <2>1 DEF Apart
  <2>3. (q < p => q + m[q] <= p) /\ (p < q => p + g[p] <= q)
    BY <2>1 DEF Apart
  <2>4. QED BY <1>1, <2>1, <2>2, <2>3 DEF Blocks!Extent
<1>3. QED BY <1>1, <1>2 DEF Blocks!Extent

\* A block that kmalloc() returns overlaps none that is held.
LEMMA TakeAllocates ==
  ASSUME IInv, Apart(BlockMap'), TakeChunk
  PROVE  Blocks!Next
<1> DEFINE p == cur + HDR
<1>1. Taken(hdr') /\ DOMAIN live' = DOMAIN live \cup {p} /\ cur \in Nat /\ HDR \in Nat
  BY TakeList, InvFacts, Units DEF TakeChunk
<1>2. p \notin DOMAIN live
  <2>1. cur \notin UsedChunks(hdr) /\ p - HDR = cur
    BY <1>1 DEF Taken
  <2>2. QED BY <2>1, BlockFacts
<1>3. \A q \in DOMAIN live : BlockMap'[q] = BlockMap[q]
  <2>1. [Next]_vars
    BY DEF Next, HeapStep
  <2>2. \A q \in DOMAIN live : q \in DOMAIN live' /\ BlockSize(q)' = BlockSize(q)
    BY <1>1, <2>1, BlocksKept
  <2>3. QED BY <2>2 DEF BlockMap
<1>4. DOMAIN BlockMap = DOMAIN live /\ DOMAIN BlockMap' = DOMAIN live'
  BY DEF BlockMap
<1> HIDE DEF p
<1> DEFINE len == BlockMap'[p]
<1>5. BlockMap' = [q \in DOMAIN BlockMap \cup {p} |-> IF q = p THEN len ELSE BlockMap[q]]
  <2>1. BlockMap' = [q \in DOMAIN live' |-> BlockMap'[q]]
    BY DEF BlockMap
  <2>2. QED BY <1>1, <1>2, <1>3, <1>4, <2>1
<1>6. /\ Blocks!Extent(p, len) \subseteq HEAP_START .. HEAP_END_INIT - 1
      /\ \A q \in DOMAIN BlockMap : Blocks!Extent(p, len) \cap Blocks!Extent(q, BlockMap[q]) = {}
      /\ p \in HEAP_START .. HEAP_END_INIT /\ len \in 0 .. HEAP_END_INIT - HEAP_START
  BY <1>1, <1>2, <1>3, <1>4, Allocates
<1> HIDE DEF len
<1>7. \E a \in HEAP_START .. HEAP_END_INIT, l \in 0 .. HEAP_END_INIT - HEAP_START :
        /\ a \notin DOMAIN BlockMap
        /\ Blocks!Extent(a, l) \subseteq HEAP_START .. HEAP_END_INIT - 1
        /\ \A q \in DOMAIN BlockMap : Blocks!Extent(a, l) \cap Blocks!Extent(q, BlockMap[q]) = {}
        /\ BlockMap' = [q \in DOMAIN BlockMap \cup {a} |-> IF q = a THEN l ELSE BlockMap[q]]
  <2>1. p \notin DOMAIN BlockMap
    BY <1>2, <1>4
  <2>2. QED BY <1>5, <1>6, <2>1
<1>8. \E a \in HEAP_START .. HEAP_END_INIT : \E l \in 0 .. HEAP_END_INIT - HEAP_START :
        Blocks!Allocate(a, l)
  BY <1>7 DEF Blocks!Allocate, BlockMap, BlockSize
<1>9. QED BY <1>8 DEF Blocks!Next

\* kfree() gives one block back.
LEMMA KfreeReleases ==
  ASSUME IInv, NEW p \in DOMAIN live, Kfree(p)
  PROVE  Blocks!Next
<1>1. DOMAIN live' = DOMAIN live \ {p}
  BY DEF Kfree
<1>2. \A q \in DOMAIN live' : q \in DOMAIN live /\ BlockSize(q)' = BlockSize(q)
  BY <1>1, BlocksKept DEF Next
<1>3. BlockMap' = [q \in DOMAIN BlockMap \ {p} |-> BlockMap[q]] /\ p \in DOMAIN BlockMap
  BY <1>1, <1>2 DEF BlockMap
<1>4. Blocks!Release(p)
  BY <1>3 DEF Blocks!Release, BlockMap, BlockSize
<1>5. \E q \in DOMAIN BlockMap : Blocks!Release(q)
  BY <1>3, <1>4
<1>6. QED BY <1>5 DEF Blocks!Next, BlockMap, BlockSize

\* The heap implements an allocator of disjoint blocks: splitting, merging,
\* expanding and walking the list are no steps of it.
THEOREM HeapRefines == Spec => ImplementsBlocks
<1>1. Init => Blocks!Init
  BY DEF Init, EmptyFn, Blocks!Init
<1>2. IInv' => Apart(BlockMap)'
  BY BlocksAreApart, PTL
<1>3. ASSUME IInv, IInv', [Next]_vars
      PROVE  Blocks!Next \/ BlockMap' = BlockMap
  <2>1. Apart(BlockMap')
    BY <1>2, <1>3 DEF Apart
  <2>2. CASE TakeChunk
    BY <1>3, <2>1, <2>2, TakeAllocates
  <2>3. ASSUME NEW p \in DOMAIN live, Kfree(p)
        PROVE  Blocks!Next
    BY <1>3, <2>3, KfreeReleases
  <2>4. CASE DOMAIN live' = DOMAIN live /\ \A p \in DOMAIN live : BlockSize(p)' = BlockSize(p)
    BY <2>4 DEF BlockMap
  <2>5. QED BY <1>3, <2>2, <2>3, <2>4, BlockSteps
<1>4. IInv /\ IInv' /\ [Next]_vars => [Blocks!Next]_(BlockMap)
  BY <1>3
<1>5. QED BY <1>1, <1>4, IInvHolds, PTL
             DEF Spec, ImplementsBlocks, Blocks!Spec, BlockMap, BlockSize
=============================================================================
