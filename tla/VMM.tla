-------------------------------- MODULE VMM --------------------------------
(***************************************************************************)
(* The virtual memory manager, src/memory/vmm.cpp: four levels of page     *)
(* tables, walked and extended by map(), unmap() and virt_to_phys().       *)
(* Beside the calls the processor itself walks the tables and caches what  *)
(* it finds in its TLB.  Frames and virtual pages are counted in pages; a  *)
(* page's index at a level is a digit of its number.  The module holds the *)
(* steps; Memory.tla composes them with the physical memory manager's and  *)
(* with the callers'.                                                      *)
(***************************************************************************)
EXTENDS Integers

CONSTANTS
  ENTRIES,     \* entries of a page table: 512; the upper half of the PML4's are
               \* those of the kernel, which init() inherits from the boot loader
  Virt,        \* virtual pages in the lower half that callers map
  PageFrames,  \* the page frames the physical memory manager may hand out
  Boot,        \* the boot loader's entries for the kernel's half, by index
  NX_BIT       \* FLAG_NX, in the units of an entry's frame number

Idx == 0 .. ENTRIES - 1
High == {i \in Idx : 2 * i >= ENTRIES}

\* An entry: without FLAG_PRESENT it is zero.
Entry == [present : BOOLEAN, frame : Nat, nx : BOOLEAN]
Zero == [present |-> FALSE, frame |-> 0, nx |-> FALSE]
Present(f, nx) == [present |-> TRUE, frame |-> f, nx |-> nx]

\* What the constants must satisfy, assumed by the module that gives them values.
ConstantsOK ==
  /\ ENTRIES \in Nat \ {0, 1} /\ NX_BIT \in Nat \ {0}
  /\ \A v \in Virt : v \in Nat /\ 2 * (((v \div ENTRIES) \div ENTRIES) \div ENTRIES) < ENTRIES
  /\ PageFrames \subseteq Nat \ {0} /\ Boot \in [High -> Entry]

NULL == 0         \* the null pointer, which is also the number of frame 0

VARIABLES
  free,        \* frames the physical memory manager can hand out, lowest first
  held,        \* frames callers obtained from it, to map them
  pml4,        \* frame of the root table
  tab,         \* contents of the tables, by frame
  tlb,         \* translations the processor caches
  pc,          \* "init", "idle", "walk", "flush"
  call,        \* the current call: its page, and the entry it is to write
  level, table \* the level the call has reached, 4 first, and the table there

vars == <<free, held, pml4, tab, tlb, pc, call, level, table>>

\* The index of page v at a level, 4 for the PML4 and 1 for the page table.
Index(v, l) ==
  LET up == v \div ENTRIES
      upup == up \div ENTRIES
  IN  CASE l = 4 -> (upup \div ENTRIES) % ENTRIES
        [] l = 3 -> upup % ENTRIES
        [] l = 2 -> up % ENTRIES
        [] l = 1 -> v % ENTRIES

\* PMM::alloc(): the lowest free frame, NULL when there is none.
IsAlloc(f) == IF free = {} THEN f = NULL ELSE f \in free /\ \A g \in free : f <= g

Init ==
  /\ free = {} /\ held = {}
  /\ pml4 = NULL /\ tab = [f \in {} |-> NULL] /\ tlb = [v \in {} |-> Zero]
  /\ pc = "init" /\ call = [page |-> 0, entry |-> Zero]
  /\ level = 4 /\ table = NULL

-----------------------------------------------------------------------------
(* init() *)

InitTableLate ==               \* mutant: the copy begins one entry late
  [i \in Idx |-> IF 2 * i > ENTRIES THEN Boot[i] ELSE Zero]
\* Zero but for the kernel's half, copied from the boot loader's root table.
InitTable == [i \in Idx |-> IF i \in High THEN Boot[i] ELSE Zero]

\* The result of alloc() is not tested: without a free frame the root table is
\* frame 0.  Loading CR3 empties the TLB.
VMMInit ==
  /\ pc = "init"
  /\ \E f \in free \cup {NULL} :
       /\ IsAlloc(f)
       /\ pml4' = f /\ tab' = [g \in {f} |-> InitTable]
       /\ free' = free \ {f}
  /\ pc' = "idle"
  /\ UNCHANGED <<held, tlb, call, level, table>>

-----------------------------------------------------------------------------
(* map() and unmap() *)

\* A caller obtains a frame, to map it.
Obtain ==
  /\ pc = "idle"
  /\ \E f \in free : IsAlloc(f) /\ held' = held \cup {f} /\ free' = free \ {f}
  /\ UNCHANGED <<pml4, tab, tlb, pc, call, level, table>>

\* map() writes a present entry, unmap() writes zero.
Start(v, e) ==
  /\ pc = "idle"
  /\ call' = [page |-> v, entry |-> e]
  /\ pc' = "walk" /\ level' = 4 /\ table' = pml4
  /\ UNCHANGED <<free, held, pml4, tab, tlb>>

Map(v, f, nx) == Start(v, Present(f, nx))
Unmap(v) == Start(v, Zero)

SlotAbove == Index(call.page, IF level = 1 THEN 2 ELSE level)    \* mutant: pt[pd_idx]
Slot == Index(call.page, level)

\* The next table exists.
Descend ==
  /\ pc = "walk" /\ level > 1
  /\ tab[table][Slot].present
  /\ table' = tab[table][Slot].frame /\ level' = level - 1
  /\ UNCHANGED <<free, held, pml4, tab, tlb, pc, call>>

Empty == [i \in Idx |-> Zero]
Linked(f) == [tab EXCEPT ![table][Slot] = Present(f, FALSE)]

WithTableUnzeroed(f) ==        \* mutant: memset() forgotten, an old entry shows
  [t \in DOMAIN tab \cup {f} |->
     IF t = f THEN [i \in Idx |-> Present(f, FALSE)] ELSE Linked(f)[t]]
WithTableUnlinked(f) ==        \* mutant: the new table's entry is not written
  [t \in DOMAIN tab \cup {f} |-> IF t = f THEN Empty ELSE tab[t]]
\* The tables once frame f is zeroed and linked below the cursor.
WithTable(f) == [t \in DOMAIN tab \cup {f} |-> IF t = f THEN Empty ELSE Linked(f)[t]]

\* map() creates the next table.
CreateTable ==
  /\ pc = "walk" /\ level > 1 /\ call.entry.present
  /\ ~tab[table][Slot].present
  /\ \E f \in free :
       /\ IsAlloc(f) /\ free' = free \ {f}
       /\ tab' = WithTable(f)
       /\ table' = f /\ level' = level - 1
  /\ UNCHANGED <<held, pml4, tlb, pc, call>>

\* map() has no frame for the next table and returns, which its caller cannot see;
\* unmap() of a page without tables returns.
GiveUp ==
  /\ pc = "walk" /\ level > 1
  /\ ~tab[table][Slot].present
  /\ call.entry.present => free = {}
  /\ pc' = "idle"
  /\ UNCHANGED <<free, held, pml4, tab, tlb, call, level, table>>

WriteEntry ==
  /\ pc = "walk" /\ level = 1
  /\ tab' = [tab EXCEPT ![table][Slot] = call.entry]
  /\ pc' = "flush"
  /\ UNCHANGED <<free, held, pml4, tlb, call, level, table>>

WithoutNeighbour(v) == [w \in DOMAIN tlb \ {v + 1} |-> tlb[w]]    \* mutant
Without(v) == [w \in DOMAIN tlb \ {v} |-> tlb[w]]

Invlpg ==
  /\ pc = "flush"
  /\ tlb' = Without(call.page)
  /\ pc' = "idle"
  /\ UNCHANGED <<free, held, pml4, tab, call, level, table>>

-----------------------------------------------------------------------------
(* What the tables say: virt_to_phys() and the processor's walk *)

Lookup(t, i) == IF t \in DOMAIN tab THEN tab[t][i] ELSE Zero

\* The entry that the walk for page v ends with: zero when a level is absent.
Leaf(v) ==
  LET e4 == Lookup(pml4, Index(v, 4))
      e3 == IF e4.present THEN Lookup(e4.frame, Index(v, 3)) ELSE Zero
      e2 == IF e3.present THEN Lookup(e3.frame, Index(v, 2)) ELSE Zero
  IN  IF e2.present THEN Lookup(e2.frame, Index(v, 1)) ELSE Zero

\* virt_to_phys() clears the lower 12 bits of the entry: bit 63 stays.
virt_to_phys(v) ==
  LET e == Leaf(v) IN
  IF ~e.present THEN NULL ELSE e.frame + IF e.nx THEN NX_BIT ELSE 0

\* The processor may cache any translation it can find, and drop it again.
TLBFill(v) ==
  /\ pc # "init" /\ Leaf(v).present
  /\ tlb' = [w \in DOMAIN tlb \cup {v} |-> IF w = v THEN Leaf(v) ELSE tlb[w]]
  /\ UNCHANGED <<free, held, pml4, tab, pc, call, level, table>>

TLBEvict(v) ==
  /\ v \in DOMAIN tlb
  /\ tlb' = Without(v)
  /\ UNCHANGED <<free, held, pml4, tab, pc, call, level, table>>

-----------------------------------------------------------------------------
TypeOK ==
  /\ free \subseteq PageFrames /\ held \subseteq PageFrames
  /\ pml4 \in PageFrames \cup {NULL}
  /\ DOMAIN tab \subseteq PageFrames \cup {NULL} /\ tab \in [DOMAIN tab -> [Idx -> Entry]]
  /\ DOMAIN tlb \subseteq Virt /\ tlb \in [DOMAIN tlb -> Entry]
  /\ pc \in {"init", "idle", "walk", "flush"}
  /\ call \in [page : Nat, entry : Entry]
  /\ level \in 1 .. 4 /\ table \in Nat

\* Tables the entries of the tables in T, at indices in S, lead to.
Below(T, S) == UNION {{tab[t][i].frame : i \in {j \in S : tab[t][j].present}} : t \in T}
PDPTs == Below({pml4}, Idx \ High)
PDs == Below(PDPTs, Idx)
PTs == Below(PDs, Idx)

\* Two different entries of the tables in T, at indices in S, never share a table.
NoSharing(T, S) ==
  \A t, u \in T : \A i, j \in S :
    /\ tab[t][i].present /\ tab[u][j].present
    /\ tab[t][i].frame = tab[u][j].frame
    => t = u /\ i = j

\* In the lower half the tables are a tree of four levels: no table has two
\* parents or two levels, and no table is a free frame or one a caller holds.
TablesFormTree ==
  pc # "init" =>
    /\ DOMAIN tab = {pml4} \cup PDPTs \cup PDs \cup PTs
    /\ pml4 \notin PDPTs \cup PDs \cup PTs
    /\ PDPTs \cap PDs = {} /\ PDs \cap PTs = {} /\ PDPTs \cap PTs = {}
    /\ NoSharing({pml4}, Idx \ High) /\ NoSharing(PDPTs, Idx) /\ NoSharing(PDs, Idx)
    /\ DOMAIN tab \cap (free \cup held) = {} /\ free \cap held = {}

\* A call's cursor is where the processor's walk for its page passes: a call
\* that is taken up again at each level never writes into another page's table.
CursorOnPath ==
  pc \in {"walk", "flush"} =>
    table \in CASE level = 4 -> {pml4} [] level = 3 -> PDPTs
                [] level = 2 -> PDs [] level = 1 -> PTs

\* No call touches what the kernel inherited from the boot loader: its own code,
\* the frame buffer and the direct map stay mapped.
KernelHalfKept ==
  pc # "init" => \A i \in High : tab[pml4][i] = Boot[i]

\* What map() and unmap() keep true of the tables at every point of a call: they are
\* typed, a tree, the call's cursor is on its own page's path through it, and the
\* half that is the kernel's is never followed or changed.
TablesInv == TypeOK /\ TablesFormTree /\ CursorOnPath /\ KernelHalfKept

\* Outside the moment between the write of an entry and its invlpg, and then but
\* for that page, the processor never uses a translation the tables do not hold.
NoStaleTranslation ==
  \A v \in DOMAIN tlb : tlb[v] = Leaf(v) \/ (pc = "flush" /\ call.page = v)

\* When a call returns after its invlpg, the page is mapped as was asked for: neither
\* the tables nor the TLB hold anything else, and virt_to_phys() gives the page's frame
\* unless the page is mapped with FLAG_NX, which it does not take off.
CallTakesEffect ==
  [][Invlpg => LET e == call.entry IN
       /\ Leaf(call.page) = e /\ call.page \notin DOMAIN tlb'
       /\ ~e.nx => virt_to_phys(call.page) = IF e.present THEN e.frame ELSE NULL]_vars

\* The tables implement an address space whose calls take effect at one moment, the
\* write of the last entry, at their page; a call that gives up, on whatever level and
\* with whatever tables created, has changed nothing, and only a map() gives up where
\* there was something to do.
AddressSpace == INSTANCE AddressSpace
  WITH space <- [v \in {w \in Virt : Leaf(w).present} |-> Leaf(v)],
       Entry <- [present : {TRUE}, frame : PageFrames, nx : BOOLEAN],
       NoEntry <- Zero,
       request <- call,
       progress <- IF pc = "walk" THEN "called" ELSE IF pc = "flush" THEN "done" ELSE "returned"
ImplementsAddressSpace == AddressSpace!Spec
=============================================================================
