--------------------------- MODULE BlockAllocator ---------------------------
(***************************************************************************)
(* What the kernel heap promises its callers: blocks of memory inside one  *)
(* arena, of which no two overlap while both are allocated.                *)
(***************************************************************************)
EXTENDS Integers

CONSTANTS Lo, Hi       \* the arena is the addresses Lo .. Hi - 1

VARIABLE blocks        \* allocated blocks: first address |-> length

Extent(p, len) == p .. p + len - 1

Init == blocks = [p \in {} |-> 0]

\* A block is handed out where nothing allocated lies.
Allocate(p, len) ==
  /\ p \notin DOMAIN blocks
  /\ Extent(p, len) \subseteq Lo .. Hi - 1
  /\ \A q \in DOMAIN blocks : Extent(p, len) \cap Extent(q, blocks[q]) = {}
  /\ blocks' = [q \in DOMAIN blocks \cup {p} |-> IF q = p THEN len ELSE blocks[q]]

\* A block is given back; the others keep their place and length.
Release(p) == blocks' = [q \in DOMAIN blocks \ {p} |-> blocks[q]]

Next ==
  \/ \E p \in Lo .. Hi : \E len \in 0 .. Hi - Lo : Allocate(p, len)
  \/ \E p \in DOMAIN blocks : Release(p)

Spec == Init /\ [][Next]_blocks
=============================================================================
