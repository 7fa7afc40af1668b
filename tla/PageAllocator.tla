--------------------------- MODULE PageAllocator ---------------------------
(***************************************************************************)
(* What the physical memory manager promises its callers (VMM, Heap): a    *)
(* pool of pages, published once at boot, from which a caller obtains      *)
(* pages that nobody else holds, and to which it may give them back.       *)
(***************************************************************************)
EXTENDS Naturals

VARIABLES
  avail,            \* pages the allocator may hand out
  held              \* pages handed out and not given back

vars == <<avail, held>>

Init == avail = {} /\ held = {}

\* The boot code publishes the pool before anything is handed out.
Publish ==
  /\ avail = {} /\ held = {}
  /\ avail' \subseteq Nat
  /\ UNCHANGED held

\* A caller obtains a page that is available, hence held by nobody.
Obtain(q) ==
  /\ avail' = avail \ {q}
  /\ held' = held \cup {q}

\* A caller gives back a page it holds.
GiveBack(q) ==
  /\ held' = held \ {q}
  /\ avail' = avail \cup {q}

Next ==
  \/ Publish
  \/ \E q \in avail : Obtain(q)
  \/ \E q \in held : GiveBack(q)

Spec == Init /\ [][Next]_vars
=============================================================================
