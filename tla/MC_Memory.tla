----------------------------- MODULE MC_Memory -----------------------------
(* Small memory maps for Memory: bitmap words of 2 bits, pages of 4 bits,   *)
(* tables of two entries, so that pages 0 .. 7 are the lower half.          *)
EXTENDS Memory

U(b, l) == [base |-> b, length |-> l, usable |-> TRUE]
R(b, l) == [base |-> b, length |-> l, usable |-> FALSE]

MCMemMaps ==
  { <<>>,                                          \* no memory map
    <<R(0, 4)>>,                                   \* nothing usable
    <<U(1, 1)>>,                                   \* the bitmap takes the only page
    <<U(1, 2)>>,                                   \* one page, for the root table
    <<R(0, 1), U(1, 1), R(2, 1), U(3, 4)>>,        \* bitmap skips a region too small
    <<U(1, 1), R(2, 4), U(8, 1)>>,                 \* no region holds the bitmap
    <<R(3, 2), U(5, 4), U(1, 2)>>,                 \* unsorted map, hole at the front
    <<U(1, 3), R(4, 2), U(6, 3)>>,                 \* bitmap fills a region exactly
    <<U(1, 8)>>,                                   \* frames for one heap page
    <<U(1, 12)>>,                                  \* two frames beside the initial heap
    <<U(1, 16)>> }                                 \* enough for an expansion or a mapping

\* Beside the heap's pages 4 .. 6, two that share no page table with each other.
MCVirt == {0, 2}
MCBoot == [j \in {1} |-> [present |-> TRUE, frame |-> 99, nx |-> FALSE]]
=============================================================================
