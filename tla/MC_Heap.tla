------------------------------ MODULE MC_Heap -------------------------------
(* A heap of a few pages of four words for Heap; a header takes two words.  *)
EXTENDS Heap

\* In bytes of a two-byte word: nothing, an odd size, a chunk's worth, more than
\* the arena holds, and a size whose rounding wraps around to zero.
MCRequests == {0, 3, 8, 26, 63}
MCSmallRequests == {8}

\* None; too few for the first page's tables; one page; the last page lacks its
\* table; enough for init() and for a page of the expansion.
MCFrames == {0, 3, 4, 6, 8}
MCManyFrames == {20}
=============================================================================
