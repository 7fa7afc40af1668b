------------------------------ MODULE MC_Boot ------------------------------
(* A heap of 34 words for Boot: a header and a Process take a word, a stack  *)
(* takes two; with five processes 25 words, and 9 for the screen.            *)
EXTENDS Boot

Left(screens, amounts) ==
  [response : {TRUE}, revision : {TRUE}, font : {TRUE}, screen : screens, backed : amounts]
\* A screen that leaves a chunk, a word too few for one, nothing, or too little for the
\* processes; one the heap holds alone, and one larger than the heap; and all the ways in
\* which the pages that are mapped can end.
MCEnvs ==
  Left({NoScreen, 5, 7, 8, 9, 33, 40}, 0 .. ARENA)
    \cup [response : BOOLEAN, revision : BOOLEAN, font : BOOLEAN, screen : {5, NoScreen}, backed : {ARENA}]
=============================================================================
