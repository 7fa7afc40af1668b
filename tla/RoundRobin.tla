----------------------------- MODULE RoundRobin -----------------------------
(***************************************************************************)
(* What the scheduler promises: processes take turns in a fixed order, one *)
(* that is new coming right after the one whose turn it is.                *)
(***************************************************************************)
EXTENDS Sequences

CONSTANT Procs

VARIABLE turns        \* the processes, the one whose turn it is first

Init == turns = <<>>

Add(p) == turns' = IF turns = <<>> THEN <<p>> ELSE <<Head(turns), p>> \o Tail(turns)

Rotate == turns # <<>> /\ turns' = Append(Tail(turns), Head(turns))

Next == Rotate \/ \E p \in Procs : Add(p)

Spec == Init /\ [][Next]_turns
=============================================================================
