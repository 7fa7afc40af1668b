---------------------------- MODULE AddressSpace ----------------------------
(***************************************************************************)
(* What the virtual memory manager promises its callers: a table of pages  *)
(* and one call at a time, which takes effect at once and at most once, at *)
(* its own page.  A call that returns without it has changed nothing: a    *)
(* map() may do so, an unmap() only of a page that is not mapped.          *)
(***************************************************************************)
CONSTANTS Virt, Entry,     \* virtual pages, what they can be mapped to
          NoEntry          \* what a call asks for that unmaps its page

VARIABLES
  space,        \* the mapped pages and their entries
  request,      \* the latest call: its page and what it is to be mapped to
  progress      \* of that call: "called", "done" when it took effect, "returned"

asvars == <<space, request, progress>>

Init == space = [v \in {} |-> NoEntry] /\ progress = "returned"

\* Page v alone is mapped (anew) to e, or unmapped.
Changed(v, e) ==
  IF e = NoEntry THEN [w \in DOMAIN space \ {v} |-> space[w]]
  ELSE [w \in DOMAIN space \cup {v} |-> IF w = v THEN e ELSE space[w]]

Call(v, e) ==
  /\ progress = "returned" /\ progress' = "called"
  /\ request' = [page |-> v, entry |-> e]
  /\ UNCHANGED space

TakeEffect ==
  /\ progress = "called" /\ progress' = "done"
  /\ space' = Changed(request.page, request.entry)
  /\ UNCHANGED request

Return ==
  /\ progress = "done" /\ progress' = "returned"
  /\ UNCHANGED <<space, request>>

Fail ==
  /\ progress = "called" /\ progress' = "returned"
  /\ request.entry = NoEntry => request.page \notin DOMAIN space
  /\ UNCHANGED <<space, request>>

Next == (\E v \in Virt, e \in Entry \cup {NoEntry} : Call(v, e)) \/ TakeEffect \/ Return \/ Fail

Spec == Init /\ [][Next]_asvars
=============================================================================
