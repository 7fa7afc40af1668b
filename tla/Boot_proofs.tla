---------------------------- MODULE Boot_proofs ----------------------------
(***************************************************************************)
(* Proofs about Scheduler and Boot, for every number of processes.         *)
(*                                                                         *)
(* The first part is about Scheduler alone.  The invariants of the runs    *)
(* say what a switch must not do; why it does not do it is said by Slots:  *)
(* until kmain() has jumped, its thread has the first process's place in   *)
(* the ring, and every other process's frame is its own.  Why the links    *)
(* are one ring is said by RingOrder.                                      *)
(*                                                                         *)
(* The second part: Boot is a Scheduler.  Each step of kmain() is one of   *)
(* Scheduler's or leaves its variables alone, so that what is proved of    *)
(* the switches holds on every heap and for everything the boot loader may *)
(* leave.                                                                  *)
(***************************************************************************)
EXTENDS Boot, Sequences, FiniteSetTheorems, WellFoundedInduction, TLAPS

USE DEF Behind, Turn, Saved, HandedOver

\* How far kmain() is, and what it has linked.
Progress ==
  /\ pc = "boot" => made = 0
  /\ pc \in {"link", "relink"} => made \in Procs
  /\ pc \in {"load", "jump", "left"} => made = N
  /\ cpu = Halted => pc = "relink" /\ made = 1
  /\ cpu # Halted => (current = NULL <=> made = 0 \/ (made = 1 /\ pc = "link"))
  /\ current # NULL => current \in Linked \/ (current = 1 /\ made = 1 /\ pc = "relink")

\* The ring is closed; the process that is being inserted leads into it.
Closed ==
  /\ \A p \in Linked : next[p] \in Linked
  /\ pc = "relink" /\ made > 1 => next[made] \in Linked
  /\ cpu # Halted /\ pc = "relink" /\ made = 1 => next[1] = NULL
  /\ pc = "link" => next[made] = NULL

\* Whose frames the waiting processes hold.
Slots ==
  /\ cpu = Wild => pc = "left"
  /\ pc \in {"link", "relink"} => rsp[made] = made \/ (made = 1 /\ cpu = Halted)
  /\ cpu \in Threads /\ pc # "left" =>
       /\ IF cpu = Kmain THEN current \in {NULL, 1} ELSE current = cpu /\ current # 1
       /\ \A p \in Linked \ {current} : rsp[p] = IF p = 1 THEN Kmain ELSE p
  /\ cpu \in Threads /\ pc = "left" =>
       /\ current = cpu
       /\ \A p \in Procs \ {current} : rsp[p] = p

\* What kmain() will jump to.
FirstFrame ==
  /\ cpu = Kmain /\ made > 0 => rsp[1] \in {1, Stale}
  /\ ~early /\ pc # "left" => cpu \in {Kmain, Faulted} /\ (made > 0 => rsp[1] = 1)
  /\ pc = "jump" => reg \in {1, Stale} /\ (~early => reg = 1)
  /\ pc = "left" /\ ~early => cpu # Wild

Running ==
  /\ \A p \in Procs : state[p] = "RUNNING" => p = current
  /\ pc \in {"load", "jump", "left"} => state[current] = "RUNNING"

IInv == TypeOK /\ Progress /\ Closed /\ Slots /\ FirstFrame /\ Running

-----------------------------------------------------------------------------
(* The values are all different, and sets of processes are intervals. *)

LEMMA Values ==
  /\ Stale \notin Threads /\ Wild \notin Threads /\ Halted \notin Threads
  /\ Faulted \notin Threads
  /\ Wild # Halted /\ Faulted # Wild /\ Faulted # Halted /\ Stale = -1
  /\ Procs \subseteq Threads /\ NULL \notin Procs /\ Kmain \notin Procs
  /\ Kmain = 0 /\ NULL = 0 /\ 1 \in Procs /\ Kmain \in Threads
  /\ Procs \subseteq Nat /\ N \in Nat \ {0}
BY NAssumption DEF Stale, Wild, Halted, Faulted, Threads, Procs, NULL, Kmain

LEMMA LinkedFacts ==
  ASSUME TypeOK, Progress
  PROVE  /\ Linked \subseteq Procs
         /\ \A p \in Procs : p \in Linked <=> p <= made /\ (p = made => pc \notin {"link", "relink"})
         /\ made \in Nat /\ made <= N
         /\ pc \notin {"link", "relink"} => Linked = 1 .. made
BY NAssumption DEF TypeOK, Progress, Linked, Procs

LEMMA InitIInv == Init => IInv
<1> SUFFICES ASSUME Init PROVE IInv
  OBVIOUS
<1>1. Linked = {}
  BY DEF Init, Linked
<1>2. TypeOK
  <2>1. /\ [p \in Procs |-> NULL] \in [Procs -> Procs \cup {NULL}]
        /\ [p \in Procs |-> Stale] \in [Procs -> Threads \cup {Stale}]
        /\ [p \in Procs |-> "READY"] \in [Procs -> {"READY", "RUNNING"}]
    OBVIOUS
  <2>2. 0 \in 0 .. N
    BY NAssumption
  <2>3. QED BY <2>1, <2>2, Values DEF Init, TypeOK
<1>3. Progress /\ Closed /\ Slots /\ FirstFrame /\ Running
  BY <1>1, Values DEF Init, Progress, Closed, Slots, FirstFrame, Running, Wild, Halted
<1>4. QED BY <1>2, <1>3 DEF IInv

LEMMA StiStep == ASSUME IInv, Sti PROVE IInv'
<1>1. Linked' = Linked /\ Linked = {} /\ made = 0 /\ pc = "boot" /\ cpu = Kmain
  BY DEF Sti, At, IInv, Progress, Linked
<1>2. TypeOK'
  BY DEF IInv, TypeOK, Sti
<1>3. Progress' /\ Closed' /\ Slots' /\ FirstFrame' /\ Running'
  BY <1>1, Values DEF IInv, Progress, Closed, Slots, FirstFrame, Running, Sti, At
<1>4. QED BY <1>2, <1>3 DEF IInv

LEMMA FillStep == ASSUME IInv, Fill PROVE IInv'
<1>1. /\ cpu = Kmain /\ pc = "create" /\ made < N /\ made \in Nat /\ made + 1 \in Procs
      /\ Linked = 1 .. made /\ TypeOK
  BY LinkedFacts, Values DEF Fill, At, IInv, Procs
<1> DEFINE new == made + 1
<1>2. /\ made' = new /\ pc' = "link" /\ Linked' = Linked
      /\ next' = [next EXCEPT ![new] = NULL] /\ rsp' = [rsp EXCEPT ![new] = new]
      /\ state' = [state EXCEPT ![new] = "READY"]
      /\ UNCHANGED <<current, cpu, reg, early>>
  <2>1. (made + 1) - 1 = made
    BY <1>1
  <2>2. QED BY <1>1, <2>1 DEF Fill, Linked
<1>3. new \notin Linked /\ new \in Procs /\ new # current /\ (new = 1 <=> made = 0)
  BY <1>1, Values DEF IInv, Progress
<1>4. TypeOK'
  BY <1>1, <1>2, <1>3, Values, NAssumption DEF TypeOK, Procs
<1> HIDE DEF new
<1>5. Progress' /\ Closed'
  BY <1>1, <1>2, <1>3, Values DEF IInv, Progress, Closed, TypeOK, Procs
<1>6. Slots' /\ FirstFrame'
  BY <1>1, <1>2, <1>3, Values DEF IInv, Slots, FirstFrame, TypeOK, Procs
<1>7. Running'
  BY <1>1, <1>2, <1>3 DEF IInv, Running, TypeOK
<1>8. QED BY <1>4, <1>5, <1>6, <1>7 DEF IInv

LEMMA LinkStep == ASSUME IInv, Link PROVE IInv'
<1>1. /\ cpu = Kmain /\ pc = "link" /\ pc' = "relink" /\ made \in Procs /\ made \in Nat
      /\ Linked' = Linked /\ Linked = 1 .. made - 1 /\ TypeOK
      /\ UNCHANGED <<rsp, state, made, cpu, reg, early>>
  BY Values DEF Link, At, IInv, Progress, Linked
<1>2. \A p \in Procs : p \in Linked <=> p <= made /\ p # made
  BY <1>1, LinkedFacts DEF IInv
<1>3. CASE current = NULL
  <2>1. made = 1 /\ current' = 1 /\ next' = next /\ Linked = {}
    BY <1>1, <1>3, Values DEF Link, IInv, Progress, Halted
  <2>2. \A p \in Procs : state[p] # "RUNNING"
    BY <1>3, Values DEF IInv, Running
  <2>3. TypeOK'
    BY <1>1, <2>1, Values DEF TypeOK
  <2>4. Progress' /\ Closed'
    BY <1>1, <2>1, Values DEF IInv, Progress, Closed
  <2>5. Slots' /\ FirstFrame' /\ Running'
    BY <1>1, <2>1, <2>2, Values DEF IInv, Slots, FirstFrame, Running
  <2>6. QED BY <2>3, <2>4, <2>5 DEF IInv
<1>4. CASE current # NULL
  <2>1. /\ current = 1 /\ current' = current /\ next' = [next EXCEPT ![made] = next[current]]
    BY <1>1, <1>4, Values DEF Link, IInv, Slots
  <2>2. current \in Linked /\ made # 1 /\ made > 1
    BY <1>1, <1>2, <2>1, Values DEF IInv, Progress, Halted
  <2>3. next[current] \in Linked /\ made \notin Linked
    BY <1>2, <2>2, <1>1 DEF IInv, Closed
  <2>4. TypeOK'
    <3>1. next[current] \in Procs
      BY <2>3, LinkedFacts DEF IInv
    <3>2. next' \in [Procs -> Procs \cup {NULL}]
      BY <1>1, <2>1, <3>1 DEF TypeOK
    <3>3. QED BY <1>1, <2>1, <3>2 DEF TypeOK
  <2>5. Progress' /\ Closed'
    BY <1>1, <2>1, <2>2, <2>3, LinkedFacts, Values DEF IInv, Progress, Closed, TypeOK
  <2>6. Slots' /\ FirstFrame' /\ Running'
    BY <1>1, <2>1, Values DEF IInv, Slots, FirstFrame, Running
  <2>7. QED BY <2>4, <2>5, <2>6 DEF IInv
<1>5. QED BY <1>3, <1>4

LEMMA RelinkStep == ASSUME IInv, Relink PROVE IInv'
<1>1. /\ cpu = Kmain /\ pc = "relink" /\ pc' = "create" /\ made \in Procs /\ made \in Nat
      /\ Linked = 1 .. made - 1 /\ Linked' = 1 .. made /\ TypeOK
      /\ next' = [next EXCEPT ![current] = made]
      /\ UNCHANGED <<rsp, state, current, made, cpu, reg, early>>
  BY Values DEF Relink, At, IInv, Progress, Linked
<1>2. current = 1 /\ current \in Procs
  BY <1>1, Values DEF IInv, Progress, Slots, Halted
<1>3. Linked' = Linked \cup {made} /\ 1 \in Linked' /\ made \notin Linked /\ Linked' \subseteq Procs
  BY <1>1, Values DEF Procs
<1>4. TypeOK'
  BY <1>1, <1>2 DEF TypeOK
<1>5. Progress'
  BY <1>1, <1>2, <1>3, Values DEF IInv, Progress
<1>6. Closed'
  <2>1. \A p \in Linked' : next'[p] \in Linked'
    <3>1. CASE made = 1
      BY <1>1, <1>2, <1>3, <3>1 DEF TypeOK
    <3>2. CASE made # 1
      BY <1>1, <1>2, <1>3, <3>2, Values DEF IInv, Closed, TypeOK, Procs
    <3>3. QED BY <3>1, <3>2
  <2>2. QED BY <1>1, <2>1 DEF Closed
<1>7. Slots' /\ FirstFrame' /\ Running'
  BY <1>1, <1>2, <1>3, Values DEF IInv, Slots, FirstFrame, Running, Halted
<1>8. QED BY <1>4, <1>5, <1>6, <1>7 DEF IInv

LEMMA StartStep == ASSUME IInv, StartRunning PROVE IInv'
<1>1. /\ cpu = Kmain /\ pc = "create" /\ pc' = "load" /\ made = N /\ TypeOK
      /\ Linked' = Linked /\ Linked = 1 .. N
      /\ state' = [state EXCEPT ![current] = "RUNNING"]
      /\ UNCHANGED <<next, rsp, current, made, cpu, reg, early>>
  BY DEF StartRunning, At, IInv, Linked
<1>2. current = 1 /\ current \in Procs
  BY <1>1, Values DEF IInv, Progress, Slots, Halted
<1>3. TypeOK'
  BY <1>1, <1>2 DEF TypeOK
<1>4. Progress' /\ Closed' /\ Slots' /\ FirstFrame'
  BY <1>1, <1>2, Values DEF IInv, Progress, Closed, Slots, FirstFrame
<1>5. Running'
  BY <1>1, <1>2 DEF IInv, Running, TypeOK
<1>6. QED BY <1>3, <1>4, <1>5 DEF IInv

LEMMA LoadStep == ASSUME IInv, LoadRsp PROVE IInv'
<1>1. /\ cpu = Kmain /\ pc = "load" /\ pc' = "jump" /\ made = N /\ TypeOK
      /\ Linked' = Linked /\ reg' = rsp[current]
      /\ UNCHANGED <<next, rsp, state, current, made, cpu, early>>
  BY DEF LoadRsp, At, IInv, Progress, Linked
<1>2. current = 1 /\ current \in Procs
  BY <1>1, Values DEF IInv, Progress, Slots, Halted
<1>3. rsp[1] \in {1, Stale} /\ (~early => rsp[1] = 1)
  BY <1>1, Values DEF IInv, FirstFrame
<1>4. TypeOK'
  BY <1>1, <1>2 DEF TypeOK
<1>5. Progress' /\ Closed' /\ Slots' /\ Running'
  BY <1>1, <1>2, Values DEF IInv, Progress, Closed, Slots, Running
<1>6. FirstFrame'
  BY <1>1, <1>2, <1>3 DEF IInv, FirstFrame
<1>7. QED BY <1>4, <1>5, <1>6 DEF IInv

LEMMA JumpStep == ASSUME IInv, Jump PROVE IInv'
<1>1. /\ cpu = Kmain /\ pc = "jump" /\ pc' = "left" /\ made = N /\ TypeOK
      /\ Linked' = Linked /\ Linked = Procs
      /\ cpu' = Resumed(reg)
      /\ rsp' = [p \in Procs |-> IF rsp[p] = reg THEN Stale ELSE rsp[p]]
      /\ UNCHANGED <<next, state, current, made, reg, early>>
  BY DEF Jump, At, IInv, Progress, Linked, Procs
<1>2. current = 1 /\ current \in Procs
  BY <1>1, Values DEF IInv, Progress, Slots, Halted
<1>3. reg \in {1, Stale} /\ (~early => reg = 1)
  BY <1>1 DEF IInv, FirstFrame
<1>4. cpu' = (IF reg = 1 THEN 1 ELSE Wild) /\ cpu' # Kmain /\ cpu' # Halted
  BY <1>1, <1>3, Values DEF Resumed
<1>5. \A p \in Procs \ {1} : rsp'[p] = p
  BY <1>1, <1>2, <1>3, Values DEF IInv, Slots
<1>6. TypeOK'
  BY <1>1, <1>2, <1>4, Values DEF TypeOK
<1>7. Progress' /\ Closed' /\ Running'
  BY <1>1, <1>2, <1>4, Values DEF IInv, Progress, Closed, Running
<1>8. Slots' /\ FirstFrame'
  BY <1>1, <1>2, <1>3, <1>4, <1>5, Values DEF Slots, FirstFrame
<1>9. QED BY <1>6, <1>7, <1>8 DEF IInv

LEMMA SwitchStep == ASSUME IInv, Switch PROVE IInv'
<1> DEFINE new == next[current]
           saved == [rsp EXCEPT ![current] = cpu]
<1>1. /\ cpu \in Threads /\ current # NULL /\ pc # "boot" /\ new # NULL
      /\ TypeOK /\ Linked' = Linked
      /\ cpu' = Resumed(saved[new]) /\ rsp' = [saved EXCEPT ![new] = Stale]
      /\ state' = [state EXCEPT ![current] = "READY", ![new] = "RUNNING"]
      /\ current' = new /\ early' = (early \/ pc # "left")
      /\ UNCHANGED <<next, made, pc, reg>>
  BY DEF Switch, InterruptsOn, IInv, Linked
<1>2. current \in Linked /\ current \in Procs /\ new \in Linked /\ new \in Procs
      /\ Linked \subseteq Procs /\ made > 0 /\ made \in Nat
      /\ (pc \in {"link", "relink"} => made \notin Linked /\ made \in Procs)
  <2>1. cpu # Halted
    BY <1>1, Values
  <2>2. current \in Linked
    BY <1>1, <2>1, Values DEF IInv, Progress, Closed
  <2>3. Linked \subseteq Procs /\ made \in Nat
    BY LinkedFacts DEF IInv
  <2>4. new \in Linked
    BY <2>2 DEF IInv, Closed
  <2>5. pc \in {"link", "relink"} => made \notin Linked /\ made \in Procs
    <3>1. pc \in {"link", "relink"} => made \in Procs
      BY DEF IInv, Progress
    <3>2. QED BY <3>1, LinkedFacts DEF IInv
  <2>6. made > 0
    BY <1>1, <2>1, <2>3 DEF IInv, Progress
  <2>7. QED BY <2>2, <2>3, <2>4, <2>5, <2>6
<1>3. /\ saved \in [Procs -> Threads \cup {Stale}] /\ saved[current] = cpu
      /\ \A p \in Procs \ {current} : saved[p] = rsp[p]
  BY <1>1, <1>2 DEF TypeOK
<1>4. /\ rsp' \in [Procs -> Threads \cup {Stale}]
      /\ \A p \in Procs \ {new} : rsp'[p] = saved[p]
      /\ rsp'[new] = Stale
  BY <1>1, <1>2, <1>3
<1> HIDE DEF saved, new
\* What executes next: nothing wild, as the waiting processes' frames are good.
<1>5. CASE pc # "left"
  <2>1. IF cpu = Kmain THEN current = 1 ELSE current = cpu /\ current # 1
    BY <1>1, <1>2, <1>5 DEF IInv, Slots
  <2>2. \A p \in Linked \ {current} : rsp[p] = IF p = 1 THEN Kmain ELSE p
    BY <1>1, <1>5 DEF IInv, Slots
  <2>3. saved[new] = IF new = 1 THEN Kmain ELSE new
    BY <1>2, <1>3, <2>1, <2>2, Values
  <2>4. cpu' = (IF new = 1 THEN Kmain ELSE new) /\ cpu' \in Threads
    BY <1>1, <1>2, <2>3, Values DEF Resumed
  <2>5. \A p \in Linked \ {new} : rsp'[p] = IF p = 1 THEN Kmain ELSE p
    BY <1>2, <1>3, <1>4, <2>1, <2>2, Values
  <2>6. TypeOK'
    BY <1>1, <1>2, <1>4, <2>4 DEF TypeOK
  <2>7. Progress' /\ Closed'
    BY <1>1, <1>2, <2>4, Values DEF IInv, Progress, Closed
  <2>8. Slots'
    <3>1. pc \in {"link", "relink"} => rsp'[made] = made
      BY <1>1, <1>2, <1>3, <1>4, Values DEF IInv, Slots
    <3>2. QED BY <1>1, <1>2, <1>5, <2>4, <2>5, <3>1, Values DEF Slots
  <2>9. FirstFrame'
    <3>1. cpu' = Kmain => new = 1
      BY <1>2, <2>4, Values
    <3>2. QED BY <1>1, <1>4, <1>5, <3>1 DEF IInv, FirstFrame
  <2>10. Running'
    BY <1>1, <1>2, <1>5 DEF IInv, Running, TypeOK
  <2>11. QED BY <2>6, <2>7, <2>8, <2>9, <2>10 DEF IInv
<1>6. CASE pc = "left"
  <2>1. current = cpu /\ \A p \in Procs \ {current} : rsp[p] = p
    BY <1>1, <1>6 DEF IInv, Slots
  <2>2. saved[new] = new
    BY <1>2, <1>3, <2>1
  <2>3. cpu' = new /\ cpu' \in Threads /\ cpu' # Kmain
    BY <1>1, <1>2, <2>2, Values DEF Resumed
  <2>4. \A p \in Procs \ {new} : rsp'[p] = p
    BY <1>2, <1>3, <1>4, <2>1
  <2>5. TypeOK'
    BY <1>1, <1>2, <1>4, <2>3 DEF TypeOK
  <2>6. Progress' /\ Closed'
    BY <1>1, <1>2, <1>6, <2>3, Values DEF IInv, Progress, Closed
  <2>7. Slots' /\ FirstFrame'
    BY <1>1, <1>2, <1>6, <2>3, <2>4, Values DEF IInv, Slots, FirstFrame
  <2>8. Running'
    BY <1>1, <1>2, <1>6 DEF IInv, Running, TypeOK
  <2>9. QED BY <2>5, <2>6, <2>7, <2>8 DEF IInv
<1>7. QED BY <1>5, <1>6

LEMMA FaultStep == ASSUME IInv, SwitchFaults PROVE IInv'
<1>1. /\ cpu \in Threads /\ current # NULL /\ next[current] = NULL /\ TypeOK
      /\ Linked' = Linked /\ current \in Procs
      /\ rsp' = [rsp EXCEPT ![current] = cpu]
      /\ state' = [state EXCEPT ![current] = "READY"]
      /\ current' = NULL /\ cpu' = Halted /\ early' = TRUE
      /\ UNCHANGED <<next, made, pc, reg>>
  BY DEF SwitchFaults, InterruptsOn, IInv, Linked, TypeOK
<1>2. current = 1 /\ made = 1 /\ pc = "relink"
  <2>1. Linked \subseteq Procs
    BY LinkedFacts DEF IInv
  <2>2. current \notin Linked
    BY <1>1, <2>1, Values DEF IInv, Closed
  <2>3. QED BY <1>1, <2>2 DEF IInv, Progress
<1>3. TypeOK'
  BY <1>1 DEF TypeOK
<1>4. Progress' /\ Closed'
  BY <1>1, <1>2, Values DEF IInv, Progress, Closed
<1>5. Slots' /\ FirstFrame' /\ Running'
  BY <1>1, <1>2, Values DEF IInv, Slots, FirstFrame, Running, TypeOK, Halted, Wild, Kmain
<1>6. QED BY <1>3, <1>4, <1>5 DEF IInv

LEMMA CrashStep == ASSUME IInv, Crash PROVE IInv'
<1>1. /\ cpu' = Faulted /\ cpu \in Threads /\ Linked' = Linked
      /\ UNCHANGED <<next, rsp, state, current, made, pc, reg, early>>
  BY DEF Crash, Linked
<1>2. TypeOK'
  BY <1>1 DEF IInv, TypeOK
<1>3. Progress' /\ Closed' /\ Slots' /\ FirstFrame' /\ Running'
  BY <1>1, Values DEF IInv, Progress, Closed, Slots, FirstFrame, Running
<1>4. QED BY <1>2, <1>3 DEF IInv

LEMMA NextIInv == IInv /\ [Next]_vars => IInv'
<1>1. ASSUME IInv, UNCHANGED vars PROVE IInv'
  BY <1>1 DEF vars, IInv, TypeOK, Progress, Closed, Slots, FirstFrame, Running, Linked
<1>2. QED
  BY <1>1, StiStep, FillStep, LinkStep, RelinkStep, StartStep, LoadStep, JumpStep,
     SwitchStep, FaultStep, CrashStep DEF Next, KmainStep, TickIdle, Stopped
-----------------------------------------------------------------------------
(* The properties of the runs *)

\* The inductive invariant of the scheduler holds in every reachable state.
THEOREM IInvHolds == Spec => []IInv
BY InitIInv, NextIInv, PTL DEF Spec

\* The variables keep their types.
THEOREM TypeCorrect == Spec => []TypeOK
<1>1. IInv => TypeOK
  BY DEF IInv
<1>2. QED BY <1>1, IInvHolds, PTL

\* At most one process is RUNNING, the current one, and after the jump it is.
LEMMA OneRuns == IInv => OneRunning
BY DEF IInv, Running, OneRunning

\* No switch loses or duplicates a context, also when it comes before the jump.
LEMMA ContextsGood == IInv => WaitingContextsGood
<1>1. ASSUME IInv, cpu \in Threads, NEW p \in Linked \ {current}, NEW q \in Linked \ {current}
      PROVE  rsp[p] # Stale /\ rsp[p] # cpu /\ (p # q => rsp[p] # rsp[q])
  <2>1. p \in Procs /\ q \in Procs /\ Linked \subseteq Procs
    BY <1>1, LinkedFacts DEF IInv
  <2>2. CASE pc # "left"
    <3>1. /\ IF cpu = Kmain THEN current \in {NULL, 1} ELSE current = cpu /\ current # 1
          /\ rsp[p] = IF p = 1 THEN Kmain ELSE p
          /\ rsp[q] = IF q = 1 THEN Kmain ELSE q
      BY <1>1, <2>2 DEF IInv, Slots
    <3>2. cpu = Kmain => current = 1
      <4>1. current = NULL => Linked = {}
        BY <1>1, Values DEF IInv, Progress, Linked
      <4>2. QED BY <1>1, <3>1, <4>1
    <3>3. QED BY <1>1, <2>1, <3>1, <3>2, Values
  <2>3. CASE pc = "left"
    <3>1. current = cpu /\ rsp[p] = p /\ rsp[q] = q
      BY <1>1, <2>1, <2>3 DEF IInv, Slots
    <3>2. QED BY <1>1, <2>1, <3>1, Values
  <2>4. QED BY <2>2, <2>3
<1>2. QED BY <1>1 DEF WaitingContextsGood

\* kmain() executes in the first process's place.
LEMMA InFirstPlace == IInv => KmainActsAsFirst
BY Values DEF IInv, TypeOK, Progress, Slots, KmainActsAsFirst

\* Wherever a tick falls, it makes the current process the only one that is RUNNING,
\* loses no context, and finds kmain() in the first process's place.
THEOREM SwitchIsSafe == Spec => []SwitchSafe
<1>1. IInv => SwitchSafe
  BY OneRuns, ContextsGood, InFirstPlace DEF SwitchSafe
<1>2. QED BY <1>1, IInvHolds, PTL

\* Without an early tick every process executes or waits in its own frame.
THEOREM FramesOwn == Spec => []OwnContexts
<1>1. IInv => OwnContexts
  <2> SUFFICES ASSUME IInv, ~early, pc = "left", cpu # Faulted
               PROVE  cpu = current /\ \A p \in Procs \ {current} : rsp[p] = p
    BY DEF OwnContexts
  <2>1. cpu # Wild
    BY DEF IInv, FirstFrame
  <2>2. cpu # Halted
    BY DEF IInv, Progress
  <2>3. QED BY <2>1, <2>2, Values DEF IInv, TypeOK, Slots
<1>2. QED BY <1>1, IInvHolds, PTL

-----------------------------------------------------------------------------
(* The ring, spelled out: create_process() always inserts behind the first  *)
(* process, so that the ring leads from the first to the newest linked one  *)
(* and from there down, one by one, to the first again.                     *)

LinkedCount == IF pc \in {"link", "relink"} THEN made - 1 ELSE made

\* Where the links of the linked processes, and of the one being inserted, lead.
RingOrder ==
  /\ \A p \in Linked : next[p] = IF p = 1 THEN LinkedCount ELSE p - 1
  /\ pc = "relink" /\ made > 1 => next[made] = made - 1

\* The process k steps after process p in a ring of n.
Steps(n, p, k) == IF k < p THEN p - k ELSE n + p - k

\* Every set of natural numbers that has an element has a least one.
LEMMA LeastElement ==
  ASSUME NEW S \in SUBSET Nat, S # {}
  PROVE  \E m \in S : \A n \in S : m <= n
<1>1. PICK m \in S : \A n \in S : <<n, m>> \notin OpToRel(<, Nat)
  BY WFMin, NatLessThanWellFounded, Zenon
<1>2. m \in Nat /\ \A n \in S : n \in Nat /\ ~(n < m)
  BY <1>1, Zenon DEF OpToRel
<1>3. \A n \in S : m <= n
  BY <1>2
<1>4. QED BY <1>3

LEMMA InitRing == Init => RingOrder
BY DEF Init, RingOrder, Linked

LEMMA RingStep == ASSUME IInv, RingOrder, [Next]_vars PROVE RingOrder'
<1>1. /\ Linked = 1 .. LinkedCount /\ Linked \subseteq Procs
      /\ made \in Nat /\ made <= N
      /\ pc \in {"link", "relink"} => made \in Procs
      /\ next \in [Procs -> Procs \cup {NULL}]
  BY LinkedFacts DEF IInv, TypeOK, Linked, LinkedCount, Progress
<1>2. CASE UNCHANGED <<next, made, pc>>
  BY <1>2 DEF RingOrder, Linked, LinkedCount
<1>3. CASE Sti
  BY <1>3 DEF Sti, At, RingOrder, Linked, LinkedCount, IInv, Progress
<1>4. CASE Fill
  <2>1. /\ pc = "create" /\ made' = made + 1 /\ pc' = "link"
        /\ next' = [next EXCEPT ![made + 1] = NULL]
    BY <1>4 DEF Fill, At
  <2>2. Linked' = Linked /\ LinkedCount' = LinkedCount /\ made + 1 \notin Linked
    BY <1>1, <2>1 DEF Linked, LinkedCount
  <2>3. QED BY <1>1, <2>1, <2>2 DEF RingOrder
<1>5. CASE Link
  <2>1. /\ pc = "link" /\ pc' = "relink" /\ cpu = Kmain /\ UNCHANGED made
        /\ Linked' = Linked /\ LinkedCount' = LinkedCount
    BY <1>5 DEF Link, At, Linked, LinkedCount
  <2>2. made \notin Linked /\ made \in Procs
    BY <1>1, <2>1 DEF Linked
  <2>3. CASE current = NULL
    <3>1. made = 1 /\ next' = next
      BY <1>5, <2>1, <2>2, <2>3, Values DEF Link, IInv, Progress
    <3>2. QED BY <2>1, <3>1 DEF RingOrder
  <2>4. CASE current # NULL
    <3>1. current = 1 /\ next' = [next EXCEPT ![made] = next[1]]
      BY <1>5, <2>1, <2>4, Values DEF Link, IInv, Slots
    <3>2. made > 1 => 1 \in Linked /\ LinkedCount = made - 1
      BY <1>1, <2>1 DEF Linked, LinkedCount
    <3>3. QED BY <1>1, <2>1, <2>2, <3>1, <3>2 DEF RingOrder
  <2>5. QED BY <2>3, <2>4
<1>6. CASE Relink
  <2>1. /\ pc = "relink" /\ pc' = "create" /\ cpu = Kmain /\ UNCHANGED made
        /\ made \in Procs /\ current = 1
        /\ next' = [next EXCEPT ![1] = made]
    BY <1>1, <1>6, Values DEF Relink, At, IInv, Slots, Progress, Halted
  <2>2. Linked = 1 .. made - 1 /\ Linked' = 1 .. made /\ LinkedCount' = made
    BY <2>1 DEF Linked, LinkedCount
  <2>3. \A p \in Linked' : next'[p] = IF p = 1 THEN made ELSE p - 1
    <3>1. /\ \A p \in 1 .. made - 1 : next[p] = IF p = 1 THEN made - 1 ELSE p - 1
          /\ made > 1 => next[made] = made - 1
      BY <2>1, <2>2 DEF RingOrder, LinkedCount
    <3>2. 1 \in Procs /\ 1 .. made \subseteq Procs /\ made \in Nat /\ made >= 1
      BY <2>1, NAssumption DEF Procs
    <3>3. \A p \in 1 .. made : next'[p] = IF p = 1 THEN made ELSE next[p]
      BY <1>1, <2>1, <3>2
    <3>4. \A p \in 1 .. made : p # 1 => p \in 1 .. made - 1 \/ (p = made /\ made > 1)
      BY <3>2
    <3>5. QED BY <2>2, <3>1, <3>2, <3>3, <3>4
  <2>4. QED BY <2>1, <2>2, <2>3 DEF RingOrder
<1>7. CASE StartRunning
  BY <1>7 DEF StartRunning, At, RingOrder, Linked, LinkedCount
<1>8. CASE LoadRsp
  BY <1>8 DEF LoadRsp, At, RingOrder, Linked, LinkedCount
<1>9. CASE Jump
  BY <1>9 DEF Jump, At, RingOrder, Linked, LinkedCount
<1>10. QED
  BY <1>2, <1>3, <1>4, <1>5, <1>6, <1>7, <1>8, <1>9
  DEF Next, KmainStep, TickIdle, Switch, SwitchFaults, Crash, Stopped, vars

\* A walk that begins at p and follows the links is the one After() takes: its
\* recursion has a solution, and only one.
LEMMA AfterWalks ==
  ASSUME NEW p, NEW k \in Nat, NEW W,
         W = [j \in 0 .. k |-> IF j = 0 THEN p
                               ELSE IF W[j - 1] = NULL THEN NULL ELSE next[W[j - 1]]]
  PROVE  After(p, k) = W[k]
<1> DEFINE F(a) == [j \in 0 .. k |-> IF j = 0 THEN p
                                     ELSE IF a[j - 1] = NULL THEN NULL ELSE next[a[j - 1]]]
<1>1. ASSUME NEW a, a = F(a) PROVE a[k] = W[k]
  <2> DEFINE Wrong == {j \in 0 .. k : a[j] # W[j]}
  <2>1. ASSUME Wrong # {} PROVE FALSE
    <3>1. Wrong \in SUBSET Nat
      OBVIOUS
    <3>2. PICK j \in Wrong : \A m \in Wrong : j <= m
      BY <2>1, <3>1, LeastElement
    <3>3. a[j] = F(a)[j] /\ W[j] = F(W)[j]
      BY <1>1
    <3>4. j \in 0 .. k /\ a[j] # W[j]
      BY <3>2
    <3>5. j # 0
      BY <3>3, <3>4
    <3>6. a[j - 1] = W[j - 1]
      BY <3>2, <3>4, <3>5
    <3>7. QED BY <3>3, <3>4, <3>6
  <2>2. k \in 0 .. k
    OBVIOUS
  <2>3. QED BY <2>1, <2>2
<1>2. W = F(W)
  OBVIOUS
<1> HIDE DEF F
<1>3. (CHOOSE a : a = F(a)) = F(CHOOSE a : a = F(a))
  BY <1>2
<1>4. (CHOOSE a : a = F(a))[k] = W[k]
  BY <1>1, <1>3
<1>5. QED BY <1>4 DEF After, F

\* What the ring is made of.
LEMMA RingFacts ==
  ASSUME IInv
  PROVE  /\ made \in Nat /\ made <= N /\ LinkedCount \in Int /\ LinkedCount <= N
         /\ Linked = 1 .. LinkedCount /\ Linked \subseteq Procs
         /\ Linked # {} => LinkedCount \in Procs
BY LinkedFacts, NAssumption DEF IInv, Linked, LinkedCount, Procs

\* The k-th process after p in the ring.
LEMMA AfterSteps ==
  ASSUME IInv, RingOrder, NEW p \in Linked, NEW k \in 0 .. LinkedCount
  PROVE  After(p, k) = Steps(LinkedCount, p, k)
<1> DEFINE n == LinkedCount
           W == [j \in 0 .. k |-> Steps(n, p, j)]
<1>1. n \in Nat /\ p \in 1 .. n /\ Linked = 1 .. n /\ k \in Nat /\ k <= n
  BY RingFacts
<1>2. \A j \in 0 .. n : Steps(n, p, j) \in 1 .. n
  BY <1>1 DEF Steps
<1>3. \A j \in 1 .. k : next[Steps(n, p, j - 1)] = Steps(n, p, j)
  <2> SUFFICES ASSUME NEW j \in 1 .. k PROVE next[Steps(n, p, j - 1)] = Steps(n, p, j)
    OBVIOUS
  <2>1. Steps(n, p, j - 1) \in Linked
    BY <1>1, <1>2
  <2>2. next[Steps(n, p, j - 1)] =
          IF Steps(n, p, j - 1) = 1 THEN n ELSE Steps(n, p, j - 1) - 1
    BY <2>1 DEF RingOrder
  <2>3. QED BY <1>1, <2>2 DEF Steps
<1> HIDE DEF n
<1>4. ASSUME NEW j \in 0 .. k
      PROVE  W[j] = IF j = 0 THEN p ELSE IF W[j - 1] = NULL THEN NULL ELSE next[W[j - 1]]
  <2>1. CASE j = 0
    BY <1>1, <2>1 DEF Steps
  <2>2. CASE j # 0
    <3>1. j - 1 \in 0 .. k /\ j - 1 \in 0 .. n /\ j \in 1 .. k
      BY <1>1, <2>2
    <3>2. W[j - 1] = Steps(n, p, j - 1) /\ W[j] = Steps(n, p, j)
      BY <3>1
    <3>3. Steps(n, p, j - 1) # NULL
      BY <1>1, <1>2, <3>1 DEF NULL
    <3>4. QED BY <1>3, <2>2, <3>1, <3>2, <3>3
  <2>3. QED BY <2>1, <2>2
<1>5. W = [j \in 0 .. k |-> IF j = 0 THEN p
                            ELSE IF W[j - 1] = NULL THEN NULL ELSE next[W[j - 1]]]
  <2>1. W = [j \in 0 .. k |-> W[j]]
    OBVIOUS
  <2> HIDE DEF W
  <2>2. QED BY <1>4, <2>1
<1>6. W[k] = Steps(n, p, k)
  BY <1>1
<1> HIDE DEF W
<1>7. QED BY <1>1, <1>5, <1>6, AfterWalks DEF n

\* From each linked process the ticks lead through all of them.
LEMMA RingIsOne == ASSUME IInv, RingOrder PROVE OneRing
<1> DEFINE n == LinkedCount
<1>1. made \in Nat /\ Linked = 1 .. n /\ n \in Int
  BY RingFacts
<1>2. ASSUME NEW p \in Linked
      PROVE  {After(p, k) : k \in 1 .. Cardinality(Linked)} = Linked
  <2>1. n \in Nat /\ p \in 1 .. n /\ Cardinality(Linked) = n
    BY <1>1, <1>2, FS_Interval
  <2>2. \A k \in 1 .. n : After(p, k) = Steps(n, p, k)
    BY <1>1, <1>2, AfterSteps
  <2>3. \A k \in 1 .. n : Steps(n, p, k) \in 1 .. n
    BY <2>1 DEF Steps
  <2>4. \A q \in 1 .. n : \E k \in 1 .. n : Steps(n, p, k) = q
    <3> SUFFICES ASSUME NEW q \in 1 .. n PROVE \E k \in 1 .. n : Steps(n, p, k) = q
      OBVIOUS
    <3> DEFINE k == IF q < p THEN p - q ELSE n + p - q
    <3>1. k \in 1 .. n /\ Steps(n, p, k) = q
      BY <2>1 DEF Steps
    <3>2. QED BY <3>1
  <2> HIDE DEF n
  <2>5. {After(p, k) : k \in 1 .. n} = 1 .. n
    BY <2>2, <2>3, <2>4
  <2>6. QED BY <1>1, <2>1, <2>5
<1>3. QED BY <1>2 DEF OneRing

\* The order of turns, spelled out.
TurnList ==
  IF current = NULL THEN <<>>
  ELSE IF LinkedCount = 0 THEN <<current>>
  ELSE [k \in 1 .. LinkedCount |-> Steps(LinkedCount, current, k - 1)]

\* The first return to the current process is after as many steps as there are
\* processes in the ring; a process that is not linked to itself yet is alone.
LEMMA TurnsSpelledOut == IInv /\ RingOrder /\ cpu # Halted => Turns = TurnList
<1> SUFFICES ASSUME IInv, RingOrder, cpu # Halted, current # NULL PROVE Turns = TurnList
  BY DEF Turns, TurnList
<1> DEFINE n == LinkedCount
           P(k) == /\ After(current, k) \in {current, NULL}
                   /\ \A j \in 1 .. k - 1 : After(current, j) \notin {current, NULL}
           len == CHOOSE k \in Procs : P(k)
<1>1. made \in Nat /\ Linked = 1 .. n /\ n \in Int /\ n <= N /\ Linked \subseteq Procs
  BY RingFacts
<1>2. Turns = [k \in 1 .. len |-> After(current, k - 1)]
  BY DEF Turns
<1>3. CASE current \in Linked
  <2>1. n \in Nat /\ n > 0 /\ current \in 1 .. n /\ n \in Procs
    BY <1>1, <1>3 DEF Procs
  <2>2. \A k \in 0 .. n : After(current, k) = Steps(n, current, k)
    BY <1>3, AfterSteps
  <2>3. \A k \in 1 .. n : Steps(n, current, k) \in 1 .. n /\ (Steps(n, current, k) = current <=> k = n)
    BY <2>1 DEF Steps
  <2> HIDE DEF n
  <2>4. P(n)
    BY <2>1, <2>2, <2>3, Values
  <2>5. ASSUME NEW k \in Procs, P(k) PROVE k = n
    <3>1. k >= n
      BY <1>1, <2>1, <2>2, <2>3, <2>5, Values DEF Procs
    <3>2. k <= n
      BY <1>1, <2>1, <2>4, <2>5, NAssumption DEF Procs
    <3>3. QED BY <2>1, <2>5, <3>1, <3>2, Values
  <2> HIDE DEF P
  <2>6. len = n
    BY <2>1, <2>4, <2>5
  <2> HIDE DEF len
  <2>7. Turns = [k \in 1 .. n |-> Steps(n, current, k - 1)]
    BY <1>2, <2>1, <2>2, <2>6
  <2>8. QED BY <2>1, <2>7, Values DEF TurnList, n
<1>4. CASE current \notin Linked
  <2>1. current = 1 /\ made = 1 /\ pc = "relink" /\ n = 0 /\ next[1] = NULL
    BY <1>4 DEF IInv, Progress, Closed, LinkedCount
  <2>2. After(current, 0) = 1 /\ After(current, 1) = NULL
    <3> DEFINE W(k) == [j \in 0 .. k |-> IF j = 0 THEN 1 ELSE NULL]
    <3>1. ASSUME NEW k \in {0, 1} PROVE After(1, k) = W(k)[k]
      <4>1. W(k) = [j \in 0 .. k |-> IF j = 0 THEN 1
                                     ELSE IF W(k)[j - 1] = NULL THEN NULL ELSE next[W(k)[j - 1]]]
        BY <2>1, Values
      <4> HIDE DEF W
      <4>2. QED BY <4>1, AfterWalks
    <3>2. W(0)[0] = 1 /\ W(1)[1] = NULL
      OBVIOUS
    <3> HIDE DEF W
    <3>3. QED BY <2>1, <3>1, <3>2
  <2>3. P(1) /\ 1 \in Procs
    BY <2>2, Values
  <2>4. ASSUME NEW k \in Procs, P(k) PROVE k = 1
    <3>1. k > 1 => 1 \in 1 .. k - 1
      BY NAssumption DEF Procs
    <3>2. ~(k > 1)
      BY <2>2, <2>4, <3>1
    <3>3. QED BY <3>2, NAssumption DEF Procs
  <2> HIDE DEF P
  <2>5. len = 1
    BY <2>3, <2>4
  <2> HIDE DEF len
  <2>6. Turns = <<1>>
    BY <1>2, <2>2, <2>5
  <2>7. QED BY <2>1, <2>6, Values DEF TurnList
<1>5. QED BY <1>3, <1>4

\* The length and the elements of the order of turns.
LEMMA TurnListFacts ==
  ASSUME IInv, current # NULL, cpu # Halted
  PROVE  /\ TurnList \in Seq(Int)
         /\ Len(TurnList) = IF LinkedCount = 0 THEN 1 ELSE LinkedCount
         /\ LinkedCount \in Nat /\ current \in Procs
         /\ \A k \in 1 .. Len(TurnList) :
              TurnList[k] = IF LinkedCount = 0 THEN current ELSE Steps(LinkedCount, current, k - 1)
<1>1. current \in Procs /\ current \in Nat /\ LinkedCount \in Int
  BY RingFacts, Values DEF IInv, TypeOK
<1>2. LinkedCount \in Nat
  BY <1>1, RingFacts DEF IInv, Progress, LinkedCount
<1>3. \A k \in Nat : Steps(LinkedCount, current, k - 1) \in Int
  BY <1>1 DEF Steps
<1>4. CASE LinkedCount = 0
  <2>1. TurnList = <<current>>
    BY <1>4 DEF TurnList
  <2>2. QED BY <1>1, <1>4, <2>1
<1>5. CASE LinkedCount # 0
  <2> DEFINE n == LinkedCount
  <2>1. TurnList = [k \in 1 .. n |-> Steps(n, current, k - 1)]
    BY <1>5 DEF TurnList
  <2> HIDE DEF n
  <2>2. n \in Nat /\ \A k \in 1 .. n : Steps(n, current, k - 1) \in Int
    BY <1>2, <1>3 DEF n
  <2>3. TurnList \in Seq(Int) /\ Len(TurnList) = n
    BY <2>1, <2>2
  <2>4. QED BY <1>1, <1>2, <1>5, <2>1, <2>3 DEF n
<1>6. QED BY <1>4, <1>5

\* A tick moves the first of the turns to their end.
LEMMA SwitchRotates ==
  ASSUME IInv, RingOrder, IInv', Switch, cpu' # Halted
  PROVE  TurnList' = Append(Tail(TurnList), Head(TurnList)) /\ TurnList # <<>>
<1> DEFINE n == LinkedCount
           T == TurnList
<1>1. /\ current # NULL /\ cpu \in Threads /\ cpu # Halted /\ next[current] # NULL
      /\ current' = next[current] /\ LinkedCount' = n
  BY Values DEF Switch, InterruptsOn, LinkedCount
<1>2. current \in 1 .. n /\ n \in Nat /\ n > 0
  <2>1. current \in Linked
    BY <1>1 DEF IInv, Progress, Closed
  <2>2. QED BY <2>1, RingFacts
<1>3. next[current] = Steps(n, current, 1) /\ Steps(n, current, 1) \in 1 .. n
  <2>1. next[current] = IF current = 1 THEN n ELSE current - 1
    BY <1>2, RingFacts DEF RingOrder
  <2>2. QED BY <1>2, <2>1 DEF Steps
<1>4. T \in Seq(Int) /\ Len(T) = n /\ \A k \in 1 .. n : T[k] = Steps(n, current, k - 1)
  <2>1. /\ T \in Seq(Int) /\ Len(T) = IF n = 0 THEN 1 ELSE n
        /\ \A k \in 1 .. Len(T) : T[k] = IF n = 0 THEN current ELSE Steps(n, current, k - 1)
    BY <1>1, TurnListFacts
  <2> HIDE DEF T, n
  <2>2. n # 0
    BY <1>2
  <2>3. QED BY <2>1, <2>2
<1>5. TurnList' = [k \in 1 .. n |-> Steps(n, next[current], k - 1)]
  BY <1>1, <1>2 DEF TurnList
<1>6. \A k \in 1 .. n : Steps(n, next[current], k - 1) = IF k < n THEN T[k + 1] ELSE T[1]
  BY <1>2, <1>3, <1>4 DEF Steps
<1> HIDE DEF T, n
<1>7. Append(Tail(T), Head(T)) = [k \in 1 .. n |-> IF k < n THEN T[k + 1] ELSE T[1]]
  <2>1. n - 1 \in Nat /\ n \in 1 .. n /\ 1 \in 1 .. n /\ T # <<>>
    BY <1>2, <1>4
  <2>2. Head(T) = T[1] /\ Tail(T) \in Seq(Int) /\ Len(Tail(T)) = n - 1
    BY <1>4, <2>1
  <2>3. \A k \in 1 .. n - 1 : Tail(T)[k] = T[k + 1]
    BY <1>4, <2>1
  <2>4. \A k \in 1 .. n : T[k] \in Int
    BY <1>4
  <2> DEFINE A == Append(Tail(T), Head(T))
  <2>5. A \in Seq(Int) /\ Len(A) = n
    BY <1>2, <2>1, <2>2, <2>4
  <2>6. \A k \in 1 .. n : A[k] = IF k < n THEN T[k + 1] ELSE T[1]
    BY <1>2, <2>1, <2>2, <2>3, <2>4
  <2> HIDE DEF A
  <2>7. A = [k \in 1 .. n |-> A[k]]
    BY <2>5
  <2>8. A = [k \in 1 .. n |-> IF k < n THEN T[k + 1] ELSE T[1]]
    BY <2>6, <2>7
  <2>9. QED BY <2>8 DEF A
<1>8. T # <<>>
  BY <1>2, <1>4
<1>9. QED BY <1>5, <1>6, <1>7, <1>8 DEF T

\* The second write of an insertion puts the new process behind the one whose turn it
\* is; the first process is linked to itself, which changes nothing.
LEMMA RelinkAdds ==
  ASSUME IInv, RingOrder, IInv', Relink
  PROVE  \/ TurnList' = TurnList
         \/ TurnList # <<>> /\ TurnList' = <<Head(TurnList), made>> \o Tail(TurnList)
<1> DEFINE n == LinkedCount
           T == TurnList
<1>1. /\ pc = "relink" /\ pc' = "create" /\ cpu = Kmain /\ UNCHANGED <<made, current>>
      /\ made \in Procs /\ current = 1
  BY Values DEF Relink, At, IInv, Slots, Progress, Halted
<1>2. n = made - 1 /\ LinkedCount' = made /\ made \in Nat /\ made >= 1
  BY <1>1, NAssumption DEF LinkedCount, Procs
<1>3. T \in Seq(Int) /\ Len(T) = (IF n = 0 THEN 1 ELSE n)
      /\ \A k \in 1 .. Len(T) : T[k] = IF n = 0 THEN 1 ELSE Steps(n, 1, k - 1)
  BY <1>1, Values, TurnListFacts
<1>4. TurnList' = [k \in 1 .. made |-> Steps(made, 1, k - 1)]
  BY <1>1, <1>2, Values DEF TurnList
<1> HIDE DEF T, n
<1>5. CASE n = 0
  <2>1. T = <<1>> /\ made = 1
    BY <1>2, <1>3, <1>5
  <2>2. Steps(1, 1, 0) = 1
    BY DEF Steps
  <2>3. TurnList' = <<1>>
    BY <1>4, <2>1, <2>2
  <2>4. QED BY <2>1, <2>3 DEF T
<1>6. CASE n # 0
  <2>1. \A k \in 1 .. made : Steps(made, 1, k - 1) =
          IF k = 1 THEN T[1] ELSE IF k = 2 THEN made ELSE T[k - 1]
    BY <1>2, <1>3, <1>6 DEF Steps
  <2>2. <<Head(T), made>> \o Tail(T) =
          [k \in 1 .. made |-> IF k = 1 THEN T[1] ELSE IF k = 2 THEN made ELSE T[k - 1]]
    BY <1>2, <1>3, <1>6
  <2>3. T # <<>>
    BY <1>2, <1>3, <1>6
  <2>4. QED BY <1>4, <2>1, <2>2, <2>3 DEF T
<1>7. QED BY <1>5, <1>6

\* Every step keeps the turns, rotates them, or adds a process behind the first.
LEMMA TurnsStep ==
  ASSUME IInv, RingOrder, IInv', [Next]_vars, cpu' # Halted
  PROVE  \/ TurnList' = TurnList
         \/ TurnList # <<>> /\ TurnList' = Append(Tail(TurnList), Head(TurnList))
         \/ \E p \in Procs : TurnList' = IF TurnList = <<>> THEN <<p>>
                                         ELSE <<Head(TurnList), p>> \o Tail(TurnList)
<1>1. CASE UNCHANGED <<current, made, pc>>
  BY <1>1 DEF TurnList, LinkedCount
<1>2. CASE Sti
  BY <1>2 DEF Sti, At, TurnList, LinkedCount
<1>3. CASE Fill
  <2>1. pc = "create" /\ made' = made + 1 /\ pc' = "link" /\ UNCHANGED current /\ made \in Nat
    BY <1>3, RingFacts DEF Fill, At
  <2>2. LinkedCount' = LinkedCount
    BY <2>1 DEF LinkedCount
  <2>3. QED BY <2>1, <2>2 DEF TurnList
<1>4. CASE Link
  <2>1. /\ pc = "link" /\ pc' = "relink" /\ cpu = Kmain /\ UNCHANGED made /\ made \in Procs
        /\ LinkedCount' = LinkedCount
    BY <1>4 DEF Link, At, LinkedCount, IInv, Progress
  <2>2. CASE current = NULL
    <3>1. made = 1 /\ current' = 1
      BY <1>4, <2>1, <2>2, Values DEF Link, IInv, Progress
    <3>2. TurnList = <<>> /\ TurnList' = <<1>>
      BY <2>1, <2>2, <3>1, Values DEF TurnList, LinkedCount
    <3>3. QED BY <3>2, Values
  <2>3. CASE current # NULL
    BY <1>4, <2>1, <2>3 DEF Link, TurnList
  <2>4. QED BY <2>2, <2>3
<1>5. CASE Relink
  <2>1. made \in Procs
    BY <1>5 DEF Relink, At, IInv, Progress
  <2>2. QED BY <1>5, <2>1, RelinkAdds
<1>6. CASE StartRunning \/ LoadRsp \/ Jump
  <2>1. LinkedCount' = LinkedCount /\ UNCHANGED current
    BY <1>6 DEF StartRunning, LoadRsp, Jump, At, LinkedCount
  <2>2. QED BY <2>1 DEF TurnList
<1>7. CASE Switch
  BY <1>7, SwitchRotates
<1>8. CASE SwitchFaults
  BY <1>8 DEF SwitchFaults
<1>9. QED
  BY <1>1, <1>2, <1>3, <1>4, <1>5, <1>6, <1>7, <1>8
  DEF Next, KmainStep, TickIdle, Crash, Stopped, vars

\* The processor stays halted.
LEMMA HaltedStays == ASSUME [Next]_vars, cpu' # Halted PROVE cpu # Halted
<1>1. cpu \in Threads \/ UNCHANGED cpu
  BY Values DEF Next, KmainStep, Sti, Fill, Link, Relink, StartRunning, LoadRsp, Jump, At,
                TickIdle, Switch, SwitchFaults, InterruptsOn, Crash, Stopped, vars
<1>2. QED BY <1>1, Values

\* The inductive invariant, with the order of the ring.
LEMMA RingHolds == Spec => [](IInv /\ RingOrder)
<1>1. Init => IInv /\ RingOrder
  BY InitIInv, InitRing
<1>2. IInv /\ RingOrder /\ [Next]_vars => (IInv /\ RingOrder)'
  BY NextIInv, RingStep
<1>3. QED BY <1>1, <1>2, PTL DEF Spec

\* For every number of processes the links form one ring of the linked ones at every
\* moment, also between the two writes of an insertion.
THEOREM RingIsClosed == Spec => []OneRing
<1>1. IInv /\ RingOrder => OneRing
  BY RingIsOne
<1>2. QED BY <1>1, RingHolds, PTL

\* Every step of the scheduler is one of the abstract order of turns: a tick passes the
\* turn on, an insertion puts a process behind the one whose turn it is, and nothing
\* else changes the order.
THEOREM TurnsRefine == Spec => ImplementsRoundRobin
<1>1. ASSUME IInv, RingOrder, (IInv /\ RingOrder)', [Next]_vars
      PROVE  [cpu' # Halted => Robin!Next]_Turns
  <2> SUFFICES ASSUME cpu' # Halted PROVE Robin!Next \/ Turns' = Turns
    OBVIOUS
  <2>1. cpu # Halted
    BY <1>1, HaltedStays
  <2>2. Turns = TurnList
    BY <1>1, <2>1, TurnsSpelledOut
  <2>3. (IInv /\ RingOrder /\ cpu # Halted)' => (Turns = TurnList)'
    BY TurnsSpelledOut, PTL
  <2>4. Turns' = TurnList'
    BY <1>1, <2>3
  <2>5. QED
    BY <1>1, <2>2, <2>4, TurnsStep DEF Robin!Next, Robin!Rotate, Robin!Add
<1>2. QED BY <1>1, RingHolds, PTL DEF Spec, ImplementsRoundRobin

-----------------------------------------------------------------------------
(* kmain(), with all that it sets up *)

HIDE DEF Behind, Turn, Saved, HandedOver

\* What kmain() does before it creates processes, and in creating them.
LEMMA KmainStepsMap == ASSUME KmainGoesOn PROVE [Next]_vars
<1>1. CASE MemoryFaults \/ InitFramebufferFaults \/ CreateProcessFaults
  BY <1>1 DEF MemoryFaults, InitFramebufferFaults, CreateProcessFaults, Next
<1>2. CASE Memory \/ CheckRevision \/ InitFramebuffer \/ NoFramebuffer \/ InitWriter
  BY <1>2 DEF Memory, CheckRevision, InitFramebuffer, NoFramebuffer, InitWriter
<1>3. CASE Devices \/ CreateProcess \/ OtherSteps
  BY <1>3 DEF Devices, CreateProcess, OtherSteps, Next, KmainStep
<1>4. QED BY <1>1, <1>2, <1>3 DEF KmainGoesOn

LEMMA StepsMap == [BootNext]_allvars => [Next]_vars
<1>1. ASSUME Wake \/ Draw \/ Rests PROVE [Next]_vars
  BY <1>1 DEF Wake, Draw, Rests, Stopped
<1>2. ASSUME Ticks PROVE [Next]_vars
  BY <1>2 DEF Ticks, Next
<1>3. ASSUME UNCHANGED allvars PROVE UNCHANGED vars
  BY <1>3 DEF allvars
<1>4. QED BY <1>1, <1>2, <1>3, KmainStepsMap DEF BootNext

\* kmain(), with the parts it sets up and all their failures, is the Scheduler that the
\* other theorems are about.
THEOREM BootImplementsScheduler == BootSpec => Spec
<1>1. BootInit => Init
  BY DEF BootInit
<1>2. QED BY <1>1, StepsMap, PTL DEF BootSpec, Spec

\* Whatever the boot loader left, and wherever a tick falls in kmain(): no two processes
\* are RUNNING, no context is lost, kmain() acts in the first process's place.
THEOREM BootSwitchesSafely == BootSpec => []SwitchSafe
BY BootImplementsScheduler, SwitchIsSafe, PTL

\* The links of the processes that kmain() creates form one ring at every moment.
THEOREM BootRingIsClosed == BootSpec => []OneRing
BY BootImplementsScheduler, RingIsClosed, PTL

\* The processes that kmain() creates take turns in a fixed order.
THEOREM BootTurnsRefine == BootSpec => ImplementsRoundRobin
BY BootImplementsScheduler, TurnsRefine, PTL

-----------------------------------------------------------------------------
(* What kmain() has used of the heap *)

Per == HDR + PROC + HDR + STACK          \* words of a process
Past == {"hlt", "writer", "create", "while(1)"}      \* Framebuffer::init() is behind

ScreenWords == IF env.screen = NoScreen THEN 0 ELSE HDR + env.screen
Used == (IF phase \in Past THEN ScreenWords ELSE 0) + made * Per

\* The last chunk begins behind what is used, and its header is mapped; or the last
\* allocation took the rest, which could not hold another header.
TopInv ==
  \/ top = Used /\ Used + HDR <= env.backed /\ ARENA - Used > HDR
  \/ top = ARENA /\ Used <= ARENA /\ ARENA - Used <= HDR /\ (made > 0 => Used <= env.backed)

\* What kmain() has tested by a phase.
TestedInv ==
  /\ phase # "memory" => env.response
  /\ phase \in {"devices", "framebuffer"} \cup Past => env.revision
  /\ phase = "off" => ~env.revision
  /\ phase = "create" => env.font
  /\ phase = "while(1)" => ~env.font

PhaseInv ==
  /\ made > 0 => phase = "create"
  /\ phase = "memory" => top = 0
  /\ phase # "memory" => TopInv
  /\ phase \in Past /\ env.screen # NoScreen => buffer = HDR
  /\ phase = "hlt" => env.screen = NoScreen
  /\ pc = "boot" <=> phase \in {"memory", "revision", "devices", "off"}

BootInv == BootTypeOK /\ TestedInv /\ PhaseInv /\ (cpu = Faulted => ~Able)

LEMMA Sizes ==
  /\ HDR \in Nat /\ HDR > 0 /\ PROC \in Nat /\ PROC > 0 /\ STACK \in Nat /\ STACK > 0
  /\ Per \in Nat /\ ARENA \in Nat /\ HDR < ARENA /\ N \in Nat /\ N > 0
BY BootAssumption, NAssumption DEF Per

LEMMA EnvType ==
  ASSUME env \in Envs
  PROVE  /\ env.response \in BOOLEAN /\ env.revision \in BOOLEAN /\ env.font \in BOOLEAN
         /\ env.screen = NoScreen \/ env.screen \in Nat
         /\ env.backed \in Nat
         /\ ScreenWords \in Nat
BY BootAssumption, Sizes DEF Env, ScreenWords

\* The words of m processes.
LEMMA Products ==
  ASSUME NEW m \in Nat, m < N
  PROVE  /\ m * Per \in Nat /\ (m + 1) * Per = m * Per + Per
         /\ (m + 1) * Per <= N * Per
         /\ m + 1 < N => m * Per + Per + Per <= N * Per
<1>1. \A a, b \in Nat : a * b \in Nat /\ (a + 1) * b = a * b + b
  OBVIOUS
<1>2. m * Per \in Nat /\ (m + 1) * Per = m * Per + Per
  BY <1>1, Sizes
<1>3. PICK k \in Nat : N = (m + 1) + k
  <2>1. N - (m + 1) \in Nat /\ N = (m + 1) + (N - (m + 1))
    BY Sizes
  <2>2. QED BY <2>1
<1>4. N * Per = (m + 1) * Per + k * Per
  <2>1. \A a, b, c \in Nat : (a + b) * c = a * c + b * c
    OBVIOUS
  <2>2. QED BY <1>3, <2>1, Sizes
<1>5. k * Per \in Nat
  BY <1>1, Sizes
<1>6. ASSUME m + 1 < N PROVE Per <= k * Per
  <2>1. k - 1 \in Nat /\ k = (k - 1) + 1
    BY <1>3, <1>6, Sizes
  <2>2. k * Per = (k - 1) * Per + Per /\ (k - 1) * Per \in Nat
    BY <1>1, <2>1, Sizes
  <2>3. QED BY <2>2, Sizes
<1>7. QED BY <1>2, <1>4, <1>5, <1>6, Sizes

\* What the kernel needs, by process.
LEMMA AbleNeeds ==
  ASSUME env \in Envs, Able
  PROVE  /\ env.response /\ env.revision /\ env.font
         /\ ScreenWords + N * Per <= ARENA /\ ScreenWords + N * Per <= env.backed
         /\ ARENA - (ScreenWords + N * Per) > HDR => ScreenWords + N * Per + HDR <= env.backed
<1>1. Needed = ScreenWords + N * Per
  BY DEF Needed, ScreenWords, Per
<1>2. N * Per \in Nat
  BY Sizes
<1>3. QED BY <1>1, <1>2, EnvType, Sizes DEF Able

LEMMA NeedsAble ==
  ASSUME env \in Envs, env.response, env.revision, env.font,
         ScreenWords + N * Per <= ARENA, ScreenWords + N * Per <= env.backed,
         ARENA - (ScreenWords + N * Per) > HDR => ScreenWords + N * Per + HDR <= env.backed
  PROVE  Able
<1>1. Needed = ScreenWords + N * Per
  BY DEF Needed, ScreenWords, Per
<1>2. N * Per \in Nat
  BY Sizes
<1>3. QED BY <1>1, <1>2, EnvType, Sizes DEF Able

\* What kmalloc() leaves of the last chunk at t.
LEMMA Taken ==
  ASSUME env \in Envs, NEW t \in 0 .. ARENA, NEW size \in Nat, Gets(t, size)
  PROVE  LET end == t + HDR + size IN
         \/ TopAfter(t, size) = end /\ end + HDR <= env.backed /\ ARENA - end > HDR
         \/ TopAfter(t, size) = ARENA /\ end <= ARENA /\ ARENA - end <= HDR
BY EnvType, Sizes DEF Gets, TopAfter, Splits, RoomLeft

LEMMA NothingBehindTheArena ==
  ASSUME NEW size \in Nat
  PROVE  ~Gets(ARENA, size)
BY Sizes DEF Gets, RoomLeft

LEMMA CreateType ==
  ASSUME BootInv, phase = "create"
  PROVE  /\ env \in Envs /\ made \in 0 .. N /\ made * Per \in Nat
         /\ Used = ScreenWords + made * Per /\ TopInv /\ top \in 0 .. ARENA
BY Sizes DEF BootInv, BootTypeOK, TypeOK, PhaseInv, Used, Past

\* What create_process() leaves.
LEMMA CreatedTop ==
  ASSUME BootInv, phase = "create", made < N, Allocates
  PROVE  LET end == Used + Per  after == TopAfter(TopOfStack, STACK) IN
         /\ end <= env.backed
         /\ \/ after = end /\ end + HDR <= env.backed /\ ARENA - end > HDR
            \/ after = ARENA /\ end <= ARENA /\ ARENA - end <= HDR
<1>1. env \in Envs /\ Used \in Nat /\ top \in 0 .. ARENA /\ TopInv
  BY CreateType, EnvType
<1>2. top = Used
  BY <1>1, Sizes, NothingBehindTheArena DEF TopInv, Allocates
<1>3. TopOfStack = Used + HDR + PROC /\ TopOfStack \in 0 .. ARENA
  <2>1. \/ TopOfStack = Used + HDR + PROC /\ ARENA - (Used + HDR + PROC) > HDR
        \/ TopOfStack = ARENA
    BY <1>1, <1>2, Sizes, Taken DEF TopOfStack, Allocates
  <2>2. TopOfStack # ARENA
    BY Sizes, NothingBehindTheArena DEF Allocates
  <2>3. QED BY <1>1, <2>1, <2>2, Sizes
<1>4. TopOfStack + HDR + STACK = Used + Per
  BY <1>1, <1>3, Sizes DEF Per
<1>5. Gets(TopOfStack, STACK) /\ TopOfStack + HDR + STACK <= env.backed
  BY DEF Allocates
<1>6. QED BY <1>1, <1>3, <1>4, <1>5, Sizes, Taken

\* When the kernel was left what it needs, create_process() gets it.
LEMMA AbleAllocates ==
  ASSUME BootInv, phase = "create", made < N, Able
  PROVE  Allocates
<1>1. /\ env \in Envs /\ Used \in Nat /\ top \in 0 .. ARENA /\ TopInv /\ made \in Nat
      /\ Used = ScreenWords + made * Per /\ made * Per \in Nat
  BY CreateType, EnvType
<1>2. /\ ScreenWords \in Nat /\ env.backed \in Nat /\ N * Per \in Nat
      /\ ScreenWords + N * Per <= ARENA /\ ScreenWords + N * Per <= env.backed
      /\ ARENA - (ScreenWords + N * Per) > HDR => ScreenWords + N * Per + HDR <= env.backed
  BY <1>1, EnvType, AbleNeeds, Sizes
<1>3. /\ Used + Per <= ScreenWords + N * Per
      /\ made + 1 < N => Used + Per + Per <= ScreenWords + N * Per
      /\ made + 1 = N => Used + Per = ScreenWords + N * Per
  <2>1. /\ made * Per + Per <= N * Per
        /\ made + 1 < N => made * Per + Per + Per <= N * Per
        /\ made + 1 = N => made * Per + Per = N * Per
    BY <1>1, Products
  <2>2. QED BY <1>1, <1>2, <2>1, Sizes
<1>4. top = Used
  BY <1>1, <1>2, <1>3, Sizes DEF TopInv, Per
<1>5. Gets(top, PROC) /\ TopOfStack = Used + HDR + PROC
  BY <1>1, <1>2, <1>3, <1>4, Sizes DEF Gets, RoomLeft, Splits, TopOfStack, TopAfter, Per
<1>6. ARENA - (Used + Per) > HDR => Used + Per + HDR <= env.backed
  BY <1>1, <1>2, <1>3, Sizes DEF Per
<1>7. Gets(TopOfStack, STACK)
  BY <1>1, <1>2, <1>3, <1>5, <1>6, Sizes DEF Gets, RoomLeft, Splits, Per
<1>8. TopOfStack + HDR + STACK <= env.backed
  BY <1>1, <1>2, <1>3, <1>5, Sizes DEF Per
<1>9. QED BY <1>5, <1>7, <1>8 DEF Allocates

-----------------------------------------------------------------------------
(* The steps *)

LEMMA BootInitInv == BootInit => BootInv
<1> SUFFICES ASSUME BootInit PROVE BootInv
  OBVIOUS
<1>1. TypeOK
  BY InitIInv DEF BootInit, IInv
<1>2. made = 0 /\ pc = "boot" /\ cpu = Kmain /\ phase = "memory" /\ top = 0 /\ buffer = 0 /\ drawn = "no" /\ env \in Envs
  BY DEF BootInit, Init
<1>3. BootTypeOK
  BY <1>1, <1>2, Sizes DEF BootTypeOK
<1>4. QED BY <1>2, <1>3 DEF BootInv, TestedInv, PhaseInv, Past, Kmain, Faulted

\* Steps after which kmain()'s part is what it was.
LEMMA Quiet ==
  ASSUME BootInv, TypeOK', UNCHANGED <<env, phase, top, buffer, made>>, drawn' \in {"no", "yes", "#DE"},
         pc' = "boot" <=> pc = "boot", cpu' = Faulted => ~Able
  PROVE  BootInv'
<1>1. BootTypeOK'
  BY DEF BootInv, BootTypeOK
<1>2. Able' <=> Able
  BY DEF Able, Needed
<1>3. TestedInv'
  BY DEF BootInv, TestedInv
<1>4. Used' = Used
  BY DEF Used, ScreenWords
<1>5. PhaseInv'
  BY <1>4 DEF BootInv, PhaseInv, TopInv
<1>6. QED BY <1>1, <1>2, <1>3, <1>5 DEF BootInv

\* A fault comes only when the kernel was left too little.
LEMMA FaultSteps ==
  ASSUME BootInv, TypeOK', MemoryFaults \/ InitFramebufferFaults \/ CreateProcessFaults
  PROVE  BootInv'
<1>1. env \in Envs
  BY DEF BootInv, BootTypeOK
<1>2. CASE MemoryFaults
  <2>1. ~(env.response /\ env.backed >= HDR)
    BY <1>2 DEF MemoryFaults
  <2>2. ASSUME Able PROVE FALSE
    <3>1. 0 \in Nat /\ N * Per \in Nat /\ Per <= N * Per
      <4>1. (0 + 1) * Per = Per /\ N * Per \in Nat
        BY Sizes
      <4>2. QED BY <4>1, Products, Sizes
    <3>2. env.response /\ ScreenWords + N * Per <= env.backed
      BY <1>1, <2>2, AbleNeeds
    <3>3. HDR <= Per
      BY Sizes DEF Per
    <3>4. QED BY <1>1, <2>1, <3>1, <3>2, <3>3, EnvType, Sizes
  <2>3. QED BY <1>2, <2>2, Quiet DEF MemoryFaults, Crash, bootvars, BootInv, BootTypeOK
<1>3. CASE InitFramebufferFaults
  <2>1. env.screen # NoScreen /\ ~Gets(top, env.screen) /\ phase = "framebuffer"
    BY <1>3 DEF InitFramebufferFaults
  <2>2. Used = 0
    BY <2>1, Sizes DEF BootInv, BootTypeOK, TypeOK, PhaseInv, Used, Past
  <2>3. top = 0
    BY <2>1, <2>2, Sizes DEF BootInv, PhaseInv, TopInv
  <2>4. ASSUME Able PROVE FALSE
    <3>1. 0 \in Nat /\ N * Per \in Nat /\ Per <= N * Per
      <4>1. (0 + 1) * Per = Per /\ N * Per \in Nat
        BY Sizes
      <4>2. QED BY <4>1, Products, Sizes
    <3>2. ScreenWords + N * Per <= ARENA /\ ScreenWords + N * Per <= env.backed
      BY <1>1, <2>4, AbleNeeds
    <3>3. ScreenWords = HDR + env.screen /\ env.screen \in Nat
      BY <1>1, <2>1, EnvType DEF ScreenWords
    <3>4. Gets(0, env.screen)
      BY <1>1, <3>1, <3>2, <3>3, EnvType, Sizes DEF Gets, RoomLeft, Splits, Per
    <3>5. QED BY <2>1, <2>3, <3>4
  <2>5. QED BY <1>3, <2>4, Quiet DEF InitFramebufferFaults, Crash, bootvars, BootInv, BootTypeOK
<1>4. CASE CreateProcessFaults
  <2>1. ~Able
    BY <1>4, AbleAllocates DEF CreateProcessFaults
  <2>2. QED BY <1>4, <2>1, Quiet DEF CreateProcessFaults, Crash, bootvars, BootInv, BootTypeOK
<1>5. QED BY <1>2, <1>3, <1>4

LEMMA SchedulerSteps ==
  ASSUME BootInv, TypeOK', OtherSteps \/ Ticks \/ Rests \/ Draw
  PROVE  BootInv'
<1>1. drawn \in {"no", "yes", "#DE"} /\ TypeOK /\ (cpu = Faulted => ~Able)
  BY DEF BootInv, BootTypeOK
<1>2. CASE OtherSteps
  <2>1. phase = "create" /\ UNCHANGED bootvars /\ pc # "boot"
    BY <1>2 DEF OtherSteps, BootInv, PhaseInv
  <2>2. pc' # "boot" /\ made' = made
    BY <1>2 DEF OtherSteps, Link, Relink, StartRunning, LoadRsp, Jump
  <2>3. cpu' # Faulted
    BY <1>1, <1>2 DEF OtherSteps, Link, Relink, StartRunning, LoadRsp, Jump, At, Kmain, Faulted,
                      Resumed, TypeOK, Threads, Wild, Stale
  <2>4. QED BY <1>1, <2>1, <2>2, <2>3, Quiet DEF bootvars
<1>3. CASE Ticks
  <2>1. made' = made /\ pc' = pc /\ UNCHANGED bootvars
    BY <1>3 DEF Ticks, TickIdle, Switch, SwitchFaults, vars
  <2>2. cpu' # Faulted
    <3>1. CASE TickIdle
      BY <1>1, <3>1 DEF TickIdle, InterruptsOn, vars, Threads, Faulted
    <3>2. CASE Switch
      <4>1. Turn \in Procs /\ Saved \in [Procs -> Threads \cup {Stale}]
        BY <1>1, <3>2 DEF Switch, InterruptsOn, TypeOK, Turn, Saved, NULL
      <4>2. QED BY <3>2, <4>1 DEF Switch, Resumed, Threads, Wild, Stale, Faulted
    <3>3. CASE SwitchFaults
      BY <3>3 DEF SwitchFaults, Halted, Faulted
    <3>4. QED BY <1>3, <3>1, <3>2, <3>3 DEF Ticks
  <2>3. QED BY <1>1, <2>1, <2>2, Quiet DEF bootvars
<1>4. CASE Rests
  <2>1. UNCHANGED <<vars, bootvars>>
    BY <1>4 DEF Rests, Stopped
  <2>2. QED BY <1>1, <2>1, Quiet DEF vars, bootvars
<1>5. CASE Draw
  <2>1. UNCHANGED <<vars, env, phase, top, buffer>> /\ drawn' \in {"no", "yes", "#DE"}
    BY <1>5 DEF Draw
  <2>2. QED BY <1>1, <2>1, Quiet DEF vars
<1>6. QED BY <1>2, <1>3, <1>4, <1>5

\* kmain() goes from one part to the next.
LEMMA SetupSteps ==
  ASSUME BootInv, TypeOK', Memory \/ CheckRevision \/ Devices \/ NoFramebuffer \/ Wake \/ InitWriter
  PROVE  BootInv'
<1>1. UNCHANGED <<env, top, buffer, drawn, made>> /\ cpu' = Kmain
  BY DEF Memory, CheckRevision, Devices, NoFramebuffer, Wake, InitWriter, Reaches, Sti, At, vars
<1>2. phase # "create" /\ made = 0
  <2>1. phase # "create"
    BY DEF Memory, CheckRevision, Devices, NoFramebuffer, Wake, InitWriter, Reaches
  <2>2. QED BY <2>1 DEF BootInv, BootTypeOK, TypeOK, PhaseInv
<1>3. Used = (IF phase \in Past THEN ScreenWords ELSE 0) /\ Used' = (IF phase' \in Past THEN ScreenWords ELSE 0)
  <2>1. made * Per = 0 /\ ScreenWords' = ScreenWords /\ ScreenWords \in Nat
    BY <1>1, <1>2, Sizes, EnvType DEF ScreenWords, BootInv, BootTypeOK
  <2>2. QED BY <1>1, <2>1 DEF Used
<1>4. env \in Envs /\ BootTypeOK
  BY DEF BootInv, BootTypeOK
<1>5. CASE Memory
  <2>1. TopInv'
    BY <1>1, <1>3, <1>4, <1>5, EnvType, Sizes DEF Memory, Reaches, TopInv, BootInv, PhaseInv, Past
  <2>2. PhaseInv'
    BY <1>1, <1>2, <1>5, <2>1 DEF Memory, Reaches, BootInv, PhaseInv, Past, vars
  <2>3. QED BY <1>1, <1>4, <1>5, <2>2 DEF Memory, Reaches, BootInv, BootTypeOK, TestedInv, Past, Kmain, Faulted
<1>6. CASE CheckRevision
  <2>1. Used' = Used
    BY <1>3, <1>6 DEF CheckRevision, Reaches, Past
  <2>2. PhaseInv'
    BY <1>1, <1>2, <1>6, <2>1 DEF CheckRevision, Reaches, BootInv, PhaseInv, TopInv, Past, vars
  <2>3. QED BY <1>1, <1>4, <1>6, <2>2 DEF CheckRevision, Reaches, BootInv, BootTypeOK, TestedInv, Past, Kmain, Faulted
<1>7. CASE Devices
  <2>1. Used' = Used
    BY <1>3, <1>7 DEF Devices, Reaches, Past
  <2>2. PhaseInv'
    BY <1>1, <1>2, <1>7, <2>1 DEF Devices, Reaches, BootInv, PhaseInv, TopInv, Past, Sti
  <2>3. QED BY <1>1, <1>4, <1>7, <2>2 DEF Devices, Reaches, BootInv, BootTypeOK, TestedInv, Past, Kmain, Faulted
<1>8. CASE NoFramebuffer
  <2>1. Used' = Used
    BY <1>3, <1>8 DEF NoFramebuffer, Reaches, Past, ScreenWords
  <2>2. PhaseInv'
    BY <1>1, <1>2, <1>8, <2>1 DEF NoFramebuffer, Reaches, BootInv, PhaseInv, TopInv, Past, vars
  <2>3. QED BY <1>1, <1>4, <1>8, <2>2 DEF NoFramebuffer, Reaches, BootInv, BootTypeOK, TestedInv, Past, Kmain, Faulted
<1>9. CASE Wake \/ InitWriter
  <2>1. Used' = Used
    BY <1>3, <1>9 DEF Wake, InitWriter, Reaches, Past
  <2>2. PhaseInv'
    BY <1>1, <1>2, <1>9, <2>1 DEF Wake, InitWriter, Reaches, BootInv, PhaseInv, TopInv, Past, vars
  <2>3. QED BY <1>1, <1>4, <1>9, <2>2 DEF Wake, InitWriter, Reaches, BootInv, BootTypeOK, TestedInv, Past, Kmain, Faulted
<1>10. QED BY <1>5, <1>6, <1>7, <1>8, <1>9

\* The back buffer is cut off the front of the first chunk.
LEMMA FramebufferStep == ASSUME BootInv, TypeOK', InitFramebuffer PROVE BootInv'
<1>1. /\ phase = "framebuffer" /\ phase' = "writer" /\ UNCHANGED <<vars, env, drawn>>
      /\ env.screen # NoScreen /\ Gets(top, env.screen) /\ cpu = Kmain
      /\ top' = TopAfter(top, env.screen) /\ buffer' = top + HDR
  BY DEF InitFramebuffer, Reaches
<1>2. env \in Envs /\ made = 0 /\ made' = 0 /\ cpu' = Kmain /\ pc' = pc
  BY <1>1 DEF BootInv, BootTypeOK, TypeOK, PhaseInv, vars
<1>3. ScreenWords = HDR + env.screen /\ env.screen \in Nat /\ ScreenWords' = ScreenWords
  BY <1>1, <1>2, EnvType DEF ScreenWords
<1>4. Used = 0 /\ Used' = HDR + env.screen
  <2>1. made * Per = 0 /\ made' * Per = 0
    BY <1>2, Sizes
  <2>2. QED BY <1>1, <1>3, <2>1, Sizes DEF Used, Past
<1>5. top = 0
  BY <1>1, <1>4, Sizes DEF BootInv, PhaseInv, TopInv
<1>6. TopInv' /\ top' \in 0 .. ARENA
  <2>1. \/ top' = 0 + HDR + env.screen /\ top' + HDR <= env.backed /\ ARENA - top' > HDR
        \/ top' = ARENA /\ HDR + env.screen <= ARENA /\ ARENA - (HDR + env.screen) <= HDR
    BY <1>1, <1>2, <1>3, <1>5, Sizes, Taken
  <2>2. QED BY <1>1, <1>2, <1>3, <1>4, <2>1, Sizes DEF TopInv
<1>7. buffer' = HDR
  BY <1>1, <1>5, Sizes
<1>8. PhaseInv'
  BY <1>1, <1>2, <1>6, <1>7 DEF BootInv, PhaseInv, Past
<1>9. BootTypeOK' /\ TestedInv'
  BY <1>1, <1>6, <1>7, Sizes DEF BootInv, BootTypeOK, TestedInv, Past
<1>10. QED BY <1>2, <1>8, <1>9 DEF BootInv, Kmain, Faulted

LEMMA CreateStep == ASSUME BootInv, TypeOK', CreateProcess PROVE BootInv'
<1>1. /\ phase = "create" /\ Allocates /\ Fill /\ top' = TopAfter(TopOfStack, STACK)
      /\ UNCHANGED <<env, phase, buffer, drawn>>
  BY DEF CreateProcess
<1>2. made \in Nat /\ made < N /\ made' = made + 1 /\ pc = "create" /\ pc' = "link" /\ cpu' = Kmain
  BY <1>1 DEF Fill, At, BootInv, BootTypeOK, TypeOK
<1>3. env \in Envs /\ Used \in Nat /\ Used = ScreenWords + made * Per /\ made * Per \in Nat
  BY <1>1, CreateType, EnvType
<1>4. Used' = Used + Per
  <2>1. ScreenWords' = ScreenWords /\ ScreenWords \in Nat /\ phase' \in Past
    BY <1>1, <1>3, EnvType DEF ScreenWords, Past
  <2>2. made' * Per = made * Per + Per
    BY <1>2, Products
  <2>3. QED BY <1>3, <2>1, <2>2, Sizes DEF Used
<1>5. TopInv' /\ top' \in 0 .. ARENA
  <2>1. /\ Used' <= env.backed
        /\ \/ top' = Used' /\ Used' + HDR <= env.backed /\ ARENA - Used' > HDR
           \/ top' = ARENA /\ Used' <= ARENA /\ ARENA - Used' <= HDR
    BY <1>1, <1>2, <1>4, CreatedTop
  <2>2. QED BY <1>1, <1>3, <1>4, <2>1, Sizes DEF TopInv
<1>6. PhaseInv'
  BY <1>1, <1>2, <1>5 DEF BootInv, PhaseInv
<1>7. BootTypeOK' /\ TestedInv'
  BY <1>1, <1>5 DEF BootInv, BootTypeOK, TestedInv
<1>8. QED BY <1>2, <1>6, <1>7 DEF BootInv, Kmain, Faulted

LEMMA BootNextInv == BootInv /\ TypeOK' /\ [BootNext]_allvars => BootInv'
<1>1. ASSUME BootInv, TypeOK', UNCHANGED allvars PROVE BootInv'
  BY <1>1, Quiet DEF allvars, vars, bootvars, BootInv, BootTypeOK
<1>2. QED BY <1>1, FaultSteps, SchedulerSteps, SetupSteps, FramebufferStep, CreateStep
          DEF BootNext, KmainGoesOn

LEMMA StopsEarly == IInv => /\ cpu = Halted => early /\ made = 1 /\ pc = "relink"
                            /\ cpu = Wild => early
BY Values DEF IInv, Progress, Slots, FirstFrame, TypeOK

LEMMA BootInvImplies == BootInv /\ IInv => BootSafe
<1> SUFFICES ASSUME BootInv, IInv PROVE BootSafe
  OBVIOUS
<1>1. env \in Envs /\ made \in 0 .. N
  BY DEF BootInv, BootTypeOK, TypeOK
<1>2. phase \in {"off", "while(1)"} => ~Able
  BY <1>1, AbleNeeds DEF BootInv, TestedInv
<1>3. ASSUME made > 0
      PROVE  /\ phase = "create" /\ Used = ScreenWords + made * Per /\ made * Per \in Nat
             /\ Used <= ARENA /\ Used <= env.backed /\ TopInv
  <2>1. phase = "create"
    BY <1>3 DEF BootInv, PhaseInv
  <2>2. QED BY <1>1, <1>3, <2>1, CreateType, EnvType, Sizes DEF TopInv
<1>4. made > 0 /\ env.screen # NoScreen => buffer + env.screen <= env.backed
  <2>1. ASSUME made > 0, env.screen # NoScreen PROVE buffer + env.screen <= env.backed
    <3>1. buffer = HDR /\ ScreenWords = HDR + env.screen
      BY <1>3, <2>1 DEF BootInv, PhaseInv, ScreenWords, Past
    <3>2. QED BY <1>1, <1>3, <2>1, <3>1, EnvType, Sizes
  <2>2. QED BY <2>1
<1>5. made = N => Able
  <2>1. ASSUME made = N PROVE Able
    <3>1. /\ phase = "create" /\ Used = ScreenWords + N * Per /\ Used <= ARENA /\ Used <= env.backed
          /\ TopInv /\ Used \in Nat
      BY <1>1, <1>3, <2>1, EnvType, Sizes
    <3>2. ARENA - Used > HDR => Used + HDR <= env.backed
      BY <3>1, Sizes DEF TopInv
    <3>3. env.response /\ env.revision /\ env.font
      BY <3>1 DEF BootInv, TestedInv, Past
    <3>4. QED BY <1>1, <3>1, <3>2, <3>3, NeedsAble
  <2>2. QED BY <2>1
<1>6. phase = "off" <=> pc = "boot" /\ phase \notin {"memory", "revision", "devices"}
  BY DEF BootInv, PhaseInv
<1>7. QED BY <1>2, <1>4, <1>5, <1>6, StopsEarly DEF BootInv, BootSafe

\* Whatever the boot loader left, whatever the sizes, and however early the ticks come: the
\* kernel faults or hangs in a test only when it was left too little, and then before its
\* processes all exist; otherwise only a tick before the jump stops it, in schedule() one
\* that falls into the linking of the first process; the back buffer that a process draws
\* to is mapped; a hlt ends but where interrupts were never turned on.
THEOREM BootIsSafe == BootSpec => []BootSafe
<1>1. BootSpec => []IInv
  BY BootImplementsScheduler, IInvHolds, PTL
<1>2. IInv => TypeOK
  BY DEF IInv
<1>3. BootSpec => []BootInv
  BY <1>1, <1>2, BootInitInv, BootNextInv, PTL DEF BootSpec
<1>4. QED BY <1>1, <1>3, BootInvImplies, PTL
=============================================================================
