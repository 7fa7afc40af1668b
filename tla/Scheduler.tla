----------------------------- MODULE Scheduler -----------------------------
(***************************************************************************)
(* The processes of src/kernel/process.cpp: kmain() creates them, with     *)
(* interrupts enabled, and then jumps into the first; every tick of the    *)
(* timer saves the interrupted context in the current process and resumes  *)
(* the saved context of the next one in the ring.  A tick is one step, as  *)
(* schedule() and the stub around it run with interrupts disabled; it may  *)
(* fall between any two steps of kmain().                                  *)
(*                                                                         *)
(* A thread is what executes: kmain() or the function of a process.  The   *)
(* frame a thread is saved in lies on its own stack and is good until the  *)
(* thread runs on, hence rsp is modelled by the thread whose frame it      *)
(* points to, or Stale when that thread has run on since.                  *)
(***************************************************************************)
EXTENDS Integers, FiniteSets

CONSTANT N             \* number of processes kmain() creates: 3
ASSUME NAssumption == N \in Nat \ {0}

Procs == 1 .. N        \* in the order of their creation; pid is one less
NULL == 0              \* the null pointer

Kmain == 0             \* the thread of kmain(); process p's own is thread p
Threads == 0 .. N
Stale == -1            \* a frame whose thread has run on
Wild == -2             \* what executes is undefined
Halted == -3           \* the page fault handler has halted it in schedule(), ...
Faulted == -4          \* ... or in what executed

VARIABLES
  next, rsp, state,    \* fields of the Process structures
  current,
  made,                \* number of processes whose fields are filled in
  cpu,                 \* the thread that executes, or Wild, Halted or Faulted
  pc,                  \* where kmain() is
  reg,                 \* the register start_scheduling() loads current->rsp into
  early                \* history: a tick switched before kmain() jumped

vars == <<next, rsp, state, current, made, cpu, pc, reg, early>>

Init ==
  /\ next = [p \in Procs |-> NULL] /\ rsp = [p \in Procs |-> Stale]
  /\ state = [p \in Procs |-> "READY"]
  /\ current = NULL /\ made = 0
  /\ cpu = Kmain /\ pc = "boot" /\ reg = Stale /\ early = FALSE

-----------------------------------------------------------------------------
(* kmain() and create_process() *)

At(label) == cpu = Kmain /\ pc = label

\* Interrupts are enabled once devices and memory are set up.
Sti ==
  /\ At("boot") /\ pc' = "create"
  /\ UNCHANGED <<next, rsp, state, current, made, cpu, reg, early>>

\* A process is allocated and filled in; its first frame is made up on its stack.
Fill ==
  /\ At("create") /\ made < N
  /\ made' = made + 1
  /\ rsp' = [rsp EXCEPT ![made + 1] = made + 1]
  /\ state' = [state EXCEPT ![made + 1] = "READY"]
  /\ next' = [next EXCEPT ![made + 1] = NULL]
  /\ pc' = "link"
  /\ UNCHANGED <<current, cpu, reg, early>>

BehindItself == current       \* mutant: the rest of the ring is cut off
\* What a process that is inserted after the current one leads to.
Behind == next[current]

\* The first of the two writes that put a process into the ring, ...
Link ==
  /\ At("link")
  /\ IF current = NULL THEN current' = made /\ UNCHANGED next
     ELSE next' = [next EXCEPT ![made] = Behind] /\ UNCHANGED current
  /\ pc' = "relink"
  /\ UNCHANGED <<rsp, state, made, cpu, reg, early>>

\* ... and the second.
Relink ==
  /\ At("relink")
  /\ next' = [next EXCEPT ![current] = made]
  /\ pc' = "create"
  /\ UNCHANGED <<rsp, state, current, made, cpu, reg, early>>

-----------------------------------------------------------------------------
(* start_scheduling() *)

StartRunning ==
  /\ At("create") /\ made = N
  /\ state' = [state EXCEPT ![current] = "RUNNING"]
  /\ pc' = "load"
  /\ UNCHANGED <<next, rsp, current, made, cpu, reg, early>>

LoadRsp ==
  /\ At("load")
  /\ reg' = rsp[current] /\ pc' = "jump"
  /\ UNCHANGED <<next, rsp, state, current, made, cpu, early>>

\* What executes after a frame was popped; its thread runs on.
Resumed(f) == IF f = Stale THEN Wild ELSE f

\* The stack pointer is loaded and the frame popped: kmain() is left for good.
Jump ==
  /\ At("jump")
  /\ cpu' = Resumed(reg)
  /\ rsp' = [p \in Procs |-> IF rsp[p] = reg THEN Stale ELSE rsp[p]]
  /\ pc' = "left"
  /\ UNCHANGED <<next, state, current, made, reg, early>>

-----------------------------------------------------------------------------
(* schedule(), called by interrupt_stub_timer *)

InterruptsOn == pc # "boot" /\ cpu \in Threads

\* Before there is a process only the tick is counted.
TickIdle == InterruptsOn /\ current = NULL /\ UNCHANGED vars

SavedNot == rsp                              \* mutant: current->rsp = rsp is forgotten
Saved == [rsp EXCEPT ![current] = cpu]

HandedOverKept(p) == [state EXCEPT ![p] = "RUNNING"]     \* mutant: the old one keeps RUNNING
HandedOver(p) == [state EXCEPT ![current] = "READY", ![p] = "RUNNING"]

TurnOfNewest == made                         \* mutant: the newest process is always chosen
Turn == next[current]

\* The interrupted context is saved in the current process, the next one's resumed.
Switch ==
  /\ InterruptsOn /\ current # NULL /\ next[current] # NULL
  /\ cpu' = Resumed(Saved[Turn])
  /\ rsp' = [Saved EXCEPT ![Turn] = Stale]
  /\ state' = HandedOver(Turn)
  /\ current' = Turn
  /\ early' = (early \/ pc # "left")
  /\ UNCHANGED <<next, made, pc, reg>>

\* The first process is not linked to itself yet: the null pointer is followed.
SwitchFaults ==
  /\ InterruptsOn /\ current # NULL /\ next[current] = NULL
  /\ rsp' = Saved
  /\ state' = [state EXCEPT ![current] = "READY"]
  /\ current' = NULL
  /\ cpu' = Halted
  /\ early' = TRUE
  /\ UNCHANGED <<next, made, pc, reg>>

\* A page fault of what executes, as after a failed kmalloc(): Boot.tla says when.
Crash ==
  /\ cpu \in Threads /\ cpu' = Faulted
  /\ UNCHANGED <<next, rsp, state, current, made, pc, reg, early>>

\* Nothing is known, or nothing happens, any more.
Stopped == cpu \in {Wild, Halted, Faulted} /\ UNCHANGED vars

KmainStep ==
  \/ Sti \/ Fill \/ Link \/ Relink
  \/ StartRunning \/ LoadRsp \/ Jump

Next == KmainStep \/ TickIdle \/ Switch \/ SwitchFaults \/ Crash \/ Stopped

Spec == Init /\ [][Next]_vars

-----------------------------------------------------------------------------
TypeOK ==
  /\ next \in [Procs -> Procs \cup {NULL}]
  /\ rsp \in [Procs -> Threads \cup {Stale}]
  /\ state \in [Procs -> {"READY", "RUNNING"}]
  /\ current \in Procs \cup {NULL} /\ made \in 0 .. N
  /\ cpu \in Threads \cup {Wild, Halted, Faulted}
  /\ pc \in {"boot", "create", "link", "relink", "load", "jump", "left"}
  /\ reg \in Threads \cup {Stale} /\ early \in BOOLEAN

\* Processes whose links are complete.
Linked == 1 .. IF pc \in {"link", "relink"} THEN made - 1 ELSE made

\* The k-th process after p in the ring.
After(p, k) ==
  LET a[j \in 0 .. k] == IF j = 0 THEN p ELSE IF a[j - 1] = NULL THEN NULL ELSE next[a[j - 1]]
  IN  a[k]

\* At every moment, in the middle of an insertion too, the linked processes form
\* one ring: from each of them the ticks lead through all of them.
OneRing ==
  cpu # Halted =>
    \A p \in Linked : {After(p, k) : k \in 1 .. Cardinality(Linked)} = Linked

\* No two processes are RUNNING, and one that is has the processor; once ticks
\* switch processes, one is.
OneRunning ==
  /\ \A p \in Procs : state[p] = "RUNNING" => p = current
  /\ pc = "left" => state[current] = "RUNNING"

\* No switch loses or duplicates a context, however early it comes: processes that
\* wait have good frames, of different threads, of which none executes.
WaitingContextsGood ==
  LET waiting == Linked \ {current} IN
  cpu \in Threads =>
    \A p \in waiting :
      /\ rsp[p] # Stale /\ rsp[p] # cpu
      /\ \A q \in waiting : p # q => rsp[p] # rsp[q]

\* When kmain() executes while there are processes, it does so in the place of the
\* first: create_process() always inserts behind the same one.
KmainActsAsFirst == cpu = Kmain /\ made > 0 /\ pc # "link" => current = 1

\* What a tick may not do to the processes and their contexts, wherever it falls.
SwitchSafe == OneRunning /\ WaitingContextsGood /\ KmainActsAsFirst

\* If no tick switched before kmain() jumped, every process executes or waits in
\* a frame of its own.
OwnContexts ==
  ~early /\ pc = "left" /\ cpu # Faulted =>
    /\ cpu = current
    /\ \A p \in Procs \ {current} : rsp[p] = p

\* The ring implements turns in a fixed order.
Turns ==
  IF current = NULL THEN <<>>
  ELSE LET len == CHOOSE k \in Procs :
                    /\ After(current, k) \in {current, NULL}
                    /\ \A j \in 1 .. k - 1 : After(current, j) \notin {current, NULL}
       IN  [k \in 1 .. len |-> After(current, k - 1)]
Robin == INSTANCE RoundRobin WITH turns <- Turns
ImplementsRoundRobin == [][cpu' # Halted => Robin!Next]_Turns

\* process.cpp:98-101, "just switch to the first process manually", "load its stack
\* and jump into it via iretq": the jump starts the current process.
JumpStartsFirst == [][Jump => cpu' = current]_vars
=============================================================================
