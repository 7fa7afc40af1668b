------------------------------ MODULE Context ------------------------------
(***************************************************************************)
(* The interrupt stubs, src/kernel/interrupt_stub.asm: they save the       *)
(* registers of the interrupted thread on its stack, call the handler, and *)
(* restore what the stack pointer then points to, which after a tick is    *)
(* the frame of another thread.  Interrupts are disabled throughout, so    *)
(* the fifteen pushes are one step, and the fifteen pops.  A thread's      *)
(* stack holds its frame only; values of registers are tokens that tell    *)
(* the threads and the registers apart.                                    *)
(***************************************************************************)
EXTENDS Integers, Sequences, SequencesExt

CONSTANTS
  Threads,        \* kmain() and the processes, whose frames create_process() makes up
  First,          \* the thread that executes at first
  Vectors         \* interrupts that occur while a thread executes

ASSUME ThreadsAssumption == First \in Threads
ASSUME VectorsAssumption == Vectors \subseteq 0 .. 255

\* The order in which the stubs push; they pop in the reverse order.
PushOrder == <<"rbp", "rax", "rbx", "rcx", "rdx", "rsi", "rdi", "r8",
               "r9", "r10", "r11", "r12", "r13", "r14", "r15">>
PopUnreversed == PushOrder            \* mutant: popped in the order of the pushes
PopOrder == <<"r15", "r14", "r13", "r12", "r11", "r10", "r9", "r8",
              "rdi", "rsi", "rdx", "rcx", "rbx", "rax", "rbp">>
Registers == ToSet(PushOrder)

\* What the C++ functions may overwrite: the caller-saved registers.
Scratch == {"rax", "rcx", "rdx", "rsi", "rdi", "r8", "r9", "r10", "r11"}

WithCode == {8, 10, 11, 12, 13, 14}     \* ISR_ERR
Halting == {8, 13, 14}                  \* handle_interrupt_cpp() does not return
Timer == 32

\* A thread's value of a register, and the values that are no thread's; "iret" is
\* what iretq pops.
Other(kind) == <<"none", kind>>
Words == (Threads \X Registers) \cup {Other(c) : c \in {"zero", "junk", "code", "iret"}}

VARIABLES
  regs,        \* the general registers
  stack,       \* of every thread, the top last
  cpu,         \* the thread whose stack is used
  pc,          \* "run", "entry", "save", "call", "restore", "iretq", "halt"
  vector,
  argument,    \* the second argument of handle_interrupt_cpp()
  own,         \* history: what every thread left in its registers
  clobbered    \* history: threads that came back from a stub with an error code

vars == <<regs, stack, cpu, pc, vector, argument, own, clobbered>>

Zeros == [r \in Registers |-> Other("zero")]

\* The frame create_process() makes up.
NewFrame == <<Other("iret")>> \o [j \in 1 .. Len(PushOrder) |-> Other("zero")]

Init ==
  /\ regs = Zeros /\ own = [t \in Threads |-> Zeros]
  /\ stack = [t \in Threads |-> IF t = First THEN <<>> ELSE NewFrame]
  /\ cpu = First /\ pc = "run" /\ vector = 0 /\ argument = Other("zero")
  /\ clobbered = {}

\* The thread computes: its registers differ from every other's.
Compute ==
  /\ pc = "run"
  /\ regs' = [r \in Registers |-> <<cpu, r>>]
  /\ own' = [own EXCEPT ![cpu] = regs']
  /\ UNCHANGED <<stack, cpu, pc, vector, argument, clobbered>>

\* The processor pushes its frame, and for some vectors an error code.
Interrupt(v) ==
  /\ pc = "run"
  /\ vector' = v
  /\ stack' = [stack EXCEPT ![cpu] =
                 @ \o <<Other("iret")>> \o IF v \in WithCode THEN <<Other("code")>> ELSE <<>>]
  /\ pc' = IF v \in WithCode THEN "entry" ELSE "save"
  /\ UNCHANGED <<regs, cpu, argument, own, clobbered>>

NotPopped(words) == words               \* mutant: read, but not popped
Popped(words) == Front(words)
\* pop rsi: the error code replaces what the thread had there.
PopCode ==
  /\ pc = "entry"
  /\ regs' = [regs EXCEPT !["rsi"] = Last(stack[cpu])]
  /\ stack' = [stack EXCEPT ![cpu] = Popped(@)]
  /\ clobbered' = clobbered \cup {cpu}
  /\ pc' = "save"
  /\ UNCHANGED <<cpu, vector, argument, own>>

Save ==
  /\ pc = "save"
  /\ stack' = [stack EXCEPT ![cpu] = @ \o [j \in 1 .. Len(PushOrder) |-> regs[PushOrder[j]]]]
  /\ pc' = "call"
  /\ UNCHANGED <<regs, cpu, vector, argument, own, clobbered>>

\* The word n words above the stack pointer.
Word(n) == stack[cpu][Len(stack[cpu]) - n]

Called == [r \in Registers |-> IF r \in Scratch THEN Other("junk") ELSE regs[r]]

\* handle_interrupt_cpp() is called.  The stubs with an error code load it from
\* the eighth word; the exceptions that are reported halt the processor.
Call ==
  /\ pc = "call" /\ vector # Timer
  /\ argument' = IF vector \in WithCode THEN Word(7) ELSE Other("zero")
  /\ regs' = Called
  /\ pc' = IF vector \in Halting THEN "halt" ELSE "restore"
  /\ UNCHANGED <<stack, cpu, vector, own, clobbered>>

\* schedule() returns the stack pointer of whatever thread is next.
Schedule ==
  /\ pc = "call" /\ vector = Timer
  /\ cpu' \in Threads
  /\ regs' = Called
  /\ pc' = "restore"
  /\ UNCHANGED <<stack, vector, argument, own, clobbered>>

Restore ==
  /\ pc = "restore"
  /\ regs' = [r \in Registers |-> LET j == CHOOSE j \in DOMAIN PopOrder : PopOrder[j] = r
                                  IN  Word(j - 1)]
  /\ stack' = [stack EXCEPT ![cpu] = SubSeq(@, 1, Len(@) - Len(PopOrder))]
  /\ pc' = "iretq"
  /\ UNCHANGED <<cpu, vector, argument, own, clobbered>>

Iretq ==
  /\ pc = "iretq"
  /\ stack' = [stack EXCEPT ![cpu] = Front(@)]
  /\ pc' = "run"
  /\ UNCHANGED <<regs, cpu, vector, argument, own, clobbered>>

Halt == pc = "halt" /\ UNCHANGED vars

Stub == PopCode \/ Save \/ Call \/ Schedule \/ Restore \/ Iretq

Next == Compute \/ (\E v \in Vectors : Interrupt(v)) \/ Stub \/ Halt

Spec == Init /\ [][Next]_vars

-----------------------------------------------------------------------------
TypeOK ==
  /\ regs \in [Registers -> Words] /\ own \in [Threads -> [Registers -> Words]]
  /\ stack \in [Threads -> Seq(Words)]
  /\ cpu \in Threads /\ clobbered \subseteq Threads
  /\ pc \in {"run", "entry", "save", "call", "restore", "iretq", "halt"}
  /\ vector \in 0 .. 255 /\ argument \in Words

\* Whatever ticks and interrupts came in between, a thread that executes finds its
\* registers as it left them; only rsi is lost, to an exception with an error code.
RegistersKept ==
  pc = "run" =>
    \A r \in Registers : regs[r] # own[cpu][r] => r = "rsi" /\ cpu \in clobbered

\* The stacks are balanced: an executing thread's is empty, every other's holds one
\* frame, which the stub can pop and iretq can use.
StacksBalanced ==
  pc = "run" => \A t \in Threads :
    IF t = cpu THEN stack[t] = <<>>
    ELSE Len(stack[t]) = Len(PushOrder) + 1 /\ stack[t][1] = Other("iret")

\* What the stubs keep true of the saved state: it is typed and balanced.
StacksInv == TypeOK /\ StacksBalanced

\* interrupt_stub.asm:71, "offset to where we pushed rsi (error code)": what the
\* handler is given for such a vector is the error code.
HandlerGetsCode == [][Call /\ vector \in WithCode => argument' = Other("code")]_vars
=============================================================================
