----------------------------- MODULE Interrupts -----------------------------
(***************************************************************************)
(* src/kernel/interrupts.cpp: the interrupt descriptor table and the two   *)
(* interrupt controllers that Interrupts::init() sets up, the dispatcher   *)
(* handle_interrupt_cpp(), and the end-of-interrupt commands that let the  *)
(* next request through.  The controllers (8259, edge triggered, fully     *)
(* nested), the timer and the processor's interrupt gates are external,    *)
(* modelled as the code programs them.                                     *)
(***************************************************************************)
EXTENDS Integers, Sequences, FiniteSetsExt

CONSTANTS
  Exceptions,   \* the exceptions that the code running in between may raise
  Spurious,     \* the requests that may vanish before they are acknowledged
  TICKS,        \* 2^32, where timer_ticks wraps
  MaxFrames     \* bound: nested interrupts

ASSUME InterruptAssumption ==
  /\ Exceptions \subseteq 0 .. 15 /\ Spurious \subseteq {7, 15}
  /\ TICKS \in Nat \ {0} /\ MaxFrames \in Nat \ {0}

VARIABLES
  overrun,      \* may handlers take longer than a period of the timer?
  idt,          \* the stub of each vector, by the number it calls the dispatcher with
  mask,         \* masked requests, of 0..7 (master) and 8..15 (slave)
  irr, isr,     \* requests latched, and in service
  enabled,      \* the interrupt flag
  frames,       \* interrupts under way, innermost last: <<vector, next step>>
  timer_ticks,
  full,         \* whose byte is in the output buffer of the PS/2 controller: 0, 1 or 12
  ticked,       \* history: interrupts that enter a stub which counts a tick
  owed          \* requests that must be acknowledged before the timer's next period ends

vars == <<overrun, idt, mask, irr, isr, enabled, frames, timer_ticks, full, ticked, owed>>

IRQs == 0 .. 15
Vector(irq) == 32 + irq

Init ==
  /\ overrun \in BOOLEAN
  /\ idt = <<>> /\ mask = IRQs /\ irr = {} /\ isr = {} /\ enabled = FALSE
  /\ frames = <<>> /\ timer_ticks = 0 /\ full = 0 /\ ticked = 0 /\ owed = {}

-----------------------------------------------------------------------------
(* Interrupts::init() *)

\* The stub of vector 32, which calls schedule() and not the dispatcher.
TimerStub == 256
\* The gates: everything to stub 32, then those with a stub of their own.
GatesDefaultLast ==                 \* mutant: the loop comes last
  [v \in 0 .. 255 |-> 32]
Gates ==
  [v \in 0 .. 255 |-> IF v = 32 THEN TimerStub ELSE IF v \in 0 .. 15 \cup {33, 44} THEN v ELSE 32]

UnmaskNoCascade == IRQs \ {0, 1, 12}    \* mutant: 0xFC for 0xF8
\* What 0xF8 and 0xEF leave masked: all but the timer, the keyboard, the cascade, the mouse.
Unmask == IRQs \ {0, 1, 2, 12}

Interrupts_init ==
  /\ idt = <<>> /\ idt' = Gates
  /\ mask' = Unmask
  /\ UNCHANGED <<overrun, irr, isr, enabled, frames, timer_ticks, full, ticked, owed>>

Sti ==
  /\ idt # <<>> /\ ~enabled /\ frames = <<>> /\ enabled' = TRUE
  /\ UNCHANGED <<overrun, idt, mask, irr, isr, frames, timer_ticks, full, ticked, owed>>

-----------------------------------------------------------------------------
(* The sources of interrupts *)

\* The slave's requests come in at the master's number 2, the cascade.
Unmasked(irqs) == {irq \in irqs \ mask : irq >= 8 => 2 \notin mask}

\* A period of the timer ends; unless they overrun, the handlers of what was pending at
\* its start have had the time to run.
Tick ==
  /\ idt # <<>>
  /\ overrun \/ (owed = {} /\ \A i \in DOMAIN frames : frames[i][1] # 32)
  /\ irr' = irr \cup {0}
  /\ owed' = Unmasked(irr')
  /\ UNCHANGED <<overrun, idt, mask, isr, enabled, frames, timer_ticks, full, ticked>>

\* A byte of the keyboard or the mouse enters the buffer the two share.
DeviceByte(irq) ==
  /\ idt # <<>> /\ full = 0
  /\ full' = irq
  /\ irr' = irr \cup {irq}
  /\ UNCHANGED <<overrun, idt, mask, isr, enabled, frames, timer_ticks, ticked, owed>>

\* The fully nested priorities.
Level(irq) == IF irq < 8 THEN 8 * irq ELSE 16 + (irq - 8)
Requests == {irq \in Unmasked(irr) : \A s \in isr : Level(irq) < Level(s)}
First(irqs) == CHOOSE irq \in irqs : \A other \in irqs : Level(irq) <= Level(other)

\* Through an interrupt gate (0x8E): the flag is cleared.
Enter(vector) == frames' = Append(frames, <<vector, "call">>) /\ enabled' = FALSE

\* The processor acknowledges the first request.
Acknowledge ==
  /\ enabled /\ Requests # {} /\ Len(frames) < MaxFrames
  /\ LET irq == First(Requests)
     IN  /\ Enter(Vector(irq))
         /\ irr' = irr \ {irq} /\ owed' = owed \ {irq}
         /\ isr' = isr \cup {irq} \cup (IF irq < 8 THEN {} ELSE {2})
         /\ ticked' = IF irq = 0 THEN (ticked + 1) % TICKS ELSE ticked
  /\ UNCHANGED <<overrun, idt, mask, timer_ticks, full>>

\* A request vanishes as it is acknowledged: its controller reports its number 7, without
\* putting it in service; if that is the slave, the master has the cascade in service.
\* Neither vector has a stub of its own: the default, stub 32, counts a tick.
AcknowledgeNone(irq) ==
  /\ enabled /\ isr = {} /\ Len(frames) < MaxFrames
  /\ Enter(Vector(irq))
  /\ isr' = IF irq < 8 THEN {} ELSE {2}
  /\ ticked' = (ticked + 1) % TICKS
  /\ UNCHANGED <<overrun, idt, mask, irr, timer_ticks, full, owed>>

Exception(vector) ==
  /\ enabled /\ frames = <<>>
  /\ Enter(vector)
  /\ UNCHANGED <<overrun, idt, mask, irr, isr, timer_ticks, full, ticked, owed>>

-----------------------------------------------------------------------------
(* What the stubs call: handle_interrupt_cpp(), and schedule() for the timer *)

Top == frames[Len(frames)]
Goto(step) == frames' = [frames EXCEPT ![Len(frames)] = <<@[1], step>>]

AfterNoSlave(vector) == IF vector \in {8, 13, 14} THEN "hlt" ELSE "master"  \* mutant
\* What follows: hlt for good, an end of interrupt for the slave, or one for the master.
After(vector) ==
  IF vector \in {8, 13, 14} THEN "hlt" ELSE IF vector = 44 THEN "slave" ELSE "master"

\* The case of the vector that the stub passes.  The timer's own stub does not come here
\* in the code: schedule() counts the tick (and switches processes, Scheduler.tla), and
\* the stub itself ends the interrupt.
Dispatch ==
  /\ frames # <<>> /\ Top[2] = "call"
  /\ LET vector == idt[Top[1]]
     IN  /\ timer_ticks' = IF vector \in {32, TimerStub} THEN (timer_ticks + 1) % TICKS ELSE timer_ticks
         /\ full' = IF vector \in {33, 44} THEN 0 ELSE full
         /\ Goto(After(vector))
  /\ UNCHANGED <<overrun, idt, mask, irr, isr, enabled, ticked, owed>>

\* The end of an interrupt: the first request in service leaves it.
EndOf(controller) ==
  LET serviced == isr \cap controller
  IN  isr' = IF serviced = {} THEN isr ELSE isr \ {Min(serviced)}

SlaveEoi ==
  /\ frames # <<>> /\ Top[2] = "slave"
  /\ EndOf(8 .. 15) /\ Goto("master")
  /\ UNCHANGED <<overrun, idt, mask, irr, enabled, timer_ticks, full, ticked, owed>>

MasterEoi ==
  /\ frames # <<>> /\ Top[2] = "master"
  /\ EndOf(0 .. 7) /\ Goto("iretq")
  /\ UNCHANGED <<overrun, idt, mask, irr, enabled, timer_ticks, full, ticked, owed>>

\* The stub returns; the flag is what it was.
Iretq ==
  /\ frames # <<>> /\ Top[2] = "iretq"
  /\ frames' = SubSeq(frames, 1, Len(frames) - 1) /\ enabled' = TRUE
  /\ UNCHANGED <<overrun, idt, mask, irr, isr, timer_ticks, full, ticked, owed>>

Handler == Dispatch \/ SlaveEoi \/ MasterEoi \/ Iretq

Next ==
  \/ Interrupts_init \/ Sti
  \/ Tick \/ (\E irq \in {1, 12} : DeviceByte(irq))
  \/ Acknowledge \/ (\E irq \in Spurious : AcknowledgeNone(irq))
  \/ (\E vector \in Exceptions : Exception(vector))
  \/ Handler

Spec == Init /\ [][Next]_vars

\* The processor executes instructions and looks for requests between them, after every
\* instruction that it executes with the flag set, the one a fault returned to included.
FairSpec ==
  Spec /\ WF_vars(Interrupts_init) /\ WF_vars(Sti) /\ SF_vars(Acknowledge) /\ WF_vars(Handler)

-----------------------------------------------------------------------------
TypeOK ==
  /\ overrun \in BOOLEAN
  /\ idt = <<>> \/ idt \in [0 .. 255 -> 0 .. TimerStub]
  /\ mask \subseteq IRQs /\ irr \subseteq {0, 1, 12} /\ isr \subseteq IRQs
  /\ enabled \in BOOLEAN
  /\ frames \in Seq((0 .. 255) \X {"call", "slave", "master", "iretq", "hlt"})
  /\ timer_ticks \in 0 .. TICKS - 1 /\ ticked \in 0 .. TICKS - 1
  /\ full \in {0, 1, 12} /\ owed \subseteq irr

\* The handlers never nest: what the drivers and the scheduler change, they change
\* without another handler in between.
NotNested == Len(frames) <= 1

\* Nothing is in service once the handler has returned, not even after a request that
\* vanished: neither controller holds back the requests that come next.
NothingLeftInService == frames = <<>> => isr = {}

\* The only number in service, besides the cascade, is that of the handler under way.
OwnService == \A i \in DOMAIN frames : isr \subseteq {2, frames[i][1] - 32}

\* What the handlers owe the controllers: handle_interrupt_cpp() ends every interrupt it
\* was called for, at both controllers where both have it, and no other.
ServiceInv == TypeOK /\ NotNested /\ NothingLeftInService /\ OwnService

\* timer_ticks counts the interrupts of the timer, and those that the table leads to the
\* timer's stub by default, each once and no others.
TicksExact ==
  timer_ticks = (ticked + (IF \E i \in DOMAIN frames :
                                frames[i][1] \in {32, 39, 47} /\ frames[i][2] = "call"
                           THEN TICKS - 1 ELSE 0)) % TICKS

\* Every byte of the keyboard and the mouse is eventually read, provided the handlers
\* keep up with the timer and no fault stops the processor.
Halted == \E i \in DOMAIN frames : frames[i][2] = "hlt"
BytesRead == ~overrun /\ full # 0 ~> full = 0 \/ Halted
=============================================================================
