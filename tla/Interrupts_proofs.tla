------------------------- MODULE Interrupts_proofs -------------------------
(***************************************************************************)
(* Proofs about Interrupts: whatever exceptions the code raises, whichever *)
(* requests vanish, and wherever timer_ticks wraps, handlers do not nest,  *)
(* each interrupt is ended where it has to be, and no tick is lost or      *)
(* counted twice.                                                          *)
(***************************************************************************)
EXTENDS Interrupts, TLAPS

-----------------------------------------------------------------------------
(* Counting modulo TICKS *)

LEMMA Rest ==
  ASSUME NEW n \in Nat, NEW m \in Nat \ {0}, n < m
  PROVE  n % m = n /\ (n + m) % m = n
OBVIOUS

LEMMA Counting ==
  ASSUME NEW m \in Nat \ {0}, NEW n \in 0 .. m - 1
  PROVE  /\ (n + 0) % m = n
         /\ (n + 1) % m \in 0 .. m - 1
         /\ (((n + (m - 1)) % m) + 1) % m = n
         /\ (((n + 1) % m) + (m - 1)) % m = n
<1>1. CASE n = 0
  <2>1. (m - 1) % m = m - 1 /\ (m - 1 + 1) % m = 0
    BY Rest
  <2>2. CASE m = 1
    BY <1>1, <2>2
  <2>3. CASE m # 1
    BY <1>1, <2>1, <2>3, Rest
  <2>4. QED BY <2>2, <2>3
<1>2. CASE n # 0 /\ n + 1 < m
  <2>1. (n + 1) % m = n + 1 /\ ((n - 1) + m) % m = n - 1 /\ (n - 1) % m = n - 1
    BY <1>2, Rest
  <2>2. (n + m) % m = n /\ n % m = n
    BY Rest
  <2>3. QED BY <1>2, <2>1, <2>2
<1>3. CASE n # 0 /\ n + 1 = m
  <2>1. ((n - 1) + m) % m = n - 1 /\ n % m = n /\ (0 + m) % m = 0
    BY <1>3, Rest
  <2>2. QED BY <1>3, <2>1
<1>4. QED BY <1>1, <1>2, <1>3
-----------------------------------------------------------------------------
(* The invariant *)

Steps == {"call", "slave", "master", "iretq", "hlt"}
Numbers == 0 .. 15 \cup {32, 33, 39, 44, 47}      \* of the vectors that are entered

\* What is in service while the handler of a vector has reached a step.
Serviced(vector, step) ==
  CASE vector \in {32, 33} /\ step \in {"call", "master"} -> {vector - 32}
    [] vector = 44 /\ step \in {"call", "slave"} -> {2, 12}
    [] vector = 44 /\ step = "master" -> {2}
    [] vector = 47 /\ step \in {"call", "master"} -> {2}
    [] OTHER -> {}

Counts(vector, step) == vector \in {32, 39, 47} /\ step = "call"

\* One handler at a time, at a step of its own, with the flag cleared: it has taken from
\* service what it had to, and has counted its tick or not yet.
HandlerInv ==
  \/ frames = <<>> /\ isr = {} /\ timer_ticks = ticked
  \/ \E vector \in Numbers, step \in Steps :
       /\ frames = <<<<vector, step>>>> /\ ~enabled /\ idt = Gates
       /\ (step = "slave" => vector = 44) /\ (step = "hlt" => vector \in 0 .. 15)
       /\ isr = Serviced(vector, step)
       /\ timer_ticks = IF Counts(vector, step) THEN (ticked + (TICKS - 1)) % TICKS ELSE ticked

IInv ==
  /\ TypeOK /\ HandlerInv
  /\ idt # <<>> => idt = Gates
  /\ enabled => idt # <<>>

LEMMA InvImplies == IInv => ServiceInv /\ TicksExact
<1> SUFFICES ASSUME IInv PROVE ServiceInv /\ TicksExact
  OBVIOUS
<1>1. ticked \in 0 .. TICKS - 1 /\ TICKS \in Nat \ {0} /\ TypeOK
  BY InterruptAssumption DEF IInv, TypeOK
<1>2. (ticked + 0) % TICKS = ticked
  BY <1>1, Counting
<1>3. CASE frames = <<>> /\ isr = {} /\ timer_ticks = ticked
  BY <1>1, <1>2, <1>3 DEF ServiceInv, NotNested, NothingLeftInService, OwnService, TicksExact
<1>4. ASSUME NEW vector \in Numbers, NEW step \in Steps,
             frames = <<<<vector, step>>>>, isr = Serviced(vector, step),
             timer_ticks = IF Counts(vector, step) THEN (ticked + (TICKS - 1)) % TICKS ELSE ticked
      PROVE  ServiceInv /\ TicksExact
  <2>1. Len(frames) = 1 /\ DOMAIN frames = {1} /\ frames[1] = <<vector, step>>
    BY <1>4
  <2>2. isr \subseteq {2, vector - 32}
    BY <1>4 DEF Serviced
  <2>3. NotNested /\ NothingLeftInService
    BY <2>1 DEF NotNested, NothingLeftInService
  <2>4. OwnService
    BY <2>1, <2>2 DEF OwnService
  <2>5. TicksExact
    BY <1>2, <1>4, <2>1 DEF TicksExact, Counts
  <2>6. QED BY <1>1, <2>3, <2>4, <2>5 DEF ServiceInv
<1>5. QED BY <1>3, <1>4 DEF IInv, HandlerInv

Frame == (0 .. 255) \X Steps

\* No handler, or one at a step, is a sequence of frames.
LEMMA FramesType ==
  /\ <<>> \in Seq(Frame)
  /\ \A vector \in Numbers, step \in Steps : <<<<vector, step>>>> \in Seq(Frame)
<1>1. ASSUME NEW vector \in Numbers, NEW step \in Steps PROVE <<<<vector, step>>>> \in Seq(Frame)
  <2>1. <<vector, step>> \in Frame
    BY DEF Numbers, Frame
  <2>2. QED BY <2>1
<1>2. QED BY <1>1

LEMMA InitInv == Init => IInv
<1> SUFFICES ASSUME Init PROVE IInv
  OBVIOUS
<1>1. 0 \in 0 .. TICKS - 1
  BY InterruptAssumption
<1>2. TypeOK
  BY <1>1, FramesType DEF Init, TypeOK, IRQs, Frame, Steps
<1>3. HandlerInv /\ idt = <<>> /\ enabled = FALSE
  BY DEF Init, HandlerInv
<1>4. QED BY <1>2, <1>3 DEF IInv

-----------------------------------------------------------------------------
(* What the steps are built from *)

LEMMA GatesType == Gates \in [0 .. 255 -> 0 .. TimerStub]
BY DEF Gates, TimerStub

LEMMA MinOfOne == ASSUME NEW n \in Int PROVE Min({n}) = n
BY DEF Min

\* Entering a handler from the code in between.
LEMMA Entered ==
  ASSUME IInv, NEW vector \in Numbers, enabled, frames = <<>>, Enter(vector), UNCHANGED <<overrun, idt, mask>>,
         irr' \subseteq irr, full' = full, owed' \subseteq irr', timer_ticks' = timer_ticks,
         isr' = Serviced(vector, "call"),
         ticked' = IF Counts(vector, "call") THEN (ticked + 1) % TICKS ELSE ticked
  PROVE  IInv'
<1>1. frames' = <<<<vector, "call">>>> /\ enabled' = FALSE
  BY DEF Enter
<1>2. isr = {} /\ timer_ticks = ticked /\ idt = Gates /\ TypeOK
  BY DEF IInv, HandlerInv
<1>3. ticked' \in 0 .. TICKS - 1 /\ (((ticked + 1) % TICKS) + (TICKS - 1)) % TICKS = ticked
  BY <1>2, Counting, InterruptAssumption DEF TypeOK
<1>4. TypeOK'
  <2>1. frames' \in Seq(Frame)
    BY <1>1, FramesType DEF Steps
  <2>2. isr' \subseteq IRQs
    BY DEF Numbers, Serviced, IRQs
  <2>3. timer_ticks' \in 0 .. TICKS - 1 /\ irr' \subseteq {0, 1, 12}
    BY <1>2 DEF TypeOK
  <2>4. QED BY <1>1, <1>2, <1>3, <2>1, <2>2, <2>3 DEF TypeOK, Frame, Steps
<1>5. HandlerInv'
  BY <1>1, <1>2, <1>3 DEF HandlerInv, Steps
<1>6. QED BY <1>1, <1>2, <1>4, <1>5 DEF IInv

\* A step of the handler under way.
LEMMA Advanced ==
  ASSUME IInv, NEW vector \in Numbers, NEW step \in Steps,
         frames' = <<<<vector, step>>>>, ~enabled, idt = Gates,
         step = "slave" => vector = 44, step = "hlt" => vector \in 0 .. 15,
         UNCHANGED <<overrun, idt, mask, irr, enabled, ticked, owed>>,
         full' \in {0, 1, 12}, isr' = Serviced(vector, step),
         timer_ticks' = IF Counts(vector, step) THEN (ticked + (TICKS - 1)) % TICKS ELSE ticked,
         ~Counts(vector, step)
  PROVE  IInv'
<1>1. TypeOK'
  <2>1. frames' \in Seq(Frame)
    BY FramesType
  <2>2. isr' \subseteq IRQs
    BY DEF Numbers, Serviced, IRQs
  <2>3. timer_ticks' \in 0 .. TICKS - 1
    BY DEF IInv, TypeOK
  <2>4. QED BY <2>1, <2>2, <2>3 DEF IInv, TypeOK, Frame, Steps
<1>2. HandlerInv'
  BY DEF HandlerInv
<1>3. QED BY <1>1, <1>2 DEF IInv

\* The handler under way, when there is one.
LEMMA UnderWay ==
  ASSUME IInv, frames # <<>>
  PROVE  \E vector \in Numbers, step \in Steps :
           /\ Top = <<vector, step>> /\ ~enabled /\ idt = Gates
           /\ isr = Serviced(vector, step)
           /\ (step = "slave" => vector = 44) /\ (step = "hlt" => vector \in 0 .. 15)
           /\ timer_ticks = IF Counts(vector, step) THEN (ticked + (TICKS - 1)) % TICKS ELSE ticked
           /\ \A s : Goto(s) => frames' = <<<<vector, s>>>>
           /\ SubSeq(frames, 1, Len(frames) - 1) = <<>>
<1>1. PICK vector \in Numbers, step \in Steps :
        /\ frames = <<<<vector, step>>>> /\ ~enabled /\ idt = Gates
        /\ (step = "slave" => vector = 44) /\ (step = "hlt" => vector \in 0 .. 15)
        /\ isr = Serviced(vector, step)
        /\ timer_ticks = IF Counts(vector, step) THEN (ticked + (TICKS - 1)) % TICKS ELSE ticked
  BY DEF IInv, HandlerInv
<1>2. Len(frames) = 1 /\ Top = <<vector, step>>
  BY <1>1 DEF Top
<1>3. ASSUME NEW s, Goto(s) PROVE frames' = <<<<vector, s>>>>
  BY <1>1, <1>2, <1>3 DEF Goto
<1>4. SubSeq(frames, 1, Len(frames) - 1) = <<>>
  BY <1>1, <1>2
<1>5. QED BY <1>1, <1>2, <1>3, <1>4
\* The processor acknowledges one of the requests there are.
LEMMA FirstIsOne == TypeOK /\ Requests # {} => First(Requests) \in Requests
<1> SUFFICES ASSUME TypeOK, Requests # {}
             PROVE  \E irq \in Requests : \A other \in Requests : Level(irq) <= Level(other)
  BY DEF First
<1>1. Requests \subseteq {0, 1, 12}
  BY DEF Requests, Unmasked, TypeOK
<1>2. Level(0) = 0 /\ Level(1) = 8 /\ Level(12) = 20
  BY DEF Level
<1>3. CASE 0 \in Requests
  BY <1>1, <1>2, <1>3
<1>4. CASE 0 \notin Requests /\ 1 \in Requests
  BY <1>1, <1>2, <1>4
<1>5. CASE 0 \notin Requests /\ 1 \notin Requests
  <2>1. Requests = {12}
    BY <1>1, <1>5
  <2>2. QED BY <1>2, <2>1
<1>6. QED BY <1>3, <1>4, <1>5

-----------------------------------------------------------------------------
(* The steps *)

LEMMA InitStep == IInv /\ Interrupts_init => IInv'
<1> SUFFICES ASSUME IInv, Interrupts_init PROVE IInv'
  OBVIOUS
<1>1. frames = <<>>
  <2>1. CASE frames # <<>>
    <3>1. idt = Gates /\ Gates # <<>>
      <4>1. idt = Gates
        BY <2>1, UnderWay
      <4>2. DOMAIN Gates = 0 .. 255 /\ DOMAIN <<>> = {}
        BY DEF Gates
      <4>3. 0 \in DOMAIN Gates /\ 0 \notin DOMAIN <<>>
        BY <4>2
      <4>4. QED BY <4>1, <4>3
    <3>2. QED BY <3>1 DEF Interrupts_init
  <2>2. QED BY <2>1
<1>2. isr = {} /\ timer_ticks = ticked /\ enabled = FALSE
  BY <1>1 DEF IInv, HandlerInv, Interrupts_init, TypeOK
<1>3. Unmask \subseteq IRQs
  BY DEF Unmask
<1>4. TypeOK'
  BY <1>3, GatesType DEF IInv, TypeOK, Interrupts_init
<1>5. QED BY <1>1, <1>2, <1>4 DEF IInv, HandlerInv, Interrupts_init

\* The sources change no more than what is requested.
LEMMA SourcesStep ==
  IInv /\ (Sti \/ Tick \/ \E irq \in {1, 12} : DeviceByte(irq)) => IInv'
<1>1. ASSUME IInv, Sti PROVE IInv'
  BY <1>1 DEF Sti, IInv, TypeOK, HandlerInv
<1>2. ASSUME IInv, Tick PROVE IInv'
  <2>1. irr' \subseteq {0, 1, 12} /\ owed' \subseteq irr'
    BY <1>2 DEF Tick, Unmasked, IInv, TypeOK
  <2>2. TypeOK'
    BY <1>2, <2>1 DEF Tick, IInv, TypeOK
  <2>3. HandlerInv'
    BY <1>2 DEF Tick, IInv, HandlerInv
  <2>4. QED BY <1>2, <2>2, <2>3 DEF Tick, IInv
<1>3. ASSUME IInv, NEW irq \in {1, 12}, DeviceByte(irq) PROVE IInv'
  <2>1. TypeOK'
    BY <1>3 DEF DeviceByte, IInv, TypeOK
  <2>2. HandlerInv'
    BY <1>3 DEF DeviceByte, IInv, HandlerInv
  <2>3. QED BY <1>3, <2>1, <2>2 DEF DeviceByte, IInv
<1>4. QED BY <1>1, <1>2, <1>3

\* With the flag set no handler is under way.
LEMMA Between == IInv /\ enabled => frames = <<>> /\ isr = {}
BY DEF IInv, HandlerInv

LEMMA AcknowledgeStep == IInv /\ Acknowledge => IInv'
<1> SUFFICES ASSUME IInv, Acknowledge PROVE IInv'
  OBVIOUS
<1> DEFINE irq == First(Requests)
<1>1. irq \in {0, 1, 12}
  BY FirstIsOne DEF IInv, TypeOK, Acknowledge, Requests, Unmasked
<1>2. frames = <<>> /\ isr = {} /\ enabled
  BY Between DEF Acknowledge
<1>3. Vector(irq) \in Numbers /\ (Counts(Vector(irq), "call") <=> irq = 0)
  BY <1>1 DEF Vector, Numbers, Counts
<1>4. isr' = Serviced(Vector(irq), "call")
  BY <1>1, <1>2 DEF Acknowledge, Serviced, Vector
<1>5. irr' \subseteq irr /\ owed' \subseteq irr'
  BY DEF Acknowledge, IInv, TypeOK
<1>6. QED BY <1>2, <1>3, <1>4, <1>5, Entered DEF Acknowledge

LEMMA AcknowledgeNoneStep == IInv /\ (\E irq \in Spurious : AcknowledgeNone(irq)) => IInv'
<1> SUFFICES ASSUME IInv, NEW irq \in Spurious, AcknowledgeNone(irq) PROVE IInv'
  OBVIOUS
<1>1. irq \in {7, 15}
  BY InterruptAssumption
<1>2. frames = <<>> /\ enabled
  BY Between DEF AcknowledgeNone
<1>3. Vector(irq) \in Numbers /\ Counts(Vector(irq), "call")
  BY <1>1 DEF Vector, Numbers, Counts
<1>4. isr' = Serviced(Vector(irq), "call")
  BY <1>1 DEF AcknowledgeNone, Serviced, Vector
<1>5. QED BY <1>2, <1>3, <1>4, Entered DEF AcknowledgeNone, IInv, TypeOK

LEMMA ExceptionStep == IInv /\ (\E vector \in Exceptions : Exception(vector)) => IInv'
<1> SUFFICES ASSUME IInv, NEW vector \in Exceptions, Exception(vector) PROVE IInv'
  OBVIOUS
<1>1. vector \in 0 .. 15
  BY InterruptAssumption
<1>2. vector \in Numbers /\ ~Counts(vector, "call") /\ isr' = Serviced(vector, "call")
  BY <1>1, Between DEF Numbers, Counts, Serviced, Exception
<1>3. QED BY <1>2, Entered DEF Exception, IInv, TypeOK

LEMMA DispatchStep == IInv /\ Dispatch => IInv'
<1> SUFFICES ASSUME IInv, Dispatch PROVE IInv'
  OBVIOUS
<1>1. frames # <<>> /\ Top[2] = "call"
  BY DEF Dispatch
<1>2. PICK vector \in Numbers, step \in Steps :
        /\ Top = <<vector, step>> /\ ~enabled /\ idt = Gates
        /\ isr = Serviced(vector, step)
        /\ timer_ticks = IF Counts(vector, step) THEN (ticked + (TICKS - 1)) % TICKS ELSE ticked
        /\ \A s : Goto(s) => frames' = <<<<vector, s>>>>
  BY <1>1, UnderWay
<1>3. step = "call" /\ Top[1] = vector
  BY <1>1, <1>2
<1>4. /\ (Gates[vector] \in {32, TimerStub} <=> Counts(vector, step))
      /\ Gates[vector] \in {8, 13, 14} => vector \in {8, 13, 14}
      /\ Gates[vector] = 44 <=> vector = 44
  BY <1>3 DEF Gates, TimerStub, Counts, Numbers
<1> DEFINE next == After(Gates[vector])
<1>5. frames' = <<<<vector, next>>>>
  BY <1>2, <1>3 DEF Dispatch
<1>6. /\ next \in Steps /\ ~Counts(vector, next)
      /\ next = "slave" => vector = 44
      /\ next = "hlt" => vector \in 0 .. 15
  BY <1>4 DEF After, Steps, Counts
<1>7. isr' = Serviced(vector, next)
  BY <1>2, <1>3, <1>4 DEF Dispatch, After, Serviced
<1>8. timer_ticks' = ticked
  <2>1. ticked \in 0 .. TICKS - 1 /\ TICKS \in Nat \ {0}
    BY InterruptAssumption DEF IInv, TypeOK
  <2>2. (((ticked + (TICKS - 1)) % TICKS) + 1) % TICKS = ticked
    BY <2>1, Counting
  <2>3. QED BY <1>2, <1>3, <1>4, <2>2 DEF Dispatch
<1>9. full' \in {0, 1, 12}
  BY DEF Dispatch, IInv, TypeOK
<1>10. QED BY <1>2, <1>5, <1>6, <1>7, <1>8, <1>9, Advanced DEF Dispatch

\* Each controller takes the interrupt it has from service, if it has one.
LEMMA EndStep == IInv /\ (SlaveEoi \/ MasterEoi) => IInv'
<1> SUFFICES ASSUME IInv, SlaveEoi \/ MasterEoi PROVE IInv'
  OBVIOUS
<1>1. frames # <<>> /\ Top[2] \in {"slave", "master"}
  BY DEF SlaveEoi, MasterEoi
<1>2. PICK vector \in Numbers, step \in Steps :
        /\ Top = <<vector, step>> /\ ~enabled /\ idt = Gates
        /\ isr = Serviced(vector, step) /\ (step = "slave" => vector = 44)
        /\ timer_ticks = IF Counts(vector, step) THEN (ticked + (TICKS - 1)) % TICKS ELSE ticked
        /\ \A s : Goto(s) => frames' = <<<<vector, s>>>>
  BY <1>1, UnderWay
<1>3. timer_ticks = ticked /\ full \in {0, 1, 12}
  BY <1>1, <1>2 DEF Counts, IInv, TypeOK
<1>4. CASE SlaveEoi
  <2>1. step = "slave" /\ vector = 44 /\ isr = {2, 12}
    BY <1>2, <1>4 DEF SlaveEoi, Serviced
  <2>2. isr \cap 8 .. 15 = {12} /\ isr' = {2}
    <3>1. isr \cap 8 .. 15 = {12}
      BY <2>1
    <3>2. QED BY <1>4, <2>1, <3>1, MinOfOne DEF SlaveEoi, EndOf
  <2>3. frames' = <<<<vector, "master">>>> /\ isr' = Serviced(vector, "master")
    BY <1>2, <1>4, <2>1, <2>2 DEF SlaveEoi, Serviced
  <2>4. "master" \in Steps /\ ~Counts(vector, "master")
    BY DEF Steps, Counts
  <2>5. QED BY <1>2, <1>3, <1>4, <2>3, <2>4, Advanced DEF SlaveEoi
<1>5. CASE MasterEoi
  <2>1. step = "master"
    BY <1>2, <1>5 DEF MasterEoi
  <2>2. isr = {} \/ \E irq \in 0 .. 7 : isr = {irq}
    BY <1>2, <2>1 DEF Serviced
  <2>3. isr' = {}
    <3>1. CASE isr = {}
      BY <1>5, <3>1 DEF MasterEoi, EndOf
    <3>2. ASSUME NEW irq \in 0 .. 7, isr = {irq} PROVE isr' = {}
      <4>1. isr \cap 0 .. 7 = {irq}
        BY <3>2
      <4>2. QED BY <1>5, <3>2, <4>1, MinOfOne DEF MasterEoi, EndOf
    <3>3. QED BY <2>2, <3>1, <3>2
  <2>4. frames' = <<<<vector, "iretq">>>> /\ isr' = Serviced(vector, "iretq")
    BY <1>2, <1>5, <2>3 DEF MasterEoi, Serviced
  <2>5. "iretq" \in Steps /\ ~Counts(vector, "iretq")
    BY DEF Steps, Counts
  <2>6. QED BY <1>2, <1>3, <1>5, <2>4, <2>5, Advanced DEF MasterEoi
<1>6. QED BY <1>4, <1>5

LEMMA IretqStep == IInv /\ Iretq => IInv'
<1> SUFFICES ASSUME IInv, Iretq PROVE IInv'
  OBVIOUS
<1>1. frames # <<>> /\ Top[2] = "iretq"
  BY DEF Iretq
<1>2. PICK vector \in Numbers, step \in Steps :
        /\ Top = <<vector, step>> /\ idt = Gates /\ isr = Serviced(vector, step)
        /\ timer_ticks = IF Counts(vector, step) THEN (ticked + (TICKS - 1)) % TICKS ELSE ticked
        /\ SubSeq(frames, 1, Len(frames) - 1) = <<>>
  BY <1>1, UnderWay
<1>3. isr' = {} /\ timer_ticks' = ticked' /\ frames' = <<>> /\ enabled' = TRUE
  BY <1>1, <1>2 DEF Iretq, Serviced, Counts
<1>4. idt # <<>>
  <2>1. 0 \in DOMAIN Gates /\ 0 \notin DOMAIN <<>>
    BY DEF Gates
  <2>2. QED BY <1>2, <2>1
<1>5. TypeOK'
  BY <1>3, FramesType DEF Iretq, IInv, TypeOK, Frame, Steps
<1>6. QED BY <1>2, <1>3, <1>4, <1>5 DEF Iretq, IInv, HandlerInv

LEMMA NextInv == IInv /\ [Next]_vars => IInv'
<1>1. ASSUME IInv, UNCHANGED vars PROVE IInv'
  BY <1>1 DEF vars, IInv, TypeOK, HandlerInv
<1>2. QED BY <1>1, InitStep, SourcesStep, AcknowledgeStep, AcknowledgeNoneStep, ExceptionStep,
             DispatchStep, EndStep, IretqStep DEF Next, Handler

LEMMA InvAlways == Spec => []IInv
BY InitInv, NextInv, PTL DEF Spec

-----------------------------------------------------------------------------
\* Handlers do not nest, and handle_interrupt_cpp() and the stubs end every interrupt at
\* the controllers that have it in service and at no other: nothing is left in service
\* when a handler has returned, whatever was requested or vanished meanwhile.
THEOREM ServiceIsEnded == Spec => []ServiceInv
BY InvAlways, InvImplies, PTL

\* timer_ticks is the number of interrupts that the table leads to a stub that counts, but
\* for the one under way, wherever the counter wraps.
THEOREM TicksAreExact == Spec => []TicksExact
BY InvAlways, InvImplies, PTL
=============================================================================
