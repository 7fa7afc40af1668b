-------------------------------- MODULE Boot --------------------------------
(***************************************************************************)
(* kmain() of src/kernel/main.cpp, from what the boot loader leaves to the *)
(* processes that run: the order in which it sets the parts up, what it    *)
(* tests and what it does not, and where a failure of one part shows.  It  *)
(* extends Scheduler with the steps before and around create_process().    *)
(*                                                                         *)
(* Nothing is freed while kmain() runs: the heap's chunks are used but for *)
(* the last, and kmalloc() cuts the next one off its front.  Offsets and   *)
(* sizes are in words of the heap.                                         *)
(***************************************************************************)
EXTENDS Scheduler

CONSTANTS
  ARENA,          \* words of the initial heap, as its first header says
  HDR,            \* words of a chunk's header
  PROC, STACK,    \* words of a Process and of its stack
  NoScreen,       \* the boot loader has no frame buffer
  Envs            \* what the boot loader may leave, see Env

\* The response to the HHDM request, the base revision, the magic number of the font,
\* the words of a screen's pixels, and the words of the arena that Heap::init() could
\* map: a prefix (Memory.tla).
Env == [response : BOOLEAN, revision : BOOLEAN, font : BOOLEAN,
        screen : Nat \cup {NoScreen}, backed : 0 .. ARENA]

ASSUME BootAssumption ==
  /\ ARENA \in Nat /\ HDR \in Nat \ {0} /\ PROC \in Nat \ {0} /\ STACK \in Nat \ {0}
  /\ HDR < ARENA /\ NoScreen \notin Nat /\ Envs \subseteq Env

VARIABLES
  env,
  phase,       \* of kmain(): the part it sets up next, "create", or where it stays
  top,         \* the last chunk's header; ARENA when that chunk is used, too
  buffer,      \* the back buffer, 0 before it is allocated
  drawn        \* of the process that draws: "no", "yes" (a frame), "#DE"

bootvars == <<env, phase, top, buffer, drawn>>
allvars == <<vars, bootvars>>

BootInit ==
  /\ Init /\ env \in Envs
  /\ phase = "memory" /\ top = 0 /\ buffer = 0 /\ drawn = "no"

Reaches(from, to) == cpu = Kmain /\ phase = from /\ phase' = to

-----------------------------------------------------------------------------
(* kmalloc(), of the last chunk *)

RoomLeftTwice(t) == ARENA - t - 2 * HDR                  \* mutant: two headers taken off
RoomLeft(t) == ARENA - t - HDR
Splits(t, size) == RoomLeft(t) > size + HDR
TopAfter(t, size) == IF Splits(t, size) THEN t + HDR + size ELSE ARENA

\* It returns: the chunk is large enough, and the header behind it lies in mapped pages.
\* What expand() maps is of no use to kmalloc(): it faults at the next header it writes
\* (Heap.tla, ExpansionSucceeds).
Gets(t, size) ==
  RoomLeft(t) >= size /\ (Splits(t, size) => t + HDR + size + HDR <= env.backed)

-----------------------------------------------------------------------------
(* kmain(), up to the processes *)

\* The HHDM response is read without a test, before the base revision is checked; then
\* the memory managers are initialised, and the heap's first header is written.
Memory ==
  /\ Reaches("memory", "revision")
  /\ env.response /\ env.backed >= HDR
  /\ UNCHANGED <<vars, env, top, buffer, drawn>>
MemoryFaults ==
  /\ cpu = Kmain /\ phase = "memory" /\ ~(env.response /\ env.backed >= HDR)
  /\ Crash /\ UNCHANGED bootvars

\* Interrupts are off: the processor stays in the hlt.
CheckRevision ==
  /\ Reaches("revision", IF env.revision THEN "devices" ELSE "off")
  /\ UNCHANGED <<vars, env, top, buffer, drawn>>

\* Interrupts::init(), PS2Mouse::init() and sti.
Devices ==
  /\ Reaches("devices", "framebuffer") /\ Sti
  /\ UNCHANGED <<env, top, buffer, drawn>>

\* Framebuffer::init(), which does not test what kmalloc() returns.
InitFramebuffer ==
  /\ env.screen # NoScreen /\ Gets(top, env.screen)
  /\ Reaches("framebuffer", "writer")
  /\ top' = TopAfter(top, env.screen) /\ buffer' = top + HDR
  /\ UNCHANGED <<vars, env, drawn>>
InitFramebufferFaults ==
  /\ cpu = Kmain /\ phase = "framebuffer"
  /\ env.screen # NoScreen /\ ~Gets(top, env.screen)
  /\ Crash /\ UNCHANGED bootvars

\* Without one, hlt; the next interrupt ends it, and kmain() goes on.
NoFramebuffer ==
  /\ env.screen = NoScreen /\ Reaches("framebuffer", "hlt")
  /\ UNCHANGED <<vars, env, top, buffer, drawn>>
Wake ==
  /\ Reaches("hlt", "writer")
  /\ UNCHANGED <<vars, env, top, buffer, drawn>>

InitWriterUntested ==         \* mutant: the font's magic number is not tested
  /\ Reaches("writer", "create")
  /\ UNCHANGED <<vars, env, top, buffer, drawn>>
\* Writer::init() loops for ever when it does not know the font.
InitWriter ==
  /\ Reaches("writer", IF env.font THEN "create" ELSE "while(1)")
  /\ UNCHANGED <<vars, env, top, buffer, drawn>>

-----------------------------------------------------------------------------
(* The processes *)

\* create_process() allocates a Process and a stack, and writes to both: the made up
\* frame to the stack's end.
TopOfStack == TopAfter(top, PROC)
Allocates ==
  /\ Gets(top, PROC) /\ Gets(TopOfStack, STACK)
  /\ TopOfStack + HDR + STACK <= env.backed

CreateProcess ==
  /\ phase = "create" /\ Allocates /\ Fill
  /\ top' = TopAfter(TopOfStack, STACK)
  /\ UNCHANGED <<env, phase, buffer, drawn>>
CreateProcessFaults ==
  /\ phase = "create" /\ At("create") /\ made < N /\ ~Allocates
  /\ Crash /\ UNCHANGED bootvars

OtherSteps ==
  /\ phase = "create" /\ UNCHANGED bootvars
  /\ Link \/ Relink \/ StartRunning \/ LoadRsp \/ Jump

\* The process kmain() creates last draws; without a screen draw_tga_scaled() divides by
\* a width of 0, and the handler returns to the same division.
Draw ==
  /\ cpu = N
  /\ drawn' = IF env.screen = NoScreen THEN "#DE" ELSE "yes"
  /\ UNCHANGED <<vars, env, phase, top, buffer>>

-----------------------------------------------------------------------------
Ticks == (TickIdle \/ Switch \/ SwitchFaults) /\ UNCHANGED bootvars

\* The processor has stopped, in a fault or with interrupts off.
Rests == (Stopped \/ (phase = "off" /\ UNCHANGED vars)) /\ UNCHANGED bootvars

KmainGoesOn ==
  \/ Memory \/ MemoryFaults \/ CheckRevision \/ Devices
  \/ InitFramebuffer \/ InitFramebufferFaults \/ NoFramebuffer \/ InitWriter
  \/ CreateProcess \/ CreateProcessFaults \/ OtherSteps

BootNext == KmainGoesOn \/ Wake \/ Ticks \/ Draw \/ Rests

BootSpec == BootInit /\ [][BootNext]_allvars

\* The processor executes; the timer, once programmed, ticks for ever, as no process
\* ever disables interrupts; between two ticks the drawing process executes.
BootFairSpec ==
  /\ BootSpec
  /\ WF_allvars(KmainGoesOn) /\ WF_allvars(Wake) /\ WF_allvars(Ticks) /\ SF_allvars(Draw)

-----------------------------------------------------------------------------
BootTypeOK ==
  /\ TypeOK /\ env \in Envs
  /\ phase \in {"memory", "revision", "devices", "framebuffer", "writer", "create",
                "off", "hlt", "while(1)"}
  /\ top \in 0 .. ARENA /\ buffer \in Nat /\ drawn \in {"no", "yes", "#DE"}

\* What kmain() asks of the heap, and whether the pages that are mapped hold it, with
\* the header of what is left.
Needed == (IF env.screen = NoScreen THEN 0 ELSE HDR + env.screen) + N * (HDR + PROC + HDR + STACK)
Able ==
  /\ env.response /\ env.revision /\ env.font
  /\ Needed <= ARENA
  /\ Needed + (IF ARENA - Needed > HDR THEN HDR ELSE 0) <= env.backed

\* If no tick switches before kmain() jumps, the kernel comes up whenever the boot loader
\* left it what it asks for: every process executes again and again, and the screen, if
\* there is one, is drawn.
ComesUp ==
  Able /\ []~early => /\ \A p \in Procs : []<>(cpu = p)
                      /\ <>(drawn = IF env.screen = NoScreen THEN "#DE" ELSE "yes")

\* The kernel faults, or hangs in a test, only when the boot loader left it too little,
\* and then its processes never all exist.  What else stops it is a tick that comes before
\* kmain() jumps: in schedule(), and then between the two writes that link the first
\* process, or in a frame whose thread has run on.  Once a process exists the whole back
\* buffer lies in pages that are mapped; and the processor stays in a hlt for good exactly
\* when interrupts were never turned on.
BootSafe ==
  /\ cpu = Faulted \/ phase \in {"off", "while(1)"} => ~Able
  /\ cpu = Halted => early /\ made = 1 /\ pc = "relink"
  /\ cpu = Wild => early
  /\ made > 0 /\ env.screen # NoScreen => buffer + env.screen <= env.backed
  /\ made = N => Able
  /\ phase = "off" <=> pc = "boot" /\ phase \notin {"memory", "revision", "devices"}

\* process.cpp:57, the processes are in "a circular linked list": schedule() finds a
\* process behind the current one at every tick, and a kernel that was left what it asks
\* for is not stopped there.
TickFindsNext == Able => cpu # Halted
=============================================================================
