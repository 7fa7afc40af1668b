# Verification of the Issanium kernel

Issanium is a small x86_64 kernel (C++ and NASM, booted by Limine, run in QEMU).
This directory holds TLA+ models of it, the TLC configurations that check them
on small instances, and TLAPS proofs of what holds for every instance. Paths
below are relative to the source tree, e.g. `src/kernel/process.cpp`.

    tlc -config Memory.cfg MC_Memory  # a run; PROJECT.json lists module and cfg of each
    tlapm PS2_proofs.tla              # a module of proofs

## 1. The system

One processor, no user mode, no second core. `kmain()` (`src/kernel/main.cpp`)
initialises everything in a fixed order, turns interrupts on, creates three
processes and jumps into the first. From then on all activity is the three
processes, round robin at 100 Hz, and three interrupt handlers (timer, keyboard,
mouse), which run with interrupts disabled. Nothing is locked anywhere.

| component | state | operations | talks to |
|---|---|---|---|
| physical memory manager, `memory/pmm.cpp` | bitmap, `total_pages`, `free_pages` | `init`, `alloc`, `free` | reads the boot loader's memory map; called by VMM and heap |
| virtual memory manager, `memory/vmm.cpp` | four levels of tables, CR3, the processor's TLB | `init`, `map`, `unmap`, `virt_to_phys` | takes frames from the PMM; called by the heap |
| heap, `memory/heap.cpp` | doubly linked list of chunks, `heap_end` | `init`, `kmalloc`, `kfree`, `expand` | PMM, VMM; called by `create_process` and `Framebuffer::init` |
| processes, `kernel/process.cpp` | ring of `Process`, `current`, saved stack pointers | `create_process`, `schedule`, `start_scheduling` | heap; called by `kmain` and the timer stub |
| interrupts, `kernel/interrupts.cpp` | IDT, masks, `timer_ticks` | `Interrupts::init`, `handle_interrupt_cpp` | PIC, PIT; calls the drivers' handlers |
| stubs, `kernel/interrupt_stub.asm` | registers and stacks | one stub per vector, the timer's switches stacks | dispatcher, `schedule` |
| PS/2 mouse and keyboard, `drivers/ps2*.cpp` | packet cycle, position, buttons, `moved`; `last_key`, `pressed` | `init` (polling), `handle` (one byte) | the one PS/2 output buffer both share; read by the render loop |
| serial port, `drivers/serial.cpp` | the UART's transmitter | `serial_print`, `serial_put_char` | called by everything, by `schedule` too |
| render loop, `kernel/main.cpp` | `last_ticks`, buffers | one frame after another | reads and clears what the handlers set |
| frame buffer, `video/framebuffer.cpp` | `fb`, the back buffer | `init`, `clear`, `draw_rect`, the two blits, `update_frontbuffer` | heap; called by the render loop |
| text writer, `video/writer.cpp` | none (the font) | `init`, `put_char`, `print` | frame buffer; called by the render loop |
| library, `kernel/lib.cpp` | none | `memcpy`, `memset`, `memmove`, `memcmp`, `itoa`, `itoa_hex` | called by all |

What is hard here, and what makes each part correct:

* **Interleaving.** A tick may fall between any two instructions after `sti`:
  inside `create_process()`, before the jump of `start_scheduling()`, between
  the test of the transmitter and the write to it, between a flag of the render
  loop and the values it announces. Contexts must be neither lost nor
  duplicated, characters not dropped, movements and keys not missed.
* **Partial failure.** Frames run out in the middle of `map()` and of
  `expand()`, and neither reports it. Tables and chunk list must stay well formed
  and no frame be lost. `kmain()` tests few of its initialisations, and what it
  does after a test that failed is part of the system.
* **Ordering of bytes.** Keyboard and mouse share a port; the mouse driver
  counts bytes; `init()` polls and gives up after a timeout.
* **Bookkeeping over long sequences.** Free counts, splits and merges, shared
  page tables, the TLB, end-of-interrupt commands at two controllers.
* **Boundaries.** Page 0 as null, sizes rounded in two units, `size + 7`
  wrapping, nine-bit signed deltas, screen edges, blending in one word with a
  difference that wraps, fixed-point ratios.

`PROJECT.json` lists every hazard at its line with the properties that cover it.

## 2. The modules

| module | models | state and actions |
|---|---|---|
| `PMM` | `pmm.cpp` | the bitmap as the set of 1 bits; each iteration of `init()`'s loops an action, `Alloc`, `Free`; addresses in pages |
| `PageAllocator` | what `PMM` promises | a page is handed out only while nobody holds it |
| `VMM` | `vmm.cpp` | tables by frame; one action per level of a walk, the write of the entry and `invlpg` apart; `TLBFill`, `TLBEvict` are the processor's. Only the steps: `Memory` puts them together |
| `AddressSpace` | what `VMM` promises | the call under way and how far it is: it takes effect once, at its page, or fails and has changed nothing |
| `Memory`, `MC_Memory` | `PMM`, `VMM` and the heap's `expand()` composed, in the order of `kmain()` | each frame `VMM` or `expand()` takes is an `Alloc` or `AllocFails` of `PMM`; `VMM`'s `free` is `PMM`'s bitmap; other callers obtain, map, unmap and free |
| `Heap`, `MC_Heap` | `heap.cpp` | headers by address; the walk of `kmalloc()` chunk by chunk, `expand()` page by page with the tables `map()` needs; `Kfree` is one action with both merges |
| `BlockAllocator` | what `Heap` promises | disjoint blocks in one arena |
| `Scheduler` | `process.cpp`, end of `kmain()` | the two writes of a ring insertion are two actions (`Link`, `Relink`), `start_scheduling()` three; `Switch` is `schedule()` and the stub |
| `Boot`, `MC_Boot` | `kmain()`, `Framebuffer::init()`, `Writer::init()`, `create_process()`'s allocations | extends `Scheduler` with the steps before and around it: what the boot loader left (`env`), the part that is set up next (`phase`), the heap's last chunk (`top`) |
| `RoundRobin` | what `Scheduler` promises | turns in a fixed order, new ones right behind the current |
| `Context`, `MC_Context` | `interrupt_stub.asm` | stacks of words, the order of pushes and pops, the calls |
| `Interrupts` | `interrupts.cpp` | gates and masks as `init()` leaves them; dispatcher with each end-of-interrupt an action; the 8259s external |
| `PS2`, `MC_PS2` | `ps2mouse.cpp`, `ps2keyboard.cpp` | `init()` command by command; both handlers; the buffer they share |
| `Serial`, `MC_Serial` | `serial.cpp` | test and write of a character are two actions of every writer |
| `Library`, `Framebuffer`, `Writer` | `lib.cpp`, `framebuffer.cpp`, `writer.cpp` | functions of the memory: loops as recursive functions where the order of the writes matters, as sets of pixels where it does not |
| `Drawing` | the calls of these three | one call at a time on a memory that goes on behind the back buffer; holds the reference definitions |
| `Render` | render loop of `main.cpp` | each read of a shared variable an action, handlers in between |
| `MC_Drawing` | `Drawing` and `Render`, which share no state | the calls to check; the steps of the render loop behind one of them, so that the two state spaces add and do not multiply |

Granularity: where the code runs with interrupts disabled (handlers, stubs,
everything before `sti`), and in `Drawing`, where nothing is shared, an operation, or an iteration of it, is one step;
elsewhere every access to shared state is a step of its own. Where a thread is
saved, the frame is modelled by the thread it belongs to (`Scheduler`) and its
contents are checked apart (`Context`).

External parts (the memory map, the processor's page walk and TLB, PIC, PIT,
PS/2 controller, UART) are modelled as the code programs and uses them and are
marked so in `PROJECT.json`.

How the modules fit together: `Memory` composes `PMM` and `VMM` and shows, with
`ExpandsAsHeapAssumes`, that `expand()` on top of them does what `Heap` takes for
granted (how many frames a page costs, what happens when they run out, when it
returns), so that `Heap` may count frames instead of calling. `Boot` takes from
`Heap` what its two runs show: a first chunk that claims the arena whatever was
mapped, chunks cut from its front, and an expansion that never helps. `Context`
justifies that `Scheduler` handles a saved frame as the thread it belongs to,
`Interrupts` that handlers do not nest, `Boot` that the loop of `Render` gets turns.

History variables carry no control: `PMM.owned`, `Heap.live` (what callers
hold), `Context.own`, `clobbered` (what a thread left in its registers),
`PS2.actual` (what the mouse's reports add up to), `Interrupts.ticked`,
`Scheduler.early` (a tick switched before the jump), `Memory.arena` and `was` (the
frames `expand()` obtained, and what it had when an iteration began).

## 3. What the runs check

| run | instance | shows |
|---|---|---|
| `Memory` | 11 memory maps, 2-bit words, 4-bit pages, tables of 2 entries, heap of 2 pages growing to 3 | usable pages are partitioned and counted, the bitmap is never handed out, tables are a tree outside the kernel's half, no stale translation, every frame accounted for, a call that gets to its end did what it was asked for and one that fails changed nothing; implements `PageAllocator`, `AddressSpace` and what `Heap` assumes of `expand()` |
| `Heap` | heap of 3 pages of 4 words, header of 2 words, 5 request sizes, 5 numbers of frames | list tiles the heap, no free neighbours, used chunks are the callers' blocks, `kmalloc()` ends; implements `BlockAllocator` |
| `Boot` | 5 processes, an arena of 34 words; 7 sizes of the screen with every amount of mapped words, and every failure of the boot protocol | one ring at all times, one process RUNNING, waiting contexts are good and different; a step of `kmain()` faults or hangs only when too little was left, and then before the processes all exist; `schedule()` faults only when a tick falls into the linking of the first process, and nothing else stops but for a tick before the jump; otherwise, without one, all run for ever and the screen is drawn; implements `RoundRobin` |
| `Serial` | 2 threads and `schedule()`, texts of 3 | no overrun, every text complete and in order, `schedule()` returns |
| `Context` | 3 threads, 4 kinds of vectors | registers and stacks survive every switch; no deadlock, so every stub ends |
| `PS2` | screen 3x3, 4 packets, 4 scan codes, 2 configurations | driver in step with the mouse, position exact, bytes reach their own driver, reports complete, `init()` ends |
| `Interrupts` | timer, keyboard, mouse, spurious 7 and 15, exceptions 0 and 14, ticks modulo 4 | no nesting, every interrupt ended at the right controllers and no other, ticks exact across the wrap, every byte read |
| `Drawing` | screens up to 7x5, one with padded rows, bytes of 4 values, a font of 3 glyphs, texts of up to 4 characters and one of 10 | pictures upright, clipped and exactly blended, scaling within the picture and the right pixel, texts in rows and columns, nothing written behind the back buffer, library functions exact; render loop (screen 2x1, 2 keys, 2 ticks): nothing announced is missed, and a mouse that comes to rest reaches the screen, in one frame |
| `Heap_expand`, `Boot_tick`, `Scheduler_jump`, `Context_code` | | counterexamples, section 6 |

Why the bounds are enough:

* `Memory`: the maps were chosen by case: none, nothing usable, a region too small
  for the bitmap before one that fits, none that fits, unsorted with a hole at
  page 0, and regions of which frames are left for the root only, for some tables
  of the heap's first page, for one heap page, for all. A word of 2 bits and a page
  of 4 make both roundings of the bitmap's size matter; two entries per table is
  the least with an upper half, and with it the third heap page needs a new table.
  The other callers hold one frame at a time (`MaxHeld`) besides all the heap's.
* `Heap`: three pages hold up to five chunks, so a merge meets every pattern of
  used and free neighbours; the requests are 0, one that must be rounded, a
  chunk's worth, one too large for the heap, one whose rounding wraps (`SIZE_T`
  = 64). The frames run out before, inside and after `init()`.
* `Boot`: creation and ticks interleave fully with three processes, as in the
  code; five only makes the ring longer, and the proofs cover every number. The
  screens leave a chunk, a word too few for one, nothing, or too little for the
  processes, or exceed the heap; the mapped words end everywhere.
* `Context`: a switch relates two threads; the third can come in between. The
  vectors are one of each kind of stub.
* `PS2`: a handler's state is three bytes. `MaxSent` = 4 lets one packet follow
  the acknowledgement and bytes of the next come in before the first is taken;
  where `init()` may be disturbed no packet has room (`MaxDisturbed` = 2), as only
  `InitEnds`, types and keys are claimed there. Position, signs and clamping meet
  both edges of a 3x3 screen.
* `Interrupts`: `MaxFrames` = 3 would let handlers nest twice; `NotNested` says
  they never do. Whether handlers may take longer than a timer period is chosen
  in the first state (`overrun`).
* `Drawing`: carries and borrows between the colors of a word depend on the widths'
  ratio only, so bytes of 4 values (`NIBBLE` = 2, half a byte each)
  meet every kind: every color is blended over a quarter of all colors. Calls lie inside, across and beyond
  each edge; ratios are below, at and above one, exact and not. The numbers go past `UINT32`
  (256), where `itoa()` loses the high word and `itoa_hex()` does not.
* `Drawing`, render loop: two positions and two buttons' states tell every field that is read
  from the one read before it.

Deadlock is checked except in `PS2` and `Interrupts`, where the system may really
stop: input may cease, a fault handler halts the processor.

Fairness, and why the code justifies it: the processor executes what is next
(weak fairness of the steps of a call, a handler, a stub, `kmain()`); the timer
once programmed ticks for ever and no process disables interrupts
(`WF(Ticks)`); the drawing process, in turn again and again,
executes between two ticks (`SF(Draw)`); the UART sends what it holds; the interrupt request line is
looked at after every instruction, so that a request that is pending again and
again is taken (`SF(Acknowledge)`); the mouse's byte gets into the shared buffer
again and again (`SF(MouseByte)`). The render loop is assumed to get turns, which
is `ComesUp` of `Boot`. Callers are never forced to call: no
fairness of `Kmalloc` or `Report`, and none at all in `Memory`. `Serial` assumes nothing of the
threads, only of `schedule()`, since how much time is left between ticks depends
on how long `schedule()` prints.

Three liveness properties have premises: `ComesUp` (the kernel was left what it
needs and no tick before the jump; otherwise see section 6), `ReportsComplete` (undisturbed `init()`) and
`BytesRead` (handlers keep up with the timer; a fault may halt the processor).

## 4. What is proved

For every value of the constants allowed by the named `ASSUME`s:

* `Memory_proofs`, first part, `PMM` alone: `TypeOK`, `PagesAccounted`, `BitmapKept`,
  `BitmapInUsableMemory`, and `Spec => Allocator!Spec`.
  Assumed of the memory map is what the protocol guarantees (`MemMapAssumption`).
  The properties are not inductive: they speak of the end of `init()`. `IInv`
  adds, per phase, what the bitmap holds: all ones and `total_pages` above every
  entry passed (`ScanInv`), zeros exactly where step 4 has been (`ClearInv`),
  usable less what step 5 has taken (`MarkInv`).
* `Memory_proofs`, second part, `PMM`, `VMM` and `expand()` composed, for any tables
  and pages: `PageTablesInv`, `NoStaleTranslation`, `CallTakesEffect`,
  `FramesAccounted`, `PagesAccounted` and `BitmapKept` once more for the
  composition, `ImplementsAllocator` and `ImplementsAddressSpace`. The tables are
  taken as functions of contents and root; the lemmas say that linking an empty table
  and writing a last-level entry keep a tree a tree, and change the translation of
  no page and of one page. The refinement maps a walk to a call under way, the write of
  the entry to the moment it takes effect and `invlpg` to its return; a walk that gives
  up must then be a call that failed: `SpaceStep` has one case for each (`CallBegins`,
  `CallGoesOn`), and `NothingBelow` shows that an `unmap()` that finds no table had
  nothing to unmap. `MInv` is `IInv` and, besides the tree (`TablesInv`),
  who owns each frame (`OwnersInv`), what the call under way is about and whether its
  page was mapped (`CallInv`), what the TLB may hold (`TLBInv`), where translations
  lead (`LeavesInv`), and which of the frames `expand()` obtained its pages have
  (`ArenaInv`): without the last two, a frame could be mapped twice or freed
  while it is mapped. Assumed of the constants: `VMMAssumption`, and that the heap has
  its pages to itself (`HeapAssumption`).
* `Heap_proofs`: `TypeOK`, `ChunksTileArena`, `NoFreeNeighbours`,
  `LiveBlocksBacked`, `NothingMappedAtEnd`, `ExpandsOnlyWhenFull`,
  `LiveBlocksStay`, and `Spec => Blocks!Spec`. The lemmas say what each
  manipulation of the list does (`AlignedCovers`, `MarkList`, `AbsorbList`,
  `SplitListOK`, `FreeList`); `IInv` adds where the walk may be and that every
  chunk before it was too small.
* `Boot_proofs`, first part, `Scheduler` alone: `TypeOK`, `SwitchSafe`,
  `OwnContexts`, `OneRing`, `ImplementsRoundRobin`, for every number of
  processes. The heart of the first three is
  `Slots`: until the jump `kmain()`'s thread has the first process's place in the
  ring and every other frame is its owner's; after it every waiting frame is its
  owner's as long as the frame jumped to was good (`FirstFrame`). That of the others
  is `RingOrder`, which says where each link leads; what k ticks reach from it
  (`Steps`) is shown for every k by taking the least k for which it fails
  (`LeastElement`), which needs no induction theorem with an operator.
* `Boot_proofs`, second part: `BootSpec => Spec` of `Scheduler`, step by step, and with it
  `SwitchSafe`, `OneRing` and `ImplementsRoundRobin` for the whole boot, whatever fails
  in it; and `BootSafe`, for any
  number of processes and any sizes: what `kmain()`'s steps need, and that every other
  stop is a tick before the jump, in `schedule()` only while the first process is
  being linked (`StopsEarly`). `BootInv` adds where the last chunk begins
  (`TopInv`: behind exactly what `kmain()` has asked for, its header in mapped pages,
  or nowhere) and what has been tested by a phase (`TestedInv`).
* `PS2_proofs`: `InSync`, `PositionExact` and, where the boot loader left the keyboard's
  interrupt on (`KeyboardOn`, a hypothesis: nothing in the kernel turns it on),
  `RoutingInv`, for any screen, packets, keys and configurations. Two invariants carry
  it: `Control` says, for each step of an undisturbed `init()`, what the controller
  can hold, so that the byte that is read is the one waited for; `Stream` that the
  bytes on their way are whole packets from the driver's `cycle` on (`InOrder`) and
  that a sequence of positions leads along them from the driver's to the reported one
  (`Path`). A report makes the path longer at one end, the driver shortens it at
  the other.
* `Interrupts_proofs`: `ServiceInv`, `TicksExact`, for any exceptions, spurious
  requests and width of the counter. `HandlerInv` says for each step of each vector
  what is still in service and whether its tick is counted.
* `Context_proofs`: `RegistersKept`, `StacksInv`, for any threads and vectors.
  `StubInv` says how much of a frame is on the stack at each step of a stub;
  `Framed` what a waiting thread's frame holds. That the pops reverse the pushes is
  `PopsReversePushes`.
* `Serial_proofs`: `TypeOK`, `NeverOverrun` for any number of threads, and from
  it that no character is ever dropped (`NothingDropped`). The invariant counts
  the writers that have passed the test and not yet written. `TextsInOrder` speaks
  of the first character that waits; `InOrder` strengthens it to every place of
  the transmitter (each character follows the writer's previous one, which waits
  before it or was the last to leave) and to the character each writer is at.
* `Drawing_proofs`, first part, what is drawn: `ImageExact`, `ScaledExact`, `TextLaidOut`,
  `StaysInside`, `MemoryExact`, `NumbersExact`, for every screen, picture, font, text, range of
  memory, number and width of a byte. A call is one step, so that `IInv` only says
  that a call that has returned returned what the functions compute; the lemmas say
  what they compute. A recursive function is opened by saying in closed form
  what a loop has done after k rounds: that satisfies the equation, and whatever does
  agrees with it, shown for the set of those k (`Induction`, from `LeastElement`).
  Blending rests on `%` and `\div` of words that hold several colors. Assumed is
  that the calls are `Legal`: a picture's far edge does not wrap around
  (the mouse stays within 1280 x 720, a picture's sides are words of two bytes), nor do a
  rectangle's or a text's coordinates, the screen to
  scale to is not empty and no side of it exceeds 2^16, which is where the fixed-point
  ratio becomes coarser than a pixel, `memcpy()`'s ranges do not overlap, and the
  memory is there. `MC_Drawing`'s calls satisfy it. `NumbersExact` claims `itoa()`'s digits
  for numbers below 2^32 (its parameter is a `uint32_t`), `itoa_hex()`'s below 2^64.
* `Drawing_proofs`, second part, when it is drawn: `TypeOK` and `NothingMissed` of
  `Render`, with the three parts of the latter (`MovesKept`, `KeysKept`, `TicksKept`),
  for any screen and keys. `LoopInv` adds `FieldsRead`: while `moved` is still
  false every field read since it was cleared equals the mouse's. The module extends
  `Drawing` and `Render`, which share no name: hence `RenderInit`, `RenderSpec`.

`TypeOK` of `PMM`, `Heap`, `Scheduler`, `Serial` and `Render` (that of `PS2` is part of
`RoutingInv`, that of `VMM` of `PageTablesInv`), and
`BitmapInUsableMemory`, `ExpandsOnlyWhenFull`, `LiveBlocksStay`,
`NothingMappedAtEnd`, `OwnContexts` are proved and not repeated
in a run.

Only model-checked:

* Liveness (`BytesRead`, `KmallocEnds`, `RestShownOnce` and the other `~>`): the prover has
  no fairness and no `ENABLED`.
* `ExpandsAsHeapAssumes`. It says how many frames an iteration of `expand()` uses, page
  and tables, as `Heap` counts them: a table is needed where the page's number is
  divisible by the reach of one. For every value of the constants that needs a heap
  that starts at such a boundary, shares no table with the other callers' pages,
  and a count of the tables per iteration; `Memory_proofs` counts frames, not
  tables.

Every invariant of every passing run is proved.

`HandlerGetsCode`, `JumpStartsFirst`, `TickFindsNext` and `ExpansionSucceeds` do not hold (section 6).

## 5. What is not modelled

* Time: that `schedule()` prints some 40 characters per tick, which at 38400
  baud is longer than a tick on a real UART, is a hazard no module expresses: nothing in
  the repository says at which speed the processes are to advance.
* Calls against the interface (`PMM::free` or `kfree` twice, texts that do not fit
  the screen, requests of `kmalloc()` that wrap around and are given a block too small,
  arguments that wrap around): `free` and `kfree` have no caller, those of the others
  do none of this. Such requests of `kmalloc()` are made in the run, and the list
  survives them; what they are given is not judged. Nor is a usable page 0 of the
  memory map, which the protocol does not report.
* Exceptions inside a handler. In `Interrupts` a fault interrupts a thread; one in
  `schedule()` is `Scheduler`'s: it stops the processor (`Halted`).
* The polls of `wait_write()`: a command to the controller is one step. A request that
  is latched while `init()` polls is withdrawn when its byte is read, as the data sheet
  of the 8259 has it; with an emulator that keeps the edge, the first handler would
  read a byte that is no longer there, and `InSync` would not be claimed.
* A keyboard or mouse that interferes with `init()`: `InSync`, `PositionExact`,
  `ReportsComplete` hold of an initialisation that nothing disturbs.
* The bytes of the font and of the pictures' headers: a glyph is a set of pixels, a
  picture a record. `phys_to_virt()` and the direct map: an address is its frame.
* Port I/O and processor wrappers (one instruction each), the boot protocol's
  header (vendored), build files, assets.

## 6. Where the code disagrees with what it says

* `Heap_expand`: `heap.cpp:86` promises to expand and try again. The new chunk is
  placed at `heap_end` after `expand()` has moved it past the pages it mapped, so
  its header is written to an unmapped page and the kernel halts in the page
  fault handler. `EndUnmapped` proves that the page there is never mapped. A
  back buffer of more than 4 MiB (1920x1080) is enough: `InitFramebufferFaults` of
  `Boot`, which is in the run, as `BootSafe` says what it takes to avoid it.
* `Boot_tick`: `process.cpp:57` adds a process "to a circular linked list". For the
  first, `current` is set (line 59) before its `next` (line 60), which is still null; a
  tick in between makes `schedule()` follow it, and the kernel stops in the page fault
  handler though it was left all it needs. `BootSafe` says, and `BootIsSafe` proves,
  that this is the only place where a tick finds no next process.
* `Scheduler_jump`: `process.cpp:98` promises to switch to the first process.
  A tick between `sti` and the jump puts `kmain()` into the ring in that
  process's place; its own first frame is lost, and the frame `kmain()` later
  loads is one that it was saved in itself and has left.
* `Context_code`: `interrupt_stub.asm:71` takes `[rsp + 8*7]` for the pushed error
  code. That is `r8`; the code is at `8*9`.

Smaller ones, not separate runs: `interrupts.cpp:138` calls the default gate a
safe no-op, but it counts a tick (`TicksExact` counts it); `vmm.h:13` says that
`virt_to_phys()` gets the physical address, but the mask of `vmm.cpp:153` leaves bit 63,
so that for a page mapped with `FLAG_NX` it is no address (`CallTakesEffect` claims it
for the other pages; no caller uses the flag or the function yet); the mouse's cursor is
seen in one frame after each movement only, as `main.cpp:131` clears every frame and
`render_mouse()` returns at line 42 when nothing moved (`RestShownOnce` claims the one
frame); the stubs with an
error code lose the thread's `rsi` (`RegistersKept` excepts it); `ps2mouse.h:16`
says `moved` is cleared after the redraw, it is cleared before, which is the
order that loses nothing (`NothingMissed`; the other order is its mutant);
`ps2mouse.cpp:80` expects bit 3 to detect a driver out of step, but an
acknowledgement (0xFA) has it set as well; `framebuffer.cpp:63` gives the blend
as `255 - alpha`, the code computes with 256 (`ImageExact`); `main.cpp:116` halts
without a frame buffer, but that `hlt()` returns with the next tick (`ComesUp` says
what then runs).

## 7. Plan

Done, in this order: `PMM`, `Heap`, `VMM` with their abstract specifications;
`Scheduler`, `Context`, `Serial`; `Interrupts`, `PS2`, `Render`; proofs of `PMM`,
`Heap`, `Scheduler`, `Serial`, `Render`; then `Library`, `Framebuffer`, `Writer` and
`Drawing`; `Memory`, which took over the runs of `PMM` and `VMM`; `Boot`, which took
over that of `Scheduler`; `MC_Drawing`, which took over that of `Render`; proofs of `Boot`, `Interrupts` and `Context`; of the ring and
the round robin, of `Memory` with `VMM` and its refinement, of `PS2`, and of `Drawing`
with the loops of `Library`, `Framebuffer` and `Writer`.

Every component with state is modelled. A model of time, ticks against characters
per period, could say for which rates the processes progress.

Next, proofs: the count of tables for `ExpandsAsHeapAssumes`, and the steps of the
liveness arguments that are safety (that each iteration of a loop brings its end
nearer).
