------------------------------- MODULE Render -------------------------------
(***************************************************************************)
(* The render loop of src/kernel/main.cpp, the process that kmain() makes  *)
(* last, and what it shares with the interrupt handlers: the mouse's state *)
(* with its flag `moved', the one key with its flag `pressed', and the     *)
(* tick counter.  Nothing locks them; a handler may run between any two    *)
(* reads of the loop, and runs to its end.                                 *)
(***************************************************************************)
EXTENDS Integers

CONSTANTS
  Width, Height,   \* of the screen the mouse moves on
  Keys, NoKey,     \* characters, and '\0', which also stands for no key drawn yet
  MaxTicks         \* bound: timer interrupts

ASSUME RenderAssumption ==
  Width \in Nat \ {0} /\ Height \in Nat \ {0} /\ MaxTicks \in Nat /\ NoKey \notin Keys

VARIABLES
  mouse, moved,          \* PS2Mouse: mouse_x, mouse_y, left_pressed; moved
  last_key, pressed,     \* PS2Keyboard
  timer_ticks,           \* Interrupts
  pc,                    \* the next step of the loop
  cursor, image,         \* where and in which colour draw_rect() and draw_tga_image() drew last
  last_ticks, tick_text, \* render_ticks()'s memory, and what it drew last
  key_text,              \* what render_keypress() drew last
  back, front            \* whether a cursor is in the back buffer, and the cursor in front

shared == <<mouse, moved, last_key, pressed, timer_ticks>>
drawn == <<cursor, image, tick_text, key_text>>
buffers == <<back, front>>
loopvars == <<shared, pc, drawn, last_ticks, buffers>>

Mice == [x : 0 .. Width - 1, y : 0 .. Height - 1, left : BOOLEAN]
Steps == {"clear", "moved?", "rect left", "rect x", "rect y", "image x", "image y", "ticks?",
          "last ticks", "draw ticks", "pressed?", "draw key", "update"}
NoCursor == [x |-> -1, y |-> -1, left |-> FALSE]

\* As kmain() starts the process; the flags are FALSE and the mouse at rest.
RenderInit ==
  /\ mouse = [x |-> 0, y |-> 0, left |-> FALSE] /\ moved = FALSE
  /\ last_key = NoKey /\ pressed = FALSE /\ timer_ticks = 0
  /\ pc = "clear" /\ last_ticks = 0 /\ tick_text = 0 /\ key_text = NoKey
  /\ cursor = mouse /\ image = [x |-> 0, y |-> 0]
  /\ back = FALSE /\ front = NoCursor

-----------------------------------------------------------------------------
(* The handlers, as far as the loop sees them *)

MouseInterrupt ==
  /\ mouse' \in Mice /\ moved' = TRUE
  /\ UNCHANGED <<last_key, pressed, timer_ticks, pc, drawn, last_ticks, buffers>>

KeyboardInterrupt ==
  /\ last_key' \in Keys /\ pressed' = TRUE
  /\ UNCHANGED <<mouse, moved, timer_ticks, pc, drawn, last_ticks, buffers>>

TimerInterrupt ==
  /\ timer_ticks < MaxTicks /\ timer_ticks' = timer_ticks + 1
  /\ UNCHANGED <<mouse, moved, last_key, pressed, pc, drawn, last_ticks, buffers>>

-----------------------------------------------------------------------------
(* The loop *)

Goto(from, to) == pc = from /\ pc' = to

\* The back buffer is cleared, and the background and the title are drawn.
Clear ==
  /\ Goto("clear", "moved?")
  /\ back' = FALSE
  /\ UNCHANGED <<shared, drawn, last_ticks, front>>

\* render_mouse(): nothing if the mouse has not moved; the flag is cleared first.
SeeMoved ==
  /\ pc = "moved?" /\ pc' = IF moved THEN "rect left" ELSE "ticks?"
  /\ moved' = FALSE
  /\ UNCHANGED <<mouse, last_key, pressed, timer_ticks, drawn, last_ticks, buffers>>

\* draw_rect(mouse_x, mouse_y, 5, 5, color): the colour and the coordinates are read one
\* after the other (the order of the two coordinates is the compiler's; x comes first here).
RectField(field, from, to) ==
  /\ Goto(from, to)
  /\ cursor' = [cursor EXCEPT ![field] = mouse[field]]
  /\ UNCHANGED <<shared, image, tick_text, key_text, last_ticks, buffers>>
DrawRect ==
  \/ RectField("left", "rect left", "rect x")
  \/ RectField("x", "rect x", "rect y")
  \/ RectField("y", "rect y", "image x")

\* draw_tga_image(mouse_x, mouse_y, ...), which reads them again.
DrawImage ==
  /\ \/ Goto("image x", "image y") /\ image' = [image EXCEPT !.x = mouse.x] /\ UNCHANGED back
     \/ Goto("image y", "ticks?") /\ image' = [image EXCEPT !.y = mouse.y] /\ back' = TRUE
  /\ UNCHANGED <<shared, cursor, tick_text, key_text, last_ticks, front>>

RenderMouseFirst ==                 \* mutant: the flag is cleared after the drawing
  \/ moved /\ Goto("moved?", "rect left") /\ UNCHANGED <<shared, drawn, last_ticks, buffers>>
  \/ DrawRect \/ (DrawImage /\ pc' = "image y")
  \/ /\ Goto("image y", "ticks?") /\ moved' = FALSE
     /\ image' = [image EXCEPT !.y = mouse.y] /\ back' = TRUE
     /\ UNCHANGED <<mouse, last_key, pressed, timer_ticks, cursor, tick_text, key_text, last_ticks, front>>
  \/ SeeMoved /\ ~moved
RenderMouse == SeeMoved \/ DrawRect \/ DrawImage

\* render_ticks(): the counter is read to compare, to remember and to draw it.
SeeTicks ==
  /\ pc = "ticks?" /\ pc' = IF timer_ticks = last_ticks THEN "pressed?" ELSE "last ticks"
  /\ UNCHANGED <<shared, drawn, last_ticks, buffers>>
RememberTicks(from, to) ==
  /\ Goto(from, to)
  /\ last_ticks' = timer_ticks
  /\ UNCHANGED <<shared, drawn, buffers>>
DrawTicks(from, to) ==
  /\ Goto(from, to)
  /\ tick_text' = timer_ticks
  /\ UNCHANGED <<shared, cursor, image, key_text, last_ticks, buffers>>

RenderTicks ==
  SeeTicks \/ RememberTicks("last ticks", "draw ticks") \/ DrawTicks("draw ticks", "pressed?")

\* render_keypress(): nothing if no key was pressed; the flag is cleared first.
SeePressed(from, to) ==
  /\ Goto(from, to)
  /\ pressed' = FALSE
  /\ UNCHANGED <<mouse, moved, last_key, timer_ticks, drawn, last_ticks, buffers>>
DrawKey(from, to) ==
  /\ Goto(from, to)
  /\ key_text' = last_key
  /\ UNCHANGED <<shared, cursor, image, tick_text, last_ticks, buffers>>

RenderKeypressFirst ==              \* mutant: the flag is cleared after the drawing
  \/ (pressed /\ DrawKey("pressed?", "draw key"))
  \/ SeePressed("draw key", "update")
  \/ (~pressed /\ SeePressed("pressed?", "update"))
RenderKeypress ==
  \/ SeePressed("pressed?", IF pressed THEN "draw key" ELSE "update")
  \/ DrawKey("draw key", "update")

\* update_frontbuffer(): what the back buffer shows is shown.
Update ==
  /\ Goto("update", "clear")
  /\ front' = IF back THEN cursor ELSE NoCursor
  /\ UNCHANGED <<shared, drawn, last_ticks, back>>

Loop == Clear \/ RenderMouse \/ RenderTicks \/ RenderKeypress \/ Update

RenderNext == MouseInterrupt \/ KeyboardInterrupt \/ TimerInterrupt \/ Loop

RenderSpec == RenderInit /\ [][RenderNext]_loopvars
\* Round robin gives the loop's process its turns.
RenderFairSpec == RenderSpec /\ WF_loopvars(Loop)

-----------------------------------------------------------------------------
TypeOK ==
  /\ mouse \in Mice /\ moved \in BOOLEAN
  /\ last_key \in Keys \cup {NoKey} /\ pressed \in BOOLEAN
  /\ timer_ticks \in 0 .. MaxTicks
  /\ pc \in Steps
  /\ cursor \in Mice /\ image \in [x : 0 .. Width - 1, y : 0 .. Height - 1]
  /\ last_ticks \in 0 .. MaxTicks /\ tick_text \in 0 .. MaxTicks
  /\ key_text \in Keys \cup {NoKey}
  /\ back \in BOOLEAN /\ front \in Mice \cup {NoCursor}

\* No movement is lost: when the mouse has not moved since the flag was cleared, the
\* cursor that was drawn last, its square and its image, is the mouse, although a
\* movement may come between any two reads of it.
NoLostMove ==
  ~moved /\ pc \notin {"rect left", "rect x", "rect y", "image x", "image y"} =>
    /\ cursor = mouse
    /\ image.x = mouse.x /\ image.y = mouse.y

\* No key is lost but to a later key.
NoLostKey == ~pressed /\ pc # "draw key" => key_text = last_key

\* The number of ticks that is drawn is one the counter has had, and no older than the
\* one that is remembered: what is drawn late is drawn again.
TicksNotMissed ==
  tick_text <= timer_ticks /\ (pc # "draw ticks" => last_ticks <= tick_text)

\* Nothing that a handler announces is missed, whenever it interrupts the loop.
NothingMissed == NoLostMove /\ NoLostKey /\ TicksNotMissed

\* When the mouse comes to rest it reaches the screen where and as it rests, though the
\* movement may be announced between any two steps of the loop: in one frame.  The claim
\* ends there, as the next frame is cleared and RenderMouse draws nothing in it.
RestShownOnce ==
  \A m \in Mice : (moved /\ mouse = m) ~> (front = m \/ mouse # m)
=============================================================================
