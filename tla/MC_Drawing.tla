----------------------------- MODULE MC_Drawing -----------------------------
(* Bytes of two bits for Drawing: colors are words of eight bits, and small *)
(* screens, pictures and texts show every edge.  The render loop, which has *)
(* no state in common with the calls, runs in the same run: its frames      *)
(* begin with clear(), and its steps are explored behind one call of it.    *)
EXTENDS Drawing, Render

MCFont ==     \* glyphs of two by two pixels: a full box, a diagonal, one dot
  [width |-> 2, height |-> 2,
   glyphs |-> [u \in 0 .. 2 |-> CASE u = 0 -> Grid(2, 2) [] u = 1 -> {<<0, 0>>, <<1, 1>>} [] u = 2 -> {<<1, 0>>}]]

FB(w, h, p) == [width |-> w, height |-> h, pitch |-> p]
\* The back buffer and two rows behind it, filled with a color.
Buffer(fb, color) == [k \in 0 .. fb.pitch * (fb.height + 2) - 1 |-> color]
TGA(w, h, depth, top, color(_)) ==
  [width |-> w, height |-> h, depth |-> depth, top |-> top, pixels |-> [k \in 0 .. w * h - 1 |-> color(k)]]

Pixel == FB(1, 1, 1)
Small == FB(3, 2, 4)          \* the pitch is longer than a row
Wide == FB(7, 5, 7)

\* Every color over every color.
Blends ==
  {[op |-> "image", fb |-> Pixel, memory |-> Buffer(Pixel, old), x |-> 0, y |-> 0,
    tga |-> TGA(1, 1, 32, TRUE, LAMBDA k : new)] : new \in 0 .. 255, old \in 192 .. 255}

\* Pictures of different colors, partly transparent, at and beyond every edge.
Pictures == {TGA(2, 3, depth, top, LAMBDA k : 40 * k + 27) : depth \in {24, 32}, top \in BOOLEAN}
Images == {[op |-> "image", fb |-> Small, memory |-> Buffer(Small, 200), x |-> x, y |-> y, tga |-> t] :
             x \in 0 .. 4, y \in 0 .. 3, t \in Pictures}
Rects == {[op |-> "rect", fb |-> Small, memory |-> Buffer(Small, 200), x |-> x, y |-> y,
           width |-> w, height |-> h, color |-> 211] : x \in 0 .. 4, y \in 0 .. 3, w \in {0, 2, 5}, h \in {1, 5}}
Clears == {[op |-> "clear", fb |-> fb, memory |-> Buffer(fb, 200), color |-> 192] : fb \in {Pixel, Small, Wide}}
Scaled == {[op |-> "scaled", fb |-> FB(w, h, w), memory |-> Buffer(FB(w, h, w), 200), tga |-> t] :
             w \in 1 .. 6, h \in 1 .. 5,
             t \in {TGA(5, 3, 24, top, LAMBDA k : 4 * k + 3) : top \in BOOLEAN}}

\* Texts of known and unknown characters with newlines, also after a full row.
Texts == UNION {[1 .. n -> {1, 2, 9, NEWLINE}] : n \in 0 .. 4} \cup {<<1, 1, 1, NEWLINE, 2, 1, 2, 1, NEWLINE, 9>>}
Prints == {[op |-> "print", fb |-> Wide, memory |-> Buffer(Wide, 200), text |-> t, x |-> x, y |-> y, color |-> 255] :
             t \in Texts, x \in {0, 1, 4, 6}, y \in {0, 3}}

Bytes == [a \in 0 .. 5 |-> <<3, 1, 2, 3, 1, 0>>[a + 1]]
Copies == {[op |-> o, memory |-> Bytes, d |-> d, s |-> s, n |-> n] :
             o \in {"memmove", "memcmp"}, d \in 0 .. 3, s \in 0 .. 3, n \in 0 .. 3}
Others == {[op |-> "memcpy", memory |-> Bytes, d |-> d, s |-> 3 - d, n |-> n] : d \in {0, 3}, n \in 0 .. 3}
          \cup {[op |-> "memset", memory |-> Bytes, d |-> d, c |-> c, n |-> n] : d \in 0 .. 2, c \in {2, 7}, n \in 0 .. 3}
Numbers == {[op |-> o, memory |-> Bytes, n |-> n] : o \in {"itoa", "itoa_hex"}, n \in 0 .. 1100 \cup {65535}}

MCCalls == Blends \cup Images \cup Rects \cup Clears \cup Scaled \cup Prints \cup Copies \cup Others \cup Numbers

FrameBegins == CHOOSE c \in Clears : c.fb = Pixel
InFrame(A) == done /\ call = FrameBegins /\ A /\ UNCHANGED vars

PictureInit == Init /\ RenderInit
PictureNext == (Next /\ UNCHANGED loopvars) \/ InFrame(RenderNext)
PictureSpec == PictureInit /\ [][PictureNext]_<<vars, loopvars>> /\ WF_<<vars, loopvars>>(InFrame(Loop))
=============================================================================
