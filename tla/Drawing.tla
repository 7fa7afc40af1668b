------------------------------ MODULE Drawing ------------------------------
(***************************************************************************)
(* The calls of the frame buffer, the writer and the library, one at a     *)
(* time, each checked against what it is to do.  A call that draws is      *)
(* given the memory that begins with the back buffer and goes on behind it.*)
(***************************************************************************)
EXTENDS Writer

CONSTANT Calls      \* records: op, memory, and the arguments

\* What the callers may give: a back buffer with a row for every pitch; pictures whose
\* sides are words of two bytes, as in their files, drawn where the coordinates of their
\* far edge do not wrap around (the mouse stays within 1280 x 720); a screen to scale to
\* that is not empty (Draw of Boot has the case that it is); a text whose places an int
\* holds; memory that is there; for memcpy() ranges that do not overlap; numbers of eight
\* bytes, which itoa() shortens.
Colors == 0 .. UINT32 - 1
Holds(m, values) ==
  /\ m = [k \in DOMAIN m |-> m[k]] /\ DOMAIN m \subseteq Nat
  /\ \A k \in DOMAIN m : m[k] \in values
LegalScreen(c) ==
  /\ c.fb.width \in 0 .. UINT32 - 1 /\ c.fb.height \in 0 .. UINT32 - 1
  /\ c.fb.pitch \in Nat /\ c.fb.width <= c.fb.pitch
  /\ Holds(c.memory, Colors) /\ 0 .. c.fb.height * c.fb.pitch - 1 \subseteq DOMAIN c.memory
LegalPicture(t) ==
  /\ t.width \in 1 .. UINT16 - 1 /\ t.height \in 1 .. UINT16 - 1 /\ t.top \in BOOLEAN
  /\ \A k \in 0 .. t.width * t.height - 1 : t.pixels[k] \in Colors
LegalRange(c, start) == start \in Nat /\ start .. start + c.n - 1 \subseteq DOMAIN c.memory

Legal(c) ==
  /\ c.op \in {"clear", "rect", "image", "scaled", "print"} => LegalScreen(c)
  /\ c.op \in {"clear", "rect", "print"} => c.color \in Colors
  /\ c.op \in {"rect", "image", "print"} => c.x \in Nat /\ c.y \in Nat
  /\ c.op = "rect" => c.width \in Nat /\ c.height \in Nat
  /\ c.op = "rect" => \A k \in {c.x, c.y, c.width, c.height} : k < UINT32
  /\ c.op \in {"image", "scaled"} => LegalPicture(c.tga)
  /\ c.op = "image" => c.x + c.tga.width <= UINT32 /\ c.y + c.tga.height <= UINT32
  /\ c.op = "scaled" => c.fb.width \in 1 .. UINT16 /\ c.fb.height \in 1 .. UINT16
  /\ c.op = "print" => c.text \in Seq(Int)
  /\ c.op = "print" => \A k \in {c.x + 2 * Font.width, c.fb.width + Font.width,
                                 c.y + (Len(c.text) + 1) * Font.height} : 2 * k <= UINT32
  /\ c.op \in {"memcpy", "memmove", "memset", "memcmp"} =>
       c.n \in Nat /\ Holds(c.memory, 0 .. BYTE - 1) /\ LegalRange(c, c.d)
  /\ c.op \in {"memcpy", "memmove", "memcmp"} => LegalRange(c, c.s)
  /\ c.op = "memcpy" => c.s + c.n <= c.d \/ c.d + c.n <= c.s
  /\ c.op = "memset" => c.c \in Int
  /\ c.op \in {"itoa", "itoa_hex"} => c.n \in 0 .. UINT32 * UINT32 - 1
ASSUME CallsAssumption == \A c \in Calls : Legal(c)

VARIABLES
  call,             \* the call
  memory,           \* what it reads and writes
  value,            \* what it returns, or the string it writes
  done              \* has it returned?

vars == <<call, memory, value, done>>

Init == call \in Calls /\ memory = call.memory /\ value = <<>> /\ done = FALSE

Effect(c, m) ==
  CASE c.op = "clear" -> clear(m, c.fb, c.color)
    [] c.op = "rect" -> draw_rect(m, c.fb, c.x, c.y, c.width, c.height, c.color)
    [] c.op = "image" -> draw_tga_image(m, c.fb, c.x, c.y, c.tga)
    [] c.op = "scaled" -> draw_tga_scaled(m, c.fb, 0, 0, c.fb.width, c.fb.height, c.tga)
    [] c.op = "print" -> print(m, c.fb, c.text, c.x, c.y, c.color)
    [] c.op = "memcpy" -> memcpy(m, c.d, c.s, c.n)
    [] c.op = "memmove" -> memmove(m, c.d, c.s, c.n)
    [] c.op = "memset" -> memset(m, c.d, c.c, c.n)
    [] OTHER -> m

Value(c) ==
  CASE c.op = "memcmp" -> <<memcmp(c.memory, c.d, c.s, c.n)>>
    [] c.op = "itoa" -> itoa(c.n)
    [] c.op = "itoa_hex" -> itoa_hex(c.n)
    [] OTHER -> <<>>

Return ==
  /\ ~done /\ done' = TRUE
  /\ memory' = Effect(call, memory) /\ value' = Value(call)
  /\ UNCHANGED call

Finished == done /\ UNCHANGED vars

Next == Return \/ Finished

Spec == Init /\ [][Next]_vars

Returned(ops) == done /\ call.op \in ops

-----------------------------------------------------------------------------
(* What a picture, mixed color by color, and a text are to be *)

\* The four parts of a color, alpha first, and a color of the picture as it stands.
Parts(color) ==
  <<color \div (BYTE * UINT16), (color \div UINT16) % BYTE, (color \div BYTE) % BYTE, color % BYTE>>
Upright(tga, x, y) ==
  PixelColor(tga, (IF tga.top THEN y ELSE tga.height - 1 - y) * tga.width + x)

\* Each part weighs the two colors by alpha, exactly, out of BYTE.
MixedExactly(new, src, old) ==
  LET s == Parts(src)
      o == Parts(old)
      Weighed(i) == (s[i] * s[1] + o[i] * (BYTE - s[1])) \div BYTE
  IN  CASE s[1] = 0 -> new = old
        [] s[1] = BYTE - 1 -> new = src
        [] OTHER -> Parts(new) = <<BYTE - 1, Weighed(2), Weighed(3), Weighed(4)>>

Old(p) == call.memory[p[2] * call.fb.pitch + p[1]]
New(p) == memory[p[2] * call.fb.pitch + p[1]]
Behind == {k \in DOMAIN memory : k >= call.fb.height * call.fb.pitch}
Padding == DOMAIN memory \ {p[2] * call.fb.pitch + p[1] : p \in Screen(call.fb)}

\* draw_tga_image() shows the picture upright, cut off at the edges of the screen, each
\* color mixed exactly although two are mixed in one word whose difference wraps around;
\* it changes nothing beside the picture.
ImageExact ==
  Returned({"image"}) =>
    /\ \A p \in Screen(call.fb) :
         LET x == p[1] - call.x
             y == p[2] - call.y
         IN  IF <<x, y>> \in Grid(call.tga.width, call.tga.height)
             THEN MixedExactly(New(p), Upright(call.tga, x, y), Old(p))
             ELSE New(p) = Old(p)
    /\ \A k \in Padding : memory[k] = call.memory[k]

\* draw_tga_scaled() reads only pixels of the picture, and each point of the screen shows
\* the pixel it falls into or, where the ratio is not exact, a neighbour of that one.
ScaledExact ==
  Returned({"scaled"}) =>
    LET tga == call.tga
        fb == call.fb
        Near(i, size, target) == {s \in 0 .. size - 1 :
                                    IF (size * UINT16) % target = 0 THEN s = (i * size) \div target
                                    ELSE s - ((i * size) \div target) \in {-1, 0, 1}}
    IN  /\ \A i \in 0 .. fb.width - 1 : Source(i, tga.width, fb.width) \in 0 .. tga.width - 1
        /\ \A i \in 0 .. fb.height - 1 : Source(i, tga.height, fb.height) \in 0 .. tga.height - 1
        /\ \A p \in Screen(fb) :
             \E x \in Near(p[1], tga.width, fb.width),
                y \in (IF tga.top THEN Near(p[2], tga.height, fb.height)
                       ELSE {tga.height - 1 - s :
                               s \in Near(fb.height - 1 - p[2], tga.height, fb.height)}) :
               MixedExactly(New(p), Upright(tga, x, y), Old(p))

\* Where the k-th character of a text is to stand, in characters: a row holds as many as
\* fit, a full row is ended at once, and a newline after one leaves an empty row.
Columns(c) == Max({1, (c.fb.width - c.x) \div Font.width})
SinceNewline(c, k) == k - Max({j \in 1 .. k - 1 : c.text[j] = NEWLINE} \cup {0})
EndsRow(c, j) == c.text[j] = NEWLINE \/ SinceNewline(c, j) % Columns(c) = 0
Place(c, k) ==
  <<(SinceNewline(c, k) - 1) % Columns(c), Cardinality({j \in 1 .. k - 1 : EndsRow(c, j)})>>

\* print() lays a text out in rows and columns and writes its glyphs there, the first of
\* the font for what the font lacks, and nothing else.
TextLaidOut ==
  Returned({"print"}) =>
    LET lit == UNION {LET at == Place(call, k) IN
                      {<<call.x + at[1] * Font.width + g[1], call.y + at[2] * Font.height + g[2]>> :
                         g \in Font.glyphs[IF call.text[k] \in DOMAIN Font.glyphs THEN call.text[k] ELSE 0]}
                      : k \in {j \in DOMAIN call.text : call.text[j] # NEWLINE}}
        offsets == {p[2] * call.fb.pitch + p[1] : p \in lit}
    IN  \A k \in DOMAIN memory : memory[k] = IF k \in offsets THEN call.color ELSE call.memory[k]

\* Nothing is written behind the back buffer, wherever the mouse is, but by a text that
\* is too long or too low for the screen: print() does not clip.
TextFits ==
  /\ call.x + Font.width <= call.fb.width
  /\ \A k \in DOMAIN call.text :
       call.y + (Place(call, k)[2] + 1) * Font.height <= call.fb.height
StaysInside ==
  Returned({"clear", "rect", "image", "scaled", "print"}) /\ (call.op = "print" => TextFits) =>
    \A k \in Behind : memory[k] = call.memory[k]

\* The memory functions do what their names say, memmove() for overlapping ranges too.
MemoryExact ==
  LET to == call.d .. call.d + call.n - 1
      m == call.memory
  IN  /\ Returned({"memcpy", "memmove"}) =>
           memory = [a \in DOMAIN m |-> IF a \in to THEN m[call.s + a - call.d] ELSE m[a]]
      /\ Returned({"memset"}) =>
           \A a \in DOMAIN m : memory[a] = IF a \in to THEN call.c % BYTE ELSE m[a]
      /\ Returned({"memcmp"}) =>
           \/ value = <<0>> /\ \A i \in 0 .. call.n - 1 : m[call.d + i] = m[call.s + i]
           \/ \E i \in 0 .. call.n - 1 :
                /\ \A j \in 0 .. i - 1 : m[call.d + j] = m[call.s + j]
                /\ m[call.d + i] # m[call.s + i]
                /\ value = IF m[call.d + i] < m[call.s + i] THEN <<-1>> ELSE <<1>>

\* The digits itoa_hex() writes are those of the number, the highest first; so are itoa()'s,
\* without leading zeros, for a number that its parameter can hold.
Number(digits, base) ==
  LET upTo[k \in 0 .. Len(digits)] == IF k = 0 THEN 0 ELSE upTo[k - 1] * base + digits[k]
  IN  upTo[Len(digits)]
NumbersExact ==
  /\ Returned({"itoa"}) /\ call.n < UINT32 =>
       /\ Number(value, 10) = call.n
       /\ \A i \in DOMAIN value : value[i] \in 0 .. 9
       /\ value[1] = 0 => Len(value) = 1
  /\ Returned({"itoa_hex"}) =>
       /\ Number(value, NIBBLE) = call.n
       /\ \A i \in DOMAIN value : value[i] \in 0 .. NIBBLE - 1
=============================================================================
