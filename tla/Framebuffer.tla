---------------------------- MODULE Framebuffer ----------------------------
(***************************************************************************)
(* Drawing, src/video/framebuffer.cpp, as functions of the memory that     *)
(* begins with the back buffer and goes on behind it.  fb is the frame     *)
(* buffer: its width, its height, and the pixels from one row to the next. *)
(* A color is a word of four bytes: alpha, red, green, blue.               *)
(***************************************************************************)
EXTENDS Library

Screen(fb) == (0 .. fb.width - 1) \X (0 .. fb.height - 1)
Offset(fb, p) == p[2] * fb.pitch + p[1]

\* put_pixel() for all pixels of a set: it does not clip.
PutPixels(m, fb, pixels, color) ==
  LET at == {Offset(fb, p) : p \in pixels}
  IN  [k \in DOMAIN m |-> IF k \in at THEN color ELSE m[k]]

clear(m, fb, color) == PutPixels(m, fb, Screen(fb), color)

draw_rect_unclipped(m, fb, x, y, width, height, color) ==  \* mutant: no break at the edge
  PutPixels(m, fb, (x .. x + width - 1) \X (y .. y + height - 1), color)
\* The sums wrap around, a loop ends at the edge of the screen.
draw_rect(m, fb, x, y, width, height, color) ==
  PutPixels(m, fb,
            {p \in Screen(fb) : /\ x <= p[1] /\ p[1] < (x + width) % UINT32
                                /\ y <= p[2] /\ p[2] < (y + height) % UINT32},
            color)

-----------------------------------------------------------------------------
(* Blending *)

Alpha(c) == c \div (BYTE * UINT16)
RedBlue(c) == ((c \div UINT16) % BYTE) * UINT16 + (c % BYTE)   \* c & 0xFF00FF
Green(c) == ((c \div BYTE) % BYTE) * BYTE                      \* c & 0x00FF00
Opaque == (BYTE - 1) * BYTE * UINT16

MixUnsigned(src, dst, alpha) ==                            \* mutant: no wrap around
  (((IF src > dst THEN src - dst ELSE dst - src) * alpha) \div BYTE) + dst
\* Red and blue are mixed in one word, and the difference may wrap around.
Mix(src, dst, alpha) == ((((src - dst) * alpha) % UINT32) \div BYTE) + dst

\* What put_pixel_alpha() writes over the color bg.
Over(color, bg) ==
  LET alpha == Alpha(color) IN
  CASE alpha = 0 -> bg
    [] alpha = BYTE - 1 -> color
    [] OTHER -> RedBlue(Mix(RedBlue(color), RedBlue(bg), alpha))
                + Green(Mix(Green(color), Green(bg), alpha)) + Opaque

\* put_pixel_alpha() for every cell of a grid, at target[cell], in color[cell].
PutCells(m, fb, target, color) ==
  [k \in DOMAIN m |->
     LET hit == {c \in DOMAIN target : target[c] \in Screen(fb) /\ Offset(fb, target[c]) = k}
     IN  IF hit = {} THEN m[k] ELSE Over(color[CHOOSE c \in hit : TRUE], m[k])]

-----------------------------------------------------------------------------
(* Images: width, height, depth, whether the first row is the top, the pixels in a row *)

Grid(width, height) == (0 .. width - 1) \X (0 .. height - 1)

\* With 24 bits a pixel has no alpha.
PixelColor(tga, k) ==
  IF tga.depth = 32 THEN tga.pixels[k] ELSE Opaque + (tga.pixels[k] % (BYTE * UINT16))

DrawY(tga, y, i, height) == (IF tga.top THEN y + i ELSE y + height - 1 - i) % UINT32

draw_tga_image(m, fb, x, y, tga) ==
  LET cells == Grid(tga.width, tga.height) IN
  PutCells(m, fb, [c \in cells |-> <<(x + c[1]) % UINT32, DrawY(tga, y, c[2], tga.height)>>],
           [c \in cells |-> PixelColor(tga, c[2] * tga.width + c[1])])

\* Fixed point: the ratio has half a word behind the point.
SourceRounded(j, size, target) == (j * size + target - 1) \div target      \* mutant
Source(j, size, target) == ((j * ((size * UINT16) \div target)) % UINT32) \div UINT16

draw_tga_scaled(m, fb, x, y, width, height, tga) ==
  LET cells == Grid(width, height) IN
  PutCells(m, fb, [c \in cells |-> <<(x + c[1]) % UINT32, DrawY(tga, y, c[2], height)>>],
           [c \in cells |-> PixelColor(tga, Source(c[2], tga.height, height) * tga.width
                                               + Source(c[1], tga.width, width))])
=============================================================================
