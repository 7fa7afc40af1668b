------------------------------- MODULE Writer -------------------------------
(***************************************************************************)
(* Text, src/video/writer.cpp.  A character is the number of its glyph,    *)
(* and a glyph the set of its lit pixels; a char above 127 is sign         *)
(* extended to a number no font reaches.                                   *)
(***************************************************************************)
EXTENDS Framebuffer

CONSTANT Font                \* width, height and glyphs of the PSF2 file
ASSUME FontAssumption ==
  /\ Font.width \in Nat \ {0} /\ Font.height \in Nat \ {0} /\ 0 \in DOMAIN Font.glyphs
  /\ \A u \in DOMAIN Font.glyphs : Font.glyphs[u] \subseteq Grid(Font.width, Font.height)

NEWLINE == -1

Glyph(unicode) == Font.glyphs[IF unicode \in DOMAIN Font.glyphs THEN unicode ELSE 0]

\* The pixels put_char() writes at p.
put_char(unicode, p) == {<<p[1] + g[1], p[2] + g[2]>> : g \in Glyph(unicode)}

\* A newline, and a character behind which no other fits, begin a new row.
BreaksLate(fb, char, x) == char = NEWLINE \/ x + Font.width > fb.width     \* mutant
Breaks(fb, char, x) == char = NEWLINE \/ x + Font.width + Font.width > fb.width

\* Where print() is after k characters.
Cursor(fb, text, x, y) ==
  LET at[k \in 0 .. Len(text)] ==
        IF k = 0 THEN <<x, y>>
        ELSE IF Breaks(fb, text[k], at[k - 1][1]) THEN <<x, at[k - 1][2] + Font.height>>
        ELSE <<at[k - 1][1] + Font.width, at[k - 1][2]>>
  IN  at

print(m, fb, text, x, y, color) ==
  LET printed == {k \in DOMAIN text : text[k] # NEWLINE}
      at == Cursor(fb, text, x, y)
  IN  PutPixels(m, fb, UNION {put_char(text[k], at[k - 1]) : k \in printed}, color)
=============================================================================
