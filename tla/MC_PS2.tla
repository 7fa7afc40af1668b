------------------------------- MODULE MC_PS2 -------------------------------
(* A screen of 3 by 3 for PS2.                                              *)
EXTENDS PS2

\* Right by one with the left button down; left by one; down by two, as 254 with
\* its sign, and the right button; up by eight, whose third byte has bit 3 set.
MCPackets == {<<9, 1, 0>>, <<24, 255, 0>>, <<42, 0, 254>>, <<8, 0, 8>>}
\* A key with a character, its release, a shift key, and a code beyond the table.
MCScancodes == {30, 158, 42, 96}
\* The keyboard's interrupt and translation on; the same with the mouse disabled.
MCConfigs == {69, 101}
=============================================================================
