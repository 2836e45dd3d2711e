----------------------------- MODULE MCGraphics -----------------------------
(* A narrow glyph, which has no pixels when it is small, and a wide one. *)
EXTENDS Graphics

Bitmap(g, z) == IF g = "i" THEN [w |-> z - 1, h |-> z] ELSE [w |-> z, h |-> z]
=============================================================================
