----------------------------- MODULE MCLem1802 -----------------------------
\* A screen, a font and a palette of one word each, in a memory of three
\* cells where the regions can overlap.
EXTENDS Lem1802
=============================================================================
