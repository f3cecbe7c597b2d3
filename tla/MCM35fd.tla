------------------------------ MODULE MCM35fd ------------------------------
\* Words that are swapped in pairs, and an image that ends in the middle of a
\* sector of two words.
EXTENDS M35fd

Swap(w) == CASE w = 1 -> 2 [] w = 2 -> 1 [] OTHER -> w
ShortImages == {<< >>, <<1, 2, 1>>}
=============================================================================
