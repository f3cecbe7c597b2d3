----------------------------- MODULE MCKeyboard -----------------------------
\* A keyboard of a few keys with a ring of a few cells.
EXTENDS Keyboard

SomeKeys == {LEFT_SHIFT, RIGHT_SHIFT, F8, 65}
=============================================================================
