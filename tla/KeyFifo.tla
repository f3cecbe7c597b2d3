------------------------------ MODULE KeyFifo ------------------------------
(***************************************************************************)
(* What the keyboard promises a program about its buffer: typed codes wait *)
(* in order, the oldest makes room for the newest when the buffer is full, *)
(* and each is handed out once.  Keyboard implements this with a ring.     *)
(***************************************************************************)
EXTENDS Naturals, Sequences

CONSTANTS Code, Capacity

VARIABLES
    waiting,  \* the codes typed and not yet handed out, oldest first
    answer    \* register C: what the last command left there

fvars == <<waiting, answer>>

FInit == waiting = << >> /\ answer = 0

Typed(c) ==
    /\ waiting' = Append(IF Len(waiting) = Capacity THEN Tail(waiting) ELSE waiting, c)
    /\ UNCHANGED answer

Fetch ==
    \/ /\ waiting # << >> /\ answer' = Head(waiting) /\ waiting' = Tail(waiting)
    \/ /\ waiting = << >> /\ answer' = 0 /\ UNCHANGED waiting

\* Clearing blanks what waits: as many codes are handed out as before, all 0.
Blank == waiting' = [i \in 1 .. Len(waiting) |-> 0] /\ UNCHANGED answer

\* Asking for a key's state uses the same register.
Ask == answer' \in {0, 1} /\ UNCHANGED waiting

FNext == (\E c \in Code : Typed(c)) \/ Fetch \/ Blank \/ Ask

FSpec == FInit /\ [][FNext]_fvars
=============================================================================
