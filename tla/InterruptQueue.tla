--------------------------- MODULE InterruptQueue ---------------------------
(***************************************************************************)
(* What a DCPU promises about interrupts, without the processor: messages  *)
(* are handled one at a time, wait their turn in a bounded queue while     *)
(* queueing is on, and leave it oldest first.  DcpuVm implements this.     *)
(***************************************************************************)
EXTENDS Naturals, Sequences

CONSTANTS Message, Capacity

VARIABLES
    queueing,  \* messages wait instead of interrupting
    waiting,   \* the messages that wait, oldest first
    armed,     \* a handler address is set
    entering,  \* a message was taken and its handler is about to run
    stopped    \* the queue overflowed or the program died

qvars == <<queueing, waiting, armed, entering, stopped>>

QInit == /\ queueing = FALSE /\ waiting = << >> /\ armed = FALSE
         /\ entering = FALSE /\ stopped = FALSE

\* A message that finds queueing on waits, or stops the machine.
Wait(m) ==
    /\ queueing /\ ~entering /\ Len(waiting) < Capacity
    /\ waiting' = Append(waiting, m)
    /\ UNCHANGED <<queueing, armed, entering, stopped>>

Overflow ==
    /\ queueing /\ ~entering /\ Len(waiting) = Capacity /\ stopped' = TRUE
    /\ UNCHANGED <<queueing, waiting, armed, entering>>

\* Taking a message turns queueing on, at once or after a moment in which
\* nothing else can happen.
Take ==
    /\ ~queueing /\ ~entering /\ armed
    /\ \/ queueing' = TRUE /\ UNCHANGED entering
       \/ entering' = TRUE /\ UNCHANGED queueing
    /\ UNCHANGED <<armed, stopped>>

Arrive == Take /\ UNCHANGED waiting

Turn == /\ waiting # << >> /\ waiting' = Tail(waiting)
        /\ \/ Take
           \/ ~queueing /\ ~entering /\ ~armed
              /\ UNCHANGED <<queueing, armed, entering, stopped>>

Entered == /\ entering /\ entering' = FALSE /\ queueing' = TRUE
           /\ UNCHANGED <<waiting, armed, stopped>>

\* The program turns queueing on or off (IAQ, RFI), sets or clears the handler
\* (IAS), or dies on an invalid opcode.
Program ==
    /\ ~entering /\ ~stopped
    /\ \/ queueing' \in BOOLEAN /\ UNCHANGED <<armed, stopped>>
       \/ armed' \in BOOLEAN /\ UNCHANGED <<queueing, stopped>>
       \/ stopped' = TRUE /\ UNCHANGED <<queueing, armed>>
    /\ UNCHANGED <<waiting, entering>>

QNext == (\E m \in Message : Wait(m)) \/ Overflow \/ Arrive \/ Turn \/ Entered \/ Program

QSpec == QInit /\ [][QNext]_qvars
=============================================================================
