------------------------------ MODULE Keyboard ------------------------------
(***************************************************************************)
(* The keyboard of libdcpu-vm (hwkeyboard.c).  GLFW calls back with keys   *)
(* and characters from glfwPollEvents, inside a 60 Hz hook; a program      *)
(* talks to the device with HWI; the post-cycle hook raises the interrupt. *)
(* phase says which of the three a vm_cycle has reached.                   *)
(***************************************************************************)
EXTENDS Integers, Sequences, FiniteSets

CONSTANTS
    KB_BUFFER_COUNT,   \* cells of the ring buffer
    Keys,              \* GLFW codes of the keys of the keyboard
    Chars,             \* characters GLFW reports
    Messages,          \* what a program may pass as interrupt message
    Asked,             \* what a program may pass to TEST
    ATTACH_LATE        \* the device was attached to a program that runs

\* The codes GLFW has keys for (glfw3.h).
GlfwKeys == {32, 39} \cup 44 .. 57 \cup {59, 61} \cup 65 .. 93 \cup {96, 161, 162}
              \cup 256 .. 269 \cup 280 .. 284 \cup 290 .. 314 \cup 320 .. 336 \cup 340 .. 348

ASSUME CountAssumption == KB_BUFFER_COUNT \in Nat \ {0, 1}
ASSUME InputAssumption ==
    /\ Keys \subseteq GlfwKeys /\ Chars \subseteq Nat /\ Asked \subseteq Nat
    /\ Messages \subseteq Nat /\ 0 \in Messages /\ ATTACH_LATE \in BOOLEAN

KB_PRESSED_COUNT == 146
KB_KEY_BACKSPACE == 16
KB_KEY_ENTER == 17
KB_KEY_SHIFT == 144
KB_KEY_CONTROL == 145

LEFT_SHIFT == 340
LEFT_CONTROL == 341
RIGHT_SHIFT == 344
RIGHT_CONTROL == 345
F8 == 297

\* The cursor and editing keys, which have a code each.
Plain == [k \in {259, 257, 335, 260, 261, 262, 263, 264, 265} |->
             CASE k = 259 -> KB_KEY_BACKSPACE [] k \in {257, 335} -> KB_KEY_ENTER
               [] k = 260 -> 18 [] k = 261 -> 19 [] k = 262 -> 131
               [] k = 263 -> 130 [] k = 264 -> 129 [] OTHER -> 128]
Control == {LEFT_CONTROL, RIGHT_CONTROL}
Shift == {LEFT_SHIFT, RIGHT_SHIFT}

\* tolower, for the keys of the letters.
Lower(k) == IF k \in 65 .. 90 THEN k + 32 ELSE k

VARIABLES
    buffer, buffer_idx_r, buffer_idx_w,
    pressed,            \* codes whose pressed[] is true
    modifiers,          \* the true ones of control_left, .., shift_right
    pending_interrupt, interrupt_message,
    radiation,          \* vm->radiation, which F8 toggles
    phase,
    held,               \* keys that are physically down
    regC,               \* register C of the machine
    raised,             \* message the last post-cycle hook raised, or 0
    owed                \* a key event asked for an interrupt not yet raised

ring == <<buffer, buffer_idx_r, buffer_idx_w>>
keys == <<pressed, modifiers, held, radiation>>
irq == <<pending_interrupt, interrupt_message, raised, owed>>
vars == <<ring, keys, irq, phase, regC>>

\* pending_interrupt is not initialised.
Init ==
    /\ buffer = [i \in 0 .. KB_BUFFER_COUNT - 1 |-> 0]
    /\ buffer_idx_r = 0 /\ buffer_idx_w = 0
    /\ pressed = {} /\ modifiers = {} /\ held = {} /\ radiation = FALSE
    /\ pending_interrupt \in BOOLEAN /\ interrupt_message = 0
    /\ phase = IF ATTACH_LATE THEN "poll" ELSE "first"
    /\ regC = 0 /\ raised = 0 /\ owed = FALSE

-----------------------------------------------------------------------------
(* Events *)

\* Mutant: one index too many before it wraps.
Wrap_Late(i) == IF i > KB_BUFFER_COUNT THEN 0 ELSE i

Wrap(i) == IF i >= KB_BUFFER_COUNT THEN 0 ELSE i

\* Mutant: the oldest character is not discarded.
append_to_buffer_Overrun(index) ==
    /\ buffer' = [buffer EXCEPT ![buffer_idx_w] = index]
    /\ buffer_idx_w' = Wrap(buffer_idx_w + 1) /\ UNCHANGED buffer_idx_r

append_to_buffer(index) ==
    /\ buffer' = [buffer EXCEPT ![buffer_idx_w] = index]
    /\ buffer_idx_w' = Wrap(buffer_idx_w + 1)
    /\ buffer_idx_r' = IF buffer_idx_r = buffer_idx_w' THEN Wrap(buffer_idx_r + 1)
                       ELSE buffer_idx_r

Polling == phase \in {"first", "poll"}

handle_char(c) ==
    /\ Polling /\ c < KB_PRESSED_COUNT
    /\ append_to_buffer(c)
    /\ UNCHANGED <<keys, irq, phase, regC>>

\* The code handle_key works with: F8 leaves index at 0.
Index(k) == CASE k \in DOMAIN Plain -> Plain[k]
              [] k \in Control -> KB_KEY_CONTROL
              [] k \in Shift -> KB_KEY_SHIFT
              [] k = F8 -> 0
              [] OTHER -> k

\* The entries of pressed[] that follow key k, a letter's in both cases.
Codes(k) == IF k = F8 THEN {}
            ELSE {Index(k), Lower(Index(k))} \cap 0 .. KB_PRESSED_COUNT - 1

\* Mutant: a modifier key alone decides.
SetPressed_OneSided(k, state) ==
    /\ modifiers' = IF state THEN modifiers \cup ({k} \cap (Control \cup Shift))
                    ELSE modifiers \ {k}
    /\ pressed' = IF state THEN pressed \cup Codes(k) ELSE pressed \ Codes(k)

\* Left and right modifiers count together.
SetPressed(k, state) ==
    LET side == IF k \in Control THEN Control ELSE Shift
        down == IF k \in Control \cup Shift THEN modifiers' \cap side # {} ELSE state
    IN  /\ modifiers' = IF state THEN modifiers \cup ({k} \cap (Control \cup Shift))
                        ELSE modifiers \ {k}
        /\ pressed' = IF down THEN pressed \cup Codes(k) ELSE pressed \ Codes(k)

\* GLFW reports a press of a key that is up and a release of one that is down.
handle_key(k, state) ==
    /\ Polling /\ (k \in held) = ~state
    /\ held' = IF state THEN held \cup {k} ELSE held \ {k}
    /\ SetPressed(k, state)
    /\ radiation' = IF k = F8 /\ state THEN ~radiation ELSE radiation
    /\ IF state /\ (Index(k) < 32 \/ Index(k) > 127) /\ Index(k) < KB_PRESSED_COUNT
       THEN append_to_buffer(Index(k)) ELSE UNCHANGED ring
    /\ pending_interrupt' = (pending_interrupt \/ interrupt_message # 0)
    /\ owed' = (owed \/ interrupt_message # 0)
    /\ UNCHANGED <<interrupt_message, raised, phase, regC>>

-----------------------------------------------------------------------------
(* Commands *)

\* The cycle's instruction: HWI with a command in A, or anything else.  Before
\* the first instruction the registers are 0, which is CLEAR.
Commands == phase' = "post" /\ UNCHANGED keys
AnyCommand == phase = "poll" /\ Commands

Other ==
    /\ Polling /\ Commands /\ UNCHANGED <<ring, irq, regC>>

Clear ==
    /\ Polling /\ Commands
    /\ buffer' = [i \in DOMAIN buffer |-> 0]
    /\ UNCHANGED <<buffer_idx_r, buffer_idx_w, irq, regC>>

StoreNext ==
    /\ AnyCommand
    /\ IF buffer_idx_r = buffer_idx_w THEN regC' = 0 /\ UNCHANGED ring
       ELSE /\ regC' = buffer[buffer_idx_r]
            /\ buffer_idx_r' = Wrap(buffer_idx_r + 1)
            /\ UNCHANGED <<buffer, buffer_idx_w>>
    /\ UNCHANGED irq

\* The word behind pressed[] is whatever the allocator put there.
Pressed(b) == IF b < KB_PRESSED_COUNT THEN {IF b \in pressed THEN 1 ELSE 0} ELSE {0, 1}

Test(b) ==
    /\ AnyCommand
    /\ regC' \in IF b > 0 /\ b <= KB_PRESSED_COUNT THEN Pressed(b) ELSE {0}
    /\ UNCHANGED <<ring, irq>>

SetMessage(b) ==
    /\ AnyCommand /\ interrupt_message' = b
    /\ UNCHANGED <<ring, pending_interrupt, raised, owed, regC>>

\* Mutant: the request survives the hook that served it.
Cycle_KeepsPending ==
    /\ phase = "post" /\ phase' = "poll"
    /\ raised' = IF pending_interrupt THEN interrupt_message ELSE 0
    /\ owed' = FALSE
    /\ UNCHANGED <<pending_interrupt, ring, keys, interrupt_message, regC>>

\* The post-cycle hook.
Cycle ==
    /\ phase = "post" /\ phase' = "poll"
    /\ raised' = IF pending_interrupt THEN interrupt_message ELSE 0
    /\ pending_interrupt' = FALSE /\ owed' = FALSE
    /\ UNCHANGED <<ring, keys, interrupt_message, regC>>

Next == \/ \E c \in Chars : handle_char(c)
        \/ \E k \in Keys, state \in BOOLEAN : handle_key(k, state)
        \/ Other \/ Clear \/ StoreNext
        \/ \E b \in Asked : Test(b)
        \/ \E b \in Messages : SetMessage(b)
        \/ Cycle

Spec == Init /\ [][Next]_vars

-----------------------------------------------------------------------------
(* Properties *)

Index_ == 0 .. KB_BUFFER_COUNT - 1

\* The indices stay inside the ring and every cell holds a code or a blank.
TypeOK ==
    /\ buffer \in [Index_ -> Nat] /\ buffer_idx_r \in Index_ /\ buffer_idx_w \in Index_
    /\ pressed \subseteq 0 .. KB_PRESSED_COUNT - 1 /\ modifiers \subseteq Control \cup Shift
    /\ held \subseteq Keys /\ {pending_interrupt, radiation, owed} \subseteq BOOLEAN
    /\ interrupt_message \in Messages /\ raised \in Messages
    /\ phase \in {"first", "poll", "post"} /\ regC \in Nat

\* The codes between the two indices, oldest first.
Count == IF buffer_idx_w >= buffer_idx_r THEN buffer_idx_w - buffer_idx_r
         ELSE buffer_idx_w - buffer_idx_r + KB_BUFFER_COUNT
Slot(i) == IF buffer_idx_r + i < KB_BUFFER_COUNT THEN buffer_idx_r + i
           ELSE buffer_idx_r + i - KB_BUFFER_COUNT
Waiting == [i \in 1 .. Count |-> buffer[Slot(i - 1)]]

F == INSTANCE KeyFifo WITH Code <- Chars \cup {Index(k) : k \in Keys},
        Capacity <- KB_BUFFER_COUNT - 1, waiting <- Waiting, answer <- regC

\* The ring is a queue that discards its oldest code when it is full, however
\* key events and commands interleave and wherever the indices wrap.
ImplementsFifo == F!FSpec

\* An interrupt is raised only for a key event that came after the program set
\* a message and after the last interrupt, although pending_interrupt starts
\* with whatever malloc left in it.
NoSpuriousInterrupt == [][raised' # 0 /\ phase = "post" => owed]_vars

\* TEST sees a key as down exactly while a key with that code is held, the two
\* shift and the two control keys counting as one (the two Enter keys are not
\* tracked separately).
PressedIsHeld ==
    \A c \in (pressed \cup UNION {Codes(k) : k \in Keys}) \ {KB_KEY_ENTER} :
        c \in pressed <=> \E k \in held : c \in Codes(k)

\* The ring and the table of keys stay as the commands expect them: indices
\* inside the ring, and TEST agreeing with the keys that are held.
KeyboardInv == TypeOK /\ PressedIsHeld
=============================================================================
