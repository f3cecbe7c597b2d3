--------------------------- MODULE KeyboardProofs ---------------------------
(***************************************************************************)
(* Theorems about Keyboard for every ring size, set of keys, characters    *)
(* and messages: TEST agrees with the keys that are held, no interrupt is  *)
(* raised that no key asked for, and the ring implements KeyFifo.          *)
(***************************************************************************)
EXTENDS Keyboard, SequenceTheorems, TLAPS

Modifiers == Control \cup Shift

\* control_left, .., shift_right follow the keys; pressed[] is computed from
\* them and not from the keys themselves.
ModifiersAreHeld == modifiers = held \cap Modifiers

\* The value malloc left in pending_interrupt is gone before a program can
\* have set a message: after the first cycle a pending interrupt is owed.
PendingIsOwed ==
    /\ phase = "first" => interrupt_message = 0
    /\ phase = "poll" => (pending_interrupt => owed)
    /\ phase = "post" => (pending_interrupt /\ interrupt_message # 0 => owed)

KInv == KeyboardInv /\ ModifiersAreHeld

-----------------------------------------------------------------------------
(* Codes of keys *)

\* handle_key's table.
LEMMA PlainTable ==
    /\ DOMAIN Plain = {259, 257, 335, 260, 261, 262, 263, 264, 265}
    /\ Plain[259] = 16 /\ Plain[257] = 17 /\ Plain[335] = 17 /\ Plain[260] = 18
    /\ Plain[261] = 19 /\ Plain[262] = 131 /\ Plain[263] = 130 /\ Plain[264] = 129
    /\ Plain[265] = 128
  BY DEF Plain, KB_KEY_BACKSPACE, KB_KEY_ENTER

\* The index a key is appended with and the cells of pressed[] it sets.
LEMMA KeyTable ==
    ASSUME NEW k \in Keys
    PROVE  /\ k \in DOMAIN Plain => Index(k) = Plain[k]
           /\ k \in Control => Index(k) = 145
           /\ k \in Shift => Index(k) = 144
           /\ k = F8 => Index(k) = 0
           /\ k \notin DOMAIN Plain \cup Modifiers \cup {F8} => Index(k) = k
  <1> USE PlainTable DEF Control, Shift, Modifiers, F8, LEFT_SHIFT, RIGHT_SHIFT, LEFT_CONTROL,
          RIGHT_CONTROL, KB_KEY_SHIFT, KB_KEY_CONTROL
  <1>1. CASE k \in DOMAIN Plain
    BY <1>1 DEF Index
  <1>2. CASE k \in Control
    BY <1>2 DEF Index
  <1>3. CASE k \in Shift
    BY <1>3 DEF Index
  <1>4. CASE k = F8
    BY <1>4 DEF Index
  <1>5. CASE k \notin DOMAIN Plain \cup Modifiers \cup {F8}
    BY <1>5 DEF Index
  <1> QED BY <1>1, <1>2, <1>3, <1>4, <1>5

LEMMA CodeTable ==
    ASSUME NEW k \in Keys
    PROVE  /\ Index(k) \in Nat
           /\ k \in DOMAIN Plain => Codes(k) = {Plain[k]}
           /\ k \in Control => Codes(k) = {KB_KEY_CONTROL}
           /\ k \in Shift => Codes(k) = {KB_KEY_SHIFT}
           /\ k \notin DOMAIN Plain \cup Modifiers =>
                /\ k \in 65 .. 90 => Codes(k) = {k, k + 32}
                /\ k \in 32 .. 61 \cup 91 .. 96 => Codes(k) = {k}
                /\ k > 96 => Codes(k) = {}
  <1> DEFINE i == Index(k)
  <1>0. k \in GlfwKeys /\ k \in Nat
    BY InputAssumption DEF GlfwKeys
  <1>1. \A c : c \in Codes(k) <=> /\ k # F8 /\ c \in 0 .. 145
                                  /\ c = i \/ (i \in 65 .. 90 /\ c = i + 32)
    <2>1. CASE k = F8
      BY <2>1 DEF Codes
    <2>2. CASE k # F8
      <3>1. Codes(k) = {i, Lower(i)} \cap 0 .. 145
        BY <2>2 DEF Codes, KB_PRESSED_COUNT
      <3>2. Lower(i) = IF i \in 65 .. 90 THEN i + 32 ELSE i
        BY DEF Lower
      <3> HIDE DEF i
      <3> QED BY <2>2, <3>1, <3>2
    <2> QED BY <2>1, <2>2
  <1> USE DEF Control, Shift, Modifiers, F8, LEFT_SHIFT, RIGHT_SHIFT, LEFT_CONTROL,
          RIGHT_CONTROL, KB_KEY_SHIFT, KB_KEY_CONTROL
  <1> HIDE DEF i
  <1>2. CASE k \in DOMAIN Plain
    <2>1. i = Plain[k] /\ i \in {16, 17, 18, 19, 128, 129, 130, 131} /\ k # F8 /\ k > 256
      BY <1>2, KeyTable, PlainTable DEF i
    <2>2. Codes(k) = {i}
      BY <1>1, <2>1
    <2>3. k \notin Modifiers
      BY <1>2, PlainTable
    <2> QED BY <1>2, <2>1, <2>2, <2>3 DEF i
  <1>3. CASE k \in Modifiers
    <2>1. i \in {144, 145} /\ k # F8 /\ k \notin DOMAIN Plain
      BY <1>3, KeyTable, PlainTable DEF i
    <2>2. Codes(k) = {i}
      BY <1>1, <2>1
    <2>3. (k \in Control => i = 145) /\ (k \in Shift => i = 144)
      BY KeyTable DEF i
    <2> QED BY <1>3, <2>1, <2>2, <2>3 DEF i
  <1>4. CASE k = F8
    <2>1. Codes(k) = {} /\ Index(k) = 0
      BY <1>4, KeyTable DEF Codes
    <2> QED BY <1>4, <2>1, PlainTable
  <1>5. CASE k \notin DOMAIN Plain \cup Modifiers \cup {F8}
    <2>1. i = k /\ k # F8
      BY <1>5, KeyTable DEF i
    <2>2. k \in 65 .. 90 => Codes(k) = {k, k + 32}
      BY <1>0, <1>1, <2>1
    <2>3. k \in 32 .. 61 \cup 91 .. 96 => Codes(k) = {k}
      BY <1>0, <1>1, <2>1
    <2>4. k > 96 => Codes(k) = {}
      BY <1>0, <1>1, <2>1 DEF GlfwKeys
    <2> QED BY <1>0, <1>5, <2>1, <2>2, <2>3, <2>4 DEF i
  <1> QED BY <1>2, <1>3, <1>4, <1>5

\* Two keys share a code only when both are shift keys, both are control keys
\* or the code is Enter's: handle_key's table and tolower do not collide on
\* the codes GLFW has.
LEMMA CodesApart ==
    ASSUME NEW k \in Keys, NEW l \in Keys, NEW c, c \in Codes(k), c \in Codes(l),
           c # KB_KEY_ENTER
    PROVE  k = l \/ (k \in Control /\ l \in Control) \/ (k \in Shift /\ l \in Shift)
  <1> DEFINE Case(x) == \/ x \in DOMAIN Plain /\ c = Plain[x] /\ c \in 16 .. 19 \cup 128 .. 131
                        \/ x \in Control /\ c = 145
                        \/ x \in Shift /\ c = 144
                        \/ x \in 65 .. 90 /\ c \in {x, x + 32}
                        \/ x \in 32 .. 61 \cup 91 .. 96 /\ c = x
  <1>1. ASSUME NEW x \in Keys, c \in Codes(x)
        PROVE  Case(x)
    <2>0. x \in GlfwKeys
      BY InputAssumption
    <2>1. CASE x \in DOMAIN Plain
      BY <1>1, <2>1, CodeTable, PlainTable
    <2>2. CASE x \in Modifiers
      BY <1>1, <2>2, CodeTable DEF Modifiers, KB_KEY_SHIFT, KB_KEY_CONTROL
    <2>3. CASE x \notin DOMAIN Plain \cup Modifiers
      BY <1>1, <2>0, <2>3, CodeTable DEF GlfwKeys
    <2> QED BY <2>1, <2>2, <2>3
  <1>2. Case(k) /\ Case(l)
    BY <1>1
  <1>3. ASSUME k \in DOMAIN Plain, l \in DOMAIN Plain, Plain[k] = Plain[l], Plain[k] # 17
        PROVE  k = l
    BY <1>3, PlainTable
  <1>4. k \in Int /\ l \in Int
    BY InputAssumption DEF GlfwKeys
  <1> QED BY <1>2, <1>3, <1>4 DEF KB_KEY_ENTER

\* The cells a key sets are cells of pressed[].
LEMMA CodesType ==
    ASSUME NEW k \in Keys
    PROVE  Codes(k) \subseteq 0 .. KB_PRESSED_COUNT - 1
  BY DEF Codes, KB_PRESSED_COUNT

-----------------------------------------------------------------------------
(* The invariant *)

\* Indices wrap inside the ring.
LEMMA WrapType ==
    ASSUME NEW i \in Index_
    PROVE  Wrap(i + 1) \in Index_
  BY CountAssumption DEF Wrap, Index_

\* A code put into the ring keeps its type.
LEMMA AppendType ==
    ASSUME TypeOK, NEW c \in Nat, append_to_buffer(c)
    PROVE  buffer' \in [Index_ -> Nat] /\ buffer_idx_r' \in Index_ /\ buffer_idx_w' \in Index_
  BY WrapType DEF TypeOK, append_to_buffer

LEMMA KInit == Init => KInv
  <1> SUFFICES ASSUME Init PROVE KInv
    OBVIOUS
  <1>1. TypeOK
    <2>1. buffer \in [Index_ -> Nat] /\ 0 \in Index_
      BY CountAssumption DEF Init, Index_
    <2>2. phase \in {"first", "poll", "post"}
      BY DEF Init
    <2> QED BY <2>1, <2>2, InputAssumption DEF Init, TypeOK
  <1>2. PressedIsHeld /\ ModifiersAreHeld
    BY DEF Init, PressedIsHeld, ModifiersAreHeld
  <1> QED BY <1>1, <1>2 DEF KInv, KeyboardInv

\* What a key does to the table: its own codes follow it, except that a
\* modifier's follows all its keys; no other code changes.
LEMMA KeyPressed ==
    ASSUME KInv, NEW k \in Keys, NEW state \in BOOLEAN, handle_key(k, state)
    PROVE  PressedIsHeld' /\ ModifiersAreHeld'
  <1> USE DEF KInv, KeyboardInv
  <1>1. /\ held' = IF state THEN held \cup {k} ELSE held \ {k}
        /\ modifiers' = IF state THEN modifiers \cup ({k} \cap Modifiers) ELSE modifiers \ {k}
    BY DEF handle_key, SetPressed, Modifiers
  <1>2. modifiers' = held' \cap Modifiers
    BY <1>1 DEF ModifiersAreHeld
  <1>3. held \subseteq Keys /\ held' \subseteq Keys
    BY <1>1 DEF TypeOK
  <1> DEFINE side == IF k \in Control THEN Control ELSE Shift
             down == IF k \in Modifiers THEN modifiers' \cap side # {} ELSE state
  <1>4. pressed' = IF down THEN pressed \cup Codes(k) ELSE pressed \ Codes(k)
    BY DEF handle_key, SetPressed, Modifiers
  <1>5. ASSUME NEW c \in (pressed' \cup UNION {Codes(l) : l \in Keys}) \ {KB_KEY_ENTER}
        PROVE  c \in pressed' <=> \E l \in held' : c \in Codes(l)
    <2>1. c \in (pressed \cup UNION {Codes(l) : l \in Keys}) \ {KB_KEY_ENTER}
      BY <1>4, <1>5
    <2>2. c \in pressed <=> \E l \in held : c \in Codes(l)
      BY <2>1 DEF PressedIsHeld
    <2>3. CASE c \notin Codes(k)
      BY <1>1, <1>4, <2>2, <2>3
    <2>4. CASE c \in Codes(k)
      <3>1. c \in pressed' <=> down
        BY <1>4, <2>4
      <3>2. CASE k \in Modifiers
        <4>1. c \in pressed' <=> held' \cap side # {}
          BY <1>2, <3>1, <3>2 DEF Modifiers
        <4>2. \A l \in Keys : l \in side => c \in Codes(l)
          BY <2>4, <3>2, CodeTable DEF Modifiers
        <4>3. \A l \in Keys : c \in Codes(l) => l \in side
          <5>1. Control \cap Shift = {}
            BY DEF Control, Shift, LEFT_SHIFT, RIGHT_SHIFT, LEFT_CONTROL, RIGHT_CONTROL
          <5> QED BY <2>1, <2>4, <3>2, <5>1, CodesApart DEF Modifiers
        <4> QED BY <1>3, <4>1, <4>2, <4>3
      <3>3. CASE k \notin Modifiers
        <4>1. c \in pressed' <=> state
          BY <3>1, <3>3
        <4>2. \A l \in Keys : c \in Codes(l) => l = k
          BY <2>1, <2>4, <3>3, CodesApart DEF Modifiers
        <4> QED BY <1>1, <1>3, <2>4, <4>1, <4>2
      <3> QED BY <3>2, <3>3
    <2> QED BY <2>3, <2>4
  <1> QED BY <1>2, <1>5 DEF PressedIsHeld, ModifiersAreHeld

LEMMA KNext == KInv /\ [Next]_vars => KInv'
  <1> SUFFICES ASSUME KInv, [Next]_vars PROVE KInv'
    OBVIOUS
  <1> USE DEF KInv, KeyboardInv
  <1>1. ASSUME UNCHANGED keys PROVE PressedIsHeld' /\ ModifiersAreHeld'
    BY <1>1 DEF keys, PressedIsHeld, ModifiersAreHeld
  <1>2. CASE \E c \in Chars : handle_char(c)
    <2> PICK c \in Chars : handle_char(c)
      BY <1>2
    <2>1. c \in Nat /\ append_to_buffer(c)
      BY InputAssumption DEF handle_char
    <2>2. TypeOK'
      BY <2>1, AppendType DEF TypeOK, handle_char, keys, irq
    <2> QED BY <1>1, <2>2 DEF handle_char
  <1>3. CASE \E k \in Keys, state \in BOOLEAN : handle_key(k, state)
    <2> PICK k \in Keys, state \in BOOLEAN : handle_key(k, state)
      BY <1>3
    <2>1. Index(k) \in Nat /\ Codes(k) \subseteq 0 .. KB_PRESSED_COUNT - 1
      BY CodeTable, CodesType
    <2>2. buffer' \in [Index_ -> Nat] /\ buffer_idx_r' \in Index_ /\ buffer_idx_w' \in Index_
      BY <2>1, AppendType DEF TypeOK, handle_key, ring
    <2>3. pressed' \subseteq 0 .. KB_PRESSED_COUNT - 1 /\ modifiers' \subseteq Control \cup Shift
      BY <2>1 DEF TypeOK, handle_key, SetPressed
    <2>4. held' \subseteq Keys /\ {pending_interrupt', radiation', owed'} \subseteq BOOLEAN
      BY DEF TypeOK, handle_key
    <2>5. TypeOK'
      BY <2>2, <2>3, <2>4 DEF TypeOK, handle_key
    <2> QED BY <2>5, KeyPressed
  <1>4. CASE Other
    <2>1. TypeOK'
      BY <1>4 DEF Other, Commands, TypeOK, ring, keys, irq
    <2> QED BY <1>1, <1>4, <2>1 DEF Other, Commands
  <1>5. CASE Clear
    <2>1. TypeOK'
      BY <1>5 DEF Clear, Commands, TypeOK, keys, irq
    <2> QED BY <1>1, <1>5, <2>1 DEF Clear, Commands
  <1>6. CASE StoreNext
    <2>1. buffer_idx_r' \in Index_ /\ regC' \in Nat /\ UNCHANGED <<buffer, buffer_idx_w>>
      BY <1>6, WrapType DEF StoreNext, TypeOK, ring
    <2>2. TypeOK'
      BY <1>6, <2>1 DEF StoreNext, AnyCommand, Commands, TypeOK, keys, irq
    <2> QED BY <1>1, <1>6, <2>2 DEF StoreNext, AnyCommand, Commands
  <1>7. CASE \E b \in Asked : Test(b)
    <2> PICK b \in Asked : Test(b)
      BY <1>7
    <2>1. regC' \in {0, 1}
      BY DEF Test, Pressed
    <2>2. TypeOK'
      BY <2>1 DEF Test, AnyCommand, Commands, TypeOK, ring, keys, irq
    <2> QED BY <1>1, <2>2 DEF Test, AnyCommand, Commands
  <1>8. CASE \E b \in Messages : SetMessage(b)
    <2> PICK b \in Messages : SetMessage(b)
      BY <1>8
    <2>1. TypeOK'
      BY DEF SetMessage, AnyCommand, Commands, TypeOK, ring, keys
    <2> QED BY <1>1, <2>1 DEF SetMessage, AnyCommand, Commands
  <1>9. CASE Cycle
    <2>1. TypeOK'
      BY <1>9, InputAssumption DEF Cycle, TypeOK, ring, keys
    <2> QED BY <1>1, <1>9, <2>1 DEF Cycle
  <1>10. CASE UNCHANGED vars
    <2>1. TypeOK'
      BY <1>10 DEF vars, TypeOK, ring, keys, irq
    <2> QED BY <1>1, <1>10, <2>1 DEF vars
  <1> QED
    BY <1>2, <1>3, <1>4, <1>5, <1>6, <1>7, <1>8, <1>9, <1>10 DEF Next

LEMMA KInvariance == Spec => []KInv
  BY KInit, KNext, PTL DEF Spec

\* TEST agrees with the keys that are held and the ring's indices stay inside
\* it, whatever keys and commands arrive and in whatever order (handle_key,
\* append_to_buffer).
THEOREM KeyboardCorrect == Spec => []KeyboardInv
  <1>1. KInv => KeyboardInv
    BY DEF KInv
  <1> QED BY <1>1, KInvariance, PTL

-----------------------------------------------------------------------------
(* Interrupts *)

LEMMA PendingNext == KInv /\ PendingIsOwed /\ [Next]_vars => PendingIsOwed'
  <1> SUFFICES ASSUME KInv, PendingIsOwed, [Next]_vars PROVE PendingIsOwed'
    OBVIOUS
  <1> USE DEF PendingIsOwed
  <1>1. ASSUME UNCHANGED irq, phase' = phase PROVE PendingIsOwed'
    BY <1>1 DEF irq
  <1>2. CASE \E c \in Chars : handle_char(c)
    BY <1>1, <1>2 DEF handle_char
  <1>3. CASE \E k \in Keys, state \in BOOLEAN : handle_key(k, state)
    BY <1>3 DEF handle_key, Polling
  <1>4. CASE Other \/ Clear
    BY <1>4 DEF Other, Clear, Commands, Polling, irq
  <1>5. CASE StoreNext \/ \E b \in Asked : Test(b)
    BY <1>5 DEF StoreNext, Test, AnyCommand, Commands, irq
  <1>6. CASE \E b \in Messages : SetMessage(b)
    BY <1>6 DEF SetMessage, AnyCommand, Commands
  <1>7. CASE Cycle
    BY <1>7 DEF Cycle
  <1>8. CASE UNCHANGED vars
    BY <1>1, <1>8 DEF vars
  <1> QED
    BY <1>2, <1>3, <1>4, <1>5, <1>6, <1>7, <1>8 DEF Next

\* A keyboard attached before the program starts raises no interrupt that no key event asked for, although
\* pending_interrupt starts with whatever malloc left in it.
THEOREM NoSpuriousKeys == ~ATTACH_LATE /\ Spec => NoSpuriousInterrupt
  <1>1. ~ATTACH_LATE /\ Init => PendingIsOwed
    BY DEF Init, PendingIsOwed
  <1>2. PendingIsOwed /\ [Next]_vars => [raised' # 0 /\ phase = "post" => owed]_vars
    <2> SUFFICES ASSUME PendingIsOwed, Next, phase = "post", raised' # 0
                 PROVE  owed
      OBVIOUS
    <2>1. Cycle
      BY DEF Next, handle_char, handle_key, Other, Clear, StoreNext, Test, SetMessage,
             Polling, AnyCommand
    <2> QED BY <2>1 DEF Cycle, PendingIsOwed
  <1> QED BY <1>1, <1>2, KInvariance, PendingNext, PTL DEF Spec, NoSpuriousInterrupt

-----------------------------------------------------------------------------
(* The ring as a queue *)

\* What waits in the ring is a sequence as long as the ring is filled, never
\* longer than the ring without the cell that tells full from empty.
WaitingOK ==
    /\ Count \in 0 .. KB_BUFFER_COUNT - 1
    /\ \A i \in 0 .. Count : Slot(i) \in Index_
    /\ Waiting \in Seq(Nat) /\ Len(Waiting) = Count
    /\ \A i \in 1 .. Count : Waiting[i] = buffer[Slot(i - 1)]
    /\ Slot(Count) = buffer_idx_w
    /\ Slot(0) = buffer_idx_r

LEMMA WaitingType == TypeOK => WaitingOK
  <1> SUFFICES ASSUME TypeOK PROVE WaitingOK
    OBVIOUS
  <1>1. /\ Count \in 0 .. KB_BUFFER_COUNT - 1
        /\ \A i \in 0 .. Count : Slot(i) \in Index_
        /\ Slot(Count) = buffer_idx_w /\ Slot(0) = buffer_idx_r
    BY CountAssumption DEF TypeOK, Count, Slot, Index_
  <1>2. \A i \in 1 .. Count : buffer[Slot(i - 1)] \in Nat
    BY <1>1 DEF TypeOK
  <1>3. Waiting \in Seq(Nat) /\ Len(Waiting) = Count
    BY <1>1, <1>2 DEF Waiting
  <1> QED BY <1>1, <1>3 DEF Waiting, WaitingOK

LEMMA WaitingTypeNext == TypeOK' => WaitingOK'
  BY WaitingType, PTL

\* Two sequences of the same length with the same elements are the same.
LEMMA SameSeq ==
    ASSUME NEW s \in Seq(Nat), NEW t \in Seq(Nat), Len(s) = Len(t),
           \A i \in 1 .. Len(s) : s[i] = t[i]
    PROVE  s = t
  BY SeqEqual

LEMMA TypedStep ==
    ASSUME TypeOK, TypeOK', NEW c \in Nat, append_to_buffer(c), regC' = regC
    PROVE  F!Typed(c)
  <1> DEFINE n == KB_BUFFER_COUNT
             r == buffer_idx_r
             w == buffer_idx_w
             full == Count = n - 1
             old == IF full THEN Tail(Waiting) ELSE Waiting
             new == Append(old, c)
  <1>0. n \in Nat \ {0, 1} /\ r \in 0 .. n - 1 /\ w \in 0 .. n - 1
    BY CountAssumption DEF TypeOK, Index_
  <1>1. /\ buffer' = [buffer EXCEPT ![w] = c]
        /\ buffer_idx_w' = IF w + 1 >= n THEN 0 ELSE w + 1
        /\ buffer_idx_r' = IF r = buffer_idx_w' THEN (IF r + 1 >= n THEN 0 ELSE r + 1) ELSE r
    BY DEF append_to_buffer, Wrap
  <1>2. /\ full => Count' = Count /\ \A i \in 1 .. Count : (Slot(i - 1))' = Slot(i)
        /\ ~full => Count' = Count + 1 /\ \A i \in 0 .. Count : (Slot(i))' = Slot(i)
    BY <1>0, <1>1 DEF Count, Slot
  <1>3. \A i \in 0 .. Count - 1 : Slot(i) # w
    BY <1>0 DEF Count, Slot
  <1>4. /\ Waiting \in Seq(Nat) /\ Len(Waiting) = Count
        /\ Waiting' \in Seq(Nat) /\ Len(Waiting') = Count'
        /\ Count \in 0 .. n - 1 /\ buffer \in [Index_ -> Nat]
        /\ \A i \in 0 .. Count : Slot(i) \in Index_
        /\ \A i \in 1 .. Count : Waiting[i] = buffer[Slot(i - 1)]
        /\ \A i \in 1 .. Count' : Waiting'[i] = buffer'[(Slot(i - 1))']
        /\ Slot(Count) = w
    BY WaitingType, WaitingTypeNext DEF TypeOK, WaitingOK
  <1>5. Count \in Int
    BY <1>0 DEF Count
  <1> HIDE DEF n, r, w
  <1>6. CASE full
    <2>1. Count # 0 /\ Count' = Count
      BY <1>0, <1>2, <1>6
    <2>2. /\ Tail(Waiting) \in Seq(Nat) /\ Len(Tail(Waiting)) = Count - 1
          /\ \A i \in 1 .. Count - 1 : Tail(Waiting)[i] = Waiting[i + 1]
      BY <1>4, <2>1
    <2>3. /\ new \in Seq(Nat) /\ Len(new) = Count
          /\ \A i \in 1 .. Count - 1 : new[i] = Waiting[i + 1]
          /\ new[Count] = c
      BY <1>4, <1>6, <2>2
    <2>4. ASSUME NEW i \in 1 .. Count PROVE Waiting'[i] = buffer'[Slot(i)]
      BY <1>2, <1>4, <1>6, <2>1
    <2>5. Waiting'[Count] = c
      BY <1>1, <1>4, <2>1, <2>4
    <2>6. ASSUME NEW i \in 1 .. Count - 1 PROVE Waiting'[i] = Waiting[i + 1]
      <3>1. i \in 1 .. Count /\ i \in 0 .. Count - 1 /\ i + 1 \in 1 .. Count /\ (i + 1) - 1 = i
        BY <1>5
      <3>2. Waiting'[i] = buffer[Slot(i)]
        BY <1>1, <1>3, <1>4, <2>4, <3>1
      <3>3. Waiting[i + 1] = buffer[Slot((i + 1) - 1)]
        BY <1>4, <3>1
      <3> QED BY <3>1, <3>2, <3>3
    <2> HIDE DEF new
    <2>7. ASSUME NEW i \in 1 .. Len(new) PROVE new[i] = Waiting'[i]
      <3>1. i \in 1 .. Count - 1 \/ i = Count
        BY <1>4, <2>3
      <3> QED BY <2>3, <2>5, <2>6, <3>1
    <2>8. Waiting' = new
      BY <1>4, <2>1, <2>3, <2>7, SameSeq
    <2> QED BY <1>4, <1>6, <2>8 DEF F!Typed, new, n
  <1>7. CASE ~full
    <2>1. Count' = Count + 1 /\ Count \in Nat
      BY <1>2, <1>4, <1>7
    <2>2. /\ new \in Seq(Nat) /\ Len(new) = Count + 1
          /\ \A i \in 1 .. Count : new[i] = Waiting[i]
          /\ new[Count + 1] = c
      BY <1>4, <1>7
    <2>3. Waiting'[Count + 1] = c
      BY <1>1, <1>2, <1>4, <1>7, <2>1
    <2>4. ASSUME NEW i \in 1 .. Count PROVE Waiting'[i] = Waiting[i]
      BY <1>1, <1>2, <1>3, <1>4, <1>7, <2>1
    <2> HIDE DEF new
    <2>5. ASSUME NEW i \in 1 .. Len(new) PROVE new[i] = Waiting'[i]
      <3>1. i \in 1 .. Count \/ i = Count + 1
        BY <2>1, <2>2
      <3> QED BY <2>2, <2>3, <2>4, <3>1
    <2>6. Waiting' = new
      BY <1>4, <2>1, <2>2, <2>5, SameSeq
    <2> QED BY <1>4, <1>7, <2>6 DEF F!Typed, new, n
  <1> QED BY <1>6, <1>7

\* STORE_NEXT hands out the oldest code, or 0 when none waits.
LEMMA FetchStep ==
    ASSUME TypeOK, TypeOK', StoreNext
    PROVE  F!Fetch
  <1> DEFINE n == KB_BUFFER_COUNT
             r == buffer_idx_r
             w == buffer_idx_w
  <1>0. n \in Nat \ {0, 1} /\ r \in 0 .. n - 1 /\ w \in 0 .. n - 1
    BY CountAssumption DEF TypeOK, Index_
  <1>1. WaitingOK /\ WaitingOK'
    BY WaitingType, WaitingTypeNext
  <1>2. Count = 0 <=> r = w
    BY <1>0 DEF Count
  <1>3. Waiting = << >> <=> Count = 0
    BY <1>1 DEF WaitingOK
  <1>4. CASE r = w
    <2>1. Waiting = << >> /\ regC' = 0 /\ UNCHANGED ring
      BY <1>2, <1>3, <1>4 DEF StoreNext
    <2>2. Waiting' = Waiting
      BY <2>1 DEF ring, Waiting, Count, Slot
    <2> QED BY <2>1, <2>2 DEF F!Fetch
  <1>5. CASE r # w
    <2>1. /\ regC' = buffer[r] /\ buffer_idx_r' = IF r + 1 >= n THEN 0 ELSE r + 1
          /\ buffer' = buffer /\ buffer_idx_w' = w
      BY <1>5 DEF StoreNext, Wrap
    <2>2. Count \in Nat \ {0} /\ Count' = Count - 1 /\ \A i \in 1 .. Count - 1 : (Slot(i - 1))' = Slot(i)
      BY <1>0, <1>5, <2>1 DEF Count, Slot
    <2>3. /\ Waiting \in Seq(Nat) /\ Len(Waiting) = Count /\ Waiting # << >>
          /\ Waiting' \in Seq(Nat) /\ Len(Waiting') = Count - 1
          /\ Head(Waiting) = Waiting[1]
      BY <1>1, <1>3, <2>2 DEF WaitingOK
    <2>4. Waiting[1] = buffer[r]
      BY <1>1, <2>2 DEF WaitingOK
    <2>5. /\ Tail(Waiting) \in Seq(Nat) /\ Len(Tail(Waiting)) = Count - 1
          /\ \A i \in 1 .. Count - 1 : Tail(Waiting)[i] = Waiting[i + 1]
      BY <2>2, <2>3
    <2>6. ASSUME NEW i \in 1 .. Len(Tail(Waiting)) PROVE Tail(Waiting)[i] = Waiting'[i]
      <3>1. i \in 1 .. Count - 1 /\ i + 1 \in 1 .. Count /\ (i + 1) - 1 = i
        BY <2>2, <2>5
      <3>2. Waiting[i + 1] = buffer[Slot((i + 1) - 1)]
        BY <1>1, <3>1 DEF WaitingOK
      <3>3. Waiting'[i] = buffer'[(Slot(i - 1))']
        BY <1>1, <2>2, <3>1 DEF WaitingOK
      <3> QED BY <2>1, <2>2, <2>5, <3>1, <3>2, <3>3
    <2>7. Tail(Waiting) = Waiting'
      BY <2>3, <2>5, <2>6, SameSeq
    <2> QED BY <2>1, <2>3, <2>4, <2>7 DEF F!Fetch
  <1> QED BY <1>4, <1>5

\* CLEAR blanks the cells and leaves the indices alone.
LEMMA BlankStep ==
    ASSUME TypeOK, TypeOK', Clear
    PROVE  F!Blank
  <1> DEFINE blank == [i \in 1 .. Len(Waiting) |-> 0]
  <1>1. WaitingOK /\ WaitingOK'
    BY WaitingType, WaitingTypeNext
  <1>2. Count' = Count /\ \A i \in 0 .. Count : (Slot(i))' = Slot(i)
    BY DEF Clear, Count, Slot
  <1>3. blank \in Seq(Nat) /\ Len(blank) = Count /\ \A i \in 1 .. Count : blank[i] = 0
    BY <1>1 DEF WaitingOK
  <1>4. ASSUME NEW i \in 1 .. Count PROVE Waiting'[i] = 0
    <2>1. i - 1 \in 0 .. Count /\ Slot(i - 1) \in Index_
      BY <1>1 DEF WaitingOK
    <2>2. Waiting'[i] = buffer'[Slot(i - 1)]
      BY <1>1, <1>2, <2>1 DEF WaitingOK
    <2> QED BY <2>1, <2>2 DEF Clear, TypeOK
  <1> HIDE DEF blank
  <1>5. \A i \in 1 .. Len(blank) : blank[i] = Waiting'[i]
    BY <1>3, <1>4
  <1>6. Waiting' = blank
    BY <1>1, <1>2, <1>3, <1>5, SameSeq DEF WaitingOK
  <1> QED BY <1>6 DEF F!Blank, Clear, blank

LEMMA FifoStep == KInv /\ KInv' /\ [Next]_vars => F!FNext \/ UNCHANGED F!fvars
  <1> SUFFICES ASSUME KInv, KInv', [Next]_vars PROVE F!FNext \/ UNCHANGED F!fvars
    OBVIOUS
  <1>0. TypeOK /\ TypeOK'
    BY DEF KInv, KeyboardInv
  <1>1. ASSUME UNCHANGED ring PROVE Waiting' = Waiting
    BY <1>1 DEF ring, Waiting, Count, Slot
  <1>2. CASE \E c \in Chars : handle_char(c)
    <2> PICK c \in Chars : handle_char(c)
      BY <1>2
    <2>1. F!Typed(c)
      BY <1>0, TypedStep, InputAssumption DEF handle_char
    <2> QED BY <2>1 DEF F!FNext
  <1>3. CASE \E k \in Keys, state \in BOOLEAN : handle_key(k, state)
    <2> PICK k \in Keys, state \in BOOLEAN : handle_key(k, state)
      BY <1>3
    <2>1. regC' = regC /\ (append_to_buffer(Index(k)) \/ UNCHANGED ring)
      BY DEF handle_key
    <2>2. CASE UNCHANGED ring
      BY <1>1, <2>1, <2>2 DEF F!fvars
    <2>3. CASE append_to_buffer(Index(k))
      <3>1. F!Typed(Index(k))
        BY <1>0, <2>1, <2>3, TypedStep, CodeTable
      <3> QED BY <3>1 DEF F!FNext
    <2> QED BY <2>1, <2>2, <2>3
  <1>4. CASE StoreNext
    BY <1>0, <1>4, FetchStep DEF F!FNext
  <1>5. CASE Clear
    BY <1>0, <1>5, BlankStep DEF F!FNext
  <1>6. CASE \E b \in Asked : Test(b)
    <2>1. regC' \in {0, 1} /\ UNCHANGED ring
      BY <1>6 DEF Test, Pressed
    <2> QED BY <1>1, <2>1 DEF F!FNext, F!Ask
  <1>7. CASE Other \/ (\E b \in Messages : SetMessage(b)) \/ Cycle \/ UNCHANGED vars
    <2>1. regC' = regC /\ UNCHANGED ring
      BY <1>7 DEF Other, SetMessage, Cycle, vars
    <2> QED BY <1>1, <2>1 DEF F!fvars
  <1> QED BY <1>2, <1>3, <1>4, <1>5, <1>6, <1>7 DEF Next

\* The ring buffer is a queue that discards its oldest code when it is full
\* (append_to_buffer, KB_INTERRUPT_STORE_NEXT), for every size of the ring and
\* wherever its indices wrap.
THEOREM RingIsFifo == Spec => ImplementsFifo
  <1>1. Init => F!FInit
    <2> SUFFICES ASSUME Init PROVE F!FInit
      OBVIOUS
    <2>1. Count = 0 /\ regC = 0
      BY DEF Init, Count
    <2>2. TypeOK
      BY KInit DEF KInv, KeyboardInv
    <2>3. Waiting \in Seq(Nat) /\ Len(Waiting) = 0
      BY <2>1, <2>2, WaitingType DEF WaitingOK
    <2>4. Waiting = << >>
      BY <2>3, EmptySeq
    <2> QED BY <2>1, <2>4 DEF F!FInit
  <1> QED
    BY <1>1, KInvariance, FifoStep, PTL DEF Spec, ImplementsFifo, F!FSpec
=============================================================================
