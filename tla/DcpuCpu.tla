------------------------------ MODULE DcpuCpu ------------------------------
(***************************************************************************)
(* The instruction set of libdcpu-vm: the machine state vm_t, how an       *)
(* operand is resolved to a value (vm_resolve_value) or to a location      *)
(* (vm_internal_get_store), what each opcode does (the vm_op functions),   *)
(* all as operators on a record vm that stands for the C struct.           *)
(*                                                                         *)
(* The word size is a parameter.  A word is a number below W = 2^BITS      *)
(* (2^16 in the code), memory has one cell per word, and Decode says which *)
(* opcode and operands a word encodes (the bit fields of dcpu.h).          *)
(***************************************************************************)
EXTENDS Integers, Sequences

CONSTANTS
    BITS,             \* bits in a word: 16
    Decode,           \* word -> [op, b, a], the INSTRUCTION_GET macros
    BitAnd(_, _),     \* the C operators & | ^ on words
    BitOr(_, _),
    BitXor(_, _),
    INTERRUPT_MAX,    \* capacity of the interrupt queue: 255
    HwTable           \* registered devices: sequence of HWQ answers

W == 2^BITS
Word == 0 .. W - 1
Reg == 0 .. 7
REG_A == 0
REG_B == 1
REG_C == 2
REG_X == 3
REG_Y == 4
REG_I == 6
REG_J == 7

\* Operand codes of dcpu.h.  Codes from 32 on are the literals -1, 0, 1, ...
VAL_A == 8
NXT_VAL_A == 16
PUSH_POP == 24
PEEK == 25
PICK_ == 26    \* PICK; the plain name is a keyword of TLA+
SP == 27
PC == 28
EX == 29
NXT == 30
NXT_LIT == 31
Operand == 0 .. 63

Branch == {"IFB", "IFC", "IFE", "IFN", "IFG", "IFA", "IFL", "IFU"}
Arith == {"ADD", "SUB", "MUL", "MLI", "DIV", "DVI", "MOD", "MDI", "AND",
          "BOR", "XOR", "SHR", "ASR", "SHL", "ADX", "SBX"}
Opcode == Branch \cup Arith \cup
          {"SET", "STI", "STD", "JSR", "INT", "IAG", "IAS", "RFI", "IAQ",
           "HWN", "HWQ", "HWI", "INVALID"}

\* What HWQ reports of a device: id, version and manufacturer, as words.
HwInfo == [A : Word, B : Word, C : Word, X : Word, Y : Word]

ASSUME WordAssumption == W \in Nat /\ W >= 2
ASSUME BitsAssumption == BITS \in Nat \ {0}
\* Arithmetic of powers, which provers without it take from here.
ASSUME PowerAssumption == \A n \in 0 .. BITS : 2^n \in Nat \ {0} /\ 2^n * 2^(BITS - n) = W
ASSUME DecodeAssumption == Decode \in [Word -> [op : Opcode, b : Operand, a : Operand]]
ASSUME BitwiseAssumption ==
    \A x, y \in Word : /\ BitAnd(x, y) \in Word
                       /\ BitOr(x, y) \in Word
                       /\ BitXor(x, y) \in Word
ASSUME QueueAssumption == INTERRUPT_MAX \in Nat \ {0}
ASSUME HwAssumption == HwTable \in Seq(HwInfo) /\ Len(HwTable) \in Word

\* The fields of struct vm that a program or a device can observe.  irq_count
\* is Len(irq); fire_wait is fire_cycles_target - fire_cycles; screen_mapped is
\* the static screen_id of vm_op_fire.
VmState == [registers : [Reg -> Word], pc : Word, sp : Word, ex : Word,
            ia : Word, ram : [Word -> Word], dummy : Word,
            irq : Seq(Word), queue_interrupts : BOOLEAN,
            sleep_cycles : Nat, halted : BOOLEAN, exit : BOOLEAN,
            skip : BOOLEAN, on_fire : BOOLEAN, fire_wait : Nat,
            screen_mapped : BOOLEAN]

\* vm_reset(vm, false) on a machine whose memory is mem.
vm_reset(mem) ==
    [registers |-> [r \in Reg |-> 0], pc |-> 0, sp |-> 0, ex |-> 0,
     ia |-> 0, ram |-> mem, dummy |-> 0, irq |-> << >>,
     queue_interrupts |-> FALSE, sleep_cycles |-> 0, halted |-> FALSE,
     exit |-> FALSE, skip |-> FALSE, on_fire |-> FALSE, fire_wait |-> 0,
     screen_mapped |-> FALSE]

Inc(x) == (x + 1) % W
\* Mutant: SP does not wrap.
Dec_NoWrap(x) == x - 1
Dec(x) == (x - 1) % W
Signed(x) == IF 2 * x >= W THEN x - W ELSE x

vm_halt(vm) == [vm EXCEPT !.halted = TRUE]

\* The PC half of vm_consume_word; the word itself is vm.ram[vm.pc].
vm_consume_word(vm) == [vm EXCEPT !.pc = Inc(@)]

-----------------------------------------------------------------------------
(* Operands *)

\* NXT_VAL_x, PICK and NXT take the next word in both resolvers; NXT_LIT
\* only in vm_resolve_value.
IndexedOperand(val) == val \in NXT_VAL_A .. NXT_VAL_A + 7 \cup {PICK_, NXT}

PopPush(vm, pos) == [vm EXCEPT !.sp = IF pos = "A" THEN Inc(@) ELSE Dec(@)]

\* The cell a PUSH/POP operand names: POP reads before it moves SP.
StackCell(vm, pos) == IF pos = "A" THEN vm.sp ELSE Dec(vm.sp)

\* Mutant: a skipped POP or PUSH still moves SP.
ResolveStep_SkipMovesSp(vm, val, pos) ==
    IF IndexedOperand(val) \/ val = NXT_LIT
    THEN [vm_consume_word(vm) EXCEPT !.sleep_cycles = @ + 1]
    ELSE IF val = PUSH_POP THEN PopPush(vm, pos) ELSE vm

\* What vm_resolve_value does to the machine.
ResolveStep(vm, val, pos) ==
    IF IndexedOperand(val) \/ val = NXT_LIT
    THEN [vm_consume_word(vm) EXCEPT !.sleep_cycles = @ + 1]
    ELSE IF val = PUSH_POP /\ ~vm.skip THEN PopPush(vm, pos) ELSE vm

\* What vm_resolve_value returns.
vm_resolve_value(vm, val, pos) ==
    LET next == vm.ram[vm.pc] IN
    CASE val \in Reg                       -> vm.registers[val]
      [] val \in VAL_A .. VAL_A + 7        -> vm.ram[vm.registers[val - VAL_A]]
      [] val \in NXT_VAL_A .. NXT_VAL_A + 7 ->
             vm.ram[(vm.registers[val - NXT_VAL_A] + next) % W]
      [] val = PUSH_POP -> IF vm.skip THEN vm.dummy ELSE vm.ram[StackCell(vm, pos)]
      [] val = PEEK     -> vm.ram[vm.sp]
      [] val = PICK_    -> vm.ram[(vm.sp + next) % W]
      [] val = SP       -> vm.sp
      [] val = PC       -> vm.pc
      [] val = EX       -> vm.ex
      [] val = NXT      -> vm.ram[next]
      [] val = NXT_LIT  -> next
      [] OTHER          -> (val - 33) % W

\* What vm_internal_get_store does to the machine.
GetStoreStep(vm, loc, pos) ==
    IF IndexedOperand(loc)
    THEN IF vm.skip THEN vm_consume_word(vm)
         ELSE [vm_consume_word(vm) EXCEPT !.sleep_cycles = @ + 1]
    ELSE IF loc = PUSH_POP /\ ~vm.skip THEN PopPush(vm, pos) ELSE vm

\* The location vm_internal_get_store points to: a register, a memory cell, a
\* special register, or the dummy that swallows assignments to literals.
Loc(kind, i) == [kind |-> kind, i |-> i]

vm_internal_get_store(vm, loc, pos) ==
    LET next == vm.ram[vm.pc] IN
    IF vm.skip THEN Loc("dummy", 0)
    ELSE CASE loc \in Reg                -> Loc("reg", loc)
           [] loc \in VAL_A .. VAL_A + 7 -> Loc("ram", vm.registers[loc - VAL_A])
           [] loc \in NXT_VAL_A .. NXT_VAL_A + 7 ->
                  Loc("ram", (vm.registers[loc - NXT_VAL_A] + next) % W)
           [] loc = PUSH_POP -> Loc("ram", StackCell(vm, pos))
           [] loc = PEEK     -> Loc("ram", vm.sp)
           [] loc = PICK_    -> Loc("ram", (vm.sp + next) % W)
           [] loc = SP       -> Loc("sp", 0)
           [] loc = PC       -> Loc("pc", 0)
           [] loc = EX       -> Loc("ex", 0)
           [] loc = NXT      -> Loc("ram", next)
           [] OTHER          -> Loc("dummy", 0)

Load(vm, l) ==
    CASE l.kind = "reg" -> vm.registers[l.i]
      [] l.kind = "ram" -> vm.ram[l.i]
      [] l.kind = "sp"  -> vm.sp
      [] l.kind = "pc"  -> vm.pc
      [] l.kind = "ex"  -> vm.ex
      [] OTHER          -> vm.dummy

Store(vm, l, v) ==
    CASE l.kind = "reg" -> [vm EXCEPT !.registers[l.i] = v]
      [] l.kind = "ram" -> [vm EXCEPT !.ram[l.i] = v]
      [] l.kind = "sp"  -> [vm EXCEPT !.sp = v]
      [] l.kind = "pc"  -> [vm EXCEPT !.pc = v]
      [] l.kind = "ex"  -> [vm EXCEPT !.ex = v]
      [] OTHER          -> [vm EXCEPT !.dummy = v]

\* VM_HOOK_FIRE: the write hook is told of memory cells only.
HookedBy(l) == IF l.kind = "ram" THEN {l.i} ELSE {}

-----------------------------------------------------------------------------
(* Arithmetic *)

AR_UNDERFLOW == W - 1

\* Mutant: a sum of exactly W is not an overflow.
Flow_OffByOne(x) == IF x < 0 THEN AR_UNDERFLOW ELSE IF x > W THEN 1 ELSE 0

\* VM_CHECK_ARITHMETIC_FLOW: the EX of a sum or a difference.
Flow(x) == IF x < 0 THEN AR_UNDERFLOW ELSE IF x >= W THEN 1 ELSE 0

\* C division of signed numbers truncates towards zero.
TruncDiv(x, y) == LET q == (IF x < 0 THEN -x ELSE x) \div (IF y < 0 THEN -y ELSE y)
                  IN  IF (x < 0) # (y < 0) THEN -q ELSE q

\* A value converted to uint64_t (four words wide).
Unsigned64(x) == x % (W * W * W * W)

\* Mutant: the count is taken modulo one word.
ShiftBy_OneWord(a) == 2^(a % BITS)

\* A shift count is taken modulo the width of int (two words), as the
\* machine's shift instruction does; the language leaves larger counts open.
ShiftBy(a) == 2^(a % (2 * BITS))

\* The value each arithmetic opcode stores in b, before it is cut to a word.
Result(op, b, a, ex) ==
    CASE op = "ADD" -> b + a
      [] op = "SUB" -> b - a
      [] op = "ADX" -> b + a + ex
      [] op = "SBX" -> b - a + ex
      [] op = "MUL" -> b * a
      [] op = "MLI" -> Signed(b) * Signed(a)
      [] op = "DIV" -> IF a = 0 THEN 0 ELSE b \div a
      [] op = "DVI" -> IF a = 0 THEN 0 ELSE TruncDiv(Signed(b), Signed(a))
      [] op = "MOD" -> IF a = 0 THEN 0 ELSE b % a
      [] op = "MDI" -> IF a = 0 THEN 0 ELSE Signed(b) % a
      [] op = "AND" -> BitAnd(b, a)
      [] op = "BOR" -> BitOr(b, a)
      [] op = "XOR" -> BitXor(b, a)
      [] op = "SHR" -> b \div ShiftBy(a)
      [] op = "ASR" -> Signed(b) \div ShiftBy(Signed(a))
      [] op = "SHL" -> b * ShiftBy(a)
      [] OTHER      -> a

\* The excess each arithmetic opcode leaves in EX, before it is cut.
Excess(op, b, a, ex) ==
    CASE op = "ADD" -> Flow(b + a)
      [] op = "SUB" -> Flow(b - a)
      [] op = "ADX" -> Flow(b + a + Signed(ex))
      [] op = "SBX" -> Flow(b - a + Signed(ex))
      [] op = "MUL" -> (b * a) \div W
      [] op = "MLI" -> (Signed(b) * Signed(a)) \div W
      [] op = "DIV" -> IF a = 0 THEN 0 ELSE (b * W) \div a
      [] op = "DVI" -> IF a = 0 THEN 0
                       ELSE Unsigned64(Signed(b) * W) \div Unsigned64(Signed(a))
      [] op = "SHR" -> (Signed(b) * W) \div ShiftBy(a)
      [] op = "ASR" -> (Signed(b) * W) \div ShiftBy(Signed(a))
      [] OTHER      -> (b * ShiftBy(a)) \div W        \* SHL

SetsEX(op) == op \notin {"MOD", "MDI", "AND", "BOR", "XOR"}

\* Whether the instruction after a branch is performed.
Holds(op, b, a) ==
    CASE op = "IFB" -> BitAnd(b, a) # 0
      [] op = "IFC" -> BitAnd(b, a) = 0
      [] op = "IFE" -> b = a
      [] op = "IFN" -> b # a
      [] op = "IFG" -> b > a
      [] op = "IFA" -> Signed(b) > Signed(a)
      [] op = "IFL" -> b < a
      [] OTHER      -> Signed(b) < Signed(a)          \* IFU

\* OP_NUM_CYCLES.
Cycles(op) == IF op \in {"ADD", "SUB", "MUL", "MLI", "IAQ", "HWN"} THEN 2
              ELSE IF op \in {"DIV", "DVI", "MOD", "MDI", "ADX", "SBX", "JSR", "RFI"} THEN 3
              ELSE IF op \in {"INT", "HWQ", "HWI"} THEN 4 ELSE 1

-----------------------------------------------------------------------------
(* Instructions: the machine after each one, the operands still to be read. *)

\* OP_NUM_CYCLES is charged whether or not the instruction is skipped.
Charge(vm, op) == [vm EXCEPT !.sleep_cycles = @ + Cycles(op) - 1]

\* VM_SKIP_RESET.
Skipped(vm) == [vm EXCEPT !.skip = FALSE]

\* The value of operand a, and the machine once a has been read.
ValA(vm, i) == vm_resolve_value(vm, i.a, "A")
ReadA(vm, i) == ResolveStep(vm, i.a, "A")

\* The location named by b, and the machine once both operands were resolved.
LocB(vm, i) == vm_internal_get_store(ReadA(vm, i), i.b, "B")
ReadAB(vm, i) == Charge(GetStoreStep(ReadA(vm, i), i.b, "B"), i.op)

\* vm_op_set, and vm_op_add to vm_op_shl, vm_op_adx, vm_op_sbx.
vm_op_set(vm, i) ==
    IF vm.skip THEN Skipped(ReadAB(vm, i))
    ELSE Store(ReadAB(vm, i), LocB(vm, i), ValA(vm, i))

vm_op_arith(vm, i) ==
    LET v == ReadAB(vm, i)
        b == Load(v, LocB(vm, i))
        a == ValA(vm, i)
        stored == Store(v, LocB(vm, i), Result(i.op, b, a, v.ex) % W)
    IN  IF vm.skip THEN Skipped(v)
        ELSE IF SetsEX(i.op)
             THEN [stored EXCEPT !.ex = Excess(i.op, b, a, v.ex) % W]
             ELSE stored

\* vm_op_ifb to vm_op_ifu: a branch met while skipping leaves skip set, so a
\* chain of branches is skipped together with the instruction that ends it.
vm_op_if(vm, i) ==
    LET v1 == ReadA(vm, i)
        v2 == ResolveStep(v1, i.b, "B")
    IN  IF vm.skip THEN v2
        ELSE [v2 EXCEPT !.skip =
                 ~Holds(i.op, vm_resolve_value(v1, i.b, "B"), ValA(vm, i))]

\* vm_op_sti and vm_op_std: set, then move I and J.
vm_op_sti(vm, i) ==
    IF vm.skip THEN vm_op_set(vm, i)
    ELSE [vm_op_set(vm, i) EXCEPT
             !.registers[REG_I] = IF i.op = "STI" THEN Inc(@) ELSE Dec(@),
             !.registers[REG_J] = IF i.op = "STI" THEN Inc(@) ELSE Dec(@)]

\* Non-basic opcodes: only operand a.
Read1(vm, i) == Charge(ReadA(vm, i), i.op)

\* Push without telling the write hook: the C writes ram directly.
Push(vm, v) == [vm EXCEPT !.sp = Dec(@), !.ram[Dec(vm.sp)] = v]

vm_op_jsr(vm, i) ==
    LET v == Read1(vm, i) IN
    IF vm.skip THEN Skipped(v) ELSE [Push(v, v.pc) EXCEPT !.pc = ValA(vm, i)]

\* vm_op_iag and vm_op_hwn store a word in operand a.
StoreA(vm, i, v) ==
    LET l == vm_internal_get_store(vm, i.a, "A")
        r == Charge(GetStoreStep(vm, i.a, "A"), i.op)
    IN  IF vm.skip THEN Skipped(r) ELSE Store(r, l, v)

vm_op_iag(vm, i) == StoreA(vm, i, vm.ia)
vm_op_hwn(vm, i) == StoreA(vm, i, Len(HwTable))

vm_op_ias(vm, i) ==
    LET v == Read1(vm, i) IN
    IF vm.skip THEN Skipped(v) ELSE [v EXCEPT !.ia = ValA(vm, i)]

\* Mutant: PC is popped before A.
vm_op_rfi_Swapped(vm, i) ==
    LET v == Read1(vm, i) IN
    IF vm.skip THEN Skipped(v)
    ELSE [v EXCEPT !.registers[REG_A] = v.ram[Inc(v.sp)],
                   !.pc = v.ram[v.sp],
                   !.sp = Inc(Inc(@)),
                   !.queue_interrupts = FALSE]

vm_op_rfi(vm, i) ==
    LET v == Read1(vm, i) IN
    IF vm.skip THEN Skipped(v)
    ELSE [v EXCEPT !.registers[REG_A] = v.ram[v.sp],
                   !.pc = v.ram[Inc(v.sp)],
                   !.sp = Inc(Inc(@)),
                   !.queue_interrupts = FALSE]

vm_op_iaq(vm, i) ==
    LET v == Read1(vm, i) IN
    IF vm.skip THEN Skipped(v)
    ELSE [v EXCEPT !.queue_interrupts = ValA(vm, i) # 0]

vm_op_hwq(vm, i) ==
    LET v == Read1(vm, i)
        a == ValA(vm, i)
        dev == HwTable[a + 1]
    IN  IF vm.skip THEN Skipped(v)
        ELSE IF a >= Len(HwTable) THEN v
        ELSE [v EXCEPT !.registers[REG_A] = dev.A, !.registers[REG_B] = dev.B,
                       !.registers[REG_C] = dev.C, !.registers[REG_X] = dev.X,
                       !.registers[REG_Y] = dev.Y]
=============================================================================
