--------------------------- MODULE DcpuCpuProofs ---------------------------
(***************************************************************************)
(* Lemmas about the operators of DcpuCpu: what resolving an operand and    *)
(* executing an instruction return, and which fields they leave alone.     *)
(***************************************************************************)
EXTENDS DcpuCpu, TLAPS

\* Inc and Dec wrap around, as uint16_t arithmetic does, and cutting an
\* integer to a word gives a word.
LEMMA WordArithmetic ==
    /\ W \in Nat /\ W >= 2 /\ 0 \in Word /\ W - 1 \in Word
    /\ \A x \in Int : x % W \in Word
    /\ \A x \in Word : x \in Nat /\ Inc(x) \in Word /\ Dec(x) \in Word /\ Signed(x) \in Int
    /\ \A x, y \in Word : (x + y) % W \in Word
  <1>1. W \in Nat /\ W >= 2 /\ 0 \in Word /\ W - 1 \in Word
    BY WordAssumption DEF Word
  <1>2. \A x \in Int : x % W \in Word
    BY WordAssumption DEF Word
  <1>3. \A x \in Word : x \in Nat
    BY WordAssumption DEF Word
  <1>4. \A x \in Word : Signed(x) \in Int
    BY WordAssumption, <1>3 DEF Signed
  <1>5. \A x \in Word : Inc(x) \in Word /\ Dec(x) \in Word
    BY <1>2, <1>3 DEF Inc, Dec
  <1>6. \A x, y \in Word : (x + y) % W \in Word
    BY <1>2, <1>3
  <1> QED BY <1>1, <1>2, <1>3, <1>4, <1>5, <1>6

\* Quotient and remainder are the only numbers that divide x by d.
LEMMA DivModUnique ==
    ASSUME NEW d \in Nat \ {0}, NEW q \in Int, NEW r \in 0 .. d - 1
    PROVE  (d * q + r) \div d = q /\ (d * q + r) % d = r
  <1> DEFINE x == d * q + r
             p == x \div d
             s == x % d
  <1>1. x \in Int /\ p \in Int /\ s \in 0 .. d - 1 /\ x = d * p + s
    OBVIOUS
  <1> HIDE DEF p, s
  <1>2. d * (q - p) = s - r
    BY <1>1
  <1>3. q - p = 0
    <2> DEFINE k == q - p
    <2>1. k \in Int /\ d * k = s - r
      BY <1>1, <1>2
    <2> HIDE DEF k
    <2>2. k >= 1 => d * k >= d
      BY <2>1
    <2>3. k <= -1 => d * k <= -d
      BY <2>1
    <2>4. s - r < d /\ s - r > -d
      BY <1>1
    <2>5. k = 0
      BY <2>1, <2>2, <2>3, <2>4
    <2> QED BY <2>5 DEF k
  <1>4. p = q /\ s = r
    BY <1>1, <1>2, <1>3
  <1> QED BY <1>4 DEF p, s

\* Counting up by one: the remainder grows or starts again with a new quotient.
LEMMA ModStep ==
    ASSUME NEW d \in Nat \ {0}, NEW x \in Int
    PROVE  /\ (x + 1) % d = IF x % d = d - 1 THEN 0 ELSE (x % d) + 1
           /\ (x + 1) \div d = IF x % d = d - 1 THEN x \div d + 1 ELSE x \div d
  <1> DEFINE q == x \div d
             r == x % d
  <1>1. q \in Int /\ r \in 0 .. d - 1 /\ x = d * q + r
    OBVIOUS
  <1> HIDE DEF q, r
  <1>2. CASE r = d - 1
    <2>1. x + 1 = d * (q + 1) + 0 /\ q + 1 \in Int /\ 0 \in 0 .. d - 1
      BY <1>1, <1>2
    <2>2. (x + 1) \div d = q + 1 /\ (x + 1) % d = 0
      BY <2>1, DivModUnique
    <2> QED BY <1>2, <2>2 DEF q, r
  <1>3. CASE r # d - 1
    <2>1. x + 1 = d * q + (r + 1) /\ r + 1 \in 0 .. d - 1
      BY <1>1, <1>3
    <2>2. (x + 1) \div d = q /\ (x + 1) % d = r + 1
      BY <1>1, <2>1, DivModUnique
    <2> QED BY <1>3, <2>2 DEF q, r
  <1> QED BY <1>2, <1>3

\* Cutting before counting up does not matter.
LEMMA ModInc ==
    ASSUME NEW d \in Nat \ {0}, NEW x \in Int
    PROVE  (x % d) % d = x % d /\ ((x % d) + 1) % d = (x + 1) % d
  <1> DEFINE r == x % d
  <1>1. r \in 0 .. d - 1 /\ r \in Int
    OBVIOUS
  <1> HIDE DEF r
  <1>2. r % d = r
    BY <1>1
  <1>3. (x + 1) % d = IF r = d - 1 THEN 0 ELSE r + 1
    BY ModStep DEF r
  <1>4. (r + 1) % d = IF r % d = d - 1 THEN 0 ELSE (r % d) + 1
    BY <1>1, ModStep
  <1> QED BY <1>2, <1>3, <1>4 DEF r

\* Changing one field within its type keeps the machine well formed.
LEMMA UpdateType ==
    ASSUME NEW v \in VmState
    PROVE  /\ \A x \in Word : /\ [v EXCEPT !.pc = x] \in VmState
                              /\ [v EXCEPT !.sp = x] \in VmState
                              /\ [v EXCEPT !.ex = x] \in VmState
                              /\ [v EXCEPT !.ia = x] \in VmState
                              /\ [v EXCEPT !.dummy = x] \in VmState
           /\ \A x \in Nat : [v EXCEPT !.sleep_cycles = x] \in VmState
           /\ \A x \in BOOLEAN : /\ [v EXCEPT !.skip = x] \in VmState
                                 /\ [v EXCEPT !.halted = x] \in VmState
                                 /\ [v EXCEPT !.queue_interrupts = x] \in VmState
           /\ \A x \in [Reg -> Word] : [v EXCEPT !.registers = x] \in VmState
           /\ \A x \in [Word -> Word] : [v EXCEPT !.ram = x] \in VmState
           /\ \A x \in Seq(Word) : [v EXCEPT !.irq = x] \in VmState
  BY DEF VmState

\* So does charging cycles.
LEMMA ChargeType ==
    ASSUME NEW v \in VmState, NEW n \in Nat
    PROVE  [v EXCEPT !.sleep_cycles = @ + n] \in VmState
  <1>1. v.sleep_cycles + n \in Nat
    BY DEF VmState
  <1> QED BY <1>1, UpdateType

\* vm_consume_word and the moves of SP keep the machine well formed.
LEMMA ConsumeType ==
    ASSUME NEW v \in VmState
    PROVE  /\ vm_consume_word(v) \in VmState
           /\ \A pos \in {"A", "B"} : PopPush(v, pos) \in VmState /\ StackCell(v, pos) \in Word
  <1>1. v.pc \in Word /\ v.sp \in Word
    BY DEF VmState
  <1>2. /\ Inc(v.pc) \in Word /\ Inc(v.sp) \in Word /\ Dec(v.sp) \in Word
    BY <1>1, WordArithmetic
  <1> QED BY <1>1, <1>2, UpdateType DEF vm_consume_word, PopPush, StackCell

\* What vm_resolve_value does to the machine keeps it well formed.
LEMMA ResolveStepType ==
    ASSUME NEW v \in VmState, NEW val \in Operand, NEW pos \in {"A", "B"}
    PROVE  ResolveStep(v, val, pos) \in VmState
  <1>1. vm_consume_word(v) \in VmState /\ PopPush(v, pos) \in VmState
    BY ConsumeType
  <1>2. [vm_consume_word(v) EXCEPT !.sleep_cycles = @ + 1] \in VmState
    BY <1>1, ChargeType
  <1> QED BY <1>1, <1>2 DEF ResolveStep

\* vm_resolve_value returns a word.
LEMMA ResolveValueType ==
    ASSUME NEW v \in VmState, NEW val \in Operand, NEW pos \in {"A", "B"}
    PROVE  vm_resolve_value(v, val, pos) \in Word
  <1> DEFINE next == v.ram[v.pc]
  <1>1. /\ v.ram \in [Word -> Word] /\ v.registers \in [Reg -> Word]
        /\ v.pc \in Word /\ v.sp \in Word /\ v.ex \in Word /\ v.dummy \in Word
    BY DEF VmState
  <1>2. next \in Word /\ StackCell(v, pos) \in Word
    BY <1>1, ConsumeType
  <1>3. ASSUME val \in VAL_A .. VAL_A + 7 PROVE v.ram[v.registers[val - VAL_A]] \in Word
    BY <1>1, <1>3 DEF VAL_A, Reg
  <1>4. ASSUME val \in NXT_VAL_A .. NXT_VAL_A + 7
        PROVE v.ram[(v.registers[val - NXT_VAL_A] + next) % W] \in Word
    <2>1. v.registers[val - NXT_VAL_A] \in Word
      BY <1>1, <1>4 DEF NXT_VAL_A, Reg
    <2> QED BY <1>1, <1>2, <2>1, WordArithmetic
  <1>5. v.ram[(v.sp + next) % W] \in Word
    BY <1>1, <1>2, WordArithmetic
  <1>6. (val - 33) % W \in Word
    BY WordArithmetic DEF Operand
  <1>7. /\ v.ram[StackCell(v, pos)] \in Word /\ v.ram[v.sp] \in Word
        /\ v.ram[next] \in Word
        /\ val \in Reg => v.registers[val] \in Word
    BY <1>1, <1>2
  <1> HIDE DEF next
  <1> QED BY <1>1, <1>2, <1>3, <1>4, <1>5, <1>6, <1>7 DEF vm_resolve_value, next

\* What vm_internal_get_store does to the machine keeps it well formed.
LEMMA GetStoreStepType ==
    ASSUME NEW v \in VmState, NEW loc \in Operand, NEW pos \in {"A", "B"}
    PROVE  GetStoreStep(v, loc, pos) \in VmState
  <1>1. vm_consume_word(v) \in VmState /\ PopPush(v, pos) \in VmState
    BY ConsumeType
  <1>2. [vm_consume_word(v) EXCEPT !.sleep_cycles = @ + 1] \in VmState
    BY <1>1, ChargeType
  <1> QED BY <1>1, <1>2 DEF GetStoreStep

\* Locations: a register, a memory cell, or one of the others.
Location == {l \in [kind : {"reg", "ram", "sp", "pc", "ex", "dummy"}, i : Int] :
                /\ l.kind = "reg" => l.i \in Reg
                /\ l.kind = "ram" => l.i \in Word}

\* vm_internal_get_store returns a location that exists.
LEMMA GetStoreType ==
    ASSUME NEW v \in VmState, NEW loc \in Operand, NEW pos \in {"A", "B"}
    PROVE  vm_internal_get_store(v, loc, pos) \in Location
  <1> DEFINE next == v.ram[v.pc]
  <1>1. /\ v.ram \in [Word -> Word] /\ v.registers \in [Reg -> Word]
        /\ v.pc \in Word /\ v.sp \in Word
    BY DEF VmState
  <1>2. next \in Word /\ StackCell(v, pos) \in Word
    BY <1>1, ConsumeType
  <1>3. \A x \in Word : Loc("ram", x) \in Location
    BY WordArithmetic DEF Loc, Location
  <1>4. \A x \in Reg : Loc("reg", x) \in Location
    BY DEF Loc, Location, Reg
  <1>5. \A k \in {"sp", "pc", "ex", "dummy"} : Loc(k, 0) \in Location
    BY DEF Loc, Location
  <1>6. ASSUME loc \in VAL_A .. VAL_A + 7 PROVE v.registers[loc - VAL_A] \in Word
    BY <1>1, <1>6 DEF VAL_A, Reg
  <1>7. ASSUME loc \in NXT_VAL_A .. NXT_VAL_A + 7
        PROVE (v.registers[loc - NXT_VAL_A] + next) % W \in Word
    <2>1. v.registers[loc - NXT_VAL_A] \in Word
      BY <1>1, <1>7 DEF NXT_VAL_A, Reg
    <2> QED BY <1>2, <2>1, WordArithmetic
  <1>8. (v.sp + next) % W \in Word
    BY <1>1, <1>2, WordArithmetic
  <1> HIDE DEF next
  <1> QED BY <1>1, <1>2, <1>3, <1>4, <1>5, <1>6, <1>7, <1>8
             DEF vm_internal_get_store, next

\* Reading a location gives a word, writing a word keeps the machine well formed.
LEMMA LoadStoreType ==
    ASSUME NEW v \in VmState, NEW l \in Location
    PROVE  /\ Load(v, l) \in Word
           /\ \A x \in Word : Store(v, l, x) \in VmState
  <1>1. /\ v.ram \in [Word -> Word] /\ v.registers \in [Reg -> Word]
        /\ v.pc \in Word /\ v.sp \in Word /\ v.ex \in Word /\ v.dummy \in Word
    BY DEF VmState
  <1>2. /\ l.kind = "reg" => l.i \in Reg
        /\ l.kind = "ram" => l.i \in Word
    BY DEF Location
  <1>3. Load(v, l) \in Word
    BY <1>1, <1>2 DEF Load
  <1>4. ASSUME NEW x \in Word PROVE Store(v, l, x) \in VmState
    <2>1. CASE l.kind = "reg"
      <3>1. [v.registers EXCEPT ![l.i] = x] \in [Reg -> Word]
        BY <1>1, <1>2, <2>1
      <3> QED BY <2>1, <3>1, UpdateType DEF Store
    <2>2. CASE l.kind = "ram"
      <3>1. [v.ram EXCEPT ![l.i] = x] \in [Word -> Word]
        BY <1>1, <1>2, <2>2
      <3> QED BY <2>2, <3>1, UpdateType DEF Store
    <2>3. CASE l.kind \notin {"reg", "ram"}
      BY <2>3, UpdateType DEF Store
    <2> QED BY <2>1, <2>2, <2>3
  <1> QED BY <1>3, <1>4

-----------------------------------------------------------------------------
(* The fields only interrupt instructions change *)

Control(v) == <<v.irq, v.queue_interrupts, v.ia, v.halted>>

\* Operands, stores and pushes do not touch the interrupt queue, the handler
\* address or the halted flag, and reading operands does not touch skip.
LEMMA OperandsKeepControl ==
    ASSUME NEW v \in VmState, NEW val \in Operand, NEW pos \in {"A", "B"}
    PROVE  /\ Control(ResolveStep(v, val, pos)) = Control(v)
           /\ Control(GetStoreStep(v, val, pos)) = Control(v)
           /\ ResolveStep(v, val, pos).skip = v.skip
           /\ GetStoreStep(v, val, pos).skip = v.skip
  BY DEF Control, ResolveStep, GetStoreStep, vm_consume_word, PopPush, VmState

\* Neither does an assignment through a location.
LEMMA StoreKeepsControl ==
    ASSUME NEW v \in VmState, NEW l, NEW x
    PROVE  /\ Control(Store(v, l, x)) = Control(v)
           /\ Store(v, l, x).skip = v.skip
  BY DEF Control, Store, VmState

-----------------------------------------------------------------------------
(* Arithmetic and instructions *)

\* Every arithmetic opcode yields words once cut to a word, division by zero
\* and large shifts included.
LEMMA ArithmeticType ==
    ASSUME NEW op \in Arith, NEW b \in Word, NEW a \in Word, NEW ex \in Word
    PROVE  Result(op, b, a, ex) % W \in Word /\ Excess(op, b, a, ex) % W \in Word
  <1> DEFINE sb == Signed(b)
             sa == Signed(a)
             se == Signed(ex)
  <1>1. /\ b \in Nat /\ a \in Nat /\ ex \in Nat /\ W \in Nat /\ W >= 2
        /\ sb \in Int /\ sa \in Int /\ se \in Int
    BY WordArithmetic
  <1>2. /\ BitAnd(b, a) \in Word /\ BitOr(b, a) \in Word /\ BitXor(b, a) \in Word
    BY BitwiseAssumption
  <1>3. \A x \in Int : x % W \in Word
    BY WordArithmetic
  <1> DEFINE s == ShiftBy(a)
             t == ShiftBy(sa)
  <1>4. s \in Int /\ t \in Int
    <2>1. \A x \in Int : ShiftBy(x) \in Int
      BY BitsAssumption DEF ShiftBy
    <2> HIDE DEF sa
    <2> QED BY <1>1, <2>1
  <1>5. \A x \in Int : Flow(x) \in Int
    BY <1>1 DEF Flow, AR_UNDERFLOW
  <1>6. \A x, y \in Int : (x \div y) % W \in Word /\ (x * y) % W \in Word
    BY <1>1 DEF Word
  <1> HIDE DEF s, t, sb, sa, se
  <1>7. TruncDiv(sb, sa) % W \in Word
    <2> DEFINE p == IF sb < 0 THEN -sb ELSE sb
               q == IF sa < 0 THEN -sa ELSE sa
    <2>1. p \in Int /\ q \in Int
      BY <1>1
    <2>2. TruncDiv(sb, sa) = IF (sb < 0) # (sa < 0) THEN -(p \div q) ELSE p \div q
      BY DEF TruncDiv
    <2> HIDE DEF p, q
    <2>3. (p \div q) % W \in Word /\ (-(p \div q)) % W \in Word
      BY <1>1, <2>1 DEF Word
    <2> QED BY <2>2, <2>3
  <1>8. Result(op, b, a, ex) % W \in Word
    <2>1. CASE op \in {"ADD", "SUB", "ADX", "SBX", "MUL", "MLI"}
      BY <1>1, <1>3, <2>1 DEF Result, sb, sa
    <2>2. CASE op \in {"DIV", "MOD", "MDI"}
      <3>1. a # 0 => b \div a \in Int /\ b % a \in Int /\ sb % a \in Int
        BY <1>1
      <3> QED BY <1>1, <1>3, <2>2, <3>1 DEF Result, sb
    <2>3. CASE op = "DVI"
      BY <1>1, <1>3, <1>7, <2>3 DEF Result, sb, sa
    <2>4. CASE op \in {"AND", "BOR", "XOR"}
      <3>1. BitAnd(b, a) \in Int /\ BitOr(b, a) \in Int /\ BitXor(b, a) \in Int
        BY <1>1, <1>2 DEF Word
      <3> QED BY <1>3, <2>4, <3>1 DEF Result
    <2>5. CASE op \in {"SHR", "ASR", "SHL"}
      BY <1>1, <1>4, <1>6, <2>5 DEF Result, s, t, sa, sb
    <2> QED BY <2>1, <2>2, <2>3, <2>4, <2>5 DEF Arith
  <1>9. Excess(op, b, a, ex) % W \in Word
    <2>1. CASE op \in {"ADD", "SUB", "ADX", "SBX"}
      <3>1. /\ Flow(b + a) \in Int /\ Flow(b - a) \in Int
            /\ Flow(b + a + se) \in Int /\ Flow(b - a + se) \in Int
        BY <1>1, <1>5
      <3> QED BY <1>3, <2>1, <3>1 DEF Excess, se
    <2>2. CASE op \in {"MUL", "MLI", "DIV"}
      <3>1. b * a \in Int /\ sb * sa \in Int /\ b * W \in Int
        BY <1>1
      <3>2. /\ op = "MUL" => Excess(op, b, a, ex) = (b * a) \div W
            /\ op = "MLI" => Excess(op, b, a, ex) = (sb * sa) \div W
            /\ op = "DIV" => Excess(op, b, a, ex) = IF a = 0 THEN 0 ELSE (b * W) \div a
        BY DEF Excess, sb, sa
      <3>3. \A x, y \in Int : (x \div y) % W \in Word
        BY <1>6
      <3>4. ((b * a) \div W) % W \in Word /\ ((sb * sa) \div W) % W \in Word
        BY <1>1, <3>1, <3>3
      <3>5. ((b * W) \div a) % W \in Word /\ 0 % W \in Word
        BY <1>1, <1>3, <3>1, <3>3
      <3>6. CASE op = "MUL"
        BY <3>2, <3>4, <3>6, Zenon
      <3>7. CASE op = "MLI"
        BY <3>2, <3>4, <3>7, Zenon
      <3>8. CASE op = "DIV"
        BY <3>2, <3>5, <3>8, Zenon
      <3> QED BY <2>2, <3>6, <3>7, <3>8
    <2>3. CASE op = "DVI"
      <3> DEFINE n == Unsigned64(sb * W)
                 d == Unsigned64(sa)
      <3>1. n \in Int /\ d \in Int
        BY <1>1 DEF Unsigned64
      <3>2. Excess(op, b, a, ex) = IF a = 0 THEN 0 ELSE n \div d
        BY <2>3 DEF Excess, sb, sa
      <3> HIDE DEF n, d
      <3>3. (n \div d) % W \in Word
        BY <1>6, <3>1
      <3>4. 0 % W \in Word
        BY <1>3
      <3> QED BY <3>2, <3>3, <3>4, Zenon
    <2>4. CASE op \notin {"ADD", "SUB", "ADX", "SBX", "MUL", "MLI", "DIV", "DVI"}
      <3>1. sb * W \in Int /\ b * s \in Int
        BY <1>1, <1>4
      <3> QED BY <1>1, <1>4, <1>6, <2>4, <3>1 DEF Excess, s, t, sa, sb
    <2> QED BY <2>1, <2>2, <2>3, <2>4
  <1> QED BY <1>8, <1>9

\* A decoded instruction.
Instr == [op : Opcode, b : Operand, a : Operand]

\* OP_NUM_CYCLES never shortens the sleep.
LEMMA CyclesType ==
    ASSUME NEW v \in VmState, NEW op
    PROVE  Charge(v, op) \in VmState /\ Control(Charge(v, op)) = Control(v)
           /\ Charge(v, op).skip = v.skip
  <1>1. v.sleep_cycles + Cycles(op) - 1 \in Nat
    BY DEF Cycles, VmState
  <1>2. Charge(v, op) \in VmState
    BY <1>1, UpdateType DEF Charge
  <1> QED BY <1>2 DEF Charge, Control, VmState

\* Reading the operands of an instruction.
LEMMA ReadType ==
    ASSUME NEW v \in VmState, NEW i \in Instr
    PROVE  /\ ValA(v, i) \in Word
           /\ ReadA(v, i) \in VmState /\ ReadAB(v, i) \in VmState /\ Read1(v, i) \in VmState
           /\ LocB(v, i) \in Location
           /\ Control(ReadA(v, i)) = Control(v) /\ ReadA(v, i).skip = v.skip
           /\ Control(ReadAB(v, i)) = Control(v) /\ ReadAB(v, i).skip = v.skip
           /\ Control(Read1(v, i)) = Control(v) /\ Read1(v, i).skip = v.skip
  <1>1. i.a \in Operand /\ i.b \in Operand
    BY DEF Instr
  <1>2. ValA(v, i) \in Word
    BY <1>1, ResolveValueType DEF ValA
  <1>3. ReadA(v, i) \in VmState /\ Control(ReadA(v, i)) = Control(v) /\ ReadA(v, i).skip = v.skip
    BY <1>1, ResolveStepType, OperandsKeepControl DEF ReadA
  <1>4. LocB(v, i) \in Location
    BY <1>1, <1>3, GetStoreType DEF LocB
  <1> DEFINE s == GetStoreStep(ReadA(v, i), i.b, "B")
  <1>5. s \in VmState /\ Control(s) = Control(v) /\ s.skip = v.skip
    BY <1>1, <1>3, GetStoreStepType, OperandsKeepControl
  <1>6. /\ ReadAB(v, i) \in VmState
        /\ Control(ReadAB(v, i)) = Control(v) /\ ReadAB(v, i).skip = v.skip
    BY <1>5, CyclesType DEF ReadAB
  <1>7. /\ Read1(v, i) \in VmState
        /\ Control(Read1(v, i)) = Control(v) /\ Read1(v, i).skip = v.skip
    BY <1>3, CyclesType DEF Read1
  <1> QED BY <1>2, <1>3, <1>4, <1>6, <1>7

\* VM_SKIP_RESET keeps the machine well formed and its control fields.
LEMMA SkippedType ==
    ASSUME NEW v \in VmState
    PROVE  Skipped(v) \in VmState /\ Control(Skipped(v)) = Control(v)
  <1>1. Skipped(v) \in VmState
    BY UpdateType DEF Skipped
  <1> QED BY <1>1 DEF Skipped, Control, VmState

\* The basic instructions keep the machine well formed and never touch the
\* interrupt queue, the handler address or the halted flag.
LEMMA BasicType ==
    ASSUME NEW v \in VmState, NEW i \in Instr
    PROVE  /\ vm_op_set(v, i) \in VmState /\ Control(vm_op_set(v, i)) = Control(v)
           /\ i.op \in Arith => /\ vm_op_arith(v, i) \in VmState
                                /\ Control(vm_op_arith(v, i)) = Control(v)
           /\ vm_op_if(v, i) \in VmState /\ Control(vm_op_if(v, i)) = Control(v)
           /\ vm_op_sti(v, i) \in VmState /\ Control(vm_op_sti(v, i)) = Control(v)
  <1> DEFINE r == ReadAB(v, i)
             l == LocB(v, i)
             a == ValA(v, i)
  <1>1. /\ r \in VmState /\ l \in Location /\ a \in Word /\ Control(r) = Control(v)
    BY ReadType
  <1>2. Skipped(r) \in VmState /\ Control(Skipped(r)) = Control(v)
    BY <1>1, SkippedType
  <1>3. vm_op_set(v, i) \in VmState /\ Control(vm_op_set(v, i)) = Control(v)
    <2>1. Store(r, l, a) \in VmState /\ Control(Store(r, l, a)) = Control(v)
      BY <1>1, LoadStoreType, StoreKeepsControl
    <2> QED BY <1>2, <2>1 DEF vm_op_set
  <1>4. ASSUME i.op \in Arith
        PROVE  vm_op_arith(v, i) \in VmState /\ Control(vm_op_arith(v, i)) = Control(v)
    <2> DEFINE b == Load(r, l)
               res == Result(i.op, b, a, r.ex) % W
               exc == Excess(i.op, b, a, r.ex) % W
               st == Store(r, l, res)
    <2>1. b \in Word /\ r.ex \in Word
      BY <1>1, LoadStoreType DEF VmState
    <2>2. res \in Word /\ exc \in Word
      BY <1>1, <1>4, <2>1, ArithmeticType, WordArithmetic
    <2>3. st \in VmState /\ Control(st) = Control(v)
      BY <1>1, <2>2, LoadStoreType, StoreKeepsControl
    <2> HIDE DEF st, exc, res, b
    <2>4. [st EXCEPT !.ex = exc] \in VmState
      BY <2>2, <2>3, UpdateType
    <2>5. Control([st EXCEPT !.ex = exc]) = Control(v)
      BY <2>3 DEF Control, VmState
    <2>6. vm_op_arith(v, i) = IF v.skip THEN Skipped(r)
                              ELSE IF SetsEX(i.op) THEN [st EXCEPT !.ex = exc] ELSE st
      BY DEF vm_op_arith, st, exc, res, b
    <2> QED BY <1>2, <2>3, <2>4, <2>5, <2>6
  <1>5. vm_op_if(v, i) \in VmState /\ Control(vm_op_if(v, i)) = Control(v)
    <2> DEFINE v1 == ReadA(v, i)
               v2 == ResolveStep(v1, i.b, "B")
               h == ~Holds(i.op, vm_resolve_value(v1, i.b, "B"), a)
    <2>1. v1 \in VmState /\ Control(v1) = Control(v) /\ i.b \in Operand
      BY ReadType DEF Instr
    <2>2. v2 \in VmState /\ Control(v2) = Control(v)
      BY <2>1, ResolveStepType, OperandsKeepControl
    <2>3. h \in BOOLEAN
      OBVIOUS
    <2>4. vm_op_if(v, i) = IF v.skip THEN v2 ELSE [v2 EXCEPT !.skip = h]
      BY DEF vm_op_if
    <2> HIDE DEF h, v2
    <2>5. [v2 EXCEPT !.skip = h] \in VmState
      BY <2>2, <2>3, UpdateType
    <2>6. Control([v2 EXCEPT !.skip = h]) = Control(v)
      BY <2>2 DEF Control, VmState
    <2> QED BY <2>2, <2>4, <2>5, <2>6
  <1>6. vm_op_sti(v, i) \in VmState /\ Control(vm_op_sti(v, i)) = Control(v)
    <2> DEFINE s == vm_op_set(v, i)
               n == IF i.op = "STI" THEN Inc(s.registers[REG_I]) ELSE Dec(s.registers[REG_I])
               m == IF i.op = "STI" THEN Inc(s.registers[REG_J]) ELSE Dec(s.registers[REG_J])
               regs == [s.registers EXCEPT ![REG_I] = n, ![REG_J] = m]
    <2>1. s \in VmState /\ Control(s) = Control(v) /\ s.registers \in [Reg -> Word]
      BY <1>3 DEF VmState
    <2>2. n \in Word /\ m \in Word
      <3> HIDE DEF s
      <3> QED BY <2>1, WordArithmetic DEF Reg, REG_I, REG_J
    <2>3. regs \in [Reg -> Word]
      <3> HIDE DEF n, m, s
      <3> QED BY <2>1, <2>2 DEF Reg, REG_I, REG_J
    <2>4. vm_op_sti(v, i) = IF v.skip THEN s ELSE [s EXCEPT !.registers = regs]
      <3> HIDE DEF s
      <3>1. [s EXCEPT !.registers = regs] = [s EXCEPT !.registers[REG_I] = n, !.registers[REG_J] = m]
        BY <2>1 DEF VmState, REG_I, REG_J, Reg
      <3>2. vm_op_sti(v, i) = IF v.skip THEN s
                              ELSE [s EXCEPT !.registers[REG_I] = n, !.registers[REG_J] = m]
        BY <2>1 DEF vm_op_sti, s, VmState, REG_I, REG_J, Reg
      <3> QED BY <3>1, <3>2
    <2> HIDE DEF regs, s
    <2>5. [s EXCEPT !.registers = regs] \in VmState
      BY <2>1, <2>3, UpdateType
    <2>6. Control([s EXCEPT !.registers = regs]) = Control(v)
      BY <2>1 DEF Control, VmState
    <2> QED BY <2>1, <2>4, <2>5, <2>6
  <1> QED BY <1>3, <1>4, <1>5, <1>6

\* Pushing a word keeps the machine well formed and its control fields.
LEMMA PushType ==
    ASSUME NEW v \in VmState, NEW x \in Word
    PROVE  /\ Push(v, x) \in VmState /\ Control(Push(v, x)) = Control(v)
           /\ Push(v, x).skip = v.skip
  <1> DEFINE n == Dec(v.sp)
             mem == [v.ram EXCEPT ![n] = x]
             s == [v EXCEPT !.sp = n]
             t == [s EXCEPT !.ram = mem]
  <1>1. v.ram \in [Word -> Word] /\ n \in Word
    BY WordArithmetic DEF VmState
  <1>2. mem \in [Word -> Word]
    BY <1>1
  <1>3. Push(v, x) = t
    BY DEF Push, VmState
  <1> HIDE DEF n, mem
  <1>4. s \in VmState
    BY <1>1, UpdateType
  <1>5. Control(s) = Control(v) /\ s.skip = v.skip
    BY DEF VmState, Control
  <1> HIDE DEF s
  <1>6. t \in VmState
    BY <1>2, <1>4, UpdateType
  <1>7. Control(t) = Control(s) /\ t.skip = s.skip
    BY <1>4 DEF VmState, Control
  <1> QED BY <1>3, <1>5, <1>6, <1>7

\* The special instructions keep the machine well formed; each changes only
\* the control fields it is meant to: IAS the handler address, RFI and IAQ
\* the queueing flag.
LEMMA SpecialType ==
    ASSUME NEW v \in VmState, NEW i \in Instr
    PROVE  /\ vm_op_jsr(v, i) \in VmState /\ Control(vm_op_jsr(v, i)) = Control(v)
           /\ vm_op_iag(v, i) \in VmState /\ Control(vm_op_iag(v, i)) = Control(v)
           /\ vm_op_hwn(v, i) \in VmState /\ Control(vm_op_hwn(v, i)) = Control(v)
           /\ vm_op_ias(v, i) \in VmState
           /\ vm_op_ias(v, i).irq = v.irq /\ vm_op_ias(v, i).halted = v.halted
           /\ vm_op_ias(v, i).queue_interrupts = v.queue_interrupts
           /\ vm_op_rfi(v, i) \in VmState
           /\ vm_op_rfi(v, i).irq = v.irq /\ vm_op_rfi(v, i).halted = v.halted
           /\ vm_op_rfi(v, i).ia = v.ia
           /\ vm_op_iaq(v, i) \in VmState
           /\ vm_op_iaq(v, i).irq = v.irq /\ vm_op_iaq(v, i).halted = v.halted
           /\ vm_op_iaq(v, i).ia = v.ia
           /\ vm_op_hwq(v, i) \in VmState /\ Control(vm_op_hwq(v, i)) = Control(v)
  <1> DEFINE r == Read1(v, i)
             a == ValA(v, i)
  <1>1. r \in VmState /\ Control(r) = Control(v) /\ a \in Word /\ i.a \in Operand
    BY ReadType DEF Instr
  <1>2. Skipped(r) \in VmState /\ Control(Skipped(r)) = Control(v)
    BY <1>1, SkippedType
  <1>3. /\ r.irq = v.irq /\ r.halted = v.halted /\ r.ia = v.ia
        /\ r.queue_interrupts = v.queue_interrupts
        /\ Skipped(r).irq = v.irq /\ Skipped(r).halted = v.halted /\ Skipped(r).ia = v.ia
        /\ Skipped(r).queue_interrupts = v.queue_interrupts
    <2> HIDE DEF r
    <2> QED BY <1>1, <1>2 DEF Control
  <1>4. ASSUME NEW x \in Word
        PROVE  StoreA(v, i, x) \in VmState /\ Control(StoreA(v, i, x)) = Control(v)
    <2> DEFINE l == vm_internal_get_store(v, i.a, "A")
               s == Charge(GetStoreStep(v, i.a, "A"), i.op)
    <2>1. l \in Location
      BY <1>1, GetStoreType
    <2>2. s \in VmState /\ Control(s) = Control(v)
      BY <1>1, GetStoreStepType, OperandsKeepControl, CyclesType
    <2>3. Skipped(s) \in VmState /\ Control(Skipped(s)) = Control(v)
      BY <2>2, SkippedType
    <2>4. Store(s, l, x) \in VmState /\ Control(Store(s, l, x)) = Control(v)
      BY <2>1, <2>2, LoadStoreType, StoreKeepsControl
    <2> QED BY <2>3, <2>4 DEF StoreA
  <1>5. vm_op_iag(v, i) \in VmState /\ Control(vm_op_iag(v, i)) = Control(v)
    <2>1. v.ia \in Word
      BY DEF VmState
    <2> QED BY <1>4, <2>1 DEF vm_op_iag
  <1>6. vm_op_hwn(v, i) \in VmState /\ Control(vm_op_hwn(v, i)) = Control(v)
    BY <1>4, HwAssumption DEF vm_op_hwn
  <1> HIDE DEF r, a
  <1>7. vm_op_jsr(v, i) \in VmState /\ Control(vm_op_jsr(v, i)) = Control(v)
    <2>1. r.pc \in Word
      BY <1>1 DEF VmState
    <2> DEFINE p == Push(r, r.pc)
    <2>2. p \in VmState /\ Control(p) = Control(v)
      BY <1>1, <2>1, PushType
    <2>3. vm_op_jsr(v, i) = IF v.skip THEN Skipped(r) ELSE [p EXCEPT !.pc = a]
      BY DEF vm_op_jsr, r, a
    <2> HIDE DEF p
    <2>4. [p EXCEPT !.pc = a] \in VmState
      BY <1>1, <2>2, UpdateType
    <2>5. Control([p EXCEPT !.pc = a]) = Control(v)
      BY <2>2 DEF Control, VmState
    <2> QED BY <1>2, <2>3, <2>4, <2>5
  <1>8. /\ vm_op_ias(v, i) \in VmState
        /\ vm_op_ias(v, i).irq = v.irq /\ vm_op_ias(v, i).halted = v.halted
        /\ vm_op_ias(v, i).queue_interrupts = v.queue_interrupts
    <2>1. vm_op_ias(v, i) = IF v.skip THEN Skipped(r) ELSE [r EXCEPT !.ia = a]
      BY DEF vm_op_ias, r, a
    <2>2. [r EXCEPT !.ia = a] \in VmState
      BY <1>1, UpdateType
    <2> QED BY <1>1, <1>2, <1>3, <2>1, <2>2 DEF VmState
  <1>9. /\ vm_op_iaq(v, i) \in VmState
        /\ vm_op_iaq(v, i).irq = v.irq /\ vm_op_iaq(v, i).halted = v.halted
        /\ vm_op_iaq(v, i).ia = v.ia
    <2>1. vm_op_iaq(v, i) = IF v.skip THEN Skipped(r)
                            ELSE [r EXCEPT !.queue_interrupts = (a # 0)]
      BY DEF vm_op_iaq, r, a
    <2>2. [r EXCEPT !.queue_interrupts = (a # 0)] \in VmState
      BY <1>1, UpdateType
    <2> QED BY <1>1, <1>2, <1>3, <2>1, <2>2 DEF VmState
  <1>10. /\ vm_op_rfi(v, i) \in VmState
         /\ vm_op_rfi(v, i).irq = v.irq /\ vm_op_rfi(v, i).halted = v.halted
         /\ vm_op_rfi(v, i).ia = v.ia
    <2> DEFINE regs == [r.registers EXCEPT ![REG_A] = r.ram[r.sp]]
               s == [r EXCEPT !.registers = regs, !.pc = r.ram[Inc(r.sp)],
                              !.sp = Inc(Inc(r.sp)), !.queue_interrupts = FALSE]
    <2>1. /\ r.ram \in [Word -> Word] /\ r.registers \in [Reg -> Word] /\ r.sp \in Word
      BY <1>1 DEF VmState
    <2>2. Inc(r.sp) \in Word /\ Inc(Inc(r.sp)) \in Word
      BY <2>1, WordArithmetic
    <2>3. regs \in [Reg -> Word]
      BY <2>1 DEF Reg, REG_A
    <2>4. r.ram[Inc(r.sp)] \in Word
      BY <2>1, <2>2
    <2>5. vm_op_rfi(v, i) = IF v.skip THEN Skipped(r) ELSE s
      <3>1. [r EXCEPT !.registers[REG_A] = r.ram[r.sp], !.pc = r.ram[Inc(r.sp)],
                      !.sp = Inc(Inc(r.sp)), !.queue_interrupts = FALSE] = s
        BY <1>1 DEF VmState
      <3>2. vm_op_rfi(v, i) =
               IF v.skip THEN Skipped(r)
               ELSE [r EXCEPT !.registers[REG_A] = r.ram[r.sp], !.pc = r.ram[Inc(r.sp)],
                              !.sp = Inc(Inc(r.sp)), !.queue_interrupts = FALSE]
        BY DEF vm_op_rfi, r
      <3> QED BY <3>1, <3>2, Zenon
    <2> HIDE DEF regs
    <2>6. s \in VmState /\ s.irq = r.irq /\ s.halted = r.halted /\ s.ia = r.ia
      BY <1>1, <2>2, <2>3, <2>4 DEF VmState
    <2> HIDE DEF s
    <2> QED BY <1>2, <1>3, <2>5, <2>6
  <1>11. vm_op_hwq(v, i) \in VmState /\ Control(vm_op_hwq(v, i)) = Control(v)
    <2> DEFINE d == HwTable[a + 1]
               regs == [[[[[r.registers EXCEPT ![REG_A] = d.A] EXCEPT ![REG_B] = d.B]
                          EXCEPT ![REG_C] = d.C] EXCEPT ![REG_X] = d.X] EXCEPT ![REG_Y] = d.Y]
               s == [r EXCEPT !.registers = regs]
    <2>1. CASE v.skip
      BY <1>2, <2>1 DEF vm_op_hwq, r
    <2>2. CASE ~v.skip /\ a >= Len(HwTable)
      BY <1>1, <2>2 DEF vm_op_hwq, r, a
    <2>3. CASE ~v.skip /\ ~(a >= Len(HwTable))
      <3>1. a \in Nat /\ Len(HwTable) \in Nat
        BY <1>1, HwAssumption, WordArithmetic
      <3>0. a + 1 \in 1 .. Len(HwTable)
        BY <2>3, <3>1
      <3>2. d \in HwInfo
        BY <3>0, HwAssumption
      <3>3. d.A \in Word /\ d.B \in Word /\ d.C \in Word /\ d.X \in Word /\ d.Y \in Word
        BY <3>2 DEF HwInfo
      <3>4. r.registers \in [Reg -> Word]
        BY <1>1 DEF VmState
      <3> HIDE DEF d
      <3>5. regs \in [Reg -> Word]
        BY <3>3, <3>4 DEF Reg, REG_A, REG_B, REG_C, REG_X, REG_Y
      <3>6. vm_op_hwq(v, i) = [r EXCEPT !.registers[REG_A] = d.A, !.registers[REG_B] = d.B,
                                  !.registers[REG_C] = d.C, !.registers[REG_X] = d.X,
                                  !.registers[REG_Y] = d.Y]
        BY <2>3 DEF vm_op_hwq, r, a, d
      <3>7. [r EXCEPT !.registers[REG_A] = d.A, !.registers[REG_B] = d.B,
                      !.registers[REG_C] = d.C, !.registers[REG_X] = d.X,
                      !.registers[REG_Y] = d.Y] = s
        BY <1>1 DEF VmState
      <3> HIDE DEF regs
      <3>8. s \in VmState
        BY <1>1, <3>5, UpdateType
      <3>9. Control(s) = Control(r)
        BY <1>1 DEF Control, VmState
      <3> QED BY <1>1, <3>6, <3>7, <3>8, <3>9
    <2> QED BY <2>1, <2>2, <2>3
  <1> QED BY <1>5, <1>6, <1>7, <1>8, <1>9, <1>10, <1>11

-----------------------------------------------------------------------------
(* What instructions do to PC, SP and memory *)

\* PC moves on one word at a time, and a push is undone by a pop.
LEMMA IncDec ==
    /\ \A x \in Int : Inc(x % W) = (x + 1) % W
    /\ \A x \in Word : Inc(Dec(x)) = x
  <1>1. W \in Nat \ {0} /\ Word = 0 .. W - 1
    BY WordArithmetic DEF Word
  <1>2. \A x \in Int : Inc(x % W) = (x + 1) % W
    BY <1>1, ModInc DEF Inc
  <1>3. ASSUME NEW x \in Word PROVE Inc(Dec(x)) = x
    <2>1. x - 1 \in Int /\ (x - 1) + 1 = x /\ W * 0 + x = x /\ x \in 0 .. W - 1
      BY <1>1
    <2>2. Inc((x - 1) % W) = x % W
      BY <1>2, <2>1
    <2>3. x % W = x
      <3>1. (W * 0 + x) % W = x
        BY <1>1, <2>1, DivModUnique
      <3> QED BY <2>1, <3>1
    <2> QED BY <2>2, <2>3 DEF Dec
  <1> QED BY <1>2, <1>3

\* Reading operands leaves memory alone.
LEMMA OperandsKeepRam ==
    ASSUME NEW v \in VmState, NEW val \in Operand, NEW pos \in {"A", "B"}, NEW op
    PROVE  /\ ResolveStep(v, val, pos).ram = v.ram /\ GetStoreStep(v, val, pos).ram = v.ram
           /\ Charge(v, op).ram = v.ram /\ Skipped(v).ram = v.ram
           /\ vm_consume_word(v).ram = v.ram
  BY DEF ResolveStep, GetStoreStep, vm_consume_word, PopPush, Charge, Skipped, VmState

LEMMA ReadsKeepRam ==
    ASSUME NEW v \in VmState, NEW i \in Instr
    PROVE  /\ ReadA(v, i).ram = v.ram /\ ReadAB(v, i).ram = v.ram /\ Read1(v, i).ram = v.ram
  <1>1. i.a \in Operand /\ i.b \in Operand
    BY DEF Instr
  <1>2. ReadA(v, i) \in VmState /\ ReadA(v, i).ram = v.ram
    BY <1>1, ReadType, OperandsKeepRam DEF ReadA
  <1> DEFINE s == GetStoreStep(ReadA(v, i), i.b, "B")
  <1>3. s \in VmState /\ s.ram = v.ram
    BY <1>1, <1>2, GetStoreStepType, OperandsKeepRam
  <1>4. ReadAB(v, i).ram = v.ram
    BY <1>3, OperandsKeepRam, <1>1 DEF ReadAB
  <1>5. Read1(v, i).ram = v.ram
    BY <1>1, <1>2, OperandsKeepRam DEF Read1
  <1> QED BY <1>2, <1>4, <1>5

\* An assignment changes the memory cell it names, and no other.
LEMMA StoreRam ==
    ASSUME NEW v \in VmState, NEW l \in Location, NEW x \in Word, NEW c \in Word,
           Store(v, l, x).ram[c] # v.ram[c]
    PROVE  c \in HookedBy(l)
  <1>1. l.kind = "ram" => l.i \in Word
    BY DEF Location
  <1>2. CASE l.kind = "ram"
    <2>1. Store(v, l, x) = [v EXCEPT !.ram[l.i] = x]
      BY <1>2 DEF Store
    <2> QED BY <1>1, <1>2, <2>1 DEF HookedBy, VmState
  <1>3. CASE l.kind = "reg"
    <2>1. Store(v, l, x) = [v EXCEPT !.registers[l.i] = x]
      BY <1>3 DEF Store
    <2> QED BY <2>1 DEF VmState
  <1>4. CASE l.kind \notin {"ram", "reg"}
    BY <1>4 DEF Store, VmState
  <1> QED BY <1>2, <1>3, <1>4

\* A push changes the cell SP then points to, and no other.
LEMMA PushRam ==
    ASSUME NEW v \in VmState, NEW x \in Word
    PROVE  /\ Push(v, x).sp = Dec(v.sp) /\ Dec(v.sp) \in Word
           /\ Push(v, x).registers = v.registers /\ Push(v, x).ia = v.ia
           /\ \A c \in Word : c # Dec(v.sp) => Push(v, x).ram[c] = v.ram[c]
  <1>1. Dec(v.sp) \in Word
    BY WordArithmetic DEF VmState
  <1> QED BY <1>1 DEF Push, VmState

\* The instructions that store through an operand change the cell they report;
\* the others, JSR apart, change none.
LEMMA InstructionRam ==
    ASSUME NEW v \in VmState, NEW i \in Instr, NEW c \in Word
    PROVE  /\ i.op \in Arith /\ vm_op_arith(v, i).ram[c] # v.ram[c] =>
                 ~v.skip /\ c \in HookedBy(LocB(v, i))
           /\ vm_op_set(v, i).ram[c] # v.ram[c] => ~v.skip /\ c \in HookedBy(LocB(v, i))
           /\ vm_op_sti(v, i).ram[c] # v.ram[c] => ~v.skip /\ c \in HookedBy(LocB(v, i))
           /\ vm_op_if(v, i).ram = v.ram
           /\ \A x \in Word : StoreA(v, i, x).ram[c] # v.ram[c] =>
                 ~v.skip /\ c \in HookedBy(vm_internal_get_store(v, i.a, "A"))
           /\ vm_op_jsr(v, i).ram[c] # v.ram[c] => c = vm_op_jsr(v, i).sp
           /\ vm_op_ias(v, i).ram = v.ram /\ vm_op_rfi(v, i).ram = v.ram
           /\ vm_op_iaq(v, i).ram = v.ram /\ vm_op_hwq(v, i).ram = v.ram
  <1> DEFINE r == ReadAB(v, i)
             l == LocB(v, i)
             a == ValA(v, i)
             o == Read1(v, i)
  <1>1. /\ r \in VmState /\ l \in Location /\ a \in Word /\ o \in VmState
        /\ r.ram = v.ram /\ o.ram = v.ram /\ i.a \in Operand /\ i.b \in Operand
    BY ReadType, ReadsKeepRam DEF Instr
  <1>2. Skipped(r).ram = v.ram /\ Skipped(o).ram = v.ram
    <2> HIDE DEF r, o
    <2> QED BY <1>1 DEF Skipped, VmState
  <1>3. \A x \in Word : Store(r, l, x).ram[c] # v.ram[c] => c \in HookedBy(l)
    BY <1>1, StoreRam
  <1>4. vm_op_set(v, i).ram[c] # v.ram[c] => ~v.skip /\ c \in HookedBy(l)
    <2>1. vm_op_set(v, i) = IF v.skip THEN Skipped(r) ELSE Store(r, l, a)
      BY DEF vm_op_set
    <2> HIDE DEF r, l, a
    <2> QED BY <1>1, <1>2, <1>3, <2>1
  <1>5. i.op \in Arith /\ vm_op_arith(v, i).ram[c] # v.ram[c] => ~v.skip /\ c \in HookedBy(l)
    <2> SUFFICES ASSUME i.op \in Arith, vm_op_arith(v, i).ram[c] # v.ram[c]
                 PROVE  ~v.skip /\ c \in HookedBy(l)
      OBVIOUS
    <2> DEFINE b == Load(r, l)
               res == Result(i.op, b, a, r.ex) % W
               exc == Excess(i.op, b, a, r.ex) % W
               st == Store(r, l, res)
    <2>1. b \in Word /\ r.ex \in Word
      BY <1>1, LoadStoreType DEF VmState
    <2>2. res \in Word
      BY <1>1, <2>1, ArithmeticType
    <2>3. st \in VmState
      BY <1>1, <2>2, LoadStoreType
    <2>4. vm_op_arith(v, i) = IF v.skip THEN Skipped(r)
                              ELSE IF SetsEX(i.op) THEN [st EXCEPT !.ex = exc] ELSE st
      BY DEF vm_op_arith
    <2> HIDE DEF st, exc
    <2>5. [st EXCEPT !.ex = exc].ram = st.ram
      BY <2>3 DEF VmState
    <2>6. st.ram[c] # v.ram[c] => c \in HookedBy(l)
      BY <1>3, <2>2 DEF st
    <2> HIDE DEF r, l
    <2> QED BY <1>2, <2>4, <2>5, <2>6
  <1>6. vm_op_sti(v, i).ram[c] # v.ram[c] => ~v.skip /\ c \in HookedBy(l)
    <2> DEFINE s == vm_op_set(v, i)
    <2>1. s \in VmState
      BY BasicType
    <2>2. vm_op_sti(v, i).ram = s.ram
      <3>1. vm_op_sti(v, i) =
               IF v.skip THEN s
               ELSE [s EXCEPT !.registers[REG_I] = IF i.op = "STI" THEN Inc(@) ELSE Dec(@),
                              !.registers[REG_J] = IF i.op = "STI" THEN Inc(@) ELSE Dec(@)]
        BY DEF vm_op_sti
      <3> HIDE DEF s
      <3> QED BY <2>1, <3>1 DEF VmState
    <2> QED BY <1>4, <2>2
  <1>7. vm_op_if(v, i).ram = v.ram
    <2> DEFINE v1 == ReadA(v, i)
               v2 == ResolveStep(v1, i.b, "B")
               h == ~Holds(i.op, vm_resolve_value(v1, i.b, "B"), a)
    <2>1. v1 \in VmState /\ v1.ram = v.ram
      BY ReadType, ReadsKeepRam
    <2>2. v2 \in VmState /\ v2.ram = v.ram
      BY <1>1, <2>1, ResolveStepType, OperandsKeepRam
    <2>3. vm_op_if(v, i) = IF v.skip THEN v2 ELSE [v2 EXCEPT !.skip = h]
      BY DEF vm_op_if
    <2> HIDE DEF h, v2
    <2> QED BY <2>2, <2>3 DEF VmState
  <1>8. ASSUME NEW x \in Word, StoreA(v, i, x).ram[c] # v.ram[c]
        PROVE  ~v.skip /\ c \in HookedBy(vm_internal_get_store(v, i.a, "A"))
    <2> DEFINE m == vm_internal_get_store(v, i.a, "A")
               g == GetStoreStep(v, i.a, "A")
               s == Charge(g, i.op)
    <2>1. m \in Location /\ g \in VmState /\ g.ram = v.ram
      BY <1>1, GetStoreType, GetStoreStepType, OperandsKeepRam
    <2>2. s \in VmState /\ s.ram = v.ram /\ Skipped(s).ram = v.ram
      <3>1. s \in VmState /\ s.ram = v.ram
        BY <1>1, <2>1, CyclesType, OperandsKeepRam
      <3> QED BY <1>1, <3>1, OperandsKeepRam
    <2>3. StoreA(v, i, x) = IF v.skip THEN Skipped(s) ELSE Store(s, m, x)
      BY DEF StoreA
    <2> HIDE DEF m, s
    <2>4. Store(s, m, x).ram[c] # v.ram[c] => c \in HookedBy(m)
      BY <2>1, <2>2, StoreRam
    <2> QED BY <1>8, <2>2, <2>3, <2>4 DEF m
  <1> HIDE DEF r, l, a, o
  <1>9. vm_op_jsr(v, i).ram[c] # v.ram[c] => c = vm_op_jsr(v, i).sp
    <2> DEFINE p == Push(o, o.pc)
    <2>1. p \in VmState
      BY <1>1, PushType DEF VmState
    <2>2. vm_op_jsr(v, i) = IF v.skip THEN Skipped(o) ELSE [p EXCEPT !.pc = a]
      BY DEF vm_op_jsr, o, a
    <2>3. p.ram[c] # v.ram[c] => c = p.sp
      <3>1. o.pc \in Word
        BY <1>1 DEF VmState
      <3>2. p.sp = Dec(o.sp) /\ \A d \in Word : d # Dec(o.sp) => p.ram[d] = o.ram[d]
        BY <1>1, <3>1, PushRam
      <3> HIDE DEF p
      <3> QED BY <1>1, <3>2
    <2> HIDE DEF p
    <2>4. [p EXCEPT !.pc = a].ram = p.ram /\ [p EXCEPT !.pc = a].sp = p.sp
      BY <2>1 DEF VmState
    <2> QED BY <1>2, <2>2, <2>3, <2>4
  <1>10. /\ vm_op_ias(v, i).ram = v.ram /\ vm_op_rfi(v, i).ram = v.ram
         /\ vm_op_iaq(v, i).ram = v.ram
    <2>1. vm_op_ias(v, i) = IF v.skip THEN Skipped(o) ELSE [o EXCEPT !.ia = a]
      BY DEF vm_op_ias, o, a
    <2>2. vm_op_iaq(v, i) = IF v.skip THEN Skipped(o) ELSE [o EXCEPT !.queue_interrupts = a # 0]
      BY DEF vm_op_iaq, o, a
    <2>3. vm_op_rfi(v, i) =
             IF v.skip THEN Skipped(o)
             ELSE [o EXCEPT !.registers[REG_A] = o.ram[o.sp], !.pc = o.ram[Inc(o.sp)],
                            !.sp = Inc(Inc(@)), !.queue_interrupts = FALSE]
      BY DEF vm_op_rfi, o
    <2> QED BY <1>1, <1>2, <2>1, <2>2, <2>3 DEF VmState
  <1>11. vm_op_hwq(v, i).ram = v.ram
    <2> DEFINE dev == HwTable[a + 1]
    <2>1. vm_op_hwq(v, i) =
             IF v.skip THEN Skipped(o)
             ELSE IF a >= Len(HwTable) THEN o
             ELSE [o EXCEPT !.registers[REG_A] = dev.A, !.registers[REG_B] = dev.B,
                            !.registers[REG_C] = dev.C, !.registers[REG_X] = dev.X,
                            !.registers[REG_Y] = dev.Y]
      BY DEF vm_op_hwq, o, a
    <2> HIDE DEF dev
    <2> QED BY <1>1, <1>2, <2>1 DEF VmState
  <1> QED BY <1>4, <1>5, <1>6, <1>7, <1>8, <1>9, <1>10, <1>11 DEF l

-----------------------------------------------------------------------------
(* Arithmetic on numbers two words wide *)

Double(hi, lo) == hi * W + lo

\* Two words are the two digits of a number below W * W.
LEMMA DoubleRange ==
    ASSUME NEW hi \in Word, NEW lo \in Word
    PROVE  Double(hi, lo) \in 0 .. W * W - 1 /\ W * W \in Nat \ {0}
  <1>1. W \in Nat /\ W >= 2 /\ hi \in Int /\ lo \in Int /\ hi >= 0 /\ lo >= 0
        /\ hi <= W - 1 /\ lo <= W - 1
    BY WordAssumption DEF Word
  <1>2. hi * W \in Int /\ W * W \in Int /\ (W - 1) * W = W * W - W
    BY <1>1
  <1>3. hi * W >= 0 /\ hi * W <= (W - 1) * W
    BY <1>1
  <1>4. W * W > 0
    BY <1>1
  <1> QED BY <1>1, <1>2, <1>3, <1>4 DEF Double

\* A number and the double word that differs from it by a multiple of W * W.
LEMMA DoubleUnique ==
    ASSUME NEW hi \in Word, NEW lo \in Word, NEW k \in Int, NEW x \in Int,
           x = (W * W) * k + Double(hi, lo)
    PROVE  Double(hi, lo) = x % (W * W) /\ k = x \div (W * W)
  <1> DEFINE d == W * W
             r == Double(hi, lo)
  <1>1. d \in Nat \ {0} /\ r \in 0 .. d - 1 /\ x = d * k + r
    BY DoubleRange
  <1> HIDE DEF d, r
  <1>2. (d * k + r) \div d = k /\ (d * k + r) % d = r
    BY <1>1, DivModUnique
  <1>3. x \div d = k /\ x % d = r
    BY <1>1, <1>2
  <1> QED BY <1>3 DEF d, r

\* Cutting a number to two words cuts each digit to a word.
LEMMA TwoDigits ==
    ASSUME NEW x \in Int
    PROVE  Double((x \div W) % W, x % W) = x % (W * W)
  <1> DEFINE q == x \div W
             lo == x % W
             hi == q % W
             k == q \div W
  <1>1. W \in Nat \ {0} /\ W >= 2
    BY WordAssumption
  <1>2. q \in Int /\ lo \in Word /\ lo \in Int /\ x = W * q + lo
    BY <1>1 DEF Word
  <1> HIDE DEF q, lo
  <1>3. k \in Int /\ hi \in Word /\ hi \in Int /\ q = W * k + hi
    BY <1>1, <1>2 DEF Word
  <1> HIDE DEF k, hi
  <1>4. W * q = W * (W * k) + W * hi
    BY <1>1, <1>3
  <1>5. W * (W * k) = (W * W) * k /\ W * hi = hi * W
    BY <1>1, <1>3
  <1>6. W * (W * k) \in Int /\ W * hi \in Int /\ W * q \in Int
    BY <1>1, <1>2, <1>3
  <1>7. x = (W * W) * k + Double(hi, lo)
    BY <1>2, <1>3, <1>4, <1>5, <1>6 DEF Double
  <1>8. Double(hi, lo) = x % (W * W)
    BY <1>2, <1>3, <1>7, DoubleUnique
  <1> QED BY <1>8 DEF hi, lo, q

\* A number shifted up by a word and divided has the quotient as upper part.
LEMMA ShiftedQuotient ==
    ASSUME NEW x \in Int, NEW s \in Nat \ {0}
    PROVE  ((x * W) \div s) \div W = x \div s /\ (x * W) \div s \in Int
  <1> DEFINE q == x \div s
             r == x % s
             y == r * W
             f == y \div s
             g == y % s
  <1>1. W \in Nat \ {0}
    BY WordAssumption
  <1>2. q \in Int /\ r \in Int /\ r >= 0 /\ r <= s - 1 /\ x = s * q + r
    OBVIOUS
  <1> HIDE DEF q, r
  <1>3. y \in Int /\ y >= 0 /\ y <= (s - 1) * W /\ (s - 1) * W = s * W - W
    BY <1>1, <1>2
  <1> HIDE DEF y
  <1>4. f \in Int /\ g \in 0 .. s - 1 /\ g \in Int /\ y = s * f + g
    BY <1>3
  <1> HIDE DEF f, g
  <1>5. f \in 0 .. W - 1
    <2> DEFINE u == s * f
               w == s * W
    <2>1. u \in Int /\ w \in Int
      BY <1>1, <1>4
    <2>2. f >= W => u >= w
      BY <1>1, <1>4
    <2>3. f <= -1 => u <= -s
      BY <1>1, <1>4
    <2>4. y = u + g /\ y >= 0 /\ y <= w - W
      BY <1>3, <1>4
    <2> HIDE DEF u, w
    <2> QED BY <1>1, <1>3, <1>4, <2>1, <2>2, <2>3, <2>4
  <1>6. x * W = s * (W * q + f) + g
    <2>1. x * W = (s * q) * W + y
      BY <1>1, <1>2 DEF y
    <2>2. (s * q) * W = s * (W * q) /\ s * (W * q + f) = s * (W * q) + s * f
      BY <1>1, <1>2, <1>4
    <2>3. (s * q) * W \in Int /\ s * f \in Int /\ s * (W * q) \in Int
      BY <1>1, <1>2, <1>4
    <2> QED BY <1>3, <1>4, <2>1, <2>2, <2>3
  <1> DEFINE p == W * q + f
  <1>7. p \in Int
    BY <1>1, <1>2, <1>4
  <1>8. (x * W) \div s = p
    <2>1. x * W = s * p + g
      BY <1>6
    <2> HIDE DEF p
    <2>2. (s * p + g) \div s = p
      BY <1>4, <1>7, DivModUnique
    <2> QED BY <2>1, <2>2
  <1>9. (W * q + f) \div W = q
    BY <1>1, <1>2, <1>5, DivModUnique
  <1> QED BY <1>7, <1>8, <1>9 DEF q

\* ADD leaves the carry in EX and ADX adds it: together they add double words,
\* and EX ends as the carry out of the upper word (vm_op_add, vm_op_adx,
\* VM_CHECK_ARITHMETIC_FLOW).  With one bit a carry would read as -1.
THEOREM WideAddition ==
    ASSUME W > 2, NEW blo \in Word, NEW bhi \in Word, NEW alo \in Word, NEW ahi \in Word,
           NEW ex \in Word
    PROVE  LET lo == Result("ADD", blo, alo, ex) % W
               carry == Excess("ADD", blo, alo, ex) % W
               hi == Result("ADX", bhi, ahi, carry) % W
               out == Excess("ADX", bhi, ahi, carry) % W
               sum == Double(bhi, blo) + Double(ahi, alo)
           IN  Double(hi, lo) = sum % (W * W) /\ Signed(out) = sum \div (W * W)
  <1> DEFINE lo == Result("ADD", blo, alo, ex) % W
             carry == Excess("ADD", blo, alo, ex) % W
             hi == Result("ADX", bhi, ahi, carry) % W
             out == Excess("ADX", bhi, ahi, carry) % W
             sum == Double(bhi, blo) + Double(ahi, alo)
  <1>1. /\ W \in Nat \ {0} /\ blo \in Int /\ bhi \in Int /\ alo \in Int /\ ahi \in Int
        /\ blo >= 0 /\ bhi >= 0 /\ alo >= 0 /\ ahi >= 0
        /\ blo <= W - 1 /\ bhi <= W - 1 /\ alo <= W - 1 /\ ahi <= W - 1
    BY WordAssumption DEF Word
  <1>2. /\ lo = (blo + alo) % W /\ carry = Flow(blo + alo) % W
        /\ hi = (bhi + ahi + carry) % W /\ out = Flow(bhi + ahi + Signed(carry)) % W
    BY DEF Result, Excess
  <1> HIDE DEF lo, carry, hi, out
  <1>3. \A x \in 0 .. W - 1 : x % W = x /\ (x + W) % W = x
    BY <1>1
  <1>4. /\ carry \in {0, 1} /\ lo \in Word /\ lo \in Int /\ Signed(carry) = carry
        /\ blo + alo = W * carry + lo
    <2>1. CASE blo + alo < W
      <3>1. blo + alo \in 0 .. W - 1 /\ 0 \in 0 .. W - 1
        BY <1>1, <2>1
      <3>2. Flow(blo + alo) = 0
        BY <1>1, <2>1 DEF Flow
      <3>3. lo = blo + alo /\ carry = 0
        BY <1>2, <1>3, <3>1, <3>2
      <3> QED BY <1>1, <3>1, <3>3 DEF Signed, Word
    <2>2. CASE blo + alo >= W
      <3>1. blo + alo - W \in 0 .. W - 1 /\ blo + alo = (blo + alo - W) + W
        BY <1>1, <2>2
      <3>2. lo = blo + alo - W
        BY <1>2, <1>3, <3>1
      <3>3. carry = 1
        BY <1>1, <1>2, <1>3, <2>2 DEF Flow
      <3> QED BY <1>1, <3>1, <3>2, <3>3 DEF Signed, Word
    <2> QED BY <1>1, <2>1, <2>2
  <1>5. /\ out \in {0, 1} /\ hi \in Word /\ hi \in Int /\ Signed(out) = out
        /\ bhi + ahi + carry = W * out + hi
    <2> DEFINE t == bhi + ahi + carry
    <2>1. t \in Int /\ t >= 0 /\ t <= 2 * W - 1
      BY <1>1, <1>4
    <2>2. hi = t % W /\ out = Flow(t) % W
      BY <1>2, <1>4
    <2> HIDE DEF t
    <2>3. CASE t < W
      BY <1>1, <1>3, <2>1, <2>2, <2>3 DEF Flow, Signed, Word, t
    <2>4. CASE t >= W
      <3>1. t - W \in 0 .. W - 1 /\ t = (t - W) + W
        BY <1>1, <2>1, <2>4
      <3>2. hi = t - W
        BY <1>3, <2>2, <3>1
      <3>3. out = 1
        BY <1>1, <1>3, <2>1, <2>2, <2>4 DEF Flow
      <3> QED BY <1>1, <2>1, <3>1, <3>2, <3>3 DEF Signed, Word, t
    <2> QED BY <1>1, <2>1, <2>3, <2>4
  <1>6. sum = (W * W) * out + Double(hi, lo) /\ sum \in Int
    <2>1. sum = (bhi + ahi) * W + (blo + alo)
      BY <1>1 DEF Double
    <2>2. sum = (bhi + ahi + carry) * W + lo
      <3>1. (bhi + ahi + carry) * W = (bhi + ahi) * W + W * carry
        BY <1>1, <1>4
      <3>2. (bhi + ahi) * W \in Int /\ W * carry \in Int
        BY <1>1, <1>4
      <3> HIDE DEF sum
      <3> QED BY <1>4, <2>1, <3>1, <3>2
    <2>3. (W * out + hi) * W = (W * W) * out + hi * W
      BY <1>1, <1>5
    <2>4. (W * W) * out \in Int /\ hi * W \in Int
      BY <1>1, <1>5
    <2> HIDE DEF sum
    <2> QED BY <1>4, <1>5, <2>2, <2>3, <2>4 DEF Double
  <1> HIDE DEF sum
  <1>7. Double(hi, lo) = sum % (W * W) /\ out = sum \div (W * W)
    BY <1>4, <1>5, <1>6, DoubleUnique
  <1>8. Double(hi, lo) = sum % (W * W) /\ Signed(out) = sum \div (W * W)
    BY <1>5, <1>7
  <1> QED BY <1>8 DEF lo, carry, hi, out, sum

\* SUB leaves a borrow in EX as -1 and SBX adds it: together they subtract
\* double words, and EX ends as the borrow of the upper word (vm_op_sub,
\* vm_op_sbx).
THEOREM WideSubtraction ==
    ASSUME W > 2, NEW blo \in Word, NEW bhi \in Word, NEW alo \in Word, NEW ahi \in Word,
           NEW ex \in Word
    PROVE  LET lo == Result("SUB", blo, alo, ex) % W
               borrow == Excess("SUB", blo, alo, ex) % W
               hi == Result("SBX", bhi, ahi, borrow) % W
               out == Excess("SBX", bhi, ahi, borrow) % W
               rest == Double(bhi, blo) - Double(ahi, alo)
           IN  Double(hi, lo) = rest % (W * W) /\ Signed(out) = rest \div (W * W)
  <1> DEFINE lo == Result("SUB", blo, alo, ex) % W
             borrow == Excess("SUB", blo, alo, ex) % W
             hi == Result("SBX", bhi, ahi, borrow) % W
             out == Excess("SBX", bhi, ahi, borrow) % W
             rest == Double(bhi, blo) - Double(ahi, alo)
             c == Signed(borrow)
             k == Signed(out)
  <1>1. /\ W \in Nat \ {0} /\ blo \in Int /\ bhi \in Int /\ alo \in Int /\ ahi \in Int
        /\ blo >= 0 /\ bhi >= 0 /\ alo >= 0 /\ ahi >= 0
        /\ blo <= W - 1 /\ bhi <= W - 1 /\ alo <= W - 1 /\ ahi <= W - 1
    BY WordAssumption DEF Word
  <1>2. /\ lo = (blo - alo) % W /\ borrow = Flow(blo - alo) % W
        /\ hi = (bhi - ahi + borrow) % W /\ out = Flow(bhi - ahi + Signed(borrow)) % W
    BY DEF Result, Excess
  <1> HIDE DEF lo, borrow, hi, out
  <1>3. \A x \in 0 .. W - 1 : x % W = x /\ (x - W) % W = x /\ (x + W) % W = x
    BY <1>1
  <1>4. 0 \in 0 .. W - 1 /\ W - 1 \in 0 .. W - 1 /\ Signed(0) = 0 /\ Signed(W - 1) = -1
    BY <1>1 DEF Signed
  <1>5. /\ lo \in Word /\ lo \in Int /\ blo - alo = W * c + lo
        /\ (borrow = 0 /\ c = 0) \/ (borrow = W - 1 /\ c = -1)
    <2>1. CASE blo - alo >= 0
      <3>1. blo - alo \in 0 .. W - 1
        BY <1>1, <2>1
      <3>2. Flow(blo - alo) = 0
        BY <1>1, <2>1 DEF Flow
      <3>3. lo = blo - alo /\ borrow = 0
        BY <1>2, <1>3, <1>4, <3>1, <3>2
      <3>4. c = 0 /\ W * 0 = 0
        BY <1>1, <1>4, <3>3
      <3> HIDE DEF c
      <3> QED BY <1>1, <3>1, <3>3, <3>4 DEF Word
    <2>2. CASE blo - alo < 0
      <3>1. blo - alo + W \in 0 .. W - 1 /\ blo - alo = (blo - alo + W) - W
        BY <1>1, <2>2
      <3>2. Flow(blo - alo) = W - 1
        BY <2>2 DEF Flow, AR_UNDERFLOW
      <3>3. lo = blo - alo + W /\ borrow = W - 1
        BY <1>2, <1>3, <1>4, <3>1, <3>2
      <3> QED BY <1>1, <1>4, <3>1, <3>3 DEF Word
    <2> QED BY <1>1, <2>1, <2>2
  <1>6. /\ hi \in Word /\ hi \in Int /\ bhi - ahi + c = W * k + hi
        /\ k = 0 \/ k = -1
    <2> DEFINE t == bhi - ahi + c
    <2>1. t \in Int /\ t >= -W /\ t <= W - 1
      BY <1>1, <1>5
    <2>2. out = Flow(t) % W /\ (hi = t % W \/ hi = (t + W) % W)
      <3>1. bhi - ahi + borrow = t \/ bhi - ahi + borrow = t + W
        BY <1>1, <1>5
      <3> QED BY <1>2, <3>1
    <2> HIDE DEF t
    <2>3. CASE t >= 0
      <3>1. Flow(t) = 0 /\ t \in 0 .. W - 1
        BY <1>1, <2>1, <2>3 DEF Flow
      <3>2. hi = t /\ out = 0
        BY <1>3, <1>4, <2>2, <3>1
      <3> QED BY <1>1, <1>4, <2>1, <3>1, <3>2 DEF Word, t
    <2>4. CASE t < 0
      <3>1. t + W \in 0 .. W - 1 /\ t = (t + W) - W
        BY <1>1, <2>1, <2>4
      <3>2. Flow(t) = W - 1
        BY <2>4 DEF Flow, AR_UNDERFLOW
      <3>3. hi = t + W /\ out = W - 1
        BY <1>3, <1>4, <2>2, <3>1, <3>2
      <3> QED BY <1>1, <1>4, <2>1, <3>1, <3>3 DEF Word, t
    <2> QED BY <1>1, <2>1, <2>3, <2>4
  <1> HIDE DEF c, k
  <1>7. c \in Int /\ k \in Int
    BY <1>5, <1>6
  <1>8. rest = (W * W) * k + Double(hi, lo) /\ rest \in Int
    <2>1. rest = (bhi - ahi) * W + (blo - alo)
      BY <1>1 DEF Double
    <2>2. rest = (bhi - ahi + c) * W + lo
      <3>1. (bhi - ahi + c) * W = (bhi - ahi) * W + W * c
        BY <1>1, <1>7
      <3>2. (bhi - ahi) * W \in Int /\ W * c \in Int
        BY <1>1, <1>7
      <3> HIDE DEF rest
      <3> QED BY <1>5, <2>1, <3>1, <3>2
    <2>3. (W * k + hi) * W = (W * W) * k + hi * W
      BY <1>1, <1>6, <1>7
    <2>4. (W * W) * k \in Int /\ hi * W \in Int
      BY <1>1, <1>6, <1>7
    <2> HIDE DEF rest
    <2> QED BY <1>5, <1>6, <2>2, <2>3, <2>4 DEF Double
  <1> HIDE DEF rest
  <1>9. Double(hi, lo) = rest % (W * W) /\ k = rest \div (W * W)
    BY <1>5, <1>6, <1>7, <1>8, DoubleUnique
  <1> QED BY <1>9 DEF lo, borrow, hi, out, rest, k

\* EX and the stored word are the two halves of the exact answer: the upper
\* word of a product or of a left shift by at most a word (vm_op_mul,
\* vm_op_mli, vm_op_shl), signed and unsigned.
THEOREM HighHalf ==
    ASSUME NEW b \in Word, NEW a \in Word, NEW ex \in Word
    PROVE  /\ Double(Excess("MUL", b, a, ex) % W, Result("MUL", b, a, ex) % W)
                 = (b * a) % (W * W)
           /\ Double(Excess("MLI", b, a, ex) % W, Result("MLI", b, a, ex) % W)
                 = (Signed(b) * Signed(a)) % (W * W)
           /\ a <= BITS =>
                 Double(Excess("SHL", b, a, ex) % W, Result("SHL", b, a, ex) % W)
                     = (b * 2^a) % (W * W)
  <1> DEFINE sb == Signed(b)
             sa == Signed(a)
             s == ShiftBy(a)
             p == b * a
             q == sb * sa
             t == b * s
  <1>1. b \in Nat /\ a \in Nat /\ sb \in Int /\ sa \in Int
    BY WordArithmetic
  <1>2. a <= BITS => s = 2^a
    <2>1. a <= BITS => a % (2 * BITS) = a
      BY <1>1, BitsAssumption
    <2> QED BY <2>1 DEF ShiftBy
  <1>3. s \in Int
    BY <1>1, BitsAssumption DEF ShiftBy
  <1> HIDE DEF sb, sa, s
  <1>4. p \in Int /\ q \in Int /\ t \in Int
    BY <1>1, <1>3
  <1>5. /\ Excess("MUL", b, a, ex) = p \div W /\ Result("MUL", b, a, ex) = p
        /\ Excess("MLI", b, a, ex) = q \div W /\ Result("MLI", b, a, ex) = q
        /\ Excess("SHL", b, a, ex) = t \div W /\ Result("SHL", b, a, ex) = t
    BY DEF Excess, Result, sb, sa, s
  <1> HIDE DEF p, q, t
  <1>6. /\ Double((p \div W) % W, p % W) = p % (W * W)
        /\ Double((q \div W) % W, q % W) = q % (W * W)
        /\ Double((t \div W) % W, t % W) = t % (W * W)
    BY <1>4, TwoDigits
  <1>7. /\ Double(Excess("MUL", b, a, ex) % W, Result("MUL", b, a, ex) % W) = p % (W * W)
        /\ Double(Excess("MLI", b, a, ex) % W, Result("MLI", b, a, ex) % W) = q % (W * W)
        /\ Double(Excess("SHL", b, a, ex) % W, Result("SHL", b, a, ex) % W) = t % (W * W)
    BY <1>5, <1>6, Zenon
  <1>8. a <= BITS => t = b * 2^a
    BY <1>2 DEF t
  <1> QED BY <1>7, <1>8, Zenon DEF p, q, sb, sa

\* Shifting b down as a signed number instead of an unsigned one shows only
\* above the fraction when the factor s divides W.
LEMMA SignedFraction ==
    ASSUME NEW b \in Word, NEW s \in Nat \ {0}, NEW k \in Nat, s * k = W
    PROVE  ((Signed(b) * W) \div s) % W = ((b * W) \div s) % W
  <1>1. W \in Nat \ {0} /\ b \in Nat
    BY WordArithmetic
  <1>2. CASE Signed(b) = b
    BY <1>2
  <1>3. CASE Signed(b) = b - W
    <2> DEFINE y == b * W
               z == (b - W) * W
               f == y \div s
               g == y % s
    <2>1. y \in Int /\ z \in Int /\ z = y - W * W
      BY <1>1
    <2>2. W * W = s * (W * k) /\ W * k \in Int
      BY <1>1
    <2> HIDE DEF y, z
    <2>3. f \in Int /\ g \in 0 .. s - 1 /\ g \in Int /\ y = s * f + g
      BY <2>1
    <2> HIDE DEF f, g
    <2> DEFINE p == f - W * k
    <2>4. p \in Int
      BY <2>2, <2>3
    <2>5. s * p = s * f - s * (W * k)
      BY <2>2, <2>3
    <2>6. z = s * p + g
      <3>1. s * f \in Int /\ s * (W * k) \in Int
        BY <2>2, <2>3
      <3> HIDE DEF p
      <3> QED BY <2>1, <2>2, <2>3, <2>5, <3>1
    <2>7. z \div s = f - W * k
      <3>1. (s * p + g) \div s = p
        <4> HIDE DEF p
        <4> QED BY <2>3, <2>4, DivModUnique
      <3> QED BY <2>6, <3>1
    <2>8. (f - W * k) % W = f % W
      <3> DEFINE u == f \div W
                 r == f % W
      <3>1. u \in Int /\ r \in 0 .. W - 1 /\ r \in Int /\ f = W * u + r
        BY <1>1, <2>3
      <3> HIDE DEF u, r
      <3>2. f - W * k = W * (u - k) + r /\ u - k \in Int
        <4>1. W * (u - k) = W * u - W * k
          BY <1>1, <3>1
        <4>2. W * u \in Int /\ W * k \in Int
          BY <1>1, <3>1
        <4> QED BY <3>1, <4>1, <4>2
      <3>3. (W * (u - k) + r) % W = r
        BY <1>1, <3>1, <3>2, DivModUnique
      <3> QED BY <3>2, <3>3 DEF r
    <2> QED BY <1>3, <2>7, <2>8 DEF f, y, z
  <1> QED BY <1>2, <1>3 DEF Signed

\* A dividend one word up: its quotient is below W * W when it is not negative.
LEMMA QuotientDigits ==
    ASSUME NEW x \in Int, NEW s \in Nat \ {0}
    PROVE  /\ Double((x \div s) % W, ((x * W) \div s) % W) = ((x * W) \div s) % (W * W)
           /\ x \in Word => ((x * W) \div s) % (W * W) = (x * W) \div s
  <1> DEFINE y == (x * W) \div s
             q == x \div s
             lo == y % W
  <1>1. y \in Int /\ y \div W = q
    BY ShiftedQuotient
  <1> HIDE DEF y, q
  <1>2. Double((y \div W) % W, y % W) = y % (W * W)
    BY <1>1, TwoDigits
  <1>3. x \in Word => y % (W * W) = y
    <2> HAVE x \in Word
    <2>1. W \in Nat \ {0} /\ x \in Nat /\ x <= W - 1
      BY WordAssumption DEF Word
    <2>2. q \in Word /\ q \in Int
      <3>1. q \in Int /\ q >= 0 /\ q <= x
        BY <2>1 DEF q
      <3> QED BY <2>1, <3>1 DEF Word
    <2>3. lo \in Word /\ lo \in Int /\ y = W * q + lo
      <3>1. lo \in 0 .. W - 1 /\ y = W * (y \div W) + lo
        BY <1>1, <2>1
      <3> QED BY <1>1, <3>1 DEF Word
    <2> HIDE DEF lo
    <2>4. y = (W * W) * 0 + Double(q, lo)
      <3>1. (W * W) * 0 = 0 /\ W * q = q * W /\ W * q \in Int
        BY <2>1, <2>2
      <3> QED BY <2>3, <3>1 DEF Double
    <2>5. Double(q, lo) = y % (W * W)
      BY <1>1, <2>2, <2>3, <2>4, DoubleUnique
    <2>6. y = Double(q, lo)
      <3>1. W * q = q * W
        BY <2>1, <2>2
      <3> QED BY <2>3, <3>1 DEF Double
    <2> QED BY <2>5, <2>6
  <1> QED BY <1>1, <1>2, <1>3 DEF y, q

\* The fraction of a quotient or of a right shift by at most a word is in EX:
\* quotient and EX together are the dividend, moved up by a word, divided
\* (vm_op_div, vm_op_shr, vm_op_asr).  Division by zero gives zero and zero.
THEOREM Fraction ==
    ASSUME NEW b \in Word, NEW a \in Word, NEW ex \in Word
    PROVE  /\ Double(Result("DIV", b, a, ex) % W, Excess("DIV", b, a, ex) % W)
                 = IF a = 0 THEN 0 ELSE (b * W) \div a
           /\ a <= BITS =>
                 Double(Result("SHR", b, a, ex) % W, Excess("SHR", b, a, ex) % W)
                     = ((b * W) \div 2^a) % (W * W)
           /\ a <= BITS /\ 2 * a < W =>
                 Double(Result("ASR", b, a, ex) % W, Excess("ASR", b, a, ex) % W)
                     = ((Signed(b) * W) \div 2^a) % (W * W)
  <1> DEFINE sb == Signed(b)
             s == 2^a
  <1>1. W \in Nat \ {0} /\ b \in Nat /\ a \in Nat /\ sb \in Int /\ b \in Int
    BY WordArithmetic
  <1> HIDE DEF sb
  <1>2. Double(Result("DIV", b, a, ex) % W, Excess("DIV", b, a, ex) % W)
           = IF a = 0 THEN 0 ELSE (b * W) \div a
    <2>1. CASE a = 0
      <3>1. Result("DIV", b, a, ex) = 0 /\ Excess("DIV", b, a, ex) = 0
        BY <2>1 DEF Result, Excess
      <3>2. Double(0 % W, 0 % W) = 0
        BY <1>1 DEF Double
      <3> QED BY <2>1, <3>1, <3>2, Zenon
    <2>2. CASE a # 0
      <3>1. Result("DIV", b, a, ex) = b \div a /\ Excess("DIV", b, a, ex) = (b * W) \div a
        BY <2>2 DEF Result, Excess
      <3>2. /\ Double((b \div a) % W, ((b * W) \div a) % W) = ((b * W) \div a) % (W * W)
            /\ ((b * W) \div a) % (W * W) = (b * W) \div a
        BY <1>1, <2>2, QuotientDigits
      <3> QED BY <2>2, <3>1, <3>2, Zenon
    <2> QED BY <2>1, <2>2
  <1>3. a <= BITS => s \in Nat \ {0} /\ s * 2^(BITS - a) = W /\ 2^(BITS - a) \in Nat
    BY <1>1, BitsAssumption, PowerAssumption
  <1>4. a <= BITS => ShiftBy(a) = s
    <2>1. a <= BITS => a % (2 * BITS) = a
      BY <1>1, BitsAssumption
    <2> QED BY <2>1 DEF ShiftBy
  <1>5. a <= BITS => Double(Result("SHR", b, a, ex) % W, Excess("SHR", b, a, ex) % W)
                         = ((b * W) \div s) % (W * W)
    <2> HAVE a <= BITS
    <2>1. Result("SHR", b, a, ex) = b \div s /\ Excess("SHR", b, a, ex) = (sb * W) \div s
      <3>1. ShiftBy(a) = s
        BY <1>4
      <3>2. /\ Result("SHR", b, a, ex) = b \div ShiftBy(a)
            /\ Excess("SHR", b, a, ex) = (sb * W) \div ShiftBy(a)
        BY DEF Result, Excess, sb
      <3> QED BY <3>1, <3>2, Zenon
    <2>2. s \in Nat \ {0} /\ s * 2^(BITS - a) = W /\ 2^(BITS - a) \in Nat
      BY <1>3
    <2> HIDE DEF s
    <2>3. ((sb * W) \div s) % W = ((b * W) \div s) % W
      BY <2>2, SignedFraction DEF sb
    <2>4. Double((b \div s) % W, ((b * W) \div s) % W) = ((b * W) \div s) % (W * W)
      BY <1>1, <2>2, QuotientDigits
    <2> QED BY <2>1, <2>3, <2>4, Zenon
  <1>6. a <= BITS /\ 2 * a < W =>
           Double(Result("ASR", b, a, ex) % W, Excess("ASR", b, a, ex) % W)
               = ((sb * W) \div s) % (W * W)
    <2> HAVE a <= BITS /\ 2 * a < W
    <2>1. Signed(a) = a
      BY <1>1 DEF Signed
    <2>2. Result("ASR", b, a, ex) = sb \div s /\ Excess("ASR", b, a, ex) = (sb * W) \div s
      <3>1. ShiftBy(Signed(a)) = s
        BY <1>4, <2>1
      <3>2. /\ Result("ASR", b, a, ex) = sb \div ShiftBy(Signed(a))
            /\ Excess("ASR", b, a, ex) = (sb * W) \div ShiftBy(Signed(a))
        BY DEF Result, Excess, sb
      <3> QED BY <3>1, <3>2, Zenon
    <2>3. s \in Nat \ {0}
      BY <1>3
    <2> HIDE DEF s
    <2>4. Double((sb \div s) % W, ((sb * W) \div s) % W) = ((sb * W) \div s) % (W * W)
      BY <1>1, <2>3, QuotientDigits
    <2> QED BY <2>2, <2>4, Zenon
  <1> QED BY <1>2, <1>5, <1>6, Zenon DEF sb
=============================================================================
