---------------------------- MODULE MCDcpuArith ----------------------------
(***************************************************************************)
(* Arithmetic of DcpuVm against what it means on numbers two words wide,   *)
(* on a machine of 16 cells whose memory images range over the operands.   *)
(***************************************************************************)
EXTENDS DcpuVm

BW == INSTANCE Bitwise
LOCAL INSTANCE SequencesExt
MCAnd(x, y) == BW!&(x, y)
MCOr(x, y) == BW!|(x, y)
MCXor(x, y) == BW!^^(x, y)

Ops == <<"ADD", "ADX", "SUB", "SBX", "MUL", "MLI", "DIV", "SHL", "SHR", "ASR",
         "MOD", "AND", "BOR", "XOR">>
Code(op) == CHOOSE w \in 1 .. Len(Ops) : Ops[w] = op

\* Each word up to 14 is an operation on two cells named by the next words.
ArithDecode == [w \in 0 .. 15 |->
    [op |-> IF w \in 1 .. Len(Ops) THEN Ops[w] ELSE "INVALID", b |-> NXT, a |-> NXT]]

\* "first [12], [13]" and, unless second is 0, "second [14], [15]".  Cells 8 and
\* 9 keep the values [12] and [14] start with.
Image(first, second, blo, alo, bhi, ahi) ==
    << 13, 12, second, 15, 14, 0, 0, blo, bhi, 0, 0, blo, alo, bhi, ahi >>
Program(first, second, blo, alo, bhi, ahi) ==
    [x \in 0 .. 15 |-> IF x = 0 THEN first
                       ELSE Image(first, second, blo, alo, bhi, ahi)[x]]

Edge == {0, 1, 2, 7, 8, 14, 15}
WideMemories ==
    {Program(p[1], p[2], blo, alo, bhi, ahi) :
        p \in {<<Code("ADD"), Code("ADX")>>, <<Code("SUB"), Code("SBX")>>},
        blo \in Edge, alo \in Edge, bhi \in Edge, ahi \in Edge}
SingleMemories ==
    {Program(Code(op), 0, b, a, 0, 0) :
        op \in ToSet(Ops) \ {"ADX", "SBX"}, b \in 0 .. 15, a \in 0 .. 15}
ArithMemories == WideMemories \cup SingleMemories
Silence == {<< >>}
NoDevices == << >>

\* Radiation and fire have a cell each that no program uses; the word behind
\* the program is no instruction and sets the machine on fire.
OneFlip == {<<11, 0>>}
Ended == vm.on_fire

Pair == vm.ram[3] # 0    \* the program is one of the two-step ones
Low == vm.ram[12]
Double(hi, lo) == hi * W + lo

\* The two programs together compute on double words: ADD leaves the carry of
\* the low words in EX and ADX adds it to the high words, SUB leaves the
\* borrow as an EX of -1 that SBX adds.
WideArithmetic ==
    LET b == Double(vm.ram[9], vm.ram[8])
        a == Double(vm.ram[15], vm.ram[13])
        sum == IF vm.ram[0] = Code("ADD") THEN b + a ELSE b - a
    IN  Ended /\ Pair => /\ Double(vm.ram[14], Low) = sum % (W * W)
                             /\ Signed(vm.ex) = sum \div (W * W)

\* EX and the result are the two halves of the exact answer: the high word of
\* a product or of a left shift, the fraction of a quotient or of a right
\* shift by at most a word.
ExIsOtherHalf ==
    LET b == vm.ram[8]
        a == vm.ram[13]
        op == Ops[vm.ram[0]]
        exact == CASE op = "MUL" -> b * a
                   [] op = "MLI" -> Signed(b) * Signed(a)
                   [] op = "SHL" -> b * 2^a
                   [] op = "DIV" -> IF a = 0 THEN 0 ELSE (b * W) \div a
                   [] op = "SHR" -> (b * W) \div 2^a
                   [] OTHER      -> (Signed(b) * W) \div 2^a
        halves == IF op \in {"MUL", "MLI", "SHL"} THEN Double(vm.ex, Low)
                  ELSE Double(Low, vm.ex)
    IN  /\ Ended /\ ~Pair /\ op \in {"MUL", "MLI", "DIV", "SHL", "SHR", "ASR"}
        /\ op \in {"SHL", "SHR", "ASR"} => a <= BITS
        => halves = exact % (W * W)

\* The constant expressions of the preprocessor and the assembler compute what
\* the machine computes with the same operands, except that they refuse to
\* divide by zero.
Expressions == INSTANCE PpExpr WITH EXPR_W <- W
Operator == [ADD |-> "+", SUB |-> "-", MUL |-> "*", DIV |-> "/", MOD |-> "%", AND |-> "&",
             BOR |-> "|", XOR |-> "^", SHL |-> "<<", SHR |-> ">>"]
ExprMatchesMachine ==
    LET b == vm.ram[8]
        a == vm.ram[13]
        op == Ops[vm.ram[0]]
        value == Expressions!expr_evaluate(
                     Expressions!expr_new(Expressions!expr_new_number(b), Operator[op],
                                          Expressions!expr_new_number(a)), << >>)
    IN  /\ Ended /\ ~Pair /\ op \in DOMAIN Operator
        /\ op \in {"SHL", "SHR"} => a < 2 * BITS
        => value = IF op \in {"DIV", "MOD"} /\ a = 0 THEN Expressions!NoValue ELSE Low
=============================================================================
