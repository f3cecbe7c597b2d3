------------------------------ MODULE MCDcpuVm ------------------------------
(***************************************************************************)
(* Small machines for DcpuVm: a few cells of memory, a table that says     *)
(* which words are which instructions, and programs written with it.       *)
(***************************************************************************)
EXTENDS DcpuVm

BW == INSTANCE Bitwise
MCAnd(x, y) == BW!&(x, y)
MCOr(x, y) == BW!|(x, y)
MCXor(x, y) == BW!^^(x, y)

Lit(n) == 33 + n                     \* operand code of the literal n
I(op, b, a) == [op |-> op, b |-> b, a |-> a]
NB(op, a) ==                         \* a non-basic instruction: b is its code
    I(op, CASE op = "JSR" -> 1 [] op = "INT" -> 8 [] op = "IAG" -> 9
            [] op = "IAS" -> 10 [] op = "RFI" -> 11 [] op = "IAQ" -> 12
            [] op = "HWN" -> 16 [] op = "HWQ" -> 17 [] op = "HWI" -> 18
            [] OTHER -> 0, a)

\* A program is a sequence of instructions: the one at address x is encoded
\* by the word x + 1, so word 0 (empty memory) is no instruction.
DecodeOf(prog) == [w \in 0 .. 2^BITS - 1 |->
                      IF w \in 1 .. Len(prog) THEN prog[w] ELSE NB("INVALID", 0)]
ImageOf(prog) == [x \in 0 .. 2^BITS - 1 |-> IF x < Len(prog) THEN x + 1 ELSE 0]

A == 0
B == 1
C == 2
X == 3
Y == 4
J == 7
Bad == NB("INVALID", 0)

\* A loop with a failed branch, a chain of two, a push and pop, and a software
\* interrupt; the handler at 11 uses A and returns.
Interrupts == <<
    NB("IAS", Lit(11)),
    I("IFE", B, Lit(1)), I("IFN", B, Lit(0)), I("SET", J, Lit(1)),
    I("XOR", C, Lit(1)),
    I("SET", PUSH_POP, C), I("SET", X, PUSH_POP),
    NB("INT", Lit(3)),
    I("SET", PC, Lit(1)),
    Bad, Bad,
    I("SET", Y, A), I("XOR", A, Lit(1)), NB("RFI", Lit(0)) >>
InterruptsDecode == DecodeOf(Interrupts)
InterruptsMemories == {ImageOf(Interrupts)}
OneOrTwo == {<< >>, <<5>>, <<6, 7>>}
NoDevices == << >>

-----------------------------------------------------------------------------
\* Every opcode, each under a branch that holds and under one that fails, with
\* operands of every addressing mode.  Cells 0 to 3 set up, cell 4 holds the
\* instruction under test, cells 5 and 6 its next words; cell 25 is the
\* handler, which returns when RFI is the instruction under test.
Stores == <<A, 9, 17, PUSH_POP, PEEK>>
Sources == <<B, NXT_LIT>>
Binary == <<"ADD", "SUB", "MUL", "MLI", "DIV", "DVI", "MOD", "MDI", "AND", "BOR",
            "XOR", "SHR", "ASR", "SHL", "ADX", "SBX",
            "IFB", "IFC", "IFE", "IFN", "IFG", "IFA", "IFL", "IFU">>
Tested ==
    [k \in 1 .. 10 |-> I("SET", Stores[(k + 1) \div 2], Sources[(k % 2) + 1])]
    \o [k \in 1 .. 10 |-> I("STI", Stores[(k + 1) \div 2], Sources[(k % 2) + 1])]
    \o [k \in 1 .. Len(Binary) |-> I(Binary[k], A, B)]
    \o << I("SET", PICK_, PUSH_POP), I("SET", SP, 8), I("SET", EX, 19),
          I("SET", NXT, PICK_), I("SET", PC, NXT), I("SET", Lit(1), PC),
          I("STD", 6, EX), I("STD", PUSH_POP, PEEK), I("ADD", Lit(1), SP) >>
    \o << NB("JSR", NXT_LIT), NB("JSR", PUSH_POP), NB("INT", B), NB("IAG", PUSH_POP),
          NB("IAS", NXT_LIT), NB("RFI", A), NB("IAQ", NXT), NB("IAQ", B), NB("HWN", PICK_),
          NB("HWQ", Lit(1)), NB("HWQ", B), NB("HWI", Lit(0)), NB("HWI", B) >>
Setup == << I("SET", A, Lit(20)), I("SET", B, Lit(7)), I("SET", SP, Lit(30)),
            I("IFE", B, Lit(7)), I("IFE", B, Lit(6)), NB("IAS", Lit(25)) >>
OpcodesDecode == DecodeOf(Setup \o Tested)

RfiWord == CHOOSE w \in 1 .. Len(Setup \o Tested) : (Setup \o Tested)[w].op = "RFI"

OpcodesMemories ==
    {[x \in 0 .. 127 |-> CASE x = 0 -> first [] x \in 1 .. 2 -> x + 1 [] x = 3 -> branch [] x = 4 -> w
                           [] x = 5 -> 2 [] x = 6 -> next [] x = 25 -> (IF w = RfiWord THEN w ELSE 0) [] x = 30 -> 40 [] OTHER -> 0] :
       first \in {1, 6}, branch \in {4, 5}, w \in 7 .. Len(Setup \o Tested), next \in {1, 3}}

TwoDevices == << [A |-> 1, B |-> 2, C |-> 3, X |-> 4, Y |-> 5],
                 [A |-> 6, B |-> 7, C |-> 8, X |-> 9, Y |-> 10] >>
AtMostOne == {<< >>, <<5>>}
OneReply == {[r \in {REG_B, REG_C} |-> 9]}
OneTransfer == {[x \in {100} |-> 3]}

=============================================================================
