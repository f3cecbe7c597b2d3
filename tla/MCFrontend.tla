----------------------------- MODULE MCFrontend -----------------------------
(***************************************************************************)
(* Small programs for the preprocessor, put together from blocks of lines, *)
(* and for the assembler, one instruction among data and labels.           *)
(***************************************************************************)
EXTENDS Assem, Integers, Sequences, FiniteSets, SequencesExt, FiniteSetsExt, TLC

W(t) == Token("word", t, 0, 0, "")
Num(v) == Token("num", ToString(v), v, 0, "")
Sym(t) == Token("sym", t, 0, 0, "")
Str(t) == Token("str", t, 0, 0, "")
Dir(t) == Token("dir", t, 0, 0, "")
CDir(t) == Token("dir", t, 1, 0, "")
Expr(name, v) == Token("expr", name, v, 0, "")

Instr(op, a, b) == <<W(op), a, Sym(","), b>>
Call(m, a, b) == <<W(m), Sym("("), a, Sym(","), b, Sym(")")>>
Call1(m, a) == <<W(m), Sym("("), a, Sym(")")>>

\* Every token gets the line and the file it is written in; .LINE moves both.
IsLine(line) == line # << >> /\ Is(line[1], "dir", "LINE")
Origin(lines, i, file) ==
    LET moved == {j \in 1 .. i - 1 : IsLine(lines[j])}
        j == Max(moved)
    IN  IF moved = {} THEN <<i, file>> ELSE <<lines[j][2].v + i - j - 1, lines[j][3].t>>
File(lines, file) ==
    FlattenSeq([i \in DOMAIN lines |->
        [j \in 1 .. Len(lines[i]) + 1 |->
            IF j > Len(lines[i]) THEN NL
            ELSE [lines[i][j] EXCEPT !.n = Origin(lines, i, file)[1],
                                     !.f = Origin(lines, i, file)[2]]]])

Plain == <<Instr("SET", W("A"), W("p"))>>
DefineP == <<<<Dir("DEFINE"), W("p"), Num(4)>>>>
DefineBlank == <<<<Dir("DEFINE"), W("p"), Token("blank", "", 0, 0, "")>>>>
EquQ == <<<<Dir("EQU"), W("q"), W("p")>>>>
MacroM == << <<Dir("MACRO")>> \o Call("M", W("p"), W("r")), Instr("SET", W("p"), W("r")),
             Instr("ADD", W("B"), W("p")), <<Dir("ENDMACRO")>> >>
MacroN == << <<Dir("MACRO")>> \o Call1("N", W("p")), <<Dir("DEFINE"), W("s"), W("p")>>,
             Call("M", W("p"), W("s")), <<Dir("ENDMACRO")>> >>
CallM == <<Call("M", W("A"), Num(7))>>
CallTwice == <<Call("M", W("A"), Num(7)) \o <<Sym(";")>> \o Call("M", W("p"), W("q"))>>
CallN == <<Call1("N", W("C")), Instr("SET", W("B"), W("s"))>>
Include == << <<Dir("INCLUDE"), Str("lib")>> >>
Conditional(v) == << <<Dir("IF"), Expr("", v)>>, Instr("SET", W("A"), W("p")),
                     <<Dir("IF"), Expr("", 1)>>, Instr("SET", W("A"), Num(1)), <<Dir("ENDIF")>>,
                     <<Dir("ELSE")>>, Instr("SET", W("B"), W("p")), <<Dir("ENDIF")>> >>
LineTo == << <<Dir("LINE"), Num(40), Str("other")>> >>
ULine == << <<Dir("ULINE"), Num(12), Str("c")>> >>
Lua == <<Instr("SET", W("J"), Num(1)), <<Dir("EMIT"), Num(5)>>, <<Dir("EMIT")>> >>
Silenced == <<Instr("SET", W("J"), Num(1)), <<Dir("OFF")>>, <<Dir("DEFINE"), W("p"), Num(6)>>,
              Instr("SET", W("I"), W("p")), <<Dir("ON")>> >>

Preludes == {<< >>, MacroM, DefineP \o MacroM, MacroM \o MacroN, DefineP \o MacroM \o MacroN}
Blocks == {Plain, DefineP, DefineBlank, EquQ, CallM, CallTwice, CallN, Include, Conditional(1),
           Conditional(0), LineTo, ULine, Lua, Silenced}

Backslash == Token("bs", "", 0, 0, "")
CDefineP == << <<CDir("DEFINE"), W("p"), Num(4)>> >>
CDefineOne == << <<CDir("DEFINE"), W("p")>> >>
CDefineNote == << <<CDir("DEFINE"), W("q"), W("p"), Sym("//"), W("r")>> >>
CMacroM == << <<CDir("DEFINE")>> \o Call("M", W("p"), W("r")) \o Instr("SET", W("p"), W("r")) \o
              <<Backslash>>, Instr("ADD", W("B"), W("p")) >>
CConditional(d, p) == << <<CDir(d), p>>, Instr("SET", W("A"), W("p")), <<CDir("ELSE")>>,
                         Instr("SET", W("B"), W("p")), <<CDir("ENDIF")>> >>
CInclude == << <<CDir("INCLUDE"), Str("lib")>> >>
CLineTo == << <<CDir("LINE"), Num(40), Str("other")>> >>
CBlocks == {Plain, CDefineP, CDefineOne, CDefineNote, CallM, CallTwice, CInclude, CLineTo,
            CConditional("IF", Expr("", 1)), CConditional("IF", Expr("p", 4)),
            CConditional("IFDEF", W("p")), CConditional("IFNDEF", W("p"))}

Modules == [EMIT |-> <<[call |-> "print_line", text |-> Instr("SET", W("I"), W("p"))]>>,
            OFF |-> <<[call |-> "scope_enter", output |-> FALSE]>>,
            ON |-> <<[call |-> "scope_exit"]>>,
            NOTE |-> <<[call |-> "add_symbol", symbol |-> Str("mark")]>>]
Lib == <<Instr("SET", W("A"), W("p")), <<Dir("DEFINE"), W("p"), Num(9)>>,
         Instr("SET", W("B"), W("p"))>>

AsmInput(lines) == [lang |-> "asm", main |-> "main", paths |-> <<"", "inc/">>,
                    files |-> ("main" :> File(lines, "main") @@ "inc/lib" :> File(Lib, "inc/lib")),
                    modules |-> Modules, items |-> << >>]
CLib == <<Instr("SET", W("A"), W("p")), <<CDir("DEFINE"), W("p"), Num(9)>>,
          Instr("SET", W("B"), W("p"))>>
CInput(lines) == [AsmInput(lines) EXCEPT !.lang = "c", !.modules = << >>,
                    !.files["inc/lib"] = File(CLib, "inc/lib")]
\* Directives that are refused: no parameters, a missing file, no .IF before.
Refused == {<< <<Dir("DEFINE")>> >>, << <<Dir("INCLUDE"), Str("none")>> >>, << <<Dir("ENDIF")>> >>,
            << <<Dir("IF"), Expr("u", 1)>> >>, << <<Dir("LINE"), Str("other")>> >>, << Call1("M", Num(1)) >>}

-----------------------------------------------------------------------------
(* Programs for the assembler: lines with the words they should take, the  *)
(* label they define and the operands that their instruction should have.  *)
(* An operand is the sum of a register, a label, less another, and a       *)
(* number, or the memory there.                                            *)

Operand(ts, mem, reg, label, less, num) ==
    [ts |-> ts, mem |-> mem, reg |-> reg, label |-> label, less |-> less, num |-> num]
Paired(ts) == <<Sym("[")>> \o ts \o <<Sym("]")>>
Sum(a, op, b) == <<a, Sym(op), b>>
Places == {
    Operand(<<W("A")>>, FALSE, "A", "", "", 0),
    Operand(<<W("EX")>>, FALSE, "EX", "", "", 0),
    Operand(<<W("PC")>>, FALSE, "PC", "", "", 0),
    Operand(Paired(<<W("J")>>), TRUE, "J", "", "", 0),
    Operand(Paired(<<W("SP")>>), TRUE, "SP", "", "", 0),
    Operand(<<W("PEEK")>>, TRUE, "SP", "", "", 0),
    Operand(<<W("PICK"), Num(2)>>, TRUE, "SP", "", "", 2),
    Operand(Paired(<<W("finish")>>), TRUE, "", "finish", "", 0),
    Operand(Paired(Sum(W("start"), "+", Num(3))), TRUE, "", "start", "", 3),
    Operand(Paired(Sum(W("B"), "+", W("finish"))), TRUE, "B", "finish", "", 0),
    Operand(Paired(Sum(Num(4), "+", W("SP"))), TRUE, "SP", "", "", 4),
    Operand(Paired(Sum(W("I"), "-", Num(1))), TRUE, "I", "", "", -1)}
Literals == {
    Operand(<<Num(7)>>, FALSE, "", "", "", 7),
    Operand(<<Sym("-"), Num(1)>>, FALSE, "", "", "", -1),
    Operand(<<Token("local", "loop", 0, 0, "")>>, FALSE, "", "start_loop", "", 0),
    Operand(Sum(W("finish"), "-", W("start")), FALSE, "", "finish", "start", 0)}
Pop == Operand(<<W("POP")>>, TRUE, "SP", "", "", 0)
Push == Operand(<<W("PUSH")>>, TRUE, "SP", "", "", -1)

Item(ts, label, ops, size) == [ts |-> ts, label |-> label, ops |-> ops, size |-> size]
Extra(o) == IF o.reg = "" \/ o.label # "" \/ o.num > 0 \/ o.reg = "I" THEN 1 ELSE 0
Op2(op, b, a) == Item(<<W(op)>> \o b.ts \o <<Sym(",")>> \o a.ts, "", <<b, a>>, 1 + Extra(b) + Extra(a))
Op1(op, a) == Item(<<W(op)>> \o a.ts, "", <<a>>, 1 + Extra(a))
Labels(name, item) == [item EXCEPT !.ts = <<W(name), Sym(":")>> \o @, !.label = name]
Other(ts, size) == Item(ts, "", << >>, size)
A == Operand(<<W("A")>>, FALSE, "A", "", "", 0)
Finish == Operand(<<W("finish")>>, FALSE, "", "finish", "", 0)

Between == {<< >>,
            <<Other(<<W("DAT"), Str("ab"), Sym(","), W("finish"), Sym(","), Num(3)>>, 4)>>,
            <<Other(<<Dir("FILL"), Num(3), Num(1)>>, 3), Other(<< >>, 0)>>,
            <<Other(<<Dir("BOUNDARY")>>, 16), Other(<<Dir("JUMP")>>, 0)>>,
            <<Other(<<Dir("SECTION"), W("o")>>, 0), Other(<<Dir("OUTPUT"), W("o")>>, 0),
              Other(<<Dir("CALL"), Str("d/start")>>, 0), Other(<<W("DAT"), Num(2)>>, 1)>>,
            <<Other(<<Dir("IMPORT"), W("outer")>>, 0), Other(<<Dir("EXPORT"), W("start")>>, 0),
              Other(<<W("DAT"), W("outer")>>, 1)>>,
            <<Other(<<Sym(";"), W("note")>>, 0), Other(<<Dir("NOTE")>>, 0)>>,
            <<Other(<<Dir("ULINE"), Num(12), Str("c")>>, 0), Op2("ADD", A, Finish)>>}
Framed(between, op) ==
    <<Labels("start", Op2("SET", A, Finish))>> \o between \o
    <<[Other(<<Token("local", "loop", 0, 0, ""), Sym(":")>>, 0) EXCEPT !.label = "start_loop"], op,
      Labels("finish", Other(<< >>, 0)), Op1("JSR", Finish)>>
Instructions ==
    {Op2("SET", b, a) : b \in Places \cup {Push}, a \in Places \cup Literals \cup {Pop}}
      \cup {Op2("IFE", b, a) : b \in Literals, a \in Places \cup Literals}
      \cup {Op1("INT", a) : a \in Places \cup Literals}
Moving == {<<Op1("IAS", Finish), Other(<<Dir(d), Num(64)>>, 0), Labels("finish", Op1("IAS", Finish))>> :
              d \in {"ORIGIN", "SEEK"}}
Few == {Op2("STI", b, a) : b \in {A}, a \in Literals}

\* Programs that the assembler refuses.
Faults == {<<Other(<<W("SET"), W("A")>> \o Paired(<<W("PC")>>), 0)>>,
           <<Other(<<W("DAT"), W("A")>>, 0)>>, <<Other(<<Dir("IMPORT")>>, 0)>>,
           <<Other(<<W("BAD"), W("A")>>, 0)>>, <<Other(<<W("SET"), Sym("+")>>, 0)>>,
           <<Other(<<Dir("FILL"), W("A"), Num(1)>>, 0)>>, <<Other(<<Dir("ORIGIN"), W("start")>>, 0)>>,
           <<Other(<<Dir("OUTPUT"), W("o")>>, 0), Other(<<Dir("SECTION"), W("o")>>, 0)>>}

ItemInput(items) == [AsmInput([i \in DOMAIN items |-> items[i].ts]) EXCEPT !.items = items]
Programs == {Framed(CHOOSE b \in Between : Len(b) = 3, i) : i \in Instructions}
              \cup {Framed(b, i) : b \in Between, i \in Few} \cup Faults \cup Moving

MCInputs == {AsmInput(p \o b \o c) : p \in Preludes, b \in Blocks, c \in Blocks}
              \cup {AsmInput(MacroM \o b) : b \in Refused}
              \cup {CInput(p \o b \o c) : p \in {<< >>, CMacroM}, b \in CBlocks, c \in CBlocks}
              \cup {ItemInput(p) : p \in Programs}

-----------------------------------------------------------------------------
(* What the output means *)

\* What a program means, as a reader takes its directives: a name stands for
\* its text wherever it is used, a parameter for what the argument means
\* where the macro is called, the first of several definitions of a name
\* counts except inside a macro, which forgets its own at its end.
Bind(env, top, name, def) ==
    IF top /\ name \in DOMAIN env THEN env ELSE (name :> def) @@ env
DirectiveAt(ts, from, name) == Min({i \in from .. Len(ts) : Is(ts[i], "dir", name)})
Rest(ts, i) == SubSeq(ts, i + 1, Len(ts))
\* The lines of the branch that an .IF takes, and what follows its .ENDIF.
Taking(ts) ==
    LET body == Rest(ts, LineEnd(ts))
        at(name) == {i \in Directives(body, {name}) : Depth(body, i) = 1}
        end == Min(at("ENDIF"))
        else == {i \in at("ELSE") : i < end}
        first == SubSeq(body, 1, IF else = {} THEN end - 1 ELSE Min(else) - 1)
        second == IF else = {} THEN << >> ELSE SubSeq(body, Min(else) + 1, end - 1)
    IN  (IF ts[2].v # 0 THEN first ELSE second) \o Rest(body, end)
\* What a .DEFINE or a #define says: C has macros, joins lines and has comments.
Defines(ts) ==
    LET end == DefinitionEnd(ts, 2)
        macro == Is(ts[3], "sym", "(")
        close == 2 + Closing(Rest(ts, 2))
        note == {i \in 1 .. end : Is(ts[i], "sym", "//")}
        stop == IF note = {} THEN end ELSE Min(note)
        text == SelectSeq(SubSeq(ts, IF macro THEN close + 1 ELSE 3, stop - 1),
                          LAMBDA t : t.k \notin {"bs", "blank"})
        blank == IF input.lang = "c" THEN ~macro /\ stop = 3 ELSE ts[3].k = "blank"
    IN  [kind |-> IF macro THEN "macro" ELSE "text",
         params |-> IF macro THEN ParamNames(Tail(ts), close - 1) ELSE << >>,
         body |-> IF blank THEN One ELSE Body(text),
         rest |-> Rest(ts, stop - 1)]
RECURSIVE Meaning(_, _, _)
Meaning(ts, env, top) ==
    IF ts = << >> THEN << >>
    ELSE
    LET t == ts[1]
        line == LineEnd(ts)
        here == IF IsWord(t) /\ t.t \in DOMAIN env THEN env[t.t].kind ELSE "none"
        close == Closing(Tail(ts)) + 1
        args == Pieces(SubSeq(ts, 3, close - 1))
        names == env[t.t].params
        arg(i) == [kind |-> "value", params |-> << >>, body |-> Meaning(args[i], env, top)]
        bound == [n \in ToSet(names) |-> arg(CHOOSE i \in DOMAIN names : names[i] = n)]
        macroend == DirectiveAt(ts, 2, "ENDMACRO")
        bracket == Closing(SubSeq(ts, 3, Len(ts))) + 2
    IN  CASE here = "value" -> env[t.t].body \o Meaning(Tail(ts), env, top)
          [] here = "text" -> Meaning(env[t.t].body \o Tail(ts), env, top)
          [] here = "macro" -> Meaning(env[t.t].body, bound @@ env, FALSE)
                                 \o Meaning(Rest(ts, close), env, top)
          [] t.k = "nl" -> Meaning(Tail(ts), env, top)
          [] t.k = "dir" /\ t.t \in {"DEFINE", "EQU"} ->
                LET def == Defines(ts)
                IN  Meaning(def.rest, Bind(env, top, ts[2].t, def), top)
          [] t.k = "dir" /\ t.t = "MACRO" ->
                Meaning(Rest(ts, macroend),
                        Bind(env, top, ts[2].t,
                             [kind |-> "macro", params |-> ParamNames(Tail(ts), bracket - 1),
                              body |-> Body(SubSeq(ts, bracket + 1, macroend - 1))]), top)
          [] t.k = "dir" /\ t.t = "IF" -> Meaning(Taking(ts), env, top)
          [] t.k = "dir" /\ t.t = "INCLUDE" ->
                Meaning(input.files["inc/lib"] \o Rest(ts, line), env, top)
          [] t.k = "dir" /\ t.t = "LINE" -> Meaning(Rest(ts, line), env, top)
          [] t.k = "dir" /\ t.t = "ULINE" ->
                <<Token("umark", "", ts[2].v, 0, ts[3].t)>> \o Meaning(Rest(ts, line), env, top)
          [] t.k = "dir" /\ t.t \in {"EMIT", "NOTE"} ->
                Meaning(LuaText(Modules[t.t][1]) \o Rest(ts, line), env, top)
          [] t.k = "dir" /\ t.t = "OFF" ->
                Meaning(Rest(ts, DirectiveAt(ts, 2, "ON")), env, top)
          [] OTHER -> <<t>> \o Meaning(Tail(ts), env, top)

Written(ts) == Body(SelectSeq(ts, LAMBDA t : t.k \notin {"nl", "mark"}))

\* Behind an .INCLUDE a Lua directive works on a state that was freed; no name
\* is ever defined for #ifdef, and .IF does not find the text of one.
Undecided(ts) ==
    \E i \in DOMAIN ts : \/ ts[i].k = "dir" /\ ts[i].t \in {"IFDEF", "IFNDEF"}
                         \/ ts[i].k = "expr" /\ ts[i].t # ""
Stale(ts) ==
    \/ Undecided(ts)
    \/ \E i, j \in DOMAIN ts : /\ i < j /\ Is(ts[i], "dir", "INCLUDE")
                               /\ ts[j].k = "dir" /\ ts[j].t \in DOMAIN Modules

\* The preprocessor's output is the program that its directives mean: names
\* and macro calls (ppimpl_register, macro_handle) are replaced by what they
\* stand for where they are used, at every nesting of macros, includes,
\* conditionals and Lua directives.
ExpansionIsMeant ==
    pp.stage = "done" /\ ~Stale(input.files[input.main]) =>
        Written(Top(pp).out) = Body(Meaning(input.files[input.main], << >>, TRUE))

\* Where a reader of the output takes its i-th token to come from: a marker
\* and the newline behind it set the line, any other newline counts.
ReadAt(out, i) ==
    LET m == Max({j \in 1 .. i : out[j].k = "mark"})
    IN  <<out[m].v + Newlines(SubSeq(out, m + 2, i)), out[m].f>>

\* The lines of a conditional, and the one behind a Lua directive that prints
\* none, are not counted.
Uncounted(ts) == \E i \in DOMAIN ts : ts[i].k = "dir" /\ ts[i].t \in {"IF", "OFF", "ON"}

\* Every token of the output is read at the line and in the file it was written
\* in: the markers of ppimpl_process, .LINE and .INCLUDE make up for the lines
\* that directives took or macros added.
LinesAreTracked ==
    pp.stage = "done" /\ ~Stale(input.files[input.main]) /\ ~Uncounted(input.files[input.main]) =>
        LET out == Top(pp).out
        IN  \A i \in DOMAIN out : out[i].n # 0 => ReadAt(out, i) = <<out[i].n, out[i].f>>

-----------------------------------------------------------------------------
(* What the image means: the machine runs it *)

BW == INSTANCE Bitwise
LOCAL And(x, y) == BW!&(x, y)
Cpu == INSTANCE DcpuCpu WITH BITS <- 16, Decode <- << >>, BitAnd <- And, BitOr <- And, BitXor <- And,
                             INTERRUPT_MAX <- 1, HwTable <- << >>

AddressOf(items, i) == FoldLeft(LAMBDA n, j : n + items[j].size, 0, [j \in 1 .. i - 1 |-> j])
LabelAddress(items, name) ==
    IF name = "" THEN 0 ELSE AddressOf(items, SelectInSeq(items, LAMBDA d : d.label = name))

\* A machine with the image in memory, at the word behind pc.
ImageWords == Out!aout_write(asm.out).words
MachineAt(pc) ==
    [Cpu!vm_reset([x \in 0 .. 300 |-> IF x < Len(ImageWords) THEN ImageWords[x + 1] ELSE 1000 + x])
        EXCEPT !.registers = [r \in Cpu!Reg |-> 100 + r], !.sp = 200, !.ex = 300, !.pc = pc + 1]

RegValue(vm, name) ==
    CASE name = "" -> 0
      [] name = "SP" -> vm.sp
      [] name = "EX" -> vm.ex
      [] name = "PC" -> vm.pc
      [] OTHER -> vm.registers[Index(name) - 1]
Amount(items, vm, o) ==
    (RegValue(vm, o.reg) + LabelAddress(items, o.label) - LabelAddress(items, o.less) + o.num) % Cpu!W
OperandValue(items, vm, o) ==
    IF o.mem THEN vm.ram[Amount(items, vm, o)] ELSE Amount(items, vm, o)
OperandPlace(items, vm, o) ==
    CASE o.mem -> Cpu!Loc("ram", Amount(items, vm, o))
      [] o.reg \in {"SP", "EX", "PC"} -> Cpu!Loc([SP |-> "sp", EX |-> "ex", PC |-> "pc"][o.reg], 0)
      [] OTHER -> Cpu!Loc("reg", Index(o.reg) - 1)

\* The operands that the machine finds behind the word at pc are those that
\* the item was written with, and it goes on where the next item is.
RunsAsWritten(items, i) ==
    LET pc == AddressOf(items, i)
        vm == MachineAt(pc)
        word == ImageWords[pc + 1]
        ops == items[i].ops
        a == word \div 1024
        b == (word \div 32) % 32
        behind == Cpu!ResolveStep(vm, a, "A")
        place == Cpu!vm_internal_get_store(behind, b, "B")
        literal == ops[1].reg = "" /\ ~ops[1].mem
    IN  /\ Cpu!vm_resolve_value(vm, a, "A") = OperandValue(items, vm, Last(ops))
        /\ Len(ops) = 1 => behind.pc = AddressOf(items, i + 1)
        /\ Len(ops) = 2 /\ ~literal =>
              /\ place = OperandPlace(items, behind, ops[1])
              /\ Cpu!GetStoreStep(behind, b, "B").pc = AddressOf(items, i + 1)
        /\ Len(ops) = 2 /\ literal =>
              /\ Cpu!vm_resolve_value(behind, b, "B") = OperandValue(items, behind, ops[1])
              /\ Cpu!ResolveStep(behind, b, "B").pc = AddressOf(items, i + 1)

Moved == Out!Of(asm.out, {"ORIGIN", "SEEK"}) # {}

\* Every instruction of an assembled program (process_line, aout_write) runs on
\* the virtual machine with the operands that the source gives it, and ends
\* where the next line of the source begins, whatever data, labels and
\* directives stand before and behind it.
InstructionsRunAsWritten ==
    asm.stage = "done" /\ ~Moved =>
        LET items == input.items
        IN  \A i \in DOMAIN items : items[i].ops # << >> => RunsAsWritten(items, i)

\* The word a symbol points to.
SymbolAddress(s) ==
    IF s.at = 0 THEN Len(ImageWords) ELSE Out!FilePosition(asm.out, s.at)

\* The debugging symbols that process_line leaves point to the instructions: a
\* line's (one more than its number: the newline is counted first) to the
\* first word of its instruction, and a label's in front of an instruction to
\* the address that the label stands for.
SymbolsFindInstructions ==
    asm.stage = "done" /\ ~Moved =>
        LET items == input.items
            is(i) == items[i].ops # << >>
            symbols == ToSet(asm.symbols)
        IN  \A i \in DOMAIN items :
              /\ is(i) => \E s \in symbols : /\ s.kind = "line" /\ s.name = "main" /\ s.n = i + 1
                                            /\ SymbolAddress(s) = AddressOf(items, i)
              /\ items[i].label # "" /\ (is(i) \/ (i < Len(items) /\ is(i + 1))) =>
                    \E s \in symbols : /\ s.kind = "label" /\ s.name = items[i].label
                                       /\ SymbolAddress(s) = AddressOf(items, i)
=============================================================================
