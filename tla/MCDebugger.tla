----------------------------- MODULE MCDebugger -----------------------------
(***************************************************************************)
(* A debugging session with sixteen words of memory.  The program installs *)
(* a handler and calls a subroutine in a loop; the subroutine returns at   *)
(* once, and the handler is one RFI.                                       *)
(***************************************************************************)
EXTENDS MCDcpuVm, Debugger

Code == << NB("IAS", Lit(10)), NB("JSR", NXT_LIT), I("SET", PC, NXT_LIT),
           I("SET", A, Lit(1)), I("SET", PC, PUSH_POP), NB("RFI", Lit(0)) >>
DebugDecode == DecodeOf(Code)

\*          0  1  2  3  4  5  6  7  8  9 10
Calling == <<1, 2, 6, 3, 1, 0, 5, 0, 0, 0, 6>>
Ram(prog) == [x \in 0 .. 2^BITS - 1 |-> IF x < Len(prog) THEN prog[x + 1] ELSE 0]
DebugImages == {[ram |-> Ram(Calling), size |-> 12]}

Sym(type, name, line, addr) == [type |-> type, name |-> name, line |-> line, address |-> addr]
DebugSymbols == {<< Sym("label", "sub", 0, 6), Sym("line", "dir/a.c", 3, 6) >>}
MCContains(path, file) == path = file \/ (path = "dir/a.c" /\ file = "a.c")
MCLower(name) == IF name = "Go" THEN "go" ELSE IF name = "Debugger" THEN "debugger" ELSE name

Reg3(table, name, cs) == [table |-> table, name |-> name, calls |-> cs]
Do(c, arg) == [call |-> c, arg |-> arg]
File(lua, type, setup) ==
    [lua |-> lua, regular |-> TRUE, runs |-> TRUE, type |-> type, setup |-> setup]

\* A module that breaks on an event it raises itself, and one that does not
\* survive its setup.
Watch == << Reg3("commands", "Go", << Do("run", "none") >>),
            Reg3("hooks", "interrupt", << Do("raise", "alarm") >>),
            Reg3("hooks", "step", << Do("error", "none") >>),
            Reg3("error", "none", << >>) >>
Alarm == << Reg3("hooks", "alarm", << Do("_break", "1"), Do("error", "none") >>),
            Reg3("symbols", "symhook", << Do("_break", "none") >>) >>
DebugModules == { << File(TRUE, "Debugger", Watch), File(FALSE, "Debugger", Alarm),
                     File(TRUE, "Linker", Alarm), File(TRUE, "Debugger", Alarm) >> }
DebugPlaces == {<<"memory", 6>>, <<"a.c", 3>>, <<"sub", 0>>}
DebugRanges == {<<0, 0>>, <<6, 3>>}
DebugDevices == {"clock"}
OneMessage == {<< >>, <<5>>}
=============================================================================
