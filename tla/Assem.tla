------------------------------- MODULE Assem -------------------------------
(***************************************************************************)
(* The assembler's front end (libdcpu-ci-asm: lexer, parser and assem.c)   *)
(* as dtasm runs it on the output of the preprocessor: yyparse makes a     *)
(* list of nodes, process_root turns them into the lines that aout.c       *)
(* writes, with the debugging symbols.                                     *)
(*                                                                         *)
(* An expression has at most one operator; the characters of a string are  *)
(* words of no interest.                                                   *)
(***************************************************************************)
EXTENDS Preprocessor
LOCAL INSTANCE Integers
LOCAL INSTANCE Sequences
LOCAL INSTANCE SequencesExt

Exprs == INSTANCE PpExpr WITH EXPR_W <- 65536
Out == INSTANCE Aout

VARIABLE asm

-----------------------------------------------------------------------------
(* imap.c *)

General == <<"A", "B", "C", "X", "Y", "Z", "I", "J">>
Stack == [POP |-> 24, PUSH |-> 24, PEEK |-> 25, SP |-> 27, PC |-> 28, EX |-> 29]
NXT == 30
NXT_LIT == 31
UNSUPPORTED == -1

\* What the lexer takes for a register; the last two are in no table.
Registers == ToSet(General) \cup DOMAIN Stack \cup {"IA", "NXT"}
Known(name) == name \in Registers \ {"IA", "NXT"}
Index(name) == SelectInSeq(General, LAMBDA r : r = name)

get_register_by_name(name, bracketed) ==
    IF Index(name) # 0 THEN Index(name) - 1 + (IF bracketed THEN 8 ELSE 0)
    ELSE IF ~bracketed THEN Stack[name]
    ELSE IF name = "SP" THEN 25 ELSE UNSUPPORTED
get_register_by_name_next(name) ==
    IF Index(name) # 0 THEN Index(name) + 15 ELSE IF name = "SP" THEN 26 ELSE UNSUPPORTED

Basic == <<"SET", "ADD", "SUB", "MUL", "MLI", "DIV", "DVI", "MOD", "MDI", "AND", "BOR", "XOR",
           "SHR", "ASR", "SHL", "IFB", "IFC", "IFE", "IFN", "IFG", "IFA", "IFL", "IFU", "", "",
           "ADX", "SBX", "", "", "STI", "STD">>
NonBasic == [JSR |-> 1, INT |-> 8, IAG |-> 9, IAS |-> 10, RFI |-> 11, IAQ |-> 12, HWN |-> 16,
             HWQ |-> 17, HWI |-> 18]
IsOpcode(name) == name \in ToSet(Basic) \cup DOMAIN NonBasic
INSTRUCTION_CREATE(op, b, a) == (a % 64) * 1024 + (b % 32) * 32 + (op % 32)

-----------------------------------------------------------------------------
(* The parser *)

Invalid == Exprs!expr_new_label("")
LocalName(label, name) == label \o "_" \o name
Primary(tok, label) ==
    CASE tok.k = "num" -> Exprs!expr_new_number(tok.v)
      [] tok.k = "word" /\ tok.t \notin Registers -> Exprs!expr_new_label(tok.t)
      [] tok.k = "local" -> Exprs!expr_new_label(LocalName(label, tok.t))
      [] OTHER -> Invalid
Zero == Exprs!expr_new_number(0)
Negated(e) == Exprs!expr_new(Zero, "-", e)
IsReg(tok) == tok.k = "word" /\ tok.t \in Registers

Expression(ts, label) ==
    LET p(i) == Primary(ts[i], label)
    IN  CASE Len(ts) = 1 -> p(1)
          [] Len(ts) = 2 /\ Is(ts[1], "sym", "-") -> Negated(p(2))
          [] Len(ts) = 2 /\ Is(ts[1], "sym", "~") ->
                Exprs!expr_new(Exprs!expr_new_number(65535), "^", p(2))
          [] Len(ts) = 3 /\ Is(ts[1], "sym", "(") -> p(2)
          [] Len(ts) = 3 /\ ts[2].k = "sym" -> Exprs!expr_new(p(1), ts[2].t, p(3))
          [] OTHER -> Invalid

Malformed(e) == e = Invalid \/ (e.op \notin {"number", "label"} /\ (e.a = Invalid \/ e.b = Invalid))

Parameter(kind, name, e) == [kind |-> kind, name |-> name, e |-> e]
Bracketed(ts) == Len(ts) > 2 /\ Is(ts[1], "sym", "[") /\ Is(Last(ts), "sym", "]")

\* The rules of parameter.  [e - R] becomes R plus -e, like [R - e].
parameter(ts, label) ==
    LET in == SubSeq(ts, 2, Len(ts) - 1)
        n == Len(in)
        sign == IF IsReg(in[1]) THEN in[2] ELSE in[n - 1]
        reg == IF IsReg(in[1]) THEN in[1] ELSE in[n]
        e == Expression(IF IsReg(in[1]) THEN SubSeq(in, 3, n) ELSE SubSeq(in, 1, n - 2), label)
    IN  IF Len(ts) = 1 /\ IsReg(ts[1]) THEN Parameter("register", ts[1].t, Zero)
        ELSE IF Len(ts) = 1 /\ ts[1].k = "str" THEN Parameter("raw", ts[1].t, Zero)
        ELSE IF Len(ts) > 1 /\ Is(ts[1], "word", "PICK")
             THEN Parameter("added", "SP", Expression(Tail(ts), label))
        ELSE IF ~Bracketed(ts) THEN Parameter("address", "", Expression(ts, label))
        ELSE IF n = 1 /\ IsReg(in[1]) THEN Parameter("bracketed", in[1].t, Zero)
        ELSE IF ~IsReg(in[1]) /\ ~IsReg(in[n])
             THEN Parameter("indirect", "", Expression(in, label))
        ELSE IF Is(sign, "sym", "+") THEN Parameter("added", reg.t, e)
        ELSE Parameter("added", reg.t, Negated(e))

Keywords == {"BOUNDARY", "EXTENSION", "SEEK", "ORIGIN", "INCBIN", "EXPORT", "IMPORT", "SECTION",
             "OUTPUT", "JUMP", "CALL", "SYMBOL"}

\* A node without its line: what it is, its name (label, opcode or keyword), the
\* word or string behind a keyword and its expressions or parameters.
Node(type, name, word, params) ==
    [type |-> type, name |-> name, word |-> word, params |-> params]
NoNode == Node("syntax", "", "", << >>)

keyword(ts, label) ==
    LET key == ts[1].t
        word(i) == ts[i].k \in {"word", "str"}
        n == Len(ts)
        exprs == Parameter("address", "", Expression(Tail(ts), label))
    IN  IF key = "FILL" /\ n = 3
        THEN Node("keyword", key, "", <<parameter(<<ts[2]>>, label), parameter(<<ts[3]>>, label)>>)
        ELSE IF key \notin Keywords THEN NoNode
        ELSE IF n = 1 THEN Node("keyword", key, "", << >>)
        ELSE IF n = 2 /\ word(2) THEN Node("keyword", key, ts[2].t, << >>)
        ELSE IF n = 3 /\ Is(ts[2], "word", "OPTIONAL") THEN Node("keyword", "OPTIONAL", ts[3].t, << >>)
        ELSE IF Malformed(exprs.e) THEN NoNode ELSE Node("keyword", key, "", <<exprs>>)

Statement(ts, label) ==
    LET args == Pieces(Tail(ts))
        params == IF Len(ts) = 1 THEN << >> ELSE [i \in DOMAIN args |-> parameter(args[i], label)]
        bad == \E i \in DOMAIN params : Malformed(params[i].e)
    IN  IF ts[1].k = "dir" /\ ts[1].v = 0 THEN keyword(ts, label)
        ELSE IF ts[1].k # "word" \/ IsReg(ts[1]) \/ bad THEN NoNode
        ELSE Node("instruction", ts[1].t, "", params)

\* The nodes of a line: a label, local to the last one or not, a statement, or a
\* label and a statement.
Labelled(ts) == Len(ts) > 1 /\ Is(ts[2], "sym", ":") /\ ts[1].k \in {"word", "local"}
line_nodes(ts, label) ==
    LET name == IF ts[1].k = "local" THEN LocalName(label, ts[1].t) ELSE ts[1].t
        curr == IF ts[1].k = "local" THEN label ELSE name
        rest == SubSeq(ts, 3, Len(ts))
        node == Node("label", name, "", << >>)
    IN  IF ts = << >> THEN << >>
        ELSE IF ~Labelled(ts) THEN <<Statement(ts, label)>>
        ELSE IF rest = << >> THEN <<node>>
        ELSE IF ts[1].k = "local" \/ Is(rest[1], "dir", "FILL") THEN <<NoNode>>
        ELSE <<node, Statement(rest, curr)>>

\* NODE_SET_GLOBALS: the first node of a line takes the line of the high level
\* language away.
Placed(nodes, n) ==
    [i \in DOMAIN nodes |-> [node |-> nodes[i], line |-> n, file |-> asm.file, uline |-> asm.uline,
                             ufile |-> IF i = 1 THEN asm.ufile ELSE ""]]

Commented(ts) == LET c == FirstIndex({i \in DOMAIN ts : Is(ts[i], "sym", ";")})
                 IN  IF c = 0 THEN ts ELSE SubSeq(ts, 1, c - 1)

-----------------------------------------------------------------------------
(* assem.c *)

Emitted(type, label, v, e) == [type |-> type, label |-> label, v |-> v, e |-> e]
aout_create_raw(v) == Emitted("WORD", "", v, Zero)
aout_create_expr(e) == IF e.op = "label" THEN Emitted("REF", e.name, 0, Zero)
                       ELSE Emitted("EXPR", "", 0, e)

\* The operand's code, and the extra word it needs.  A register that is in no
\* table is a label.
process_parameter(p) ==
    LET result(v, extra) == [v |-> v, extra |-> extra]
        value == <<aout_create_expr(p.e)>>
        ref == <<aout_create_expr(Exprs!expr_new_label(p.name))>>
    IN  CASE p.kind = "register" -> IF Known(p.name) THEN result(get_register_by_name(p.name, FALSE), << >>)
                                    ELSE result(NXT_LIT, ref)
          [] p.kind = "bracketed" -> IF Known(p.name) THEN result(get_register_by_name(p.name, TRUE), << >>)
                                     ELSE result(NXT, ref)
          [] p.kind = "address" -> result(NXT_LIT, value)
          [] p.kind = "indirect" -> result(NXT, value)
          [] p.kind = "added" -> IF Known(p.name) THEN result(get_register_by_name_next(p.name), value)
                                 ELSE result(NXT_LIT, <<aout_create_expr(Exprs!expr_new(
                                          Exprs!expr_new_label(p.name), "+", p.e))>>)
          [] OTHER -> result(UNSUPPORTED, << >>)

\* Mutant: the extra word of the first operand comes first.
Extras_InOrder(first, second) == first.extra \o second.extra

\* The machine takes the word of its second operand first.
Extras(first, second) == second.extra \o first.extra

\* An operand that is not there counts as register A.
Operands(node) ==
    LET none == [v |-> 0, extra |-> << >>]
        given(i) == IF i \in DOMAIN node.params THEN process_parameter(node.params[i]) ELSE none
    IN  <<given(1), given(2)>>

Coded(node) ==
    LET first == Operands(node)[1]
        second == Operands(node)[2]
        basic == SelectInSeq(Basic, LAMBDA o : o = node.name)
        word == IF basic # 0 THEN INSTRUCTION_CREATE(basic, first.v, second.v)
                ELSE INSTRUCTION_CREATE(0, NonBasic[node.name], first.v)
    IN  <<aout_create_raw(word)>> \o Extras(first, second)

Data(p) == IF p.kind = "raw" THEN [i \in 1 .. Len(p.name) |-> aout_create_raw(0)]
           ELSE process_parameter(p).extra

\* The value of a keyword's i-th expression; no label may be in it.
Constant(node, i) == IF i \in DOMAIN node.params THEN Exprs!expr_evaluate(node.params[i].e, << >>)
                     ELSE Exprs!NoValue

\* dhalt
Stops(node) ==
    IF node.type = "keyword"
    THEN \/ node.name \in {"FILL", "ORIGIN", "SEEK"} /\ Constant(node, 1) = Exprs!NoValue
         \/ node.name = "FILL" /\ Constant(node, 2) = Exprs!NoValue
         \/ node.name \notin {"FILL", "ORIGIN", "SEEK", "BOUNDARY", "JUMP"} /\ node.word = ""
    ELSE IF node.name = "DAT"
    THEN \E i \in DOMAIN node.params : /\ node.params[i].kind \in {"register", "bracketed"}
                                       /\ process_parameter(node.params[i]).extra = << >>
    ELSE /\ node.type = "instruction"
         /\ \/ ~IsOpcode(node.name)
            \/ \E i \in DOMAIN node.params : i <= 2 /\ process_parameter(node.params[i]).v = UNSUPPORTED

Symbol(kind, name, n, at) == [kind |-> kind, name |-> name, n |-> n, at |-> at]

\* What a node emits.
Lines(node) ==
    CASE node.type = "label" -> <<Emitted("LABEL", node.name, 0, Zero)>>
      [] node.type = "instruction" /\ node.name = "DAT" ->
            FlattenSeq([i \in DOMAIN node.params |-> Data(node.params[i])])
      [] node.type = "instruction" -> Coded(node)
      [] node.name = "BOUNDARY" -> [i \in 1 .. 16 |-> aout_create_raw(0)]
      [] node.name = "FILL" -> [i \in 1 .. Constant(node, 1) |-> aout_create_raw(Constant(node, 2))]
      [] node.name \in {"ORIGIN", "SEEK"} -> <<Emitted(node.name, "", Constant(node, 1), Zero)>>
      [] node.name = "SYMBOL" -> << >>
      [] OTHER -> <<Emitted(node.name, node.word, 0, Zero)>>

\* Mutant: the new symbols go to the word behind the instruction's first.
Associated_Late(at) == at + 1

\* The line that the symbols belong to.
Associated(at) == at

\* process_line: labels and .SYMBOLs wait for the next instruction, which takes
\* them and a symbol for its line, and one for its line in the high level
\* language.
process_line(a, placed) ==
    LET node == placed.node
        at == Associated(Len(a.out) + 1)
        new == CASE node.type = "label" -> <<Symbol("label", node.name, 0, 0)>>
                 [] node.name = "SYMBOL" -> <<Symbol("string", node.word, 0, 0)>>
                 [] OTHER -> << >>
        waiting == [i \in DOMAIN a.newsyms |-> [a.newsyms[i] EXCEPT !.at = at]]
        own == <<Symbol("line", placed.file, placed.line, at)>>
        high == IF placed.ufile = "" THEN << >>
                ELSE <<Symbol("uline", placed.ufile, placed.uline, at)>>
        takes == node.type = "instruction" /\ node.name # "DAT"
    IN  [a EXCEPT !.out = @ \o Lines(node),
                  !.newsyms = IF takes THEN << >> ELSE @ \o new,
                  !.symbols = IF takes THEN @ \o waiting \o own \o high ELSE @]

-----------------------------------------------------------------------------
(* dtasm: the preprocessor has ended; parse, process, write *)

ReadMarker ==
    /\ asm.stage = "parse" /\ asm.todo # << >> /\ asm.todo[1].k \in {"mark", "umark"}
    /\ LET tok == asm.todo[1]
           rest == SubSeq(asm.todo, 3, Len(asm.todo))
       IN  asm' = IF tok.k = "mark" THEN [asm EXCEPT !.todo = rest, !.line = tok.v, !.file = tok.f]
                  ELSE [asm EXCEPT !.todo = rest, !.uline = tok.v, !.ufile = tok.f]
    /\ UNCHANGED <<input, pp>>

\* The newline is counted before the node is placed.
ParseLine ==
    /\ asm.stage = "parse" /\ asm.todo # << >> /\ asm.todo[1].k \notin {"mark", "umark"}
    /\ LET e == LineEnd(asm.todo)
           ts == Commented(IF e = 0 THEN asm.todo ELSE SubSeq(asm.todo, 1, e - 1))
           nodes == line_nodes(ts, asm.label)
           n == asm.line + (IF e = 0 THEN 0 ELSE 1)
           labels == SelectSeq(nodes, LAMBDA d : d.type = "label" /\ ts[1].k = "word")
       IN  asm' = [asm EXCEPT
               !.todo = IF e = 0 THEN << >> ELSE SubSeq(@, e + 1, Len(@)),
               !.line = n,
               !.ufile = IF nodes = << >> THEN @ ELSE "",
               !.label = IF labels = << >> THEN @ ELSE labels[1].name,
               !.nodes = @ \o Placed(nodes, n),
               !.stage = IF \E i \in DOMAIN nodes : nodes[i] = NoNode THEN "halt" ELSE @]
    /\ UNCHANGED <<input, pp>>

Parsed == /\ asm.stage = "parse" /\ asm.todo = << >>
          /\ asm' = [asm EXCEPT !.stage = "process"]
          /\ UNCHANGED <<input, pp>>

ProcessLine ==
    /\ asm.stage = "process" /\ asm.next <= Len(asm.nodes)
    /\ LET placed == asm.nodes[asm.next]
       IN  asm' = IF Stops(placed.node) THEN [asm EXCEPT !.stage = "halt"]
                  ELSE [process_line(asm, placed) EXCEPT !.next = @ + 1]
    /\ UNCHANGED <<input, pp>>

\* aout_write; symbols that no instruction took are at the end.
WriteImage ==
    /\ asm.stage = "process" /\ asm.next > Len(asm.nodes)
    /\ asm' = IF Out!Refused(asm.out) THEN [asm EXCEPT !.stage = "halt"]
              ELSE [asm EXCEPT !.stage = "done", !.symbols = @ \o asm.newsyms, !.newsyms = << >>]
    /\ UNCHANGED <<input, pp>>

\* pp_do has returned.
Preprocessed ==
    /\ asm.stage = "wait" /\ pp.stage = "done" /\ input.lang = "asm"
    /\ asm' = [asm EXCEPT !.stage = "parse", !.todo = Top(pp).out]
    /\ UNCHANGED <<input, pp>>

AsmInit == asm = [stage |-> "wait", todo |-> << >>, line |-> 1, file |-> "", uline |-> 0,
                  ufile |-> "", label |-> "", nodes |-> << >>, next |-> 1, out |-> << >>,
                  newsyms |-> << >>, symbols |-> << >>]
AsmNext == ReadMarker \/ ParseLine \/ Parsed \/ ProcessLine \/ WriteImage \/ Preprocessed

Init == PpInit /\ AsmInit
Next == \/ PlainText /\ UNCHANGED asm
        \/ Replace /\ UNCHANGED asm
        \/ MacroTerminate /\ UNCHANGED asm
        \/ DefineDirective /\ UNCHANGED asm
        \/ MacroDirective /\ UNCHANGED asm
        \/ IfDirective /\ UNCHANGED asm
        \/ IfdefDirective /\ UNCHANGED asm
        \/ StrayDirective /\ UNCHANGED asm
        \/ LineDirective /\ UNCHANGED asm
        \/ UlineDirective /\ UNCHANGED asm
        \/ IncludeDirective /\ UNCHANGED asm
        \/ LuaDirective /\ UNCHANGED asm
        \/ BareDirective /\ UNCHANGED asm
        \/ EndOfFile /\ UNCHANGED asm
        \/ AsmNext
Spec == Init /\ [][Next]_<<input, pp, asm>>
=============================================================================
