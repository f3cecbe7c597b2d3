---------------------------- MODULE Preprocessor ----------------------------
(***************************************************************************)
(* The preprocessor (libdcpu-pp): ppimpl_process and the directives of     *)
(* assembly and of C.  The text is a sequence of tokens.  One step is one  *)
(* turn of the loop of ppimpl_process: a token is fetched and pushed on    *)
(* the output, and the handler that it completes, if any, takes it back    *)
(* and acts.                                                               *)
(*                                                                         *)
(* A token has a kind k and a text t; v is the value of a number and of a  *)
(* constant expression, the sigil of a directive (0 for "." and 1 for "#") *)
(* and the line of a marker; n and f are the line and the file it was      *)
(* written in, which the code does not know, and the file of a marker.     *)
(* Blanks separate tokens and are dropped; strings are single tokens, in   *)
(* which nothing is matched.                                               *)
(***************************************************************************)
LOCAL INSTANCE Integers
LOCAL INSTANCE Sequences
LOCAL INSTANCE FiniteSets
LOCAL INSTANCE SequencesExt
LOCAL INSTANCE FiniteSetsExt

CONSTANT Inputs    \* what is preprocessed: [lang, main, paths, files, modules]

VARIABLES input, pp

Token(k, t, v, n, f) == [k |-> k, t |-> t, v |-> v, n |-> n, f |-> f]
NL == Token("nl", "", 0, 0, "")
TERM == Token("term", "", 0, 0, "")          \* \1MACROTERMINATE\1
Marker(line, file) == Token("mark", "", line, 0, file)
Count(ts, k, t) == Cardinality({i \in DOMAIN ts : ts[i].k = k /\ ts[i].t = t})
Newlines(ts) == Count(ts, "nl", "")
IsWord(tok) == tok.k = "word"
Is(tok, k, t) == tok.k = k /\ tok.t = t

-----------------------------------------------------------------------------
(* The state of one file: what is left of it (src), the text that handlers *)
(* printed back (cin), the output so far, the line the reader of the       *)
(* output thinks it is on (actual) and the line of the file (current).     *)

ppimpl_new(src, file) ==
    [src |-> src, cin |-> << >>, out |-> <<Marker(1, file), NL>>,
     actual |-> 0, current |-> 1, file |-> file]

Text(f) == f.cin \o f.src
ppimpl_has_input(f) == Text(f) # << >>

\* ppimpl_get_input, k times: a newline that was printed back counts for the
\* reader, one of the file for the file.
Take(f, k) ==
    LET c == IF k < Len(f.cin) THEN k ELSE Len(f.cin)
    IN  [f EXCEPT !.cin = SubSeq(@, c + 1, Len(@)),
                  !.src = SubSeq(@, k - c + 1, Len(@)),
                  !.actual = @ + Newlines(SubSeq(f.cin, 1, c)),
                  !.current = @ + Newlines(SubSeq(f.src, 1, k - c))]

ppimpl_oprintf(f, ts) == [f EXCEPT !.out = @ \o ts]
ppimpl_printf(f, ts) == [f EXCEPT !.cin = ts \o @, !.actual = @ + Newlines(ts)]

\* The least member of S; 0 if there is none.
FirstIndex(S) == IF S = {} THEN 0 ELSE Min(S)
LineEnd(ts) == FirstIndex({i \in DOMAIN ts : ts[i].k = "nl"})

\* ppparam_get reads the rest of the line and its newline.
Params(f) == LET e == LineEnd(Text(f))
             IN  IF e = 0 THEN Text(f) ELSE SubSeq(Text(f), 1, e - 1)
ppparam_get(f) == LET e == LineEnd(Text(f)) IN Take(f, IF e = 0 THEN Len(Text(f)) ELSE e)

\* Mutant: the reader's line is not corrected.
Correction_None(f) == [f EXCEPT !.actual = @ + 1]

\* A newline on its way out: a marker goes before it when the reader would
\* lose count.
Correction(f) ==
    IF f.actual + 1 = f.current THEN [f EXCEPT !.actual = @ + 1]
    ELSE [ppimpl_oprintf(f, <<NL, Marker(f.current, f.file)>>) EXCEPT !.actual = f.current]

-----------------------------------------------------------------------------
(* All states of the preprocessor: frames holds the file being read above  *)
(* the files that include it; handlers are the definitions, in the order   *)
(* of the list; lua is the frame that Lua modules print to (0 once it is   *)
(* freed).                                                                 *)

Top(p) == Last(p.frames)
WithTop(p, f) == [p EXCEPT !.frames = Append(Front(@), f)]
Printed(p, ts) == WithTop(p, ppimpl_printf(Top(p), ts))
Halt(p) == [p EXCEPT !.stage = "halt"]       \* dhalt
Crash(p) == [p EXCEPT !.stage = "crash"]     \* assert, or undefined behaviour

ppimpl_push_scope(p, active) ==
    [p EXCEPT !.scopes = Append(@, [active |-> active, start |-> Len(Top(p).out),
                                    old |-> << >>, new |-> << >>])]

\* Mutant: only the new definition is dropped, the hidden one is not kept.
ppimpl_register_NoOld(p, h) ==
    LET others == SelectSeq(p.handlers, LAMBDA o : o.text # h.text)
        s == Last(p.scopes)
    IN  IF p.scopes = << >> THEN [p EXCEPT !.handlers = Append(@, h)]
        ELSE [p EXCEPT !.handlers = Append(others, h),
                       !.scopes = Append(Front(@), [s EXCEPT !.new = Append(@, h.text)])]

\* In a scope a definition hides all earlier ones of its name, and the scope
\* keeps them.
ppimpl_register(p, h) ==
    LET others == SelectSeq(p.handlers, LAMBDA o : o.text # h.text)
        hidden == SelectSeq(p.handlers, LAMBDA o : o.text = h.text)
        s == Last(p.scopes)
    IN  IF p.scopes = << >> THEN [p EXCEPT !.handlers = Append(@, h)]
        ELSE [p EXCEPT !.handlers = Append(others, h),
                       !.scopes = Append(Front(@), [s EXCEPT !.old = @ \o hidden,
                                                             !.new = Append(@, h.text)])]

\* The output of a silenced scope is cut off at the length it started with.
ppimpl_pop_scope(p) ==
    LET s == Last(p.scopes)
        out == Top(p).out
        kept == IF s.active \/ s.start >= Len(out) THEN out ELSE SubSeq(out, 1, s.start)
        mine(h) == \E i \in DOMAIN s.new : s.new[i] = h.text
    IN  IF p.scopes = << >> THEN p
        ELSE [WithTop(p, [Top(p) EXCEPT !.out = kept]) EXCEPT
                 !.scopes = Front(@),
                 !.handlers = SelectSeq(@, LAMBDA h : ~mine(h)) \o s.old]

-----------------------------------------------------------------------------
(* Replacements and macros *)

\* A definition's text forgets where it was written.
Body(ts) == [i \in DOMAIN ts |-> [ts[i] EXCEPT !.n = 0, !.f = ""]]
Definition(text, kind, params, body) ==
    [text |-> text, kind |-> kind, params |-> params, body |-> body]

\* Whether the text of an argument is the name of its parameter.
SameText(param, arg) == IF arg = << >> THEN param = "" ELSE Len(arg) = 1 /\ arg[1].t = param

\* The bracket that closes the one at the front of ts; 0 if there is none.
Closing(ts) ==
    LET before(j) == SubSeq(ts, 2, j - 1)
    IN  FirstIndex({j \in 2 .. Len(ts) :
            Is(ts[j], "sym", ")")
              /\ Count(before(j), "sym", "(") = Count(before(j), "sym", ")")})

\* The pieces of ts between the commas that no bracket encloses.
Pieces(ts) ==
    LET open(j) == Count(SubSeq(ts, 1, j), "sym", "(") - Count(SubSeq(ts, 1, j), "sym", ")")
        cuts == SelectSeq([j \in DOMAIN ts |-> j], LAMBDA j : Is(ts[j], "sym", ",") /\ open(j) = 0)
        from == <<0>> \o cuts
        to == Append(cuts, Len(ts) + 1)
    IN  [i \in DOMAIN to |-> SubSeq(ts, from[i] + 1, to[i] - 1)]

replace_handle(p, h) == Printed(p, h.body)

\* The ends of macros in front of the bracket close their scopes first.
Terminators(ts) == FirstIndex({i \in 1 .. Len(ts) + 1 : i > Len(ts) \/ ts[i].k # "term"}) - 1

\* The parameters become definitions of a scope that the terminator behind
\* the body closes.
macro_handle(p, h) ==
    LET k == Terminators(Text(Top(p)))
        q == FoldLeft(LAMBDA r, i : ppimpl_pop_scope(WithTop(r, Take(Top(r), 1))),
                      p, [i \in 1 .. k |-> i])
        ts == Text(Top(q))
        close == Closing(ts)
        args == Pieces(SubSeq(ts, 2, close - 1))
        scoped == ppimpl_push_scope(WithTop(q, Take(Top(q), close)), TRUE)
        bound(r, i) == IF SameText(h.params[i], args[i]) THEN r
                       ELSE ppimpl_register(r, Definition(h.params[i], "replace", << >>, args[i]))
    IN  IF ts = << >> THEN Crash(q)
        ELSE IF ~Is(ts[1], "sym", "(") \/ close = 0 \/ Len(args) # Len(h.params) THEN Halt(q)
        ELSE Printed(FoldLeft(bound, scoped, [i \in DOMAIN args |-> i]), Append(h.body, TERM))

\* Where the definition that starts at i ends: a newline with no backslash
\* before it.
DefinitionEnd(ts, i) ==
    FirstIndex({j \in i .. Len(ts) : ts[j].k = "nl" /\ (j = i \/ ts[j - 1].k # "bs")})

One == <<Token("num", "1", 1, 0, "")>>

\* .DEFINE, .EQU and .EQUATE of assembly: a name and the rest of the line; if
\* only a blank is left, "1".  Lines joined by a backslash keep it.
asm_define_handle(p) ==
    LET f == Top(p)
        ts == Text(f)
        e == DefinitionEnd(ts, 2)
        rest == SubSeq(ts, 2, e - 1)
        q == Printed(WithTop(p, Take(f, e)), <<NL>>)
        body == IF rest # << >> /\ rest[1].k = "blank" THEN One ELSE Body(rest)
    IN  IF ts = << >> \/ e = 0 THEN Crash(p)
        ELSE IF ts[1].k = "nl" \/ (rest # << >> /\ Is(rest[1], "sym", "(")) THEN Halt(p)
        ELSE IF SameText(ts[1].t, body) THEN q
        ELSE ppimpl_register(q, Definition(ts[1].t, "replace", << >>, body))

\* The parameters between the brackets that start at ts[2].
ParamNames(ts, close) ==
    LET ps == Pieces(SubSeq(ts, 3, close - 1))
    IN  [i \in DOMAIN ps |-> IF ps[i] = << >> THEN "" ELSE ps[i][1].t]

\* #define of C: with a bracket behind the name, a macro.  Joined lines lose
\* the backslash, and a newline goes straight to the output for each.  A
\* comment ends the definition and stays in the input.
c_define_handle(p) ==
    LET f == Top(p)
        ts == Text(f)
        is_macro == Len(ts) > 1 /\ Is(ts[2], "sym", "(")
        close == 1 + Closing(Tail(ts))
        from == IF is_macro THEN close + 1 ELSE 2
        comment == FirstIndex({j \in from .. Len(ts) : Is(ts[j], "sym", "//")})
        line == DefinitionEnd(ts, from)
        e == IF comment \in 1 .. line THEN comment ELSE line
        rest == SubSeq(ts, from, e - 1)
        joined == SelectSeq(rest, LAMBDA t : t.k # "bs")
        read == Take(f, IF e = line THEN e ELSE e - 1)
        g == ppimpl_oprintf(read, [i \in 1 .. Newlines(rest) |-> NL])
        q == Printed(WithTop(p, g), IF e = line THEN <<NL>> ELSE << >>)
        body == IF rest = << >> /\ ~is_macro THEN One ELSE Body(joined)
        h == IF is_macro THEN Definition(ts[1].t, "macro", ParamNames(ts, close), body)
             ELSE Definition(ts[1].t, "replace", << >>, body)
    IN  IF ts = << >> \/ e = 0 THEN Crash(p)
        ELSE IF ts[1].k = "nl" \/ (is_macro /\ Count(SubSeq(ts, 3, close), "sym", "(") > 0)
             THEN Halt(p)
        ELSE IF ~is_macro /\ SameText(ts[1].t, body) THEN q
        ELSE ppimpl_register(q, h)

\* .MACRO of assembly: the lines up to .ENDMACRO, without the newlines in
\* front.  The newline behind .ENDMACRO stays in the input.
macro_def_handle(p) ==
    LET f == Top(p)
        ts == Text(f)
        close == 1 + Closing(Tail(ts))
        ends == {i \in close + 1 .. Len(ts) : /\ Is(ts[i], "dir", "ENDMACRO")
                                              /\ i = close + 1 \/ ts[i - 1].k = "nl"}
        e == FirstIndex(ends)
        text == {i \in close + 1 .. e - 1 : ts[i].k # "nl"}
        body == IF text = {} THEN << >> ELSE SubSeq(ts, Min(text), e - 1)
    IN  IF ts = << >> THEN Crash(p)
        ELSE IF \/ ts[1].k = "nl" \/ Len(ts) < 3 \/ ~Is(ts[2], "sym", "(")
                \/ close = 1 \/ Count(SubSeq(ts, 3, close), "sym", "(") > 0 \/ e = 0
             THEN Halt(p)
        ELSE ppimpl_register(WithTop(p, Take(f, e)),
                             Definition(ts[1].t, "macro", ParamNames(ts, close), Body(body)))

-----------------------------------------------------------------------------
(* Conditionals *)

Opens == IF input.lang = "c" THEN {"IF", "IFDEF", "IFNDEF"} ELSE {"IF"}

\* Directives stand at the start of a line.
Fresh(ts, i) == i = 1 \/ ts[i - 1].k = "nl"
Directives(ts, names) ==
    {i \in DOMAIN ts : ts[i].k = "dir" /\ ts[i].t \in names /\ Fresh(ts, i)}
Depth(ts, i) ==
    LET before(names) == Cardinality({j \in Directives(ts, names) : j < i})
    IN  1 + before(Opens) - before({"ENDIF"})

\* The text up to the .ENDIF, or up to the .ELSE of the same .IF; every
\* directive in it is written with "#" from then on.
skip_to_endif(f, stop_at_else) ==
    LET ts == Text(f)
        stops == {i \in Directives(ts, IF stop_at_else THEN {"ENDIF", "ELSE"} ELSE {"ENDIF"}) :
                     Depth(ts, i) = 1}
        e == FirstIndex(stops)
        sharp(i) == IF ts[i].k = "dir" /\ Fresh(ts, i) THEN [ts[i] EXCEPT !.v = 1] ELSE ts[i]
    IN  IF stops = {} THEN [found |-> FALSE, else |-> FALSE, f |-> f, output |-> << >>]
        ELSE [found |-> TRUE, else |-> ts[e].t = "ELSE", f |-> ppparam_get(Take(f, e)),
              output |-> [i \in 1 .. e - 1 |-> sharp(i)]]

\* What may follow once the condition is known.  On the way of a false one
\* the text is assigned to through a pointer that was never set: the program
\* may stop there, and without an .ELSE prints what it points to.
Branch(p, value) ==
    LET first == skip_to_endif(Top(p), TRUE)
        second == skip_to_endif(first.f, FALSE)
        printed(f, ts) == Printed(WithTop(p, f), ts)
    IN  IF ~first.found \/ (first.else /\ ~second.found) THEN {Halt(p)}
        ELSE IF value THEN {printed(IF first.else THEN second.f ELSE first.f, first.output)}
        ELSE {Crash(p), IF first.else THEN printed(second.f, second.output)
                        ELSE printed(first.f, << >>)}

\* A number, a name or a string alone is a parameter of its own kind.
IsExpression(ps) == Len(ps) = 1 /\ ps[1].k = "expr"

\* .IF takes an expression.  A name in it is looked up, and what is parsed as
\* its definition is not a string: the value may be any, or the parser refuses
\* it.
if_handle(p) ==
    LET ps == Params(Top(p))
        q == WithTop(p, ppparam_get(Top(p)))
        known == \E i \in DOMAIN p.handlers : p.handlers[i].text = ps[1].t
    IN  IF ~IsExpression(ps) THEN {Halt(p)}
        ELSE IF ps[1].t = "" THEN Branch(q, ps[1].v # 0)
        ELSE IF ~known THEN {Halt(p)}
        ELSE {Halt(p)} \cup Branch(q, TRUE) \cup Branch(q, FALSE)

\* #ifdef and #ifndef of C look at the first handler only, which is a
\* directive: no name is ever defined.
ifdef_general_handle(p, exists) ==
    LET ps == Params(Top(p))
    IN  IF Len(ps) # 1 \/ ~IsWord(ps[1]) THEN {Halt(p)}
        ELSE Branch(WithTop(p, ppparam_get(Top(p))), ~exists)

-----------------------------------------------------------------------------
(* Lines, files and Lua modules *)

LineParams(ps) == Len(ps) = 2 /\ ps[1].k = "num" /\ ps[2].k \in {"str", "word"}

line_handle(p) ==
    LET ps == Params(Top(p))
        marked == Top(Printed(WithTop(p, ppparam_get(Top(p))), <<Marker(ps[1].v, ps[2].t), NL>>))
    IN  IF LineParams(ps)
        THEN WithTop(p, [marked EXCEPT !.current = ps[1].v, !.file = ps[2].t]) ELSE Halt(p)

uline_handle(p) ==
    LET ps == Params(Top(p))
        mark == Token("umark", "", ps[1].v, 0, ps[2].t)
    IN  IF LineParams(ps)
        THEN Printed(WithTop(p, ppparam_get(Top(p))), <<mark, NL>>) ELSE Halt(p)

\* The first of the directories that has the file; "" if none has.
ppfind_locate(name) ==
    LET found == SelectSeq(input.paths, LAMBDA d : d \o name \in DOMAIN input.files)
    IN  IF found = << >> THEN "" ELSE found[1] \o name

\* The file is read in a state of its own that takes over the handlers and
\* the scopes; Lua modules are loaded again, and print to it.
include_handle(p) ==
    LET ps == Params(Top(p))
        path == ppfind_locate(ps[1].t)
        q == WithTop(p, ppparam_get(Top(p)))
    IN  IF Len(ps) # 1 \/ ps[1].k # "str" \/ path = "" THEN Halt(p)
        ELSE [q EXCEPT !.frames = Append(@, ppimpl_new(input.files[path], path)),
                       !.lua = IF input.lang = "asm" THEN Len(p.frames) + 1 ELSE @]

\* The end of an included file: its output joins that of the file including
\* it, with a marker behind it.
Included(p) ==
    LET child == Top(p)
        parent == Last(Front(p.frames))
        out == child.out \o <<Marker(parent.current, parent.file), NL>>
    IN  [p EXCEPT !.frames = Append(Front(Front(@)), ppimpl_oprintf(parent, out)),
                  !.lua = IF @ = Len(p.frames) THEN 0 ELSE @]

\* One call of a Lua handler to the state it is given.
LuaCall(p, c) ==
    CASE c.call = "scope_enter" -> ppimpl_push_scope(p, c.output)
      [] c.call = "scope_exit" -> ppimpl_pop_scope(p)
      [] OTHER -> p
LuaText(c) ==
    CASE c.call = "print" -> c.text
      [] c.call = "print_line" -> Append(c.text, NL)
      [] c.call = "add_symbol" -> <<Token("dir", "SYMBOL", 0, 0, ""), c.symbol, NL>>
      [] OTHER -> << >>

\* All calls of the handler of a directive.  Behind an .INCLUDE they go to
\* the freed state of the included file.
pp_lua_handle(p, name) ==
    LET calls == input.modules[name]
        scoped == FoldLeft(LuaCall, p, calls)
        text == FlattenSeq([i \in DOMAIN calls |-> LuaText(calls[i])])
    IN  IF p.lua = Len(p.frames) THEN {Printed(scoped, text)} ELSE {Crash(p), p}

-----------------------------------------------------------------------------
(* Matching *)

\* Directives and their handlers: in assembly those of define.c, expr.c,
\* line.c and include.c with either sigil, .EQU, .EQUATE and Lua's with a dot.
Registered(tok) ==
    IF input.lang = "c"
    THEN tok.v = 1 /\ tok.t \in {"DEFINE", "IF", "IFDEF", "IFNDEF", "ELSE", "ENDIF", "LINE", "INCLUDE"}
    ELSE \/ tok.t \in {"DEFINE", "MACRO", "IF", "ELSE", "ENDIF", "LINE", "ULINE", "INCLUDE"}
         \/ tok.v = 0 /\ tok.t \in {"EQU", "EQUATE"} \cup DOMAIN input.modules

\* A Lua directive without parameters is matched with its newline.
Bare(out) == /\ Len(out) > 1 /\ Last(out).k = "nl"
             /\ out[Len(out) - 1].k = "dir" /\ out[Len(out) - 1].v = 0
             /\ out[Len(out) - 1].t \in DOMAIN input.modules /\ Fresh(out, Len(out) - 1)

\* The token is fetched and pushed.
Fetched(p) ==
    LET f == Top(p)
        tok == Text(f)[1]
        g == IF tok.k = "nl" THEN Correction(Take(f, 1)) ELSE Take(f, 1)
    IN  WithTop(p, ppimpl_oprintf(g, <<tok>>))

Removed(p, k) ==
    LET out == Top(p).out
        f == [Top(p) EXCEPT !.out = SubSeq(out, 1, Len(out) - k),
                            !.actual = @ - Newlines(SubSeq(out, Len(out) - k + 1, Len(out)))]
    IN  WithTop(p, f)

\* What the output ends with: a directive, a Lua directive with a blank or a
\* newline behind it, a defined name, the end of a macro.
Defined(p, tok) == {i \in DOMAIN p.handlers : p.handlers[i].text = tok.t}
Matched(p) ==
    LET out == Top(p).out
        tok == Last(out)
        next == Text(Top(p))
    IN  IF Bare(out) THEN "BARE"
        ELSE IF tok.k = "dir" /\ Fresh(out, Len(out)) /\ Registered(tok)
             THEN IF tok.t \notin DOMAIN input.modules THEN tok.t
                  ELSE IF next = << >> \/ next[1].k = "nl" THEN "" ELSE "LUA"
        ELSE IF tok.k = "term" THEN "TERM"
        ELSE IF IsWord(tok) /\ Defined(p, tok) # {} THEN "NAME" ELSE ""

\* The character behind a name is looked at and put back.
Peeked(f) == IF Text(f) = << >> THEN f ELSE [Take(f, 1) EXCEPT !.cin = <<Text(f)[1]>> \o @]

-----------------------------------------------------------------------------
(* ppimpl_process: one turn of its loop, by the handler that the output    *)
(* has come to match.                                                      *)

Turn(match) == /\ pp.stage = "run" /\ ppimpl_has_input(Top(pp))
               /\ Matched(Fetched(pp)) = match
               /\ UNCHANGED input
Taken == Removed(Fetched(pp), 1)

PlainText == Turn("") /\ pp' = Fetched(pp)

\* The first definition of the name.
Replace == /\ Turn("NAME")
           /\ LET h == pp.handlers[Min(Defined(pp, Text(Top(pp))[1]))]
                  p == WithTop(pp, Peeked(Top(Fetched(pp))))
              IN  pp' = IF h.kind = "macro" THEN macro_handle(Removed(p, 1), h)
                        ELSE replace_handle(Removed(p, 1), h)

\* A definition is back in force only for what follows: what the macro wrote
\* was matched against more names than there are now.
MacroTerminate == Turn("TERM") /\ pp' = ppimpl_pop_scope(Taken)

DefineDirective ==
    /\ \E d \in {"DEFINE", "EQU", "EQUATE"} : Turn(d)
    /\ pp' = IF input.lang = "c" THEN c_define_handle(Taken) ELSE asm_define_handle(Taken)
MacroDirective == Turn("MACRO") /\ pp' = macro_def_handle(Taken)
IfDirective == Turn("IF") /\ pp' \in if_handle(Taken)
IfdefDirective == \/ Turn("IFDEF") /\ pp' \in ifdef_general_handle(Taken, TRUE)
                  \/ Turn("IFNDEF") /\ pp' \in ifdef_general_handle(Taken, FALSE)

\* .ELSE and .ENDIF are consumed by their .IF.
StrayDirective == (\E d \in {"ELSE", "ENDIF"} : Turn(d)) /\ pp' = Halt(Taken)
LineDirective == Turn("LINE") /\ pp' = line_handle(Taken)
UlineDirective == Turn("ULINE") /\ pp' = uline_handle(Taken)
IncludeDirective == Turn("INCLUDE") /\ pp' = include_handle(Taken)

\* With parameters: they and their newline are read, whatever they are.
LuaDirective ==
    /\ Turn("LUA")
    /\ pp' \in pp_lua_handle(WithTop(Taken, ppparam_get(Top(Taken))), Text(Top(pp))[1].t)
\* Without: the newline is taken back from the output too.
BareDirective ==
    /\ Turn("BARE")
    /\ LET p == Fetched(pp)
           out == Top(p).out
       IN  pp' \in pp_lua_handle(Removed(p, 2), out[Len(out) - 1].t)

EndOfFile == /\ pp.stage = "run" /\ ~ppimpl_has_input(Top(pp))
             /\ pp' = IF Len(pp.frames) > 1 THEN Included(pp) ELSE [pp EXCEPT !.stage = "done"]
             /\ UNCHANGED input

PpInit == /\ input \in Inputs
          /\ pp = [frames |-> <<ppimpl_new(input.files[input.main], input.main)>>,
                   handlers |-> << >>, scopes |-> << >>, lua |-> 1, stage |-> "run"]
=============================================================================
