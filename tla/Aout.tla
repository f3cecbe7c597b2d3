-------------------------------- MODULE Aout --------------------------------
(* The assembler's back end (libdcpu-ci-asm/aout.c) as a function from the   *)
(* list of emitted bytes to the object file the linker loads: words, and the *)
(* linker tables that objfile_save writes.                                   *)
(*                                                                           *)
(* A line is a record: type, label, v, e.  WORD, REF and EXPR emit one word  *)
(* (a number, a label alone, an expression e); LABEL marks a place; ORIGIN   *)
(* and SEEK move to v; the rest are the linker's directives.  .INCBIN, and   *)
(* the extension and relocation tables, are left out.                        *)
EXTENDS Naturals, Sequences, FiniteSets, SequencesExt
LOCAL INSTANCE FiniteSetsExt
LOCAL Expressions == INSTANCE PpExpr WITH EXPR_W <- 65536

\* The label of a .JUMP without a name: the place of the jump table.
NoLabel == ""

Of(p, types) == {i \in DOMAIN p : p[i].type \in types}
Words(p) == Of(p, {"WORD", "REF", "EXPR"})

InOrder(p, lines) == SelectSeq([i \in DOMAIN p |-> i], LAMBDA i : i \in lines)

\* How far the line at i is behind the last line that moves, or the start.
Position(p, i, moving) ==
    LET moves == {j \in Of(p, moving) : j < i}
        from == IF moves = {} THEN 0 ELSE Max(moves)
    IN  (IF moves = {} THEN 0 ELSE p[from].v) + Cardinality({j \in Words(p) : from < j /\ j < i})

\* out_index when the line is reached, and where its word is in the file: only
\* .SEEK moves that.
OutIndex(p, i) == Position(p, i, {"ORIGIN", "SEEK"})
FilePosition(p, i) == Position(p, i, {"SEEK"})

Defined(p, name) == \E i \in Of(p, {"LABEL"}) : p[i].label = name
aout_get_label_address(p, name) ==
    OutIndex(p, SelectInSeq(p, LAMBDA l : l.type = "LABEL" /\ l.label = name))
Value(p, e) ==
    Expressions!expr_evaluate(e, [name \in {p[i].label : i \in Of(p, {"LABEL"})} |->
                                     aout_get_label_address(p, name)])

\* The first .IMPORT of the name decides whether it is required or optional;
\* an import hides a label of the same name.
ImportKind(p, name) ==
    LET i == SelectInSeq(p, LAMBDA l : l.type \in {"IMPORT", "OPTIONAL"} /\ l.label = name)
    IN  IF i = 0 THEN "LOCAL" ELSE p[i].type
Refs(p, kind) == {i \in Of(p, {"REF"}) : ImportKind(p, p[i].label) = kind}

\* dhalt: a .SECTION with an .OUTPUT or a .CALL before it, a name that the
\* file neither defines nor imports, or an expression with an imported name or
\* a division by zero.
Refused(p) ==
    \/ \E i \in Of(p, {"OUTPUT", "CALL"}), j \in Of(p, {"SECTION"}) : i < j
    \/ \E i \in Refs(p, "LOCAL") \cup Of(p, {"EXPORT", "JUMP"}) :
          p[i].label # NoLabel /\ ~Defined(p, p[i].label)
    \/ \E i \in Of(p, {"EXPR"}) : Value(p, p[i].e) = Expressions!NoValue

\* Each entry goes to the head of its list: a table is in reverse order.
Table(p, lines, Address(_)) ==
    LET at == Reverse(InOrder(p, lines))
    IN  [k \in DOMAIN at |-> [address |-> Address(at[k]), label |-> p[at[k]].label]]
Here(p, lines) == Table(p, lines, LAMBDA i : OutIndex(p, i))
There(p, lines) ==
    Table(p, lines, LAMBDA i : IF p[i].label = NoLabel THEN OutIndex(p, i)
                               ELSE aout_get_label_address(p, p[i].label))

\* The object file: the words of aout_write's second pass (a zero where the
\* linker fills in an import) and the nine tables.  Debugging symbols are one
\* per label: the words count as instructions.
aout_write(p) ==
    LET at == InOrder(p, Words(p))
        word(i) == IF p[i].type = "WORD" THEN p[i].v
                   ELSE IF p[i].type = "EXPR" THEN Value(p, p[i].e)
                   ELSE IF i \in Refs(p, "LOCAL") THEN aout_get_label_address(p, p[i].label)
                   ELSE 0
    IN  [words      |-> [k \in DOMAIN at |-> word(at[k])],
         provided   |-> There(p, Of(p, {"EXPORT"})),
         required   |-> Here(p, Refs(p, "IMPORT")),
         adjustment |-> Here(p, Refs(p, "LOCAL")),
         section    |-> Here(p, Of(p, {"SECTION"})),
         output     |-> Here(p, Of(p, {"OUTPUT"})),
         jump       |-> There(p, Of(p, {"JUMP"})),
         optional   |-> Here(p, Refs(p, "OPTIONAL")),
         call       |-> Here(p, Of(p, {"CALL"})),
         symbols    |-> Here(p, Of(p, {"LABEL"}))]
=============================================================================
