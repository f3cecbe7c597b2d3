------------------------------- MODULE PpExpr -------------------------------
(***************************************************************************)
(* Constant expressions (libdcpu-pp-expr), which the preprocessor, the     *)
(* assembler and Lua modules share.  An expression is a tree: a number, a  *)
(* label, or an operator on two expressions.  Values are words below       *)
(* EXPR_W (2^16 in the code).                                              *)
(***************************************************************************)
LOCAL INSTANCE Integers
LOCAL BW == INSTANCE Bitwise

CONSTANT EXPR_W

expr_new_number(v) == [op |-> "number", v |-> v % EXPR_W]
expr_new_label(name) == [op |-> "label", name |-> name]
expr_new(a, op, b) == [op |-> op, a |-> a, b |-> b]

\* errexit: the tool stops.
NoValue == -1

Truth(c) == IF c THEN 1 ELSE 0

\* Mutant: a difference is not cut to a word.
Difference_Wide(x, y) == x - y
Difference(x, y) == (x - y) % EXPR_W

\* What an operator makes of two words.  A result is cut to a word when it is
\* returned.  The shifts are of a 32-bit int, and the processor takes the count
\* modulo 32.
Operation(op, x, y) ==
    CASE op = "+"  -> (x + y) % EXPR_W
      [] op = "-"  -> Difference(x, y)
      [] op = "*"  -> (x * y) % EXPR_W
      [] op = "/"  -> IF y = 0 THEN NoValue ELSE x \div y
      [] op = "%"  -> IF y = 0 THEN NoValue ELSE x % y
      [] op = "==" -> Truth(x = y)
      [] op = "!=" -> Truth(x # y)
      [] op = "<"  -> Truth(x < y)
      [] op = "<=" -> Truth(x <= y)
      [] op = ">"  -> Truth(x > y)
      [] op = ">=" -> Truth(x >= y)
      [] op = "&"  -> BW!&(x, y)
      [] op = "|"  -> BW!|(x, y)
      [] op = "^"  -> BW!^^(x, y)
      [] op = "!"  -> Truth(y = 0)
      [] op = "&&" -> Truth(x # 0 /\ y # 0)
      [] op = "||" -> Truth(x # 0 \/ y # 0)
      [] op = "^^" -> Truth((x = 0) # (y = 0))
      [] op = "<<" -> (x * 2^(y % 32)) % EXPR_W
      [] op = ">>" -> x \div 2^(y % 32)
      [] OTHER     -> 0

\* The value with the given labels; a label that none has stops the tool.
RECURSIVE expr_evaluate(_, _)
expr_evaluate(e, labels) ==
    IF e.op = "number" THEN e.v
    ELSE IF e.op = "label" THEN IF e.name \in DOMAIN labels THEN labels[e.name] ELSE NoValue
    ELSE LET x == IF e.op = "!" THEN 0 ELSE expr_evaluate(e.a, labels)
             y == expr_evaluate(e.b, labels)
         IN  IF x = NoValue \/ y = NoValue THEN NoValue ELSE Operation(e.op, x, y)
=============================================================================
