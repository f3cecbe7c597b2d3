-------------------------------- MODULE Policy -------------------------------
(***************************************************************************)
(* Linker policies (libdcpu-ld-policy, ldpolicy.c): the script of a kernel *)
(* that lays out the file an application is saved as.  A policy is a list  *)
(* of instructions; executing it writes words to a new bin and may move    *)
(* the references of the linked code to another origin.                    *)
(*                                                                         *)
(* policies maps a name to [type, instructions].  A value is a NUMBER, a   *)
(* VARIABLE or one of the functions total, field, words and code; policies *)
(* do not chain into themselves, and words holds only numbers.             *)
(***************************************************************************)
LOCAL INSTANCE Integers
LOCAL INSTANCE Sequences
LOCAL INSTANCE TLC
LOCAL INSTANCE SequencesExt

NUMBER(n) == [type |-> "NUMBER", number |-> n]
LIST(words) == [type |-> "LIST", words |-> words]
\* state->error, which halts the linker, and what an unchecked index leads to.
ERROR == [type |-> "ERROR", status |-> "halt"]
CRASH == [type |-> "ERROR", status |-> "crash"]

WrittenWord(n) == [id |-> <<"policy", n>>, v |-> n % 65536]

\* state_from_policy and bins_apply_policy: the code bin, nothing written, no
\* offset yet, no variables.
state_from_policy(bin) ==
    [bin |-> bin, written |-> << >>, previous_offset |-> 0, variables |-> << >>,
     status |-> "ok"]

\* The tables of the flattened bin; it has no section table.
policy_total_table(s, table) ==
    IF table = "section" THEN CRASH ELSE NUMBER(Len(s.bin[table]))

\* An index up to the size of the table passes the check: one too many.  The
\* label of an adjustment is empty, a text is one unit long.
policy_field(s, table, index, field) ==
    LET list == s.bin[table]
        entry == list[index + 1]
    IN  IF table = "section" THEN CRASH
        ELSE IF index < 0 \/ index > Len(list) THEN LIST(<< >>)
        ELSE IF index = Len(list) THEN CRASH
        ELSE CASE field = "address" -> LIST(<<WrittenWord(entry.address)>>)
               [] field = "label_size" ->
                      LIST(<<WrittenWord(IF table = "adjustment" THEN 0 ELSE 1)>>)
               [] field = "label_text" ->
                      LIST(IF table = "adjustment" THEN << >>
                           ELSE <<[id |-> <<"label", entry.label>>, v |-> 0]>>)

policy_code(s) == LIST(s.bin.words)

RECURSIVE value_evaluate(_, _)
value_evaluate(s, v) ==
    CASE v.type = "NUMBER" -> v
      [] v.type = "VARIABLE" -> IF v.name \in DOMAIN s.variables
                                THEN NUMBER(s.variables[v.name]) ELSE ERROR
      [] v.type = "total" -> policy_total_table(s, v.table)
      [] v.type = "field" -> LET i == value_evaluate(s, v.index)
                             IN  IF i.type = "ERROR" THEN i
                                 ELSE policy_field(s, v.table, i.number, v.field)
      [] v.type = "code" -> policy_code(s)
      [] v.type = "words" ->
             LET each == [k \in DOMAIN v.values |-> value_evaluate(s, v.values[k])]
                 bad == SelectInSeq(each, LAMBDA x : x.type = "ERROR")
             IN  IF bad # 0 THEN each[bad]
                 ELSE LIST([k \in DOMAIN each |-> WrittenWord(each[k].number)])

\* Mutant: the offset is added to what earlier ones left.
policy_offset_Adds(s, position) ==
    LET moved(words, e) == [words EXCEPT ![e.address + 1].v = (@ + position) % 65536]
    IN  [s EXCEPT !.bin.words = FoldLeft(moved, s.bin.words, s.bin.adjustment),
                  !.previous_offset = position]

\* Every word in the adjustment table moves from the last offset to this one.
policy_offset(s, position) ==
    LET moved(words, e) ==
            [words EXCEPT ![e.address + 1].v = (@ + position - s.previous_offset) % 65536]
    IN  [s EXCEPT !.bin.words = FoldLeft(moved, s.bin.words, s.bin.adjustment),
                  !.previous_offset = position]

policy_write(s, value) ==
    [s EXCEPT !.written = @ \o (IF value.type = "LIST" THEN value.words
                                ELSE <<WrittenWord(value.number)>>)]

Failed(s, value) == [s EXCEPT !.status = value.status]

\* The body runs while the variable is below the end, evaluated once; then the
\* variable goes.
RECURSIVE instructions_execute(_, _, _), Loop(_, _, _, _, _)
Loop(policies, s, inst, n, end) ==
    IF s.status # "ok" \/ n >= end THEN s
    ELSE Loop(policies,
              instructions_execute(policies, [s EXCEPT !.variables = (inst.variable :> n) @@ @],
                                   inst.body),
              inst, n + 1, end)

instructions_execute(policies, s, insts) ==
    IF insts = << >> \/ s.status # "ok" THEN s
    ELSE LET inst == Head(insts)
             next(t) == instructions_execute(policies, t, Tail(insts))
         IN  CASE inst.type = "chain" ->
                    \* The chained policy has variables of its own.
                    IF inst.name \notin DOMAIN policies THEN Failed(s, ERROR)
                    ELSE LET t == instructions_execute(policies, [s EXCEPT !.variables = << >>],
                                                       policies[inst.name].instructions)
                         IN  next([t EXCEPT !.variables = s.variables])
               [] inst.type = "offset" ->
                    LET v == value_evaluate(s, inst.value)
                    IN  IF v.type = "NUMBER" THEN next(policy_offset(s, v.number))
                        ELSE Failed(s, IF v.type = "ERROR" THEN v ELSE ERROR)
               [] inst.type = "write" ->
                    LET v == value_evaluate(s, inst.value)
                    IN  IF v.type = "ERROR" THEN Failed(s, v) ELSE next(policy_write(s, v))
               [] inst.type = "for" ->
                    LET start == value_evaluate(s, inst.start)
                        end == value_evaluate(s, inst.end)
                    IN  IF \/ inst.variable \in DOMAIN s.variables
                           \/ start.type # "NUMBER" \/ end.type # "NUMBER"
                        THEN Failed(s, ERROR)
                        ELSE LET t == Loop(policies, s, inst, start.number, end.number)
                             IN  next([t EXCEPT !.variables = s.variables])

\* bins_apply_policy: only a format policy can be asked for.
policy_execute(policies, target, bin) ==
    IF target \notin DOMAIN policies \/ policies[target].type = "internal"
    THEN Failed(state_from_policy(bin), ERROR)
    ELSE instructions_execute(policies, state_from_policy(bin), policies[target].instructions)
=============================================================================
