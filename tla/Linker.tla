------------------------------- MODULE Linker -------------------------------
(* The linker dtld (dtld/main.c, libdcpu-ld/ldbins.c, ldcall.c): the files   *)
(* are loaded into bins, their sections split off, everything flattened into *)
(* one bin, the jump table written, the optimisers run, literals shortened,  *)
(* kernel calls generated, labels resolved, the policy applied and the       *)
(* result saved.  A library or a kernel may then be linked again with more   *)
(* files, from what was saved.  One step is one bin operation, so that the   *)
(* invariants hold between any two of them.                                  *)
EXTENDS Aout, LdBin, ObjFile, DbgFmt, Policy, Integers

CONSTANTS
    Inputs      \* what is linked: records with the fields
                \*   files     the source of each object file, as lines
                \*   target    "library", "kernel", "application" (with a
                \*             kernel's policy) or "image" (--kernel none)
                \*   first     how many of the files an earlier call links to the
                \*             target firstTarget; 0 for none
                \*   calls     how the kernel's policy says .CALL is done
                \*   interrupts  the number and size of each interrupt-call
                \*   jumplist  the exported jump entries of a kernel linked before
                \*   policies, format  the policy file and the policy asked for
                \*   origin    where the kernel loads what that policy writes
                \*   optimizers  what each optimiser removes: offset and count
                \*   literals  FALSE for --no-short-literals
                \*   keepOutputs  TRUE for --keep-outputs

ASSUME InputsAssumption ==
    \A x \in Inputs : \A n \in DOMAIN x.files : ~Refused(x.files[n])

VARIABLES
    input,      \* the command line and the files, never changed
    bins,       \* the bins by name
    order,      \* ldbins.bins: their names in order
    created,    \* the section bins made by bins_sectionize
    stage,      \* the step of main's pipeline
    f, k,       \* the loops' positions
    n,          \* words stolen, or the position in the jump table
    live,       \* whether bins_resolve's adjustment pointer was ever set
    pass,       \* 1, or 2 when the saved file is linked again
    disk,       \* the files that were saved: words, linker tables, symbols
    gone        \* the words that optimisers removed; a history variable

vars == <<input, bins, order, created, stage, f, k, n, live, pass, disk, gone>>
saved == <<pass, disk, gone>>

File(i) == <<"file", i>>
Section(name) == <<"SECTION", name>>
Output == <<"output">>
Applied == <<"output_applied">>
Temp == <<"temp">>
IsFile(name) == name[1] = "file"
All == ToSet(order)
out == bins[Output]

Relinks == input.first > 0
target == IF pass = 1 /\ Relinks THEN input.firstTarget ELSE input.target
LastFile == IF pass = 1 /\ Relinks THEN input.first ELSE Len(input.files)
Library == target = "library"
UsesKernel == target = "application"

Init ==
    /\ input \in Inputs
    /\ bins = << >> /\ order = << >> /\ created = << >>
    /\ stage = "load" /\ k = 1 /\ n = 0 /\ live = FALSE
    /\ pass = 1 /\ gone = {}
    /\ disk = [words |-> << >>, tables |-> << >>, symbols |-> << >>]
    /\ f = IF input.jumplist = << >> THEN 1 ELSE 0

Goto(s) == stage' = s /\ f' = 1 /\ k' = 1 /\ n' = 0
Stay == UNCHANGED <<stage, f, n>>

-----------------------------------------------------------------------------
\* The labels among a file's debugging symbols, as they are written and read.
SymbolsOf(table) == Map(table, LAMBDA e : Symbol("label", e.label, 0, e.address))
TableOf(symbols) == Map(symbols, LAMBDA s : [address |-> s.address, label |-> s.name])

\* bins_load_jumplist.
bins_load_jumplist ==
    [EmptyBin EXCEPT !.jump = objfile_load(objfile_save([EmptyBin EXCEPT !.jump = input.jumplist],
                                                        {"jump"}), {"jump"}).jump]

\* bins_load, from what the assembler wrote or from what the linker saved.
bins_load(i) ==
    LET o == aout_write(input.files[i])
        source == [words |-> [p \in DOMAIN o.words |->
                                 [id |-> <<"file", i, p - 1>>, v |-> o.words[p]]],
                   tables |-> objfile_save(o, ToSet(SaveOrder)),
                   symbols |-> dbgfmt_write(SymbolsOf(o.symbols))]
        file == IF pass = 2 /\ i = input.first THEN disk ELSE source
    IN  objfile_load(file.tables, ToSet(SaveOrder))
          @@ [words |-> file.words, symbols |-> TableOf(dbgfmt_read(file.symbols))]

\* bins_load_kernel: the raw words, and three tables of the jumplist.
bins_load_kernel ==
    objfile_load(disk.tables, {"adjustment", "jump", "optional"})
      @@ [words |-> disk.words, symbols |-> << >>]

Loaded(i) ==
    IF i = 0 THEN bins_load_jumplist
    ELSE IF pass = 2 /\ i = input.first /\ input.firstTarget = "kernel" THEN bins_load_kernel
    ELSE bins_load(i)

Load ==
    /\ stage = "load" /\ f <= LastFile
    /\ bins' = bins @@ (File(f) :> Loaded(f))
    /\ order' = Append(order, File(f))
    /\ f' = f + 1
    /\ UNCHANGED <<input, created, stage, k, n, live, saved>>

bins_associate ==
    /\ stage = "load" /\ f > LastFile
    /\ bins' = [b \in DOMAIN bins |->
                  [bins[b] EXCEPT !.adjustment = Map(@, LAMBDA e : [e EXCEPT !.bin = b])]]
    /\ Goto("sectionize")
    /\ UNCHANGED <<input, order, created, live, saved>>

\* bins_sectionize: a bin for each section name, in order of appearance ...
CreateSections ==
    /\ stage = "sectionize"
    /\ LET named == FlattenSeq([i \in DOMAIN order |->
                        Map(bins[order[i]].section, LAMBDA e : Section(e.label))])
           add(s, x) == IF x \in ToSet(s) THEN s ELSE Append(s, x)
       IN  created' = FoldLeft(add, << >>, named)
    /\ bins' = bins @@ [b \in ToSet(created') |-> EmptyBin]
    /\ Goto("steal")
    /\ UNCHANGED <<input, order, live, saved>>

\* ... then each file's sections move to them, up to the next section or the
\* end of the file ...
Sections == Ascending(bins[order[f]].section)

StealSection ==
    /\ stage = "steal" /\ f <= Len(order) /\ k <= Len(Sections)
    /\ LET from == order[f]
           to == Section(Sections[k].label)
           index == Sections[k].address - n
           steal == IF k = Len(Sections) THEN Size(bins[from]) - index
                    ELSE Sections[k + 1].address - Sections[k].address
       IN  /\ bins' = bin_move(bins, All, to, from, Size(bins[to]), index, steal)
           /\ n' = n + steal
    /\ k' = k + 1
    /\ UNCHANGED <<input, order, created, stage, f, live, saved>>

FileSplit ==
    /\ stage = "steal" /\ f <= Len(order) /\ k > Len(Sections)
    /\ f' = f + 1 /\ k' = 1 /\ n' = 0
    /\ UNCHANGED <<input, bins, order, created, stage, live, saved>>

\* ... and join the list; bins_flatten creates its own bin beside the list.
AppendSections ==
    /\ stage = "steal" /\ f > Len(order)
    /\ order' = order \o created
    /\ bins' = bins @@ (Output :> EmptyBin)
    /\ Goto("flatten")
    /\ UNCHANGED <<input, created, live, saved>>

\* bins_flatten: what is left of the files, one after the other ...
FlattenFile ==
    /\ stage = "flatten" /\ f <= Len(order)
    /\ bins' = IF IsFile(order[f])
               THEN bin_move(bins, All, Output, order[f], Size(out), 0, Size(bins[order[f]]))
               ELSE bins
    /\ f' = f + 1
    /\ UNCHANGED <<input, order, created, stage, k, n, live, saved>>

\* ... then the sections, the last output first ...
SortOutputs ==
    /\ stage = "flatten" /\ f > Len(order)
    /\ bins' = [bins EXCEPT ![Output].output = Descending(@)]
    /\ Goto("outputs")
    /\ UNCHANGED <<input, order, created, live, saved>>

InsertOutput ==
    /\ stage = "outputs" /\ k <= Len(out.output)
    /\ LET e == out.output[k]
           from == Section(e.label)
       IN  bins' = IF from \in All
                   THEN bin_insert(bins, All, Output, from, e.address, 0, Size(bins[from]), TRUE)
                   ELSE bins
    /\ k' = k + 1
    /\ Stay /\ UNCHANGED <<input, order, created, live, saved>>

\* ... and only the flat bin stays.
Flattened ==
    /\ stage = "outputs" /\ k > Len(out.output)
    /\ bins' = [b \in {Output} |-> bins[b]]
    /\ order' = <<Output>>
    /\ Goto("jump")
    /\ UNCHANGED <<input, created, live, saved>>

-----------------------------------------------------------------------------
\* bins_write_jump, for a kernel: one word per entry at the place of .JUMP.
Seek(list, name) == SelectInSeq(list, LAMBDA e : e.label = name)
HasTable == target = "kernel" /\ Seek(out.jump, NoLabel) # 0

LocateTable ==
    /\ stage = "jump"
    /\ IF HasTable
       THEN /\ stage' = "table" /\ f' = 1 /\ k' = 1
            /\ n' = out.jump[Seek(out.jump, NoLabel)].address
       ELSE Goto("optimize")
    /\ UNCHANGED <<input, bins, order, created, live, saved>>

TempBin(words) == bins @@ (Temp :> [EmptyBin EXCEPT !.words = words])
Inserted(at, words) == bin_move(TempBin(words), All, Output, Temp, at, 0, Len(words))[Output]

\* Mutant: the entry's address is read before the word is inserted.
WriteEntry_Early ==
    /\ stage = "table" /\ k <= Len(out.jump)
    /\ LET e == out.jump[k]
           b == Inserted(n, <<[id |-> <<"jump", e.label>>, v |-> 0]>>)
       IN  IF e.label = NoLabel THEN UNCHANGED <<bins, n>>
           ELSE /\ bins' = [bins EXCEPT ![Output] =
                     [b EXCEPT !.words[n + 1].v = e.address,
                               !.adjustment = Append(@, [address |-> n, bin |-> Output]),
                               !.jump[k].address = n]]
                /\ n' = n + 1
    /\ k' = k + 1
    /\ UNCHANGED <<input, order, created, stage, f, live, saved>>

WriteEntry ==
    /\ stage = "table" /\ k <= Len(out.jump)
    /\ LET name == out.jump[k].label
           b == Inserted(n, <<[id |-> <<"jump", name>>, v |-> 0]>>)
       IN  IF name = NoLabel THEN UNCHANGED <<bins, n>>
           ELSE /\ bins' = [bins EXCEPT ![Output] =
                     [b EXCEPT !.words[n + 1].v = b.jump[k].address,
                               !.adjustment = Append(@, [address |-> n, bin |-> Output]),
                               !.jump[k].address = n]]
                /\ n' = n + 1
    /\ k' = k + 1
    /\ UNCHANGED <<input, order, created, stage, f, live, saved>>

TableDone ==
    /\ stage = "table" /\ k > Len(out.jump)
    /\ Goto("optimize")
    /\ UNCHANGED <<input, bins, order, created, live, saved>>

-----------------------------------------------------------------------------
\* bins_optimize and bin_lua_optimize: each optimiser, a Lua script, removes
\* words (bin_lua_remove); one that asks for words behind the end fails, and
\* the next one is called.
bin_lua_remove ==
    /\ stage = "optimize" /\ f <= Len(input.optimizers) /\ k <= Len(input.optimizers[f])
    /\ LET offset == input.optimizers[f][k].offset
           count == input.optimizers[f][k].count
       IN  IF offset + count <= Size(out)
           THEN /\ bins' = bin_remove(bins, All, Output, offset, count)
                /\ gone' = gone \cup {out.words[p].id : p \in offset + 1 .. offset + count}
                /\ stage' = IF Bug191(bins', All) THEN "bug191" ELSE stage
                /\ k' = k + 1 /\ f' = f
           ELSE f' = f + 1 /\ k' = 1 /\ UNCHANGED <<bins, gone, stage>>
    /\ UNCHANGED <<input, order, created, n, live, pass, disk>>

NextOptimizer ==
    /\ stage = "optimize" /\ f <= Len(input.optimizers) /\ k > Len(input.optimizers[f])
    /\ f' = f + 1 /\ k' = 1
    /\ UNCHANGED <<input, bins, order, created, stage, n, live, saved>>

Optimized ==
    /\ stage = "optimize" /\ f > Len(input.optimizers)
    /\ Goto("compress")
    /\ UNCHANGED <<input, bins, order, created, live, saved>>

-----------------------------------------------------------------------------
\* bins_compress: a literal operand that fits is folded into the instruction.
NXT_LIT == 31
NXT == 30
PICK_NXT == 26
GetA(word) == word \div 1024
GetB(word) == (word \div 32) % 32
GetOp(word) == word % 32
Create(op, b, a) == (a % 64) * 1024 + (b % 32) * 32 + (op % 32)

\* The words bins_compress steps over; [register + next word] is not counted.
StepSize(word) ==
    1 + (IF GetA(word) \in {NXT_LIT, NXT, PICK_NXT} THEN 1 ELSE 0)
      + (IF GetB(word) \in {NXT_LIT, NXT, PICK_NXT} THEN 1 ELSE 0)

\* Mutant: 31 does not fit.
Fits_OffByOne(value) == value = 65535 \/ value <= 31

Fits(value) == value = 65535 \/ value <= 30
ShortForm(value) == IF value = 65535 THEN 32 ELSE value + 33

\* Mutant: an optional import is taken for the zero that holds its place.
Pending_NotOptional(address) ==
    \E t \in {"required", "adjustment"} :
        \E e \in ToSet(out[t]) : e.address = address

\* The operand is filled in or moved later.
Pending(address) ==
    \E t \in {"required", "optional", "adjustment"} :
        \E e \in ToSet(out[t]) : e.address = address

Compresses == input.literals /\ ~Library

CompressStep ==
    /\ stage = "compress" /\ Compresses /\ k <= Size(out)
    /\ LET inst == out.words[k].v
           literal == GetA(inst) = NXT_LIT
           folds == literal /\ k < Size(out) /\ ~Pending(k) /\ Fits(out.words[k + 1].v)
           short == Create(GetOp(inst), GetB(inst), ShortForm(out.words[k + 1].v))
       IN  /\ bins' = IF folds
                      THEN bin_remove([bins EXCEPT ![Output].words[k].v = short], All, Output, k, 1)
                      ELSE bins
           /\ k' = k + StepSize(inst) - (IF folds THEN 1 ELSE 0)
           /\ stage' = IF literal /\ k = Size(out) THEN "crash"
                       ELSE IF folds /\ Bug191(bins', All) THEN "bug191" ELSE stage
    /\ UNCHANGED <<input, order, created, f, n, live, saved>>

CompressDone ==
    /\ stage = "compress" /\ (Compresses => k > Size(out))
    /\ Goto("calls")
    /\ UNCHANGED <<input, bins, order, created, live, saved>>

-----------------------------------------------------------------------------
Ins(op, b, a) == <<Create(op, b, a)>>
JSR(a) == Ins(0, 1, a)
INT(a) == Ins(0, 8, a)
SET(b, a) == Ins(1, b, a)
ADD(b, a) == Ins(2, b, a)
REG_A == 0
PUSH_POP == 24
PEEK == 25
SP == 27

\* generate_jump: a target that is not found is zero.
generate_jump(name) ==
    LET j == Seek(out.jump, name)
    IN  JSR(NXT) \o <<IF j = 0 THEN 0 ELSE out.jump[j].address>>

\* The user has set the registers up, and pushed the arguments behind the third.
generate_ccregisterdirect(call, size) ==
    INT(NXT_LIT) \o <<call>>
      \o (IF size > 3 THEN ADD(SP, NXT_LIT) \o <<size - 3>> ELSE << >>)

\* As above, but the kernel answers on the stack.
generate_ccregistercall(call, size) ==
    (IF size < 4 THEN SET(PUSH_POP, 32) ELSE << >>)
      \o INT(NXT_LIT) \o <<call>>
      \o (IF size <= 3 THEN SET(REG_A, PUSH_POP)
          ELSE SET(REG_A, PEEK) \o ADD(SP, NXT_LIT) \o <<size - 3>>)

\* All arguments are pushed (again).
generate_ccstackcall(call, size) ==
    (IF size = 0 THEN SET(PUSH_POP, 32) ELSE << >>)
      \o FlattenSeq([i \in 1 .. size |->
             IF i <= 3 THEN SET(PUSH_POP, i - 1) ELSE SET(PUSH_POP, PICK_NXT) \o <<65536 - size>>])
      \o INT(NXT_LIT) \o <<call>>
      \o SET(REG_A, PEEK) \o ADD(SP, NXT_LIT) \o <<(size + size - 3) % 65536>>

\* bins_resolve_kernel and ldcall_generate: code for each .CALL is inserted
\* where it stands.  dhalt when the policy does not say how.
Callable(name) ==
    input.calls = "jumplist" \/ (input.calls # "none" /\ name \in DOMAIN input.interrupts)
CallWords(name) ==
    LET i == input.interrupts[name] IN
    CASE input.calls = "jumplist" -> generate_jump(name)
      [] input.calls = "stack-call" -> generate_ccstackcall(i.call, i.size)
      [] input.calls = "register-call" -> generate_ccregistercall(i.call, i.size)
      [] input.calls = "register-direct" -> generate_ccregisterdirect(i.call, i.size)
CallCode(name) ==
    [p \in DOMAIN CallWords(name) |-> [id |-> <<"call", p, name>>, v |-> CallWords(name)[p]]]

\* Mutant: behind the next word.
ldcall_generate_Behind ==
    /\ stage = "calls" /\ UsesKernel /\ k <= Len(out.call)
    /\ LET call == out.call[k] IN
       IF Callable(call.label)
       THEN /\ bins' = [bins EXCEPT ![Output] = Inserted(call.address + 1, CallCode(call.label))]
            /\ UNCHANGED stage
       ELSE stage' = "halt" /\ UNCHANGED bins
    /\ k' = k + 1
    /\ UNCHANGED <<input, order, created, f, n, live, saved>>

ldcall_generate ==
    /\ stage = "calls" /\ UsesKernel /\ k <= Len(out.call)
    /\ LET call == out.call[k] IN
       IF Callable(call.label)
       THEN /\ bins' = [bins EXCEPT ![Output] = Inserted(call.address, CallCode(call.label))]
            /\ UNCHANGED stage
       ELSE stage' = "halt" /\ UNCHANGED bins
    /\ k' = k + 1
    /\ UNCHANGED <<input, order, created, f, n, live, saved>>

CallsDone ==
    /\ stage = "calls" /\ (UsesKernel => k > Len(out.call))
    /\ Goto("required")
    /\ UNCHANGED <<input, bins, order, created, live, saved>>

-----------------------------------------------------------------------------
\* bins_resolve
keepOptional == target \in {"library", "kernel"}

Provider(name) == Seek(out.provided, name)
Jump(name) == Seek(out.jump, name)
Missing(e) == Provider(e.label) = 0 /\ Jump(e.label) = 0
Ambiguous(e) == Provider(e.label) # 0 /\ Jump(e.label) # 0

\* The word gets the label's address; once the pointer is set it is appended
\* for every entry that follows.
Resolved(e, value) ==
    LET lives == live \/ Provider(e.label) # 0 IN
    /\ live' = lives
    /\ bins' = [bins EXCEPT
          ![Output].words[e.address + 1].v = value,
          ![Output].adjustment = IF lives THEN Append(@, [address |-> e.address, bin |-> Output])
                                 ELSE @]
Target(e) == IF Provider(e.label) # 0 THEN out.provided[Provider(e.label)].address
             ELSE out.jump[Jump(e.label)].address

ResolveRequired ==
    /\ stage = "required" /\ k <= Len(out.required)
    /\ LET e == out.required[k]
           halts == Ambiguous(e) \/ (Missing(e) /\ ~Library)
       IN  /\ stage' = IF halts THEN "halt" ELSE stage
           /\ IF halts \/ Missing(e) THEN UNCHANGED <<bins, live>> ELSE Resolved(e, Target(e))
    /\ k' = k + 1
    /\ UNCHANGED <<input, order, created, f, n, saved>>

Unresolved(list) == SelectSeq(list, LAMBDA e : Missing(e) /\ Library)

DeleteRequired ==
    /\ stage = "required" /\ k > Len(out.required)
    /\ bins' = [bins EXCEPT ![Output].required = Unresolved(@)]
    /\ Goto("optional")
    /\ UNCHANGED <<input, order, created, live, saved>>

ResolveOptional ==
    /\ stage = "optional" /\ k <= Len(out.optional)
    /\ LET e == out.optional[k] IN
       /\ stage' = IF Ambiguous(e) /\ e.address <= Size(out) THEN "halt" ELSE stage
       /\ IF e.address > Size(out) \/ Ambiguous(e) \/ (Missing(e) /\ Library)
          THEN UNCHANGED <<bins, live, saved>>
          ELSE Resolved(e, IF Missing(e) THEN 0 ELSE Target(e))
    /\ k' = k + 1
    /\ UNCHANGED <<input, order, created, f, n, saved>>

\* The tables that are not exported are emptied.
Finish ==
    /\ stage = "optional" /\ k > Len(out.optional)
    /\ bins' = [bins EXCEPT ![Output].optional = IF keepOptional THEN @ ELSE Unresolved(@),
                            ![Output].provided = IF Library THEN @ ELSE << >>]
    /\ Goto("policy")
    /\ UNCHANGED <<input, order, created, live, saved>>

-----------------------------------------------------------------------------
\* The policy's instructions write the words of an application's file.
bins_apply_policy ==
    /\ stage = "policy" /\ UsesKernel
    /\ LET s == policy_execute(input.policies, input.format, out) IN
       /\ bins' = [bins EXCEPT ![Output] = s.bin]
                    @@ (Applied :> [EmptyBin EXCEPT !.words = s.written])
       /\ order' = Append(order, Applied)
       /\ stage' = IF s.status = "ok" THEN "save" ELSE s.status
    /\ UNCHANGED <<input, created, f, k, n, live, saved>>

NoPolicy ==
    /\ stage = "policy" /\ ~UsesKernel
    /\ stage' = "save"
    /\ UNCHANGED <<input, bins, order, created, f, k, n, live, saved>>

\* A library keeps its linker tables, a kernel those of the jumplist.
SavedTables ==
    CASE Library -> ToSet(SaveOrder) \ (IF input.keepOutputs THEN {} ELSE {"output"})
      [] target = "kernel" -> {"adjustment", "jump", "optional"}
      [] OTHER -> {}

bins_save ==
    /\ stage = "save"
    /\ LET b == IF UsesKernel THEN bins[Applied] ELSE out
       IN  disk' = [words |-> b.words, tables |-> objfile_save(b, SavedTables),
                    symbols |-> dbgfmt_write(SymbolsOf(b.symbols))]
    /\ Goto("done")
    /\ UNCHANGED <<input, bins, order, created, live, pass, gone>>

\* The linker is called again, with the file it saved before the other files.
Relink ==
    /\ stage = "done" /\ pass = 1 /\ Relinks
    /\ pass' = 2
    /\ bins' = << >> /\ order' = << >> /\ created' = << >>
    /\ stage' = "load" /\ f' = input.first /\ k' = 1 /\ n' = 0 /\ live' = FALSE
    /\ UNCHANGED <<input, disk, gone>>

Next ==
    \/ Load \/ bins_associate
    \/ CreateSections \/ StealSection \/ FileSplit \/ AppendSections
    \/ FlattenFile \/ SortOutputs \/ InsertOutput \/ Flattened
    \/ LocateTable \/ WriteEntry \/ TableDone
    \/ bin_lua_remove \/ NextOptimizer \/ Optimized
    \/ CompressStep \/ CompressDone
    \/ ldcall_generate \/ CallsDone
    \/ ResolveRequired \/ DeleteRequired \/ ResolveOptional \/ Finish
    \/ bins_apply_policy \/ NoPolicy \/ bins_save \/ Relink

Spec == Init /\ [][Next]_vars

-----------------------------------------------------------------------------
\* What the sources mean.

\* The section a line stands in; NoLabel outside every section.
SectionOf(p, i) ==
    LET before == {j \in Of(p, {"SECTION"}) : j < i}
    IN  IF before = {} THEN NoLabel ELSE p[CHOOSE j \in before : \A m \in before : m <= j].label

\* What a line of file i becomes: its word, or with calls the code of a .CALL.
LineIds(i, j, calls) ==
    LET l == input.files[i][j] IN
    IF l.type \in {"WORD", "REF"} THEN <<<<"file", i, OutIndex(input.files[i], j)>>>>
    ELSE IF l.type = "CALL" /\ calls
    THEN [p \in DOMAIN CallWords(l.label) |-> <<"call", p, l.label>>]
    ELSE << >>

\* The image the documentation describes for some files: each one's code outside
\* sections, in order, with the collected code of a section at its .OUTPUT.
LayoutOf(from, to, calls) ==
    LET each(Ids(_, _)) ==
            FlattenSeq([i \in 1 .. to |-> IF i < from THEN << >> ELSE
                FlattenSeq([j \in DOMAIN input.files[i] |-> Ids(i, j)])])
        section(name) == each(LAMBDA i, j : IF SectionOf(input.files[i], j) = name
                                            THEN LineIds(i, j, calls) ELSE << >>)
    IN  each(LAMBDA i, j :
               LET l == input.files[i][j] IN
               IF SectionOf(input.files[i], j) # NoLabel THEN << >>
               ELSE IF l.type = "OUTPUT" THEN section(l.label)
               ELSE LineIds(i, j, calls))

\* What was linked before comes first, with the sections of its own files; what
\* an optimiser removed is left out.
Layout(calls) ==
    SelectSeq(LayoutOf(1, IF Relinks THEN input.first ELSE 0, calls)
                \o (IF Relinks /\ pass = 1 THEN << >>
                    ELSE LayoutOf(input.first + 1, Len(input.files), calls)),
              LAMBDA id : id \notin gone)

\* The word a label stands before: the next one of its file and section.
\* A label with no such word names an end.
Anchors(name) ==
    UNION {LET p == input.files[i] IN
           {<<"file", i, OutIndex(p, j)>> : j \in {j \in Of(p, {"LABEL"}) :
               /\ p[j].label = name
               /\ \E w \in Words(p) : w > j /\ SectionOf(p, w) = SectionOf(p, j)
                                      /\ \A m \in Of(p, {"SECTION"}) : ~(j < m /\ m < w)}}
           : i \in DOMAIN input.files}

\* The line a word came from.
LineOf(id) ==
    LET p == input.files[id[2]]
    IN  p[CHOOSE j \in Words(p) : OutIndex(p, j) = id[3]]
FromFile(id) == id[1] = "file"
IsRef(id) == FromFile(id) /\ LineOf(id).type = "REF"
NameIn(id) == IF id[1] = "jump" THEN id[2] ELSE LineOf(id).label

Exported(name) ==
    \E i \in 1 .. LastFile : \E j \in Of(input.files[i], {"EXPORT"}) :
        input.files[i][j].label = name

Gathering == {"load", "sectionize", "steal", "flatten", "outputs", "jump"}

IdsOf(words) == Map(words, LAMBDA w : w.id)
Names(b, address, ids) == address \in 0 .. Size(b) - 1 /\ b.words[address + 1].id \in ids

\* A shortened literal written out again.
Original(id) == LineOf(id).v
Expand(w) ==
    IF FromFile(w.id) /\ ~IsRef(w.id) /\ w.v # Original(w.id)
    THEN LET a == GetA(w.v) IN
         <<[w EXCEPT !.v = Create(GetOp(w.v), GetB(w.v), NXT_LIT)],
           [id |-> [w.id EXCEPT ![3] = @ + 1], v |-> IF a = 32 THEN 65535 ELSE a - 33]>>
    ELSE <<w>>
Source(words) == SelectSeq(FlattenSeq(Map(words, Expand)), LAMBDA w : FromFile(w.id))

-----------------------------------------------------------------------------
\* The link is at a known stage, and no operation leaves a word out of range.
TypeOK ==
    /\ All \subseteq DOMAIN bins
    /\ stage \in {"load", "sectionize", "steal", "flatten", "outputs", "jump", "table",
                  "optimize", "compress", "calls", "required", "optional", "policy", "save",
                  "done", "halt"}
    /\ \A b \in DOMAIN bins : \A w \in ToSet(bins[b].words) : w.v \in 0 .. 65535

\* The flat image is the documented one, for every mix of files, sections and
\* outputs ("the order is important").
LayoutIsDocumented == stage = "jump" => IdsOf(Source(out.words)) = Layout(FALSE)

\* Between any two bin operations every exported label and debugging symbol
\* stands before the word it stood before in its source file, and a jump entry
\* before that word or, once there is one, its word of the jump table; also in
\* a library or a kernel that was saved and linked again.
LabelsFollowCode ==
    \A b \in DOMAIN bins :
        /\ \A e \in ToSet(bins[b].provided \o bins[b].symbols) :
               Anchors(e.label) # {} => Names(bins[b], e.address, Anchors(e.label))
        /\ stage \in Gathering => \A e \in ToSet(bins[b].jump) :
               Anchors(e.label) # {} =>
                   Names(bins[b], e.address, Anchors(e.label) \cup {<<"jump", e.label>>})

\* Between any two bin operations an adjustment stands on an internal
\* reference (or a jump table entry), and the reference, read in the bin it is
\* said to point into, leads to its label.
ReferencesFollow ==
    stage \notin {"load", "required", "optional", "policy", "save", "done", "halt"} =>
        \A b \in DOMAIN bins : \A e \in ToSet(bins[b].adjustment) :
            LET w == bins[b].words[e.address + 1]
                name == NameIn(w.id)
            IN  /\ e.address < Size(bins[b])
                /\ IsRef(w.id) \/ w.id[1] = "jump"
                /\ Anchors(name) # {} => Names(bins[e.bin], w.v, Anchors(name))

\* After every bin operation the words are words and all tables name the code
\* that they named in the source.
TablesFollowCode == TypeOK /\ LabelsFollowCode /\ ReferencesFollow

\* Shortening literals does not change the program: written out again, every
\* word is there, in the documented order, with the value it had in its file.
CompressKeepsCode ==
    stage = "calls" /\ k = 1 =>
        LET code == Source(out.words)
        IN  /\ IdsOf(code) = Layout(FALSE)
            /\ \A w \in ToSet(code) : ~IsRef(w.id) => w.v = Original(w.id)

\* The code of every kernel call stands exactly where its .CALL stands.
CallsStandInPlace ==
    stage = "required" /\ k = 1 /\ UsesKernel =>
        IdsOf(SelectSeq(FlattenSeq(Map(out.words, Expand)), LAMBDA w : w.id[1] # "jump"))
            = Layout(TRUE)

\* A kernel's exported jump entry is the address of a word of the table, and
\* that word leads to the routine, whatever is moved or shortened later.
JumpTableLeads ==
    target = "kernel" /\ stage \in {"optimize", "done"} /\ Seek(out.jump, NoLabel) # 0 =>
        \A e \in ToSet(out.jump) :
            e.label # NoLabel =>
                /\ Names(out, e.address, {<<"jump", e.label>>})
                /\ Anchors(e.label) # {} =>
                      Names(out, out.words[e.address + 1].v, Anchors(e.label))

\* In a finished image every reference in the source holds the address of the
\* word its label stands before, whichever file exports it; an optional import
\* nobody exports is zero.
LinksTo(w) ==
    LET name == LineOf(w.id).label
        kind == ImportKind(input.files[w.id[2]], name)
    IN  IF kind # "LOCAL" /\ Jump(name) # 0 THEN w.v = out.jump[Jump(name)].address
        ELSE IF kind = "LOCAL" \/ Exported(name)
        THEN Anchors(name) # {} => Names(out, w.v, Anchors(name))
        ELSE kind = "OPTIONAL" /\ w.v = 0
LinkedReferences ==
    stage = "policy" /\ ~Library =>
        \A id \in ToSet(Layout(FALSE)) :
            IsRef(id) => \E w \in ToSet(out.words) : w.id = id /\ LinksTo(w)

\* A word resolved through a kernel's jumplist, in the source or in the code of
\* a .CALL, holds the address that the kernel exported ("it's an absolute
\* reference").
JumplistIsAbsolute ==
    stage = "done" /\ input.jumplist # << >> =>
        \A w \in ToSet(out.words) :
            LET name == IF FromFile(w.id) THEN LineOf(w.id).label ELSE w.id[3]
                entry == Seek(input.jumplist, name)
            IN  (IsRef(w.id) \/ (w.id[1] = "call" /\ w.id[2] = 2)) /\ entry # 0 =>
                    w.v = input.jumplist[entry].address

\* The file of an application is ready to run where its kernel loads it: for a
\* policy with an offset, or a table of adjustments to which the kernel adds the
\* origin, every reference to a word of the program holds that word's address
\* ("the kernel can do a simple add operation on each word to relocate the
\* program"); all other words are as they were linked.
Relocates(id) ==
    /\ id[1] = "jump" \/ IsRef(id)
    /\ Anchors(NameIn(id)) # {}
    /\ \/ id[1] = "jump"
       \/ ImportKind(input.files[id[2]], NameIn(id)) = "LOCAL"
       \/ Exported(NameIn(id)) /\ Seek(out.jump, NameIn(id)) = 0
PolicyRelocates ==
    stage = "done" /\ UsesKernel =>
        LET skip == Len(disk.words) - Size(out)
            word(p) == disk.words[skip + p]
            listed == IF input.format = "relocatable"
                      THEN [p \in 4 .. skip |-> disk.words[p].v] ELSE << >>
            run(p) == word(p).v + input.origin * Cardinality({q \in DOMAIN listed : listed[q] = p - 1})
        IN  \A p \in 1 .. Size(out) :
               /\ word(p).id = out.words[p].id
               /\ IF Relocates(word(p).id)
                  THEN Names(out, run(p) - input.origin, Anchors(NameIn(word(p).id)))
                  ELSE word(p).id[1] # "jump" /\ ~IsRef(word(p).id) => run(p) = out.words[p].v
=============================================================================
