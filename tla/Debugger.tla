------------------------------ MODULE Debugger ------------------------------
(***************************************************************************)
(* The debugger dtdb (libdcpu-vm-dbg) around the machine of DcpuVm.  One   *)
(* thread reads a command, runs it to its end and reads the next; while a  *)
(* command executes the machine, the debugger sees it only through the     *)
(* hooks it registered, and SIGINT may set halted between any two steps.   *)
(* Lua modules act through the handlers they registered in setup(): what   *)
(* a handler does is a sequence of the calls of its state object.          *)
(***************************************************************************)
EXTENDS DcpuVm, HookTable, TLC

SeqExt == INSTANCE SequencesExt

CONSTANTS
    Images,           \* files on disk that `load' may name: [ram, size]
    SymbolFiles,      \* symbol files on disk: sequences of symbols
    ModuleDirs,       \* module directories: sequences of directory entries
    Lower(_),         \* btolower
    Contains(_, _),   \* binstr: the path contains the file name
    Devices,          \* names `attach hardware' is given
    Ranges,           \* start and length given to disasm and inspect memory
    Places,           \* <<file, line>> given to break; file "memory" is special
    Garbage,          \* what an uninitialised uint16_t may hold
    HOOK_MAX, HW_MAX, \* table sizes: VM_HOOK_MAX 50, VM_HW_MAX 32
    MAX_BREAKPOINTS,  \* bound: breakpoints the user adds
    MAX_OWED,         \* bound: cycles owed when a listing is asked for
    MAX_BACKTRACE,    \* bound: entries of the backtrace
    RAISE_DEPTH       \* bound: nested raise calls of Lua handlers

ASSUME ImagesAssumption ==
    Images \subseteq [ram : [Word -> Word], size : 0 .. W] /\ Garbage \subseteq Word
Symbol == [type : STRING, name : STRING, line : Nat, address : Word]
ASSUME SymbolAssumption ==
    SymbolFiles \subseteq Seq(Symbol) /\ \A place \in Places : place[2] \in Int
ASSUME RangeAssumption == Ranges \subseteq Int \X Int
ASSUME TableAssumption == HOOK_MAX \in Nat \ {0} /\ HW_MAX \in Nat \ {0}

VARIABLES
    at,           \* "prompt", or the command that is running the machine
    hooked,       \* the debugger's pre-cycle hook has run in this cycle
    fire,         \* hook events yet to be passed to the Lua modules
    breakpoints, backtrace, symbols, modules, flash, flash_size,
    ignore_next_breakpoint, ddbg_return_code, hooks, hw,
    shown,        \* what the last command printed of the machine
    \* observers
    stopped,      \* where a breakpoint was reported, -1 once the machine went on
    diverted,     \* an interrupt entered the handler since the last instruction
    calls,        \* JSRs in progress, by address
    exact         \* every jump was recorded before it was performed, and none else

debugger == <<breakpoints, backtrace, symbols, modules, flash, flash_size,
              ignore_next_breakpoint, ddbg_return_code, hooks, hw>>
observers == <<stopped, diverted, calls, exact>>
dvars == <<vars, at, hooked, fire, debugger, shown, observers>>

NoImage == [x \in Word |-> 0]

-----------------------------------------------------------------------------
(* Lua modules *)

\* add_command, add_hook and add_symbol_hook: one entry per lowered name, the
\* last one registered wins.
dbg_lua_add_base(m, r) ==
    [m EXCEPT ![r.table] = (Lower(r.name) :> r.calls) @@ @]

\* The part of a Lua function that runs: up to the first step that fails.
UpTo(steps, Fails(_)) ==
    LET first == SeqExt!SelectInSeq(steps, Fails)
    IN  IF first = 0 THEN steps ELSE SubSeq(steps, 1, first - 1)

NoHandlers == [commands |-> << >>, hooks |-> << >>, symbols |-> << >>]

\* setup() registers until it ends or fails; what it registered stays.
dbg_lua_setup(regs) ==
    SeqExt!FoldLeft(dbg_lua_add_base, NoHandlers, UpTo(regs, LAMBDA r : r.table = "error"))

\* A directory entry becomes a module when it is a regular .lua file that
\* runs, has a MODULE table and is of type Debugger.
dbg_lua_load(f) == dbg_lua_setup(f.setup)
Loads(f) == /\ f.lua /\ f.regular
            /\ f.runs /\ Lower(f.type) = "debugger"
dbg_lua_init(dir) == LET fs == SelectSeq(dir, Loads)
                     IN  [k \in 1 .. Len(fs) |-> dbg_lua_load(fs[k])]

\* What a handler can change of the debugger.
Lua(v, ig, code) == [halted |-> v.halted, ignore |-> ig, code |-> code]

\* The calls of the state object that a handler comes to make, those of the
\* handlers it raises in their place; inner says what an event runs.
lua_pcall(cs, inner) ==
    LET made == UpTo(cs, LAMBDA c : c.call = "error")
    IN  SeqExt!FlattenSeq([k \in DOMAIN made |->
            CASE made[k].call # "raise" -> << made[k] >>
              [] Lower(made[k].arg) \in DOMAIN inner -> inner[Lower(made[k].arg)]
              [] OTHER -> << >>])

Events == UNION {DOMAIN modules[k].hooks : k \in DOMAIN modules}

\* Every module that registered the event is called, errors or not.
dbg_lua_handle_hook[depth \in Nat] ==
    [e \in Events |->
        SeqExt!FlattenSeq([k \in DOMAIN modules |->
            IF e \notin DOMAIN modules[k].hooks THEN << >>
            ELSE lua_pcall(modules[k].hooks[e],
                           IF depth = 0 THEN << >> ELSE dbg_lua_handle_hook[depth - 1])])]

LuaCalls(cs) == lua_pcall(cs, dbg_lua_handle_hook[RAISE_DEPTH])
HookCallsOf(e) == IF e \in Events THEN dbg_lua_handle_hook[RAISE_DEPTH][e] ELSE << >>

dbg_lua_handle_hook_symbol ==
    SeqExt!FlattenSeq([k \in DOMAIN modules |->
        IF "symhook" \in DOMAIN modules[k].symbols
        THEN LuaCalls(modules[k].symbols["symhook"]) ELSE << >>])

Latest(S) == CHOOSE k \in S : \A n \in S : n <= k

Stops(cs) == {k \in DOMAIN cs : cs[k].call = "_break"}

\* _break halts the machine and run lets it go, the last one wins; both drop
\* the flag that lets the next breakpoint pass.
_dbg_lua_break(s, cs) ==
    LET acts == Stops(cs) \cup {k \in DOMAIN cs : cs[k].call = "run"}
    IN  [halted |-> IF acts = {} THEN s.halted ELSE Latest(acts) \in Stops(cs),
         ignore |-> s.ignore /\ acts = {}, code |-> s.code]

\* _break may set the exit code.
dbg_lua_handle_break(s, cs) ==
    LET coded == {k \in Stops(cs) : cs[k].arg # "none"}
    IN  [_dbg_lua_break(s, cs) EXCEPT !.code = IF coded = {} THEN @ ELSE cs[Latest(coded)].arg]

LuaHook(s, e) == dbg_lua_handle_break(s, HookCallsOf(e))
Handled(e) == \E k \in DOMAIN modules : e \in DOMAIN modules[k].hooks

-----------------------------------------------------------------------------
(* Symbols, breakpoints, disassembly *)

ddbg_get_symbols(addr) == SelectSeq(symbols, LAMBDA s : s.address = addr)

\* The first line symbol of that file and line, the first label, or -1.
FirstAddress(found) ==
    IF found = {} THEN -1 ELSE symbols[CHOOSE k \in found : \A n \in found : k <= n].address
ddbg_file_to_address(file, index) ==
    FirstAddress({k \in DOMAIN symbols : /\ symbols[k].type = "line" /\ symbols[k].line = index
                                         /\ Contains(symbols[k].name, file)})
ddbg_label_to_address(label) ==
    FirstAddress({k \in DOMAIN symbols : symbols[k].type = "label" /\ symbols[k].name = label})

breakpoint_create(addr, silent, temporary) ==
    [addr |-> addr % W, silent |-> silent, temporary |-> temporary]

AtLeast(x, y) == IF x < y THEN y ELSE x
AtMost(x, y) == IF x < y THEN x ELSE y

\* Mutant: SP stays where the operands left it.
vm_disassemble_KeepsSp(v, pos) ==
    LET i == Decode[v.ram[pos]]
        one == ResolveStep(vm_consume_word([v EXCEPT !.pc = pos]), i.a, "A")
        two == IF i.op \in Branch \cup Arith \cup {"SET", "STI", "STD"}
               THEN ResolveStep(one, i.b, "B") ELSE one
    IN  [vm |-> [two EXCEPT !.pc = v.pc], size |-> (two.pc - pos) % W]
\* vm_disassemble resolves the operands to find their next words; PC and SP
\* are put back, the cycles charged for next words are not.
vm_disassemble(v, pos) ==
    LET i == Decode[v.ram[pos]]
        one == ResolveStep(vm_consume_word([v EXCEPT !.pc = pos]), i.a, "A")
        two == IF i.op \in Branch \cup Arith \cup {"SET", "STI", "STD"}
               THEN ResolveStep(one, i.b, "B") ELSE one
    IN  [vm |-> [two EXCEPT !.pc = v.pc, !.sp = v.sp], size |-> (two.pc - pos) % W]

\* One row of a listing: the instruction is disassembled twice, once for the
\* width of the labels and once to print it.
NextRow(list, start, difference) ==
    LET pos == (start + list.i) % W
        once == vm_disassemble(list.vm, pos)
    IN  IF list.i >= difference THEN list
        ELSE [vm |-> vm_disassemble(once.vm, pos).vm, i |-> list.i + once.size,
              rows |-> Append(list.rows, pos)]

\* The rows of a listing.  An instruction has a word or more, so there are no
\* more rows than words.
Listing(v, start, difference) ==
    LET list[n \in Nat] == IF n = 0 THEN [vm |-> v, i |-> 0, rows |-> << >>]
                           ELSE NextRow(list[n - 1], start, difference)
    IN  list[AtLeast(difference, 0)]

\* Without a length, up to the end of what was loaded.
ddbg_disassemble(v, start, difference) ==
    IF start < 0 \/ difference < 0 THEN [vm |-> v, i |-> 0, rows |-> << >>]
    ELSE Listing(v, start, IF difference = 0 THEN flash_size - start ELSE difference)

\* The code around the current instruction.
ddbg_disassemble_default(v) ==
    LET from == AtLeast(v.pc - 10, 0)
    IN  ddbg_disassemble(v, from, AtMost(v.pc - from + 10, W))

\* The label pass prints a label with the path of the last line symbol it
\* met; before the first one that pointer is uninitialised.
LabelUnset(rows) ==
    \E k \in DOMAIN symbols, r \in DOMAIN rows :
        /\ symbols[k].type = "label" /\ symbols[k].address = rows[r]
        /\ \A n \in DOMAIN symbols : symbols[n].type = "line" => r = 1 /\ n > k

-----------------------------------------------------------------------------
(* The hooks *)

\* The instruction the backtrace looks at jumps: SET PC or JSR.
Jumps(i) == (i.op = "SET" /\ i.b = PC) \/ i.op = "JSR"

\* Mutant: only SET PC is recorded.
RecordJump_SetOnly(bt, v) ==
    LET i == Decode[v.ram[v.pc]] IN
    IF ~(i.op = "SET" /\ i.b = PC) THEN bt
    ELSE IF i.a = PUSH_POP THEN SubSeq(bt, 1, Len(bt) - 1)
    ELSE IF i.a = NXT_LIT THEN Append(bt, v.pc)
    ELSE bt

\* The backtrace copies only the first half of an entry, the caller.
RecordJump(bt, v) ==
    LET i == Decode[v.ram[v.pc]] IN
    IF ~Jumps(i) THEN bt
    ELSE IF i.a = PUSH_POP THEN SubSeq(bt, 1, Len(bt) - 1)
    ELSE IF i.a = NXT_LIT THEN Append(bt, v.pc)
    ELSE bt

FirstAt(bps, addr) == CHOOSE k \in DOMAIN bps :
    bps[k].addr = addr /\ \A n \in 1 .. k - 1 : bps[n].addr # addr

\* A stop: the break hooks run, a temporary breakpoint goes, a loud one shows
\* the code before it.  The silent flag is read after the list freed the
\* entry of a temporary breakpoint, so it may be anything.
StopAt(bk, s) ==
    \E loud \in IF bk.temporary THEN BOOLEAN ELSE {~bk.silent} :
        LET l == LuaHook([s EXCEPT !.halted = TRUE, !.ignore = TRUE], "break")
            from == AtLeast(vm.pc - 10, 0)
            list == ddbg_disassemble(vm, from, AtMost(vm.pc + 10, W) - vm.pc)
        IN  /\ vm' = [(IF loud THEN list.vm ELSE vm) EXCEPT !.halted = l.halted]
            /\ ignore_next_breakpoint' = l.ignore /\ ddbg_return_code' = l.code
            /\ \/ at' = at
               \/ loud /\ LabelUnset(list.rows) /\ at' = "crashed"
            /\ shown' = IF loud THEN list.rows ELSE shown
            /\ stopped' = vm.pc /\ diverted' = FALSE

\* Mutant: the flag is not cleared once it was used.
IgnoreAfter_Kept(s) == s.ignore

\* Whether the next cycle still passes over breakpoints.
IgnoreAfter(s) == s.halted /\ s.ignore

\* Symbol handlers, then precycle handlers; a machine they halted is left
\* alone.  Otherwise the first breakpoint here stops it, unless this is the
\* cycle after a stop, and then the jump is recorded.
ddbg_precycle_hook ==
    LET here == ddbg_get_symbols(vm.pc)
        syms == SeqExt!FlattenSeq([k \in DOMAIN here |-> dbg_lua_handle_hook_symbol])
        s == dbg_lua_handle_break(Lua(vm, ignore_next_breakpoint, ddbg_return_code),
                                  syms \o HookCallsOf("precycle"))
        hits == {k \in DOMAIN breakpoints : breakpoints[k].addr = vm.pc}
        k == FirstAt(breakpoints, vm.pc)
    IN  /\ phase = "pre" /\ fire = << >> /\ ~hooked /\ hooked' = TRUE
        /\ IF s.halted \/ s.ignore \/ hits = {}
           THEN /\ vm' = [vm EXCEPT !.halted = s.halted]
                /\ ignore_next_breakpoint' = IgnoreAfter(s) /\ ddbg_return_code' = s.code
                /\ backtrace' = IF s.halted THEN backtrace ELSE RecordJump(backtrace, vm)
                /\ UNCHANGED <<at, shown, breakpoints, stopped, diverted, exact>>
           ELSE /\ StopAt(breakpoints[k], s)
                /\ breakpoints' = IF breakpoints[k].temporary
                                  THEN SeqExt!RemoveAt(breakpoints, k) ELSE breakpoints
                /\ exact' = (exact /\ (vm'.halted \/ ~Jumps(Instruction)))
                /\ UNCHANGED backtrace
        /\ Len(backtrace') <= MAX_BACKTRACE
        /\ Silent /\ UNCHANGED <<phase, raise, call, fire, symbols, modules, flash,
                                 flash_size, hooks, hw, calls>>

\* postcycle, write and interrupt handlers run before the machine goes on.
ddbg_lua_hooks ==
    LET s == LuaHook(Lua(vm, ignore_next_breakpoint, ddbg_return_code), Head(fire)) IN
    /\ fire # << >> /\ fire' = Tail(fire)
    /\ vm' = [vm EXCEPT !.halted = s.halted]
    /\ ignore_next_breakpoint' = s.ignore /\ ddbg_return_code' = s.code
    /\ Silent /\ UNCHANGED <<phase, raise, call, at, hooked, breakpoints, backtrace,
                             symbols, modules, flash, flash_size, hooks, hw, shown, observers>>

-----------------------------------------------------------------------------
(* The machine under a command *)

Executing == {"run", "next"}

\* Messages are raised by the hooks of these devices.
Raisers(mode) == LET called == vm_hook_fire(hooks, mode)
                 IN  {called[k] : k \in DOMAIN called} \cap {"clock", "keyboard", "m35fd"}

Fired(e, happened) == IF happened /\ Handled(e) THEN <<e>> ELSE << >>

\* The instruction at PC is carried out: neither skipped nor lost to fire.
Performs == phase = "exec" /\ ~vm.skip /\ ~vm.on_fire

\* The calls in progress once the instruction at PC was carried out.
CallsAfter == IF Instruction.op = "JSR" THEN Append(calls, vm.pc)
              ELSE IF Jumps(Instruction) /\ Instruction.a = PUSH_POP
              THEN SubSeq(calls, 1, Len(calls) - 1) ELSE calls

\* What the hooks and the observers see of a step of the machine.
Observe ==
    /\ fire' = Fired("write", wrote' # {}) \o Fired("interrupt", event'.kind = "deliver")
                \o Fired("postcycle", phase' = "post" /\ phase # "post")
    /\ hooked' = (hooked /\ phase' \in {"pre", "skipping"})
    /\ stopped' = IF phase = "exec" THEN -1 ELSE stopped
    /\ diverted' = (event'.kind = "deliver" \/ (diverted /\ phase # "exec"))
    /\ calls' = IF Performs THEN CallsAfter ELSE calls
    /\ exact' = /\ exact
                /\ phase = "exec" /\ ~Performs => ~Jumps(Instruction)
                /\ Performs /\ Instruction.op = "JSR" => Instruction.a = NXT_LIT
                /\ phase = "rad" => Instruction' = Instruction
                /\ ~(hooked /\ (event'.kind = "deliver" \/ (vm'.halted /\ ~vm.halted)))

\* A step of vm_execute's vm_cycle; step calls vm_cycle once.  Only attached
\* devices raise interrupts, and only a screen has a window to close.
Machine ==
    /\ at \in Executing \/ (at = "step" /\ phase # "start")
    /\ fire = << >> /\ (phase = "pre" => hooked)
    /\ Next
    /\ Len(raise') > Len(raise) => Raisers(phase') # {}
    /\ vm'.exit /\ ~vm.exit => \E k \in DOMAIN hw : hw[k].by = "lem1802"
    /\ Observe
    /\ UNCHANGED <<debugger, at, shown>>

\* SIGINT or SIGTERM, at any moment.
ddbg_sigint ==
    /\ ~vm.halted /\ vm' = vm_halt(vm)
    /\ exact' = (exact /\ ~hooked)
    /\ Silent /\ UNCHANGED <<phase, raise, call, at, hooked, fire, debugger, shown,
                             stopped, diverted, calls>>

\* vm_execute or vm_cycle returned: the Lua hook of the command, then the
\* prompt.
Return ==
    LET s == Lua(vm, ignore_next_breakpoint, ddbg_return_code)
        l == IF at = "run" THEN s ELSE LuaHook(s, at)
    IN  /\ at = "step" \/ (at \in Executing /\ ~Running)
        /\ phase = "start" /\ fire = << >>
        /\ at' = "prompt" /\ shown' = << >>
        /\ vm' = [vm EXCEPT !.halted = l.halted]
        /\ ignore_next_breakpoint' = l.ignore /\ ddbg_return_code' = l.code
        /\ Silent /\ UNCHANGED <<phase, raise, call, hooked, fire, breakpoints, backtrace,
                                 symbols, modules, flash, flash_size, hooks, hw, observers>>

-----------------------------------------------------------------------------
(* Commands *)

Prompt == at = "prompt"

\* The command changes nothing but what is listed in its own conjuncts.
KeepMachine == vm' = vm /\ phase' = phase /\ UNCHANGED <<raise, call>> /\ Silent
Stays == at' = "prompt" /\ shown' = << >> /\ UNCHANGED <<hooked, fire, observers>>

\* load: what could be read overlays the flash image, and the machine is reset
\* to it; when the file cannot be read the machine is reset all the same.
ddbg_load ==
    /\ Prompt /\ at' = "prompt" /\ shown' = << >> /\ UNCHANGED <<hooked, fire, exact>>
    /\ stopped' = -1 /\ diverted' = FALSE /\ calls' = << >>
    /\ \/ \E f \in Images :
             /\ flash' = [x \in Word |-> IF x < f.size THEN f.ram[x] ELSE flash[x]]
             /\ flash_size' = f.size % W
       \/ UNCHANGED <<flash, flash_size>>
    /\ vm' = vm_reset(flash') /\ ignore_next_breakpoint' = FALSE
    /\ UNCHANGED <<phase, raise, call, breakpoints, backtrace, symbols, modules,
                   ddbg_return_code, hooks, hw>> /\ Silent

ddbg_load_symbols ==
    /\ Prompt /\ Stays /\ KeepMachine
    /\ symbols' \in SymbolFiles \cup {<< >>}
    /\ UNCHANGED <<breakpoints, backtrace, modules, flash, flash_size,
                   ignore_next_breakpoint, ddbg_return_code, hooks, hw>>

\* run and continue: the Lua hook runs before the machine does.
ddbg_run_vm(e) ==
    LET l == LuaHook(Lua([vm EXCEPT !.halted = FALSE], ignore_next_breakpoint,
                         ddbg_return_code), e)
    IN  /\ Prompt /\ at' = "run" /\ shown' = << >>
        /\ vm' = [vm EXCEPT !.halted = l.halted, !.sleep_cycles = 0]
        /\ ignore_next_breakpoint' = l.ignore /\ ddbg_return_code' = l.code
        /\ Silent /\ UNCHANGED <<phase, raise, call, hooked, fire, breakpoints, backtrace,
                                 symbols, modules, flash, flash_size, hooks, hw, observers>>

\* step: one vm_cycle, halted or not.
ddbg_step_into ==
    /\ Prompt /\ at' = "step" /\ shown' = << >>
    /\ vm' = [vm EXCEPT !.sleep_cycles = 0]
    /\ \/ phase' = "sixty" /\ raise' \in HookCalls
       \/ phase' = "irq" /\ raise' = << >>
    /\ raise' # << >> => Raisers("sixty") # {}
    /\ Silent /\ UNCHANGED <<call, hooked, fire, debugger, observers>>

\* The words next counts for an operand: not those of [register + next word]
\* and PICK.
Counted(x) == IF x \in {NXT, NXT_LIT} THEN 1 ELSE 0
Special(i) == i.op \notin Branch \cup Arith \cup {"SET", "STI", "STD"}

\* Mutant: the next words are not counted.
NextTarget_NoWords(i, pc) == IF ~Special(i) THEN {pc + 1}
                             ELSE IF i.op = "JSR" THEN {i.a} ELSE Garbage

\* Where next may set its breakpoint.  For a special opcode bp was assigned
\* only for JSR, and there it is the code of the operand.
NextTarget(i, pc) == IF ~Special(i) THEN {pc + 1 + Counted(i.a) + Counted(i.b)}
                     ELSE IF i.op = "JSR" THEN {i.a} ELSE Garbage

ddbg_step_over ==
    /\ Prompt /\ at' = "next" /\ shown' = << >>
    /\ Len(breakpoints) <= MAX_BREAKPOINTS
    /\ \E bp \in NextTarget(Instruction, vm.pc) :
          breakpoints' = Append(breakpoints, breakpoint_create(bp, TRUE, TRUE))
    /\ vm' = [vm EXCEPT !.halted = FALSE, !.sleep_cycles = 0]
    /\ Silent /\ UNCHANGED <<phase, raise, call, hooked, fire, backtrace, symbols, modules,
                             flash, flash_size, ignore_next_breakpoint, ddbg_return_code,
                             hooks, hw, observers>>

\* Where break add file:index and break add label point; -1 when nowhere.
AddAddress(place) == IF place[1] = "memory" THEN place[2]
                     ELSE ddbg_file_to_address(place[1], place[2])

Breakpoints(bps) ==
    /\ Prompt /\ Stays /\ KeepMachine /\ breakpoints' = bps
    /\ UNCHANGED <<backtrace, symbols, modules, flash, flash_size,
                   ignore_next_breakpoint, ddbg_return_code, hooks, hw>>

AddedAt(addr) == IF addr < 0 THEN breakpoints
                 ELSE Append(breakpoints, breakpoint_create(addr, FALSE, FALSE))

\* The scan that leaves out every breakpoint at an address.
Without(bps, addr) ==
    LET kept[n \in 0 .. Len(bps)] ==
            IF n = 0 THEN << >>
            ELSE IF bps[n].addr = addr THEN kept[n - 1] ELSE Append(kept[n - 1], bps[n])
    IN  kept[Len(bps)]
DeletedAt(addr) == IF addr = -1 THEN breakpoints ELSE Without(breakpoints, addr)

ddbg_add_breakpoint ==
    /\ Len(breakpoints) < MAX_BREAKPOINTS
    /\ \E place \in Places : Breakpoints(AddedAt(AddAddress(place)))
ddbg_add_breakpoint_identifier ==
    /\ Len(breakpoints) < MAX_BREAKPOINTS
    /\ \E place \in Places : Breakpoints(AddedAt(ddbg_label_to_address(place[1])))

\* delete looks the place up among the symbols even when it is "memory".
ddbg_delete_breakpoint ==
    \E place \in Places : Breakpoints(DeletedAt(ddbg_file_to_address(place[1], place[2])))
ddbg_delete_breakpoint_identifier ==
    \E place \in Places : Breakpoints(DeletedAt(ddbg_label_to_address(place[1])))

\* The hooks a device registers, then itself.
HooksOf == [clock |-> <<"pre">>, lem1802 |-> <<"sixty", "write", "break">>,
            keyboard |-> <<"post">>, m35fd |-> <<"sixty">>, sped3 |-> <<"sixty">>]

InitDevice(t, dev) ==
    LET put(x, mode) == LET r == vm_hook_register(x.hooks, mode, dev)
                        IN  [x EXCEPT !.hooks = r.table, !.full = @ \/ r.full]
        h == SeqExt!FoldLeft(put, t, HooksOf[dev])
        r == vm_hw_register(h.hw, dev)
    IN  [h EXCEPT !.hw = r.table, !.full = @ \/ r.full]

\* A screen brings its keyboard along; "keyboard" attaches a screen as well.
AttachDevice(t, name) ==
    IF name \in {"lem1802", "keyboard"}
    THEN InitDevice(InitDevice(t, "lem1802"), "keyboard")
    ELSE IF name \in DOMAIN HooksOf THEN InitDevice(t, name) ELSE t

\* A full table halts the machine.
ddbg_attach ==
    /\ Prompt /\ Stays
    /\ \E name \in Devices :
          LET t == AttachDevice([hooks |-> hooks, hw |-> hw, full |-> FALSE], name)
          IN  /\ hooks' = t.hooks /\ hw' = t.hw
              /\ vm' = IF t.full THEN vm_halt(vm) ELSE vm
    /\ Silent /\ UNCHANGED <<phase, raise, call, breakpoints, backtrace, symbols, modules, flash,
                             flash_size, ignore_next_breakpoint, ddbg_return_code>>

\* Commands that only show something.
Inspects(list) ==
    /\ Prompt /\ vm.sleep_cycles <= MAX_OWED
    /\ vm' = list.vm /\ shown' = list.rows
    /\ \/ at' = "prompt"
       \/ LabelUnset(list.rows) /\ at' = "crashed"
    /\ Silent /\ UNCHANGED <<phase, raise, call, hooked, fire, debugger, observers>>

\* Memory is shown up to, but not including, its last cell.
ddbg_dump_ram(start, difference) ==
    LET n == IF difference = 0 THEN 32 ELSE difference IN
    IF start < 0 \/ difference < 0 \/ start + n > W - 1 THEN << >>
    ELSE [k \in 1 .. n |-> start + k - 1]

Disassemble == Inspects(ddbg_disassemble_default(vm))
DisassembleRange == \E r \in Ranges : Inspects(ddbg_disassemble(vm, r[1], r[2]))
InspectMemory ==
    /\ Prompt /\ \E r \in Ranges : shown' = ddbg_dump_ram(r[1], r[2])
    /\ KeepMachine /\ UNCHANGED <<at, hooked, fire, debugger, observers>>
ddbg_backtrace ==
    /\ Prompt /\ shown' = SeqExt!Reverse(backtrace)
    /\ KeepMachine /\ UNCHANGED <<at, hooked, fire, debugger, observers>>
ddbg_breakpoints_list ==
    /\ Prompt /\ shown' = [k \in DOMAIN breakpoints |-> breakpoints[k].addr]
    /\ KeepMachine /\ UNCHANGED <<at, hooked, fire, debugger, observers>>

\* Any other word is looked up among the modules; the first that has it runs
\* its handler, and the machine starts if it is not halted afterwards.
dbg_lua_handle_command ==
    \E k \in DOMAIN modules : \E name \in DOMAIN modules[k].commands :
        LET cs == modules[k].commands[name]
            l == dbg_lua_handle_break(Lua(vm, ignore_next_breakpoint, ddbg_return_code),
                                      LuaCalls(cs))
            failed == \E n \in DOMAIN cs : cs[n].call = "error"
        IN  /\ Prompt /\ shown' = << >>
            /\ \A n \in 1 .. k - 1 : name \notin DOMAIN modules[n].commands
            /\ vm' = [vm EXCEPT !.halted = l.halted]
            /\ ignore_next_breakpoint' = l.ignore /\ ddbg_return_code' = l.code
            /\ at' = IF failed \/ l.halted THEN "prompt" ELSE "run"
            /\ Silent /\ UNCHANGED <<phase, raise, call, hooked, fire, breakpoints, backtrace,
                                     symbols, modules, flash, flash_size, hooks, hw, observers>>

-----------------------------------------------------------------------------

\* ddbg_create_vm: the debugger's hooks come first, so its pre-cycle hook
\* looks at the machine before any device does.
DebuggerHooks == <<"pre", "post", "write", "break", "interrupt", "hardware", "sixty">>
OwnHooks == SeqExt!FoldLeft(LAMBDA t, mode : vm_hook_register(t, mode, "dtdb").table,
                            EmptyTable(HOOK_MAX), DebuggerHooks)

DInit ==
    /\ vm = vm_reset(NoImage) /\ phase = "start" /\ raise = << >> /\ call = NoCall
    /\ wrote = {} /\ event = Quiet
    /\ at = "prompt" /\ hooked = FALSE /\ fire = << >>
    /\ breakpoints = << >> /\ backtrace = << >> /\ symbols = << >>
    /\ \E dir \in ModuleDirs : modules = dbg_lua_init(dir)
    /\ flash = NoImage /\ flash_size = 0
    /\ ignore_next_breakpoint = FALSE /\ ddbg_return_code = "1"
    /\ hooks = OwnHooks /\ hw = EmptyTable(HW_MAX) /\ shown = << >>
    /\ stopped = -1 /\ diverted = FALSE /\ calls = << >> /\ exact = TRUE

DNext ==
    \/ Machine \/ ddbg_precycle_hook \/ ddbg_lua_hooks \/ ddbg_sigint \/ Return
    \/ ddbg_load \/ ddbg_load_symbols \/ ddbg_run_vm("run") \/ ddbg_run_vm("continue")
    \/ ddbg_step_into \/ ddbg_step_over \/ ddbg_attach
    \/ ddbg_add_breakpoint \/ ddbg_add_breakpoint_identifier
    \/ ddbg_delete_breakpoint \/ ddbg_delete_breakpoint_identifier
    \/ Disassemble \/ DisassembleRange \/ InspectMemory
    \/ ddbg_backtrace \/ ddbg_breakpoints_list \/ dbg_lua_handle_command

DSpec == DInit /\ [][DNext]_dvars

-----------------------------------------------------------------------------
(* Properties *)

\* The instruction at a breakpoint runs only when the breakpoint was reported
\* just before, at this very address: the flag that lets the debugger leave a
\* stop is never spent on another breakpoint, over all orders of run, step,
\* next, load, SIGINT and Lua calls.  The one way past a breakpoint is an
\* interrupt that enters its handler there.
NoMissedBreak ==
    [][phase = "exec" /\ phase' = "post" =>
          \/ \A k \in DOMAIN breakpoints : breakpoints[k].addr # vm.pc
          \/ stopped = vm.pc \/ diverted]_dvars

\* The entries of s are among those of t, in order.
Within(s, t) == \E f \in [DOMAIN s -> DOMAIN t] :
                    /\ \A k \in DOMAIN s : t[f[k]] = s[k]
                    /\ \A k, n \in DOMAIN s : k < n => f[k] < f[n]

\* At the prompt the backtrace still holds every call in progress, in order,
\* however often the machine was stopped and resumed inside a call, whatever
\* jumps came between.  What spoils it is told by exact: a jump that was
\* recorded and then skipped, interrupted or rewritten, one that a Lua handler
\* let run from a stop, and a call of anything but a literal.
BacktraceKeepsCalls == Prompt /\ exact => Within(calls, backtrace)

\* next stops behind the instruction it steps over: its breakpoint is the
\* first word after it, except where it miscounts (special opcodes, and
\* operands [register + next word] and PICK).
NextGoesBehind ==
    [][Prompt /\ at' = "next" /\ ~Special(Instruction)
          /\ {Instruction.a, Instruction.b} \cap (NXT_VAL_A .. NXT_VAL_A + 7 \cup {PICK_}) = {}
       => breakpoints'[Len(breakpoints')].addr = (vm.pc + InstrWords(Instruction)) % W]_dvars

\* Looking at a machine, at the prompt or at a stop, changes nothing the
\* program can see, nor where it goes on, although the disassembler borrows
\* PC and SP; only cycles are charged, which run, step and next set to zero.
InspectionKeepsMachine ==
    [][shown' # shown /\ shown' # << >> =>
          /\ vm'.pc = vm.pc /\ vm'.sp = vm.sp /\ vm'.skip = vm.skip
          /\ vm'.ram = vm.ram /\ vm'.registers = vm.registers
          /\ vm'.irq = vm.irq /\ vm'.ex = vm.ex]_dvars
=============================================================================
