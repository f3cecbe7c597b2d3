------------------------------- MODULE DcpuVm -------------------------------
(***************************************************************************)
(* vm_execute and vm_cycle of libdcpu-vm: one machine, its interrupt queue *)
(* and the hooks through which devices act on it.                          *)
(*                                                                         *)
(* A call of vm_cycle is a sequence of steps; phase says where it is:      *)
(*   start  between two calls, in the loop of vm_execute                   *)
(*   sixty  the 60 Hz hooks run          irq   the queue is looked at      *)
(*   pre    the pre-cycle hooks run      rad   radiation may flip a bit    *)
(*   exec   one instruction, or fire     hw    the device of HWI answers   *)
(*   post   the post-cycle hooks run                                       *)
(*   skipping  vm_interrupt steps over the instructions to be skipped      *)
(* Devices are abstract here: a hook phase is entered with a list of       *)
(* messages that the hooks pass to vm_interrupt, in that order.            *)
(***************************************************************************)
EXTENDS DcpuCpu

CONSTANTS
    Memories,     \* memory images vm_flash may load
    HookCalls,    \* lists of messages the hooks of one phase may raise
    HwReplies,    \* what a device may leave in registers B and C on HWI
    Transfers,    \* memory cells and words a device may write by itself
    DUMP_CYCLES,  \* cycles charged for a dump on HWI: 256 or 16
    DEBUGGER,     \* the debugger's pre-cycle hook is registered
    RADIATION,    \* radiation was switched on
    FLIPS,        \* cells and bits it may flip: every cell, all bits but the top one
    CAN_FIRE,     \* can_fire was switched on
    FIRE_CELLS,   \* screen cells that burn: 0x1000 .. 0x12ff and a tail
    FIRE_FONT,    \* where vm_op_fire maps the screen's font: 0x1000 + 0x17F
    SCREEN,       \* a LEM1802 is among the devices
    FIRE_FILLS,   \* values rand() may burn into a cell
    FIRE_TICKS    \* cycles between two burns: DCPU_TICKS_KHZ * 1000

ASSUME MemoryAssumption == Memories \subseteq [Word -> Word]
ASSUME HookAssumption == HookCalls \subseteq Seq(Word)
ASSUME ReplyAssumption == HwReplies \subseteq [{REG_B, REG_C} -> Word]
ASSUME TransferAssumption ==
    /\ \A t \in Transfers : \A x \in DOMAIN t : t[x] \in Word
    /\ DUMP_CYCLES \in Nat
ASSUME FireAssumption ==
    /\ FIRE_CELLS \subseteq Word /\ FIRE_FILLS \subseteq Word
    /\ FIRE_FONT \in Word /\ FIRE_TICKS \in Nat
ASSUME RadiationAssumption ==
    FLIPS \subseteq Word \X (0 .. BITS - 2) /\ \A bit \in 0 .. BITS - 2 : 2^bit \in Word
ASSUME SwitchAssumption ==
    << >> \in HookCalls /\ {DEBUGGER, RADIATION, CAN_FIRE, SCREEN} \subseteq BOOLEAN

VARIABLES
    vm,        \* the machine, struct vm
    phase,     \* where vm_cycle is
    raise,     \* messages the running hooks have yet to pass to vm_interrupt
    call,      \* locals of a vm_interrupt that is skipping instructions
    wrote,     \* cells HOOK_ON_WRITE was told of in the last step
    event      \* what the last step did with an interrupt

vars == <<vm, phase, raise, call, wrote, event>>

HookPhase == {"sixty", "pre", "hw", "post"}
Phase == HookPhase \cup {"start", "irq", "rad", "exec", "skipping"}
NoCall == [msg |-> 0, pc |-> 0, ret |-> "start"]
Event(kind, m) == [kind |-> kind, msg |-> m]
Quiet == Event("none", 0)

Init ==
    /\ \E mem \in Memories : vm = vm_reset(mem)
    /\ phase = "start" /\ raise = << >> /\ call = NoCall
    /\ wrote = {} /\ event = Quiet

-----------------------------------------------------------------------------
(* vm_interrupt *)

\* Mutant: queueing is not turned on.
Enter_NoQueueing(v, m, pc) ==
    [Push(Push(v, pc), v.registers[REG_A]) EXCEPT
        !.registers[REG_A] = m, !.pc = v.ia]

\* Push pc and A, load the message and jump to the handler.
Enter(v, m, pc) ==
    [Push(Push(v, pc), v.registers[REG_A]) EXCEPT
        !.registers[REG_A] = m, !.pc = v.ia, !.queue_interrupts = TRUE]

\* Mutant: one message too many.
QueueMsg_OffByOne(v, m) ==
    IF Len(v.irq) > INTERRUPT_MAX THEN vm_halt(v)
    ELSE [v EXCEPT !.irq = Append(@, m)]

QueueMsg(v, m) ==
    IF Len(v.irq) >= INTERRUPT_MAX THEN vm_halt(v)
    ELSE [v EXCEPT !.irq = Append(@, m)]

\* vm_interrupt(m) called on machine v, after which the caller goes on at ret.
vm_interrupt(v, m, ret) ==
    \/ /\ v.queue_interrupts
       /\ vm' = QueueMsg(v, m) /\ phase' = ret /\ UNCHANGED call
       /\ event' = Event(IF vm'.irq = v.irq THEN "overflow" ELSE "queue", m)
    \/ /\ ~v.queue_interrupts /\ v.ia = 0
       /\ vm' = v /\ phase' = ret /\ UNCHANGED call
       /\ event' = Event("ignore", m)
    \/ /\ ~v.queue_interrupts /\ v.ia # 0 /\ ~v.skip
       /\ vm' = Enter(v, m, v.pc) /\ phase' = ret /\ UNCHANGED call
       /\ event' = Event("deliver", m)
    \/ /\ ~v.queue_interrupts /\ v.ia # 0 /\ v.skip
       /\ vm' = v /\ phase' = "skipping"
       /\ call' = [msg |-> m, pc |-> v.pc, ret |-> ret]
       /\ event' = Quiet

\* Mutant: the first turn of the loop clears skip.
SkipOne_ClearsEarly ==
    LET i == Decode[vm.ram[vm.pc]] IN
    /\ phase = "skipping"
    /\ IF i.op \in Branch
       THEN /\ vm' = Skipped(vm_consume_word(vm)) /\ event' = Quiet
            /\ UNCHANGED <<phase, call>>
       ELSE /\ vm' = Enter(Skipped(vm), call.msg, call.pc)
            /\ phase' = call.ret /\ call' = NoCall
            /\ event' = Event("deliver", call.msg)
    /\ wrote' = {} /\ UNCHANGED raise

\* One turn of the while loop that steps over a chain of branches and the
\* instruction after it; the pc that is pushed was saved before the loop.
SkipOne ==
    LET i == Decode[vm.ram[vm.pc]]
        v == [ResolveStep(ResolveStep(vm_consume_word(vm), i.a, "A"), i.b, "B")
                 EXCEPT !.sleep_cycles = @ + 1]
    IN  /\ phase = "skipping"
        /\ IF i.op \in Branch
           THEN /\ vm' = v /\ event' = Quiet
                /\ UNCHANGED <<phase, call>>
           ELSE /\ vm' = Enter(Skipped(v), call.msg, call.pc)
                /\ phase' = call.ret /\ call' = NoCall
                /\ event' = Event("deliver", call.msg)
        /\ wrote' = {} /\ UNCHANGED raise

-----------------------------------------------------------------------------
(* The steps of vm_cycle around the instruction *)

Running == ~vm.halted /\ ~vm.exit

Silent == wrote' = {} /\ event' = Quiet

\* A sleeping machine only counts down: no hook runs.
Sleep ==
    /\ phase = "start" /\ Running /\ vm.sleep_cycles > 0
    /\ vm' = [vm EXCEPT !.sleep_cycles = @ - 1]
    /\ Silent /\ UNCHANGED <<phase, raise, call>>

\* The clock decides whether this cycle runs the 60 Hz hooks.
Wake ==
    /\ phase = "start" /\ Running /\ vm.sleep_cycles = 0
    /\ \/ phase' = "sixty" /\ raise' \in HookCalls
       \/ phase' = "irq" /\ raise' = << >>
    /\ Silent /\ UNCHANGED <<vm, call>>

\* A hook passes its next message to vm_interrupt.
HookRaise ==
    /\ phase \in HookPhase /\ raise # << >>
    /\ vm_interrupt(vm, Head(raise), phase)
    /\ raise' = Tail(raise) /\ wrote' = {}

\* A hook of the debugger stopped the machine before the instruction.
HookHalt ==
    /\ DEBUGGER /\ phase = "pre" /\ ~vm.halted
    /\ vm' = vm_halt(vm)
    /\ Silent /\ UNCHANGED <<phase, raise, call>>

\* A device copies words into memory; the write hook is not told.
Overlay(mem, t) == [x \in Word |-> IF x \in DOMAIN t THEN t[x] ELSE mem[x]]

\* The disk drive's 60 Hz hook finishes a read.
DiskRead ==
    /\ phase = "sixty" /\ \E t \in Transfers : vm' = [vm EXCEPT !.ram = Overlay(@, t)]
    /\ Silent /\ UNCHANGED <<phase, raise, call>>

\* The screen's 60 Hz hook found its window closed.
WindowClosed ==
    /\ phase = "sixty" /\ raise = << >> /\ ~vm.exit
    /\ vm' = [vm EXCEPT !.exit = TRUE]
    /\ Silent /\ UNCHANGED <<phase, raise, call>>

SixtyDone ==
    /\ phase = "sixty" /\ raise = << >> /\ phase' = "irq"
    /\ Silent /\ UNCHANGED <<vm, raise, call>>

\* Mutants: the message stays in the queue; the newest one is taken.
Dequeue_Keeps ==
    /\ phase = "irq" /\ ~vm.queue_interrupts /\ vm.irq # << >>
    /\ vm_interrupt(vm, Head(vm.irq), "pre")
    /\ raise' \in HookCalls /\ wrote' = {}

Dequeue_Newest ==
    /\ phase = "irq" /\ ~vm.queue_interrupts /\ vm.irq # << >>
    /\ vm_interrupt([vm EXCEPT !.irq = SubSeq(@, 1, Len(@) - 1)],
                    vm.irq[Len(vm.irq)], "pre")
    /\ raise' \in HookCalls /\ wrote' = {}

\* The oldest queued message leaves the queue before it is delivered; the
\* pre-cycle hooks run next whether or not there was one.
Dequeue ==
    /\ phase = "irq" /\ ~vm.queue_interrupts /\ vm.irq # << >>
    /\ vm_interrupt([vm EXCEPT !.irq = Tail(@)], Head(vm.irq), "pre")
    /\ raise' \in HookCalls /\ wrote' = {}

\* Mutant: a single waiting message is not looked at.
NothingQueued_Single ==
    /\ phase = "irq" /\ (vm.queue_interrupts \/ Len(vm.irq) <= 1)
    /\ phase' = "pre" /\ raise' \in HookCalls
    /\ Silent /\ UNCHANGED <<vm, call>>

NothingQueued ==
    /\ phase = "irq" /\ (vm.queue_interrupts \/ vm.irq = << >>)
    /\ phase' = "pre" /\ raise' \in HookCalls
    /\ Silent /\ UNCHANGED <<vm, call>>

\* Mutant: no test of halted after the pre-cycle hooks.
PreDone_NoHaltTest ==
    /\ phase = "pre" /\ raise = << >>
    /\ phase' = IF RADIATION /\ ~vm.on_fire THEN "rad" ELSE "exec"
    /\ Silent /\ UNCHANGED <<vm, raise, call>>

PreDone ==
    /\ phase = "pre" /\ raise = << >>
    /\ phase' = IF vm.halted THEN "start"
                ELSE IF RADIATION /\ ~vm.on_fire THEN "rad" ELSE "exec"
    /\ Silent /\ UNCHANGED <<vm, raise, call>>

\* vm_op_radiation: most cycles nothing, sometimes one of the lower bits of
\* one cell flips.
Radiation ==
    /\ phase = "rad" /\ phase' = "exec"
    /\ \/ vm' = vm /\ wrote' = {}
       \/ \E flip \in FLIPS :
             /\ vm' = [vm EXCEPT !.ram[flip[1]] = BitXor(@, 2^flip[2])]
             /\ wrote' = {flip[1]}
    /\ event' = Quiet /\ UNCHANGED <<raise, call>>

\* vm_op_fire returns from vm_cycle without running the post-cycle hooks.
\* The first burn maps a screen to the burning cells, through A and B.
FireWait ==
    /\ phase = "exec" /\ vm.on_fire /\ vm.fire_wait > 0
    /\ vm' = [vm EXCEPT !.fire_wait = @ - 1]
    /\ phase' = "start" /\ Silent /\ UNCHANGED <<raise, call>>

MapScreen(v) ==
    IF SCREEN /\ ~v.screen_mapped
    THEN [v EXCEPT !.screen_mapped = TRUE,
                   !.registers[REG_A] = 1, !.registers[REG_B] = FIRE_FONT]
    ELSE v

\* Mutant: burning cells are not reported.
FireBurn_Unreported ==
    /\ phase = "exec" /\ vm.on_fire /\ vm.fire_wait = 0
    /\ \E fill \in [FIRE_CELLS -> FIRE_FILLS] :
          vm' = [MapScreen(vm) EXCEPT
                    !.fire_wait = FIRE_TICKS,
                    !.ram = [x \in Word |-> IF x \in FIRE_CELLS
                                            THEN fill[x] ELSE vm.ram[x]]]
    /\ Silent
    /\ phase' = "start" /\ UNCHANGED <<raise, call>>

FireBurn ==
    /\ phase = "exec" /\ vm.on_fire /\ vm.fire_wait = 0
    /\ \E fill \in [FIRE_CELLS -> FIRE_FILLS] :
          vm' = [MapScreen(vm) EXCEPT
                    !.fire_wait = FIRE_TICKS,
                    !.ram = [x \in Word |-> IF x \in FIRE_CELLS
                                            THEN fill[x] ELSE vm.ram[x]]]
    /\ wrote' = FIRE_CELLS /\ event' = Quiet
    /\ phase' = "start" /\ UNCHANGED <<raise, call>>

PostDone ==
    /\ phase = "post" /\ raise = << >> /\ phase' = "start"
    /\ Silent /\ UNCHANGED <<vm, raise, call>>

-----------------------------------------------------------------------------
(* The instruction *)

Instruction == Decode[vm.ram[vm.pc]]
Fetched == vm_consume_word(vm)

Executes(ops) == phase = "exec" /\ ~vm.on_fire /\ Instruction.op \in ops

\* The instruction left machine v and told the write hook of the cells in
\* hooked; the post-cycle hooks run next.
Retire(v, hooked) ==
    /\ vm' = v /\ wrote' = hooked /\ event' = Quiet
    /\ phase' = "post" /\ raise' \in HookCalls /\ UNCHANGED call

StoredB == IF vm.skip THEN {} ELSE HookedBy(LocB(Fetched, Instruction))
\* Mutant: a store through operand a is not reported.
StoredA_Unreported == {}

StoredA == IF vm.skip THEN {}
           ELSE HookedBy(vm_internal_get_store(Fetched, Instruction.a, "A"))

ExecSet == Executes({"SET"}) /\ Retire(vm_op_set(Fetched, Instruction), StoredB)
ExecArithmetic == Executes(Arith) /\ Retire(vm_op_arith(Fetched, Instruction), StoredB)
ExecIf == Executes(Branch) /\ Retire(vm_op_if(Fetched, Instruction), {})
ExecSetMove == Executes({"STI", "STD"})
           /\ Retire(vm_op_sti(Fetched, Instruction), StoredB)
ExecJsr == Executes({"JSR"}) /\ Retire(vm_op_jsr(Fetched, Instruction), {})
ExecIag == Executes({"IAG"}) /\ Retire(vm_op_iag(Fetched, Instruction), StoredA)
ExecIas == Executes({"IAS"}) /\ Retire(vm_op_ias(Fetched, Instruction), {})
ExecIaq == Executes({"IAQ"}) /\ Retire(vm_op_iaq(Fetched, Instruction), {})
ExecHwn == Executes({"HWN"}) /\ Retire(vm_op_hwn(Fetched, Instruction), StoredA)
ExecHwq == Executes({"HWQ"}) /\ Retire(vm_op_hwq(Fetched, Instruction), {})

ExecRfi ==
    /\ Executes({"RFI"})
    /\ vm' = vm_op_rfi(Fetched, Instruction) /\ wrote' = {}
    /\ event' = IF vm.skip THEN Quiet ELSE Event("return", 0)
    /\ phase' = "post" /\ raise' \in HookCalls /\ UNCHANGED call

\* vm_op_int has no skip test: it calls vm_interrupt even when skipped.
ExecInt ==
    /\ Executes({"INT"})
    /\ vm_interrupt(Read1(Fetched, Instruction), ValA(Fetched, Instruction), "post")
    /\ raise' \in HookCalls /\ wrote' = {}

\* What a device does to machine v while HWI runs: it answers in B and C, or
\* dumps a table into memory.
HwAnswer(v, x, rs) ==
    [v EXCEPT !.registers = [r \in Reg |-> IF r \in rs THEN x[r] ELSE @[r]]]
HwDump(v, t) ==
    [v EXCEPT !.ram = Overlay(@, t), !.sleep_cycles = @ + DUMP_CYCLES]

\* vm_op_hwi: the device runs inside the instruction and may raise interrupts
\* before the post-cycle hooks run.
ExecHwi ==
    LET v == Read1(Fetched, Instruction)
        present == ValA(Fetched, Instruction) < Len(HwTable)
    IN  /\ Executes({"HWI"})
        /\ IF vm.skip \/ ~present
           THEN Retire(IF vm.skip THEN Skipped(v) ELSE v, {})
           ELSE /\ \/ vm' = v
                   \/ \E x \in HwReplies, rs \in SUBSET {REG_B, REG_C} :
                          vm' = HwAnswer(v, x, rs)
                   \/ \E t \in Transfers : vm' = HwDump(v, t)
                /\ phase' = "hw" /\ raise' \in HookCalls
                /\ Silent /\ UNCHANGED call

HwDone ==
    /\ phase = "hw" /\ raise = << >>
    /\ phase' = "post" /\ raise' \in HookCalls
    /\ Silent /\ UNCHANGED <<vm, call>>

\* An opcode vm_cycle does not know, skipped or not.
ExecInvalid ==
    /\ Executes({"INVALID"})
    /\ Retire(IF CAN_FIRE THEN [Fetched EXCEPT !.on_fire = TRUE]
              ELSE vm_halt(Fetched), {})

Execute == \/ ExecSet \/ ExecArithmetic \/ ExecIf \/ ExecSetMove \/ ExecJsr
           \/ ExecInt \/ ExecIag \/ ExecIas \/ ExecRfi \/ ExecIaq
           \/ ExecHwn \/ ExecHwq \/ ExecHwi \/ ExecInvalid

Next == \/ Sleep \/ Wake \/ HookRaise \/ HookHalt \/ DiskRead \/ WindowClosed
        \/ SixtyDone \/ Dequeue
        \/ NothingQueued \/ SkipOne \/ PreDone \/ Radiation \/ FireWait
        \/ FireBurn \/ Execute \/ HwDone \/ PostDone

Spec == Init /\ [][Next]_vars

\* vm_execute calls vm_cycle again and again until the machine stops.
FairSpec == Spec /\ WF_vars(Next)

-----------------------------------------------------------------------------
(* Properties *)

\* Every field of the machine keeps its C type, and vm_cycle is in a phase.
TypeOK ==
    /\ vm \in VmState
    /\ phase \in Phase
    /\ raise \in Seq(Word)
    /\ call \in [msg : Word, pc : Word, ret : HookPhase \cup {"start"}]
    /\ wrote \subseteq Word
    /\ event \in [kind : {"none", "queue", "overflow", "ignore", "deliver", "return"},
                  msg : Word]

\* The interrupt queue never holds more than INTERRUPT_MAX messages (irq has
\* one cell more), whoever calls vm_interrupt and in whatever phase.
QueueBounded == Len(vm.irq) <= INTERRUPT_MAX

\* A machine that a hook halted, or that ran out of queue, executes nothing
\* more in that cycle or later: the halted test after the pre-cycle hooks and
\* the loop of vm_execute between them stop every path to an instruction.
HaltedExecutesNothing == phase \in {"rad", "exec"} => ~vm.halted

\* vm_interrupt saves its caller's place: while it steps over instructions
\* the machine still owes the skip, the queue is off and a handler is set,
\* so the message cannot be lost between the test and the jump.
SkippingIsCommitted ==
    phase = "skipping" => vm.skip /\ ~vm.queue_interrupts /\ vm.ia # 0

\* Words the assembler emits for an instruction.
InstrWords(i) ==
    LET extra(x) == IF IndexedOperand(x) \/ x = NXT_LIT THEN 1 ELSE 0
        basic == i.op \in Branch \cup Arith \cup {"SET", "STI", "STD"}
    IN  1 + extra(i.a) + (IF basic THEN extra(i.b) ELSE 0)

\* What the running program can see of the machine, its PC apart.
ProgramView(v) == <<v.registers, v.sp, v.ex, v.ia, v.ram, v.irq,
                    v.queue_interrupts, v.halted>>

\* An instruction met with skip set is passed over: PC moves past all of its
\* words, skipping ends unless it was a branch, and nothing else of the
\* program's state changes.
PassesOver ==
    /\ vm'.skip <=> Instruction.op \in Branch
    /\ ProgramView(vm') = ProgramView(vm)
    /\ vm'.pc = (vm.pc + InstrWords(Instruction)) % W
    /\ wrote' = {}

\* "Don't modify the state of the program if we're skipping": it holds for
\* every valid opcode except INT.
SkipIsPure ==
    [][Execute /\ vm.skip /\ Instruction.op \notin {"INT", "INVALID"} => PassesOver]_vars

\* The machine's view of the abstract interrupt queue.
Q == INSTANCE InterruptQueue WITH
        Message <- Word, Capacity <- INTERRUPT_MAX,
        queueing <- vm.queue_interrupts, waiting <- vm.irq,
        armed <- vm.ia # 0, entering <- phase = "skipping",
        stopped <- vm.halted

\* The machine implements the abstract interrupt queue: messages wait in
\* arrival order, leave from the head, enter the handler one at a time and
\* never get past a handler that runs, whichever phase of vm_cycle raises them.
ImplementsQueue == Q!QSpec

\* Every store a program, fire or radiation makes in memory is reported to the
\* write hook (a screen redraws only what it is told of); only the pushes of
\* JSR and of vm_interrupt and what devices write themselves are not.
Pushed == IF event'.kind = "deliver" THEN {vm'.sp, Inc(vm'.sp)}
          ELSE IF Executes({"JSR"}) THEN {vm'.sp} ELSE {}
DeviceStep == phase = "sixty" \/ Executes({"HWI"})
StoresAreHooked ==
    [][\A x \in Word : vm'.ram[x] # vm.ram[x] =>
          x \in wrote' \cup Pushed \/ (DeviceStep /\ Transfers # {})]_vars

\* If devices eventually fall silent, the queue drains: each RFI lets the next
\* queued message in, unless the machine stops.
QueueDrains ==
    <>[](raise = << >>) =>
        ((vm.irq # << >>) ~> (vm.irq = << >> \/ ~Running))
=============================================================================
