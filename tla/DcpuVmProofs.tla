---------------------------- MODULE DcpuVmProofs ----------------------------
(***************************************************************************)
(* Theorems about DcpuVm for every word size, queue capacity, program and  *)
(* set of devices: the machine keeps its types, the queue its bound, a     *)
(* halted machine executes nothing, the machine implements the abstract    *)
(* interrupt queue, stores reach the write hook and skipped instructions   *)
(* change nothing.                                                         *)
(***************************************************************************)
EXTENDS DcpuVm, DcpuCpuProofs

\* What every step preserves, also when somebody halts the machine from
\* outside.  QueueBounded needs the types; SkippingIsCommitted is what makes
\* leaving the skip loop an Entered step of the abstract queue.
WellFormed == TypeOK /\ QueueBounded /\ SkippingIsCommitted

\* The inductive invariant of a machine on its own.
Inv == WellFormed /\ HaltedExecutesNothing

-----------------------------------------------------------------------------
(* The parts of vm_interrupt *)

\* Entering a handler: the queue, the handler address and the halted flag
\* stay, queueing goes on.
LEMMA EnterType ==
    ASSUME NEW v \in VmState, NEW m \in Word, NEW pc \in Word
    PROVE  /\ Enter(v, m, pc) \in VmState
           /\ Enter(v, m, pc).irq = v.irq /\ Enter(v, m, pc).ia = v.ia
           /\ Enter(v, m, pc).halted = v.halted
           /\ Enter(v, m, pc).queue_interrupts = TRUE
  <1> DEFINE p == Push(v, pc)
             q == Push(p, v.registers[REG_A])
             regs == [q.registers EXCEPT ![REG_A] = m]
             s == [q EXCEPT !.registers = regs]
             t == [s EXCEPT !.pc = v.ia]
             u == [t EXCEPT !.queue_interrupts = TRUE]
  <1>1. v.registers[REG_A] \in Word /\ v.ia \in Word
    BY DEF VmState, Reg, REG_A
  <1>2. p \in VmState /\ Control(p) = Control(v)
    BY PushType
  <1>3. q \in VmState /\ Control(q) = Control(v)
    BY <1>1, <1>2, PushType
  <1>4. Enter(v, m, pc) = u
    <2>1. Enter(v, m, pc) = [q EXCEPT !.registers[REG_A] = m, !.pc = v.ia,
                                      !.queue_interrupts = TRUE]
      BY DEF Enter
    <2> HIDE DEF q
    <2>2. [q EXCEPT !.registers[REG_A] = m, !.pc = v.ia, !.queue_interrupts = TRUE] = u
      BY <1>3 DEF VmState
    <2> QED BY <2>1, <2>2
  <1> HIDE DEF p, q
  <1>5. regs \in [Reg -> Word]
    BY <1>3 DEF VmState, Reg, REG_A
  <1> HIDE DEF regs
  <1>6. s \in VmState
    BY <1>3, <1>5, UpdateType
  <1>7. Control(s) = Control(v)
    BY <1>3 DEF VmState, Control
  <1> HIDE DEF s
  <1>8. t \in VmState
    BY <1>1, <1>6, UpdateType
  <1>9. Control(t) = Control(v)
    BY <1>6, <1>7 DEF VmState, Control
  <1> HIDE DEF t
  <1>10. u \in VmState
    BY <1>8, UpdateType
  <1>11. /\ u.irq = v.irq /\ u.ia = v.ia /\ u.halted = v.halted
         /\ u.queue_interrupts = TRUE
    BY <1>8, <1>9 DEF VmState, Control
  <1> QED BY <1>4, <1>10, <1>11

\* Queueing a message appends it, or halts the machine when the queue is full.
LEMMA QueueMsgType ==
    ASSUME NEW v \in VmState, NEW m \in Word, Len(v.irq) <= INTERRUPT_MAX
    PROVE  /\ QueueMsg(v, m) \in VmState
           /\ Len(QueueMsg(v, m).irq) <= INTERRUPT_MAX
           /\ QueueMsg(v, m).queue_interrupts = v.queue_interrupts
           /\ QueueMsg(v, m).ia = v.ia
           /\ \/ /\ Len(v.irq) < INTERRUPT_MAX
                 /\ QueueMsg(v, m).irq = Append(v.irq, m)
                 /\ QueueMsg(v, m).halted = v.halted
              \/ /\ Len(v.irq) = INTERRUPT_MAX
                 /\ QueueMsg(v, m).irq = v.irq
                 /\ QueueMsg(v, m).halted = TRUE
  <1>1. v.irq \in Seq(Word) /\ INTERRUPT_MAX \in Nat /\ Len(v.irq) \in Nat
    BY QueueAssumption DEF VmState
  <1>2. Append(v.irq, m) \in Seq(Word) /\ Len(Append(v.irq, m)) = Len(v.irq) + 1
    BY <1>1
  <1>3. CASE Len(v.irq) >= INTERRUPT_MAX
    <2>1. QueueMsg(v, m) = [v EXCEPT !.halted = TRUE]
      BY <1>3 DEF QueueMsg, vm_halt
    <2>2. QueueMsg(v, m) \in VmState
      BY <2>1, UpdateType
    <2>3. Len(v.irq) = INTERRUPT_MAX
      BY <1>1, <1>3
    <2> QED BY <2>1, <2>2, <2>3 DEF VmState
  <1>4. CASE ~(Len(v.irq) >= INTERRUPT_MAX)
    <2>1. QueueMsg(v, m) = [v EXCEPT !.irq = Append(v.irq, m)]
      BY <1>4 DEF QueueMsg
    <2>2. QueueMsg(v, m) \in VmState
      BY <1>2, <2>1, UpdateType
    <2>3. Len(v.irq) < INTERRUPT_MAX /\ Len(Append(v.irq, m)) <= INTERRUPT_MAX
      BY <1>1, <1>2, <1>4
    <2> QED BY <2>1, <2>2, <2>3 DEF VmState
  <1> QED BY <1>3, <1>4

Kinds == {"none", "queue", "overflow", "ignore", "deliver", "return"}

\* Whoever calls vm_interrupt, on a well-formed machine: the message is
\* queued, refused, ignored or delivered, or the call is left skipping.
LEMMA InterruptType ==
    ASSUME NEW v \in VmState, NEW m \in Word, NEW ret \in HookPhase \cup {"start"},
           Len(v.irq) <= INTERRUPT_MAX,
           call \in [msg : Word, pc : Word, ret : HookPhase \cup {"start"}],
           vm_interrupt(v, m, ret)
    PROVE  /\ vm' \in VmState /\ Len(vm'.irq) <= INTERRUPT_MAX
           /\ phase' \in {ret, "skipping"}
           /\ call' \in [msg : Word, pc : Word, ret : HookPhase \cup {"start"}]
           /\ event' \in [kind : Kinds, msg : Word]
           /\ phase' = "skipping" => vm'.skip /\ ~vm'.queue_interrupts /\ vm'.ia # 0
  <1>0. v.pc \in Word /\ 0 \in Word
    BY WordArithmetic DEF VmState
  <1>1. ret # "skipping"
    BY DEF HookPhase
  <1>2. \A k \in Kinds, x \in Word : Event(k, x) \in [kind : Kinds, msg : Word]
    BY DEF Event
  <1>3. CASE /\ v.queue_interrupts
             /\ vm' = QueueMsg(v, m) /\ phase' = ret /\ UNCHANGED call
             /\ event' = Event(IF vm'.irq = v.irq THEN "overflow" ELSE "queue", m)
    <2>1. vm' \in VmState /\ Len(vm'.irq) <= INTERRUPT_MAX
      BY <1>3, QueueMsgType
    <2>2. event' \in [kind : Kinds, msg : Word]
      BY <1>2, <1>3 DEF Kinds
    <2> QED BY <1>1, <1>3, <2>1, <2>2
  <1>4. CASE /\ ~v.queue_interrupts /\ v.ia = 0
             /\ vm' = v /\ phase' = ret /\ UNCHANGED call
             /\ event' = Event("ignore", m)
    BY <1>1, <1>2, <1>4 DEF Kinds
  <1>5. CASE /\ ~v.queue_interrupts /\ v.ia # 0 /\ ~v.skip
             /\ vm' = Enter(v, m, v.pc) /\ phase' = ret /\ UNCHANGED call
             /\ event' = Event("deliver", m)
    <2>0. Enter(v, m, v.pc) \in VmState /\ Enter(v, m, v.pc).irq = v.irq
      BY <1>0, EnterType
    <2>1. vm' \in VmState /\ vm'.irq = v.irq
      BY <1>5, <2>0, Zenon
    <2>2. event' \in [kind : Kinds, msg : Word]
      BY <1>2, <1>5 DEF Kinds
    <2> QED BY <1>1, <1>5, <2>1, <2>2
  <1>6. CASE /\ ~v.queue_interrupts /\ v.ia # 0 /\ v.skip
             /\ vm' = v /\ phase' = "skipping"
             /\ call' = [msg |-> m, pc |-> v.pc, ret |-> ret]
             /\ event' = Quiet
    BY <1>0, <1>2, <1>6 DEF Kinds, Quiet
  <1> QED BY <1>3, <1>4, <1>5, <1>6 DEF vm_interrupt

-----------------------------------------------------------------------------
(* The invariant *)

\* What a step must establish: the machine's type and queue bound, the types
\* of the other variables, and the claim about the skip loop.
LEMMA WellFormedParts ==
    WellFormed <=> /\ vm \in VmState /\ phase \in Phase /\ raise \in Seq(Word)
                   /\ call \in [msg : Word, pc : Word, ret : HookPhase \cup {"start"}]
                   /\ wrote \subseteq Word /\ event \in [kind : Kinds, msg : Word]
                   /\ Len(vm.irq) <= INTERRUPT_MAX
                   /\ phase = "skipping" => vm.skip /\ ~vm.queue_interrupts /\ vm.ia # 0
  BY DEF WellFormed, TypeOK, QueueBounded, SkippingIsCommitted, Kinds

\* The same for the state after a step.
LEMMA WellFormedPartsNext ==
    WellFormed' <=> /\ vm' \in VmState /\ phase' \in Phase /\ raise' \in Seq(Word)
                    /\ call' \in [msg : Word, pc : Word, ret : HookPhase \cup {"start"}]
                    /\ wrote' \subseteq Word /\ event' \in [kind : Kinds, msg : Word]
                    /\ Len(vm'.irq) <= INTERRUPT_MAX
                    /\ phase' = "skipping" => vm'.skip /\ ~vm'.queue_interrupts /\ vm'.ia # 0
  BY DEF WellFormed, TypeOK, QueueBounded, SkippingIsCommitted, Kinds

\* A machine on its own: the same, and a halted machine executes nothing.
LEMMA InvParts ==
    Inv <=> /\ vm \in VmState /\ phase \in Phase /\ raise \in Seq(Word)
            /\ call \in [msg : Word, pc : Word, ret : HookPhase \cup {"start"}]
            /\ wrote \subseteq Word /\ event \in [kind : Kinds, msg : Word]
            /\ Len(vm.irq) <= INTERRUPT_MAX
            /\ phase \in {"rad", "exec"} => ~vm.halted
            /\ phase = "skipping" => vm.skip /\ ~vm.queue_interrupts /\ vm.ia # 0
  BY DEF Inv, WellFormed, TypeOK, QueueBounded, HaltedExecutesNothing, SkippingIsCommitted, Kinds

LEMMA InvPartsNext ==
    Inv' <=> /\ vm' \in VmState /\ phase' \in Phase /\ raise' \in Seq(Word)
             /\ call' \in [msg : Word, pc : Word, ret : HookPhase \cup {"start"}]
             /\ wrote' \subseteq Word /\ event' \in [kind : Kinds, msg : Word]
             /\ Len(vm'.irq) <= INTERRUPT_MAX
             /\ phase' \in {"rad", "exec"} => ~vm'.halted
             /\ phase' = "skipping" => vm'.skip /\ ~vm'.queue_interrupts /\ vm'.ia # 0
  BY DEF Inv, WellFormed, TypeOK, QueueBounded, HaltedExecutesNothing, SkippingIsCommitted, Kinds

\* The reset machine satisfies it, whatever memory was flashed.
LEMMA InitInv == Init => Inv
  <1> SUFFICES ASSUME Init PROVE Inv
    OBVIOUS
  <1>1. PICK mem \in Memories : vm = vm_reset(mem)
    BY DEF Init
  <1>2. mem \in [Word -> Word] /\ 0 \in Word
    BY MemoryAssumption, WordArithmetic
  <1>3. [r \in Reg |-> 0] \in [Reg -> Word]
    BY <1>2
  <1>4. vm \in VmState
    BY <1>1, <1>2, <1>3 DEF vm_reset, VmState
  <1>5. vm.irq = << >> /\ Len(vm.irq) <= INTERRUPT_MAX
    BY <1>1, QueueAssumption DEF vm_reset
  <1>6. /\ phase = "start" /\ raise = << >> /\ wrote = {}
        /\ call = [msg |-> 0, pc |-> 0, ret |-> "start"]
        /\ event = [kind |-> "none", msg |-> 0]
    BY DEF Init, NoCall, Quiet, Event
  <1> QED BY <1>2, <1>4, <1>5, <1>6, InvParts DEF Phase, Kinds

\* The instruction at PC and the machine that fetched it.
LEMMA FetchType ==
    ASSUME vm \in VmState
    PROVE  /\ Instruction \in Instr
           /\ Fetched \in VmState /\ Control(Fetched) = Control(vm)
           /\ Fetched.skip = vm.skip
  <1>1. vm.ram[vm.pc] \in Word
    BY DEF VmState
  <1>2. Instruction \in Instr
    BY <1>1, DecodeAssumption DEF Instruction, Instr
  <1>3. Fetched \in VmState
    BY ConsumeType DEF Fetched
  <1> QED BY <1>2, <1>3 DEF Fetched, vm_consume_word, Control, VmState

\* The cells reported to the write hook are memory cells.
LEMMA HookedType ==
    ASSUME vm \in VmState
    PROVE  StoredA \subseteq Word /\ StoredB \subseteq Word
  <1>1. \A l \in Location : HookedBy(l) \subseteq Word
    BY DEF HookedBy, Location
  <1>2. Instruction \in Instr /\ Fetched \in VmState /\ Instruction.a \in Operand
    BY FetchType DEF Instr
  <1>3. LocB(Fetched, Instruction) \in Location
    BY <1>2, ReadType
  <1>4. vm_internal_get_store(Fetched, Instruction.a, "A") \in Location
    BY <1>2, GetStoreType
  <1> QED BY <1>1, <1>3, <1>4 DEF StoredA, StoredB

\* An instruction that leaves a well-formed machine and does not touch the
\* queue preserves the invariant: it ends in the post phase.
LEMMA RetireInv ==
    ASSUME WellFormed, NEW v \in VmState, v.irq = vm.irq,
           NEW hooked \in SUBSET Word, Retire(v, hooked)
    PROVE  WellFormed'
  <1>1. /\ vm' = v /\ wrote' = hooked /\ event' = [kind |-> "none", msg |-> 0]
        /\ phase' = "post" /\ raise' \in HookCalls /\ call' = call
    BY DEF Retire, Quiet, Event
  <1>2. raise' \in Seq(Word) /\ 0 \in Word
    BY <1>1, HookAssumption, WordArithmetic
  <1> QED BY <1>1, <1>2, WellFormedParts, WellFormedPartsNext DEF Phase, HookPhase, Kinds

\* A step that calls vm_interrupt on a machine whose queue is no longer than
\* the queue was preserves the invariant.
LEMMA CallInv ==
    ASSUME WellFormed, NEW v \in VmState, NEW m \in Word, NEW ret \in HookPhase,
           Len(v.irq) <= INTERRUPT_MAX,
           vm_interrupt(v, m, ret), raise' \in Seq(Word), wrote' = {}
    PROVE  WellFormed'
  <1>1. /\ vm' \in VmState /\ Len(vm'.irq) <= INTERRUPT_MAX
        /\ phase' \in {ret, "skipping"}
        /\ call' \in [msg : Word, pc : Word, ret : HookPhase \cup {"start"}]
        /\ event' \in [kind : Kinds, msg : Word]
        /\ phase' = "skipping" => vm'.skip /\ ~vm'.queue_interrupts /\ vm'.ia # 0
    BY InterruptType, WellFormedParts
  <1>2. phase' \in Phase /\ phase' \notin {"rad", "exec"}
    BY <1>1 DEF Phase, HookPhase
  <1> QED BY <1>1, <1>2, WellFormedPartsNext

\* Steps that only move vm_cycle on, or change a field no claim is about.
LEMMA QuietInv ==
    ASSUME WellFormed, Silent, vm' \in VmState, vm'.irq = vm.irq,
           raise' \in Seq(Word), UNCHANGED call, phase' \in Phase \ {"skipping"}
    PROVE  WellFormed'
  <1>1. wrote' = {} /\ event' \in [kind : Kinds, msg : Word]
    BY WordArithmetic DEF Silent, Quiet, Event, Kinds
  <1> QED BY <1>1, WellFormedParts, WellFormedPartsNext

\* One turn of the skip loop of vm_interrupt.
LEMMA SkipOneInv == WellFormed /\ SkipOne => WellFormed'
  <1> SUFFICES ASSUME WellFormed, SkipOne PROVE WellFormed'
    OBVIOUS
  <1> DEFINE i == Decode[vm.ram[vm.pc]]
             v0 == vm_consume_word(vm)
             v1 == ResolveStep(v0, i.a, "A")
             v2 == ResolveStep(v1, i.b, "B")
             v == [v2 EXCEPT !.sleep_cycles = @ + 1]
  <1>1. /\ vm \in VmState /\ call \in [msg : Word, pc : Word, ret : HookPhase \cup {"start"}]
        /\ Len(vm.irq) <= INTERRUPT_MAX /\ raise \in Seq(Word)
        /\ phase = "skipping" => vm.skip /\ ~vm.queue_interrupts /\ vm.ia # 0
    BY WellFormedParts
  <1>2. i.a \in Operand /\ i.b \in Operand
    BY <1>1, FetchType DEF Instruction, Instr
  <1>3. v0 \in VmState /\ Control(v0) = Control(vm) /\ v0.skip = vm.skip
    BY <1>1, FetchType DEF Fetched
  <1>4. v1 \in VmState /\ Control(v1) = Control(vm) /\ v1.skip = vm.skip
    BY <1>2, <1>3, ResolveStepType, OperandsKeepControl
  <1>5. v2 \in VmState /\ Control(v2) = Control(vm) /\ v2.skip = vm.skip
    BY <1>2, <1>4, ResolveStepType, OperandsKeepControl
  <1> HIDE DEF v2
  <1>6. v \in VmState
    BY <1>5, ChargeType
  <1>7. Control(v) = Control(vm) /\ v.skip = vm.skip
    BY <1>5 DEF Control, VmState
  <1>8. /\ phase = "skipping" /\ wrote' = {} /\ raise' = raise
        /\ \/ vm' = v /\ event' = Quiet /\ phase' = phase /\ call' = call
           \/ /\ vm' = Enter(Skipped(v), call.msg, call.pc)
              /\ phase' = call.ret /\ call' = NoCall
              /\ event' = Event("deliver", call.msg)
    BY DEF SkipOne, v2
  <1> HIDE DEF v
  <1>9. v.irq = vm.irq /\ v.queue_interrupts = vm.queue_interrupts /\ v.ia = vm.ia
    BY <1>7 DEF Control
  <1>10. CASE vm' = v /\ event' = Quiet /\ phase' = phase /\ call' = call
    <2>1. event' \in [kind : Kinds, msg : Word]
      BY <1>10, WordArithmetic DEF Quiet, Event, Kinds
    <2>2. vm'.skip /\ ~vm'.queue_interrupts /\ vm'.ia # 0
      BY <1>1, <1>7, <1>8, <1>9, <1>10
    <2> QED BY <1>1, <1>6, <1>8, <1>9, <1>10, <2>1, <2>2, WellFormedPartsNext DEF Phase
  <1>11. CASE /\ vm' = Enter(Skipped(v), call.msg, call.pc)
              /\ phase' = call.ret /\ call' = NoCall
              /\ event' = Event("deliver", call.msg)
    <2>1. Skipped(v) \in VmState /\ Control(Skipped(v)) = Control(v)
      BY <1>6, SkippedType
    <2>2. Skipped(v).irq = v.irq
      BY <2>1 DEF Control
    <2>3. call.msg \in Word /\ call.pc \in Word /\ call.ret \in HookPhase \cup {"start"}
      BY <1>1
    <2>4. vm' \in VmState /\ vm'.irq = vm.irq
      BY <1>9, <1>11, <2>1, <2>2, <2>3, EnterType
    <2>5. event' \in [kind : Kinds, msg : Word]
      BY <1>11, <2>3 DEF Event, Kinds
    <2>6. call' \in [msg : Word, pc : Word, ret : HookPhase \cup {"start"}]
      BY <1>11, WordArithmetic DEF NoCall
    <2>7. phase' \in Phase /\ phase' \notin {"rad", "exec", "skipping"}
      BY <1>11, <2>3 DEF Phase, HookPhase
    <2> QED BY <1>1, <1>8, <2>4, <2>5, <2>6, <2>7, WellFormedPartsNext
  <1> QED BY <1>8, <1>10, <1>11

\* Radiation and fire write memory and registers only.
LEMMA DecayInv == WellFormed /\ (Radiation \/ FireWait \/ FireBurn) => WellFormed'
  <1> SUFFICES ASSUME WellFormed, Radiation \/ FireWait \/ FireBurn PROVE WellFormed'
    OBVIOUS
  <1>1. /\ vm \in VmState /\ vm.ram \in [Word -> Word] /\ raise \in Seq(Word)
        /\ call \in [msg : Word, pc : Word, ret : HookPhase \cup {"start"}]
        /\ Len(vm.irq) <= INTERRUPT_MAX
    BY WellFormedParts DEF VmState
  <1>2. Quiet \in [kind : Kinds, msg : Word]
    BY WordArithmetic DEF Quiet, Event, Kinds
  <1>3. CASE Radiation
    <2>1. vm' \in VmState /\ vm'.irq = vm.irq /\ vm'.halted = vm.halted /\ wrote' \subseteq Word
      <3>1. CASE vm' = vm /\ wrote' = {}
        BY <1>1, <3>1
      <3>2. ASSUME NEW flip \in FLIPS,
                   vm' = [vm EXCEPT !.ram[flip[1]] = BitXor(@, 2^flip[2])], wrote' = {flip[1]}
            PROVE  vm' \in VmState /\ vm'.irq = vm.irq /\ vm'.halted = vm.halted
                   /\ wrote' \subseteq Word
        <4> DEFINE pos == flip[1]
                   bit == flip[2]
        <4>0. /\ pos \in Word /\ bit \in 0 .. BITS - 2
              /\ vm' = [vm EXCEPT !.ram[pos] = BitXor(@, 2^bit)] /\ wrote' = {pos}
          BY <3>2, RadiationAssumption
        <4> HIDE DEF pos, bit
        <4> DEFINE x == BitXor(vm.ram[pos], 2^bit)
                   mem == [vm.ram EXCEPT ![pos] = x]
        <4>1. vm.ram[pos] \in Word /\ 2^bit \in Word
          BY <1>1, <4>0, RadiationAssumption
        <4>2. x \in Word
          BY <4>1, BitwiseAssumption
        <4>3. vm' = [vm EXCEPT !.ram = mem]
          BY <1>1, <4>0 DEF VmState
        <4> HIDE DEF x
        <4>4. mem \in [Word -> Word]
          BY <1>1, <4>0, <4>2
        <4> HIDE DEF mem
        <4>5. vm' \in VmState
          BY <1>1, <4>3, <4>4, UpdateType
        <4> QED BY <1>1, <4>0, <4>3, <4>5 DEF VmState
      <3> QED BY <1>3, <3>1, <3>2 DEF Radiation
    <2>2. /\ phase = "rad" /\ phase' = "exec" /\ event' = Quiet
          /\ raise' = raise /\ call' = call
      BY <1>3 DEF Radiation
    <2> QED BY <1>1, <1>2, <2>1, <2>2, WellFormedPartsNext DEF Phase
  <1>4. CASE FireWait
    <2>1. vm.fire_wait - 1 \in Nat /\ vm' = [vm EXCEPT !.fire_wait = vm.fire_wait - 1]
      BY <1>1, <1>4 DEF FireWait, VmState
    <2>2. vm' \in VmState /\ vm'.irq = vm.irq /\ vm'.halted = vm.halted
      BY <1>1, <2>1 DEF VmState
    <2>3. phase' = "start" /\ Silent /\ raise' = raise /\ UNCHANGED call
      BY <1>4 DEF FireWait
    <2> QED BY <1>1, <2>2, <2>3, QuietInv DEF Phase
  <1>5. CASE FireBurn
    <2> DEFINE m == MapScreen(vm)
    <2>1. m \in VmState /\ m.irq = vm.irq /\ m.halted = vm.halted
      <3> DEFINE regs == [[vm.registers EXCEPT ![REG_A] = 1] EXCEPT ![REG_B] = FIRE_FONT]
                 s == [vm EXCEPT !.screen_mapped = TRUE, !.registers = regs]
      <3>1. 1 \in Word /\ FIRE_FONT \in Word /\ vm.registers \in [Reg -> Word]
        BY <1>1, FireAssumption, WordArithmetic DEF Word, VmState
      <3>2. regs \in [Reg -> Word]
        BY <3>1 DEF Reg, REG_A, REG_B
      <3>3. m = vm \/ m = s
        BY <1>1 DEF MapScreen, VmState
      <3> HIDE DEF regs
      <3>4. s \in VmState /\ s.irq = vm.irq /\ s.halted = vm.halted
        BY <1>1, <3>2 DEF VmState
      <3> QED BY <1>1, <3>3, <3>4
    <2>2. PICK fill \in [FIRE_CELLS -> FIRE_FILLS] :
             vm' = [MapScreen(vm) EXCEPT
                       !.fire_wait = FIRE_TICKS,
                       !.ram = [x \in Word |-> IF x \in FIRE_CELLS
                                               THEN fill[x] ELSE vm.ram[x]]]
      BY <1>5 DEF FireBurn
    <2> DEFINE mem == [x \in Word |-> IF x \in FIRE_CELLS THEN fill[x] ELSE vm.ram[x]]
    <2>3. mem \in [Word -> Word]
      BY <1>1, FireAssumption
    <2>4. vm' = [m EXCEPT !.fire_wait = FIRE_TICKS, !.ram = mem]
      BY <2>2
    <2> HIDE DEF m, mem
    <2>5. vm' \in VmState /\ vm'.irq = vm.irq
      BY <2>1, <2>3, <2>4, FireAssumption DEF VmState
    <2>6. /\ wrote' = FIRE_CELLS /\ event' = Quiet /\ phase' = "start"
          /\ raise' = raise /\ call' = call
      BY <1>5 DEF FireBurn
    <2>7. wrote' \subseteq Word
      BY <2>6, FireAssumption
    <2> QED BY <1>1, <1>2, <2>5, <2>6, <2>7, WellFormedPartsNext DEF Phase
  <1> QED BY <1>3, <1>4, <1>5

\* What a device copies into memory are words.
LEMMA OverlayType ==
    ASSUME NEW mem \in [Word -> Word], NEW t \in Transfers
    PROVE  Overlay(mem, t) \in [Word -> Word]
  BY TransferAssumption DEF Overlay

\* What a device does to the machine during HWI.
LEMMA HwAnswerType ==
    ASSUME NEW v \in VmState
    PROVE  /\ \A x \in HwReplies, rs \in SUBSET {REG_B, REG_C} :
                 HwAnswer(v, x, rs) \in VmState /\ Control(HwAnswer(v, x, rs)) = Control(v)
           /\ \A t \in Transfers : HwDump(v, t) \in VmState /\ Control(HwDump(v, t)) = Control(v)
  <1>1. ASSUME NEW x \in HwReplies, NEW rs \in SUBSET {REG_B, REG_C}
        PROVE  HwAnswer(v, x, rs) \in VmState /\ Control(HwAnswer(v, x, rs)) = Control(v)
    <2> DEFINE regs == [r \in Reg |-> IF r \in rs THEN x[r] ELSE v.registers[r]]
    <2>1. v.registers \in [Reg -> Word] /\ \A r \in rs : x[r] \in Word
      BY ReplyAssumption DEF VmState
    <2>2. regs \in [Reg -> Word]
      BY <2>1
    <2>3. HwAnswer(v, x, rs) = [v EXCEPT !.registers = regs]
      BY DEF HwAnswer
    <2> HIDE DEF regs
    <2>4. [v EXCEPT !.registers = regs] \in VmState
      BY <2>2, UpdateType
    <2>5. Control([v EXCEPT !.registers = regs]) = Control(v)
      BY DEF Control, VmState
    <2> QED BY <2>3, <2>4, <2>5
  <1>2. ASSUME NEW t \in Transfers
        PROVE  HwDump(v, t) \in VmState /\ Control(HwDump(v, t)) = Control(v)
    <2> DEFINE mem == Overlay(v.ram, t)
               s == [v EXCEPT !.ram = mem]
               n == v.sleep_cycles + DUMP_CYCLES
               u == [s EXCEPT !.sleep_cycles = n]
    <2>1. mem \in [Word -> Word]
      BY OverlayType DEF VmState
    <2>2. n \in Nat
      BY TransferAssumption DEF VmState
    <2>3. HwDump(v, t) = u
      BY DEF HwDump, VmState
    <2> HIDE DEF mem, n
    <2>4. s \in VmState
      BY <2>1, UpdateType
    <2>5. Control(s) = Control(v)
      BY DEF Control, VmState
    <2> HIDE DEF s
    <2>6. u \in VmState
      BY <2>2, <2>4, UpdateType
    <2>7. Control(u) = Control(s)
      BY <2>4 DEF Control, VmState
    <2> QED BY <2>3, <2>5, <2>6, <2>7
  <1> QED BY <1>1, <1>2

\* The steps of vm_cycle around the instruction.
LEMMA CycleInv ==
    WellFormed /\ (\/ Sleep \/ Wake \/ HookRaise \/ HookHalt \/ DiskRead \/ WindowClosed
            \/ SixtyDone \/ Dequeue \/ NothingQueued \/ PreDone \/ HwDone \/ PostDone)
    => WellFormed'
  <1> SUFFICES ASSUME WellFormed,
                      \/ Sleep \/ Wake \/ HookRaise \/ HookHalt \/ DiskRead \/ WindowClosed
                      \/ SixtyDone \/ Dequeue \/ NothingQueued \/ PreDone \/ HwDone \/ PostDone
               PROVE  WellFormed'
    OBVIOUS
  <1>1. /\ vm \in VmState /\ raise \in Seq(Word) /\ Len(vm.irq) <= INTERRUPT_MAX
    BY WellFormedParts
  <1>2. \A r \in HookCalls : r \in Seq(Word)
    BY HookAssumption
  <1>3. << >> \in Seq(Word)
    OBVIOUS
  <1>4. CASE Sleep
    <2>1. vm.sleep_cycles - 1 \in Nat /\ vm' = [vm EXCEPT !.sleep_cycles = vm.sleep_cycles - 1]
      BY <1>1, <1>4 DEF Sleep, VmState
    <2>2. vm' \in VmState
      BY <1>1, <2>1, UpdateType
    <2>3. vm'.irq = vm.irq /\ vm'.halted = vm.halted
      BY <1>1, <2>1 DEF VmState
    <2>4. phase = "start" /\ phase' = phase /\ Silent /\ raise' = raise /\ UNCHANGED call
      BY <1>4 DEF Sleep
    <2> QED BY <1>1, <2>2, <2>3, <2>4, QuietInv DEF Phase
  <1>5. CASE Wake
    BY <1>1, <1>2, <1>3, <1>5, QuietInv DEF Wake, Phase, HookPhase
  <1>6. CASE HookRaise
    <2>1. /\ phase \in HookPhase /\ raise # << >> /\ vm_interrupt(vm, Head(raise), phase)
          /\ raise' = Tail(raise) /\ wrote' = {}
      BY <1>6 DEF HookRaise
    <2>2. Head(raise) \in Word /\ Tail(raise) \in Seq(Word)
      BY <1>1, <2>1
    <2> QED BY <1>1, <2>1, <2>2, CallInv
  <1>7. CASE WindowClosed
    <2>1. vm' = [vm EXCEPT !.exit = TRUE]
      BY <1>7 DEF WindowClosed
    <2>2. vm' \in VmState /\ vm'.irq = vm.irq /\ vm'.halted = vm.halted
      BY <1>1, <2>1 DEF VmState
    <2>3. phase = "sixty" /\ phase' = phase /\ Silent /\ raise' = raise /\ UNCHANGED call
      BY <1>7 DEF WindowClosed
    <2> QED BY <1>1, <2>2, <2>3, QuietInv DEF Phase, HookPhase
  <1>8. CASE SixtyDone
    BY <1>1, <1>8, QuietInv DEF SixtyDone, Phase
  <1>9. CASE Dequeue
    <2> DEFINE v == [vm EXCEPT !.irq = Tail(vm.irq)]
    <2>1. /\ vm.irq # << >> /\ vm_interrupt(v, Head(vm.irq), "pre")
          /\ raise' \in HookCalls /\ wrote' = {}
      BY <1>9 DEF Dequeue
    <2>2. vm.irq \in Seq(Word)
      BY <1>1 DEF VmState
    <2>3. /\ Head(vm.irq) \in Word /\ Tail(vm.irq) \in Seq(Word)
          /\ Len(Tail(vm.irq)) = Len(vm.irq) - 1
      BY <2>1, <2>2
    <2>4. v \in VmState
      BY <1>1, <2>3, UpdateType
    <2>5. v.irq = Tail(vm.irq)
      BY <1>1 DEF VmState
    <2>6. Len(v.irq) <= INTERRUPT_MAX
      BY <1>1, <2>2, <2>3, <2>5, QueueAssumption
    <2> HIDE DEF v
    <2> QED BY <1>2, <2>1, <2>3, <2>4, <2>6, CallInv DEF HookPhase
  <1>10. CASE NothingQueued
    BY <1>1, <1>2, <1>10, QuietInv DEF NothingQueued, Phase, HookPhase
  <1>11. CASE PreDone
    BY <1>1, <1>11, QuietInv DEF PreDone, Phase
  <1>12. CASE HwDone
    BY <1>1, <1>2, <1>12, QuietInv DEF HwDone, Phase, HookPhase
  <1>13. CASE PostDone
    BY <1>1, <1>13, QuietInv DEF PostDone, Phase
  <1>14. CASE HookHalt
    <2>1. vm' = [vm EXCEPT !.halted = TRUE]
      BY <1>14, SwitchAssumption DEF HookHalt, vm_halt
    <2>2. vm' \in VmState
      BY <1>1, <2>1, UpdateType
    <2>3. vm'.irq = vm.irq
      BY <1>1, <2>1 DEF VmState
    <2>4. /\ phase = "pre" /\ phase' = phase /\ wrote' = {} /\ raise' = raise
          /\ call' = call /\ event' = [kind |-> "none", msg |-> 0]
      BY <1>14, SwitchAssumption DEF HookHalt, Silent, Quiet, Event
    <2> QED BY <1>1, <2>2, <2>3, <2>4, WellFormedParts, WellFormedPartsNext, WordArithmetic
               DEF Phase, HookPhase, Kinds
  <1>15. CASE DiskRead
    <2>1. PICK t \in Transfers : vm' = [vm EXCEPT !.ram = Overlay(vm.ram, t)]
      BY <1>15 DEF DiskRead
    <2>2. Overlay(vm.ram, t) \in [Word -> Word]
      BY <1>1, OverlayType DEF VmState
    <2>3. vm' \in VmState
      BY <1>1, <2>1, <2>2, UpdateType
    <2>4. vm'.irq = vm.irq /\ vm'.halted = vm.halted
      BY <1>1, <2>1 DEF VmState
    <2>5. phase = "sixty" /\ phase' = phase /\ Silent /\ raise' = raise /\ UNCHANGED call
      BY <1>15 DEF DiskRead
    <2> QED BY <1>1, <2>3, <2>4, <2>5, QuietInv DEF Phase, HookPhase
  <1> QED BY <1>4, <1>5, <1>6, <1>7, <1>8, <1>9, <1>10, <1>11, <1>12, <1>13, <1>14, <1>15

\* Every opcode, executed or skipped.
LEMMA ExecuteInv == WellFormed /\ Execute => WellFormed'
  <1> SUFFICES ASSUME WellFormed, Execute PROVE WellFormed'
    OBVIOUS
  <1> DEFINE f == Fetched
             i == Instruction
  <1>1. /\ vm \in VmState /\ Len(vm.irq) <= INTERRUPT_MAX
        /\ call \in [msg : Word, pc : Word, ret : HookPhase \cup {"start"}]
    BY WellFormedParts
  <1>2. f \in VmState /\ i \in Instr /\ Control(f) = Control(vm)
    BY <1>1, FetchType
  <1>3. f.irq = vm.irq
    BY <1>2 DEF Control
  <1>4. StoredA \in SUBSET Word /\ StoredB \in SUBSET Word /\ {} \in SUBSET Word
    BY <1>1, HookedType
  <1>5. \A r \in HookCalls : r \in Seq(Word)
    BY HookAssumption
  <1> DEFINE r == Read1(f, i)
  <1>6. /\ r \in VmState /\ r.irq = vm.irq /\ ValA(f, i) \in Word
    <2>1. r \in VmState /\ Control(r) = Control(f) /\ ValA(f, i) \in Word
      BY <1>2, ReadType
    <2> QED BY <1>3, <2>1 DEF Control
  <1> HIDE DEF f, i, r
  <1>7. CASE ExecSet \/ ExecArithmetic \/ ExecIf \/ ExecSetMove
    <2>1. /\ vm_op_set(f, i) \in VmState /\ vm_op_set(f, i).irq = vm.irq
          /\ vm_op_if(f, i) \in VmState /\ vm_op_if(f, i).irq = vm.irq
          /\ vm_op_sti(f, i) \in VmState /\ vm_op_sti(f, i).irq = vm.irq
      BY <1>2, BasicType DEF Control
    <2>2. i.op \in Arith => vm_op_arith(f, i) \in VmState /\ vm_op_arith(f, i).irq = vm.irq
      BY <1>2, BasicType DEF Control
    <2>3. \/ Retire(vm_op_set(f, i), StoredB)
          \/ i.op \in Arith /\ Retire(vm_op_arith(f, i), StoredB)
          \/ Retire(vm_op_if(f, i), {})
          \/ Retire(vm_op_sti(f, i), StoredB)
      BY <1>7 DEF ExecSet, ExecArithmetic, ExecIf, ExecSetMove, Executes, f, i
    <2> QED BY <1>4, <2>1, <2>2, <2>3, RetireInv
  <1>8. CASE ExecJsr \/ ExecIag \/ ExecIas \/ ExecIaq \/ ExecHwn \/ ExecHwq
    <2>1. /\ vm_op_jsr(f, i) \in VmState /\ vm_op_jsr(f, i).irq = vm.irq
          /\ vm_op_iag(f, i) \in VmState /\ vm_op_iag(f, i).irq = vm.irq
          /\ vm_op_hwn(f, i) \in VmState /\ vm_op_hwn(f, i).irq = vm.irq
          /\ vm_op_hwq(f, i) \in VmState /\ vm_op_hwq(f, i).irq = vm.irq
      BY <1>2, SpecialType DEF Control
    <2>2. /\ vm_op_ias(f, i) \in VmState /\ vm_op_ias(f, i).irq = vm.irq
          /\ vm_op_iaq(f, i) \in VmState /\ vm_op_iaq(f, i).irq = vm.irq
      BY <1>2, <1>3, SpecialType
    <2>3. \/ Retire(vm_op_jsr(f, i), {}) \/ Retire(vm_op_iag(f, i), StoredA)
          \/ Retire(vm_op_ias(f, i), {}) \/ Retire(vm_op_iaq(f, i), {})
          \/ Retire(vm_op_hwn(f, i), StoredA) \/ Retire(vm_op_hwq(f, i), {})
      BY <1>8 DEF ExecJsr, ExecIag, ExecIas, ExecIaq, ExecHwn, ExecHwq, f, i
    <2> QED BY <1>4, <2>1, <2>2, <2>3, RetireInv
  <1>9. CASE ExecRfi
    <2>1. vm_op_rfi(f, i) \in VmState /\ vm_op_rfi(f, i).irq = vm.irq
      BY <1>2, <1>3, SpecialType
    <2>2. /\ vm' = vm_op_rfi(f, i) /\ wrote' = {} /\ phase' = "post"
          /\ raise' \in HookCalls /\ call' = call
          /\ event' \in {Quiet, Event("return", 0)}
      BY <1>9 DEF ExecRfi, f, i
    <2>3. event' \in [kind : Kinds, msg : Word]
      BY <2>2, WordArithmetic DEF Quiet, Event, Kinds
    <2> QED BY <1>1, <1>5, <2>1, <2>2, <2>3, WellFormedPartsNext DEF Phase, HookPhase
  <1>10. CASE ExecInt
    <2>1. /\ vm_interrupt(r, ValA(f, i), "post")
          /\ raise' \in HookCalls /\ wrote' = {}
      BY <1>10 DEF ExecInt, r, f, i
    <2> QED BY <1>1, <1>5, <1>6, <2>1, CallInv DEF HookPhase
  <1>11. CASE ExecHwi
    <2>1. Skipped(r) \in VmState /\ Skipped(r).irq = vm.irq
      <3>1. Skipped(r) \in VmState /\ Control(Skipped(r)) = Control(r)
        BY <1>6, SkippedType
      <3> QED BY <1>6, <3>1 DEF Control
    <2> DEFINE answered ==
                 \/ vm' = r
                 \/ \E x \in HwReplies, rs \in SUBSET {REG_B, REG_C} : vm' = HwAnswer(r, x, rs)
                 \/ \E t \in Transfers : vm' = HwDump(r, t)
    <2>2. answered => vm' \in VmState /\ vm'.irq = vm.irq
      <3>1. answered => vm' \in VmState /\ Control(vm') = Control(r)
        BY <1>6, HwAnswerType
      <3> QED BY <1>6, <3>1 DEF Control
    <2>3. \/ Retire(Skipped(r), {}) \/ Retire(r, {})
          \/ answered /\ phase' = "hw" /\ raise' \in HookCalls /\ Silent /\ UNCHANGED call
      BY <1>11 DEF ExecHwi, r, f, i
    <2> HIDE DEF answered
    <2>4. CASE Retire(Skipped(r), {}) \/ Retire(r, {})
      BY <1>4, <1>6, <2>1, <2>4, RetireInv
    <2>5. CASE answered /\ phase' = "hw" /\ raise' \in HookCalls /\ Silent /\ UNCHANGED call
      <3>1. vm' \in VmState /\ vm'.irq = vm.irq
        BY <1>6, <2>2, <2>5
      <3>2. wrote' = {} /\ event' \in [kind : Kinds, msg : Word]
        BY <2>5, WordArithmetic DEF Silent, Quiet, Event, Kinds
      <3> QED BY <1>1, <1>5, <2>5, <3>1, <3>2, WellFormedPartsNext DEF Phase, HookPhase
    <2> QED BY <2>3, <2>4, <2>5
  <1>12. CASE ExecInvalid
    <2>1. [f EXCEPT !.halted = TRUE] \in VmState /\ [f EXCEPT !.on_fire = TRUE] \in VmState
      BY <1>2 DEF VmState
    <2>2. [f EXCEPT !.halted = TRUE].irq = vm.irq /\ [f EXCEPT !.on_fire = TRUE].irq = vm.irq
      BY <1>2, <1>3 DEF VmState
    <2>3. Retire([f EXCEPT !.halted = TRUE], {}) \/ Retire([f EXCEPT !.on_fire = TRUE], {})
      BY <1>12 DEF ExecInvalid, vm_halt, f
    <2> QED BY <1>4, <2>1, <2>2, <2>3, RetireInv
  <1> QED BY <1>7, <1>8, <1>9, <1>10, <1>11, <1>12 DEF Execute

\* A step of the machine keeps it well-formed, halted or not.
LEMMA NextWellFormed == WellFormed /\ [Next]_vars => WellFormed'
  <1> SUFFICES ASSUME WellFormed, [Next]_vars PROVE WellFormed'
    OBVIOUS
  <1>1. CASE UNCHANGED vars
    BY <1>1, WellFormedParts, WellFormedPartsNext DEF vars
  <1>2. CASE Next
    BY <1>2, CycleInv, SkipOneInv, DecayInv, ExecuteInv DEF Next
  <1> QED BY <1>1, <1>2

\* vm_interrupt returns to its caller's hook phase or goes on skipping.
LEMMA CallPhase ==
    ASSUME NEW v, NEW m, NEW ret \in HookPhase, vm_interrupt(v, m, ret)
    PROVE  phase' \in HookPhase \cup {"skipping"}
  BY DEF vm_interrupt

\* The one way to an instruction is through the halted test after the
\* pre-cycle hooks, radiation coming in between.
LEMMA ToExec ==
    ASSUME WellFormed, Next, phase' \in {"rad", "exec"}
    PROVE  PreDone \/ Radiation
  <1>1. \A p \in HookPhase \cup {"skipping", "start", "irq"} : p \notin {"rad", "exec"}
    BY DEF HookPhase
  <1>2. ~HookRaise /\ ~Dequeue /\ ~ExecInt
    BY <1>1, CallPhase DEF HookRaise, Dequeue, ExecInt, HookPhase
  <1>3. ~SkipOne
    BY <1>1, WellFormedParts DEF SkipOne
  <1>4. ~Sleep /\ ~Wake /\ ~HookHalt /\ ~DiskRead /\ ~WindowClosed /\ ~SixtyDone
        /\ ~NothingQueued /\ ~FireWait /\ ~FireBurn /\ ~HwDone /\ ~PostDone
    BY DEF Sleep, Wake, HookHalt, DiskRead, WindowClosed, SixtyDone, NothingQueued, FireWait,
           FireBurn, HwDone, PostDone
  <1>5. ~Execute
    BY <1>2 DEF Execute, Retire, ExecSet, ExecArithmetic, ExecIf, ExecSetMove, ExecJsr, ExecIag,
                ExecIas, ExecRfi, ExecIaq, ExecHwn, ExecHwq, ExecHwi, ExecInvalid
  <1> QED BY <1>2, <1>3, <1>4, <1>5 DEF Next

\* The invariant is inductive.
LEMMA NextInv == Inv /\ [Next]_vars => Inv'
  <1> SUFFICES ASSUME Inv, [Next]_vars PROVE Inv'
    OBVIOUS
  <1>1. WellFormed' /\ vm \in VmState
    BY NextWellFormed, WellFormedParts DEF Inv
  <1>2. CASE UNCHANGED vars
    BY <1>1, <1>2 DEF vars, Inv, HaltedExecutesNothing
  <1>3. CASE Next
    <2>1. SUFFICES ASSUME phase' \in {"rad", "exec"} PROVE ~vm'.halted
      BY <1>1 DEF Inv, HaltedExecutesNothing
    <2>2. PreDone \/ Radiation
      BY <1>3, <2>1, ToExec DEF Inv
    <2>3. CASE PreDone
      BY <2>1, <2>3 DEF PreDone
    <2>4. CASE Radiation
      BY <1>1, <2>4 DEF Radiation, Inv, HaltedExecutesNothing, VmState
    <2> QED BY <2>2, <2>3, <2>4
  <1> QED BY <1>2, <1>3

\* It holds in every reachable state.
LEMMA Invariance == Spec => []Inv
  BY InitInv, NextInv, PTL DEF Spec

\* The machine keeps its C types: no operand, opcode, interrupt or device
\* drives a register, a memory cell or a counter out of its range.
THEOREM TypeCorrect == Spec => []TypeOK
  <1>1. Inv => TypeOK
    BY DEF Inv, WellFormed
  <1> QED BY <1>1, Invariance, PTL

\* vm_interrupt never overruns the interrupt queue.
THEOREM QueueIsBounded == Spec => []QueueBounded
  <1>1. Inv => QueueBounded
    BY DEF Inv, WellFormed
  <1> QED BY <1>1, Invariance, PTL

\* A halted machine executes no instruction, wherever in vm_cycle it halted.
THEOREM HaltIsFinal == Spec => []HaltedExecutesNothing
  <1>1. Inv => HaltedExecutesNothing
    BY DEF Inv
  <1> QED BY <1>1, Invariance, PTL

\* The skip loop of vm_interrupt keeps what vm_interrupt tested before it.
THEOREM SkipLoopIsCommitted == Spec => []SkippingIsCommitted
  <1>1. Inv => SkippingIsCommitted
    BY DEF Inv, WellFormed
  <1> QED BY <1>1, Invariance, PTL

-----------------------------------------------------------------------------
(* The machine implements the abstract interrupt queue *)

\* What a step must leave alone to be a stutter of the abstract queue.
LEMMA QStutter ==
    ASSUME vm'.irq = vm.irq, vm'.queue_interrupts = vm.queue_interrupts,
           vm'.ia = vm.ia, vm'.halted = vm.halted,
           (phase' = "skipping") <=> (phase = "skipping")
    PROVE  UNCHANGED Q!qvars
  BY DEF Q!qvars

\* A call of vm_interrupt outside the queue's own turn is an arrival: the
\* message waits, overflows the queue, is ignored or is taken.
LEMMA QCall ==
    ASSUME Inv, phase # "skipping",
           NEW v \in VmState, v.irq = vm.irq, v.queue_interrupts = vm.queue_interrupts,
           v.ia = vm.ia, v.halted = vm.halted,
           NEW m \in Word, NEW ret \in HookPhase, vm_interrupt(v, m, ret)
    PROVE  Q!QNext \/ UNCHANGED Q!qvars
  <1>0. /\ Len(vm.irq) <= INTERRUPT_MAX /\ v.pc \in Word /\ ret # "skipping"
        /\ vm.queue_interrupts \in BOOLEAN
    BY InvParts DEF VmState, HookPhase
  <1>1. CASE v.queue_interrupts /\ vm' = QueueMsg(v, m) /\ phase' = ret
    <2>1. /\ vm'.queue_interrupts = vm.queue_interrupts /\ vm'.ia = vm.ia
          /\ \/ /\ Len(vm.irq) < INTERRUPT_MAX
                /\ vm'.irq = Append(vm.irq, m) /\ vm'.halted = vm.halted
             \/ /\ Len(vm.irq) = INTERRUPT_MAX
                /\ vm'.irq = vm.irq /\ vm'.halted = TRUE
      BY <1>0, <1>1, QueueMsgType
    <2>2. Q!Wait(m) \/ Q!Overflow
      BY <1>0, <1>1, <2>1 DEF Q!Wait, Q!Overflow
    <2> QED BY <2>2 DEF Q!QNext
  <1>2. CASE vm' = v /\ phase' = ret
    BY <1>0, <1>2, QStutter
  <1>3. CASE ~v.queue_interrupts /\ v.ia # 0 /\ vm' = Enter(v, m, v.pc) /\ phase' = ret
    <2>1. /\ vm'.irq = vm.irq /\ vm'.ia = vm.ia /\ vm'.halted = vm.halted
          /\ vm'.queue_interrupts = TRUE
      BY <1>0, <1>3, EnterType
    <2>2. Q!Arrive
      BY <1>0, <1>3, <2>1 DEF Q!Arrive, Q!Take
    <2> QED BY <2>2 DEF Q!QNext
  <1>4. CASE ~v.queue_interrupts /\ v.ia # 0 /\ vm' = v /\ phase' = "skipping"
    <2>1. Q!Arrive
      BY <1>4 DEF Q!Arrive, Q!Take
    <2> QED BY <2>1 DEF Q!QNext
  <1> QED BY <1>1, <1>2, <1>3, <1>4 DEF vm_interrupt

\* vm_cycle's own look at the queue hands over the oldest message.
LEMMA QDequeue == Inv /\ Dequeue => Q!QNext \/ UNCHANGED Q!qvars
  <1> SUFFICES ASSUME Inv, Dequeue PROVE Q!QNext \/ UNCHANGED Q!qvars
    OBVIOUS
  <1> DEFINE v == [vm EXCEPT !.irq = Tail(vm.irq)]
             m == Head(vm.irq)
  <1>1. /\ phase = "irq" /\ ~vm.queue_interrupts /\ vm.irq # << >>
        /\ vm_interrupt(v, m, "pre")
    BY DEF Dequeue
  <1>2. vm \in VmState /\ vm.irq \in Seq(Word)
    BY InvParts DEF VmState
  <1>3. m \in Word /\ Tail(vm.irq) \in Seq(Word)
    BY <1>1, <1>2
  <1>4. v \in VmState
    BY <1>2, <1>3, UpdateType
  <1>5. /\ v.irq = Tail(vm.irq) /\ v.queue_interrupts = vm.queue_interrupts
        /\ v.ia = vm.ia /\ v.halted = vm.halted /\ v.pc \in Word
    BY <1>2 DEF VmState
  <1> HIDE DEF v, m
  <1>6. CASE v.ia = 0 /\ vm' = v /\ phase' = "pre"
    BY <1>1, <1>5, <1>6 DEF Q!QNext, Q!Turn
  <1>7. CASE v.ia # 0 /\ vm' = Enter(v, m, v.pc) /\ phase' = "pre"
    <2>1. /\ vm'.irq = v.irq /\ vm'.ia = v.ia /\ vm'.halted = v.halted
          /\ vm'.queue_interrupts = TRUE
      BY <1>3, <1>4, <1>5, <1>7, EnterType
    <2> QED BY <1>1, <1>5, <1>7, <2>1 DEF Q!QNext, Q!Turn, Q!Take
  <1>8. CASE v.ia # 0 /\ vm' = v /\ phase' = "skipping"
    BY <1>1, <1>5, <1>8 DEF Q!QNext, Q!Turn, Q!Take
  <1> QED BY <1>1, <1>5, <1>6, <1>7, <1>8 DEF vm_interrupt

\* The skip loop delays the entry into the handler and ends with it.
LEMMA QSkipOne == Inv /\ SkipOne => Q!QNext \/ UNCHANGED Q!qvars
  <1> SUFFICES ASSUME Inv, SkipOne PROVE Q!QNext \/ UNCHANGED Q!qvars
    OBVIOUS
  <1> DEFINE i == Decode[vm.ram[vm.pc]]
             v0 == vm_consume_word(vm)
             v1 == ResolveStep(v0, i.a, "A")
             v2 == ResolveStep(v1, i.b, "B")
             v == [v2 EXCEPT !.sleep_cycles = @ + 1]
  <1>1. /\ vm \in VmState /\ call \in [msg : Word, pc : Word, ret : HookPhase \cup {"start"}]
    BY InvParts
  <1>2. i.a \in Operand /\ i.b \in Operand
    BY <1>1, FetchType DEF Instruction, Instr
  <1>3. v0 \in VmState /\ Control(v0) = Control(vm)
    BY <1>1, FetchType DEF Fetched
  <1>4. v1 \in VmState /\ Control(v1) = Control(vm)
    BY <1>2, <1>3, ResolveStepType, OperandsKeepControl
  <1>5. v2 \in VmState /\ Control(v2) = Control(vm)
    BY <1>2, <1>4, ResolveStepType, OperandsKeepControl
  <1> HIDE DEF v2
  <1>6. v \in VmState
    BY <1>5, ChargeType
  <1>7. Control(v) = Control(vm)
    BY <1>5 DEF Control, VmState
  <1>8. /\ phase = "skipping"
        /\ \/ vm' = v /\ phase' = phase
           \/ vm' = Enter(Skipped(v), call.msg, call.pc) /\ phase' = call.ret
    BY DEF SkipOne, v2
  <1> HIDE DEF v
  <1>9. /\ v.irq = vm.irq /\ v.queue_interrupts = vm.queue_interrupts
        /\ v.ia = vm.ia /\ v.halted = vm.halted
    BY <1>7 DEF Control
  <1>10. CASE vm' = v /\ phase' = phase
    BY <1>9, <1>10, QStutter
  <1>11. CASE vm' = Enter(Skipped(v), call.msg, call.pc) /\ phase' = call.ret
    <2>1. Skipped(v) \in VmState /\ Control(Skipped(v)) = Control(v)
      BY <1>6, SkippedType
    <2>2. Skipped(v).irq = v.irq /\ Skipped(v).ia = v.ia /\ Skipped(v).halted = v.halted
      BY <2>1 DEF Control
    <2>3. call.msg \in Word /\ call.pc \in Word /\ call.ret # "skipping"
      BY <1>1 DEF HookPhase
    <2>4. /\ vm'.irq = vm.irq /\ vm'.ia = vm.ia /\ vm'.halted = vm.halted
          /\ vm'.queue_interrupts = TRUE
      BY <1>9, <1>11, <2>1, <2>2, <2>3, EnterType
    <2>5. Q!Entered
      BY <1>8, <1>11, <2>3, <2>4 DEF Q!Entered
    <2> QED BY <2>5 DEF Q!QNext
  <1> QED BY <1>8, <1>10, <1>11

\* An instruction that changes at most one of queueing, handler and halted is
\* a step of the abstract queue's program, or a stutter.
LEMMA QProgram ==
    ASSUME phase # "skipping", phase' # "skipping", ~vm.halted, vm'.irq = vm.irq,
           vm \in VmState, vm' \in VmState,
           \/ vm'.ia = vm.ia /\ vm'.halted = vm.halted
           \/ vm'.queue_interrupts = vm.queue_interrupts /\ vm'.halted = vm.halted
           \/ vm'.queue_interrupts = vm.queue_interrupts /\ vm'.ia = vm.ia /\ vm'.halted
    PROVE  Q!QNext \/ UNCHANGED Q!qvars
  <1>1. vm'.queue_interrupts \in BOOLEAN /\ vm'.halted \in BOOLEAN /\ vm.halted \in BOOLEAN
    BY DEF VmState
  <1>2. Q!Program
    BY <1>1 DEF Q!Program
  <1> QED BY <1>2 DEF Q!QNext

\* Every opcode.
LEMMA QExecute == Inv /\ Execute => Q!QNext \/ UNCHANGED Q!qvars
  <1> SUFFICES ASSUME Inv, Execute PROVE Q!QNext \/ UNCHANGED Q!qvars
    OBVIOUS
  <1> DEFINE f == Fetched
             i == Instruction
             r == Read1(f, i)
  <1>0. Inv'
    BY NextInv DEF Next
  <1>1. vm \in VmState /\ vm' \in VmState /\ (phase \in {"rad", "exec"} => ~vm.halted)
    BY <1>0, InvParts, InvPartsNext
  <1>2. f \in VmState /\ i \in Instr /\ Control(f) = Control(vm)
    BY <1>1, FetchType
  <1>3. /\ f.irq = vm.irq /\ f.queue_interrupts = vm.queue_interrupts
        /\ f.ia = vm.ia /\ f.halted = vm.halted
    BY <1>2 DEF Control
  <1>4. r \in VmState /\ Control(r) = Control(f) /\ ValA(f, i) \in Word
    BY <1>2, ReadType
  <1>5. /\ r.irq = vm.irq /\ r.queue_interrupts = vm.queue_interrupts
        /\ r.ia = vm.ia /\ r.halted = vm.halted
    BY <1>3, <1>4 DEF Control
  <1>6. phase = "exec"
    BY DEF Execute, Executes, ExecSet, ExecArithmetic, ExecIf, ExecSetMove, ExecJsr,
           ExecInt, ExecIag, ExecIas, ExecRfi, ExecIaq, ExecHwn, ExecHwq, ExecHwi,
           ExecInvalid
  <1> HIDE DEF f, i, r
  <1>7. CASE ExecSet \/ ExecArithmetic \/ ExecIf \/ ExecSetMove
    <2>1. \/ vm' = vm_op_set(f, i)
          \/ i.op \in Arith /\ vm' = vm_op_arith(f, i)
          \/ vm' = vm_op_if(f, i)
          \/ vm' = vm_op_sti(f, i)
      BY <1>7 DEF ExecSet, ExecArithmetic, ExecIf, ExecSetMove, Executes, Retire, f, i
    <2>2. phase' = "post"
      BY <1>7 DEF ExecSet, ExecArithmetic, ExecIf, ExecSetMove, Retire
    <2>3. Control(vm') = Control(vm)
      BY <1>2, <2>1, BasicType
    <2> QED BY <1>6, <2>2, <2>3, QStutter DEF Control
  <1>8. CASE ExecJsr \/ ExecIag \/ ExecHwn \/ ExecHwq
    <2>1. \/ vm' = vm_op_jsr(f, i) \/ vm' = vm_op_iag(f, i)
          \/ vm' = vm_op_hwn(f, i) \/ vm' = vm_op_hwq(f, i)
      BY <1>8 DEF ExecJsr, ExecIag, ExecHwn, ExecHwq, Retire, f, i
    <2>2. phase' = "post"
      BY <1>8 DEF ExecJsr, ExecIag, ExecHwn, ExecHwq, Retire
    <2>3. /\ Control(vm_op_jsr(f, i)) = Control(f) /\ Control(vm_op_iag(f, i)) = Control(f)
          /\ Control(vm_op_hwn(f, i)) = Control(f) /\ Control(vm_op_hwq(f, i)) = Control(f)
      BY <1>2, SpecialType
    <2>4. Control(vm') = Control(vm)
      BY <1>2, <2>1, <2>3
    <2> QED BY <1>6, <2>2, <2>4, QStutter DEF Control
  <1>9. CASE ExecIas \/ ExecRfi \/ ExecIaq
    <2>1. vm' = vm_op_ias(f, i) \/ vm' = vm_op_rfi(f, i) \/ vm' = vm_op_iaq(f, i)
      BY <1>9 DEF ExecIas, ExecRfi, ExecIaq, Retire, f, i
    <2>2. phase' = "post"
      BY <1>9 DEF ExecIas, ExecRfi, ExecIaq, Retire
    <2> DEFINE ias == vm_op_ias(f, i)
               rfi == vm_op_rfi(f, i)
               iaq == vm_op_iaq(f, i)
    <2>3. /\ ias.irq = f.irq /\ ias.halted = f.halted /\ ias.queue_interrupts = f.queue_interrupts
          /\ rfi.irq = f.irq /\ rfi.halted = f.halted /\ rfi.ia = f.ia
          /\ iaq.irq = f.irq /\ iaq.halted = f.halted /\ iaq.ia = f.ia
      BY <1>2, SpecialType
    <2> HIDE DEF ias, rfi, iaq
    <2>4. /\ vm'.irq = vm.irq /\ vm'.halted = vm.halted
          /\ vm'.ia = vm.ia \/ vm'.queue_interrupts = vm.queue_interrupts
      BY <1>3, <2>1, <2>3 DEF ias, rfi, iaq
    <2> QED BY <1>1, <1>6, <2>2, <2>4, QProgram
  <1>10. CASE ExecInt
    <2>1. vm_interrupt(r, ValA(f, i), "post")
      BY <1>10 DEF ExecInt, r, f, i
    <2> QED BY <1>4, <1>5, <1>6, <2>1, QCall DEF HookPhase
  <1>11. CASE ExecHwi
    <2>1. phase' \in {"post", "hw"}
      BY <1>11 DEF ExecHwi, Retire
    <2>2. \/ vm' = Skipped(r) \/ vm' = r
          \/ \E x \in HwReplies, rs \in SUBSET {REG_B, REG_C} : vm' = HwAnswer(r, x, rs)
          \/ \E t \in Transfers : vm' = HwDump(r, t)
      BY <1>11 DEF ExecHwi, Retire, r, f, i
    <2>3. Control(Skipped(r)) = Control(r)
      BY <1>4, SkippedType
    <2>5. Control(vm') = Control(r)
      BY <1>4, <2>2, <2>3, HwAnswerType
    <2> QED BY <1>5, <1>6, <2>1, <2>5, QStutter DEF Control
  <1>12. CASE ExecInvalid
    <2>1. /\ phase' = "post"
          /\ vm' = [f EXCEPT !.halted = TRUE] \/ vm' = [f EXCEPT !.on_fire = TRUE]
      BY <1>12 DEF ExecInvalid, vm_halt, Retire, f
    <2>2. /\ vm'.irq = vm.irq /\ vm'.queue_interrupts = vm.queue_interrupts
          /\ vm'.ia = vm.ia /\ (vm'.halted = vm.halted \/ vm'.halted)
      BY <1>2, <1>3, <2>1 DEF VmState
    <2> QED BY <1>1, <1>6, <2>1, <2>2, QProgram
  <1> QED BY <1>7, <1>8, <1>9, <1>10, <1>11, <1>12 DEF Execute

\* The remaining steps do not touch the abstract queue, or pass a hook's
\* message to vm_interrupt.
LEMMA QCycle ==
    Inv /\ (\/ Sleep \/ Wake \/ HookRaise \/ HookHalt \/ DiskRead \/ WindowClosed
            \/ SixtyDone \/ NothingQueued \/ PreDone \/ Radiation \/ FireWait \/ FireBurn
            \/ HwDone \/ PostDone)
    => Q!QNext \/ UNCHANGED Q!qvars
  <1> SUFFICES ASSUME Inv,
                      \/ Sleep \/ Wake \/ HookRaise \/ HookHalt \/ DiskRead \/ WindowClosed
                      \/ SixtyDone \/ NothingQueued \/ PreDone \/ Radiation \/ FireWait \/ FireBurn
                      \/ HwDone \/ PostDone
               PROVE  Q!QNext \/ UNCHANGED Q!qvars
    OBVIOUS
  <1>1. vm \in VmState /\ raise \in Seq(Word)
    BY InvParts
  <1>2. CASE HookRaise
    <2>1. phase \in HookPhase /\ raise # << >> /\ vm_interrupt(vm, Head(raise), phase)
      BY <1>2 DEF HookRaise
    <2>2. Head(raise) \in Word /\ phase # "skipping"
      BY <1>1, <2>1 DEF HookPhase
    <2> QED BY <1>1, <2>1, <2>2, QCall
  <1>3. CASE Wake \/ SixtyDone \/ NothingQueued \/ PreDone \/ HwDone \/ PostDone
    <2>1. vm' = vm /\ phase # "skipping" /\ phase' # "skipping"
      BY <1>3 DEF Wake, SixtyDone, NothingQueued, PreDone, HwDone, PostDone
    <2> QED BY <2>1, QStutter
  <1>4. CASE Sleep \/ WindowClosed
    <2>1. /\ phase # "skipping" /\ phase' # "skipping"
          /\ \/ vm' = [vm EXCEPT !.sleep_cycles = @ - 1]
             \/ vm' = [vm EXCEPT !.exit = TRUE]
      BY <1>4 DEF Sleep, WindowClosed
    <2>2. Control(vm') = Control(vm)
      BY <1>1, <2>1 DEF Control, VmState
    <2> QED BY <2>1, <2>2, QStutter DEF Control
  <1>5. CASE Radiation \/ FireWait
    <2>1. phase # "skipping" /\ phase' # "skipping"
      BY <1>5 DEF Radiation, FireWait
    <2>2. Control(vm') = Control(vm)
      BY <1>1, <1>5 DEF Radiation, FireWait, Control, VmState
    <2> QED BY <2>1, <2>2, QStutter DEF Control
  <1>6. CASE FireBurn
    <2>1. phase # "skipping" /\ phase' # "skipping"
      BY <1>6 DEF FireBurn
    <2>2. Control(MapScreen(vm)) = Control(vm)
      BY <1>1 DEF MapScreen, Control, VmState
    <2>3. PICK mem : vm' = [MapScreen(vm) EXCEPT !.fire_wait = FIRE_TICKS, !.ram = mem]
      BY <1>6 DEF FireBurn
    <2>4. Control(vm') = Control(MapScreen(vm))
      BY <1>1, <2>3 DEF Control, MapScreen, VmState
    <2> QED BY <2>1, <2>2, <2>4, QStutter DEF Control
  <1>7. CASE HookHalt
    <2>1. /\ phase # "skipping" /\ phase' # "skipping" /\ ~vm.halted
          /\ vm' = [vm EXCEPT !.halted = TRUE]
      BY <1>7, SwitchAssumption DEF HookHalt, vm_halt
    <2>2. vm' \in VmState
      BY <1>1, <2>1, UpdateType
    <2>3. /\ vm'.irq = vm.irq /\ vm'.queue_interrupts = vm.queue_interrupts
          /\ vm'.ia = vm.ia /\ vm'.halted
      BY <1>1, <2>1 DEF VmState
    <2> QED BY <1>1, <2>1, <2>2, <2>3, QProgram
  <1>8. CASE DiskRead
    <2>1. phase # "skipping" /\ phase' # "skipping"
      BY <1>8 DEF DiskRead
    <2>2. PICK mem : vm' = [vm EXCEPT !.ram = mem]
      BY <1>8 DEF DiskRead
    <2>3. Control(vm') = Control(vm)
      BY <1>1, <2>2 DEF Control, VmState
    <2> QED BY <2>1, <2>3, QStutter DEF Control
  <1> QED BY <1>2, <1>3, <1>4, <1>5, <1>6, <1>7, <1>8

\* Every behaviour of the machine is one of the abstract interrupt queue:
\* vm_cycle and vm_interrupt keep messages in order, take one at a time and
\* lose none while the skip loop runs, for every program and every device.
THEOREM QueueRefinement == Spec => ImplementsQueue
  <1>1. Init => Q!QInit
    BY DEF Init, vm_reset, Q!QInit
  <1>2. Inv /\ [Next]_vars => [Q!QNext]_(Q!qvars)
    <2> SUFFICES ASSUME Inv, [Next]_vars PROVE Q!QNext \/ UNCHANGED Q!qvars
      OBVIOUS
    <2>1. CASE UNCHANGED vars
      BY <2>1, QStutter DEF vars
    <2>2. CASE Next
      BY <2>2, QCycle, QDequeue, QSkipOne, QExecute DEF Next
    <2> QED BY <2>1, <2>2
  <1> QED BY <1>1, <1>2, Invariance, PTL DEF Spec, ImplementsQueue, Q!QSpec

-----------------------------------------------------------------------------
(* Stores and the write hook *)

\* Entering a handler changes the two cells it pushes.
LEMMA EnterRam ==
    ASSUME NEW v \in VmState, NEW m \in Word, NEW pc \in Word, NEW c \in Word,
           Enter(v, m, pc).ram[c] # v.ram[c]
    PROVE  c \in {Enter(v, m, pc).sp, Inc(Enter(v, m, pc).sp)}
  <1> DEFINE p == Push(v, pc)
             q == Push(p, v.registers[REG_A])
  <1>1. v.registers[REG_A] \in Word
    BY DEF VmState, Reg, REG_A
  <1>2. /\ p \in VmState /\ p.sp = Dec(v.sp) /\ Dec(v.sp) \in Word
        /\ \A d \in Word : d # Dec(v.sp) => p.ram[d] = v.ram[d]
    BY PushType, PushRam
  <1>3. /\ q \in VmState /\ q.sp = Dec(p.sp)
        /\ \A d \in Word : d # Dec(p.sp) => q.ram[d] = p.ram[d]
    <2> HIDE DEF p
    <2> QED BY <1>1, <1>2, PushType, PushRam
  <1>4. Enter(v, m, pc) = [q EXCEPT !.registers[REG_A] = m, !.pc = v.ia, !.queue_interrupts = TRUE]
    BY DEF Enter
  <1> HIDE DEF p, q
  <1>5. Enter(v, m, pc).ram = q.ram /\ Enter(v, m, pc).sp = q.sp
    BY <1>3, <1>4 DEF VmState
  <1>6. Inc(q.sp) = p.sp
    BY <1>2, <1>3, IncDec
  <1> QED BY <1>2, <1>3, <1>5, <1>6

\* So does a call of vm_interrupt, and it says so in event.
LEMMA CallRam ==
    ASSUME NEW v \in VmState, NEW m \in Word, NEW ret, Len(v.irq) <= INTERRUPT_MAX,
           vm_interrupt(v, m, ret), NEW c \in Word, vm'.ram[c] # v.ram[c]
    PROVE  event'.kind = "deliver" /\ c \in {vm'.sp, Inc(vm'.sp)}
  <1>1. CASE vm' = QueueMsg(v, m)
    BY <1>1 DEF QueueMsg, vm_halt, VmState
  <1>2. CASE vm' = v
    BY <1>2
  <1>3. CASE vm' = Enter(v, m, v.pc) /\ event' = Event("deliver", m)
    <2>1. v.pc \in Word
      BY DEF VmState
    <2> QED BY <1>3, <2>1, EnterRam DEF Event
  <1> QED BY <1>1, <1>2, <1>3 DEF vm_interrupt

\* A changed cell is reported, pushed, or written by a device.
Accounted(c) == c \in wrote' \cup Pushed \/ (DeviceStep /\ Transfers # {})

LEMMA ExecuteRam ==
    ASSUME Inv, Execute, NEW c \in Word, vm'.ram[c] # vm.ram[c]
    PROVE  Accounted(c)
  <1> DEFINE f == Fetched
             i == Instruction
             r == Read1(f, i)
  <1>1. vm \in VmState /\ Len(vm.irq) <= INTERRUPT_MAX
    BY InvParts
  <1>2. /\ f \in VmState /\ i \in Instr /\ f.ram = vm.ram /\ f.irq = vm.irq
        /\ f.skip = vm.skip /\ i.a \in Operand /\ f.ia \in Word
    <2>1. f.ram = vm.ram
      BY <1>1, OperandsKeepRam DEF Fetched, Operand, vm_consume_word, VmState
    <2> QED BY <1>1, <2>1, FetchType DEF Control, Instr, VmState
  <1>3. /\ r \in VmState /\ ValA(f, i) \in Word /\ r.irq = vm.irq /\ r.ram = vm.ram
    BY <1>2, ReadType, ReadsKeepRam DEF Control
  <1> HIDE DEF f, i, r
  <1>4. CASE ExecSet \/ ExecArithmetic \/ ExecSetMove
    <2>1. /\ wrote' = StoredB
          /\ \/ vm' = vm_op_set(f, i) \/ vm' = vm_op_sti(f, i)
             \/ i.op \in Arith /\ vm' = vm_op_arith(f, i)
      BY <1>4 DEF ExecSet, ExecArithmetic, ExecSetMove, Executes, Retire, f, i
    <2>2. ~f.skip /\ c \in HookedBy(LocB(f, i))
      BY <1>2, <2>1, InstructionRam
    <2>3. c \in StoredB
      BY <1>2, <2>2 DEF StoredB, f, i
    <2> QED BY <2>1, <2>3 DEF Accounted
  <1>5. CASE ExecIag \/ ExecHwn
    <2>1. wrote' = StoredA /\ \E x \in Word : vm' = StoreA(f, i, x)
      BY <1>2, <1>5, HwAssumption DEF ExecIag, ExecHwn, Retire, vm_op_iag, vm_op_hwn, f, i
    <2>2. ~f.skip /\ c \in HookedBy(vm_internal_get_store(f, i.a, "A"))
      BY <1>2, <2>1, InstructionRam
    <2>3. c \in StoredA
      BY <1>2, <2>2 DEF StoredA, f, i
    <2> QED BY <2>1, <2>3 DEF Accounted
  <1>6. CASE ExecJsr
    <2>1. Executes({"JSR"}) /\ vm' = vm_op_jsr(f, i) /\ event' = Quiet
      BY <1>6 DEF ExecJsr, Retire, f, i
    <2>2. c = vm'.sp
      BY <1>2, <2>1, InstructionRam
    <2> QED BY <2>1, <2>2 DEF Accounted, Pushed, Quiet, Event
  <1>7. CASE ExecIf \/ ExecIas \/ ExecRfi \/ ExecIaq \/ ExecHwq
    <2>1. \/ vm' = vm_op_if(f, i) \/ vm' = vm_op_ias(f, i) \/ vm' = vm_op_rfi(f, i)
          \/ vm' = vm_op_iaq(f, i) \/ vm' = vm_op_hwq(f, i)
      BY <1>7 DEF ExecIf, ExecIas, ExecRfi, ExecIaq, ExecHwq, Retire, f, i
    <2> QED BY <1>2, <2>1, InstructionRam
  <1>8. CASE ExecInt
    <2>1. vm_interrupt(r, ValA(f, i), "post")
      BY <1>8 DEF ExecInt, r, f, i
    <2>2. event'.kind = "deliver" /\ c \in {vm'.sp, Inc(vm'.sp)}
      BY <1>1, <1>3, <2>1, CallRam
    <2> QED BY <2>2 DEF Accounted, Pushed
  <1>9. CASE ExecHwi
    <2>1. \/ vm' = Skipped(r) \/ vm' = r
          \/ \E x \in HwReplies, rs \in SUBSET {REG_B, REG_C} : vm' = HwAnswer(r, x, rs)
          \/ Transfers # {}
      BY <1>9 DEF ExecHwi, Retire, r, f, i
    <2>2. Executes({"HWI"})
      BY <1>9 DEF ExecHwi
    <2>3. ASSUME NEW x, NEW rs PROVE Skipped(r).ram = r.ram /\ HwAnswer(r, x, rs).ram = r.ram
      BY <1>3 DEF Skipped, HwAnswer, VmState
    <2>4. Transfers # {}
      BY <1>3, <2>1, <2>3
    <2> QED BY <2>2, <2>4 DEF Accounted, DeviceStep
  <1>10. CASE ExecInvalid
    <2>1. vm' = [f EXCEPT !.halted = TRUE] \/ vm' = [f EXCEPT !.on_fire = TRUE]
      BY <1>10 DEF ExecInvalid, vm_halt, Retire, f
    <2> QED BY <1>2, <2>1 DEF VmState
  <1> QED BY <1>4, <1>5, <1>6, <1>7, <1>8, <1>9, <1>10 DEF Execute

LEMMA CycleRam ==
    ASSUME Inv,
           \/ Sleep \/ Wake \/ HookRaise \/ HookHalt \/ DiskRead \/ WindowClosed
           \/ SixtyDone \/ Dequeue \/ NothingQueued \/ PreDone \/ Radiation \/ FireWait
           \/ FireBurn \/ HwDone \/ PostDone,
           NEW c \in Word, vm'.ram[c] # vm.ram[c]
    PROVE  Accounted(c)
  <1>1. /\ vm \in VmState /\ raise \in Seq(Word) /\ Len(vm.irq) <= INTERRUPT_MAX
        /\ vm.irq \in Seq(Word) /\ Len(vm.irq) \in Nat
    BY InvParts DEF VmState
  <1>2. CASE Wake \/ SixtyDone \/ NothingQueued \/ PreDone \/ HwDone \/ PostDone
    BY <1>2 DEF Wake, SixtyDone, NothingQueued, PreDone, HwDone, PostDone
  <1>3. CASE Sleep \/ WindowClosed \/ HookHalt \/ FireWait
    BY <1>1, <1>3, SwitchAssumption DEF Sleep, WindowClosed, HookHalt, vm_halt, FireWait, VmState
  <1>4. CASE HookRaise
    <2>1. raise # << >> /\ vm_interrupt(vm, Head(raise), phase)
      BY <1>4 DEF HookRaise
    <2>2. Head(raise) \in Word
      BY <1>1, <2>1
    <2> QED BY <1>1, <2>1, <2>2, CallRam DEF Accounted, Pushed
  <1>5. CASE Dequeue
    <2> DEFINE v == [vm EXCEPT !.irq = Tail(vm.irq)]
    <2>1. vm.irq # << >> /\ vm_interrupt(v, Head(vm.irq), "pre")
      BY <1>5 DEF Dequeue
    <2>2. /\ Head(vm.irq) \in Word /\ Tail(vm.irq) \in Seq(Word)
          /\ Len(Tail(vm.irq)) = Len(vm.irq) - 1
      BY <1>1, <2>1
    <2>3. v \in VmState
      BY <1>1, <2>2, UpdateType
    <2>4. v.irq = Tail(vm.irq) /\ v.ram = vm.ram
      BY <1>1 DEF VmState
    <2>5. Len(v.irq) <= INTERRUPT_MAX
      BY <1>1, <2>2, <2>4, QueueAssumption
    <2> HIDE DEF v
    <2> QED BY <2>1, <2>2, <2>3, <2>4, <2>5, CallRam DEF Accounted, Pushed
  <1>6. CASE DiskRead
    BY <1>6 DEF DiskRead, Accounted, DeviceStep
  <1>7. CASE Radiation
    <2>1. PICK flip \in FLIPS : /\ vm' = [vm EXCEPT !.ram[flip[1]] = BitXor(@, 2^flip[2])]
                                /\ wrote' = {flip[1]}
      BY <1>7 DEF Radiation
    <2>2. c # flip[1] => vm'.ram[c] = vm.ram[c]
      BY <1>1, <2>1 DEF VmState
    <2> QED BY <2>1, <2>2 DEF Accounted
  <1>8. CASE FireBurn
    <2>1. PICK fill \in [FIRE_CELLS -> FIRE_FILLS] :
             vm' = [MapScreen(vm) EXCEPT
                       !.fire_wait = FIRE_TICKS,
                       !.ram = [x \in Word |-> IF x \in FIRE_CELLS
                                               THEN fill[x] ELSE vm.ram[x]]]
      BY <1>8 DEF FireBurn
    <2> DEFINE mem == [x \in Word |-> IF x \in FIRE_CELLS THEN fill[x] ELSE vm.ram[x]]
    <2>2. vm'.ram = mem
      <3>1. vm' = [MapScreen(vm) EXCEPT !.fire_wait = FIRE_TICKS, !.ram = mem]
        BY <2>1
      <3> HIDE DEF mem
      <3> QED BY <1>1, <3>1 DEF MapScreen, VmState
    <2>3. c \in FIRE_CELLS
      BY <2>2
    <2>4. wrote' = FIRE_CELLS
      BY <1>8 DEF FireBurn
    <2> QED BY <2>3, <2>4 DEF Accounted
  <1> QED BY <1>2, <1>3, <1>4, <1>5, <1>6, <1>7, <1>8

LEMMA SkipRam ==
    ASSUME Inv, SkipOne, NEW c \in Word, vm'.ram[c] # vm.ram[c]
    PROVE  Accounted(c)
  <1> DEFINE i == Decode[vm.ram[vm.pc]]
             v0 == vm_consume_word(vm)
             v1 == ResolveStep(v0, i.a, "A")
             v2 == ResolveStep(v1, i.b, "B")
             v == [v2 EXCEPT !.sleep_cycles = @ + 1]
  <1>1. vm \in VmState /\ call \in [msg : Word, pc : Word, ret : HookPhase \cup {"start"}]
    BY InvParts
  <1>2. i.a \in Operand /\ i.b \in Operand
    BY <1>1, FetchType DEF Instruction, Instr
  <1>3. v0 \in VmState /\ v0.ram = vm.ram
    BY <1>1, <1>2, ConsumeType, OperandsKeepRam
  <1>4. v1 \in VmState /\ v1.ram = vm.ram
    BY <1>2, <1>3, ResolveStepType, OperandsKeepRam
  <1>5. v2 \in VmState /\ v2.ram = vm.ram
    BY <1>2, <1>4, ResolveStepType, OperandsKeepRam
  <1> HIDE DEF v2
  <1>6. v \in VmState
    BY <1>5, ChargeType
  <1>7. v.ram = vm.ram
    BY <1>5 DEF VmState
  <1>8. \/ vm' = v
        \/ /\ vm' = Enter(Skipped(v), call.msg, call.pc)
           /\ event' = Event("deliver", call.msg)
    BY DEF SkipOne, v2
  <1> HIDE DEF v
  <1>9. Skipped(v) \in VmState /\ Skipped(v).ram = vm.ram
    BY <1>2, <1>6, <1>7, SkippedType, OperandsKeepRam
  <1>10. call.msg \in Word /\ call.pc \in Word
    BY <1>1
  <1>11. vm' = Enter(Skipped(v), call.msg, call.pc) /\ event'.kind = "deliver"
    BY <1>7, <1>8 DEF Event
  <1>12. c \in {vm'.sp, Inc(vm'.sp)}
    BY <1>9, <1>10, <1>11, EnterRam
  <1> QED BY <1>11, <1>12 DEF Accounted, Pushed

\* Every store of every opcode, addressing mode, fire and radiation reaches
\* HOOK_ON_WRITE, whatever the program; the exceptions are the pushes of JSR
\* and of vm_interrupt and the cells devices write (VM_HOOK_FIRE, dcpuops.c).
THEOREM EveryStoreIsHooked == Spec => StoresAreHooked
  <1>1. Inv /\ [Next]_vars =>
           [\A x \in Word : vm'.ram[x] # vm.ram[x] =>
               x \in wrote' \cup Pushed \/ (DeviceStep /\ Transfers # {})]_vars
    <2> SUFFICES ASSUME Inv, Next, NEW x \in Word, vm'.ram[x] # vm.ram[x] PROVE Accounted(x)
      BY DEF Accounted
    <2> QED BY CycleRam, SkipRam, ExecuteRam DEF Next
  <1> QED BY <1>1, Invariance, PTL DEF Spec, StoresAreHooked

-----------------------------------------------------------------------------
(* Skipped instructions *)

\* PC once operand x was passed over: vm_consume_word, or nothing.
Past(pc, x) == IF IndexedOperand(x) \/ x = NXT_LIT THEN Inc(pc) ELSE pc

\* Machine u is v with PC moved to pc; skip and the cycle count aside.
MovedTo(u, v, pc) == ProgramView(u) = ProgramView(v) /\ u.pc = pc

\* An operand met with skip set takes its word and leaves the rest alone: both
\* resolvers test skip before they move SP.  vm_internal_get_store has no case
\* for NXT_LIT, whose word it does not take.
LEMMA SkippedOperand ==
    ASSUME NEW v \in VmState, v.skip, NEW val \in Operand, NEW pos \in {"A", "B"}
    PROVE  /\ MovedTo(ResolveStep(v, val, pos), v, Past(v.pc, val))
           /\ val # NXT_LIT => MovedTo(GetStoreStep(v, val, pos), v, Past(v.pc, val))
  BY DEF MovedTo, Past, ProgramView, ResolveStep, GetStoreStep, vm_consume_word, VmState

\* Neither the cycle count nor the end of skipping is part of the view.
LEMMA SkippedCharge ==
    ASSUME NEW v \in VmState, NEW op
    PROVE  /\ MovedTo(Charge(v, op), v, v.pc)
           /\ MovedTo(Skipped(v), v, v.pc) /\ ~Skipped(v).skip
  BY DEF MovedTo, ProgramView, Charge, Skipped, VmState

\* PC after one, two and three words is the sum the assembler counts with.
LEMMA PastWords ==
    ASSUME NEW pc \in Word, NEW i \in Instr
    PROVE  /\ i.op \in Branch \cup Arith \cup {"SET", "STI", "STD"} =>
                 Past(Past(Inc(pc), i.a), i.b) = (pc + InstrWords(i)) % W
           /\ i.op \notin Branch \cup Arith \cup {"SET", "STI", "STD"} =>
                 Past(Inc(pc), i.a) = (pc + InstrWords(i)) % W
  <1>1. pc \in Int /\ pc + 1 \in Int /\ pc + 2 \in Int
    BY WordAssumption DEF Word
  <1>2. Inc((pc + 1) % W) = ((pc + 1) + 1) % W /\ Inc((pc + 2) % W) = ((pc + 2) + 1) % W
    BY <1>1, IncDec
  <1>3. /\ Inc(pc) = (pc + 1) % W
        /\ Inc(Inc(pc)) = (pc + 2) % W
        /\ Inc(Inc(Inc(pc))) = (pc + 3) % W
    <2>1. (pc + 1) + 1 = pc + 2 /\ (pc + 2) + 1 = pc + 3
      BY <1>1
    <2>2. Inc(pc) = (pc + 1) % W
      BY DEF Inc
    <2> QED BY <1>2, <2>1, <2>2
  <1> DEFINE more(x) == IndexedOperand(x) \/ x = NXT_LIT
             basic == i.op \in Branch \cup Arith \cup {"SET", "STI", "STD"}
  <1>4. InstrWords(i) = 1 + (IF more(i.a) THEN 1 ELSE 0)
                          + (IF basic THEN IF more(i.b) THEN 1 ELSE 0 ELSE 0)
    BY DEF InstrWords
  <1>5. \A p, x : Past(p, x) = IF more(x) THEN Inc(p) ELSE p
    BY DEF Past
  <1> HIDE DEF more
  <1>6. basic => Past(Past(Inc(pc), i.a), i.b) = (pc + InstrWords(i)) % W
    <2> HAVE basic
    <2>1. CASE more(i.a) /\ more(i.b)
      BY <1>3, <1>4, <1>5, <2>1
    <2>2. CASE more(i.a) /\ ~more(i.b)
      BY <1>3, <1>4, <1>5, <2>2
    <2>3. CASE ~more(i.a) /\ more(i.b)
      BY <1>3, <1>4, <1>5, <2>3
    <2>4. CASE ~more(i.a) /\ ~more(i.b)
      BY <1>3, <1>4, <1>5, <2>4
    <2> QED BY <2>1, <2>2, <2>3, <2>4
  <1>7. ~basic => Past(Inc(pc), i.a) = (pc + InstrWords(i)) % W
    BY <1>3, <1>4, <1>5
  <1> QED BY <1>6, <1>7

\* The instruction assigns to a literal of the next word.  The assembler accepts
\* "SET 0x30, 1", and the machine then executes the word that is left.
AssignsLiteral(i) ==
    \/ i.op \in Arith \cup {"SET", "STI", "STD"} /\ i.b = NXT_LIT
    \/ i.op \in {"IAG", "HWN"} /\ i.a = NXT_LIT

\* The program never comes to such an instruction.
NoAssignedLiteral == [](phase = "exec" => ~AssignsLiteral(Instruction))

\* What each vm_op function leaves of a machine whose skip is set.
LEMMA SkippedInstruction ==
    ASSUME NEW v \in VmState, v.skip, NEW i \in Instr
    PROVE  /\ i.b # NXT_LIT => MovedTo(ReadAB(v, i), v, Past(Past(v.pc, i.a), i.b))
           /\ MovedTo(Read1(v, i), v, Past(v.pc, i.a))
           /\ MovedTo(vm_op_if(v, i), v, Past(Past(v.pc, i.a), i.b)) /\ vm_op_if(v, i).skip
           /\ \A x : i.a # NXT_LIT =>
                 MovedTo(StoreA(v, i, x), v, Past(v.pc, i.a)) /\ ~StoreA(v, i, x).skip
  <1> DEFINE r == ReadA(v, i)
             g == GetStoreStep(r, i.b, "B")
             h == GetStoreStep(v, i.a, "A")
             u == ResolveStep(r, i.b, "B")
  <1>1. i.a \in Operand /\ i.b \in Operand /\ v.pc \in Word
    BY DEF Instr, VmState
  <1>2. r \in VmState /\ r.skip /\ MovedTo(r, v, Past(v.pc, i.a))
    <2>1. r.skip = v.skip
      BY <1>1, OperandsKeepControl DEF ReadA
    <2> QED BY <1>1, <2>1, ReadType, SkippedOperand DEF ReadA
  <1> HIDE DEF r
  <1>3. g \in VmState /\ (i.b # NXT_LIT => MovedTo(g, r, Past(r.pc, i.b)))
    BY <1>1, <1>2, GetStoreStepType, SkippedOperand
  <1>4. h \in VmState /\ (i.a # NXT_LIT => MovedTo(h, v, Past(v.pc, i.a)))
    BY <1>1, GetStoreStepType, SkippedOperand
  <1>5. u.skip /\ MovedTo(u, r, Past(r.pc, i.b))
    <2>1. u.skip = r.skip
      BY <1>1, <1>2, OperandsKeepControl
    <2> QED BY <1>1, <1>2, <2>1, SkippedOperand
  <1>6. vm_op_if(v, i) = u
    BY DEF vm_op_if, r
  <1>7. ReadAB(v, i) = Charge(g, i.op) /\ Read1(v, i) = Charge(r, i.op)
    BY DEF ReadAB, Read1, r
  <1>8. \A x : StoreA(v, i, x) = Skipped(Charge(h, i.op))
    BY DEF StoreA
  <1> HIDE DEF g, h, u
  <1>9. i.b # NXT_LIT => MovedTo(Charge(g, i.op), v, Past(Past(v.pc, i.a), i.b))
    BY <1>2, <1>3, SkippedCharge DEF MovedTo
  <1>10. MovedTo(Charge(r, i.op), v, Past(v.pc, i.a))
    BY <1>2, SkippedCharge DEF MovedTo
  <1>11. MovedTo(u, v, Past(Past(v.pc, i.a), i.b))
    BY <1>2, <1>5 DEF MovedTo
  <1>12. /\ i.a # NXT_LIT => MovedTo(Skipped(Charge(h, i.op)), v, Past(v.pc, i.a))
         /\ ~Skipped(Charge(h, i.op)).skip
    <2>1. Charge(h, i.op) \in VmState /\ MovedTo(Charge(h, i.op), h, h.pc)
      BY <1>4, CyclesType, SkippedCharge
    <2>2. /\ MovedTo(Skipped(Charge(h, i.op)), Charge(h, i.op), Charge(h, i.op).pc)
          /\ ~Skipped(Charge(h, i.op)).skip
      BY <2>1, SkippedCharge
    <2> QED BY <1>4, <2>1, <2>2 DEF MovedTo
  <1> QED BY <1>5, <1>6, <1>7, <1>8, <1>9, <1>10, <1>11, <1>12

LEMMA SkippedExecute ==
    ASSUME Inv, ~AssignsLiteral(Instruction), Execute, vm.skip,
           Instruction.op \notin {"INT", "INVALID"}
    PROVE  PassesOver
  <1> DEFINE f == Fetched
             i == Instruction
             both == Past(Past(f.pc, i.a), i.b)
             one == Past(f.pc, i.a)
             basic == i.op \in Branch \cup Arith \cup {"SET", "STI", "STD"}
             s == Skipped(ReadAB(f, i))
             t == Skipped(Read1(f, i))
  <1>1. vm \in VmState /\ vm.pc \in Word /\ vm.ram[vm.pc] \in Word
    BY InvParts DEF VmState
  <1>2. /\ f \in VmState /\ i \in Instr /\ f.skip /\ f.pc = Inc(vm.pc)
        /\ ProgramView(f) = ProgramView(vm)
    <2>1. f \in VmState /\ i \in Instr
      BY <1>1, FetchType
    <2>2. (f.skip <=> vm.skip) /\ f.pc = Inc(vm.pc) /\ ProgramView(f) = ProgramView(vm)
      BY <1>1 DEF Fetched, vm_consume_word, ProgramView, VmState
    <2> QED BY <2>1, <2>2
  <1>3. /\ i.op \in Arith \cup {"SET", "STI", "STD"} => i.b # NXT_LIT
        /\ i.op \in {"IAG", "HWN"} => i.a # NXT_LIT
    BY DEF AssignsLiteral
  <1> HIDE DEF f, i
  <1>4. /\ basic => both = (vm.pc + InstrWords(i)) % W
        /\ ~basic => one = (vm.pc + InstrWords(i)) % W
    BY <1>1, <1>2, PastWords
  <1>5. /\ i.b # NXT_LIT => MovedTo(s, f, both)
        /\ MovedTo(t, f, one) /\ ~s.skip /\ ~t.skip
        /\ MovedTo(vm_op_if(f, i), f, both) /\ vm_op_if(f, i).skip
        /\ \A x : i.a # NXT_LIT => MovedTo(StoreA(f, i, x), f, one) /\ ~StoreA(f, i, x).skip
    <2>1. ReadAB(f, i) \in VmState /\ Read1(f, i) \in VmState
      BY <1>2, ReadType
    <2>2. /\ MovedTo(s, ReadAB(f, i), ReadAB(f, i).pc) /\ ~s.skip
          /\ MovedTo(t, Read1(f, i), Read1(f, i).pc) /\ ~t.skip
      BY <2>1, SkippedCharge
    <2>3. /\ i.b # NXT_LIT => MovedTo(ReadAB(f, i), f, both)
          /\ MovedTo(Read1(f, i), f, one)
          /\ MovedTo(vm_op_if(f, i), f, both) /\ vm_op_if(f, i).skip
          /\ \A x : i.a # NXT_LIT => MovedTo(StoreA(f, i, x), f, one) /\ ~StoreA(f, i, x).skip
      BY <1>2, SkippedInstruction
    <2> HIDE DEF s, t
    <2> QED BY <2>2, <2>3 DEF MovedTo
  <1> HIDE DEF both, one
  <1>6. SUFFICES /\ MovedTo(vm', f, (vm.pc + InstrWords(i)) % W) /\ wrote' = {}
                 /\ vm'.skip <=> i.op \in Branch
    BY <1>2 DEF PassesOver, MovedTo, i
  <1>7. StoredA = {} /\ StoredB = {}
    BY DEF StoredA, StoredB
  <1>8. CASE ExecSet \/ ExecArithmetic \/ ExecSetMove
    <2>1. i.op \in Arith \cup {"SET", "STI", "STD"} /\ wrote' = {}
      BY <1>7, <1>8 DEF ExecSet, ExecArithmetic, ExecSetMove, Executes, Retire, i
    <2>2. \/ vm' = vm_op_set(f, i) \/ vm' = vm_op_sti(f, i) \/ vm' = vm_op_arith(f, i)
      BY <1>8 DEF ExecSet, ExecArithmetic, ExecSetMove, Retire, f, i
    <2>3. vm' = s
      BY <1>2, <2>2 DEF vm_op_set, vm_op_sti, vm_op_arith
    <2>4. basic /\ i.op \notin Branch
      BY <2>1 DEF Branch, Arith
    <2> HIDE DEF s
    <2> QED BY <1>3, <1>4, <1>5, <2>1, <2>3, <2>4
  <1>9. CASE ExecIf
    <2>1. vm' = vm_op_if(f, i) /\ wrote' = {} /\ i.op \in Branch
      BY <1>9 DEF ExecIf, Executes, Retire, f, i
    <2> QED BY <1>4, <1>5, <2>1
  <1>10. CASE ExecIag \/ ExecHwn
    <2>1. /\ i.op \in {"IAG", "HWN"} /\ wrote' = {}
          /\ vm' = StoreA(f, i, f.ia) \/ vm' = StoreA(f, i, Len(HwTable))
      BY <1>7, <1>10 DEF ExecIag, ExecHwn, vm_op_iag, vm_op_hwn, Executes, Retire, f, i
    <2>2. ~basic /\ i.op \notin Branch
      BY <2>1 DEF Branch, Arith
    <2> QED BY <1>3, <1>4, <1>5, <2>1, <2>2
  <1>11. CASE ExecJsr \/ ExecIas \/ ExecRfi \/ ExecIaq \/ ExecHwq \/ ExecHwi
    <2>1. i.op \in {"JSR", "IAS", "RFI", "IAQ", "HWQ", "HWI"} /\ wrote' = {}
      BY <1>11 DEF ExecJsr, ExecIas, ExecRfi, ExecIaq, ExecHwq, ExecHwi, Executes, Retire, i
    <2>2. \/ vm' = vm_op_jsr(f, i) \/ vm' = vm_op_ias(f, i) \/ vm' = vm_op_rfi(f, i)
          \/ vm' = vm_op_iaq(f, i) \/ vm' = vm_op_hwq(f, i) \/ vm' = t
      BY <1>11 DEF ExecJsr, ExecIas, ExecRfi, ExecIaq, ExecHwq, ExecHwi, Retire, f, i
    <2>3. vm' = t
      BY <1>2, <2>2 DEF vm_op_jsr, vm_op_ias, vm_op_rfi, vm_op_iaq, vm_op_hwq
    <2>4. ~basic /\ i.op \notin Branch
      BY <2>1 DEF Branch, Arith
    <2> HIDE DEF t
    <2> QED BY <1>4, <1>5, <2>1, <2>3, <2>4
  <1>12. ~ExecInt /\ ~ExecInvalid
    BY DEF ExecInt, ExecInvalid, Executes, i
  <1> QED BY <1>8, <1>9, <1>10, <1>11, <1>12 DEF Execute

\* A skipped instruction is passed over whole and changes nothing the program
\* can see (VM_SKIP_RESET and the skip tests of both resolvers, dcpuops.c), for
\* every opcode but INT and every operand.  A program that comes to an assignment
\* to a literal of the next word is excluded: vm_internal_get_store leaves that
\* word to be executed, skipped or not.
THEOREM SkippedIsPure == NoAssignedLiteral /\ Spec => SkipIsPure
  <1>1. Inv /\ (phase = "exec" => ~AssignsLiteral(Instruction)) =>
           [Execute /\ vm.skip /\ Instruction.op \notin {"INT", "INVALID"} => PassesOver]_vars
    <2>1. Execute => phase = "exec"
      BY DEF Execute, Executes, ExecSet, ExecArithmetic, ExecIf, ExecSetMove, ExecJsr, ExecInt,
             ExecIag, ExecIas, ExecRfi, ExecIaq, ExecHwn, ExecHwq, ExecHwi, ExecInvalid
    <2> QED BY <2>1, SkippedExecute
  <1> QED BY <1>1, Invariance, PTL DEF Spec, SkipIsPure, NoAssignedLiteral
=============================================================================
