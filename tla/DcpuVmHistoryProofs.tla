------------------------ MODULE DcpuVmHistoryProofs ------------------------
(***************************************************************************)
(* Proofs about what happens to an interrupt over its whole life, for      *)
(* every program, queue capacity and set of devices: none is lost or       *)
(* settled twice, and without IAQ handlers do not nest.  Both follow from  *)
(* one account of every step, which rests on the machine's own invariant.  *)
(***************************************************************************)
EXTENDS DcpuVmHistory, DcpuVmProofs

\* A message inside the skip loop of vm_interrupt.
Entering == IF phase = "skipping" THEN 1 ELSE 0
\* A message the step was done with.
Settles == IF event'.kind \in {"deliver", "ignore", "overflow"} THEN 1 ELSE 0
Arrives == IF Calls THEN 1 ELSE 0

\* What every step does to the messages and to the queueing flag.
Account ==
    /\ Len(vm'.irq) + Entering' + Settles = Len(vm.irq) + Entering + Arrives
    /\ event'.kind = "deliver" => ~vm.queue_interrupts /\ vm'.queue_interrupts
    /\ event'.kind = "return" => ~vm'.queue_interrupts
    /\ event'.kind \notin {"deliver", "return"} /\ ~Executes({"IAQ"}) =>
          (vm'.queue_interrupts <=> vm.queue_interrupts)

\* A call of vm_interrupt puts its message into the queue, settles it or
\* takes it into the skip loop.
LEMMA CallAccount ==
    ASSUME NEW v \in VmState, Len(v.irq) <= INTERRUPT_MAX, NEW m \in Word,
           NEW ret \in HookPhase, vm_interrupt(v, m, ret)
    PROVE  /\ Len(vm'.irq) + Entering' + Settles = Len(v.irq) + 1
           /\ event'.kind = "deliver" => ~v.queue_interrupts /\ vm'.queue_interrupts
           /\ event'.kind # "return"
           /\ event'.kind # "deliver" => (vm'.queue_interrupts <=> v.queue_interrupts)
  <1>1. v.irq \in Seq(Word) /\ Len(v.irq) \in Nat /\ v.pc \in Word /\ ret # "skipping"
    BY DEF VmState, HookPhase
  <1>2. CASE /\ v.queue_interrupts /\ vm' = QueueMsg(v, m) /\ phase' = ret
             /\ event' = Event(IF vm'.irq = v.irq THEN "overflow" ELSE "queue", m)
    <2>0. vm'.queue_interrupts <=> v.queue_interrupts
      <3>1. QueueMsg(v, m).queue_interrupts = v.queue_interrupts
        BY QueueMsgType
      <3> QED BY <1>2, <3>1, Zenon
    <2>1. CASE vm'.irq = Append(v.irq, m)
      <3>1. Len(vm'.irq) = Len(v.irq) + 1
        BY <1>1, <2>1
      <3>2. event'.kind = "queue"
        <4>1. vm'.irq # v.irq
          BY <1>1, <3>1
        <4> QED BY <1>2, <4>1 DEF Event
      <3>3. Len(vm'.irq) + Entering' + Settles = Len(v.irq) + 1
        <4>1. Entering' = 0 /\ Settles = 0
          BY <1>1, <1>2, <3>2 DEF Entering, Settles
        <4> QED BY <1>1, <3>1, <4>1
      <3> QED BY <2>0, <3>2, <3>3
    <2>2. CASE vm'.irq = v.irq
      <3>1. event'.kind = "overflow"
        BY <1>2, <2>2 DEF Event
      <3>2. Len(vm'.irq) + Entering' + Settles = Len(v.irq) + 1
        <4>1. Entering' = 0 /\ Settles = 1
          BY <1>1, <1>2, <3>1 DEF Entering, Settles
        <4> QED BY <1>1, <2>2, <4>1
      <3> QED BY <2>0, <3>1, <3>2
    <2> QED BY <1>2, <2>1, <2>2, QueueMsgType
  <1>3. CASE vm' = v /\ phase' = ret /\ event' = Event("ignore", m)
    BY <1>1, <1>3 DEF Event, Entering, Settles
  <1>4. CASE /\ ~v.queue_interrupts /\ vm' = Enter(v, m, v.pc) /\ phase' = ret
             /\ event' = Event("deliver", m)
    <2>0. Enter(v, m, v.pc).irq = v.irq /\ Enter(v, m, v.pc).queue_interrupts = TRUE
      BY <1>1, EnterType
    <2>1. vm'.irq = v.irq /\ vm'.queue_interrupts
      BY <1>4, <2>0, Zenon
    <2> QED BY <1>1, <1>4, <2>1 DEF Event, Entering, Settles
  <1>5. CASE vm' = v /\ phase' = "skipping" /\ event' = Quiet
    BY <1>1, <1>5 DEF Quiet, Event, Entering, Settles
  <1> QED BY <1>2, <1>3, <1>4, <1>5 DEF vm_interrupt

\* Steps that call nothing and deliver nothing.
LEMMA SilentAccount ==
    ASSUME Inv, event' = Quiet, vm'.irq = vm.irq, phase # "skipping", phase' # "skipping",
           ~Calls, vm'.queue_interrupts = vm.queue_interrupts \/ Executes({"IAQ"})
    PROVE  Account
  <1>1. event'.kind = "none" /\ Len(vm.irq) \in Nat
    BY InvParts DEF Quiet, Event, VmState
  <1> QED BY <1>1 DEF Account, Settles, Arrives, Entering

LEMMA CycleAccount ==
    ASSUME Inv,
           \/ Sleep \/ Wake \/ HookHalt \/ DiskRead \/ WindowClosed \/ SixtyDone
           \/ NothingQueued \/ PreDone \/ Radiation \/ FireWait \/ FireBurn
           \/ HwDone \/ PostDone
    PROVE  Account
  <1>1. vm \in VmState
    BY InvParts
  <1>2. event' = Quiet
    BY DEF Sleep, Wake, HookHalt, DiskRead, WindowClosed, SixtyDone, NothingQueued, PreDone,
           Radiation, FireWait, FireBurn, HwDone, PostDone, Silent
  <1>3. phase # "skipping" /\ phase' # "skipping"
    BY DEF Sleep, Wake, HookHalt, DiskRead, WindowClosed, SixtyDone, NothingQueued, PreDone,
           Radiation, FireWait, FireBurn, HwDone, PostDone
  <1>4. phase \in HookPhase => raise' = raise \/ raise = << >>
    BY DEF Sleep, Wake, HookHalt, DiskRead, WindowClosed, SixtyDone, NothingQueued, PreDone,
           Radiation, FireWait, FireBurn, HwDone, PostDone, HookPhase
  <1>5. ~Executes({"INT"})
    <2>1. phase = "exec" => vm.on_fire
      BY DEF Sleep, Wake, HookHalt, DiskRead, WindowClosed, SixtyDone, NothingQueued, PreDone,
             Radiation, FireWait, FireBurn, HwDone, PostDone
    <2> QED BY <2>1 DEF Executes
  <1>6. ~Calls
    BY <1>4, <1>5 DEF Calls
  <1>7. vm'.irq = vm.irq /\ vm'.queue_interrupts = vm.queue_interrupts
    <2>1. CASE Wake \/ SixtyDone \/ NothingQueued \/ PreDone \/ HwDone \/ PostDone
      BY <2>1 DEF Wake, SixtyDone, NothingQueued, PreDone, HwDone, PostDone
    <2>2. CASE Sleep \/ WindowClosed \/ HookHalt \/ Radiation \/ FireWait
      BY <1>1, <2>2, SwitchAssumption DEF Sleep, WindowClosed, HookHalt, vm_halt, Radiation, FireWait, VmState
    <2>3. CASE DiskRead
      <3>1. PICK mem : vm' = [vm EXCEPT !.ram = mem]
        BY <2>3 DEF DiskRead
      <3> QED BY <1>1, <3>1 DEF VmState
    <2>4. CASE FireBurn
      <3>1. PICK mem : vm' = [MapScreen(vm) EXCEPT !.fire_wait = FIRE_TICKS, !.ram = mem]
        BY <2>4 DEF FireBurn
      <3> QED BY <1>1, <3>1 DEF MapScreen, VmState
    <2> QED BY <2>1, <2>2, <2>3, <2>4
  <1> QED BY <1>2, <1>3, <1>6, <1>7, SilentAccount

\* A hook's message is new; the queue's own is not.
LEMMA RaiseAccount == Inv /\ (HookRaise \/ Dequeue) => Account
  <1> SUFFICES ASSUME Inv, HookRaise \/ Dequeue PROVE Account
    OBVIOUS
  <1>1. /\ vm \in VmState /\ raise \in Seq(Word) /\ Len(vm.irq) <= INTERRUPT_MAX
        /\ vm.irq \in Seq(Word) /\ Len(vm.irq) \in Nat
    BY InvParts DEF VmState
  <1>2. CASE HookRaise
    <2>1. /\ phase \in HookPhase /\ raise # << >> /\ raise' = Tail(raise)
          /\ vm_interrupt(vm, Head(raise), phase)
      BY <1>2 DEF HookRaise
    <2>2. Head(raise) \in Word /\ Len(raise') = Len(raise) - 1 /\ Len(raise) \in Nat
      BY <1>1, <2>1
    <2>3. Calls
      <3>1. raise' # raise
        BY <2>2
      <3> QED BY <2>1, <3>1 DEF Calls
    <2>4. /\ Len(vm'.irq) + Entering' + Settles = Len(vm.irq) + 1
          /\ event'.kind = "deliver" => ~vm.queue_interrupts /\ vm'.queue_interrupts
          /\ event'.kind # "return"
          /\ event'.kind # "deliver" => (vm'.queue_interrupts <=> vm.queue_interrupts)
      BY <1>1, <2>1, <2>2, CallAccount
    <2>5. Arrives = 1 /\ Entering = 0
      BY <2>1, <2>3 DEF Arrives, Entering, HookPhase
    <2> QED BY <1>1, <2>4, <2>5 DEF Account
  <1>3. CASE Dequeue
    <2> DEFINE v == [vm EXCEPT !.irq = Tail(vm.irq)]
    <2>1. phase = "irq" /\ vm.irq # << >> /\ vm_interrupt(v, Head(vm.irq), "pre")
      BY <1>3 DEF Dequeue
    <2>2. /\ Head(vm.irq) \in Word /\ Tail(vm.irq) \in Seq(Word)
          /\ Len(Tail(vm.irq)) = Len(vm.irq) - 1
      BY <1>1, <2>1
    <2>3. v \in VmState
      BY <1>1, <2>2, UpdateType
    <2>4. v.irq = Tail(vm.irq) /\ v.queue_interrupts = vm.queue_interrupts
      BY <1>1 DEF VmState
    <2>5. Len(v.irq) <= INTERRUPT_MAX
      BY <1>1, <2>2, <2>4, QueueAssumption
    <2> HIDE DEF v
    <2>6. /\ Len(vm'.irq) + Entering' + Settles = Len(v.irq) + 1
          /\ event'.kind = "deliver" => ~v.queue_interrupts /\ vm'.queue_interrupts
          /\ event'.kind # "return"
          /\ event'.kind # "deliver" => (vm'.queue_interrupts <=> v.queue_interrupts)
      BY <2>1, <2>2, <2>3, <2>5, CallAccount DEF HookPhase
    <2>7. Arrives = 0 /\ Entering = 0
      BY <2>1 DEF Arrives, Calls, Executes, Entering, HookPhase
    <2> QED BY <1>1, <2>2, <2>4, <2>6, <2>7 DEF Account
  <1> QED BY <1>2, <1>3

\* The skip loop keeps its message until it delivers it.
LEMMA SkipAccount == Inv /\ SkipOne => Account
  <1> SUFFICES ASSUME Inv, SkipOne PROVE Account
    OBVIOUS
  <1> DEFINE i == Decode[vm.ram[vm.pc]]
             v0 == vm_consume_word(vm)
             v1 == ResolveStep(v0, i.a, "A")
             v2 == ResolveStep(v1, i.b, "B")
             v == [v2 EXCEPT !.sleep_cycles = @ + 1]
  <1>1. /\ vm \in VmState /\ call \in [msg : Word, pc : Word, ret : HookPhase \cup {"start"}]
        /\ vm.irq \in Seq(Word) /\ Len(vm.irq) \in Nat
        /\ phase = "skipping" => ~vm.queue_interrupts
    BY InvParts DEF VmState
  <1>2. i.a \in Operand /\ i.b \in Operand
    BY <1>1, FetchType DEF Instruction, Instr
  <1>3. v0 \in VmState /\ Control(v0) = Control(vm)
    BY <1>1, FetchType DEF Fetched
  <1>4. v1 \in VmState /\ Control(v1) = Control(vm)
    BY <1>2, <1>3, ResolveStepType, OperandsKeepControl
  <1>5. v2 \in VmState /\ Control(v2) = Control(vm)
    BY <1>2, <1>4, ResolveStepType, OperandsKeepControl
  <1> HIDE DEF v2
  <1>6. v \in VmState
    BY <1>5, ChargeType
  <1>7. v.irq = vm.irq /\ v.queue_interrupts = vm.queue_interrupts
    BY <1>5 DEF Control, VmState
  <1>8. /\ phase = "skipping"
        /\ \/ vm' = v /\ event' = Quiet /\ phase' = phase
           \/ /\ vm' = Enter(Skipped(v), call.msg, call.pc)
              /\ phase' = call.ret /\ event' = Event("deliver", call.msg)
    BY DEF SkipOne, v2
  <1> HIDE DEF v
  <1>9. Arrives = 0 /\ Entering = 1
    BY <1>8 DEF Arrives, Calls, Executes, Entering, HookPhase
  <1>10. CASE vm' = v /\ event' = Quiet /\ phase' = phase
    <2>1. event'.kind = "none" /\ Entering' = 1
      BY <1>9, <1>10 DEF Entering, Quiet, Event
    <2> QED BY <1>1, <1>7, <1>9, <1>10, <2>1 DEF Account, Settles
  <1>11. CASE /\ vm' = Enter(Skipped(v), call.msg, call.pc)
              /\ phase' = call.ret /\ event' = Event("deliver", call.msg)
    <2>1. Skipped(v) \in VmState /\ Skipped(v).irq = v.irq
      BY <1>6, SkippedType DEF Control
    <2>2. call.msg \in Word /\ call.pc \in Word /\ call.ret # "skipping"
      BY <1>1 DEF HookPhase
    <2>3. vm'.irq = vm.irq /\ vm'.queue_interrupts
      BY <1>7, <1>11, <2>1, <2>2, EnterType
    <2>4. event'.kind = "deliver" /\ Entering' = 0
      BY <1>11, <2>2 DEF Event, Entering
    <2> QED BY <1>1, <1>8, <1>9, <2>3, <2>4 DEF Account, Settles
  <1> QED BY <1>8, <1>10, <1>11

LEMMA ExecuteAccount == Inv /\ Execute => Account
  <1> SUFFICES ASSUME Inv, Execute PROVE Account
    OBVIOUS
  <1> DEFINE f == Fetched
             i == Instruction
             r == Read1(f, i)
  <1>1. /\ vm \in VmState /\ Len(vm.irq) <= INTERRUPT_MAX
        /\ vm.irq \in Seq(Word) /\ Len(vm.irq) \in Nat
    BY InvParts DEF VmState
  <1>2. /\ f \in VmState /\ i \in Instr /\ f.irq = vm.irq
        /\ f.queue_interrupts = vm.queue_interrupts /\ f.skip = vm.skip
    BY <1>1, FetchType DEF Control
  <1>3. /\ r \in VmState /\ ValA(f, i) \in Word /\ r.irq = vm.irq
        /\ r.queue_interrupts = vm.queue_interrupts /\ Control(r) = Control(f)
    BY <1>2, ReadType DEF Control
  <1>4. phase = "exec"
    BY DEF Execute, Executes, ExecSet, ExecArithmetic, ExecIf, ExecSetMove, ExecJsr,
           ExecInt, ExecIag, ExecIas, ExecRfi, ExecIaq, ExecHwn, ExecHwq, ExecHwi,
           ExecInvalid
  <1>5. ~Executes({"INT"}) => ~Calls
    BY <1>4 DEF Calls, HookPhase
  <1> HIDE DEF f, i, r
  <1>6. CASE ExecSet \/ ExecArithmetic \/ ExecIf \/ ExecSetMove \/ ExecJsr \/ ExecIag
             \/ ExecHwn \/ ExecHwq \/ ExecIas
    <2>1. \/ vm' = vm_op_set(f, i)
          \/ i.op \in Arith /\ vm' = vm_op_arith(f, i)
          \/ vm' = vm_op_if(f, i) \/ vm' = vm_op_sti(f, i) \/ vm' = vm_op_jsr(f, i)
          \/ vm' = vm_op_iag(f, i) \/ vm' = vm_op_hwn(f, i) \/ vm' = vm_op_hwq(f, i)
          \/ vm' = vm_op_ias(f, i)
      BY <1>6 DEF ExecSet, ExecArithmetic, ExecIf, ExecSetMove, ExecJsr, ExecIag, ExecHwn,
                  ExecHwq, ExecIas, Executes, Retire, f, i
    <2>2. event' = Quiet /\ phase' = "post" /\ ~Executes({"INT"})
      BY <1>6 DEF ExecSet, ExecArithmetic, ExecIf, ExecSetMove, ExecJsr, ExecIag, ExecHwn,
                  ExecHwq, ExecIas, Executes, Retire, Branch, Arith
    <2>3. /\ vm_op_set(f, i).irq = f.irq
          /\ vm_op_set(f, i).queue_interrupts = f.queue_interrupts
          /\ i.op \in Arith => /\ vm_op_arith(f, i).irq = f.irq
                               /\ vm_op_arith(f, i).queue_interrupts = f.queue_interrupts
          /\ vm_op_if(f, i).irq = f.irq /\ vm_op_if(f, i).queue_interrupts = f.queue_interrupts
          /\ vm_op_sti(f, i).irq = f.irq /\ vm_op_sti(f, i).queue_interrupts = f.queue_interrupts
      BY <1>2, BasicType DEF Control
    <2>4. /\ vm_op_jsr(f, i).irq = f.irq /\ vm_op_jsr(f, i).queue_interrupts = f.queue_interrupts
          /\ vm_op_iag(f, i).irq = f.irq /\ vm_op_iag(f, i).queue_interrupts = f.queue_interrupts
          /\ vm_op_hwn(f, i).irq = f.irq /\ vm_op_hwn(f, i).queue_interrupts = f.queue_interrupts
          /\ vm_op_hwq(f, i).irq = f.irq /\ vm_op_hwq(f, i).queue_interrupts = f.queue_interrupts
          /\ vm_op_ias(f, i).irq = f.irq /\ vm_op_ias(f, i).queue_interrupts = f.queue_interrupts
      BY <1>2, SpecialType DEF Control
    <2>5. vm'.irq = vm.irq /\ vm'.queue_interrupts = vm.queue_interrupts
      BY <1>2, <2>1, <2>3, <2>4
    <2> QED BY <1>4, <1>5, <2>2, <2>5, SilentAccount
  <1>7. CASE ExecIaq
    <2>1. Executes({"IAQ"}) /\ event' = Quiet /\ phase' = "post" /\ vm' = vm_op_iaq(f, i)
      BY <1>7 DEF ExecIaq, Retire, f, i
    <2>2. ~Executes({"INT"})
      BY <2>1 DEF Executes
    <2>3. vm'.irq = vm.irq
      BY <1>2, <2>1, SpecialType
    <2> QED BY <1>4, <1>5, <2>1, <2>2, <2>3, SilentAccount
  <1>8. CASE ExecRfi
    <2>1. /\ Executes({"RFI"}) /\ phase' = "post" /\ vm' = vm_op_rfi(f, i)
          /\ event' = IF vm.skip THEN Quiet ELSE Event("return", 0)
      BY <1>8 DEF ExecRfi, f, i
    <2>2. ~Executes({"INT"}) /\ ~Calls
      BY <1>5, <2>1 DEF Executes
    <2>3. vm'.irq = vm.irq
      BY <1>2, <2>1, SpecialType
    <2>4. CASE vm.skip
      <3>1. vm' = Skipped(r)
        BY <1>2, <2>1, <2>4 DEF vm_op_rfi, r
      <3>2. vm'.queue_interrupts = vm.queue_interrupts
        BY <1>3, <3>1, SkippedType DEF Control
      <3> QED BY <1>4, <2>1, <2>2, <2>3, <2>4, <3>2, SilentAccount
    <2>5. CASE ~vm.skip
      <3>1. event'.kind = "return"
        BY <2>1, <2>5 DEF Event
      <3>2. ~vm'.queue_interrupts
        BY <1>2, <1>3, <2>1, <2>5 DEF vm_op_rfi, r, VmState
      <3> QED BY <1>1, <1>4, <2>1, <2>2, <2>3, <3>1, <3>2
                 DEF Account, Settles, Arrives, Entering
    <2> QED BY <2>4, <2>5
  <1>9. CASE ExecInt
    <2>1. Executes({"INT"}) /\ vm_interrupt(r, ValA(f, i), "post")
      BY <1>9 DEF ExecInt, r, f, i
    <2>2. /\ Len(vm'.irq) + Entering' + Settles = Len(vm.irq) + 1
          /\ event'.kind = "deliver" => ~r.queue_interrupts /\ vm'.queue_interrupts
          /\ event'.kind # "return"
          /\ event'.kind # "deliver" => (vm'.queue_interrupts <=> r.queue_interrupts)
      BY <1>1, <1>3, <2>1, CallAccount DEF HookPhase
    <2>3. Arrives = 1 /\ Entering = 0
      BY <1>4, <2>1 DEF Arrives, Calls, Entering
    <2> QED BY <1>1, <1>3, <2>2, <2>3 DEF Account
  <1>10. CASE ExecHwi
    <2>1. phase' \in {"post", "hw"} /\ event' = Quiet /\ ~Executes({"INT"})
      BY <1>10 DEF ExecHwi, Retire, Silent, Executes
    <2>2. \/ vm' = Skipped(r) \/ vm' = r
          \/ \E x \in HwReplies, rs \in SUBSET {REG_B, REG_C} : vm' = HwAnswer(r, x, rs)
          \/ \E t \in Transfers : vm' = HwDump(r, t)
      BY <1>10 DEF ExecHwi, Retire, r, f, i
    <2>3. Control(Skipped(r)) = Control(r)
      BY <1>3, SkippedType
    <2>4. Control(vm') = Control(r)
      BY <1>3, <2>2, <2>3, HwAnswerType
    <2>5. vm'.irq = vm.irq /\ vm'.queue_interrupts = vm.queue_interrupts
      BY <1>3, <2>4 DEF Control
    <2> QED BY <1>4, <1>5, <2>1, <2>5, SilentAccount
  <1>11. CASE ExecInvalid
    <2>1. /\ phase' = "post" /\ event' = Quiet /\ ~Executes({"INT"})
          /\ vm' = [f EXCEPT !.halted = TRUE] \/ vm' = [f EXCEPT !.on_fire = TRUE]
      BY <1>11 DEF ExecInvalid, vm_halt, Retire, Executes, f
    <2>2. vm'.irq = vm.irq /\ vm'.queue_interrupts = vm.queue_interrupts
      BY <1>2, <2>1 DEF VmState
    <2> QED BY <1>4, <1>5, <2>1, <2>2, SilentAccount
  <1> QED BY <1>6, <1>7, <1>8, <1>9, <1>10, <1>11 DEF Execute

LEMMA NextAccount == Inv /\ Next => Account
  BY CycleAccount, RaiseAccount, SkipAccount, ExecuteAccount DEF Next

-----------------------------------------------------------------------------

LEMMA HInvariance == HSpec => []Inv
  <1>1. HInit => Inv
    BY InitInv DEF HInit
  <1>2. Inv /\ [HNext]_hvars => Inv'
    BY NextInv DEF HNext, hvars
  <1> QED BY <1>1, <1>2, PTL DEF HSpec

\* No interrupt is lost or settled twice, whoever raised it and whatever the
\* program, the skip loop, a full queue or another device did meanwhile
\* (vm_interrupt and vm_cycle of vm.c).
THEOREM AccountsForAll == HSpec => []Accounting
  <1>1. HInit => Accounting
    <2> SUFFICES ASSUME HInit PROVE Accounting
      OBVIOUS
    <2>1. outstanding = 0 /\ phase = "start" /\ vm.irq = << >>
      BY DEF HInit, Init, vm_reset
    <2> QED BY <2>1 DEF Accounting
  <1>2. Inv /\ Inv' /\ Accounting /\ [HNext]_hvars => Accounting'
    <2> SUFFICES ASSUME Inv, Inv', Accounting, [HNext]_hvars PROVE Accounting'
      OBVIOUS
    <2>1. CASE UNCHANGED hvars
      BY <2>1 DEF Accounting, hvars, vars
    <2>2. CASE HNext
      <3>1. Account
        BY <2>2, NextAccount DEF HNext
      <3>2. outstanding' = outstanding + Arrives - Settles
        BY <2>2 DEF HNext, Record, Arrives, Settles
      <3>3. /\ Len(vm.irq) \in Nat /\ Len(vm'.irq) \in Nat
            /\ Arrives \in Int /\ Settles \in Int /\ Entering \in Int /\ Entering' \in Int
        BY InvParts, InvPartsNext DEF Arrives, Settles, Entering, VmState
      <3>4. outstanding = Len(vm.irq) + Entering
        BY DEF Accounting, Entering
      <3>5. Len(vm'.irq) + Entering' + Settles = Len(vm.irq) + Entering + Arrives
        BY <3>1 DEF Account
      <3> HIDE DEF Entering, Settles, Arrives
      <3>6. outstanding' = Len(vm'.irq) + Entering'
        BY <3>2, <3>3, <3>4, <3>5
      <3> QED BY <3>6 DEF Accounting, Entering
    <2> QED BY <2>1, <2>2
  <1> QED BY <1>1, <1>2, HInvariance, PTL DEF HSpec

\* At most one interruption is open, and it is open while queueing is on.
OneFrame ==
    /\ frames = << >> \/ \E x : frames = <<x>>
    /\ vm.queue_interrupts <=> frames # << >>

\* The program never comes to an IAQ.
NoIaq == []~Executes({"IAQ"})

LEMMA FrameStep ==
    ASSUME ~Executes({"IAQ"}), Inv, OneFrame, HNext
    PROVE  OneFrame'
  <1>1. Account
    BY NextAccount DEF HNext
  <1>2. /\ event'.kind = "deliver" => frames' = Append(frames, Frame(Interrupted))
        /\ event'.kind = "return" /\ frames # << >> => frames' = SubSeq(frames, 1, Len(frames) - 1)
        /\ event'.kind # "deliver" /\ ~(event'.kind = "return" /\ frames # << >>) => frames' = frames
    BY Zenon DEF HNext, Record
  <1>3. CASE event'.kind = "deliver"
    <2>1. frames = << >> /\ vm'.queue_interrupts
      BY <1>1, <1>3 DEF Account, OneFrame
    <2>2. frames' = <<Frame(Interrupted)>>
      BY <1>2, <1>3, <2>1
    <2> QED BY <2>1, <2>2 DEF OneFrame
  <1>4. CASE event'.kind = "return"
    <2>1. ~vm'.queue_interrupts
      BY <1>1, <1>4 DEF Account
    <2>2. frames' = << >>
      <3>1. CASE frames = << >>
        BY <1>2, <1>4, <3>1
      <3>2. CASE frames # << >>
        <4>1. PICK x : frames = <<x>>
          BY <3>2 DEF OneFrame
        <4>2. SubSeq(<<x>>, 1, 1 - 1) = << >>
          OBVIOUS
        <4>3. Len(frames) = 1
          BY <4>1
        <4> QED BY <1>2, <1>4, <3>2, <4>1, <4>2, <4>3
      <3> QED BY <3>1, <3>2
    <2> QED BY <2>1, <2>2 DEF OneFrame
  <1>5. CASE event'.kind \notin {"deliver", "return"}
    BY <1>1, <1>2, <1>5 DEF Account, OneFrame
  <1> QED BY <1>3, <1>4, <1>5

\* As long as the program meets no IAQ, handlers do not nest and queueing is on
\* exactly while one runs, whatever devices raise and whenever (vm_interrupt,
\* vm_op_rfi).  An IAQ in a handler does let handlers nest.
THEOREM OneHandlerAtATime == NoIaq /\ HSpec => []HandlersDoNotNest
  <1>1. HInit => OneFrame
    <2> SUFFICES ASSUME HInit PROVE OneFrame
      OBVIOUS
    <2>1. frames = << >> /\ ~vm.queue_interrupts
      BY DEF HInit, Init, vm_reset
    <2> QED BY <2>1 DEF OneFrame
  <1>2. ~Executes({"IAQ"}) /\ Inv /\ OneFrame /\ [HNext]_hvars => OneFrame'
    <2>1. ASSUME OneFrame, UNCHANGED hvars PROVE OneFrame'
      BY <2>1 DEF OneFrame, hvars, vars
    <2> QED BY <2>1, FrameStep
  <1>3. OneFrame => HandlersDoNotNest
    <2> SUFFICES ASSUME OneFrame PROVE HandlersDoNotNest
      OBVIOUS
    <2>1. Len(frames) <= 1
      <3>1. CASE frames = << >>
        BY <3>1
      <3>2. ASSUME NEW x, frames = <<x>> PROVE Len(frames) <= 1
        BY <3>2
      <3> QED BY <3>1, <3>2 DEF OneFrame
    <2> QED BY <2>1 DEF OneFrame, HandlersDoNotNest
  <1> QED BY <1>1, <1>2, <1>3, HInvariance, PTL DEF HSpec, NoIaq
=============================================================================
