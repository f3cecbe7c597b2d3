---------------------------- MODULE ClockProofs ----------------------------
(***************************************************************************)
(* Proof that the clock counts exactly the cycles that start an            *)
(* instruction, for every program, rate, queue and sequence of commands.   *)
(* The property is about the states between two cycles; inside a cycle the *)
(* clock is one behind from the moment the machine wakes until the         *)
(* pre-cycle hook runs, also while vm_interrupt skips instructions for a   *)
(* 60 Hz hook.  The inductive invariant says which states those are.       *)
(***************************************************************************)
EXTENDS Clock, DcpuVmProofs

\* The cycle has begun and the clock's hook has not run yet.
Begun == phase \in {"sixty", "irq"} \/ (phase = "skipping" /\ call.ret = "sixty")

\* The cycles the clock has counted.
Counted == elapsed - (IF Begun THEN 1 ELSE 0)

ClockMeans ==
    cycles_per_tick # 0 /\ elapsed < MAX_ELAPSED =>
        /\ clock_ticks = (Counted \div cycles_per_tick) % W
        /\ clock_cycles = Counted % cycles_per_tick

\* The inductive invariant.
CInv == Inv /\ ClockTypeOK /\ elapsed \in Nat /\ ClockMeans

\* A cycle begins when an awake machine starts one and the hook runs when the
\* queue was looked at; no other step changes that.
LEMMA BegunStep ==
    ASSUME Inv, Next
    PROVE  /\ Awake => ~Begun /\ Begun'
           /\ phase = "irq" => ~Begun'
           /\ ~Awake /\ phase # "irq" => (Begun' <=> Begun)
  <1>1. /\ vm \in VmState /\ call \in [msg : Word, pc : Word, ret : HookPhase \cup {"start"}]
        /\ vm.sleep_cycles \in Nat
    BY InvParts DEF VmState
  <1>2. ASSUME NEW v, NEW m, NEW ret \in HookPhase, vm_interrupt(v, m, ret)
        PROVE  phase' = ret \/ (phase' = "skipping" /\ call'.ret = ret)
    BY <1>2 DEF vm_interrupt
  <1>3. CASE Sleep
    BY <1>1, <1>3 DEF Sleep, Begun, Awake
  <1>4. CASE Wake
    BY <1>4 DEF Wake, Begun, Awake
  <1>5. CASE HookRaise
    <2>1. phase \in HookPhase /\ (phase' = phase \/ (phase' = "skipping" /\ call'.ret = phase))
      BY <1>2, <1>5 DEF HookRaise
    <2> QED BY <2>1 DEF Begun, Awake, HookPhase
  <1>6. CASE HookHalt \/ DiskRead \/ WindowClosed
    <2>1. phase \in {"pre", "sixty"} /\ phase' = phase
      BY <1>6 DEF HookHalt, DiskRead, WindowClosed
    <2> QED BY <2>1 DEF Begun, Awake
  <1>7. CASE SixtyDone
    BY <1>7 DEF SixtyDone, Begun, Awake
  <1>8. CASE Dequeue
    <2>1. phase = "irq" /\ (phase' = "pre" \/ (phase' = "skipping" /\ call'.ret = "pre"))
      BY <1>2, <1>8 DEF Dequeue, HookPhase
    <2> QED BY <2>1 DEF Begun, Awake
  <1>9. CASE NothingQueued
    BY <1>9 DEF NothingQueued, Begun, Awake
  <1>10. CASE SkipOne
    <2>1. phase = "skipping" /\ (phase' = call.ret \/ (phase' = phase /\ call' = call))
      BY <1>10 DEF SkipOne
    <2>2. call.ret \in {"sixty", "pre", "hw", "post", "start"}
      BY <1>1 DEF HookPhase
    <2>3. (Begun <=> call.ret = "sixty") /\ ~Awake /\ phase # "irq"
      BY <2>1 DEF Begun, Awake
    <2>4. Begun' <=> call.ret = "sixty"
      <3>1. CASE phase' = call.ret
        BY <2>2, <3>1 DEF Begun
      <3>2. CASE phase' = phase /\ call' = call
        BY <2>1, <3>2 DEF Begun
      <3> QED BY <2>1, <3>1, <3>2
    <2> QED BY <2>3, <2>4
  <1>11. CASE PreDone \/ Radiation \/ FireWait \/ FireBurn \/ HwDone \/ PostDone
    <2>1. phase \in {"pre", "rad", "exec", "hw", "post"} /\ phase' \in {"start", "rad", "exec", "post"}
      BY <1>11 DEF PreDone, Radiation, FireWait, FireBurn, HwDone, PostDone
    <2> QED BY <2>1 DEF Begun, Awake
  <1>12. CASE Execute
    <2>1. phase = "exec"
      BY <1>12 DEF Execute, Executes, ExecSet, ExecArithmetic, ExecIf, ExecSetMove, ExecJsr,
             ExecInt, ExecIag, ExecIas, ExecRfi, ExecIaq, ExecHwn, ExecHwq, ExecHwi,
             ExecInvalid
    <2>2. CASE ExecInt
      <3>1. phase' = "post" \/ (phase' = "skipping" /\ call'.ret = "post")
        BY <1>2, <2>2 DEF ExecInt, HookPhase
      <3> QED BY <2>1, <3>1 DEF Begun, Awake
    <2>3. CASE ~ExecInt
      <3>1. phase' \in {"post", "hw"}
        BY <1>12, <2>3 DEF Execute, ExecSet, ExecArithmetic, ExecIf, ExecSetMove, ExecJsr,
               ExecIag, ExecIas, ExecRfi, ExecIaq, ExecHwn, ExecHwq, ExecHwi,
               ExecInvalid, Retire
      <3> QED BY <2>1, <3>1 DEF Begun, Awake
    <2> QED BY <2>2, <2>3
  <1> QED BY <1>3, <1>4, <1>5, <1>6, <1>7, <1>8, <1>9, <1>10, <1>11, <1>12 DEF Next

\* The pre-cycle hook advances the counters by the one cycle that is owed.
LEMMA HookInv ==
    ASSUME CInv, CNext, phase = "irq"
    PROVE  ClockTypeOK' /\ elapsed' \in Nat /\ ClockMeans'
  <1>1. clock_cycle /\ elapsed' = elapsed
    BY DEF CNext, Count, Commanded, Executes, Awake
  <1>2. Begun /\ ~Begun'
    BY BegunStep DEF CNext, CInv, Begun
  <1>3. /\ cycles_per_tick \in Nat /\ clock_ticks \in Word /\ clock_cycles \in Nat
        /\ clock_cycles < cycles_per_tick \/ clock_cycles = 0
        /\ message \in Word /\ elapsed \in Nat /\ clock_ticks \in Nat
    BY WordArithmetic DEF CInv, ClockTypeOK
  <1>4. cycles_per_tick' = cycles_per_tick /\ message' = message
    BY <1>1 DEF clock_cycle
  <1>5. ClockTypeOK'
    <2>1. CASE cycles_per_tick # 0 /\ clock_cycles + 1 >= cycles_per_tick
      <3>1. clock_ticks' = (clock_ticks + 1) % W /\ clock_cycles' = 0
        BY <1>1, <2>1 DEF clock_cycle
      <3>2. (clock_ticks + 1) % W \in Word
        BY <1>3, WordArithmetic DEF Inc
      <3> QED BY <1>3, <1>4, <3>1, <3>2 DEF ClockTypeOK
    <2>2. CASE ~(cycles_per_tick # 0 /\ clock_cycles + 1 >= cycles_per_tick)
      <3>1. /\ clock_ticks' = clock_ticks
            /\ clock_cycles' = IF cycles_per_tick # 0 THEN clock_cycles + 1 ELSE clock_cycles
        BY <1>1, <2>2 DEF clock_cycle
      <3> QED BY <1>3, <1>4, <2>2, <3>1 DEF ClockTypeOK
    <2> QED BY <2>1, <2>2
  <1>6. ClockMeans'
    <2> SUFFICES ASSUME cycles_per_tick # 0, elapsed < MAX_ELAPSED
                 PROVE  /\ clock_ticks' = (elapsed \div cycles_per_tick) % W
                        /\ clock_cycles' = elapsed % cycles_per_tick
      BY <1>1, <1>2, <1>3, <1>4 DEF ClockMeans, Counted
    <2> DEFINE x == elapsed - 1
               q == x \div cycles_per_tick
               r == x % cycles_per_tick
    <2>1. x \in Int /\ x + 1 = elapsed /\ cycles_per_tick \in Nat \ {0}
      BY <1>3
    <2>2. q \in Int /\ r \in Int
      BY <2>1
    <2>3. clock_ticks = q % W /\ clock_cycles = r
      BY <1>2 DEF CInv, ClockMeans, Counted
    <2>4. /\ elapsed % cycles_per_tick = IF r = cycles_per_tick - 1 THEN 0 ELSE r + 1
          /\ elapsed \div cycles_per_tick = IF r = cycles_per_tick - 1 THEN q + 1 ELSE q
      BY <2>1, ModStep
    <2>5. ((q % W) + 1) % W = (q + 1) % W
      <3>1. W \in Nat \ {0}
        BY WordArithmetic
      <3> QED BY <2>2, <3>1, ModInc
    <2> HIDE DEF q, r
    <2>6. clock_cycles + 1 >= cycles_per_tick <=> r = cycles_per_tick - 1
      BY <1>3, <2>1, <2>3
    <2>7. CASE r = cycles_per_tick - 1
      <3>1. clock_ticks' = (clock_ticks + 1) % W /\ clock_cycles' = 0
        BY <1>1, <2>6, <2>7 DEF clock_cycle
      <3> QED BY <2>3, <2>4, <2>5, <2>7, <3>1
    <2>8. CASE r # cycles_per_tick - 1
      <3>1. clock_ticks' = clock_ticks /\ clock_cycles' = clock_cycles + 1
        BY <1>1, <2>6, <2>8 DEF clock_cycle
      <3> QED BY <2>3, <2>4, <2>8, <3>1
    <2> QED BY <2>7, <2>8
  <1> QED BY <1>1, <1>3, <1>5, <1>6

\* A command sets the clock up, or leaves the counters alone.
LEMMA CommandInv ==
    ASSUME CInv, CNext, phase # "irq", Commanded
    PROVE  ClockTypeOK' /\ elapsed' \in Nat /\ ClockMeans'
  <1>1. clock_interrupt /\ phase = "exec" /\ phase' = "hw"
    BY DEF CNext, Commanded, Executes
  <1>2. ~Begun /\ ~Begun' /\ ~Awake
    BY <1>1 DEF Begun, Awake
  <1>3. /\ cycles_per_tick \in Nat /\ clock_ticks \in Word /\ clock_cycles \in Nat
        /\ clock_cycles < cycles_per_tick \/ clock_cycles = 0
        /\ message \in Word /\ elapsed \in Nat /\ Register(REG_B) \in Word /\ Register(REG_B) \in Nat
    <2>1. Register(REG_B) \in Word
      BY InvParts DEF CInv, Register, VmState, Reg, REG_B
    <2> QED BY <2>1, WordArithmetic DEF CInv, ClockTypeOK
  <1>4. CASE Register(REG_A) = TIMER_SET_ENABLED
    <2>1. /\ cycles_per_tick' = (DCPU_TICKS * Register(REG_B)) \div 60
          /\ clock_ticks' = 0 /\ clock_cycles' = 0 /\ message' = message
      BY <1>1, <1>4 DEF clock_interrupt, TIMER_SET_ENABLED, TIMER_GET_ELAPSED,
                        TIMER_SET_INTERRUPT
    <2>2. elapsed' = 0
      BY <1>4 DEF CNext, Count
    <2>3. cycles_per_tick' \in Nat
      <3>1. DCPU_TICKS * Register(REG_B) \in Nat
        BY <1>3, ClockAssumption
      <3> QED BY <2>1, <3>1
    <2>4. ClockTypeOK'
      BY <1>3, <2>1, <2>3, WordArithmetic DEF ClockTypeOK
    <2>5. ClockMeans'
      <3> SUFFICES ASSUME cycles_per_tick' # 0
                   PROVE  /\ clock_ticks' = (0 \div cycles_per_tick') % W
                          /\ clock_cycles' = 0 % cycles_per_tick'
        BY <1>2, <2>2 DEF ClockMeans, Counted
      <3>1. 0 \div cycles_per_tick' = 0 /\ 0 % cycles_per_tick' = 0
        <4>1. \A d \in Nat \ {0} : 0 \div d = 0 /\ 0 % d = 0
          <5> SUFFICES ASSUME NEW d \in Nat \ {0} PROVE 0 \div d = 0 /\ 0 % d = 0
            OBVIOUS
          <5>1. d * 0 + 0 = 0 /\ 0 \in 0 .. d - 1
            OBVIOUS
          <5>2. (d * 0 + 0) \div d = 0 /\ (d * 0 + 0) % d = 0
            BY <5>1, DivModUnique
          <5> QED BY <5>1, <5>2
        <4> QED BY <2>3, <4>1
      <3>2. 0 % W = 0
        BY WordArithmetic
      <3> QED BY <2>1, <3>1, <3>2
    <2> QED BY <2>2, <2>4, <2>5
  <1>5. CASE Register(REG_A) # TIMER_SET_ENABLED
    <2>1. /\ UNCHANGED <<cycles_per_tick, clock_ticks, clock_cycles>>
          /\ message' \in {message, Register(REG_B)}
      BY <1>1, <1>5 DEF clock_interrupt, clock
    <2>2. elapsed' = elapsed
      BY <1>2, <1>5 DEF CNext, Count
    <2>3. ClockTypeOK'
      BY <1>3, <2>1 DEF ClockTypeOK
    <2>4. Counted' = Counted
      BY <1>2, <2>2 DEF Counted
    <2>5. ClockMeans'
      BY <2>1, <2>2, <2>4 DEF CInv, ClockMeans
    <2> QED BY <1>3, <2>2, <2>3, <2>5
  <1> QED BY <1>4, <1>5

\* Every other step leaves the clock alone; starting a cycle puts it one behind.
LEMMA QuietlyInv ==
    ASSUME CInv, CNext, phase # "irq", ~Commanded
    PROVE  ClockTypeOK' /\ elapsed' \in Nat /\ ClockMeans'
  <1>1. UNCHANGED clock
    BY DEF CNext, Quietly
  <1>2. elapsed' = IF Awake /\ cycles_per_tick # 0 /\ elapsed < MAX_ELAPSED
                   THEN elapsed + 1 ELSE elapsed
    BY DEF CNext, Count
  <1>3. elapsed \in Nat /\ MAX_ELAPSED \in Nat
    BY ClockAssumption DEF CInv
  <1>4. ClockTypeOK'
    BY <1>1 DEF CInv, ClockTypeOK, clock
  <1>5. /\ Awake => ~Begun /\ Begun'
        /\ ~Awake => (Begun' <=> Begun)
    BY BegunStep DEF CNext, CInv
  <1>6. ClockMeans'
    <2> SUFFICES ASSUME cycles_per_tick # 0, elapsed' < MAX_ELAPSED
                 PROVE  /\ clock_ticks = (Counted' \div cycles_per_tick) % W
                        /\ clock_cycles = Counted' % cycles_per_tick
      BY <1>1 DEF ClockMeans, clock
    <2>1. elapsed < MAX_ELAPSED
      BY <1>2, <1>3
    <2>2. Counted' = Counted
      <3>1. CASE Awake
        BY <1>2, <1>3, <1>5, <2>1, <3>1 DEF Counted
      <3>2. CASE ~Awake
        BY <1>2, <1>5, <3>2 DEF Counted
      <3> QED BY <3>1, <3>2
    <2> QED BY <2>1, <2>2 DEF CInv, ClockMeans
  <1> QED BY <1>2, <1>3, <1>4, <1>6

LEMMA CInvariance == CSpec => []CInv
  <1>1. CInit => CInv
    <2> SUFFICES ASSUME CInit PROVE CInv
      OBVIOUS
    <2>1. Inv
      BY InitInv DEF CInit
    <2>2. ClockTypeOK /\ elapsed \in Nat /\ ClockMeans
      BY WordArithmetic DEF CInit, ClockTypeOK, ClockMeans
    <2> QED BY <2>1, <2>2 DEF CInv
  <1>2. CInv /\ [CNext]_cvars => CInv'
    <2> SUFFICES ASSUME CInv, [CNext]_cvars PROVE CInv'
      OBVIOUS
    <2>1. Inv'
      BY NextInv DEF CInv, CNext, cvars
    <2>2. CASE UNCHANGED cvars
      <3>1. ClockTypeOK' /\ elapsed' \in Nat
        BY <2>2 DEF CInv, ClockTypeOK, cvars, clock
      <3>2. ClockMeans'
        BY <2>2 DEF CInv, ClockMeans, Counted, Begun, cvars, clock, vars
      <3> QED BY <2>1, <3>1, <3>2 DEF CInv
    <2>3. CASE CNext
      BY <2>1, <2>3, HookInv, CommandInv, QuietlyInv DEF CInv
    <2> QED BY <2>2, <2>3
  <1> QED BY <1>1, <1>2, PTL DEF CSpec

\* Between two cycles the clock's ticks and its counter are the quotient and
\* the remainder of the cycles that ran hooks since it was enabled, whatever
\* handlers, skipped instructions and commands ran between (vm_hw_clock_cycle,
\* vm_hw_clock_interrupt).
THEOREM ClockCorrect == CSpec => []ClockInv
  <1>1. CInv => ClockInv
    <2> SUFFICES ASSUME CInv PROVE ClockInv
      OBVIOUS
    <2>1. phase = "start" => Counted = elapsed
      BY DEF Counted, Begun, CInv
    <2> QED BY <2>1 DEF CInv, ClockMeans, ClockInv, CountsAwakeCycles
  <1> QED BY <1>1, CInvariance, PTL
=============================================================================
