------------------------------- MODULE Clock -------------------------------
(***************************************************************************)
(* The generic clock of libdcpu-vm (hwclock.c) as the only device of the   *)
(* machine of DcpuVm.  Its pre-cycle hook counts and raises the message;   *)
(* HWI sets it up.  The clock replaces DcpuVm's free choice of hook calls. *)
(***************************************************************************)
EXTENDS DcpuVm

CONSTANTS
    DCPU_TICKS,   \* cycles of a second, DCPU_TICKS_KHZ * 1000
    MAX_ELAPSED   \* where elapsed stops counting

ASSUME ClockAssumption == DCPU_TICKS \in Nat \ {0} /\ MAX_ELAPSED \in Nat

VARIABLES
    cycles_per_tick, clock_ticks, clock_cycles, message,
    elapsed   \* cycles that ran hooks since the clock was enabled

clock == <<cycles_per_tick, clock_ticks, clock_cycles, message>>
cvars == <<vars, clock, elapsed>>

TIMER_SET_ENABLED == 0
TIMER_GET_ELAPSED == 1
TIMER_SET_INTERRUPT == 2

CInit == /\ Init
         /\ cycles_per_tick = 0 /\ clock_ticks = 0 /\ clock_cycles = 0 /\ message = 0
         /\ elapsed = 0

\* Mutants: the counter is not started again; one cycle late; it never ticks.
clock_cycle_NoReset ==
    IF cycles_per_tick # 0 /\ clock_cycles + 1 >= cycles_per_tick
    THEN /\ clock_ticks' = (clock_ticks + 1) % W /\ clock_cycles' = clock_cycles
         /\ raise' = IF message # 0 THEN <<message>> ELSE << >>
         /\ UNCHANGED <<cycles_per_tick, message>>
    ELSE /\ clock_cycles' = IF cycles_per_tick # 0 THEN clock_cycles + 1 ELSE clock_cycles
         /\ raise' = << >> /\ UNCHANGED <<cycles_per_tick, clock_ticks, message>>

clock_cycle_Late ==
    IF cycles_per_tick # 0 /\ clock_cycles >= cycles_per_tick
    THEN /\ clock_ticks' = (clock_ticks + 1) % W /\ clock_cycles' = 0
         /\ raise' = IF message # 0 THEN <<message>> ELSE << >>
         /\ UNCHANGED <<cycles_per_tick, message>>
    ELSE /\ clock_cycles' = IF cycles_per_tick # 0 THEN clock_cycles + 1 ELSE clock_cycles
         /\ raise' = << >> /\ UNCHANGED <<cycles_per_tick, clock_ticks, message>>

clock_cycle_NoMessage ==
    /\ clock_ticks' = clock_ticks /\ clock_cycles' = 0 /\ raise' = << >>
    /\ UNCHANGED <<cycles_per_tick, message>>

\* The pre-cycle hook; what it raises is passed to vm_interrupt next.
clock_cycle ==
    IF cycles_per_tick # 0 /\ clock_cycles + 1 >= cycles_per_tick
    THEN /\ clock_ticks' = (clock_ticks + 1) % W /\ clock_cycles' = 0
         /\ raise' = IF message # 0 THEN <<message>> ELSE << >>
         /\ UNCHANGED <<cycles_per_tick, message>>
    ELSE /\ clock_cycles' = IF cycles_per_tick # 0 THEN clock_cycles + 1 ELSE clock_cycles
         /\ raise' = << >> /\ UNCHANGED <<cycles_per_tick, clock_ticks, message>>

\* The instruction is an HWI that reaches the clock.
Commanded == Executes({"HWI"}) /\ ~vm.skip /\ phase' = "hw"

Register(r) == vm.registers[r]

clock_interrupt ==
    LET a == Register(REG_A) IN
    /\ raise' = << >>
    /\ \/ /\ a = TIMER_SET_ENABLED
          /\ cycles_per_tick' = (DCPU_TICKS * Register(REG_B)) \div 60
          /\ clock_ticks' = 0 /\ clock_cycles' = 0 /\ UNCHANGED message
          /\ vm' = Read1(Fetched, Instruction)
       \/ /\ a = TIMER_GET_ELAPSED
          /\ vm' = HwAnswer(Read1(Fetched, Instruction),
                            [r \in {REG_B, REG_C} |-> clock_ticks], {REG_C})
          /\ UNCHANGED clock
       \/ /\ a = TIMER_SET_INTERRUPT /\ message' = Register(REG_B)
          /\ UNCHANGED <<cycles_per_tick, clock_ticks, clock_cycles>>
          /\ vm' = Read1(Fetched, Instruction)
       \/ /\ a \notin {TIMER_SET_ENABLED, TIMER_GET_ELAPSED, TIMER_SET_INTERRUPT}
          /\ vm' = Read1(Fetched, Instruction) /\ UNCHANGED clock

\* No other device: only the pre-cycle hook and HWI do anything.
Quietly ==
    /\ UNCHANGED clock
    /\ raise' = IF phase \in HookPhase /\ raise # << >> THEN Tail(raise) ELSE << >>

\* A call of vm_cycle that does not merely count sleep_cycles down.
Awake == phase = "start" /\ vm.sleep_cycles = 0

Count == elapsed' = IF Commanded /\ Register(REG_A) = TIMER_SET_ENABLED THEN 0
                    ELSE IF Awake /\ cycles_per_tick # 0 /\ elapsed < MAX_ELAPSED
                         THEN elapsed + 1 ELSE elapsed

CNext ==
    /\ Next /\ vm'.exit = vm.exit
    /\ IF phase = "irq" THEN clock_cycle
       ELSE IF Commanded THEN clock_interrupt ELSE Quietly
    /\ Count

CSpec == CInit /\ [][CNext]_cvars
CFairSpec == CSpec /\ WF_cvars(CNext)

-----------------------------------------------------------------------------
(* Properties *)

\* The counter stays below the period and the clock's registers are words.
ClockTypeOK ==
    /\ cycles_per_tick \in Nat /\ clock_ticks \in Word /\ message \in Word
    /\ clock_cycles \in Nat /\ (clock_cycles < cycles_per_tick \/ clock_cycles = 0)

\* An enabled clock with a message interrupts a program that handles
\* interrupts again and again, unless the machine stops.
KeepsTicking ==
    []<>(cycles_per_tick # 0 /\ message # 0 /\ vm.ia # 0 => event.kind = "deliver" \/ ~Running)

\* hwclock.h says the hook is "triggered each VM cycle"; vm_cycle runs no hook
\* while it sleeps, so what the clock counts exactly is the cycles that start an
\* instruction, whatever handlers, queued messages and commands run between.
CountsAwakeCycles ==
    phase = "start" /\ cycles_per_tick # 0 /\ elapsed < MAX_ELAPSED =>
        /\ clock_ticks = (elapsed \div cycles_per_tick) % W
        /\ clock_cycles = elapsed % cycles_per_tick

\* What the counters stand for, and their types.
ClockInv == ClockTypeOK /\ CountsAwakeCycles
=============================================================================
