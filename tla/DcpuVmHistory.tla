--------------------------- MODULE DcpuVmHistory ---------------------------
(***************************************************************************)
(* DcpuVm with history variables that remember what vm_interrupt was asked *)
(* and what it interrupted, for properties that relate an interrupt to the *)
(* RFI that ends it.  The history never influences the machine.            *)
(***************************************************************************)
EXTENDS DcpuVm

VARIABLES
    outstanding,  \* messages given to vm_interrupt and not yet settled
    frames        \* interruptions whose handler has not returned

hvars == <<vars, outstanding, frames>>

HInit == Init /\ outstanding = 0 /\ frames = << >>

\* The step calls vm_interrupt with a new message.
Calls == (phase \in HookPhase /\ raise # << >> /\ raise' # raise) \/ Executes({"INT"})

\* The machine as the interrupted program left it.
Interrupted ==
    IF phase = "skipping" THEN [vm EXCEPT !.pc = call.pc]
    ELSE IF phase = "exec" THEN Read1(Fetched, Instruction) ELSE vm

Frame(v) == [pc |-> v.pc, a |-> v.registers[REG_A], sp |-> v.sp, skip |-> v.skip]

Record ==
    /\ outstanding' = outstanding + (IF Calls THEN 1 ELSE 0)
         - (IF event'.kind \in {"deliver", "ignore", "overflow"} THEN 1 ELSE 0)
    /\ frames' = CASE event'.kind = "deliver" -> Append(frames, Frame(Interrupted))
                   [] event'.kind = "return" /\ frames # << >> ->
                          SubSeq(frames, 1, Len(frames) - 1)
                   [] OTHER -> frames

HNext == Next /\ Record
HSpec == HInit /\ [][HNext]_hvars

\* vm_execute calls vm_cycle again and again until the machine stops.
HFairSpec == HSpec /\ WF_hvars(HNext)

-----------------------------------------------------------------------------
(* Properties *)

\* No interrupt is lost or duplicated: what was passed to vm_interrupt and is
\* neither delivered, ignored for want of a handler nor refused by a full
\* queue (which halts the machine) is in the queue, or on its way into the
\* handler inside vm_interrupt's skip loop.
Accounting ==
    outstanding = Len(vm.irq) + (IF phase = "skipping" THEN 1 ELSE 0)

\* Handlers do not nest: for a program that never uses IAQ the queue is on
\* exactly while one handler runs, whatever devices raise meanwhile.
HandlersDoNotNest ==
    /\ Len(frames) <= 1
    /\ vm.queue_interrupts <=> frames # << >>

\* RFI at the end of a handler that leaves the stack as it found it resumes
\* the interrupted program: PC, SP and A are what they were.
RfiResumes ==
    [][event'.kind = "return" /\ frames # << >> =>
         LET f == frames[Len(frames)] IN
         vm'.pc = f.pc /\ vm'.sp = f.sp /\ vm'.registers[REG_A] = f.a]_hvars

\* An interrupt that arrives between a failed branch and the instruction it
\* guards does not make that instruction run: on return the machine is either
\* still skipping or past it.
RfiKeepsSkip ==
    [][event'.kind = "return" /\ frames # << >> =>
         LET f == frames[Len(frames)] IN
         f.skip => vm'.skip \/ vm'.pc # f.pc]_hvars
=============================================================================
