--------------------------- MODULE DebuggerProofs ---------------------------
(***************************************************************************)
(* Theorems about Debugger for every word size, program, set of devices,   *)
(* symbol file, Lua module and sequence of commands: no breakpoint is      *)
(* passed unreported, next stops behind the instruction, listings leave    *)
(* the machine as it was, and the backtrace keeps the calls in progress.   *)
(***************************************************************************)
EXTENDS Debugger, DcpuVmProofs, WellFoundedInduction, SequenceTheorems

-----------------------------------------------------------------------------
(* Recursion over the naturals *)

\* Every non-empty set of naturals has a least element.
LEMMA LeastNat ==
    ASSUME NEW T, T \subseteq Nat, T # {}
    PROVE  \E x \in T : \A y \in T : x <= y
  <1>1. PICK x \in T : \A y \in T : ~(<<y, x>> \in OpToRel(<, Nat))
    BY WFMin, NatLessThanWellFounded
  <1>2. \A y \in T : ~(y < x)
    BY <1>1 DEF OpToRel
  <1> QED BY <1>2

\* A set that has 0 and, with every number, the next one, has them all.
LEMMA AllNat ==
    ASSUME NEW T, 0 \in T, \A n \in Nat : n \in T => n + 1 \in T
    PROVE  Nat \subseteq T
  <1> SUFFICES ASSUME Nat \ T # {} PROVE FALSE
    OBVIOUS
  <1>1. PICK m \in Nat \ T : \A y \in Nat \ T : m <= y
    BY LeastNat
  <1>2. m # 0 /\ m - 1 \in Nat
    BY <1>1
  <1>3. m - 1 \in T
    BY <1>1, <1>2
  <1>4. m \in T
    BY <1>2, <1>3
  <1> QED BY <1>1, <1>4

\* The first n steps of an iteration.
Prefix(h, n, s0, step) ==
    h[0] = s0 /\ \A k \in 0 .. n - 1 : h[k + 1] = step[k][h[k]]

Iteration(h, S, s0, step) ==
    h \in [Nat -> S] /\ h[0] = s0 /\ \A n \in Nat : h[n + 1] = step[n][h[n]]

\* Iterating a step from a start gives a function: the recursions of Listing
\* and Without have a solution.
LEMMA Iterates ==
    ASSUME NEW S, NEW s0 \in S, NEW step \in [Nat -> [S -> S]]
    PROVE  \E h : Iteration(h, S, s0, step)
  <1> DEFINE Has == {n \in Nat : \E h \in [0 .. n -> S] : Prefix(h, n, s0, step)}
             g(n) == CHOOSE h \in [0 .. n -> S] : Prefix(h, n, s0, step)
  <1>1. 0 \in Has
    <2>1. [k \in 0 .. 0 |-> s0] \in [0 .. 0 -> S] /\ Prefix([k \in 0 .. 0 |-> s0], 0, s0, step)
      BY DEF Prefix
    <2> QED BY <2>1
  <1>2. ASSUME NEW n \in Nat, n \in Has PROVE n + 1 \in Has
    <2>1. PICK h \in [0 .. n -> S] : Prefix(h, n, s0, step)
      BY <1>2
    <2> DEFINE e == [k \in 0 .. n + 1 |-> IF k = n + 1 THEN step[n][h[n]] ELSE h[k]]
    <2>2. h[n] \in S /\ step[n] \in [S -> S]
      BY <2>1
    <2>3. e \in [0 .. n + 1 -> S]
      BY <2>1, <2>2
    <2>4. e[0] = s0
      BY <2>1 DEF Prefix
    <2>5. ASSUME NEW k \in 0 .. (n + 1) - 1 PROVE e[k + 1] = step[k][e[k]]
      BY <2>1, <2>5 DEF Prefix
    <2>6. Prefix(e, n + 1, s0, step)
      <3> HIDE DEF e
      <3> QED BY <2>4, <2>5 DEF Prefix
    <2> QED BY <2>3, <2>6
  <1>3. Nat \subseteq Has
    <2> HIDE DEF Has
    <2> QED BY <1>1, <1>2, AllNat
  <1>4. ASSUME NEW n \in Nat PROVE g(n) \in [0 .. n -> S] /\ Prefix(g(n), n, s0, step)
    BY <1>3, <1>4
  <1> HIDE DEF Has, g
  <1>5. ASSUME NEW n \in Nat, NEW k \in Nat, k <= n PROVE g(n)[k] = g(n + 1)[k]
    <2> DEFINE T == {j \in Nat : j <= n => g(n)[j] = g(n + 1)[j]}
    <2>1. n + 1 \in Nat
      OBVIOUS
    <2>2. Prefix(g(n), n, s0, step) /\ Prefix(g(n + 1), n + 1, s0, step)
      BY <1>4, <2>1
    <2>3. 0 \in T
      BY <2>2 DEF Prefix
    <2>4. ASSUME NEW j \in Nat, j \in T PROVE j + 1 \in T
      <3> SUFFICES ASSUME j + 1 <= n PROVE g(n)[j + 1] = g(n + 1)[j + 1]
        OBVIOUS
      <3>1. j \in 0 .. n - 1 /\ j \in 0 .. (n + 1) - 1
        OBVIOUS
      <3>2. g(n)[j + 1] = step[j][g(n)[j]] /\ g(n + 1)[j + 1] = step[j][g(n + 1)[j]]
        BY <2>2, <3>1 DEF Prefix
      <3>3. g(n)[j] = g(n + 1)[j]
        BY <2>4, <3>1
      <3> QED BY <3>2, <3>3
    <2>5. Nat \subseteq T
      <3> HIDE DEF T
      <3> QED BY <2>3, <2>4, AllNat
    <2> QED BY <1>5, <2>5
  <1> DEFINE h == [n \in Nat |-> g(n)[n]]
  <1>6. h \in [Nat -> S]
    BY <1>4
  <1>7. h[0] = s0
    BY <1>4 DEF Prefix
  <1>8. ASSUME NEW n \in Nat PROVE h[n + 1] = step[n][h[n]]
    <2>1. n + 1 \in Nat /\ n \in 0 .. (n + 1) - 1
      OBVIOUS
    <2>2. g(n + 1)[n + 1] = step[n][g(n + 1)[n]]
      BY <1>4, <2>1 DEF Prefix
    <2>3. g(n)[n] = g(n + 1)[n]
      BY <1>5
    <2> QED BY <2>1, <2>2, <2>3
  <1>9. Iteration(h, S, s0, step)
    BY <1>6, <1>7, <1>8 DEF Iteration
  <1> QED BY <1>9

-----------------------------------------------------------------------------
(* The invariant *)

Breakpoint == [addr : Word, silent : BOOLEAN, temporary : BOOLEAN]

\* The types of the session.
SessionOK ==
    /\ hooked \in BOOLEAN /\ ignore_next_breakpoint \in BOOLEAN
    /\ diverted \in BOOLEAN /\ exact \in BOOLEAN
    /\ breakpoints \in Seq(Breakpoint) /\ symbols \in Seq(Symbol)
    /\ backtrace \in Seq(Word) /\ calls \in Seq(Word)
    /\ flash \in [Word -> Word] /\ flash_size \in Word

\* No breakpoint here is still to be reported.
Passed == \/ \A k \in DOMAIN breakpoints : breakpoints[k].addr # vm.pc
          \/ stopped = vm.pc \/ diverted

\* Why no breakpoint is missed.  The flag that lets one pass is up only at the
\* address of the last stop, or behind an interrupt that left it; it is down
\* by the time the instruction runs.  Between the pre-cycle hook and the
\* instruction nothing changes the breakpoints or PC.
BreakInv ==
    /\ Prompt => phase = "start"
    /\ hooked => phase \in {"pre", "skipping"}
    /\ ignore_next_breakpoint => stopped = vm.pc \/ diverted \/ phase = "skipping"
    /\ hooked /\ ignore_next_breakpoint => vm.halted
    /\ hooked /\ phase = "pre" => Passed \/ (vm.halted /\ fire = << >>)
    /\ phase \in {"rad", "exec"} => ~ignore_next_breakpoint /\ Passed

\* The instruction at PC is recorded and carried out alike.
Faithful ==
    /\ vm.skip \/ vm.on_fire => ~Jumps(Instruction)
    /\ Instruction.op = "JSR" => Instruction.a = NXT_LIT

\* Why the backtrace keeps the calls.  The pre-cycle hook records a jump
\* before the instruction carries it out: from there to the instruction the
\* backtrace is that of the calls to come.
Recorded == phase \in {"rad", "exec"} \/ (hooked /\ phase = "pre" /\ ~vm.halted)
TraceInv ==
    exact =>
        /\ hooked => fire = << >>
        /\ Recorded /\ Faithful => Within(CallsAfter, backtrace)
        /\ ~Recorded /\ (hooked => phase = "pre") => Within(calls, backtrace)

SessionInv == WellFormed /\ SessionOK /\ BreakInv /\ TraceInv

-----------------------------------------------------------------------------
(* Listings leave the machine as it was *)

\* The machines that differ from v in the cycles they owe only.
Charged(v) == {w \in VmState : w = [v EXCEPT !.sleep_cycles = w.sleep_cycles]}

\* vm_disassemble puts back what it borrowed, whatever word it decodes.
LEMMA DisassembleOne ==
    ASSUME NEW v \in VmState, NEW pos \in Word
    PROVE  /\ vm_disassemble(v, pos).vm \in Charged(v)
           /\ vm_disassemble(v, pos).size \in Nat
  <1> DEFINE i == Decode[v.ram[pos]]
             at0 == [v EXCEPT !.pc = pos]
             zero == vm_consume_word(at0)
             one == ResolveStep(zero, i.a, "A")
             two == IF i.op \in Branch \cup Arith \cup {"SET", "STI", "STD"}
                    THEN ResolveStep(one, i.b, "B") ELSE one
             back == [two EXCEPT !.pc = v.pc, !.sp = v.sp]
             \* all of a machine but what the operands move
             Rest(w) == <<w.registers, w.ex, w.ia, w.ram, w.dummy, w.irq, w.queue_interrupts,
                          w.halted, w.exit, w.skip, w.on_fire, w.fire_wait, w.screen_mapped>>
  <1>1. v.ram[pos] \in Word /\ v.pc \in Word /\ v.sp \in Word
    BY DEF VmState
  <1>2. i.a \in Operand /\ i.b \in Operand
    BY <1>1, DecodeAssumption
  <1>3. \A w \in VmState, val \in Operand, p \in {"A", "B"} :
            Rest(ResolveStep(w, val, p)) = Rest(w)
    BY DEF ResolveStep, vm_consume_word, PopPush, VmState
  <1> HIDE DEF i
  <1>4. at0 \in VmState /\ Rest(at0) = Rest(v)
    <2>1. at0 \in VmState
      BY UpdateType
    <2>2. Rest(at0) = Rest(v)
      BY DEF VmState
    <2> QED BY <2>1, <2>2
  <1> HIDE DEF at0
  <1>5. zero \in VmState /\ Rest(zero) = Rest(v)
    BY <1>4, ConsumeType DEF vm_consume_word, VmState
  <1> HIDE DEF zero
  <1>6. one \in VmState /\ Rest(one) = Rest(v)
    BY <1>2, <1>3, <1>5, ResolveStepType
  <1> HIDE DEF one
  <1>7. two \in VmState /\ Rest(two) = Rest(v)
    BY <1>2, <1>3, <1>6, ResolveStepType
  <1>8. vm_disassemble(v, pos) = [vm |-> back, size |-> (two.pc - pos) % W]
    BY DEF vm_disassemble, i, at0, zero, one
  <1> HIDE DEF two
  <1>9. back \in VmState
    <2>1. [two EXCEPT !.pc = v.pc] \in VmState
      BY <1>1, <1>7, UpdateType
    <2>2. back = [[two EXCEPT !.pc = v.pc] EXCEPT !.sp = v.sp]
      BY <1>7 DEF VmState
    <2> QED BY <1>1, <2>1, <2>2, UpdateType
  <1>10. back = [v EXCEPT !.sleep_cycles = back.sleep_cycles]
    <2> DEFINE n == two.sleep_cycles
    <2>1. /\ two.registers = v.registers /\ two.ex = v.ex /\ two.ia = v.ia /\ two.ram = v.ram
          /\ two.dummy = v.dummy /\ two.irq = v.irq /\ two.halted = v.halted
          /\ two.queue_interrupts = v.queue_interrupts /\ two.exit = v.exit
          /\ two.skip = v.skip /\ two.on_fire = v.on_fire /\ two.fire_wait = v.fire_wait
          /\ two.screen_mapped = v.screen_mapped
      BY <1>7
    <2>2. back = [v EXCEPT !.sleep_cycles = n] /\ back.sleep_cycles = n
      BY <1>7, <2>1 DEF VmState
    <2> QED BY <2>2
  <1>11. (two.pc - pos) % W \in Nat
    <2>1. two.pc \in Word
      BY <1>7 DEF VmState
    <2>2. two.pc - pos \in Int
      BY <2>1 DEF Word
    <2> QED BY <2>2, WordArithmetic
  <1> HIDE DEF back
  <1> QED BY <1>8, <1>9, <1>10, <1>11 DEF Charged

\* A listing of v as far as it got.
Rows(v) == [vm : Charged(v), i : Nat, rows : Seq(Word)]

LEMMA ChargedTwice ==
    ASSUME NEW v \in VmState, NEW w \in Charged(v), NEW u \in Charged(w)
    PROVE  u \in Charged(v)
  BY DEF Charged, VmState

LEMMA NextRowType ==
    ASSUME NEW v \in VmState, NEW list \in Rows(v), NEW start \in Int, NEW difference \in Int
    PROVE  NextRow(list, start, difference) \in Rows(v)
  <1> DEFINE pos == (start + list.i) % W
             once == vm_disassemble(list.vm, pos)
             twice == vm_disassemble(once.vm, pos)
  <1>1. /\ list.vm \in VmState /\ list.vm \in Charged(v) /\ list.i \in Nat
        /\ list.rows \in Seq(Word)
    BY DEF Rows, Charged
  <1>2. pos \in Word
    <2>1. start + list.i \in Int
      BY <1>1
    <2> QED BY <2>1, WordArithmetic
  <1> HIDE DEF pos
  <1>3. once.vm \in Charged(list.vm) /\ once.vm \in VmState /\ once.size \in Nat
    BY <1>1, <1>2, DisassembleOne DEF Charged
  <1> HIDE DEF once
  <1>4. twice.vm \in Charged(once.vm)
    BY <1>2, <1>3, DisassembleOne
  <1> HIDE DEF twice
  <1>5. twice.vm \in Charged(v)
    BY <1>1, <1>3, <1>4, ChargedTwice
  <1>6. NextRow(list, start, difference) = list \/
        NextRow(list, start, difference) =
            [vm |-> twice.vm, i |-> list.i + once.size, rows |-> Append(list.rows, pos)]
    BY DEF NextRow, pos, once, twice
  <1>7. list.i + once.size \in Nat /\ Append(list.rows, pos) \in Seq(Word)
    BY <1>1, <1>2, <1>3
  <1> DEFINE n == list.i + once.size
             rs == Append(list.rows, pos)
             u == twice.vm
  <1>8. [vm |-> u, i |-> n, rows |-> rs] \in Rows(v)
    BY <1>5, <1>7 DEF Rows
  <1> QED BY <1>6, <1>8

\* The rows of a listing, as a function that satisfies the recursion.
IsListing(list, v, start, difference) ==
    list = [n \in Nat |-> IF n = 0 THEN [vm |-> v, i |-> 0, rows |-> << >>]
                          ELSE NextRow(list[n - 1], start, difference)]

LEMMA ListingIs ==
    ASSUME NEW v, NEW start, NEW difference
    PROVE  Listing(v, start, difference) =
               (CHOOSE list : IsListing(list, v, start, difference))[AtLeast(difference, 0)]
  BY DEF Listing, IsListing

LEMMA ListingType ==
    ASSUME NEW v \in VmState, NEW start \in Int, NEW difference \in Int
    PROVE  Listing(v, start, difference) \in Rows(v)
  <1> DEFINE s0 == [vm |-> v, i |-> 0, rows |-> << >>]
             step == [n \in Nat |-> [x \in Rows(v) |-> NextRow(x, start, difference)]]
             list == CHOOSE l : IsListing(l, v, start, difference)
             T == {n \in Nat : list[n] \in Rows(v)}
  <1>1. s0 \in Rows(v)
    BY DEF Rows, Charged, VmState
  <1>2. step \in [Nat -> [Rows(v) -> Rows(v)]]
    BY NextRowType
  <1>3. \E l : IsListing(l, v, start, difference)
    <2> HIDE DEF s0, step
    <2>1. PICK h : Iteration(h, Rows(v), s0, step)
      BY <1>1, <1>2, Iterates
    <2>2. ASSUME NEW n \in Nat, n # 0 PROVE h[n] = NextRow(h[n - 1], start, difference)
      <3>1. n - 1 \in Nat /\ (n - 1) + 1 = n
        BY <2>2
      <3>2. h[n - 1] \in Rows(v) /\ h[n] = step[n - 1][h[n - 1]]
        BY <2>1, <3>1 DEF Iteration
      <3> QED BY <3>1, <3>2 DEF step
    <2>3. h = [n \in Nat |-> IF n = 0 THEN s0 ELSE NextRow(h[n - 1], start, difference)]
      BY <2>1, <2>2 DEF Iteration
    <2> QED BY <2>3 DEF IsListing, s0
  <1>4. IsListing(list, v, start, difference)
    BY <1>3
  <1> HIDE DEF list
  <1>5. 0 \in T
    BY <1>1, <1>4 DEF IsListing
  <1>6. ASSUME NEW n \in Nat, n \in T PROVE n + 1 \in T
    <2>1. list[n] \in Rows(v) /\ n + 1 # 0 /\ (n + 1) - 1 = n /\ n + 1 \in Nat
      BY <1>6
    <2>2. list[n + 1] = NextRow(list[n], start, difference)
      BY <1>4, <2>1 DEF IsListing
    <2> QED BY <2>1, <2>2, NextRowType
  <1>7. Nat \subseteq T
    <2> HIDE DEF T
    <2> QED BY <1>5, <1>6, AllNat
  <1>8. AtLeast(difference, 0) \in Nat
    BY DEF AtLeast
  <1> QED BY <1>7, <1>8, ListingIs DEF list

\* disasm, in both forms, lists the machine it is given.
LEMMA DisassembleType ==
    ASSUME NEW v \in VmState, NEW start \in Int, NEW difference \in Int, flash_size \in Word
    PROVE  /\ ddbg_disassemble(v, start, difference).vm \in Charged(v)
           /\ ddbg_disassemble_default(v).vm \in Charged(v)
  <1>1. ASSUME NEW s \in Int, NEW d \in Int PROVE ddbg_disassemble(v, s, d).vm \in Charged(v)
    <2>1. flash_size - s \in Int
      BY DEF Word
    <2>2. \A x \in Int : Listing(v, s, x).vm \in Charged(v)
      BY ListingType DEF Rows
    <2>3. v \in Charged(v)
      BY DEF Charged, VmState
    <2> QED BY <2>1, <2>2, <2>3 DEF ddbg_disassemble
  <1>2. v.pc \in Int /\ W \in Int
    BY WordAssumption DEF VmState, Word
  <1> DEFINE from == AtLeast(v.pc - 10, 0)
  <1>3. from \in Int /\ AtMost(v.pc - from + 10, W) \in Int
    BY <1>2 DEF AtLeast, AtMost
  <1> QED BY <1>1, <1>3 DEF ddbg_disassemble_default

-----------------------------------------------------------------------------
(* The list of breakpoints *)

\* The scan of Without, as a function that satisfies the recursion.
IsScan(kept, bps, addr) ==
    kept = [n \in 0 .. Len(bps) |->
               IF n = 0 THEN << >>
               ELSE IF bps[n].addr = addr THEN kept[n - 1] ELSE Append(kept[n - 1], bps[n])]

LEMMA WithoutIs ==
    ASSUME NEW bps, NEW addr
    PROVE  Without(bps, addr) = (CHOOSE kept : IsScan(kept, bps, addr))[Len(bps)]
  BY DEF Without, IsScan

\* Deleting breakpoints leaves breakpoints.
LEMMA WithoutType ==
    ASSUME NEW bps \in Seq(Breakpoint), NEW addr
    PROVE  Without(bps, addr) \in Seq(Breakpoint)
  <1> DEFINE Lists == Seq(Breakpoint)
             Put(x, n) == IF n \in 1 .. Len(bps) /\ bps[n].addr # addr
                          THEN Append(x, bps[n]) ELSE x
             step == [n \in Nat |-> [x \in Lists |-> Put(x, n + 1)]]
             kept == CHOOSE k : IsScan(k, bps, addr)
             T == {n \in Nat : n <= Len(bps) => kept[n] \in Lists}
  <1>1. << >> \in Lists /\ Len(bps) \in Nat /\ \A n \in 1 .. Len(bps) : bps[n] \in Breakpoint
    OBVIOUS
  <1>2. \A x \in Lists, n \in Nat : Put(x, n) \in Lists
    BY <1>1
  <1>3. step \in [Nat -> [Lists -> Lists]]
    BY <1>2
  <1>4. \E k : IsScan(k, bps, addr)
    <2> DEFINE none == << >>
    <2>0. none \in Lists
      BY <1>1
    <2> HIDE DEF step, Lists, Put, none, T, kept
    <2>1. PICK h : Iteration(h, Lists, none, step)
      BY <1>3, <2>0, Iterates
    <2> DEFINE k == [n \in 0 .. Len(bps) |-> h[n]]
    <2>2. ASSUME NEW n \in 0 .. Len(bps), n # 0
          PROVE  k[n] = IF bps[n].addr = addr THEN k[n - 1] ELSE Append(k[n - 1], bps[n])
      <3>1. n - 1 \in Nat /\ (n - 1) + 1 = n /\ n \in 1 .. Len(bps) /\ n - 1 \in 0 .. Len(bps)
        BY <1>1, <2>2
      <3>2. h[n - 1] \in Lists /\ h[n] = step[n - 1][h[n - 1]]
        BY <2>1, <3>1 DEF Iteration
      <3>3. h[n] = Put(h[n - 1], n)
        BY <3>1, <3>2 DEF step
      <3> QED BY <3>1, <3>3 DEF Put
    <2>3. k[0] = << >>
      BY <1>1, <2>1 DEF none, Iteration
    <2>4. k = [n \in 0 .. Len(bps) |->
                 IF n = 0 THEN << >>
                 ELSE IF bps[n].addr = addr THEN k[n - 1] ELSE Append(k[n - 1], bps[n])]
      BY <2>2, <2>3
    <2> QED BY <2>4 DEF IsScan
  <1>5. IsScan(kept, bps, addr)
    BY <1>4
  <1> HIDE DEF kept
  <1>6. 0 \in T
    BY <1>1, <1>5 DEF IsScan
  <1>7. ASSUME NEW n \in Nat, n \in T PROVE n + 1 \in T
    <2> SUFFICES ASSUME n + 1 <= Len(bps) PROVE kept[n + 1] \in Lists
      OBVIOUS
    <2>1. /\ n + 1 \in 0 .. Len(bps) /\ n + 1 # 0 /\ (n + 1) - 1 = n /\ n <= Len(bps)
          /\ bps[n + 1] \in Breakpoint
      BY <1>1
    <2>2. kept[n] \in Lists
      BY <1>7, <2>1
    <2>3. kept[n + 1] = IF bps[n + 1].addr = addr THEN kept[n]
                        ELSE Append(kept[n], bps[n + 1])
      BY <1>5, <2>1 DEF IsScan
    <2> QED BY <2>1, <2>2, <2>3
  <1>8. Nat \subseteq T
    <2> HIDE DEF T
    <2> QED BY <1>6, <1>7, AllNat
  <1>9. kept[Len(bps)] \in Lists
    BY <1>1, <1>8
  <1> QED BY <1>9, WithoutIs DEF kept

\* What the symbols answer is an address or -1.
LEMMA AddressType ==
    ASSUME symbols \in Seq(Symbol)
    PROVE  /\ \A file, index : ddbg_file_to_address(file, index) \in Int
           /\ \A label : ddbg_label_to_address(label) \in Int
  <1>1. ASSUME NEW found \in SUBSET (DOMAIN symbols) PROVE FirstAddress(found) \in Int
    <2>1. CASE found = {}
      BY <2>1 DEF FirstAddress
    <2>2. CASE found # {}
      <3>1. DOMAIN symbols \subseteq Nat /\ \A k \in DOMAIN symbols : symbols[k].address \in Word
        <4>1. symbols \in [1 .. Len(symbols) -> Symbol] /\ Len(symbols) \in Nat
          OBVIOUS
        <4>2. \A s \in Symbol : s.address \in Word
          BY DEF Symbol
        <4> QED BY <4>1, <4>2
      <3>2. \E k \in found : \A n \in found : k <= n
        BY <2>2, <3>1, LeastNat
      <3>3. FirstAddress(found) \in Word
        BY <2>2, <3>1, <3>2 DEF FirstAddress
      <3> QED BY <3>3 DEF Word
    <2> QED BY <2>1, <2>2
  <1> QED BY <1>1 DEF ddbg_file_to_address, ddbg_label_to_address

LEMMA CreateType ==
    ASSUME NEW addr \in Int, NEW silent \in BOOLEAN, NEW temporary \in BOOLEAN
    PROVE  /\ breakpoint_create(addr, silent, temporary) \in Breakpoint
           /\ breakpoint_create(addr, silent, temporary).addr = addr % W
  BY WordArithmetic DEF breakpoint_create, Breakpoint

\* What break add and break delete make of the list.
LEMMA BreakpointsType ==
    ASSUME breakpoints \in Seq(Breakpoint), symbols \in Seq(Symbol), NEW place \in Places
    PROVE  /\ AddedAt(AddAddress(place)) \in Seq(Breakpoint)
           /\ AddedAt(ddbg_label_to_address(place[1])) \in Seq(Breakpoint)
           /\ \A addr : DeletedAt(addr) \in Seq(Breakpoint)
  <1>1. \A addr \in Int : AddedAt(addr) \in Seq(Breakpoint)
    <2> SUFFICES ASSUME NEW addr \in Int PROVE AddedAt(addr) \in Seq(Breakpoint)
      OBVIOUS
    <2> DEFINE bp == breakpoint_create(addr, FALSE, FALSE)
    <2>1. bp \in Breakpoint
      BY CreateType
    <2>2. AddedAt(addr) = breakpoints \/ AddedAt(addr) = Append(breakpoints, bp)
      BY DEF AddedAt
    <2> HIDE DEF bp
    <2> QED BY <2>1, <2>2
  <1>2. AddAddress(place) \in Int
    BY AddressType, SymbolAssumption DEF AddAddress
  <1> QED BY <1>1, <1>2, AddressType, WithoutType DEF DeletedAt

\* A temporary breakpoint that was hit goes.
LEMMA RemoveType ==
    ASSUME NEW bps \in Seq(Breakpoint), NEW k \in DOMAIN bps
    PROVE  SeqExt!RemoveAt(bps, k) \in Seq(Breakpoint)
  <1>1. SubSeq(bps, 1, k - 1) \in Seq(Breakpoint) /\ SubSeq(bps, k + 1, Len(bps)) \in Seq(Breakpoint)
    OBVIOUS
  <1> QED BY <1>1 DEF SeqExt!RemoveAt

\* The first breakpoint here is one of the list.
LEMMA FirstAtIs ==
    ASSUME NEW bps \in Seq(Breakpoint), NEW addr, \E k \in DOMAIN bps : bps[k].addr = addr
    PROVE  FirstAt(bps, addr) \in DOMAIN bps
  <1> DEFINE T == {k \in DOMAIN bps : bps[k].addr = addr}
  <1>1. T \subseteq Nat /\ T # {}
    OBVIOUS
  <1>2. PICK k \in T : \A n \in T : k <= n
    BY <1>1, LeastNat
  <1>3. \A n \in 1 .. k - 1 : bps[n].addr # addr
    BY <1>2
  <1> QED BY <1>2, <1>3 DEF FirstAt

-----------------------------------------------------------------------------
(* What Lua handlers can do *)

\* Whatever calls the handlers make, they leave the flag that lets a
\* breakpoint pass up only when they left the machine running or halted as it
\* was; they never raise it.
LEMMA LuaLeaves ==
    ASSUME NEW s, s.halted \in BOOLEAN, s.ignore \in BOOLEAN, NEW cs
    PROVE  /\ dbg_lua_handle_break(s, cs).halted \in BOOLEAN
           /\ dbg_lua_handle_break(s, cs).ignore \in BOOLEAN
           /\ dbg_lua_handle_break(s, cs).ignore =>
                 s.ignore /\ dbg_lua_handle_break(s, cs).halted = s.halted
  <1> DEFINE acts == Stops(cs) \cup {k \in DOMAIN cs : cs[k].call = "run"}
             b == _dbg_lua_break(s, cs)
             h == IF acts = {} THEN s.halted ELSE Latest(acts) \in Stops(cs)
             g == s.ignore /\ acts = {}
             c == s.code
  <1>1. h \in BOOLEAN /\ g \in BOOLEAN /\ (g => s.ignore /\ h = s.halted)
    <2> HIDE DEF acts
    <2>1. CASE acts = {}
      BY <2>1, Zenon
    <2>2. CASE acts # {}
      <3>1. (h <=> Latest(acts) \in Stops(cs)) /\ ~g
        BY <2>2, Zenon
      <3>2. h = (Latest(acts) \in Stops(cs)) /\ g = FALSE
        BY <2>2, Zenon
      <3>3. (Latest(acts) \in Stops(cs)) \in BOOLEAN
        OBVIOUS
      <3>4. h \in BOOLEAN
        BY <3>2, <3>3
      <3> HIDE DEF h
      <3> QED BY <3>1, <3>2, <3>4
    <2> QED BY <2>1, <2>2
  <1>2. b = [halted |-> h, ignore |-> g, code |-> c]
    BY Zenon DEF _dbg_lua_break
  <1> HIDE DEF h, g, c, b, acts
  <1>3. PICK d : dbg_lua_handle_break(s, cs) = [b EXCEPT !.code = d]
    BY DEF dbg_lua_handle_break, b
  <1>4. [b EXCEPT !.code = d].halted = h /\ [b EXCEPT !.code = d].ignore = g
    BY <1>2
  <1> QED BY <1>1, <1>3, <1>4

\* The same for the handlers of an event, called with what they can change.
LEMMA HookLeaves ==
    ASSUME NEW v, v.halted \in BOOLEAN, NEW ig \in BOOLEAN, NEW code, NEW e
    PROVE  /\ LuaHook(Lua(v, ig, code), e).halted \in BOOLEAN
           /\ LuaHook(Lua(v, ig, code), e).ignore \in BOOLEAN
           /\ LuaHook(Lua(v, ig, code), e).ignore =>
                 ig /\ LuaHook(Lua(v, ig, code), e).halted = v.halted
  <1> DEFINE s == Lua(v, ig, code)
  <1>1. s.halted = v.halted /\ s.ignore = ig
    BY DEF Lua
  <1> HIDE DEF s
  <1> QED BY <1>1, LuaLeaves DEF LuaHook, s

-----------------------------------------------------------------------------
(* A step of the machine, as the debugger sees it *)

\* What decides which instruction comes next, and whether it is carried out.
Here(v) == <<v.pc, v.ram, v.skip, v.on_fire>>

\* vm_interrupt leaves it alone unless it enters the handler, and never lets
\* a halted machine go.
LEMMA CallHere ==
    ASSUME NEW v \in VmState, NEW m \in Word, NEW ret, vm_interrupt(v, m, ret)
    PROVE  /\ event'.kind = "deliver" \/ Here(vm') = Here(v)
           /\ v.halted => vm'.halted
  <1>1. CASE vm' = QueueMsg(v, m)
    BY <1>1 DEF QueueMsg, vm_halt, VmState, Here
  <1>2. CASE vm' = v
    BY <1>2
  <1>3. CASE vm' = Enter(v, m, v.pc) /\ event' = Event("deliver", m)
    <2>1. v.pc \in Word
      BY DEF VmState
    <2>2. vm'.halted = v.halted
      BY <1>3, <2>1, EnterType
    <2> QED BY <1>3, <2>2 DEF Event
  <1> QED BY <1>1, <1>2, <1>3 DEF vm_interrupt

LEMMA SkipHere ==
    ASSUME WellFormed, SkipOne
    PROVE  /\ phase = "skipping" /\ wrote' = {} /\ (vm.halted => vm'.halted)
           /\ event'.kind = "deliver" \/ phase' = "skipping"
  <1> DEFINE i == Decode[vm.ram[vm.pc]]
             v0 == vm_consume_word(vm)
             v1 == ResolveStep(v0, i.a, "A")
             v2 == ResolveStep(v1, i.b, "B")
             v == [v2 EXCEPT !.sleep_cycles = @ + 1]
  <1>1. vm \in VmState /\ call \in [msg : Word, pc : Word, ret : HookPhase \cup {"start"}]
    BY WellFormedParts
  <1>2. i.a \in Operand /\ i.b \in Operand
    BY <1>1, FetchType DEF Instruction, Instr
  <1>3. v0 \in VmState /\ Control(v0) = Control(vm)
    BY <1>1, FetchType DEF Fetched
  <1>4. v1 \in VmState /\ Control(v1) = Control(vm)
    BY <1>2, <1>3, ResolveStepType, OperandsKeepControl
  <1>5. v2 \in VmState /\ Control(v2) = Control(vm)
    BY <1>2, <1>4, ResolveStepType, OperandsKeepControl
  <1>6. /\ phase = "skipping" /\ wrote' = {}
        /\ \/ vm' = v /\ phase' = phase
           \/ /\ vm' = Enter(Skipped(v), call.msg, call.pc)
              /\ event' = Event("deliver", call.msg)
    BY DEF SkipOne
  <1> HIDE DEF v2
  <1>7. v \in VmState
    BY <1>5, ChargeType
  <1>8. v.halted = vm.halted
    BY <1>5 DEF Control, VmState
  <1> HIDE DEF v
  <1>9. Enter(Skipped(v), call.msg, call.pc).halted = v.halted
    <2>1. Skipped(v) \in VmState /\ Skipped(v).halted = v.halted
      BY <1>7, SkippedType DEF Control
    <2> QED BY <1>1, <2>1, EnterType
  <1> QED BY <1>6, <1>8, <1>9 DEF Event

LEMMA MachineStep ==
    ASSUME WellFormed, Next
    PROVE  /\ phase \in {"exec", "skipping"} \/ event'.kind = "deliver" \/ vm'.pc = vm.pc
           /\ phase \in {"pre", "skipping"} => wrote' = {} /\ (vm.halted => vm'.halted)
           /\ phase = "skipping" => event'.kind = "deliver" \/ phase' = "skipping"
           /\ phase = "pre" =>
                 /\ event'.kind = "deliver" \/ Here(vm') = Here(vm)
                 /\ phase' \in {"pre", "skipping", "rad", "exec"} \/ (phase' = "start" /\ vm.halted)
  <1>0. vm \in VmState /\ raise \in Seq(Word)
    BY WellFormedParts
  <1>1. CASE Execute \/ FireWait \/ FireBurn
    <2>1. phase = "exec"
      BY <1>1 DEF Execute, Executes, ExecSet, ExecArithmetic, ExecIf, ExecSetMove, ExecJsr,
             ExecInt, ExecIag, ExecIas, ExecRfi, ExecIaq, ExecHwn, ExecHwq, ExecHwi, ExecInvalid,
             FireWait, FireBurn
    <2> QED BY <2>1
  <1>2. CASE Sleep \/ Wake \/ SixtyDone \/ NothingQueued \/ HwDone \/ PostDone
             \/ DiskRead \/ WindowClosed \/ Radiation
    <2>1. phase \notin {"pre", "skipping"}
      BY <1>2 DEF Sleep, Wake, SixtyDone, NothingQueued, HwDone, PostDone, DiskRead,
                  WindowClosed, Radiation
    <2>2. vm'.pc = vm.pc
      BY <1>0, <1>2 DEF Sleep, Wake, SixtyDone, NothingQueued, HwDone, PostDone, DiskRead,
                  WindowClosed, Radiation, VmState
    <2> QED BY <2>1, <2>2
  <1>3. CASE HookRaise
    <2>1. /\ phase \in HookPhase /\ vm_interrupt(vm, Head(raise), phase) /\ wrote' = {}
          /\ Head(raise) \in Word
      BY <1>0, <1>3 DEF HookRaise
    <2>2. /\ event'.kind = "deliver" \/ Here(vm') = Here(vm)
          /\ vm.halted => vm'.halted
      BY <1>0, <2>1, CallHere
    <2>3. phase' = phase \/ phase' = "skipping"
      BY <2>1 DEF vm_interrupt
    <2>4. phase # "skipping"
      BY <2>1 DEF HookPhase
    <2>5. Here(vm') = Here(vm) => vm'.pc = vm.pc
      BY DEF Here
    <2> QED BY <2>1, <2>2, <2>3, <2>4, <2>5
  <1>4. CASE HookHalt \/ PreDone
    <2>1. phase = "pre" /\ wrote' = {} /\ (vm.halted => vm'.halted) /\ Here(vm') = Here(vm)
      BY <1>0, <1>4 DEF HookHalt, PreDone, Silent, vm_halt, VmState, Here
    <2>2. phase' \in {"pre", "rad", "exec"} \/ (phase' = "start" /\ vm.halted)
      BY <1>4 DEF HookHalt, PreDone
    <2> QED BY <2>1, <2>2 DEF Here
  <1>5. CASE Dequeue
    <2> DEFINE v == [vm EXCEPT !.irq = Tail(vm.irq)]
    <2>1. phase = "irq" /\ vm_interrupt(v, Head(vm.irq), "pre") /\ vm.irq # << >>
      BY <1>5 DEF Dequeue
    <2>2. vm.irq \in Seq(Word) /\ Head(vm.irq) \in Word /\ Tail(vm.irq) \in Seq(Word)
      BY <1>0, <2>1 DEF VmState
    <2>3. v \in VmState
      BY <1>0, <2>2, UpdateType
    <2>4. v.pc = vm.pc
      BY <1>0 DEF VmState
    <2> HIDE DEF v
    <2>5. event'.kind = "deliver" \/ Here(vm') = Here(v)
      BY <2>1, <2>2, <2>3, CallHere
    <2> QED BY <2>1, <2>4, <2>5 DEF Here
  <1>6. CASE SkipOne
    BY <1>6, SkipHere
  <1> QED BY <1>1, <1>2, <1>3, <1>4, <1>5, <1>6 DEF Next

-----------------------------------------------------------------------------
(* Calls within the backtrace *)

Front(s) == SubSeq(s, 1, Len(s) - 1)

LEMMA WithinEmpty ==
    ASSUME NEW t
    PROVE  Within(<< >>, t)
  <1> DEFINE s == << >>
             f == [k \in {} |-> 0]
  <1>1. DOMAIN s = {} /\ f \in [{} -> DOMAIN t]
    OBVIOUS
  <1> HIDE DEF f, s
  <1>2. Within(s, t)
    BY <1>1 DEF Within
  <1> QED BY <1>2 DEF s

\* A call recorded as it is made.
LEMMA WithinBoth ==
    ASSUME NEW s \in Seq(Word), NEW t \in Seq(Word), NEW x \in Word, Within(s, t)
    PROVE  Within(Append(s, x), Append(t, x))
  <1> DEFINE S == Append(s, x)
             T == Append(t, x)
             m == Len(s)
             n == Len(t)
  <1>1. PICK f \in [DOMAIN s -> DOMAIN t] :
            /\ \A k \in DOMAIN s : t[f[k]] = s[k]
            /\ \A k, j \in DOMAIN s : k < j => f[k] < f[j]
    BY DEF Within
  <1>2. /\ m \in Nat /\ n \in Nat /\ DOMAIN s = 1 .. m /\ DOMAIN t = 1 .. n
        /\ DOMAIN S = 1 .. m + 1 /\ DOMAIN T = 1 .. n + 1
        /\ \A k \in 1 .. m : S[k] = s[k]
        /\ \A k \in 1 .. n : T[k] = t[k]
        /\ S[m + 1] = x /\ T[n + 1] = x
    OBVIOUS
  <1> HIDE DEF S, T, m, n
  <1> DEFINE g == [k \in DOMAIN S |-> IF k = m + 1 THEN n + 1 ELSE f[k]]
  <1>3. g \in [DOMAIN S -> DOMAIN T]
    BY <1>1, <1>2
  <1>4. ASSUME NEW k \in DOMAIN S PROVE T[g[k]] = S[k]
    <2>1. CASE k = m + 1
      BY <1>2, <2>1
    <2>2. CASE k # m + 1
      <3>1. k \in 1 .. m /\ f[k] \in 1 .. n /\ g[k] = f[k]
        BY <1>1, <1>2, <2>2
      <3> QED BY <1>1, <1>2, <3>1
    <2> QED BY <2>1, <2>2
  <1>5. ASSUME NEW k \in DOMAIN S, NEW j \in DOMAIN S, k < j PROVE g[k] < g[j]
    <2>1. k \in 1 .. m /\ f[k] \in 1 .. n /\ g[k] = f[k]
      BY <1>1, <1>2, <1>5
    <2>2. CASE j = m + 1
      BY <1>2, <2>1, <2>2
    <2>3. CASE j # m + 1
      BY <1>1, <1>2, <1>5, <2>1, <2>3
    <2> QED BY <2>2, <2>3
  <1> HIDE DEF g
  <1>6. Within(S, T)
    BY <1>3, <1>4, <1>5 DEF Within
  <1> QED BY <1>6 DEF S, T

\* A jump recorded that is no call.
LEMMA WithinMore ==
    ASSUME NEW s \in Seq(Word), NEW t \in Seq(Word), NEW x \in Word, Within(s, t)
    PROVE  Within(s, Append(t, x))
  <1> DEFINE T == Append(t, x)
  <1>1. PICK f \in [DOMAIN s -> DOMAIN t] :
            /\ \A k \in DOMAIN s : t[f[k]] = s[k]
            /\ \A k, j \in DOMAIN s : k < j => f[k] < f[j]
    BY DEF Within
  <1>2. DOMAIN t \subseteq DOMAIN T /\ \A k \in DOMAIN t : T[k] = t[k]
    OBVIOUS
  <1> HIDE DEF T
  <1>3. f \in [DOMAIN s -> DOMAIN T] /\ \A k \in DOMAIN s : T[f[k]] = s[k]
    BY <1>1, <1>2
  <1>4. Within(s, T)
    BY <1>1, <1>3 DEF Within
  <1> QED BY <1>4 DEF T

\* A return drops the last entry of both.
LEMMA WithinFront ==
    ASSUME NEW s \in Seq(Word), NEW t \in Seq(Word), Within(s, t)
    PROVE  Within(Front(s), Front(t))
  <1> DEFINE S == Front(s)
             T == Front(t)
             m == Len(s)
             n == Len(t)
  <1>1. PICK f \in [DOMAIN s -> DOMAIN t] :
            /\ \A k \in DOMAIN s : t[f[k]] = s[k]
            /\ \A k, j \in DOMAIN s : k < j => f[k] < f[j]
    BY DEF Within
  <1>2. /\ m \in Nat /\ n \in Nat /\ DOMAIN s = 1 .. m /\ DOMAIN t = 1 .. n
    OBVIOUS
  <1>3. ASSUME NEW u \in Seq(Word)
        PROVE  /\ DOMAIN Front(u) = 1 .. Len(u) - 1
               /\ \A k \in 1 .. Len(u) - 1 : Front(u)[k] = u[k]
    BY DEF Front
  <1>4. /\ DOMAIN S = 1 .. m - 1 /\ DOMAIN T = 1 .. n - 1
        /\ \A k \in 1 .. m - 1 : S[k] = s[k]
        /\ \A k \in 1 .. n - 1 : T[k] = t[k]
    BY <1>3
  <1> HIDE DEF S, T, m, n
  <1> DEFINE g == [k \in DOMAIN S |-> f[k]]
  <1>5. ASSUME NEW k \in DOMAIN S PROVE k \in DOMAIN s /\ f[k] \in 1 .. n - 1 /\ g[k] = f[k]
    <2>1. k \in 1 .. m /\ m \in 1 .. m /\ k < m
      BY <1>2, <1>4
    <2>2. f[k] \in 1 .. n /\ f[m] \in 1 .. n /\ f[k] < f[m]
      BY <1>1, <1>2, <2>1
    <2> QED BY <1>2, <2>1, <2>2
  <1>6. g \in [DOMAIN S -> DOMAIN T]
    BY <1>4, <1>5
  <1>7. \A k \in DOMAIN S : T[g[k]] = S[k]
    BY <1>1, <1>4, <1>5
  <1>8. \A k, j \in DOMAIN S : k < j => g[k] < g[j]
    BY <1>1, <1>5
  <1> HIDE DEF g
  <1>9. Within(S, T)
    BY <1>6, <1>7, <1>8 DEF Within
  <1> QED BY <1>9 DEF S, T

\* RecordJump makes of the backtrace what the instruction will make of the
\* calls, if it is carried out as recorded.
LEMMA JumpIsRecorded ==
    ASSUME vm \in VmState, calls \in Seq(Word), backtrace \in Seq(Word),
           Within(calls, backtrace), Faithful
    PROVE  Within(CallsAfter, RecordJump(backtrace, vm))
  <1> DEFINE i == Instruction
  <1>0. vm.pc \in Word /\ PUSH_POP # NXT_LIT /\ "SET" # "JSR"
    BY DEF VmState, PUSH_POP, NXT_LIT
  <1>1. i.op = "JSR" => i.a = NXT_LIT
    BY DEF Faithful
  <1>2. RecordJump(backtrace, vm) =
            IF ~Jumps(i) THEN backtrace
            ELSE IF i.a = PUSH_POP THEN Front(backtrace)
            ELSE IF i.a = NXT_LIT THEN Append(backtrace, vm.pc)
            ELSE backtrace
    BY DEF RecordJump, Instruction, Front
  <1>3. CallsAfter = IF i.op = "JSR" THEN Append(calls, vm.pc)
                     ELSE IF Jumps(i) /\ i.a = PUSH_POP THEN Front(calls) ELSE calls
    BY DEF CallsAfter, Front
  <1>4. i.op = "JSR" => Jumps(i)
    BY DEF Jumps
  <1> HIDE DEF i
  <1>5. CASE i.op = "JSR"
    BY <1>0, <1>1, <1>2, <1>3, <1>4, <1>5, WithinBoth
  <1>6. CASE i.op # "JSR" /\ ~Jumps(i)
    BY <1>2, <1>3, <1>6
  <1>7. CASE i.op # "JSR" /\ Jumps(i) /\ i.a = PUSH_POP
    BY <1>2, <1>3, <1>7, WithinFront
  <1>8. CASE i.op # "JSR" /\ Jumps(i) /\ i.a # PUSH_POP
    BY <1>0, <1>2, <1>3, <1>8, WithinMore
  <1> QED BY <1>5, <1>6, <1>7, <1>8

\* The lists stay lists of addresses.
LEMMA TraceType ==
    ASSUME vm \in VmState, calls \in Seq(Word), backtrace \in Seq(Word)
    PROVE  CallsAfter \in Seq(Word) /\ RecordJump(backtrace, vm) \in Seq(Word)
  <1>1. vm.pc \in Word
    BY DEF VmState
  <1>2. \A u \in Seq(Word) : SubSeq(u, 1, Len(u) - 1) \in Seq(Word) /\ Append(u, vm.pc) \in Seq(Word)
    BY <1>1
  <1> QED BY <1>2 DEF CallsAfter, RecordJump

-----------------------------------------------------------------------------
(* Every action keeps the invariant *)

\* Setting and clearing halted from outside leaves the machine well formed.
LEMMA HaltFromOutside ==
    ASSUME WellFormed, Silent, UNCHANGED <<phase, raise, call>>,
           NEW b \in BOOLEAN, vm' = [vm EXCEPT !.halted = b]
    PROVE  /\ WellFormed' /\ Here(vm') = Here(vm) /\ vm'.pc = vm.pc /\ vm'.halted = b
  <1>1. vm \in VmState
    BY WellFormedParts
  <1>2. /\ vm'.irq = vm.irq /\ vm'.skip = vm.skip /\ vm'.ia = vm.ia /\ vm'.halted = b
        /\ vm'.queue_interrupts = vm.queue_interrupts
        /\ Here(vm') = Here(vm) /\ vm'.pc = vm.pc
    BY <1>1 DEF VmState, Here
  <1>3. vm' \in VmState
    BY <1>1, UpdateType
  <1>4. wrote' = {} /\ event' \in [kind : Kinds, msg : Word]
    BY WordArithmetic DEF Silent, Quiet, Event, Kinds
  <1> QED BY <1>2, <1>3, <1>4, WellFormedParts, WellFormedPartsNext

\* A command that leaves PC, the observers and the backtrace alone, and at
\* most drops the flag.
LEMMA CommandKeeps ==
    ASSUME SessionInv, phase = "start", SessionOK', Silent,
           phase' \in {"start", "sixty", "irq"}, Prompt' => phase' = "start",
           vm' \in VmState, vm'.irq = vm.irq, vm'.pc = vm.pc,
           raise' \in Seq(Word), UNCHANGED call, ignore_next_breakpoint' => ignore_next_breakpoint,
           UNCHANGED <<hooked, backtrace, observers>>
    PROVE  SessionInv'
  <1>1. ~hooked /\ ~Recorded
    BY DEF SessionInv, BreakInv, Recorded
  <1>2. BreakInv'
    BY <1>1 DEF SessionInv, BreakInv, observers
  <1>3. ~Recorded'
    BY <1>1 DEF Recorded
  <1>4. exact => Within(calls, backtrace)
    BY <1>1 DEF SessionInv, TraceInv
  <1>5. TraceInv'
    BY <1>1, <1>3, <1>4 DEF TraceInv, observers
  <1>6. WellFormed'
    BY QuietInv DEF SessionInv, Phase, HookPhase
  <1> QED BY <1>2, <1>5, <1>6 DEF SessionInv

\* Lua handlers between two steps of the machine, and SIGINT.
LEMMA LuaHooksKeep == SessionInv /\ ddbg_lua_hooks => SessionInv'
  <1> SUFFICES ASSUME SessionInv, ddbg_lua_hooks PROVE SessionInv'
    OBVIOUS
  <1> DEFINE s == LuaHook(Lua(vm, ignore_next_breakpoint, ddbg_return_code), Head(fire))
  <1>1. vm.halted \in BOOLEAN /\ ignore_next_breakpoint \in BOOLEAN /\ WellFormed
    BY WellFormedParts DEF SessionInv, SessionOK, VmState
  <1>2. s.halted \in BOOLEAN /\ s.ignore \in BOOLEAN
        /\ (s.ignore => ignore_next_breakpoint /\ s.halted = vm.halted)
    BY <1>1, HookLeaves
  <1>3. /\ fire # << >> /\ vm' = [vm EXCEPT !.halted = s.halted]
        /\ ignore_next_breakpoint' = s.ignore /\ Silent
        /\ UNCHANGED <<phase, raise, call, at, hooked, breakpoints, backtrace, symbols,
                       flash, flash_size, stopped, diverted, calls, exact>>
    BY DEF ddbg_lua_hooks, observers
  <1> HIDE DEF s
  <1>4. WellFormed' /\ Here(vm') = Here(vm) /\ vm'.pc = vm.pc /\ vm'.halted = s.halted
    BY <1>1, <1>2, <1>3, HaltFromOutside
  <1>5. SessionOK'
    BY <1>2, <1>3 DEF SessionInv, SessionOK
  <1>6. Passed' <=> Passed
    BY <1>3, <1>4 DEF Passed
  <1>7. BreakInv'
    BY <1>2, <1>3, <1>4, <1>6 DEF SessionInv, BreakInv, Prompt
  <1>8. ASSUME exact PROVE ~hooked /\ (Recorded' <=> Recorded)
    BY <1>3, <1>8 DEF SessionInv, TraceInv, Recorded
  <1>9. Faithful' <=> Faithful
    BY <1>4 DEF Faithful, Here, Instruction
  <1>10. CallsAfter' = CallsAfter
    BY <1>3, <1>4 DEF CallsAfter, Here, Instruction
  <1>11. TraceInv'
    BY <1>3, <1>8, <1>9, <1>10 DEF SessionInv, TraceInv
  <1> QED BY <1>4, <1>5, <1>7, <1>11 DEF SessionInv

LEMMA SigintKeeps == SessionInv /\ ddbg_sigint => SessionInv'
  <1> SUFFICES ASSUME SessionInv, ddbg_sigint PROVE SessionInv'
    OBVIOUS
  <1>1. /\ ~vm.halted /\ vm' = [vm EXCEPT !.halted = TRUE] /\ Silent
        /\ exact' = (exact /\ ~hooked)
        /\ UNCHANGED <<phase, raise, call, at, hooked, fire, breakpoints, backtrace, symbols,
                       flash, flash_size, ignore_next_breakpoint, stopped, diverted, calls>>
    BY DEF ddbg_sigint, vm_halt, debugger
  <1>2. WellFormed
    BY DEF SessionInv
  <1>3. WellFormed' /\ Here(vm') = Here(vm) /\ vm'.pc = vm.pc /\ vm'.halted = TRUE
    BY <1>1, <1>2, HaltFromOutside
  <1>4. exact' \in BOOLEAN
    BY <1>1, Zenon
  <1>5. SessionOK'
    BY <1>1, <1>4 DEF SessionInv, SessionOK
  <1>6. Passed' <=> Passed
    BY <1>1, <1>3 DEF Passed
  <1>7. BreakInv'
    BY <1>1, <1>3, <1>6 DEF SessionInv, BreakInv, Prompt
  <1>8. exact' => exact /\ ~hooked
    BY <1>1
  <1>9. ASSUME exact' PROVE Recorded' <=> Recorded
    BY <1>1, <1>8, <1>9 DEF Recorded
  <1>10. Faithful' <=> Faithful
    BY <1>3 DEF Faithful, Here, Instruction
  <1>11. CallsAfter' = CallsAfter
    BY <1>1, <1>3 DEF CallsAfter, Here, Instruction
  <1>12. TraceInv'
    BY <1>1, <1>8, <1>9, <1>10, <1>11 DEF SessionInv, TraceInv
  <1> QED BY <1>3, <1>5, <1>7, <1>12 DEF SessionInv

\* A step of the machine.
LEMMA MachineKeeps == SessionInv /\ Machine => SessionInv'
  <1> SUFFICES ASSUME SessionInv, Machine PROVE SessionInv'
    OBVIOUS
  <1> DEFINE deliver == event'.kind = "deliver"
  <1>1. WellFormed /\ SessionOK /\ BreakInv /\ TraceInv /\ vm \in VmState
    BY WellFormedParts DEF SessionInv
  <1>2. /\ at # "prompt" /\ (phase = "pre" => hooked) /\ Next /\ Observe
        /\ UNCHANGED <<at, breakpoints, backtrace, symbols, flash, flash_size,
                       ignore_next_breakpoint>>
    BY DEF Machine, Executing, debugger
  <1>3. WellFormed'
    BY <1>1, <1>2, NextWellFormed
  <1>4. /\ phase \in {"exec", "skipping"} \/ deliver \/ vm'.pc = vm.pc
        /\ phase \in {"pre", "skipping"} => wrote' = {} /\ (vm.halted => vm'.halted)
        /\ phase = "skipping" => deliver \/ phase' = "skipping"
        /\ phase = "pre" =>
              /\ deliver \/ Here(vm') = Here(vm)
              /\ phase' \in {"pre", "skipping", "rad", "exec"} \/ (phase' = "start" /\ vm.halted)
    BY <1>1, <1>2, MachineStep
  <1>5. /\ hooked' = (hooked /\ phase' \in {"pre", "skipping"})
        /\ stopped' = IF phase = "exec" THEN -1 ELSE stopped
        /\ diverted' = (deliver \/ (diverted /\ phase # "exec"))
        /\ calls' = IF Performs THEN CallsAfter ELSE calls
        /\ Performs => phase = "exec"
    BY <1>2 DEF Observe, Performs
  \* the way to the instruction
  <1>6. ASSUME phase' \in {"rad", "exec"}
        PROVE  /\ phase \in {"pre", "rad"} /\ (phase = "pre" => ~vm.halted /\ vm' = vm)
               /\ ~deliver /\ vm'.pc = vm.pc
               /\ vm'.skip = vm.skip /\ vm'.on_fire = vm.on_fire
    <2>1. PreDone \/ Radiation
      BY <1>1, <1>2, <1>6, ToExec
    <2>2. CASE PreDone
      BY <1>6, <2>2 DEF PreDone, Silent, Quiet, Event
    <2>3. CASE Radiation
      BY <1>1, <2>3 DEF Radiation, Quiet, Event, VmState
    <2> QED BY <2>1, <2>2, <2>3
  <1>7. SessionOK'
    <2>1. /\ hooked' \in BOOLEAN /\ diverted' \in BOOLEAN
      BY <1>5, Zenon
    <2>2. exact' \in BOOLEAN
      BY <1>2, Zenon DEF Observe
    <2>3. calls' \in Seq(Word)
      BY <1>1, <1>5, TraceType DEF SessionOK
    <2> QED BY <1>1, <1>2, <2>1, <2>2, <2>3 DEF SessionOK
  <1>8. hooked' => hooked /\ phase \in {"pre", "skipping"} /\ phase' \in {"pre", "skipping"}
    BY <1>1, <1>5 DEF BreakInv
  \* no handler is called for a step of the hooked cycle but for an interrupt
  <1>9. hooked' /\ ~deliver => fire' = << >>
    <2> SUFFICES ASSUME hooked', ~deliver PROVE fire' = << >>
      OBVIOUS
    <2>1. wrote' = {} /\ phase' # "post"
      BY <1>4, <1>8
    <2>2. fire' = Fired("write", wrote' # {}) \o Fired("interrupt", deliver)
                    \o Fired("postcycle", phase' = "post" /\ phase # "post")
      BY <1>2 DEF Observe
    <2>3. /\ Fired("write", wrote' # {}) = << >> /\ Fired("interrupt", deliver) = << >>
          /\ Fired("postcycle", phase' = "post" /\ phase # "post") = << >>
      BY <2>1 DEF Fired
    <2> QED BY <2>2, <2>3
  <1>10. ~deliver /\ phase # "exec" /\ vm'.pc = vm.pc => (Passed' <=> Passed)
    BY <1>2, <1>5 DEF Passed
  <1>11. deliver => Passed'
    BY <1>5 DEF Passed
  <1>12. BreakInv'
    <2>1. Prompt' => phase' = "start"
      BY <1>2 DEF Prompt
    <2>2. ASSUME ignore_next_breakpoint'
          PROVE  stopped' = vm'.pc \/ diverted' \/ phase' = "skipping"
      <3>1. ignore_next_breakpoint /\ phase # "exec"
        BY <1>1, <1>2, <2>2 DEF BreakInv
      <3> QED BY <1>1, <1>4, <1>5, <3>1 DEF BreakInv
    <2>3. hooked' /\ ignore_next_breakpoint' => vm'.halted
      BY <1>1, <1>2, <1>4, <1>8 DEF BreakInv
    <2>4. ASSUME hooked', phase' = "pre" PROVE Passed' \/ (vm'.halted /\ fire' = << >>)
      <3>1. CASE deliver
        BY <1>11, <3>1
      <3>2. CASE ~deliver
        <4>1. hooked /\ phase = "pre" /\ vm'.pc = vm.pc
          BY <1>4, <1>8, <2>4, <3>2
        <4> QED BY <1>1, <1>4, <1>9, <1>10, <2>4, <3>2, <4>1 DEF BreakInv
      <3> QED BY <3>1, <3>2
    <2>5. ASSUME phase' \in {"rad", "exec"} PROVE ~ignore_next_breakpoint' /\ Passed'
      <3>1. ~ignore_next_breakpoint /\ Passed
        BY <1>1, <1>2, <1>6, <2>5 DEF BreakInv
      <3> QED BY <1>2, <1>6, <1>10, <2>5, <3>1
    <2> QED BY <1>8, <2>1, <2>2, <2>3, <2>4, <2>5 DEF BreakInv
  <1>13. ASSUME exact'
         PROVE  /\ exact
                /\ phase = "exec" /\ ~Performs => ~Jumps(Instruction)
                /\ Performs /\ Instruction.op = "JSR" => Instruction.a = NXT_LIT
                /\ phase = "rad" => Instruction' = Instruction
                /\ hooked => ~deliver /\ (vm'.halted => vm.halted)
    BY <1>2, <1>13 DEF Observe
  <1>14. ASSUME exact', Recorded', Faithful' PROVE Within(CallsAfter', backtrace')
    <2>1. CASE phase' \in {"rad", "exec"}
      <3>1. Recorded /\ phase # "exec"
        BY <1>2, <1>6, <2>1 DEF Recorded
      <3>2. Instruction' = Instruction
        BY <1>6, <1>13, <1>14, <2>1 DEF Instruction
      <3>3. Faithful
        BY <1>6, <1>14, <2>1, <3>2 DEF Faithful
      <3>4. CallsAfter' = CallsAfter
        BY <1>5, <1>6, <2>1, <3>1, <3>2 DEF CallsAfter
      <3> QED BY <1>1, <1>2, <1>13, <1>14, <3>1, <3>3, <3>4 DEF TraceInv
    <2>2. CASE hooked' /\ phase' = "pre" /\ ~vm'.halted
      <3>1. hooked /\ phase = "pre" /\ ~deliver /\ ~vm.halted
        BY <1>4, <1>8, <1>13, <1>14, <2>2
      <3>2. Here(vm') = Here(vm)
        BY <1>4, <3>1
      <3>3. Faithful /\ Recorded
        BY <1>14, <3>1, <3>2 DEF Faithful, Here, Instruction, Recorded
      <3>4. CallsAfter' = CallsAfter
        BY <1>5, <3>1, <3>2 DEF CallsAfter, Here, Instruction
      <3> QED BY <1>1, <1>2, <1>13, <1>14, <3>3, <3>4 DEF TraceInv
    <2> QED BY <1>14, <2>1, <2>2 DEF Recorded
  <1>15. ASSUME exact', ~Recorded', hooked' => phase' = "pre" PROVE Within(calls', backtrace')
    <2>1. CASE phase = "exec"
      <3>1. Recorded
        BY <2>1 DEF Recorded
      <3>2. Faithful
        <4>1. vm.skip \/ vm.on_fire => ~Performs
          BY DEF Performs
        <4>2. Instruction.op = "JSR" => Jumps(Instruction)
          BY DEF Jumps
        <4> QED BY <1>13, <1>15, <2>1, <4>1, <4>2 DEF Faithful
      <3>3. Within(CallsAfter, backtrace)
        BY <1>1, <1>13, <1>15, <3>1, <3>2 DEF TraceInv
      <3>4. ~Performs => CallsAfter = calls
        BY <1>13, <1>15, <2>1 DEF CallsAfter, Jumps
      <3> QED BY <1>2, <1>5, <3>3, <3>4
    <2>2. CASE phase # "exec"
      <3>1. phase # "rad"
        <4>1. phase = "rad" => phase' = "exec"
          BY <1>2 DEF Next, Execute, Executes, ExecSet, ExecArithmetic, ExecIf, ExecSetMove,
             ExecJsr, ExecInt, ExecIag, ExecIas, ExecRfi, ExecIaq, ExecHwn, ExecHwq, ExecHwi,
             ExecInvalid, FireWait, FireBurn, Sleep, Wake, SixtyDone, NothingQueued, HwDone,
             PostDone, DiskRead, WindowClosed, Radiation, HookRaise, HookHalt, PreDone, Dequeue,
             SkipOne, HookPhase
        <4> QED BY <1>15, <4>1 DEF Recorded
      <3>2. calls' = calls
        BY <1>5, <2>2
      <3>3. ~Recorded /\ (hooked => phase = "pre")
        <4>1. CASE ~hooked
          BY <2>2, <3>1, <4>1 DEF Recorded
        <4>2. CASE hooked
          <5>1. ~deliver /\ phase \in {"pre", "skipping"}
            BY <1>1, <1>13, <1>15, <4>2 DEF BreakInv
          <5>2. phase = "pre"
            BY <1>4, <1>5, <1>15, <4>2, <5>1
          <5>3. vm.halted
            BY <1>4, <1>5, <1>13, <1>15, <4>2, <5>2 DEF Recorded
          <5> QED BY <5>2, <5>3 DEF Recorded
        <4> QED BY <4>1, <4>2
      <3> QED BY <1>1, <1>2, <1>13, <1>15, <3>2, <3>3 DEF TraceInv
    <2> QED BY <2>1, <2>2
  <1>16. TraceInv'
    BY <1>8, <1>9, <1>13, <1>14, <1>15 DEF TraceInv
  <1> QED BY <1>3, <1>7, <1>12, <1>16 DEF SessionInv

\* A stop shows the code and changes halted, no more.
LEMMA StopLeaves ==
    ASSUME vm \in VmState, flash_size \in Word, NEW bk, NEW s, StopAt(bk, s),
           DOMAIN s = {"halted", "ignore", "code"}
    PROVE  \E b \in BOOLEAN : \E w \in Charged(vm) :
              /\ vm' = [w EXCEPT !.halted = b]
              /\ ignore_next_breakpoint' \in BOOLEAN /\ (ignore_next_breakpoint' => b)
              /\ stopped' = vm.pc /\ diverted' = FALSE
              /\ at' \in {at, "crashed"}
  <1> DEFINE from == AtLeast(vm.pc - 10, 0)
             list == ddbg_disassemble(vm, from, AtMost(vm.pc + 10, W) - vm.pc)
             s1 == [s EXCEPT !.halted = TRUE, !.ignore = TRUE]
             l == LuaHook(s1, "break")
  <1>1. PICK loud \in BOOLEAN :
            /\ vm' = [(IF loud THEN list.vm ELSE vm) EXCEPT !.halted = l.halted]
            /\ ignore_next_breakpoint' = l.ignore
            /\ stopped' = vm.pc /\ diverted' = FALSE /\ at' \in {at, "crashed"}
    <2>1. PICK loud \in IF bk.temporary THEN BOOLEAN ELSE {~bk.silent} :
            /\ vm' = [(IF loud THEN list.vm ELSE vm) EXCEPT !.halted = l.halted]
            /\ ignore_next_breakpoint' = l.ignore
            /\ stopped' = vm.pc /\ diverted' = FALSE /\ at' \in {at, "crashed"}
      BY DEF StopAt
    <2>2. loud \in BOOLEAN
      BY <2>1, Zenon
    <2> QED BY <2>1, <2>2
  <1>2. s1.halted = TRUE /\ s1.ignore = TRUE
    OBVIOUS
  <1> HIDE DEF s1
  <1>3. l.halted \in BOOLEAN /\ l.ignore \in BOOLEAN /\ (l.ignore => l.halted)
    <2> DEFINE cs == HookCallsOf("break")
    <2>1. l = dbg_lua_handle_break(s1, cs) /\ s1.halted \in BOOLEAN /\ s1.ignore \in BOOLEAN
      BY <1>2 DEF LuaHook
    <2> HIDE DEF cs, l
    <2>2. l.halted \in BOOLEAN /\ l.ignore \in BOOLEAN /\ (l.ignore => l.halted = TRUE)
      BY <1>2, <2>1, LuaLeaves
    <2> QED BY <2>2
  <1>4. vm.pc \in Int /\ W \in Int
    BY WordAssumption DEF VmState, Word
  <1>5. from \in Int /\ AtMost(vm.pc + 10, W) - vm.pc \in Int
    BY <1>4 DEF AtLeast, AtMost
  <1>6. list.vm \in Charged(vm) /\ vm \in Charged(vm)
    <2> DEFINE n == AtMost(vm.pc + 10, W) - vm.pc
    <2> HIDE DEF from, n
    <2>1. ddbg_disassemble(vm, from, n).vm \in Charged(vm)
      BY <1>5, DisassembleType DEF n
    <2> QED BY <2>1 DEF n, Charged, VmState
  <1> HIDE DEF list, l
  <1> DEFINE w == IF loud THEN list.vm ELSE vm
  <1>7. w \in Charged(vm)
    BY <1>6
  <1> QED BY <1>1, <1>3, <1>7

\* The debugger's pre-cycle hook.
LEMMA PrecycleKeeps == SessionInv /\ ddbg_precycle_hook => SessionInv'
  <1> SUFFICES ASSUME SessionInv, ddbg_precycle_hook PROVE SessionInv'
    OBVIOUS
  <1> DEFINE here == ddbg_get_symbols(vm.pc)
             syms == SeqExt!FlattenSeq([k \in DOMAIN here |-> dbg_lua_handle_hook_symbol])
             s0 == Lua(vm, ignore_next_breakpoint, ddbg_return_code)
             s == dbg_lua_handle_break(s0, syms \o HookCallsOf("precycle"))
             hits == {k \in DOMAIN breakpoints : breakpoints[k].addr = vm.pc}
             k0 == FirstAt(breakpoints, vm.pc)
  <1>1. WellFormed /\ SessionOK /\ BreakInv /\ TraceInv /\ vm \in VmState
    BY WellFormedParts DEF SessionInv
  <1>2. s0.halted = vm.halted /\ s0.ignore = ignore_next_breakpoint
    BY DEF Lua
  <1>3. s0.halted \in BOOLEAN /\ s0.ignore \in BOOLEAN
    BY <1>1, <1>2 DEF SessionOK, VmState
  <1>4. s.halted \in BOOLEAN /\ s.ignore \in BOOLEAN /\ (s.ignore => ignore_next_breakpoint)
    <2> HIDE DEF s0, syms
    <2> QED BY <1>2, <1>3, LuaLeaves
  <1>5. DOMAIN s = {"halted", "ignore", "code"}
    BY DEF dbg_lua_handle_break, _dbg_lua_break
  <1>6. /\ phase = "pre" /\ fire = << >> /\ ~hooked /\ hooked' = TRUE /\ Silent
        /\ UNCHANGED <<phase, raise, call, fire, symbols, flash, flash_size, calls>>
        /\ \/ /\ s.halted \/ s.ignore \/ hits = {}
              /\ vm' = [vm EXCEPT !.halted = s.halted]
              /\ ignore_next_breakpoint' = IgnoreAfter(s)
              /\ backtrace' = IF s.halted THEN backtrace ELSE RecordJump(backtrace, vm)
              /\ UNCHANGED <<at, breakpoints, stopped, diverted, exact>>
           \/ /\ hits # {}
              /\ StopAt(breakpoints[k0], s)
              /\ breakpoints' = IF breakpoints[k0].temporary
                                THEN SeqExt!RemoveAt(breakpoints, k0) ELSE breakpoints
              /\ exact' = (exact /\ (vm'.halted \/ ~Jumps(Instruction)))
              /\ UNCHANGED backtrace
    BY DEF ddbg_precycle_hook
  <1>7. ~Prompt /\ (exact => Within(calls, backtrace))
    BY <1>1, <1>6 DEF BreakInv, TraceInv, Recorded
  <1> HIDE DEF s
  <1>8. CASE /\ s.halted \/ s.ignore \/ hits = {}
             /\ vm' = [vm EXCEPT !.halted = s.halted]
             /\ ignore_next_breakpoint' = IgnoreAfter(s)
             /\ backtrace' = IF s.halted THEN backtrace ELSE RecordJump(backtrace, vm)
             /\ UNCHANGED <<at, breakpoints, stopped, diverted, exact>>
    <2>1. WellFormed' /\ Here(vm') = Here(vm) /\ vm'.pc = vm.pc /\ vm'.halted = s.halted
      BY <1>1, <1>4, <1>6, <1>8, HaltFromOutside
    <2>2. ignore_next_breakpoint' \in BOOLEAN
          /\ (ignore_next_breakpoint' => s.halted /\ s.ignore)
      BY <1>4, <1>8 DEF IgnoreAfter
    <2>3. backtrace' \in Seq(Word)
      BY <1>1, <1>8, TraceType DEF SessionOK
    <2>4. SessionOK'
      BY <1>1, <1>6, <1>8, <2>2, <2>3 DEF SessionOK
    <2>5. Passed' \/ vm'.halted
      <3>1. CASE s.halted
        BY <2>1, <3>1
      <3>2. CASE s.ignore
        BY <1>1, <1>4, <1>6, <1>8, <2>1, <3>2 DEF BreakInv, Passed
      <3>3. CASE hits = {}
        BY <1>8, <2>1, <3>3 DEF Passed
      <3> QED BY <1>8, <3>1, <3>2, <3>3
    <2>6. BreakInv'
      <3>1. ~Prompt'
        BY <1>7, <1>8 DEF Prompt
      <3>2. ignore_next_breakpoint' => stopped' = vm'.pc \/ diverted'
        BY <1>1, <1>4, <1>6, <1>8, <2>1, <2>2 DEF BreakInv
      <3> QED BY <1>6, <2>1, <2>2, <2>5, <3>1, <3>2 DEF BreakInv
    <2>7. ASSUME exact', Recorded', Faithful' PROVE Within(CallsAfter', backtrace')
      <3>1. ~s.halted
        BY <1>6, <2>1, <2>7 DEF Recorded
      <3>2. Faithful /\ CallsAfter' = CallsAfter
        BY <1>6, <2>1, <2>7 DEF Faithful, CallsAfter, Here, Instruction
      <3>3. Within(CallsAfter, RecordJump(backtrace, vm))
        BY <1>1, <1>7, <1>8, <2>7, <3>2, JumpIsRecorded DEF SessionOK
      <3> QED BY <1>8, <3>1, <3>2, <3>3
    <2>8. ASSUME exact', ~Recorded' PROVE Within(calls', backtrace')
      <3>1. s.halted
        BY <1>4, <1>6, <2>1, <2>8 DEF Recorded
      <3> QED BY <1>6, <1>7, <1>8, <2>8, <3>1
    <2>9. TraceInv'
      BY <1>6, <2>7, <2>8 DEF TraceInv
    <2> QED BY <2>1, <2>4, <2>6, <2>9 DEF SessionInv
  <1>9. CASE /\ hits # {}
             /\ StopAt(breakpoints[k0], s)
             /\ breakpoints' = IF breakpoints[k0].temporary
                               THEN SeqExt!RemoveAt(breakpoints, k0) ELSE breakpoints
             /\ exact' = (exact /\ (vm'.halted \/ ~Jumps(Instruction)))
             /\ UNCHANGED backtrace
    <2>1. PICK b \in BOOLEAN : \E w \in Charged(vm) :
              /\ vm' = [w EXCEPT !.halted = b]
              /\ ignore_next_breakpoint' \in BOOLEAN /\ (ignore_next_breakpoint' => b)
              /\ stopped' = vm.pc /\ diverted' = FALSE
              /\ at' \in {at, "crashed"}
      BY <1>1, <1>5, <1>9, StopLeaves DEF SessionOK
    <2>2. PICK w \in Charged(vm) : vm' = [w EXCEPT !.halted = b]
      BY <2>1
    <2>3. w \in VmState /\ Here(w) = Here(vm) /\ w.irq = vm.irq
      BY <1>1, <2>2 DEF Charged, VmState, Here
    <2>4. vm' \in VmState /\ Here(vm') = Here(vm) /\ vm'.irq = vm.irq /\ vm'.halted = b
      <3>1. vm' \in VmState
        BY <2>2, <2>3, UpdateType
      <3>2. Here(vm') = Here(w) /\ vm'.irq = w.irq /\ vm'.halted = b
        BY <2>2, <2>3 DEF VmState, Here
      <3> QED BY <2>3, <3>1, <3>2
    <2>5. vm'.pc = vm.pc /\ Instruction' = Instruction
      BY <2>4 DEF Here, Instruction
    <2>6. WellFormed'
      <3>1. raise' \in Seq(Word) /\ phase' \in Phase \ {"skipping"}
        BY <1>1, <1>6, WellFormedParts
      <3> QED BY <1>1, <1>6, <2>4, <3>1, QuietInv
    <2>7. breakpoints' \in Seq(Breakpoint)
      <3>1. k0 \in DOMAIN breakpoints /\ breakpoints \in Seq(Breakpoint)
        BY <1>1, <1>9, FirstAtIs DEF SessionOK
      <3> HIDE DEF k0
      <3>2. SeqExt!RemoveAt(breakpoints, k0) \in Seq(Breakpoint)
        BY <3>1, RemoveType
      <3> QED BY <1>9, <3>1, <3>2
    <2>8. exact' \in BOOLEAN
      BY <1>9, Zenon
    <2>9. SessionOK'
      BY <1>1, <1>6, <1>9, <2>1, <2>7, <2>8 DEF SessionOK
    <2>10. ~Prompt' /\ Passed'
      BY <1>7, <2>1, <2>5 DEF Prompt, Passed
    <2>11. BreakInv'
      BY <1>6, <2>1, <2>4, <2>5, <2>10 DEF BreakInv
    <2>12. exact' => exact /\ (vm'.halted \/ ~Jumps(Instruction))
      BY <1>9
    <2>13. ~Jumps(Instruction) => CallsAfter' = calls
      BY <1>6, <2>5 DEF CallsAfter, Jumps
    <2>14. Recorded' => ~vm'.halted
      BY <1>6 DEF Recorded
    <2>15. TraceInv'
      BY <1>6, <1>7, <1>9, <2>12, <2>13, <2>14 DEF TraceInv
    <2> QED BY <2>6, <2>9, <2>11, <2>15 DEF SessionInv
  <1> QED BY <1>6, <1>8, <1>9

\* The Lua handlers of a command that starts or ends a run.
LEMMA ReturnKeeps == SessionInv /\ Return => SessionInv'
  <1> SUFFICES ASSUME SessionInv, Return PROVE SessionInv'
    OBVIOUS
  <1> DEFINE s == Lua(vm, ignore_next_breakpoint, ddbg_return_code)
             l == IF at = "run" THEN s ELSE LuaHook(s, at)
  <1>1. /\ vm \in VmState /\ raise \in Seq(Word) /\ SessionOK
        /\ vm.halted \in BOOLEAN /\ ignore_next_breakpoint \in BOOLEAN
    BY WellFormedParts DEF SessionInv, SessionOK, VmState
  <1>2. l.halted \in BOOLEAN /\ l.ignore \in BOOLEAN /\ (l.ignore => ignore_next_breakpoint)
    <2>1. CASE at = "run"
      BY <1>1, <2>1 DEF Lua
    <2>2. CASE at # "run"
      BY <1>1, <2>2, HookLeaves
    <2> QED BY <2>1, <2>2
  <1>3. /\ phase = "start" /\ vm' = [vm EXCEPT !.halted = l.halted]
        /\ ignore_next_breakpoint' = l.ignore /\ Silent
        /\ UNCHANGED <<phase, raise, call, hooked, breakpoints, backtrace, symbols, flash,
                       flash_size, observers>>
    BY DEF Return
  <1> HIDE DEF l
  <1>4. vm' \in VmState
    BY <1>1, <1>2, <1>3, UpdateType
  <1>5. vm'.irq = vm.irq /\ vm'.pc = vm.pc
    BY <1>1, <1>3 DEF VmState
  <1>6. SessionOK'
    BY <1>1, <1>2, <1>3 DEF SessionOK, observers
  <1> QED BY <1>1, <1>2, <1>3, <1>4, <1>5, <1>6, CommandKeeps

LEMMA RunKeeps ==
    ASSUME NEW e, SessionInv, ddbg_run_vm(e)
    PROVE  SessionInv'
  <1> DEFINE v == [vm EXCEPT !.halted = FALSE]
             l == LuaHook(Lua(v, ignore_next_breakpoint, ddbg_return_code), e)
             w == [vm EXCEPT !.halted = l.halted]
  <1>1. /\ vm \in VmState /\ raise \in Seq(Word) /\ SessionOK /\ BreakInv
        /\ ignore_next_breakpoint \in BOOLEAN
    BY WellFormedParts DEF SessionInv, SessionOK
  <1>2. v.halted = FALSE
    BY <1>1 DEF VmState
  <1>3. l.halted \in BOOLEAN /\ l.ignore \in BOOLEAN /\ (l.ignore => ignore_next_breakpoint)
    <2> HIDE DEF v
    <2>1. v.halted \in BOOLEAN
      BY <1>2
    <2> QED BY <1>1, <2>1, HookLeaves
  <1>4. /\ Prompt /\ at' = "run" /\ vm' = [vm EXCEPT !.halted = l.halted, !.sleep_cycles = 0]
        /\ ignore_next_breakpoint' = l.ignore /\ Silent
        /\ UNCHANGED <<phase, raise, call, hooked, breakpoints, backtrace, symbols, flash,
                       flash_size, observers>>
    BY DEF ddbg_run_vm
  <1> HIDE DEF l
  <1>5. w \in VmState
    BY <1>1, <1>3, UpdateType
  <1>6. vm' = [w EXCEPT !.sleep_cycles = 0]
    BY <1>1, <1>4 DEF VmState
  <1>7. vm' \in VmState
    BY <1>5, <1>6, UpdateType
  <1>8. vm'.irq = vm.irq /\ vm'.pc = vm.pc
    BY <1>1, <1>4 DEF VmState
  <1>9. SessionOK'
    BY <1>1, <1>3, <1>4 DEF SessionOK, observers
  <1>10. phase = "start"
    BY <1>1, <1>4 DEF BreakInv
  <1> QED BY <1>1, <1>3, <1>4, <1>7, <1>8, <1>9, <1>10, CommandKeeps DEF Prompt

LEMMA LuaCommandKeeps == SessionInv /\ dbg_lua_handle_command => SessionInv'
  <1> SUFFICES ASSUME SessionInv, dbg_lua_handle_command PROVE SessionInv'
    OBVIOUS
  <1> DEFINE s == Lua(vm, ignore_next_breakpoint, ddbg_return_code)
  <1>1. /\ vm \in VmState /\ raise \in Seq(Word) /\ SessionOK /\ BreakInv
        /\ vm.halted \in BOOLEAN /\ ignore_next_breakpoint \in BOOLEAN
    BY WellFormedParts DEF SessionInv, SessionOK, VmState
  <1>2. s.halted = vm.halted /\ s.ignore = ignore_next_breakpoint
    BY DEF Lua
  <1>3. PICK cs : LET l == dbg_lua_handle_break(s, cs)
                  IN  /\ vm' = [vm EXCEPT !.halted = l.halted]
                      /\ ignore_next_breakpoint' = l.ignore
    BY DEF dbg_lua_handle_command
  <1>4. /\ Prompt /\ Silent
        /\ UNCHANGED <<phase, raise, call, hooked, breakpoints, backtrace, symbols, flash,
                       flash_size, observers>>
    BY DEF dbg_lua_handle_command
  <1> HIDE DEF s
  <1> DEFINE l == dbg_lua_handle_break(s, cs)
  <1>5. l.halted \in BOOLEAN /\ l.ignore \in BOOLEAN /\ (l.ignore => ignore_next_breakpoint)
    BY <1>1, <1>2, LuaLeaves
  <1>6. vm' = [vm EXCEPT !.halted = l.halted] /\ ignore_next_breakpoint' = l.ignore
    BY <1>3
  <1> HIDE DEF l
  <1>7. vm' \in VmState
    BY <1>1, <1>5, <1>6, UpdateType
  <1>8. vm'.irq = vm.irq /\ vm'.pc = vm.pc
    BY <1>1, <1>6 DEF VmState
  <1>9. SessionOK'
    BY <1>1, <1>4, <1>5, <1>6 DEF SessionOK, observers
  <1>10. phase = "start"
    BY <1>1, <1>4 DEF BreakInv
  <1> QED BY <1>1, <1>4, <1>5, <1>6, <1>7, <1>8, <1>9, <1>10, CommandKeeps

\* load resets the machine, so no call is in progress.
LEMMA LoadKeeps == SessionInv /\ ddbg_load => SessionInv'
  <1> SUFFICES ASSUME SessionInv, ddbg_load PROVE SessionInv'
    OBVIOUS
  <1>1. /\ WellFormed /\ raise \in Seq(Word) /\ SessionOK /\ BreakInv
        /\ call \in [msg : Word, pc : Word, ret : HookPhase \cup {"start"}]
    BY WellFormedParts DEF SessionInv
  <1>2. /\ Prompt /\ UNCHANGED <<hooked, fire, exact>> /\ stopped' = -1 /\ diverted' = FALSE
        /\ calls' = << >> /\ vm' = vm_reset(flash') /\ ignore_next_breakpoint' = FALSE
        /\ UNCHANGED <<phase, raise, call, breakpoints, backtrace, symbols>> /\ Silent
        /\ at' = "prompt"
    BY DEF ddbg_load
  <1>3. phase = "start" /\ ~hooked
    BY <1>1, <1>2 DEF BreakInv
  <1>4. flash' \in [Word -> Word] /\ flash_size' \in Word
    <2>1. CASE UNCHANGED <<flash, flash_size>>
      BY <1>1, <2>1 DEF SessionOK
    <2>2. CASE \E f \in Images :
                 /\ flash' = [x \in Word |-> IF x < f.size THEN f.ram[x] ELSE flash[x]]
                 /\ flash_size' = f.size % W
      <3>1. PICK f \in Images :
                 /\ flash' = [x \in Word |-> IF x < f.size THEN f.ram[x] ELSE flash[x]]
                 /\ flash_size' = f.size % W
        BY <2>2
      <3>2. f.ram \in [Word -> Word] /\ f.size \in Int
        BY ImagesAssumption, WordAssumption
      <3>3. flash_size' \in Word
        BY <3>1, <3>2, WordArithmetic
      <3>4. flash \in [Word -> Word]
        BY <1>1 DEF SessionOK
      <3>5. flash' \in [Word -> Word]
        BY <3>1, <3>2, <3>4
      <3> QED BY <3>3, <3>5
    <2> QED BY <2>1, <2>2 DEF ddbg_load
  <1>5. vm' \in VmState /\ vm'.irq = << >>
    <2>1. 0 \in Word /\ << >> \in Seq(Word)
      BY WordArithmetic
    <2> QED BY <1>2, <1>4, <2>1 DEF vm_reset, VmState, Reg
  <1>6. WellFormed'
    <2>1. wrote' = {} /\ event' \in [kind : Kinds, msg : Word]
      BY <1>2, WordArithmetic DEF Silent, Quiet, Event, Kinds
    <2>2. Len(vm'.irq) <= INTERRUPT_MAX /\ phase' \in Phase /\ phase' # "skipping"
      BY <1>2, <1>3, <1>5, QueueAssumption DEF Phase
    <2> QED BY <1>1, <1>2, <1>5, <2>1, <2>2, WellFormedPartsNext
  <1>7. SessionOK'
    <2>1. diverted' \in BOOLEAN /\ ignore_next_breakpoint' \in BOOLEAN /\ calls' \in Seq(Word)
      <3>1. << >> \in Seq(Word)
        OBVIOUS
      <3>2. calls' \in Seq(Word)
        BY <1>2, <3>1, Zenon
      <3> QED BY <1>2, <3>2, Zenon
    <2> QED BY <1>1, <1>2, <1>4, <2>1 DEF SessionOK
  <1>8. BreakInv'
    BY <1>2, <1>3 DEF BreakInv
  <1>9. Within(calls', backtrace') /\ ~Recorded' /\ ~hooked'
    BY <1>2, <1>3, WithinEmpty DEF Recorded
  <1>10. TraceInv'
    BY <1>9 DEF TraceInv
  <1> QED BY <1>6, <1>7, <1>8, <1>10 DEF SessionInv

\* step and next set the machine off.
LEMMA StepKeeps == SessionInv /\ (ddbg_step_into \/ ddbg_step_over) => SessionInv'
  <1> SUFFICES ASSUME SessionInv, ddbg_step_into \/ ddbg_step_over PROVE SessionInv'
    OBVIOUS
  <1>1. vm \in VmState /\ raise \in Seq(Word) /\ SessionOK /\ BreakInv
    BY WellFormedParts DEF SessionInv
  <1>2. phase = "start"
    BY <1>1 DEF BreakInv, ddbg_step_into, ddbg_step_over
  <1>3. CASE ddbg_step_into
    <2>1. /\ at' = "step" /\ vm' = [vm EXCEPT !.sleep_cycles = 0] /\ Silent
          /\ phase' \in {"sixty", "irq"} /\ (raise' \in HookCalls \/ raise' = << >>)
          /\ UNCHANGED <<call, hooked, fire, debugger, observers>>
      BY <1>3 DEF ddbg_step_into
    <2>2. vm' \in VmState
      BY <1>1, <2>1, UpdateType
    <2>3. vm'.irq = vm.irq /\ vm'.pc = vm.pc
      BY <1>1, <2>1 DEF VmState
    <2>4. SessionOK'
      BY <1>1, <2>1 DEF SessionOK, debugger, observers
    <2>5. raise' \in Seq(Word)
      <3>1. << >> \in Seq(Word)
        OBVIOUS
      <3> QED BY <2>1, <3>1, HookAssumption, Zenon
    <2> QED BY <1>2, <2>1, <2>2, <2>3, <2>4, <2>5, CommandKeeps DEF Prompt, debugger
  <1>4. CASE ddbg_step_over
    <2> DEFINE w == [vm EXCEPT !.halted = FALSE]
    <2>1. /\ at' = "next" /\ vm' = [vm EXCEPT !.halted = FALSE, !.sleep_cycles = 0] /\ Silent
          /\ UNCHANGED <<phase, raise, call, hooked, backtrace, symbols, flash, flash_size,
                         ignore_next_breakpoint, observers>>
      BY <1>4 DEF ddbg_step_over
    <2>2. PICK bp \in NextTarget(Instruction, vm.pc) :
              breakpoints' = Append(breakpoints, breakpoint_create(bp, TRUE, TRUE))
      BY <1>4 DEF ddbg_step_over
    <2>3. bp \in Int
      <3>1. vm.pc \in Int /\ Instruction.a \in Int
        <4>1. Instruction \in Instr
          BY <1>1, FetchType
        <4>2. Instruction.a \in Operand
          BY <4>1 DEF Instr
        <4>3. vm.pc \in Word
          BY <1>1 DEF VmState
        <4> QED BY <4>2, <4>3 DEF Word, Operand
      <3>2. Garbage \subseteq Int
        BY ImagesAssumption DEF Word
      <3> QED BY <2>2, <3>1, <3>2 DEF NextTarget, Counted
    <2>4. breakpoints' \in Seq(Breakpoint)
      <3> DEFINE b == breakpoint_create(bp, TRUE, TRUE)
      <3>1. b \in Breakpoint
        BY <2>3, CreateType
      <3>2. breakpoints \in Seq(Breakpoint) /\ breakpoints' = Append(breakpoints, b)
        BY <1>1, <2>2 DEF SessionOK
      <3> HIDE DEF b
      <3> QED BY <3>1, <3>2
    <2>5. w \in VmState
      BY <1>1, UpdateType
    <2>6. vm' = [w EXCEPT !.sleep_cycles = 0]
      BY <1>1, <2>1 DEF VmState
    <2>7. vm' \in VmState
      BY <2>5, <2>6, UpdateType
    <2>8. vm'.irq = vm.irq /\ vm'.pc = vm.pc
      BY <1>1, <2>1 DEF VmState
    <2>9. SessionOK'
      BY <1>1, <2>1, <2>4 DEF SessionOK, observers
    <2> QED BY <1>1, <1>2, <2>1, <2>7, <2>8, <2>9, CommandKeeps DEF Prompt
  <1> QED BY <1>3, <1>4

\* Commands that change what the debugger keeps, not the machine.
LEMMA EditKeeps ==
    SessionInv /\ (\/ ddbg_load_symbols \/ ddbg_add_breakpoint \/ ddbg_add_breakpoint_identifier
                   \/ ddbg_delete_breakpoint \/ ddbg_delete_breakpoint_identifier)
    => SessionInv'
  <1> SUFFICES ASSUME SessionInv,
                      \/ ddbg_load_symbols \/ ddbg_add_breakpoint
                      \/ ddbg_add_breakpoint_identifier \/ ddbg_delete_breakpoint
                      \/ ddbg_delete_breakpoint_identifier
               PROVE  SessionInv'
    OBVIOUS
  <1>1. vm \in VmState /\ raise \in Seq(Word) /\ SessionOK /\ BreakInv
    BY WellFormedParts DEF SessionInv
  <1>2. /\ Prompt /\ Stays /\ KeepMachine
        /\ UNCHANGED <<backtrace, flash, flash_size, ignore_next_breakpoint>>
        /\ \/ symbols' \in SymbolFiles \cup {<< >>} /\ UNCHANGED breakpoints
           \/ /\ UNCHANGED symbols
              /\ \E place \in Places : breakpoints' \in
                    {AddedAt(AddAddress(place)), AddedAt(ddbg_label_to_address(place[1])),
                     DeletedAt(ddbg_file_to_address(place[1], place[2])),
                     DeletedAt(ddbg_label_to_address(place[1]))}
    BY DEF ddbg_load_symbols, ddbg_add_breakpoint, ddbg_add_breakpoint_identifier,
           ddbg_delete_breakpoint, ddbg_delete_breakpoint_identifier, Breakpoints
  <1>3. phase = "start"
    BY <1>1, <1>2 DEF BreakInv
  <1>4. breakpoints' \in Seq(Breakpoint) /\ symbols' \in Seq(Symbol)
    <2>1. breakpoints \in Seq(Breakpoint) /\ symbols \in Seq(Symbol)
      BY <1>1 DEF SessionOK
    <2>2. CASE symbols' \in SymbolFiles \cup {<< >>} /\ UNCHANGED breakpoints
      <3>1. << >> \in Seq(Symbol) /\ SymbolFiles \subseteq Seq(Symbol)
        BY SymbolAssumption
      <3>2. symbols' \in Seq(Symbol)
        BY <2>2, <3>1, Zenon
      <3> QED BY <2>1, <2>2, <3>2
    <2>3. ASSUME UNCHANGED symbols, NEW place \in Places,
                 breakpoints' \in
                    {AddedAt(AddAddress(place)), AddedAt(ddbg_label_to_address(place[1])),
                     DeletedAt(ddbg_file_to_address(place[1], place[2])),
                     DeletedAt(ddbg_label_to_address(place[1]))}
          PROVE  breakpoints' \in Seq(Breakpoint) /\ symbols' \in Seq(Symbol)
      <3>1. /\ AddedAt(AddAddress(place)) \in Seq(Breakpoint)
            /\ AddedAt(ddbg_label_to_address(place[1])) \in Seq(Breakpoint)
            /\ DeletedAt(ddbg_file_to_address(place[1], place[2])) \in Seq(Breakpoint)
            /\ DeletedAt(ddbg_label_to_address(place[1])) \in Seq(Breakpoint)
        BY <2>1, BreakpointsType
      <3>2. breakpoints' \in Seq(Breakpoint)
        BY <2>3, <3>1, Zenon
      <3> QED BY <2>1, <2>3, <3>2
    <2> QED BY <1>2, <2>2, <2>3
  <1>5. SessionOK'
    BY <1>1, <1>2, <1>4 DEF SessionOK, Stays, observers
  <1>6. /\ vm' = vm /\ phase' = phase /\ raise' = raise /\ call' = call /\ Silent
        /\ UNCHANGED <<hooked, observers>>
    BY <1>2 DEF KeepMachine, Stays
  <1> QED BY <1>1, <1>2, <1>3, <1>5, <1>6, CommandKeeps

LEMMA AttachKeeps == SessionInv /\ ddbg_attach => SessionInv'
  <1> SUFFICES ASSUME SessionInv, ddbg_attach PROVE SessionInv'
    OBVIOUS
  <1>1. vm \in VmState /\ raise \in Seq(Word) /\ SessionOK /\ BreakInv
    BY WellFormedParts DEF SessionInv
  <1>2. /\ Prompt /\ (vm' = vm_halt(vm) \/ vm' = vm) /\ Silent
        /\ UNCHANGED <<phase, raise, call, hooked, breakpoints, backtrace, symbols, flash,
                       flash_size, ignore_next_breakpoint, observers>>
    BY DEF ddbg_attach, Stays
  <1>3. phase = "start"
    BY <1>1, <1>2 DEF BreakInv
  <1>4. vm_halt(vm) \in VmState
    BY <1>1, UpdateType DEF vm_halt
  <1>5. vm' \in VmState /\ vm'.irq = vm.irq /\ vm'.pc = vm.pc
    BY <1>1, <1>2, <1>4 DEF vm_halt, VmState
  <1>6. SessionOK'
    BY <1>1, <1>2 DEF SessionOK, observers
  <1> QED BY <1>1, <1>2, <1>3, <1>5, <1>6, CommandKeeps

\* Commands that show something: the machine that results owes cycles at most.
LEMMA ShowsCharged ==
    ASSUME vm \in VmState, flash_size \in Word,
           \/ Disassemble \/ DisassembleRange \/ InspectMemory \/ ddbg_backtrace
           \/ ddbg_breakpoints_list
    PROVE  /\ Prompt /\ vm' \in Charged(vm) /\ Silent
           /\ UNCHANGED <<phase, raise, call, hooked, fire, debugger, observers>>
           /\ at' \in {"prompt", "crashed"}
  <1>1. CASE Disassemble
    <2>1. ddbg_disassemble_default(vm).vm \in Charged(vm)
      BY DisassembleType
    <2> QED BY <1>1, <2>1 DEF Disassemble, Inspects
  <1>2. CASE DisassembleRange
    <2>1. PICK r \in Ranges : Inspects(ddbg_disassemble(vm, r[1], r[2]))
      BY <1>2 DEF DisassembleRange
    <2>2. r[1] \in Int /\ r[2] \in Int
      BY RangeAssumption
    <2>3. ddbg_disassemble(vm, r[1], r[2]).vm \in Charged(vm)
      BY <2>2, DisassembleType
    <2> QED BY <2>1, <2>3 DEF Inspects
  <1>3. CASE InspectMemory \/ ddbg_backtrace \/ ddbg_breakpoints_list
    <2>1. vm \in Charged(vm)
      BY DEF Charged, VmState
    <2>2. /\ Prompt /\ KeepMachine
          /\ UNCHANGED <<at, hooked, fire, debugger, observers>>
      BY <1>3 DEF InspectMemory, ddbg_backtrace, ddbg_breakpoints_list
    <2> QED BY <2>1, <2>2 DEF KeepMachine, Prompt
  <1> QED BY <1>1, <1>2, <1>3

LEMMA ShowKeeps ==
    ASSUME SessionInv,
           \/ Disassemble \/ DisassembleRange \/ InspectMemory \/ ddbg_backtrace
           \/ ddbg_breakpoints_list
    PROVE  SessionInv'
  <1>1. vm \in VmState /\ raise \in Seq(Word) /\ SessionOK /\ BreakInv
    BY WellFormedParts DEF SessionInv
  <1>2. /\ Prompt /\ vm' \in Charged(vm) /\ Silent
        /\ UNCHANGED <<phase, raise, call, hooked, fire, debugger, observers>>
    BY <1>1, ShowsCharged DEF SessionOK
  <1>3. phase = "start"
    BY <1>1, <1>2 DEF BreakInv
  <1>4. vm' \in VmState /\ vm'.irq = vm.irq /\ vm'.pc = vm.pc
    BY <1>1, <1>2 DEF Charged, VmState
  <1>5. SessionOK'
    BY <1>1, <1>2 DEF SessionOK, debugger, observers
  <1>6. UNCHANGED <<backtrace, ignore_next_breakpoint>>
    BY <1>2 DEF debugger
  <1> QED BY <1>1, <1>2, <1>3, <1>4, <1>5, <1>6, CommandKeeps

-----------------------------------------------------------------------------
(* The invariant holds *)

LEMMA SessionStarts == DInit => SessionInv
  <1> SUFFICES ASSUME DInit PROVE SessionInv
    OBVIOUS
  <1>1. 0 \in Word /\ NoImage \in [Word -> Word]
    BY WordArithmetic DEF NoImage
  <1>2. /\ vm = vm_reset(NoImage) /\ phase = "start" /\ raise = << >> /\ call = NoCall
        /\ wrote = {} /\ event = Quiet /\ hooked = FALSE /\ fire = << >>
        /\ breakpoints = << >> /\ backtrace = << >> /\ symbols = << >>
        /\ flash = NoImage /\ flash_size = 0 /\ ignore_next_breakpoint = FALSE
        /\ stopped = -1 /\ diverted = FALSE /\ calls = << >> /\ exact = TRUE
    BY DEF DInit
  <1>3. vm \in VmState /\ vm.irq = << >>
    BY <1>1, <1>2 DEF vm_reset, VmState, Reg
  <1>4. WellFormed
    <2>1. call \in [msg : Word, pc : Word, ret : HookPhase \cup {"start"}]
      BY <1>1, <1>2 DEF NoCall
    <2>2. wrote \subseteq Word /\ event \in [kind : Kinds, msg : Word]
      BY <1>1, <1>2 DEF Quiet, Event, Kinds
    <2>3. Len(vm.irq) <= INTERRUPT_MAX /\ raise \in Seq(Word)
      BY <1>2, <1>3, QueueAssumption
    <2>4. phase \in Phase /\ phase # "skipping"
      BY <1>2 DEF Phase
    <2> QED BY <1>3, <2>1, <2>2, <2>3, <2>4, WellFormedParts
  <1>5. SessionOK
    <2>1. \A S : << >> \in Seq(S)
      OBVIOUS
    <2>2. /\ breakpoints \in Seq(Breakpoint) /\ symbols \in Seq(Symbol)
          /\ backtrace \in Seq(Word) /\ calls \in Seq(Word)
      BY <1>2, <2>1, Zenon
    <2> QED BY <1>1, <1>2, <2>2 DEF SessionOK
  <1>6. BreakInv
    BY <1>2 DEF BreakInv
  <1>7. Within(calls, backtrace) /\ ~Recorded
    BY <1>2, WithinEmpty DEF Recorded
  <1>8. TraceInv
    BY <1>2, <1>7 DEF TraceInv
  <1> QED BY <1>4, <1>5, <1>6, <1>8 DEF SessionInv

\* Doing nothing keeps everything.
LEMMA SessionStutters == SessionInv /\ UNCHANGED dvars => SessionInv'
  <1> SUFFICES ASSUME SessionInv, UNCHANGED dvars PROVE SessionInv'
    OBVIOUS
  <1>1. /\ UNCHANGED vars
        /\ UNCHANGED <<at, hooked, fire, breakpoints, backtrace, symbols, flash, flash_size,
                       ignore_next_breakpoint, stopped, diverted, calls, exact>>
    BY DEF dvars, debugger, observers
  <1>2. WellFormed'
    BY <1>1, NextWellFormed DEF SessionInv
  <1>3. SessionOK'
    BY <1>1 DEF SessionInv, SessionOK
  <1>4. Passed' <=> Passed
    BY <1>1 DEF Passed, vars
  <1>5. BreakInv'
    BY <1>1, <1>4 DEF SessionInv, BreakInv, Prompt, vars
  <1>6. (Recorded' <=> Recorded) /\ (Faithful' <=> Faithful) /\ CallsAfter' = CallsAfter
    BY <1>1 DEF Recorded, Faithful, CallsAfter, Instruction, vars
  <1>7. TraceInv'
    BY <1>1, <1>6 DEF SessionInv, TraceInv, vars
  <1> QED BY <1>2, <1>3, <1>5, <1>7 DEF SessionInv

LEMMA SessionGoesOn == SessionInv /\ [DNext]_dvars => SessionInv'
  BY SessionStutters, MachineKeeps, PrecycleKeeps, LuaHooksKeep, SigintKeeps, ReturnKeeps,
     LoadKeeps, EditKeeps, RunKeeps, StepKeeps, AttachKeeps, ShowKeeps, LuaCommandKeeps
  DEF DNext

LEMMA SessionInvariance == DSpec => []SessionInv
  BY SessionStarts, SessionGoesOn, PTL DEF DSpec

-----------------------------------------------------------------------------
(* The theorems *)

\* dtdb never runs the instruction at a breakpoint it did not just report
\* there, whatever commands, signals, interrupts and Lua handlers come in
\* between; only an interrupt that entered its handler at that address hides
\* one.
THEOREM NoBreakpointIsMissed == DSpec => NoMissedBreak
  <1>1. SessionInv =>
            [phase = "exec" /\ phase' = "post" =>
                \/ \A k \in DOMAIN breakpoints : breakpoints[k].addr # vm.pc
                \/ stopped = vm.pc \/ diverted]_dvars
    BY DEF SessionInv, BreakInv, Passed
  <1> QED BY <1>1, SessionInvariance, PTL DEF NoMissedBreak

\* At the prompt the backtrace of dtdb holds the calls in progress, in order,
\* after any session that kept exact up.
THEOREM BacktraceIsComplete == DSpec => []BacktraceKeepsCalls
  <1>1. SessionInv => BacktraceKeepsCalls
    <2> SUFFICES ASSUME SessionInv, Prompt, exact PROVE Within(calls, backtrace)
      BY DEF BacktraceKeepsCalls
    <2>1. phase = "start" /\ ~hooked /\ ~Recorded
      BY DEF SessionInv, BreakInv, Recorded
    <2> QED BY <2>1 DEF SessionInv, TraceInv
  <1> QED BY <1>1, SessionInvariance, PTL

\* No command that shows something, and no stop that shows the code, changes
\* what the program can see: vm_disassemble puts PC and SP back behind every
\* row, for every word it may meet.
THEOREM LookingIsHarmless == DSpec => InspectionKeepsMachine
  <1> DEFINE Same == /\ vm'.pc = vm.pc /\ vm'.sp = vm.sp /\ vm'.skip = vm.skip
                     /\ vm'.ram = vm.ram /\ vm'.registers = vm.registers
                     /\ vm'.irq = vm.irq /\ vm'.ex = vm.ex
  <1>1. SessionInv /\ [DNext]_dvars => [shown' # shown /\ shown' # << >> => Same]_dvars
    <2> SUFFICES ASSUME SessionInv, DNext, shown' # shown, shown' # << >> PROVE Same
      BY DEF dvars
    <2>1. vm \in VmState /\ flash_size \in Word
      BY WellFormedParts DEF SessionInv, SessionOK
    <2>2. ASSUME NEW w \in Charged(vm), NEW b \in BOOLEAN,
                 vm' = w \/ vm' = [w EXCEPT !.halted = b]
          PROVE  Same
      <3>1. /\ w.pc = vm.pc /\ w.sp = vm.sp /\ w.skip = vm.skip /\ w.ram = vm.ram
            /\ w.registers = vm.registers /\ w.irq = vm.irq /\ w.ex = vm.ex /\ w \in VmState
        BY <2>1 DEF Charged, VmState
      <3>2. CASE vm' = w
        BY <3>1, <3>2
      <3>3. CASE vm' = [w EXCEPT !.halted = b]
        BY <3>1, <3>3 DEF VmState
      <3> QED BY <2>2, <3>2, <3>3
    <2> HIDE DEF Same
    <2>3. CASE \/ Disassemble \/ DisassembleRange \/ InspectMemory \/ ddbg_backtrace
               \/ ddbg_breakpoints_list
      <3>1. vm' \in Charged(vm)
        BY <2>1, <2>3, ShowsCharged
      <3> QED BY <2>2, <3>1
    <2>4. CASE ddbg_precycle_hook
      <3> DEFINE here == ddbg_get_symbols(vm.pc)
                 syms == SeqExt!FlattenSeq([k \in DOMAIN here |-> dbg_lua_handle_hook_symbol])
                 s == dbg_lua_handle_break(Lua(vm, ignore_next_breakpoint, ddbg_return_code),
                                           syms \o HookCallsOf("precycle"))
      <3>1. StopAt(breakpoints[FirstAt(breakpoints, vm.pc)], s)
        BY <2>4 DEF ddbg_precycle_hook
      <3>2. DOMAIN s = {"halted", "ignore", "code"}
        BY DEF dbg_lua_handle_break, _dbg_lua_break
      <3> HIDE DEF s
      <3>3. PICK b \in BOOLEAN : \E w \in Charged(vm) : vm' = [w EXCEPT !.halted = b]
        BY <2>1, <3>1, <3>2, StopLeaves
      <3> QED BY <2>2, <3>3
    <2>5. CASE \/ Machine \/ ddbg_lua_hooks \/ ddbg_sigint \/ Return \/ ddbg_load
               \/ ddbg_load_symbols \/ ddbg_run_vm("run") \/ ddbg_run_vm("continue")
               \/ ddbg_step_into \/ ddbg_step_over \/ ddbg_attach
               \/ ddbg_add_breakpoint \/ ddbg_add_breakpoint_identifier
               \/ ddbg_delete_breakpoint \/ ddbg_delete_breakpoint_identifier
               \/ dbg_lua_handle_command
      <3>1. shown' = shown \/ shown' = << >>
        BY <2>5 DEF Machine, ddbg_lua_hooks, ddbg_sigint, Return, ddbg_load, ddbg_load_symbols,
               ddbg_run_vm, ddbg_step_into, ddbg_step_over, ddbg_attach, ddbg_add_breakpoint,
               ddbg_add_breakpoint_identifier, ddbg_delete_breakpoint,
               ddbg_delete_breakpoint_identifier, dbg_lua_handle_command, Breakpoints, Stays
      <3> QED BY <3>1
    <2> QED BY <2>3, <2>4, <2>5 DEF DNext
  <1> QED BY <1>1, SessionInvariance, PTL DEF DSpec, InspectionKeepsMachine

\* next puts its breakpoint behind the instruction, wherever it counts the
\* words of the operands right.
THEOREM NextStopsBehind == DSpec => NextGoesBehind
  <1> DEFINE Counts == /\ Prompt /\ at' = "next" /\ ~Special(Instruction)
                       /\ {Instruction.a, Instruction.b}
                             \cap (NXT_VAL_A .. NXT_VAL_A + 7 \cup {PICK_}) = {}
             Behind == breakpoints'[Len(breakpoints')].addr = (vm.pc + InstrWords(Instruction)) % W
  <1>1. SessionInv /\ [DNext]_dvars => [Counts => Behind]_dvars
    <2> SUFFICES ASSUME SessionInv, DNext, Counts PROVE Behind
      BY DEF dvars
    <2>1. ddbg_step_over
      <3>1. ~ddbg_precycle_hook
        BY DEF ddbg_precycle_hook, SessionInv, BreakInv
      <3>2. ~(\/ Machine \/ ddbg_lua_hooks \/ ddbg_sigint \/ Return \/ ddbg_load
              \/ ddbg_load_symbols \/ ddbg_run_vm("run") \/ ddbg_run_vm("continue")
              \/ ddbg_step_into \/ ddbg_attach
              \/ ddbg_add_breakpoint \/ ddbg_add_breakpoint_identifier
              \/ ddbg_delete_breakpoint \/ ddbg_delete_breakpoint_identifier
              \/ dbg_lua_handle_command)
        BY DEF Machine, ddbg_lua_hooks, ddbg_sigint, Return, ddbg_load, ddbg_load_symbols,
               ddbg_run_vm, ddbg_step_into, ddbg_attach, ddbg_add_breakpoint,
               ddbg_add_breakpoint_identifier, ddbg_delete_breakpoint,
               ddbg_delete_breakpoint_identifier, dbg_lua_handle_command, Breakpoints, Stays,
               Prompt, Executing
      <3>3. ~(\/ Disassemble \/ DisassembleRange \/ InspectMemory \/ ddbg_backtrace
              \/ ddbg_breakpoints_list)
        BY WellFormedParts, ShowsCharged DEF SessionInv, SessionOK
      <3> QED BY <3>1, <3>2, <3>3 DEF DNext
    <2>2. PICK bp \in NextTarget(Instruction, vm.pc) :
              breakpoints' = Append(breakpoints, breakpoint_create(bp, TRUE, TRUE))
      BY <2>1 DEF ddbg_step_over
    <2>3. vm.pc \in Int /\ Instruction.a \in Operand /\ Instruction.b \in Operand
      <3>1. vm \in VmState
        BY WellFormedParts DEF SessionInv
      <3>2. Instruction \in Instr
        BY <3>1, FetchType
      <3> QED BY <3>1, <3>2 DEF VmState, Word, Instr
    <2> DEFINE i == Instruction
    <2>4. bp = vm.pc + InstrWords(i)
      <3>1. bp = vm.pc + 1 + Counted(i.a) + Counted(i.b)
        BY <2>2 DEF NextTarget
      <3>2. i.op \in Branch \cup Arith \cup {"SET", "STI", "STD"}
        BY DEF Special
      <3>3. ASSUME NEW x \in {i.a, i.b}
            PROVE  (IF IndexedOperand(x) \/ x = NXT_LIT THEN 1 ELSE 0) = Counted(x)
        BY <3>3 DEF IndexedOperand, Counted
      <3>4. InstrWords(i) = 1 + Counted(i.a) + Counted(i.b)
        BY <3>2, <3>3 DEF InstrWords
      <3>5. Counted(i.a) \in Int /\ Counted(i.b) \in Int
        BY DEF Counted
      <3> HIDE DEF i
      <3> QED BY <2>3, <3>1, <3>4, <3>5
    <2>5. bp \in Int
      BY <2>3, <2>4 DEF InstrWords
    <2> DEFINE b == breakpoint_create(bp, TRUE, TRUE)
    <2>6. b \in Breakpoint /\ b.addr = bp % W
      BY <2>5, CreateType
    <2>7. breakpoints \in Seq(Breakpoint) /\ breakpoints' = Append(breakpoints, b)
      BY <2>2 DEF SessionInv, SessionOK
    <2> HIDE DEF b
    <2>8. breakpoints'[Len(breakpoints')] = b
      BY <2>6, <2>7
    <2> QED BY <2>4, <2>6, <2>8
  <1> QED BY <1>1, SessionInvariance, PTL DEF DSpec, NextGoesBehind
=============================================================================
