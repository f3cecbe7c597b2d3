------------------------------ MODULE MCClock ------------------------------
\* A program that starts the clock, installs a handler and loops over a slow
\* instruction; the handler reads the ticks and returns.
EXTENDS MCDcpuVm, Clock

Ticking(rate) == <<
    I("SET", B, Lit(rate)), NB("HWI", Lit(0)),
    I("SET", A, Lit(2)), NB("HWI", Lit(0)),
    I("SET", A, Lit(3)), NB("HWI", Lit(0)), NB("IAS", Lit(12)),
    I("DIV", C, Lit(2)), I("IFE", C, Lit(1)), I("SET", PC, Lit(7)),
    I("SET", PC, Lit(7)), Bad,
    I("SET", A, Lit(1)), NB("HWI", Lit(0)), NB("RFI", Lit(0)) >>
ClockImages == {[ImageOf(Ticking(1)) EXCEPT ![0] = w] : w \in {1, 16, 17}}
ClockDecode == DecodeOf(Ticking(1) \o << I("SET", B, Lit(2)), I("SET", B, Lit(0)) >>)
OneDevice == << [A |-> 1, B |-> 2, C |-> 3, X |-> 4, Y |-> 5] >>
AnyMessage == {<< >>, <<1>>, <<2>>}
Answers == {[r \in {REG_B, REG_C} |-> c] : c \in 0 .. 2^BITS - 1}
=============================================================================
