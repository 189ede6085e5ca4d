-------------------------- MODULE MCTomasuloTraces --------------------------
(* Tomasulo with one station per unit, the latencies of schedulersim.cpp and *)
(* the station sizes of validate-test-traces.sh: on the traces of            *)
(* Tomosulo/test-traces, against the statistics of Tomosulo/output, and on   *)
(* every trace of at most MaxLines short lines, also of lines of no unit.    *)
EXTENDS Tomasulo, SequencesExt

CONSTANTS MaxLines,  \* bound: the number of lines of a trace that is no test
          MaxCycles  \* bound: the cycles a run may take

I(op, d, s1, s2) == [op |-> op, dest |-> d, src1 |-> s1, src2 |-> s2]

AllIndependent == << I("MEM", 1, 2, 3), I("MEM", 4, 5, 6), I("MEM", 7, 8, 9),
                     I("DIV", 10, -1, -1), I("DIV", 11, -1, -1) >>
CompleteChain == << I("MEM", 1, 2, 3), I("DIV", 3, 1, 2), I("ADD", 2, 1, 3),
                    I("MEM", 4, 2, -1), I("MEM", 1, 4, -1) >>
MultiFire == << I("MEM", 1, 2, 3), I("DIV", 2, 1, -1), I("ADD", 3, 1, -1) >>
Traces == {AllIndependent, CompleteChain, MultiFire}

TraceLines(p) ==
    {t[Len(p) + 1] : t \in {u \in Traces : IsStrictPrefix(p, u)}}
        \cup (IF p \in Traces THEN {Eof} ELSE {})

\* One source or none; a station of two entries is full of three lines of its unit.
ShortLines == [op : {"ADD", "MEM", OP_INVALID}, dest : {1, 2}, src1 : {INVALID_REG, 1},
               src2 : {INVALID_REG}]

TestOrShortLines(p) ==
    TraceLines(p) \cup
    IF Range(p) \subseteq ShortLines
    THEN {Eof} \cup IF Len(p) < MaxLines THEN ShortLines ELSE {}
    ELSE {}

\* The registers these traces name, of the 32 there are.
Registers == 1 .. 11
SizesTwoEach == [op \in FU |-> 2]

Report(insts, cycles, stall, fired, completed, add, div, mem) ==
    [num_insts |-> insts, num_cycles |-> cycles, issue_stall |-> stall,
     max_fired |-> fired, max_completed |-> completed,
     max_active |-> [op \in FU |-> CASE op = "ADD" -> add [] op = "DIV" -> div [] OTHER -> mem]]

\* output/*_a2_d2_m2.out
Expected == [t \in Traces |-> CASE t = AllIndependent -> Report(5, 43, 19, 1, 1, 0, 2, 2)
                               [] t = CompleteChain  -> Report(5, 79, 17, 1, 1, 1, 1, 1)
                               [] OTHER              -> Report(3, 37, 0, 2, 1, 1, 1, 1)]

\* When main has printed its statistics they are those of the file in output/.
PrintsExpectedStatistics == pc = "end" /\ prog \in Traces => stats = Expected[prog]

\* main runs alone and never waits, so it takes its next step, here for at most
\* MaxCycles cycles.
BoundedNext == Next /\ clock' <= MaxCycles
BoundedFairSpec == Init /\ [][BoundedNext]_vars /\ WF_vars(BoundedNext)

=============================================================================
