---------------------------- MODULE ProgramOrder ----------------------------
(***************************************************************************)
(* The instructions of a trace of Tomosulo/ and the data dependences their *)
(* program order induces.  Both the abstract machine (Dataflow) and the    *)
(* scheduler (Tomasulo) are written over these definitions.                *)
(***************************************************************************)
EXTENDS Naturals, Integers, Sequences

CONSTANTS
    Reg,        \* the architectural registers, the trace's 1..num_registers
    AddLatency, \* the three latencies get_inst_latency returns
    DivLatency,
    MemLatency

\* An operand field that names no register, and a source that is ready.
INVALID_REG == -1

\* The functional units, and the op of a trace line that names none of them.
FU == {"ADD", "DIV", "MEM"}
OP_INVALID == "INVALID"
Op == FU \cup {OP_INVALID}

ASSUME ProgramOrderAssumption ==
    /\ INVALID_REG \notin Reg
    /\ AddLatency \in Nat \ {0}
    /\ DivLatency \in Nat \ {0}
    /\ MemLatency \in Nat \ {0}

\* One line of a trace: OP RD RS RT.
Instruction == [op: Op, dest: Reg \cup {INVALID_REG},
                src1: Reg \cup {INVALID_REG}, src2: Reg \cup {INVALID_REG}]

get_inst_latency(op) ==
    IF op = "ADD" THEN AddLatency ELSE IF op = "DIV" THEN DivLatency ELSE MemLatency

(***************************************************************************)
(* Instruction m of program p is the producer of register r for an         *)
(* instruction at position n: the last one before n that writes r.         *)
(***************************************************************************)
IsProducer(p, m, n, r) ==
    /\ m \in 1 .. Len(p)
    /\ m < n
    /\ p[m].dest = r
    /\ r # INVALID_REG
    /\ \A k \in 1 .. Len(p) : m < k /\ k < n => p[k].dest # r

\* Instruction m produces one of the operands of instruction n.
Feeds(p, m, n) == \/ IsProducer(p, m, n, p[n].src1)
                  \/ IsProducer(p, m, n, p[n].src2)

\* Instruction n, fired in cycle t (0: not yet), has its result in cycle c.
IsDone(p, t, n, c) ==
    /\ n \in 1 .. Len(p)
    /\ t[n] > 0
    /\ c - t[n] >= get_inst_latency(p[n].op)
=============================================================================
