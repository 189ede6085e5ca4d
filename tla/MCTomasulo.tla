----------------------------- MODULE MCTomasulo -----------------------------
(* Instances of Tomasulo: every trace of at most MaxLines lines.            *)
EXTENDS SchedulerLoops, TLC

CONSTANTS MaxLines,  \* bound: the number of lines of a trace
          Kinds      \* the ops that occur in it

Lines == {i \in Instruction : i.op \in Kinds}
\* Lines that read no register, or two.
BinaryLines ==
    {i \in Lines : \/ i.src1 = INVALID_REG /\ i.src2 = INVALID_REG
                   \/ i.src1 # i.src2 /\ {i.src1, i.src2} \subseteq Reg}

AnyBinaryLines(p) == IF Len(p) < MaxLines THEN BinaryLines \cup {Eof} ELSE {Eof}

SizesOneEach == [op \in FU |-> 1]

Symmetry == Permutations(Reg)
=============================================================================
