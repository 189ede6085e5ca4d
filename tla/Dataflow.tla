------------------------------ MODULE Dataflow ------------------------------
(***************************************************************************)
(* What the scheduler of Tomosulo/ promises, with no reservation station,  *)
(* slot, tag or alias table: instructions are accepted in program order,   *)
(* one of them may fire once the instructions that produce its operands    *)
(* are done, each functional unit accepts exactly one ready instruction in *)
(* every cycle that offers it one, and an instruction is done a fixed      *)
(* number of cycles after it fired.                                        *)
(***************************************************************************)
EXTENDS ProgramOrder

VARIABLES
    prog,     \* the accepted instructions, in program order
    firedAt,  \* the cycle each of them fired in, 0 before that
    clock     \* the current cycle

vars == <<prog, firedAt, clock>>

Init == /\ prog = <<>>
        /\ firedAt = <<>>
        /\ clock = 1

Accept ==
    /\ UNCHANGED clock
    /\ prog' # prog
    /\ \E i \in Instruction : /\ prog' = Append(prog, i)
                             /\ firedAt' = Append(firedAt, 0)

\* The instructions of unit op that may fire in cycle c.
CanFire(op, c) ==
    {n \in 1 .. Len(prog) :
        /\ prog[n].op = op
        /\ firedAt[n] = 0
        /\ \A m \in 1 .. Len(prog) : Feeds(prog, m, n) => IsDone(prog, firedAt, m, c)}

\* One cycle passes: S is what fires in it.
Tick == \E S \in SUBSET (1 .. Len(prog)) :
    /\ \A n \in S : prog[n].op \in FU /\ n \in CanFire(prog[n].op, clock + 1)
    /\ \A m, n \in S : prog[m].op = prog[n].op => m = n
    /\ \A op \in FU : CanFire(op, clock + 1) # {} => \E n \in S : prog[n].op = op
    /\ clock' = clock + 1
    /\ firedAt' = [n \in 1 .. Len(prog) |-> IF n \in S THEN clock + 1 ELSE firedAt[n]]
    /\ UNCHANGED prog

Next == Accept \/ Tick

Spec == Init /\ [][Next]_vars
=============================================================================
