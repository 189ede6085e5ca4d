------------------------------ MODULE MCAtmBank ------------------------------
(* AtmBank with a budget for what people type and for what goes wrong.      *)
EXTENDS AtmBank, TLC

CONSTANTS Lengths,    \* the number of letters of every name
          MaxLines,   \* bound: lines the operator types at the bank
          MaxTyped,   \* bound: commands (and PINs) the user types at the ATM
          MaxFaults   \* bound: losses, restarts and ends of input

VARIABLE spent

LengthOf(u) == Lengths[u]

OneBin(u) == 0

MCInit == Init /\ spent = [lines |-> 0, typed |-> 0, faults |-> 0]

Costs(kind, max) == spent[kind] < max /\ spent' = [spent EXCEPT ![kind] = @ + 1]

MCNext ==
    \/ Costs("typed", MaxTyped) /\ (AtThePinPrompt \/ Sends)
    \/ Costs("lines", MaxLines) /\ BankLocally
    \/ Costs("faults", MaxFaults) /\ (BankInputEnds \/ Lose \/ ATMDies \/ BankDies)
    \/ (Route \/ BankReceives \/ ATMReceives) /\ UNCHANGED spent

MCSpec == MCInit /\ [][MCNext]_<<vars, spent>>

Symmetry == Permutations(Pin)

ShortAndLongest == [alice |-> 5, bob |-> 236]
=============================================================================
