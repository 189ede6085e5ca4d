----------------------------- MODULE MCDeployment -----------------------------
(* Deployment with a budget for what people type and for what goes wrong.   *)
EXTENDS Deployment

CONSTANTS Lengths,    \* the number of letters of every name
          MaxLines,   \* bound: lines the operator types at the bank
          MaxTyped,   \* bound: commands (and PINs) the user types at the ATM
          MaxFaults   \* bound: processes that stop, inits that fail or are killed

VARIABLE spent

LengthOf(u) == Lengths[u]

OneBin(u) == 0

MCInit == DepInit /\ spent = [lines |-> 0, typed |-> 0, faults |-> 0]

Costs(kind, max) == spent[kind] < max /\ spent' = [spent EXCEPT ![kind] = @ + 1]

MCNext ==
    \/ Costs("typed", MaxTyped) /\ Typed
    \/ ~eof /\ Costs("lines", MaxLines) /\ Operated
    \/ eof /\ Operated /\ UNCHANGED spent
    \/ Costs("faults", MaxFaults) /\ GoesWrong
    \/ (InitRuns \/ Started \/ InputEnds \/ Served) /\ UNCHANGED spent

MCSpec == MCInit /\ [][MCNext]_<<DepVars, spent>> /\ DepFairness

ShortAndCut == [alice |-> 5, bob |-> 239]

=============================================================================
