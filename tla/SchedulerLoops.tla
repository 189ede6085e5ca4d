--------------------------- MODULE SchedulerLoops ---------------------------
(***************************************************************************)
(* The loops of complete_insts and fire_ready as the code runs them, slot  *)
(* by slot on the tables they are changing, and the claim that the sets of *)
(* Tomasulo's SchedulerStep are what they compute.                         *)
(***************************************************************************)
EXTENDS Tomasulo

\* update_sources, on every table of broadcast_complete.
UpdateSources(R, tag) ==
    [s \in Slot |-> IF R[s].valid
                    THEN [R[s] EXCEPT !.src1 = IF @ = tag THEN -1 ELSE @,
                                      !.src2 = IF @ = tag THEN -1 ELSE @]
                    ELSE R[s]]

\* Mutant: the alias is cleared without asking whether it still names the slot.
ClearAliasOf(table, dest, s) ==
    [r \in Reg |-> IF r = dest THEN -1 ELSE table[r]]
ClearAlias(table, dest, s) ==
    [r \in Reg |-> IF r = dest /\ table[r] = s THEN -1 ELSE table[r]]

\* One turn of the loop of complete_insts in cycle c.
CompleteOne(a, s, c) ==
    LET e == a.rest[s] IN
    IF ~e.valid \/ e.start_cycle <= 0 \/ c - e.start_cycle < get_inst_latency(e.op) THEN a
    ELSE [rest |-> [UpdateSources(a.rest, s) EXCEPT ![s].valid = FALSE],
          rat  |-> ClearAlias(a.rat, e.dest, s),
          num  |-> a.num + 1]

\* The loop over the table whose slots are lo .. hi: after[s] is what its first
\* turns, up to that of slot s, have left.
complete_insts(a, lo, hi, c) ==
    LET after[s \in lo - 1 .. hi] == IF s < lo THEN a ELSE CompleteOne(after[s - 1], s, c)
    IN  after[hi]

\* Mutant: the flag of the unit is not set when it is given an instruction.
FireOneUnflagged(a, s, c) ==
    LET e == a.rest[s] IN
    IF ~e.valid \/ e.start_cycle > 0 \/ e.src1 # -1 \/ e.src2 # -1 \/ e.op \notin FU THEN a
    ELSE [a EXCEPT !.rest[s].start_cycle = c, !.num = @ + 1]
\* One turn of the loop of fire_ready in cycle c; fired holds the flags.
FireOne(a, s, c) ==
    LET e == a.rest[s] IN
    IF \/ ~e.valid \/ e.start_cycle > 0 \/ e.src1 # -1 \/ e.src2 # -1
       \/ e.op \notin FU \ a.fired
    THEN a
    ELSE [a EXCEPT !.rest[s].start_cycle = c, !.num = @ + 1, !.fired = @ \cup {e.op}]

fire_ready(a, lo, hi, c) ==
    LET after[s \in lo - 1 .. hi] ==
            IF s < lo THEN [a EXCEPT !.fired = {}] ELSE FireOne(after[s - 1], s, c)
    IN  after[hi]

\* The last slots of the stations for ADD and DIV; MEM has the rest.
LastAdd == RsSizes["ADD"]
LastDiv == LastAdd + RsSizes["DIV"]

\* The stations, in the order the scheduler visits them.
ClearCompleted(c) ==
    LET start == [rest |-> rest, rat |-> rat, num |-> 0]
        add == complete_insts(start, 1, LastAdd, c)
        div == complete_insts(add, LastAdd + 1, LastDiv, c)
    IN  IF RsType = "U" THEN complete_insts(start, 1, NumSlots, c)
        ELSE complete_insts(div, LastDiv + 1, NumSlots, c)

StartReady(R, c) ==
    LET start == [rest |-> R, num |-> 0, fired |-> {}]
        add == fire_ready(start, 1, LastAdd, c)
        div == fire_ready(add, LastAdd + 1, LastDiv, c)
    IN  IF RsType = "U" THEN fire_ready(start, 1, NumSlots, c)
        ELSE fire_ready(div, LastDiv + 1, NumSlots, c)

-----------------------------------------------------------------------------
\* Clearing and broadcasting slot by slot, on tables that change under the loop,
\* comes to the same as freeing all completed slots at once.
CompletionLoopIsSetwise ==
    ClearCompleted(clock + 1) =
        [rest |-> Cleared, rat |-> RatAfter(Freed), num |-> Cardinality(Freed)]

\* The flags of the firing loop pick the first ready entry of each unit.
FiringLoopIsSetwise ==
    LET L == StartReady(Cleared, clock + 1)
    IN L.rest = AfterFire(Cleared, Fired, clock + 1) /\ L.num = Cardinality(Fired)
=============================================================================
