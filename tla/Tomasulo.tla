------------------------------ MODULE Tomasulo ------------------------------
(***************************************************************************)
(* The scheduler of Tomosulo/schedulersim.cpp and the loop of its driver   *)
(* (schedulersim_driver.cpp).  The driver reads a trace line, offers it to *)
(* scheduler_try_issue and calls scheduler_step after each offer, until    *)
(* the line is accepted; at the end of the trace it steps until every      *)
(* reservation station is empty.                                           *)
(*                                                                         *)
(* rest holds every entry of every reservation station, indexed by         *)
(* rat_index, which numbers the slots of the tables consecutively.  The    *)
(* variables prog, firedAt and inst are history: which instructions were   *)
(* accepted, when each fired, and which one a slot holds.  No guard and no *)
(* other variable depends on them.                                         *)
(***************************************************************************)
EXTENDS ProgramOrder, FiniteSets, Functions

CONSTANTS
    RsType,       \* rs: "U", one station for all, or "F", one per unit
    RsSize,       \* option -u, the entries of the unified station
    RsSizes,      \* options -a, -d and -m, the entries of each unit's station
    NextLines(_), \* the lines that may follow a prefix of the trace
    Eof           \* the end of the trace

ASSUME TomasuloAssumption ==
    /\ RsType \in {"U", "F"}
    /\ RsSize \in Nat
    /\ RsSizes \in [FU -> Nat]
    /\ Eof \notin Instruction

NumSlots == IF RsType = "U" THEN RsSize
            ELSE RsSizes["ADD"] + RsSizes["DIV"] + RsSizes["MEM"]
Slot == 1 .. NumSlots

\* The slots of the station that takes an instruction of kind op, as
\* scheduler_unified_init and scheduler_per_fu_init number them.
Table(op) ==
    IF RsType = "U" THEN Slot
    ELSE IF op = "ADD" THEN 1 .. RsSizes["ADD"]
    ELSE IF op = "DIV" THEN (RsSizes["ADD"] + 1) .. (RsSizes["ADD"] + RsSizes["DIV"])
    ELSE IF op = "MEM" THEN (RsSizes["ADD"] + RsSizes["DIV"] + 1) .. NumSlots
    ELSE {}

SameTable(s, t) == RsType = "U" \/ \E op \in FU : {s, t} \subseteq Table(op)

VARIABLES
    pc,      \* where the driver's main is
    line,    \* the trace line it holds
    rest,    \* the entries of the reservation stations
    rat,     \* the register alias table: a slot, or -1
    clock,   \* current_cycle
    stats,   \* scheduler_stats_t
    prog, firedAt, inst

history == <<prog, firedAt, inst>>
vars == <<pc, line, rest, rat, clock, stats, prog, firedAt, inst>>

Tag == Slot \cup {-1}
Entry == [valid: BOOLEAN, op: Op, dest: Reg \cup {INVALID_REG},
          src1: Tag, src2: Tag, start_cycle: Nat]
Stats == [num_insts: Nat, issue_stall: Nat, max_fired: Nat, max_completed: Nat,
          max_active: [FU -> Nat], num_cycles: Nat]

\* calloc clears the tables.
NoEntry == [valid |-> FALSE, op |-> "ADD", dest |-> INVALID_REG,
            src1 |-> -1, src2 |-> -1, start_cycle |-> 0]
NoStats == [num_insts |-> 0, issue_stall |-> 0, max_fired |-> 0, max_completed |-> 0,
            max_active |-> [op \in FU |-> 0], num_cycles |-> 0]

Init == /\ pc = "read"
        /\ line = Eof
        /\ rest = [s \in Slot |-> NoEntry]
        /\ rat = [r \in Reg |-> -1]
        /\ clock = 1
        /\ stats = NoStats
        /\ prog = <<>>
        /\ firedAt = <<>>
        /\ inst = [s \in Slot |-> 0]

-----------------------------------------------------------------------------
(* The driver reads the next line, or finds the end of the trace; a line   *)
(* process_trace cannot scan is skipped.                                   *)
ReadLine == \E l \in NextLines(prog) :
    /\ pc = "read"
    /\ l \in Instruction \cup {Eof}
    /\ line' = l
    /\ pc' = IF l = Eof THEN "drain" ELSE "issue"
    /\ UNCHANGED <<rest, rat, clock, stats, history>>

(* scheduler_try_issue: the sources are renamed through the alias table    *)
(* before add_entry redirects the destination to the new entry.            *)
Alias(src) == IF src = INVALID_REG THEN INVALID_REG ELSE rat[src]

Free(op) == {s \in Table(op) : ~rest[s].valid}
IsFirst(s, S) == s \in S /\ \A t \in S : s <= t

Issue(s) ==
    /\ pc = "issue"
    /\ IsFirst(s, Free(line.op))
    /\ rest' = [rest EXCEPT ![s] = [valid |-> TRUE, op |-> line.op, dest |-> line.dest,
                                    src1 |-> Alias(line.src1), src2 |-> Alias(line.src2),
                                    start_cycle |-> 0]]
    /\ rat' = [r \in Reg |-> IF r = line.dest THEN s ELSE rat[r]]
    /\ stats' = [stats EXCEPT !.num_insts = @ + 1]
    /\ line' = Eof
    /\ pc' = "step"
    /\ prog' = Append(prog, line)
    /\ firedAt' = Append(firedAt, 0)
    /\ inst' = [inst EXCEPT ![s] = Len(prog) + 1]
    /\ UNCHANGED clock

\* add_entry counts a stall when its table is full; with one table per unit
\* an instruction of no unit reaches no add_entry.
\* Mutant: the full table is reported and not counted.
Uncounted == stats
Stalled == IF RsType = "U" \/ line.op \in FU
           THEN [stats EXCEPT !.issue_stall = @ + 1] ELSE stats

IssueFails ==
    /\ pc = "issue"
    /\ Free(line.op) = {}
    /\ stats' = Stalled
    /\ pc' = "step"
    /\ UNCHANGED <<line, rest, rat, clock, history>>

-----------------------------------------------------------------------------
(* scheduler_step at cycle c: scheduler_clear_completed, then              *)
(* scheduler_start_ready on what the first has left.                       *)

\* Mutant: an instruction stays one cycle longer than its latency.
CompletingLate(c) == {s \in Slot : /\ rest[s].valid
                                   /\ rest[s].start_cycle > 0
                                   /\ c - rest[s].start_cycle > get_inst_latency(rest[s].op)}
\* complete_insts: the slots whose instruction has run for its latency.
Completing(c) == {s \in Slot : /\ rest[s].valid
                               /\ rest[s].start_cycle > 0
                               /\ c - rest[s].start_cycle >= get_inst_latency(rest[s].op)}

\* Mutant: a source becomes ready with the mark of an unused register number.
WokenWithZero(tag, D) == IF tag \in D THEN 0 ELSE tag
\* update_sources: the tag of a completed slot becomes -1, ready.
Woken(tag, D) == IF tag \in D THEN -1 ELSE tag

\* Mutant: the second source is not compared with the broadcast index.
AfterBroadcastToSrc1(D) ==
    [s \in Slot |-> IF rest[s].valid
                    THEN [rest[s] EXCEPT !.valid = s \notin D, !.src1 = Woken(@, D)]
                    ELSE rest[s]]
\* The stations and the alias table after the slots D were broadcast and freed.
AfterBroadcast(D) ==
    [s \in Slot |-> IF rest[s].valid
                    THEN [rest[s] EXCEPT !.valid = s \notin D,
                                         !.src1 = Woken(@, D), !.src2 = Woken(@, D)]
                    ELSE rest[s]]
\* Mutants: a completed writer clears its register though a younger one has
\* renamed it; a completed writer never clears its register.
RatAfterAnyWriter(D) ==
    [r \in Reg |-> IF \E s \in D : rest[s].dest = r THEN -1 ELSE rat[r]]
RatKept(D) == rat
RatAfter(D) ==
    [r \in Reg |-> IF rat[r] \in D /\ rest[rat[r]].dest = r THEN -1 ELSE rat[r]]

\* fire_ready: in each table, the first ready entry of each functional unit.
Rivals(R, s, t) == SameTable(s, t) /\ R[s].op = R[t].op
IsReady(e) == e.valid /\ e.start_cycle = 0 /\ e.src1 = -1 /\ e.src2 = -1 /\ e.op \in FU
\* Mutant: the flags that allow a unit one start per cycle are missing.
FiringAll(R) == {s \in Slot : IsReady(R[s])}
Firing(R) ==
    {s \in Slot : IsReady(R[s]) /\ IsFirst(s, {t \in Slot : IsReady(R[t]) /\ Rivals(R, s, t)})}
AfterFire(R, F, c) == [s \in Slot |-> IF s \in F THEN [R[s] EXCEPT !.start_cycle = c] ELSE R[s]]

Active(R, op) == {s \in Slot : R[s].valid /\ R[s].start_cycle > 0 /\ R[s].op = op}
AtLeast(n, S) == IF Cardinality(S) > n THEN Cardinality(S) ELSE n

Freed == Completing(clock + 1)
Cleared == AfterBroadcast(Freed)
Fired == Firing(Cleared)

SchedulerStep ==
    /\ clock' = clock + 1
    /\ rest' = AfterFire(Cleared, Fired, clock + 1)
    /\ rat' = RatAfter(Freed)
    /\ stats' = [stats EXCEPT !.max_completed = AtLeast(@, Freed),
                              !.max_fired = AtLeast(@, Fired),
                              !.max_active = [op \in FU |-> AtLeast(@[op], Active(rest', op))]]
    /\ firedAt' = [n \in 1 .. Len(prog) |->
                     IF \E s \in Fired : inst[s] = n THEN clock + 1 ELSE firedAt[n]]
    /\ UNCHANGED <<line, prog, inst>>

\* The step of main's inner loop, after which a refused line is offered again.
StepAfterIssue ==
    /\ pc = "step"
    /\ SchedulerStep
    /\ pc' = IF line = Eof THEN "read" ELSE "issue"

scheduler_completed == \A s \in Slot : ~rest[s].valid

Drain ==
    /\ pc = "drain"
    /\ ~scheduler_completed
    /\ SchedulerStep
    /\ UNCHANGED pc

SchedulerComplete ==
    /\ pc = "drain"
    /\ scheduler_completed
    /\ stats' = [stats EXCEPT !.num_cycles = clock]
    /\ pc' = "end"
    /\ UNCHANGED <<line, rest, rat, clock, history>>

Next == \/ ReadLine
        \/ \E s \in Slot : Issue(s)
        \/ IssueFails
        \/ StepAfterIssue
        \/ Drain
        \/ SchedulerComplete

Spec == Init /\ [][Next]_vars
-----------------------------------------------------------------------------
(* What the scheduler must keep true.                                      *)

\* The driver, the tables of the scheduler and the history have their types.
TypeOK ==
    /\ pc \in {"read", "issue", "step", "drain", "end"}
    /\ line \in Instruction \cup {Eof}
    /\ pc = "issue" => line \in Instruction
    /\ rest \in [Slot -> Entry]
    /\ rat \in [Reg -> Tag]
    /\ clock \in Nat \ {0}
    /\ stats \in Stats
    /\ prog \in Seq(Instruction)
    /\ firedAt \in Seq(Nat)
    /\ Len(firedAt) = Len(prog)
    /\ inst \in [Slot -> Nat]

\* The occupied slots hold exactly the accepted instructions whose result is
\* outstanding, each in one slot, with the fields it was accepted with: no entry
\* is lost, freed early, kept late or overwritten.
Outstanding == {n \in 1 .. Len(prog) : ~IsDone(prog, firedAt, n, clock)}
Holds(s, n) ==
    /\ inst[s] = n
    /\ rest[s].op = prog[n].op
    /\ rest[s].dest = prog[n].dest
    /\ rest[s].start_cycle = firedAt[n]
SlotsHoldOutstanding ==
    /\ \A s \in Slot : rest[s].valid => inst[s] \in Outstanding /\ Holds(s, inst[s])
    /\ \A s, t \in Slot : rest[s].valid /\ rest[t].valid /\ inst[s] = inst[t] => s = t
    /\ \A n \in Outstanding : \E s \in Slot : rest[s].valid /\ inst[s] = n

\* A tag t stands for register r as read at position n: it is the slot of r's
\* producer, and -1 only when no producer of r has its result outstanding.
\* Slot numbers are reused, so a tag that outlived its producer would name
\* another instruction.
Names(t, n, r) ==
    /\ t # -1 => rest[t].valid /\ IsProducer(prog, inst[t], n, r)
    /\ t = -1 => \A m \in 1 .. Len(prog) :
                    IsProducer(prog, m, n, r) => IsDone(prog, firedAt, m, clock)

\* Every waiting source names the producer that program order gives it, through
\* renaming, write-after-write, the reuse of slots and broadcasts.
SourcesNameProducers ==
    \A s \in Slot : rest[s].valid =>
        /\ Names(rest[s].src1, inst[s], prog[inst[s]].src1)
        /\ Names(rest[s].src2, inst[s], prog[inst[s]].src2)

\* The alias table names, for every register, the youngest instruction that
\* writes it while that one is outstanding, whichever older writers complete.
RatNamesYoungestWriter ==
    \A r \in Reg : Names(rat[r], Len(prog) + 1, r)

\* The units are pipelined: two instructions in one unit started in different
\* cycles, and none is still there when its latency has passed.
UnitsArePipelined ==
    \A s \in Slot : rest[s].valid /\ rest[s].start_cycle > 0 =>
        /\ rest[s].start_cycle <= clock
        /\ clock - rest[s].start_cycle < get_inst_latency(rest[s].op)
        /\ \A t \in Slot : (/\ rest[t].valid
                            /\ rest[t].op = rest[s].op
                            /\ rest[t].start_cycle = rest[s].start_cycle) => s = t

\* An entry sits in the station of its unit, and no instruction fires in the
\* future: with the invariants above these are inductive.
EntriesInOwnTable == \A s \in Slot : rest[s].valid => s \in Table(rest[s].op)
FiredInThePast == \A n \in 1 .. Len(prog) : firedAt[n] <= clock

\* The reported maxima stay within what three pipelined units can do: one start
\* and one completion each per cycle, and one instruction per stage.
StatsWithinUnits ==
    /\ stats.max_fired <= Cardinality(FU)
    /\ stats.max_completed <= Cardinality(FU)
    /\ \A op \in FU : stats.max_active[op] <= get_inst_latency(op)

\* While lines of the three units are offered, every cycle that passes is one
\* accepted instruction or one counted stall.
CyclesAreIssuesOrStalls ==
    /\ pc \in {"read", "issue"} => clock = 1 + stats.num_insts + stats.issue_stall
    /\ pc = "step" => clock = stats.num_insts + stats.issue_stall

\* The schedule as a whole is one that program order allows: an instruction
\* fired when the instructions that produce its operands had run for their
\* latency, also when their slots were freed and taken again in between, and no
\* unit ever took two instructions in one cycle.
ScheduleIsLegal ==
    \A m, n \in 1 .. Len(prog) : firedAt[n] > 0 =>
        /\ Feeds(prog, m, n) =>
              firedAt[m] > 0 /\ firedAt[n] - firedAt[m] >= get_inst_latency(prog[m].op)
        /\ prog[m].op = prog[n].op /\ firedAt[m] = firedAt[n] => m = n

\* The scheduler is never slower than one with room for a single instruction,
\* which takes a cycle to issue each and then waits for its latency.  So no cycle
\* is lost, to a broadcast that was missed or a unit that idles beside a ready
\* entry, and main cannot step for ever.  (A line of no unit, or one whose
\* station has no entries, is waited for in vain.)
SerialTime == SumFunction([n \in 1 .. Len(prog) |-> 1 + get_inst_latency(prog[n].op)])
NeverSlowerThanSerial ==
    (/\ \A n \in 1 .. Len(prog) : prog[n].op \in FU
     /\ line # Eof => Table(line.op) # {})
        => clock <= 1 + SerialTime

\* The scheduler implements the abstract machine: no instruction fires before
\* the producers of its operands are done, or waits for anything but its unit.
DF == INSTANCE Dataflow
ImplementsDataflow == DF!Spec

\* The line is one that no station has a slot for: one of no unit, with one
\* station per unit, or one whose station was given no entries.
RefusedForEver == pc = "issue" /\ Table(line.op) = {}

\* main ends, or it offers such a line for ever: nothing else keeps it from the
\* end of the trace, no full station, no waiting operand, no lost broadcast.
EveryTraceEndsOrIsRefused == <>(pc = "end" \/ RefusedForEver)

\* What was accepted is executed and leaves its slot, also while main goes on
\* offering a line that is refused for ever.  (A unified station takes lines of
\* no unit, which stay: there main never ends either.)
EntriesAreFreed ==
    RsType = "F" => \A s \in Slot : rest[s].valid ~> ~rest[s].valid
=============================================================================
