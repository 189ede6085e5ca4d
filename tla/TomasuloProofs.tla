--------------------------- MODULE TomasuloProofs ---------------------------
(***************************************************************************)
(* Proofs about Tomasulo, for every number of registers, every latency,    *)
(* both kinds of reservation stations of every size and every trace.       *)
(***************************************************************************)
EXTENDS SchedulerLoops, SumLemmas

-----------------------------------------------------------------------------
(* Lemmas about the operators the scheduler is built from.                 *)

\* Slots are positive numbers, so -1 is never one.
LEMMA SlotIsNat == NumSlots \in Nat /\ Slot \subseteq Nat /\ -1 \notin Slot
  BY TomasuloAssumption DEF NumSlots, Slot, FU

\* Every station is a part of the slots, whatever the op.
LEMMA TableInSlot == ASSUME NEW op PROVE Table(op) \subseteq Slot
  <1>1. CASE RsType = "U"
    BY <1>1 DEF Table
  <1>2. CASE RsType = "F"
    <2>1. /\ NumSlots = RsSizes["ADD"] + RsSizes["DIV"] + RsSizes["MEM"]
          /\ RsSizes["ADD"] \in Nat /\ RsSizes["DIV"] \in Nat /\ RsSizes["MEM"] \in Nat
      BY <1>2, TomasuloAssumption DEF NumSlots, FU
    <2>2. \/ Table(op) = 1 .. RsSizes["ADD"]
          \/ Table(op) = (RsSizes["ADD"] + 1) .. (RsSizes["ADD"] + RsSizes["DIV"])
          \/ Table(op) = (RsSizes["ADD"] + RsSizes["DIV"] + 1) .. NumSlots
          \/ Table(op) = {}
      BY <1>2 DEF Table
    <2> QED BY <2>1, <2>2 DEF Slot
  <1> QED BY <1>1, <1>2, TomasuloAssumption

\* The scan of a table ends at its first matching slot: there is one.
LEMMA FirstSlot ==
  ASSUME NEW T \in SUBSET Slot, T # {}
  PROVE  \E s \in T : IsFirst(s, T)
  <1>1. T \subseteq Nat
    BY SlotIsNat
  <1> DEFINE Less == {p \in Nat \X Nat : p[1] < p[2]}
  <1>2. IsWellFoundedOn(Less, Nat)
    BY NatLessThanWellFounded, Zenon DEF OpToRel
  <1> HIDE DEF Less
  <1>3. PICK s \in T : \A t \in T : ~ (<<t, s>> \in Less)
    BY <1>1, <1>2, WFMin
  <1>4. \A t \in T : ~ (t < s)
    BY <1>1, <1>3 DEF Less
  <1> QED BY <1>1, <1>4 DEF IsFirst

\* Every unit takes at least one cycle.
LEMMA LatencyType == \A op : get_inst_latency(op) \in Nat \ {0}
  BY ProgramOrderAssumption DEF get_inst_latency

\* The sets that the statistics count are finite.
LEMMA CardinalityOfSlots ==
  ASSUME NEW S \in SUBSET Slot, NEW n \in Nat
  PROVE  AtLeast(n, S) \in Nat
  <1>1. IsFiniteSet(Slot)
    BY SlotIsNat, FS_Interval DEF Slot
  <1>2. IsFiniteSet(S)
    BY <1>1, FS_Subset
  <1>3. Cardinality(S) \in Nat
    BY <1>2, FS_CardinalityType
  <1> QED BY <1>3 DEF AtLeast

-----------------------------------------------------------------------------
(* What scheduler_step does to one entry and to one register.              *)

\* An occupied slot that completes is one that fired at least a latency ago.
LEMMA FreedSlot ==
  ASSUME TypeOK, NEW s \in Slot
  PROVE  s \in Freed <=> /\ rest[s].valid
                        /\ rest[s].start_cycle > 0
                        /\ clock + 1 - rest[s].start_cycle >= get_inst_latency(rest[s].op)
  BY DEF Freed, Completing, TypeOK, Entry

\* What one scheduler_step does to an entry, field by field.
LEMMA StepEffect ==
  ASSUME TypeOK, SchedulerStep
  PROVE  /\ clock' = clock + 1
         /\ UNCHANGED <<line, prog, inst>>
         /\ Freed \subseteq Slot /\ Fired \subseteq Slot
         /\ \A s \in Slot :
               /\ rest'[s].valid <=> rest[s].valid /\ s \notin Freed
               /\ rest'[s].op = rest[s].op
               /\ rest'[s].dest = rest[s].dest
               /\ rest'[s].start_cycle = IF s \in Fired THEN clock + 1 ELSE rest[s].start_cycle
               /\ rest[s].valid => /\ rest'[s].src1 = Woken(rest[s].src1, Freed)
                                   /\ rest'[s].src2 = Woken(rest[s].src2, Freed)
         /\ \A s \in Fired : /\ rest[s].valid /\ s \notin Freed
                              /\ rest[s].op \in FU
                              /\ rest[s].start_cycle = 0
                              /\ rest'[s].src1 = -1 /\ rest'[s].src2 = -1
         /\ rest' \in [Slot -> Entry]
         /\ firedAt' \in Seq(Nat) /\ Len(firedAt') = Len(prog)
         /\ \A n \in 1 .. Len(prog) :
               firedAt'[n] = IF \E s \in Fired : inst[s] = n THEN clock + 1 ELSE firedAt[n]
  <1>1. Freed \subseteq Slot /\ Fired \subseteq Slot /\ clock + 1 \in Nat
    BY DEF Freed, Fired, Completing, Firing, TypeOK
  <1>2. /\ Cleared \in [Slot -> Entry]
        /\ \A s \in Slot :
             /\ Cleared[s].valid <=> rest[s].valid /\ s \notin Freed
             /\ Cleared[s].op = rest[s].op
             /\ Cleared[s].dest = rest[s].dest
             /\ Cleared[s].start_cycle = rest[s].start_cycle
             /\ rest[s].valid => /\ Cleared[s].src1 = Woken(rest[s].src1, Freed)
                                 /\ Cleared[s].src2 = Woken(rest[s].src2, Freed)
    <2>1. \A t \in Tag : Woken(t, Freed) \in Tag
      BY DEF Woken, Tag
    <2>2. rest \in [Slot -> Entry]
      BY DEF TypeOK
    <2> QED BY <2>1, <2>2 DEF Cleared, AfterBroadcast, Entry
  <1>3. \A s \in Fired : IsReady(Cleared[s])
    BY DEF Fired, Firing
  <1>4. rest' = AfterFire(Cleared, Fired, clock + 1)
    BY DEF SchedulerStep
  <1>5. /\ rest' \in [Slot -> Entry]
        /\ \A s \in Slot :
             /\ rest'[s].valid = Cleared[s].valid
             /\ rest'[s].op = Cleared[s].op
             /\ rest'[s].dest = Cleared[s].dest
             /\ rest'[s].src1 = Cleared[s].src1
             /\ rest'[s].src2 = Cleared[s].src2
             /\ rest'[s].start_cycle = IF s \in Fired THEN clock + 1 ELSE Cleared[s].start_cycle
    <2> QED BY <1>1, <1>2, <1>4 DEF AfterFire, Entry
  <1>6. \A s \in Fired : /\ rest[s].valid /\ s \notin Freed
                      /\ rest[s].op \in FU
                      /\ rest[s].start_cycle = 0
                      /\ rest'[s].src1 = -1 /\ rest'[s].src2 = -1
    <2>1. \A s \in Fired : s \in Slot /\ Cleared[s].valid /\ Cleared[s].op \in FU /\ Cleared[s].start_cycle = 0
                      /\ Cleared[s].src1 = -1 /\ Cleared[s].src2 = -1
      BY <1>1, <1>3, Zenon DEF IsReady
    <2>2. \A s \in Fired : rest[s].valid /\ s \notin Freed
      BY <2>1, <1>2, Zenon
    <2> QED BY <2>1, <2>2, <1>2, <1>5, Zenon
  <1>7. /\ firedAt' = [n \in 1 .. Len(prog) |-> IF \E s \in Fired : inst[s] = n THEN clock + 1 ELSE firedAt[n]]
        /\ clock' = clock + 1
        /\ UNCHANGED <<line, prog, inst>>
    BY DEF SchedulerStep
  <1>8. /\ firedAt' \in Seq(Nat) /\ Len(firedAt') = Len(prog)
        /\ \A n \in 1 .. Len(prog) :
             firedAt'[n] = IF \E s \in Fired : inst[s] = n THEN clock + 1 ELSE firedAt[n]
    <2>1. Len(prog) \in Nat /\ firedAt \in Seq(Nat) /\ Len(firedAt) = Len(prog)
      BY DEF TypeOK
    <2>2. firedAt' \in [1 .. Len(prog) -> Nat]
      BY <1>1, <1>7, <2>1
    <2>3. firedAt' \in Seq(Nat) /\ Len(firedAt') = Len(prog)
      BY <2>1, <2>2
    <2> QED BY <1>7, <2>3
  <1> QED BY <1>1, <1>2, <1>5, <1>6, <1>7, <1>8

-----------------------------------------------------------------------------
(* Producers in a program that grows at its end.                           *)

\* A register has one producer at a position.
LEMMA ProducerIsUnique ==
  ASSUME NEW p \in Seq(Instruction), NEW n \in Nat, NEW r,
         NEW l, NEW m, IsProducer(p, l, n, r), IsProducer(p, m, n, r)
  PROVE  l = m
  BY DEF IsProducer

\* The instruction that is appended produces nothing for those before it.
LEMMA ProducerInPrefix ==
  ASSUME NEW p \in Seq(Instruction), NEW i \in Instruction,
         NEW n \in 1 .. Len(p) + 1, NEW m, NEW r
  PROVE  IsProducer(Append(p, i), m, n, r) <=> IsProducer(p, m, n, r)
  <1>1. /\ Len(Append(p, i)) = Len(p) + 1
        /\ \A k \in 1 .. Len(p) : Append(p, i)[k] = p[k]
        /\ Len(p) \in Nat
    OBVIOUS
  <1> QED BY <1>1 DEF IsProducer

\* It becomes the youngest writer of its destination and of no other register.
LEMMA ProducerAfterAppend ==
  ASSUME NEW p \in Seq(Instruction), NEW i \in Instruction, NEW m, NEW r \in Reg
  PROVE  IsProducer(Append(p, i), m, Len(p) + 2, r) <=>
            IF i.dest = r THEN m = Len(p) + 1 ELSE IsProducer(p, m, Len(p) + 1, r)
  <1>1. /\ Len(Append(p, i)) = Len(p) + 1
        /\ \A k \in 1 .. Len(p) : Append(p, i)[k] = p[k]
        /\ Append(p, i)[Len(p) + 1] = i
        /\ Len(p) \in Nat
        /\ r # INVALID_REG
    BY ProgramOrderAssumption
  <1> QED BY <1>1 DEF IsProducer

\* Accepting an instruction changes nobody's completion.
LEMMA DoneAfterAppend ==
  ASSUME NEW p \in Seq(Instruction), NEW t \in Seq(Nat), Len(t) = Len(p),
         NEW i \in Instruction, NEW m, NEW c
  PROVE  IsDone(Append(p, i), Append(t, 0), m, c) <=> IsDone(p, t, m, c)
  <1>1. /\ Len(Append(p, i)) = Len(p) + 1
        /\ \A k \in 1 .. Len(p) : Append(p, i)[k] = p[k] /\ Append(t, 0)[k] = t[k]
        /\ Append(t, 0)[Len(p) + 1] = 0
        /\ Len(p) \in Nat
    OBVIOUS
  <1> QED BY <1>1 DEF IsDone

-----------------------------------------------------------------------------
(* The inductive invariant.                                                *)

IInv == /\ TypeOK
        /\ SlotsHoldOutstanding
        /\ SourcesNameProducers
        /\ RatNamesYoungestWriter
        /\ UnitsArePipelined
        /\ EntriesInOwnTable
        /\ FiredInThePast

\* The empty stations satisfy the invariant.
LEMMA InitIInv == Init => IInv
  <1> SUFFICES ASSUME Init PROVE IInv
    OBVIOUS
  <1> USE DEF Init
  <1>1. TypeOK
    <2>1. NoEntry \in Entry
      BY DEF NoEntry, Entry, Op, FU, Tag
    <2>2. NoStats \in Stats
      BY DEF NoStats, Stats
    <2> QED BY <2>1, <2>2 DEF TypeOK, Tag
  <1>2. \A s \in Slot : ~rest[s].valid
    BY DEF NoEntry
  <1>3. Len(prog) = 0
    OBVIOUS
  <1>4. SlotsHoldOutstanding
    BY <1>2, <1>3 DEF SlotsHoldOutstanding, Outstanding
  <1>5. RatNamesYoungestWriter
    <2>1. 1 .. Len(prog) = {}
      BY <1>3
    <2>2. \A r \in Reg : rat[r] = -1
      OBVIOUS
    <2> QED BY <2>1, <2>2 DEF RatNamesYoungestWriter, Names
  <1> QED BY <1>1, <1>2, <1>3, <1>4, <1>5
       DEF IInv, SourcesNameProducers, UnitsArePipelined, EntriesInOwnTable, FiredInThePast

-----------------------------------------------------------------------------
(* scheduler_step preserves the invariant.                                 *)

\* Exactly the instructions in the freed slots become done.
LEMMA StepOutstanding ==
  ASSUME IInv, SchedulerStep, NEW n \in 1 .. Len(prog)
  PROVE  IsDone(prog, firedAt', n, clock + 1) <=>
            \/ IsDone(prog, firedAt, n, clock)
            \/ \E s \in Freed : inst[s] = n
  <1>0. /\ prog \in Seq(Instruction) /\ firedAt \in Seq(Nat) /\ Len(firedAt) = Len(prog)
        /\ firedAt[n] \in Nat /\ firedAt[n] <= clock /\ clock \in Nat
        /\ get_inst_latency(prog[n].op) \in Nat \ {0}
    BY LatencyType DEF IInv, TypeOK, FiredInThePast
  <1>1. \A s \in Freed : rest[s].valid
    BY DEF Freed, Completing
  <1>2. CASE IsDone(prog, firedAt, n, clock)
    <2>1. \A s \in Fired : inst[s] # n
      BY <1>2, StepEffect DEF IInv, SlotsHoldOutstanding, Outstanding
    <2>2. firedAt'[n] = firedAt[n]
      BY <2>1, StepEffect DEF IInv
    <2> QED BY <1>0, <1>2, <2>2 DEF IsDone
  <1>3. CASE ~IsDone(prog, firedAt, n, clock)
    <2>1. PICK s \in Slot : rest[s].valid /\ inst[s] = n
      BY <1>3 DEF IInv, SlotsHoldOutstanding, Outstanding
    <2>2. /\ rest[s].op = prog[n].op /\ rest[s].start_cycle = firedAt[n]
          /\ \A t \in Slot : rest[t].valid /\ inst[t] = n => t = s
      BY <2>1 DEF IInv, SlotsHoldOutstanding, Holds
    <2>3. (\E t \in Freed : inst[t] = n) <=> s \in Freed
      BY <1>1, <2>1, <2>2, StepEffect DEF IInv
    <2>4. (\E t \in Fired : inst[t] = n) <=> s \in Fired
      BY <2>1, <2>2, StepEffect DEF IInv
    <2>5. firedAt'[n] = IF s \in Fired THEN clock + 1 ELSE firedAt[n]
      BY <2>4, StepEffect DEF IInv
    <2>6. s \in Fired => firedAt[n] = 0
      BY <2>2, StepEffect DEF IInv
    <2>7. s \in Freed <=> /\ firedAt[n] > 0
                         /\ clock + 1 - firedAt[n] >= get_inst_latency(prog[n].op)
      BY <2>1, <2>2, FreedSlot DEF IInv
    <2> QED BY <1>0, <1>3, <2>3, <2>5, <2>6, <2>7 DEF IsDone
  <1> QED BY <1>2, <1>3

\* A tag keeps naming its producer, or becomes -1 when the producer completes.
LEMMA StepNames ==
  ASSUME IInv, SchedulerStep, NEW t \in Tag, NEW n \in Nat, NEW r, Names(t, n, r)
  PROVE  /\ Woken(t, Freed) # -1 =>
               rest'[Woken(t, Freed)].valid /\ IsProducer(prog, inst[Woken(t, Freed)], n, r)
         /\ Woken(t, Freed) = -1 => \A m \in 1 .. Len(prog) :
               IsProducer(prog, m, n, r) => IsDone(prog, firedAt', m, clock + 1)
  <1>0. Freed \subseteq Slot /\ prog \in Seq(Instruction)
    BY StepEffect DEF IInv, TypeOK
  <1>1. CASE t = -1
    BY <1>1, SlotIsNat, StepOutstanding, StepEffect DEF Names, Woken, IInv
  <1>2. CASE t \in Slot /\ t \notin Freed
    BY <1>2, SlotIsNat, StepEffect DEF Names, Woken, IInv
  <1>3. CASE t \in Freed
    <2>1. t # -1
      BY <1>0, <1>3, SlotIsNat
    <2>2. IsProducer(prog, inst[t], n, r)
      BY <2>1 DEF Names
    <2>3. \A m \in 1 .. Len(prog) : IsProducer(prog, m, n, r) => m = inst[t]
      BY <1>0, <2>2, ProducerIsUnique
    <2> QED BY <1>3, <2>3, StepOutstanding DEF Woken
  <1> QED BY <1>1, <1>2, <1>3 DEF Tag

\* complete_insts asks whether the register still names the slot: it always does.
LEMMA StepRat ==
  ASSUME IInv, SchedulerStep, NEW r \in Reg
  PROVE  rat'[r] = Woken(rat[r], Freed)
  <1>1. rat'[r] = IF rat[r] \in Freed /\ rest[rat[r]].dest = r THEN -1 ELSE rat[r]
    BY DEF SchedulerStep, RatAfter
  <1>2. ASSUME rat[r] \in Freed PROVE rest[rat[r]].dest = r
    <2>1. rat[r] \in Slot /\ rat[r] # -1
      BY <1>2, StepEffect, SlotIsNat DEF IInv
    <2>2. rest[rat[r]].valid /\ IsProducer(prog, inst[rat[r]], Len(prog) + 1, r)
      BY <2>1 DEF IInv, RatNamesYoungestWriter, Names
    <2>3. rest[rat[r]].dest = prog[inst[rat[r]]].dest
      BY <2>1, <2>2 DEF IInv, SlotsHoldOutstanding, Holds
    <2> QED BY <2>2, <2>3 DEF IsProducer
  <1> QED BY <1>1, <1>2 DEF Woken

\* scheduler_step preserves the types.
LEMMA StepTypeOK ==
  ASSUME IInv, SchedulerStep, UNCHANGED <<pc, line>> \/ (pc' \in {"read", "issue"} /\ (pc' = "issue" => line # Eof))
  PROVE  TypeOK'
  <1>1. \A r \in Reg : rat'[r] \in Tag
    <2>1. \A r \in Reg : rat[r] \in Tag
      BY DEF IInv, TypeOK
    <2> QED BY <2>1, StepRat DEF Woken, Tag
  <1>2. rat' \in [Reg -> Tag]
    BY <1>1 DEF SchedulerStep, RatAfter
  <1>3. stats' \in Stats
    <2>1. /\ stats \in Stats
          /\ Freed \subseteq Slot /\ Fired \subseteq Slot
      BY StepEffect DEF IInv, TypeOK
    <2>2. /\ \A op \in FU : AtLeast(stats.max_active[op], Active(rest', op)) \in Nat
          /\ AtLeast(stats.max_completed, Freed) \in Nat
          /\ AtLeast(stats.max_fired, Fired) \in Nat
      BY <2>1, CardinalityOfSlots DEF Stats, Active
    <2> QED BY <2>1, <2>2 DEF SchedulerStep, Stats
  <1> QED BY <1>2, <1>3, StepEffect DEF IInv, TypeOK

\* scheduler_step preserves the match of slots and outstanding instructions.
LEMMA StepSlots ==
  ASSUME IInv, SchedulerStep
  PROVE  SlotsHoldOutstanding'
  <1>1. /\ clock' = clock + 1 /\ prog' = prog /\ inst' = inst
        /\ prog \in Seq(Instruction)
    BY StepEffect DEF IInv, TypeOK
  <1>2. \A n \in 1 .. Len(prog) :
          n \in Outstanding' <=> n \in Outstanding /\ ~\E s \in Freed : inst[s] = n
    BY <1>1, StepOutstanding DEF Outstanding
  <1>3. \A s \in Slot : rest'[s].valid <=> rest[s].valid /\ s \notin Freed
    BY StepEffect DEF IInv
  <1>4. \A s \in Freed : s \in Slot /\ rest[s].valid
    BY DEF Freed, Completing
  <1>5. \A s, t \in Slot : rest[s].valid /\ rest[t].valid /\ inst[s] = inst[t] => s = t
    BY DEF IInv, SlotsHoldOutstanding
  <1>6. \A s \in Slot : rest[s].valid => inst[s] \in Outstanding /\ inst[s] \in 1 .. Len(prog)
    BY DEF IInv, SlotsHoldOutstanding, Outstanding
  <1>7. \A s \in Slot : rest'[s].valid => inst[s] \in Outstanding'
    BY <1>2, <1>3, <1>4, <1>5, <1>6
  <1>8. \A s \in Slot : rest'[s].valid => Holds(s, inst[s])'
    <2> SUFFICES ASSUME NEW s \in Slot, rest'[s].valid PROVE Holds(s, inst[s])'
      OBVIOUS
    <2>1. rest[s].valid /\ Holds(s, inst[s]) /\ inst[s] \in 1 .. Len(prog)
      BY <1>3, <1>6 DEF IInv, SlotsHoldOutstanding
    <2>2. (\E t \in Fired : inst[t] = inst[s]) <=> s \in Fired
      BY <1>5, <2>1, StepEffect DEF IInv
    <2>3. firedAt'[inst[s]] = rest'[s].start_cycle
      BY <2>1, <2>2, StepEffect DEF IInv, Holds
    <2> QED BY <1>1, <2>1, <2>3, StepEffect DEF IInv, Holds
  <1>9. \A n \in Outstanding' : \E s \in Slot : rest'[s].valid /\ inst[s] = n
    <2> SUFFICES ASSUME NEW n \in Outstanding' PROVE \E s \in Slot : rest'[s].valid /\ inst[s] = n
      OBVIOUS
    <2>1. n \in 1 .. Len(prog) /\ n \in Outstanding /\ ~\E s \in Freed : inst[s] = n
      BY <1>1, <1>2 DEF Outstanding
    <2>2. PICK s \in Slot : rest[s].valid /\ inst[s] = n
      BY <2>1 DEF IInv, SlotsHoldOutstanding
    <2> QED BY <1>3, <2>1, <2>2
  <1> QED BY <1>1, <1>3, <1>5, <1>7, <1>8, <1>9 DEF SlotsHoldOutstanding

\* scheduler_step preserves the meaning of the waiting sources.
LEMMA StepSources ==
  ASSUME IInv, SchedulerStep
  PROVE  SourcesNameProducers' /\ RatNamesYoungestWriter'
  <1>1. /\ clock' = clock + 1 /\ prog' = prog /\ inst' = inst
        /\ prog \in Seq(Instruction) /\ Len(prog) \in Nat
    BY StepEffect DEF IInv, TypeOK
  <1>2. SourcesNameProducers'
    <2> SUFFICES ASSUME NEW s \in Slot, rest'[s].valid
                 PROVE  /\ Names(rest[s].src1, inst[s], prog[inst[s]].src1)'
                        /\ Names(rest[s].src2, inst[s], prog[inst[s]].src2)'
      BY DEF SourcesNameProducers
    <2>1. /\ rest[s].valid
          /\ rest'[s].src1 = Woken(rest[s].src1, Freed)
          /\ rest'[s].src2 = Woken(rest[s].src2, Freed)
      BY StepEffect DEF IInv
    <2>2. rest[s].src1 \in Tag /\ rest[s].src2 \in Tag /\ inst[s] \in Nat
      BY DEF IInv, TypeOK, Entry
    <2>3. /\ Names(rest[s].src1, inst[s], prog[inst[s]].src1)
          /\ Names(rest[s].src2, inst[s], prog[inst[s]].src2)
      BY <2>1 DEF IInv, SourcesNameProducers
    <2> QED BY <1>1, <2>1, <2>2, <2>3, StepNames DEF Names
  <1>3. RatNamesYoungestWriter'
    <2> SUFFICES ASSUME NEW r \in Reg PROVE Names(rat[r], Len(prog) + 1, r)'
      BY DEF RatNamesYoungestWriter
    <2>1. rat[r] \in Tag /\ Names(rat[r], Len(prog) + 1, r)
      BY DEF IInv, TypeOK, RatNamesYoungestWriter
    <2>2. rat'[r] = Woken(rat[r], Freed) /\ Len(prog) + 1 \in Nat
      BY <1>1, StepRat
    <2>3. /\ rat'[r] # -1 => rest'[rat'[r]].valid /\ IsProducer(prog, inst[rat'[r]], Len(prog) + 1, r)
          /\ rat'[r] = -1 => \A m \in 1 .. Len(prog) :
               IsProducer(prog, m, Len(prog) + 1, r) => IsDone(prog, firedAt', m, clock + 1)
      BY <2>1, <2>2, StepNames
    <2> QED BY <1>1, <2>3 DEF Names
  <1> QED BY <1>2, <1>3

\* Two entries of one unit do not fire in the same step.
LEMMA FiringIsExclusive ==
  ASSUME IInv, SchedulerStep, NEW s \in Fired, NEW t \in Fired, rest[s].op = rest[t].op
  PROVE  s = t
  <1>1. /\ s \in Slot /\ t \in Slot
        /\ rest[s].valid /\ rest[t].valid /\ rest[s].op \in FU
        /\ \A u \in Slot : Cleared[u].op = rest[u].op
    <2>1. \A u \in Slot : Cleared[u].op = rest[u].op
      BY DEF Cleared, AfterBroadcast, IInv, TypeOK, Entry
    <2> QED BY <2>1, StepEffect DEF IInv
  <1>2. SameTable(s, t) /\ SameTable(t, s)
    BY <1>1 DEF SameTable, IInv, EntriesInOwnTable
  <1>3. Rivals(Cleared, s, t) /\ Rivals(Cleared, t, s)
    BY <1>1, <1>2 DEF Rivals
  <1>4. IsReady(Cleared[s]) /\ IsReady(Cleared[t])
    BY DEF Fired, Firing
  <1>5. s <= t
    BY <1>1, <1>3, <1>4, Zenon DEF Fired, Firing, IsFirst
  <1>6. t <= s
    BY <1>1, <1>3, <1>4, Zenon DEF Fired, Firing, IsFirst
  <1> QED BY <1>1, <1>5, <1>6, SlotIsNat

\* scheduler_step preserves the pipelining of the units.
LEMMA StepUnits ==
  ASSUME IInv, SchedulerStep
  PROVE  UnitsArePipelined' /\ EntriesInOwnTable' /\ FiredInThePast'
  <1>1. /\ clock' = clock + 1 /\ clock \in Nat /\ prog' = prog
        /\ firedAt \in Seq(Nat) /\ Len(firedAt) = Len(prog)
    BY StepEffect DEF IInv, TypeOK
  <1>2. UnitsArePipelined'
    <2> SUFFICES ASSUME NEW s \in Slot, rest'[s].valid, rest'[s].start_cycle > 0
                 PROVE  /\ rest'[s].start_cycle <= clock'
                        /\ clock' - rest'[s].start_cycle < get_inst_latency(rest'[s].op)
                        /\ \A t \in Slot : (/\ rest'[t].valid
                                            /\ rest'[t].op = rest'[s].op
                                            /\ rest'[t].start_cycle = rest'[s].start_cycle) => s = t
      BY Zenon DEF UnitsArePipelined
    <2>1. /\ get_inst_latency(rest[s].op) \in Nat \ {0}
          /\ \A t \in Slot : rest[t].start_cycle \in Nat
      BY LatencyType DEF IInv, TypeOK, Entry
    <2>2. \A t \in Slot : /\ rest'[t].valid <=> rest[t].valid /\ t \notin Freed
                          /\ rest'[t].op = rest[t].op
                          /\ rest'[t].start_cycle =
                                IF t \in Fired THEN clock + 1 ELSE rest[t].start_cycle
      BY StepEffect DEF IInv
    <2>3. \A t \in Slot : rest[t].valid /\ rest[t].start_cycle > 0 => rest[t].start_cycle <= clock
      BY DEF IInv, UnitsArePipelined
    <2>4. \A t \in Fired : rest[t].start_cycle = 0
      BY StepEffect DEF IInv
    <2>5. CASE s \in Fired
      <3>1. rest'[s].start_cycle = clock + 1
        BY <2>2, <2>5
      <3>2. \A t \in Slot : rest'[t].valid /\ rest'[t].start_cycle = clock + 1 => t \in Fired
        BY <1>1, <2>1, <2>2, <2>3
      <3>3. \A t \in Fired : rest[s].op = rest[t].op => s = t
        BY <2>5, FiringIsExclusive
      <3> QED BY <1>1, <2>1, <2>2, <3>1, <3>2, <3>3
    <2>6. CASE s \notin Fired
      <3>1. rest[s].valid /\ s \notin Freed /\ rest'[s].start_cycle = rest[s].start_cycle
        BY <2>2, <2>6
      <3>2. rest[s].start_cycle <= clock
        BY <2>3, <3>1
      <3>3. clock + 1 - rest[s].start_cycle < get_inst_latency(rest[s].op)
        <4>1. ~(clock + 1 - rest[s].start_cycle >= get_inst_latency(rest[s].op))
          BY <3>1, FreedSlot, Zenon DEF IInv
        <4> QED BY <1>1, <2>1, <4>1
      <3>4. \A t \in Slot : rest'[t].valid /\ rest'[t].start_cycle = rest[s].start_cycle =>
                /\ t \notin Fired /\ rest[t].valid
                /\ rest[t].start_cycle = rest[s].start_cycle
        BY <1>1, <2>1, <2>2, <3>2
      <3>5. \A t \in Slot : (/\ rest[t].valid
                             /\ rest[t].op = rest[s].op
                             /\ rest[t].start_cycle = rest[s].start_cycle) => s = t
        BY <3>1 DEF IInv, UnitsArePipelined
      <3> QED BY <1>1, <2>1, <2>2, <3>1, <3>2, <3>3, <3>4, <3>5
    <2> QED BY <2>5, <2>6
  <1>3. EntriesInOwnTable'
    BY StepEffect DEF IInv, EntriesInOwnTable
  <1>4. FiredInThePast'
    BY <1>1, StepEffect DEF IInv, FiredInThePast
  <1> QED BY <1>2, <1>3, <1>4

-----------------------------------------------------------------------------
(* scheduler_try_issue preserves the invariant.                            *)

\* The entry that an accepted instruction gets, and that the others stay.
LEMMA IssueEffect ==
  ASSUME TypeOK, NEW s \in Slot, Issue(s)
  PROVE  /\ line \in Instruction /\ ~rest[s].valid /\ s \in Table(line.op)
         /\ prog' = Append(prog, line) /\ firedAt' = Append(firedAt, 0)
         /\ clock' = clock /\ pc' = "step" /\ line' = Eof
         /\ inst'[s] = Len(prog) + 1 /\ \A t \in Slot \ {s} : inst'[t] = inst[t]
         /\ \A t \in Slot \ {s} : rest'[t] = rest[t]
         /\ rest'[s] = [valid |-> TRUE, op |-> line.op, dest |-> line.dest,
                        src1 |-> Alias(line.src1), src2 |-> Alias(line.src2), start_cycle |-> 0]
         /\ \A r \in Reg : rat'[r] = IF r = line.dest THEN s ELSE rat[r]
  BY DEF TypeOK, Issue, IsFirst, Free

\* A renamed source is a slot or -1.
LEMMA AliasType == ASSUME TypeOK, NEW r \in Reg \cup {INVALID_REG} PROVE Alias(r) \in Tag
  BY DEF TypeOK, Alias, Tag, INVALID_REG

\* Accepting an instruction preserves the types.
LEMMA IssueTypeOK ==
  ASSUME IInv, NEW s \in Slot, Issue(s)
  PROVE  TypeOK'
  <1>1. TypeOK
    BY DEF IInv
  <1>2. line \in Instruction /\ line.op \in Op /\ line.dest \in Reg \cup {INVALID_REG}
        /\ Alias(line.src1) \in Tag /\ Alias(line.src2) \in Tag
    BY <1>1, IssueEffect, AliasType DEF Instruction
  <1>3. [valid |-> TRUE, op |-> line.op, dest |-> line.dest,
         src1 |-> Alias(line.src1), src2 |-> Alias(line.src2), start_cycle |-> 0] \in Entry
    BY <1>2 DEF Entry
  <1>4. rest' \in [Slot -> Entry]
    BY <1>1, <1>3 DEF Issue, TypeOK
  <1>5. rat' \in [Reg -> Tag]
    BY <1>1 DEF Issue, TypeOK, Tag
  <1>6. inst' \in [Slot -> Nat] /\ stats' \in Stats
    <2>1. Len(prog) \in Nat /\ inst \in [Slot -> Nat] /\ stats \in Stats
      BY <1>1 DEF TypeOK
    <2>2. inst' = [inst EXCEPT ![s] = Len(prog) + 1]
          /\ stats' = [stats EXCEPT !.num_insts = @ + 1]
      BY DEF Issue
    <2>3. inst' \in [Slot -> Nat]
      BY <2>1, <2>2
    <2>4. stats' \in Stats
      <3> DEFINE k == stats.num_insts + 1
      <3>1. k \in Nat
        BY <2>1 DEF Stats
      <3>2. stats' = [stats EXCEPT !.num_insts = k]
        BY <2>2
      <3> HIDE DEF k
      <3> QED BY <2>1, <3>1, <3>2 DEF Stats
    <2> QED BY <2>3, <2>4
  <1>7. /\ prog' \in Seq(Instruction) /\ firedAt' \in Seq(Nat)
        /\ Len(firedAt') = Len(prog')
    <2>1. prog \in Seq(Instruction) /\ firedAt \in Seq(Nat) /\ Len(firedAt) = Len(prog)
      BY <1>1 DEF TypeOK
    <2>2. prog' = Append(prog, line) /\ firedAt' = Append(firedAt, 0)
      BY DEF Issue
    <2> HIDE DEF Instruction
    <2> QED BY <1>2, <2>1, <2>2
  <1> QED BY <1>1, <1>4, <1>5, <1>6, <1>7, IssueEffect DEF TypeOK

\* What was outstanding still is, and the accepted instruction is too.
LEMMA IssueOutstanding ==
  ASSUME IInv, NEW s \in Slot, Issue(s)
  PROVE  /\ Outstanding' = Outstanding \cup {Len(prog) + 1}
         /\ Outstanding \subseteq 1 .. Len(prog) /\ Len(prog) \in Nat
         /\ \A n \in 1 .. Len(prog) : prog'[n] = prog[n] /\ firedAt'[n] = firedAt[n]
         /\ prog'[Len(prog) + 1] = line /\ firedAt'[Len(prog) + 1] = 0
         /\ Len(prog') = Len(prog) + 1
  <1>1. /\ prog \in Seq(Instruction) /\ firedAt \in Seq(Nat) /\ Len(firedAt) = Len(prog)
        /\ line \in Instruction /\ clock' = clock /\ Len(prog) \in Nat
        /\ prog' = Append(prog, line) /\ firedAt' = Append(firedAt, 0)
    BY IssueEffect DEF IInv, TypeOK
  <1>2. /\ \A n \in 1 .. Len(prog) : prog'[n] = prog[n] /\ firedAt'[n] = firedAt[n]
        /\ prog'[Len(prog) + 1] = line /\ firedAt'[Len(prog) + 1] = 0
        /\ Len(prog') = Len(prog) + 1
    BY <1>1
  <1>3. \A n : IsDone(prog', firedAt', n, clock') <=> IsDone(prog, firedAt, n, clock)
    BY <1>1, DoneAfterAppend
  <1>4. ~IsDone(prog', firedAt', Len(prog) + 1, clock')
    BY <1>1, <1>3 DEF IsDone
  <1> QED BY <1>1, <1>2, <1>3, <1>4 DEF Outstanding

\* Accepting an instruction preserves the match of slots and instructions.
LEMMA IssueSlots ==
  ASSUME IInv, NEW s \in Slot, Issue(s)
  PROVE  SlotsHoldOutstanding'
  <1>1. \A t \in Slot : rest[t].valid => inst[t] \in Outstanding /\ Holds(t, inst[t])
    BY DEF IInv, SlotsHoldOutstanding
  <1>2. /\ ~rest[s].valid /\ rest'[s].valid /\ inst'[s] = Len(prog) + 1
        /\ rest'[s].op = line.op /\ rest'[s].dest = line.dest /\ rest'[s].start_cycle = 0
        /\ \A t \in Slot \ {s} : inst'[t] = inst[t] /\ rest'[t] = rest[t]
    BY IssueEffect DEF IInv
  <1>3. \A t \in Slot : rest'[t].valid => inst'[t] \in Outstanding'
    BY <1>1, <1>2, IssueOutstanding
  <1>4. \A t \in Slot : rest'[t].valid => Holds(t, inst[t])'
    <2>1. Holds(s, inst[s])'
      BY <1>2, IssueOutstanding DEF Holds
    <2>2. ASSUME NEW t \in Slot \ {s}, rest'[t].valid PROVE Holds(t, inst[t])'
      <3>1. inst[t] \in 1 .. Len(prog) /\ Holds(t, inst[t])
        BY <1>1, <1>2, <2>2, IssueOutstanding
      <3> QED BY <1>2, <3>1, IssueOutstanding DEF Holds
    <2> QED BY <2>1, <2>2
  <1>5. \A t, u \in Slot : rest'[t].valid /\ rest'[u].valid /\ inst'[t] = inst'[u] => t = u
    <2>1. \A t, u \in Slot : rest[t].valid /\ rest[u].valid /\ inst[t] = inst[u] => t = u
      BY DEF IInv, SlotsHoldOutstanding
    <2>2. \A t \in Slot \ {s} : rest'[t].valid => inst'[t] # Len(prog) + 1
      BY <1>1, <1>2, IssueOutstanding
    <2> QED BY <1>2, <2>1, <2>2
  <1>6. \A n \in Outstanding' : \E t \in Slot : rest'[t].valid /\ inst'[t] = n
    <2>1. \A n \in Outstanding : \E t \in Slot : rest[t].valid /\ inst[t] = n
      BY DEF IInv, SlotsHoldOutstanding
    <2> QED BY <1>2, <2>1, IssueOutstanding
  <1> QED BY <1>3, <1>4, <1>5, <1>6 DEF SlotsHoldOutstanding

\* A tag of another entry or register is not disturbed.
LEMMA IssueNames ==
  ASSUME IInv, NEW s \in Slot, Issue(s),
         NEW t \in Tag, NEW n \in 1 .. Len(prog) + 1, NEW r, Names(t, n, r)
  PROVE  /\ t # -1 => t # s /\ rest'[t].valid /\ IsProducer(prog', inst'[t], n, r)
         /\ t = -1 => \A m \in 1 .. Len(prog') :
               IsProducer(prog', m, n, r) => IsDone(prog', firedAt', m, clock')
  <1>1. /\ prog \in Seq(Instruction) /\ firedAt \in Seq(Nat) /\ Len(firedAt) = Len(prog)
        /\ line \in Instruction /\ clock' = clock
        /\ prog' = Append(prog, line) /\ firedAt' = Append(firedAt, 0)
    BY IssueEffect DEF IInv, TypeOK
  <1>2. \A m : IsProducer(prog', m, n, r) <=> IsProducer(prog, m, n, r)
    BY <1>1, ProducerInPrefix
  <1>3. \A m : IsDone(prog', firedAt', m, clock') <=> IsDone(prog, firedAt, m, clock)
    BY <1>1, DoneAfterAppend
  <1>4. CASE t # -1
    <2>1. t \in Slot /\ rest[t].valid /\ IsProducer(prog, inst[t], n, r)
      BY <1>4 DEF Names, Tag
    <2>2. t # s /\ rest'[t] = rest[t] /\ inst'[t] = inst[t]
      BY <2>1, IssueEffect DEF IInv
    <2> QED BY <1>2, <1>4, <2>1, <2>2
  <1>5. CASE t = -1
    BY <1>2, <1>3, <1>5 DEF Names, IsProducer
  <1> QED BY <1>4, <1>5

\* Accepting an instruction preserves the meaning of the waiting sources.
LEMMA IssueSources ==
  ASSUME IInv, NEW s \in Slot, Issue(s)
  PROVE  SourcesNameProducers'
  <1>1. TypeOK /\ Len(prog) \in Nat /\ line \in Instruction
    BY IssueEffect, IssueOutstanding DEF IInv
  <1>2. ASSUME NEW r \in Reg \cup {INVALID_REG}
        PROVE  Names(Alias(r), Len(prog) + 1, r)
    BY <1>2 DEF IInv, RatNamesYoungestWriter, Alias, Names, INVALID_REG, IsProducer
  <1> SUFFICES ASSUME NEW t \in Slot, rest'[t].valid
               PROVE  /\ Names(rest[t].src1, inst[t], prog[inst[t]].src1)'
                      /\ Names(rest[t].src2, inst[t], prog[inst[t]].src2)'
    BY DEF SourcesNameProducers
  <1>3. CASE t = s
    <2>1. /\ rest'[s].src1 = Alias(line.src1) /\ rest'[s].src2 = Alias(line.src2)
          /\ inst'[s] = Len(prog) + 1 /\ prog'[Len(prog) + 1] = line
          /\ line.src1 \in Reg \cup {INVALID_REG} /\ line.src2 \in Reg \cup {INVALID_REG}
      BY <1>1, IssueEffect, IssueOutstanding DEF Instruction
    <2>2. Alias(line.src1) \in Tag /\ Alias(line.src2) \in Tag
      BY <1>1, <2>1, AliasType
    <2>3. /\ Names(Alias(line.src1), Len(prog) + 1, line.src1)
          /\ Names(Alias(line.src2), Len(prog) + 1, line.src2)
      BY <1>2, <2>1
    <2> QED BY <1>1, <1>3, <2>1, <2>2, <2>3, IssueNames DEF Names
  <1>4. CASE t # s
    <2>1. rest'[t] = rest[t] /\ rest[t].valid /\ inst'[t] = inst[t]
      BY <1>1, <1>4, IssueEffect
    <2>2. rest[t].src1 \in Tag /\ rest[t].src2 \in Tag
      BY <1>1 DEF TypeOK, Entry
    <2>3. inst[t] \in 1 .. Len(prog)
      BY <2>1, IssueOutstanding DEF IInv, SlotsHoldOutstanding
    <2>4. prog'[inst'[t]] = prog[inst[t]]
      BY <2>1, <2>3, IssueOutstanding
    <2>5. /\ Names(rest[t].src1, inst[t], prog[inst[t]].src1)
          /\ Names(rest[t].src2, inst[t], prog[inst[t]].src2)
      BY <2>1 DEF IInv, SourcesNameProducers
    <2>6. /\ rest'[t].src1 = rest[t].src1 /\ rest'[t].src2 = rest[t].src2
          /\ inst[t] \in 1 .. Len(prog) + 1
      BY <1>1, <2>1, <2>3
    <2>7. Names(rest[t].src1, inst[t], prog[inst[t]].src1)'
      <3> DEFINE x == rest[t].src1
                 r == prog[inst[t]].src1
                 n == inst[t]
      <3>1. x \in Tag /\ n \in 1 .. Len(prog) + 1 /\ Names(x, n, r)
        BY <2>2, <2>5, <2>6
      <3> HIDE DEF x, n, r
      <3>2. /\ x # -1 => rest'[x].valid /\ IsProducer(prog', inst'[x], n, r)
            /\ x = -1 => \A m \in 1 .. Len(prog') :
                 IsProducer(prog', m, n, r) => IsDone(prog', firedAt', m, clock')
        BY <3>1, IssueNames
      <3>3. rest'[t].src1 = x /\ prog'[inst'[t]].src1 = r /\ inst'[t] = n
        BY <2>1, <2>4, <2>6 DEF x, n, r
      <3> QED BY <3>2, <3>3 DEF Names
    <2>8. Names(rest[t].src2, inst[t], prog[inst[t]].src2)'
      <3> DEFINE x == rest[t].src2
                 r == prog[inst[t]].src2
                 n == inst[t]
      <3>1. x \in Tag /\ n \in 1 .. Len(prog) + 1 /\ Names(x, n, r)
        BY <2>2, <2>5, <2>6
      <3> HIDE DEF x, n, r
      <3>2. /\ x # -1 => rest'[x].valid /\ IsProducer(prog', inst'[x], n, r)
            /\ x = -1 => \A m \in 1 .. Len(prog') :
                 IsProducer(prog', m, n, r) => IsDone(prog', firedAt', m, clock')
        BY <3>1, IssueNames
      <3>3. rest'[t].src2 = x /\ prog'[inst'[t]].src2 = r /\ inst'[t] = n
        BY <2>1, <2>4, <2>6 DEF x, n, r
      <3> QED BY <3>2, <3>3 DEF Names
    <2> QED BY <2>7, <2>8
  <1> QED BY <1>3, <1>4

\* Accepting an instruction preserves the alias table's meaning.
LEMMA IssueRat ==
  ASSUME IInv, NEW s \in Slot, Issue(s)
  PROVE  RatNamesYoungestWriter'
  <1>1. TypeOK /\ Len(prog) \in Nat /\ line \in Instruction /\ prog \in Seq(Instruction)
        /\ prog' = Append(prog, line) /\ Len(prog') = Len(prog) + 1
    BY IssueEffect, IssueOutstanding DEF IInv, TypeOK
  <1> SUFFICES ASSUME NEW r \in Reg PROVE Names(rat[r], Len(prog) + 1, r)'
    BY DEF RatNamesYoungestWriter
  <1>2. \A m : IsProducer(prog', m, Len(prog) + 2, r) <=>
            IF line.dest = r THEN m = Len(prog) + 1 ELSE IsProducer(prog, m, Len(prog) + 1, r)
    BY <1>1, ProducerAfterAppend
  <1>3. CASE line.dest = r
    <2>1. rat'[r] = s /\ s # -1 /\ rest'[s].valid /\ inst'[s] = Len(prog) + 1
      BY <1>1, <1>3, IssueEffect, SlotIsNat
    <2> QED BY <1>1, <1>2, <1>3, <2>1 DEF Names
  <1>4. CASE line.dest # r
    <2>1. rat'[r] = rat[r] /\ rat[r] \in Tag /\ Names(rat[r], Len(prog) + 1, r)
      BY <1>1, <1>4, IssueEffect DEF IInv, TypeOK, RatNamesYoungestWriter
    <2>2. \A m : IsProducer(prog', m, Len(prog) + 1, r) <=> IsProducer(prog, m, Len(prog) + 1, r)
      BY <1>1, ProducerInPrefix
    <2>3. /\ rat[r] # -1 => rest'[rat[r]].valid /\ IsProducer(prog', inst'[rat[r]], Len(prog) + 1, r)
          /\ rat[r] = -1 => \A m \in 1 .. Len(prog') :
               IsProducer(prog', m, Len(prog) + 1, r) => IsDone(prog', firedAt', m, clock')
      BY <1>1, <2>1, IssueNames
    <2>4. \A m : IsProducer(prog', m, Len(prog') + 1, r) <=> IsProducer(prog', m, Len(prog) + 1, r)
      BY <1>1, <1>2, <1>4, <2>2
    <2> QED BY <2>1, <2>3, <2>4 DEF Names
  <1> QED BY <1>3, <1>4

\* Accepting an instruction preserves the pipelining of the units.
LEMMA IssueUnits ==
  ASSUME IInv, NEW s \in Slot, Issue(s)
  PROVE  UnitsArePipelined' /\ EntriesInOwnTable' /\ FiredInThePast'
  <1>1. /\ rest'[s].start_cycle = 0 /\ rest'[s].op = line.op /\ s \in Table(line.op)
        /\ \A t \in Slot \ {s} : rest'[t] = rest[t]
        /\ clock' = clock /\ clock \in Nat
    BY IssueEffect DEF IInv, TypeOK
  <1>2. UnitsArePipelined'
    BY <1>1 DEF IInv, UnitsArePipelined
  <1>3. EntriesInOwnTable'
    BY <1>1 DEF IInv, EntriesInOwnTable
  <1>4. FiredInThePast'
    BY <1>1, IssueOutstanding DEF IInv, FiredInThePast
  <1> QED BY <1>2, <1>3, <1>4

-----------------------------------------------------------------------------
(* The theorems.                                                           *)

\* Every action of the driver and the scheduler preserves the invariant.
LEMMA NextIInv == IInv /\ [Next]_vars => IInv'
  <1> SUFFICES ASSUME IInv, [Next]_vars PROVE IInv'
    OBVIOUS
  <1> USE DEF IInv
  <1>1. CASE ReadLine
    <2>1. TypeOK'
      BY <1>1 DEF ReadLine, TypeOK, history
    <2> QED BY <1>1, <2>1 DEF ReadLine, history, SlotsHoldOutstanding, Outstanding, Holds,
          SourcesNameProducers, RatNamesYoungestWriter, Names, UnitsArePipelined,
          EntriesInOwnTable, FiredInThePast
  <1>2. ASSUME NEW s \in Slot, Issue(s) PROVE IInv'
    BY <1>2, IssueTypeOK, IssueSlots, IssueSources, IssueRat, IssueUnits
  <1>3. CASE IssueFails
    <2>1. TypeOK'
      <3> DEFINE k == stats.issue_stall + 1
      <3>1. stats \in Stats /\ k \in Nat
        BY DEF TypeOK, Stats
      <3>2. stats' = stats \/ stats' = [stats EXCEPT !.issue_stall = k]
        BY <1>3 DEF IssueFails, Stalled
      <3> HIDE DEF k
      <3>3. stats' \in Stats
        BY <3>1, <3>2 DEF Stats
      <3> QED BY <1>3, <3>3 DEF IssueFails, TypeOK, history
    <2> QED BY <1>3, <2>1 DEF IssueFails, history, SlotsHoldOutstanding, Outstanding, Holds,
          SourcesNameProducers, RatNamesYoungestWriter, Names, UnitsArePipelined,
          EntriesInOwnTable, FiredInThePast
  <1>4. CASE StepAfterIssue
    BY <1>4, StepTypeOK, StepSlots, StepSources, StepUnits DEF StepAfterIssue
  <1>5. CASE Drain
    BY <1>5, StepTypeOK, StepSlots, StepSources, StepUnits DEF Drain, SchedulerStep
  <1>6. CASE SchedulerComplete
    <2>1. TypeOK'
      BY <1>6 DEF SchedulerComplete, TypeOK, history, Stats
    <2> QED BY <1>6, <2>1 DEF SchedulerComplete, history, SlotsHoldOutstanding, Outstanding,
          Holds, SourcesNameProducers, RatNamesYoungestWriter, Names, UnitsArePipelined,
          EntriesInOwnTable, FiredInThePast
  <1>7. CASE UNCHANGED vars
    BY <1>7 DEF vars, TypeOK, SlotsHoldOutstanding, Outstanding, Holds,
          SourcesNameProducers, RatNamesYoungestWriter, Names, UnitsArePipelined,
          EntriesInOwnTable, FiredInThePast
  <1> QED BY <1>1, <1>2, <1>3, <1>4, <1>5, <1>6, <1>7 DEF Next

\* The inductive invariant holds in every reachable state.
THEOREM Invariance == Spec => []IInv
  BY InitIInv, NextIInv, PTL DEF Spec

\* The stations, the alias table and the statistics keep their types.
THEOREM TypeCorrect == Spec => []TypeOK
  BY Invariance, PTL DEF IInv

\* The occupied slots are the outstanding instructions, one each.
THEOREM SlotsCorrect == Spec => []SlotsHoldOutstanding
  BY Invariance, PTL DEF IInv

\* Every waiting source names the producer program order gives it.
THEOREM RenamingCorrect == Spec => []SourcesNameProducers
  BY Invariance, PTL DEF IInv

\* The alias table names the youngest outstanding writer of every register.
THEOREM AliasTableCorrect == Spec => []RatNamesYoungestWriter
  BY Invariance, PTL DEF IInv

\* Each unit holds at most one instruction per start cycle, for its latency.
THEOREM PipeliningCorrect == Spec => []UnitsArePipelined
  BY Invariance, PTL DEF IInv

-----------------------------------------------------------------------------
(* The statistics.                                                         *)

\* Slots that differ in their units, or in another place of a finite set, are
\* no more than that set has elements.
LEMMA CountBy ==
  ASSUME NEW S \in SUBSET Slot, NEW T, IsFiniteSet(T), NEW f \in [S -> T],
         \A s, t \in S : f[s] = f[t] => s = t,
         NEW n \in Nat, n <= Cardinality(T)
  PROVE  AtLeast(n, S) \in Nat /\ AtLeast(n, S) <= Cardinality(T)
  <1>1. f \in Injection(S, T)
    BY DEF Injection, IsInjective
  <1>2. IsFiniteSet(S) /\ Cardinality(S) <= Cardinality(T)
    BY <1>1, FS_Injection
  <1>3. Cardinality(S) \in Nat /\ Cardinality(T) \in Nat
    BY <1>2, FS_CardinalityType
  <1> QED BY <1>2, <1>3 DEF AtLeast

\* There are finitely many units.
LEMMA UnitsAreFinite == IsFiniteSet(FU) /\ Cardinality(FU) \in Nat
  <1>1. FU = (({} \cup {"ADD"}) \cup {"DIV"}) \cup {"MEM"}
    BY DEF FU
  <1>2. IsFiniteSet((({} \cup {"ADD"}) \cup {"DIV"}) \cup {"MEM"})
    BY FS_EmptySet, FS_AddElement
  <1> QED BY <1>1, <1>2, FS_CardinalityType

\* What runs in a unit is an instruction of that unit: a line of no unit stays
\* unfired, so it is never counted as fired or completed.
FiredAreUnits ==
    \A s \in Slot : rest[s].valid /\ rest[s].start_cycle > 0 => rest[s].op \in FU

StatsInv == StatsWithinUnits /\ FiredAreUnits

\* Instructions of one unit that complete in the same cycle are the same.
LEMMA CompletionIsExclusive ==
  ASSUME IInv, NEW s \in Freed, NEW t \in Freed, rest[s].op = rest[t].op
  PROVE  s = t
  <1>1. s \in Slot /\ t \in Slot
    BY DEF Freed, Completing
  <1>2. /\ clock \in Nat /\ rest[s].start_cycle \in Nat /\ rest[t].start_cycle \in Nat
        /\ get_inst_latency(rest[s].op) \in Nat
    BY <1>1, LatencyType DEF IInv, TypeOK, Entry
  <1>3. /\ rest[s].valid /\ rest[s].start_cycle > 0
        /\ rest[t].valid /\ rest[t].start_cycle > 0
        /\ clock + 1 - rest[s].start_cycle >= get_inst_latency(rest[s].op)
        /\ clock + 1 - rest[t].start_cycle >= get_inst_latency(rest[s].op)
    BY <1>1, FreedSlot DEF IInv
  <1>4. /\ clock - rest[s].start_cycle < get_inst_latency(rest[s].op)
        /\ clock - rest[t].start_cycle < get_inst_latency(rest[s].op)
    BY <1>1, <1>3 DEF IInv, UnitsArePipelined
  <1>5. rest[s].start_cycle = rest[t].start_cycle
    BY <1>2, <1>3, <1>4
  <1> QED BY <1>1, <1>3, <1>5 DEF IInv, UnitsArePipelined

\* A scheduler_step records no more than the units can do.
LEMMA StepStats ==
  ASSUME IInv, UnitsArePipelined', TypeOK', StatsInv, SchedulerStep
  PROVE  StatsInv'
  <1>1. /\ clock' = clock + 1 /\ clock \in Nat
        /\ Freed \in SUBSET Slot /\ Fired \in SUBSET Slot
        /\ stats \in Stats
    BY StepEffect DEF IInv, TypeOK
  <1>2. /\ stats.max_fired \in Nat /\ stats.max_completed \in Nat
        /\ \A op \in FU : stats.max_active[op] \in Nat
    BY <1>1 DEF Stats
  <1>3. AtLeast(stats.max_completed, Freed) <= Cardinality(FU)
    <2> DEFINE f == [s \in Freed |-> rest[s].op]
    <2>1. f \in [Freed -> FU]
      BY <1>1, FreedSlot DEF StatsInv, FiredAreUnits, IInv
    <2>2. \A s, t \in Freed : f[s] = f[t] => s = t
      BY CompletionIsExclusive
    <2> HIDE DEF f
    <2> QED BY <1>1, <1>2, <2>1, <2>2, UnitsAreFinite, CountBy DEF StatsInv, StatsWithinUnits
  <1>4. AtLeast(stats.max_fired, Fired) <= Cardinality(FU)
    <2> DEFINE f == [s \in Fired |-> rest[s].op]
    <2>1. f \in [Fired -> FU]
      BY StepEffect DEF IInv
    <2>2. \A s, t \in Fired : f[s] = f[t] => s = t
      BY FiringIsExclusive
    <2> HIDE DEF f
    <2> QED BY <1>1, <1>2, <2>1, <2>2, UnitsAreFinite, CountBy DEF StatsInv, StatsWithinUnits
  <1>5. ASSUME NEW op \in FU
        PROVE  AtLeast(stats.max_active[op], Active(rest', op)) <= get_inst_latency(op)
    <2> DEFINE S == Active(rest', op)
               T == 1 .. get_inst_latency(op)
               f == [s \in S |-> clock' + 1 - rest'[s].start_cycle]
    <2>1. get_inst_latency(op) \in Nat \ {0}
      BY LatencyType
    <2>2. IsFiniteSet(T) /\ Cardinality(T) = get_inst_latency(op)
      BY <2>1, FS_Interval
    <2>3. S \in SUBSET Slot
          /\ \A s \in S : /\ rest'[s].valid /\ rest'[s].op = op
                          /\ rest'[s].start_cycle > 0 /\ rest'[s].start_cycle \in Nat
      BY DEF Active, TypeOK, Entry
    <2>4. \A s \in S : /\ rest'[s].start_cycle <= clock'
                       /\ clock' - rest'[s].start_cycle < get_inst_latency(op)
      BY <2>3 DEF UnitsArePipelined
    <2>5. \A s, t \in S : rest'[s].start_cycle = rest'[t].start_cycle => s = t
      BY <2>3 DEF UnitsArePipelined
    <2>6. f \in [S -> T]
      <3>1. \A s \in S : clock' + 1 - rest'[s].start_cycle \in T
        BY <1>1, <2>1, <2>3, <2>4
      <3> QED BY <3>1
    <2>7. \A s, t \in S : f[s] = f[t] => s = t
      <3>1. \A s, t \in S : clock' + 1 - rest'[s].start_cycle = clock' + 1 - rest'[t].start_cycle
                              => rest'[s].start_cycle = rest'[t].start_cycle
        BY <1>1, <2>3
      <3> QED BY <2>5, <3>1
    <2>8. stats.max_active[op] <= get_inst_latency(op)
      BY DEF StatsInv, StatsWithinUnits
    <2> HIDE DEF S, T, f
    <2>9. AtLeast(stats.max_active[op], S) <= Cardinality(T)
      BY <1>2, <2>2, <2>3, <2>6, <2>7, <2>8, CountBy
    <2> QED BY <2>2, <2>9 DEF S
  <1>6. /\ stats'.max_completed = AtLeast(stats.max_completed, Freed)
        /\ stats'.max_fired = AtLeast(stats.max_fired, Fired)
        /\ \A op \in FU : stats'.max_active[op] = AtLeast(stats.max_active[op], Active(rest', op))
    BY <1>1 DEF SchedulerStep, Stats
  <1>7. StatsWithinUnits'
    BY <1>3, <1>4, <1>5, <1>6 DEF StatsWithinUnits
  <1>8. FiredAreUnits'
    BY StepEffect DEF StatsInv, FiredAreUnits, IInv
  <1> QED BY <1>7, <1>8 DEF StatsInv

\* Every step keeps the maxima within the units.
LEMMA NextStats == IInv /\ IInv' /\ StatsInv /\ [Next]_vars => StatsInv'
  <1> SUFFICES ASSUME IInv, IInv', StatsInv, [Next]_vars PROVE StatsInv'
    OBVIOUS
  <1>1. CASE UNCHANGED vars
    BY <1>1 DEF StatsInv, StatsWithinUnits, FiredAreUnits, vars
  <1>2. CASE ReadLine
    BY <1>2 DEF ReadLine, StatsInv, StatsWithinUnits, FiredAreUnits
  <1>3. ASSUME NEW s \in Slot, Issue(s) PROVE StatsInv'
    <2>1. FiredAreUnits'
      BY <1>3, IssueEffect DEF IInv, StatsInv, FiredAreUnits
    <2>2. stats' = [stats EXCEPT !.num_insts = @ + 1] /\ stats \in Stats
      BY <1>3 DEF Issue, IInv, TypeOK
    <2>3. /\ stats'.max_fired = stats.max_fired
          /\ stats'.max_completed = stats.max_completed
          /\ stats'.max_active = stats.max_active
      BY <2>2 DEF Stats
    <2> QED BY <2>1, <2>3 DEF StatsInv, StatsWithinUnits
  <1>4. CASE IssueFails
    <2>1. stats' = Stalled /\ rest' = rest /\ stats \in Stats
      BY <1>4 DEF IssueFails, IInv, TypeOK
    <2>2. /\ stats'.max_fired = stats.max_fired
          /\ stats'.max_completed = stats.max_completed
          /\ stats'.max_active = stats.max_active
      BY <2>1 DEF Stalled, Stats
    <2> QED BY <2>1, <2>2 DEF StatsInv, StatsWithinUnits, FiredAreUnits
  <1>5. CASE StepAfterIssue \/ Drain
    BY <1>5, StepStats DEF StepAfterIssue, Drain, IInv
  <1>6. CASE SchedulerComplete
    <2>1. stats' = [stats EXCEPT !.num_cycles = clock] /\ rest' = rest /\ stats \in Stats
      BY <1>6 DEF SchedulerComplete, IInv, TypeOK
    <2>2. /\ stats'.max_fired = stats.max_fired
          /\ stats'.max_completed = stats.max_completed
          /\ stats'.max_active = stats.max_active
      BY <2>1 DEF Stats
    <2> QED BY <2>1, <2>2 DEF StatsInv, StatsWithinUnits, FiredAreUnits
  <1> QED BY <1>1, <1>2, <1>3, <1>4, <1>5, <1>6 DEF Next

\* The maxima that are reported never exceed what three pipelined units can do.
THEOREM StatisticsCorrect == Spec => []StatsWithinUnits
  <1>1. Init => StatsInv
    <2> SUFFICES ASSUME Init PROVE StatsInv
      OBVIOUS
    <2>1. stats = NoStats /\ \A s \in Slot : rest[s].valid = FALSE
      BY DEF Init, NoEntry
    <2>2. StatsWithinUnits
      <3>1. \A op \in FU : 0 <= get_inst_latency(op)
        BY LatencyType
      <3> QED BY <2>1, <3>1, UnitsAreFinite DEF NoStats, StatsWithinUnits
    <2> QED BY <2>1, <2>2 DEF StatsInv, FiredAreUnits
  <1>2. StatsInv => StatsWithinUnits
    BY DEF StatsInv
  <1> QED BY <1>1, <1>2, Invariance, NextStats, PTL DEF Spec

\* Every cycle is an accepted instruction or a counted stall, with a unified
\* station for every trace, with one station per unit for traces whose lines
\* all have a unit (one of no unit is refused without being counted).
THEOREM CyclesCorrect ==
  ASSUME RsType = "U" \/ \A p : \A l \in NextLines(p) : l # Eof => l.op \in FU
  PROVE  Spec => []CyclesAreIssuesOrStalls
  <1> DEFINE Counts == line # Eof => RsType = "U" \/ line.op \in FU
             CInv == CyclesAreIssuesOrStalls /\ Counts
  <1>1. Init => CInv
    BY DEF Init, NoStats, CyclesAreIssuesOrStalls
  <1>2. TypeOK /\ CInv /\ [Next]_vars => CInv'
    <2> SUFFICES ASSUME TypeOK, CInv, [Next]_vars PROVE CInv'
      OBVIOUS
    <2>1. clock \in Nat /\ stats \in Stats /\ stats.num_insts \in Nat /\ stats.issue_stall \in Nat
      BY DEF TypeOK, Stats
    <2>2. CASE UNCHANGED vars
      BY <2>2 DEF CyclesAreIssuesOrStalls, vars
    <2>3. CASE ReadLine
      BY <2>3 DEF ReadLine, CyclesAreIssuesOrStalls
    <2>4. ASSUME NEW s \in Slot, Issue(s) PROVE CInv'
      <3>1. /\ pc = "issue" /\ pc' = "step" /\ clock' = clock /\ line' = Eof
            /\ stats'.num_insts = stats.num_insts + 1
            /\ stats'.issue_stall = stats.issue_stall
        BY <2>1, <2>4 DEF Issue, Stats
      <3> QED BY <2>1, <3>1 DEF CyclesAreIssuesOrStalls
    <2>5. CASE IssueFails
      <3>1. RsType = "U" \/ line.op \in FU
        BY <2>5, TomasuloAssumption DEF IssueFails, TypeOK
      <3>2. /\ pc = "issue" /\ pc' = "step" /\ clock' = clock /\ line' = line
            /\ stats'.num_insts = stats.num_insts
            /\ stats'.issue_stall = stats.issue_stall + 1
        BY <2>1, <2>5, <3>1 DEF IssueFails, Stalled, Stats
      <3> QED BY <2>1, <3>2 DEF CyclesAreIssuesOrStalls
    <2>6. CASE StepAfterIssue
      <3>1. /\ pc = "step" /\ pc' \in {"read", "issue"} /\ clock' = clock + 1
            /\ line' = line
            /\ stats'.num_insts = stats.num_insts
            /\ stats'.issue_stall = stats.issue_stall
        BY <2>1, <2>6 DEF StepAfterIssue, SchedulerStep, Stats
      <3> QED BY <2>1, <3>1 DEF CyclesAreIssuesOrStalls
    <2>7. CASE Drain \/ SchedulerComplete
      BY <2>7 DEF Drain, SchedulerComplete, SchedulerStep, CyclesAreIssuesOrStalls
    <2> QED BY <2>2, <2>3, <2>4, <2>5, <2>6, <2>7 DEF Next
  <1>3. CInv => CyclesAreIssuesOrStalls
    OBVIOUS
  <1> HIDE DEF CInv
  <1> QED BY <1>1, <1>2, <1>3, TypeCorrect, PTL DEF Spec

-----------------------------------------------------------------------------
(* The scheduler implements Dataflow.                                      *)

\* The instance shares the definitions of ProgramOrder.
LEMMA SameProgramOrder ==
  /\ DF!Instruction = Instruction /\ DF!FU = FU
  /\ \A p, t, n, c : DF!IsDone(p, t, n, c) <=> IsDone(p, t, n, c)
  /\ \A p, m, n : DF!Feeds(p, m, n) <=> Feeds(p, m, n)
  <1>1. DF!Instruction = Instruction
    BY DEF DF!Instruction, Instruction, DF!Op, Op, DF!FU, FU, DF!INVALID_REG, INVALID_REG,
           DF!OP_INVALID, OP_INVALID
  <1>2. DF!FU = FU
    BY DEF DF!FU, FU
  <1>3. \A p, t, n, c : DF!IsDone(p, t, n, c) <=> IsDone(p, t, n, c)
    BY Zenon DEF DF!IsDone, IsDone, DF!get_inst_latency, get_inst_latency
  <1>4. \A p, m, n : DF!Feeds(p, m, n) <=> Feeds(p, m, n)
    BY Zenon DEF DF!Feeds, Feeds, DF!IsProducer, IsProducer, DF!INVALID_REG, INVALID_REG
  <1> QED BY <1>1, <1>2, <1>3, <1>4

\* The initial states map to the abstract one.
LEMMA InitRefines == Init => DF!Init
  BY DEF Init, DF!Init

\* Accepting an instruction is Accept of the abstract machine.
LEMMA IssueRefines ==
  ASSUME IInv, NEW s \in Slot, Issue(s)
  PROVE  DF!Accept
  BY IssueEffect, SameProgramOrder DEF IInv, DF!Accept

\* Whether a result is there in the next cycle does not depend on what fires.
LEMMA DoneNextCycle ==
  ASSUME IInv, SchedulerStep, NEW m \in 1 .. Len(prog)
  PROVE  IsDone(prog, firedAt, m, clock + 1) <=> IsDone(prog, firedAt', m, clock + 1)
  <1>1. /\ clock \in Nat /\ firedAt[m] \in Nat
        /\ get_inst_latency(prog[m].op) \in Nat \ {0}
    BY LatencyType DEF IInv, TypeOK
  <1>2. CASE \E s \in Fired : inst[s] = m
    <2>1. PICK s \in Fired : inst[s] = m
      BY <1>2
    <2>2. firedAt'[m] = clock + 1 /\ rest[s].start_cycle = 0 /\ rest[s].valid /\ s \in Slot
      BY <2>1, StepEffect DEF IInv
    <2>3. firedAt[m] = 0
      BY <2>1, <2>2 DEF IInv, SlotsHoldOutstanding, Holds
    <2> QED BY <1>1, <2>2, <2>3 DEF IsDone
  <1>3. CASE ~\E s \in Fired : inst[s] = m
    <2>1. firedAt'[m] = firedAt[m]
      BY <1>3, StepEffect DEF IInv
    <2> QED BY <2>1 DEF IsDone
  <1> QED BY <1>2, <1>3

\* An entry with a cleared source r has r's producers done, and the converse.
LEMMA WokenSource ==
  ASSUME IInv, SchedulerStep, NEW t \in Tag, NEW n \in 1 .. Len(prog), NEW r, Names(t, n, r)
  PROVE  Woken(t, Freed) = -1 <=>
           \A m \in 1 .. Len(prog) : IsProducer(prog, m, n, r) => IsDone(prog, firedAt, m, clock + 1)
  <1> DEFINE u == Woken(t, Freed)
  <1>0. Len(prog) \in Nat /\ prog' = prog /\ clock' = clock + 1 /\ inst' = inst
    BY StepEffect DEF IInv, TypeOK
  <1>1. /\ u # -1 => rest'[u].valid /\ IsProducer(prog, inst[u], n, r)
        /\ u = -1 => \A m \in 1 .. Len(prog) :
             IsProducer(prog, m, n, r) => IsDone(prog, firedAt', m, clock + 1)
    BY <1>0, StepNames
  <1>2. u \in Slot \/ u = -1
    BY DEF Woken, Tag
  <1> HIDE DEF u
  <1>3. ASSUME u # -1
        PROVE  ~IsDone(prog, firedAt, inst[u], clock + 1) /\ inst[u] \in 1 .. Len(prog)
    <2>1. u \in Slot /\ rest'[u].valid
      BY <1>1, <1>2, <1>3
    <2>2. inst[u] \in Outstanding'
      BY <1>0, <2>1, StepSlots DEF SlotsHoldOutstanding
    <2>3. inst[u] \in 1 .. Len(prog) /\ ~IsDone(prog, firedAt', inst[u], clock + 1)
      BY <1>0, <2>2 DEF Outstanding
    <2> QED BY <2>3, DoneNextCycle
  <1>4. CASE u = -1
    BY <1>1, <1>4, DoneNextCycle DEF u
  <1>5. CASE u # -1
    BY <1>1, <1>3, <1>5 DEF u
  <1> QED BY <1>4, <1>5

\* The entry of instruction n is ready after the broadcasts exactly when every
\* producer of n is done.
LEMMA ReadyIsDataflow ==
  ASSUME IInv, SchedulerStep, NEW s \in Slot, rest[s].valid, rest[s].start_cycle = 0,
         rest[s].op \in FU
  PROVE  IsReady(Cleared[s]) <=>
           \A m \in 1 .. Len(prog) : Feeds(prog, m, inst[s]) => IsDone(prog, firedAt, m, clock + 1)
  <1>1. /\ rest[s].src1 \in Tag /\ rest[s].src2 \in Tag /\ inst[s] \in 1 .. Len(prog)
        /\ Names(rest[s].src1, inst[s], prog[inst[s]].src1)
        /\ Names(rest[s].src2, inst[s], prog[inst[s]].src2)
    BY DEF IInv, TypeOK, Entry, SlotsHoldOutstanding, Outstanding, SourcesNameProducers
  <1>2. s \notin Freed
    BY FreedSlot DEF IInv
  <1>3. IsReady(Cleared[s]) <=> Woken(rest[s].src1, Freed) = -1 /\ Woken(rest[s].src2, Freed) = -1
    <2>1. /\ Cleared[s].valid
          /\ Cleared[s].op = rest[s].op /\ Cleared[s].start_cycle = 0
          /\ Cleared[s].src1 = Woken(rest[s].src1, Freed)
          /\ Cleared[s].src2 = Woken(rest[s].src2, Freed)
      BY <1>2 DEF Cleared, AfterBroadcast, IInv, TypeOK, Entry
    <2> QED BY <2>1, Zenon DEF IsReady
  <1>4. Woken(rest[s].src1, Freed) = -1 <=>
          \A m \in 1 .. Len(prog) : IsProducer(prog, m, inst[s], prog[inst[s]].src1) =>
             IsDone(prog, firedAt, m, clock + 1)
    BY <1>1, WokenSource
  <1>5. Woken(rest[s].src2, Freed) = -1 <=>
          \A m \in 1 .. Len(prog) : IsProducer(prog, m, inst[s], prog[inst[s]].src2) =>
             IsDone(prog, firedAt, m, clock + 1)
    BY <1>1, WokenSource
  <1> QED BY <1>3, <1>4, <1>5, Zenon DEF Feeds

\* What DF may fire in this step waits in a slot with both sources ready.
LEMMA CanFireIsReady ==
  ASSUME IInv, SchedulerStep, NEW op \in FU, NEW n \in DF!CanFire(op, clock + 1)
  PROVE  \E s \in Slot : inst[s] = n /\ rest[s].op = op /\ IsReady(Cleared[s])
  <1>1. /\ n \in 1 .. Len(prog) /\ prog[n].op = op /\ firedAt[n] = 0
        /\ \A m \in 1 .. Len(prog) : Feeds(prog, m, n) => IsDone(prog, firedAt, m, clock + 1)
    BY SameProgramOrder, Zenon DEF DF!CanFire
  <1>2. n \in Outstanding
    BY <1>1 DEF Outstanding, IsDone
  <1>3. PICK s \in Slot : rest[s].valid /\ inst[s] = n
    BY <1>2 DEF IInv, SlotsHoldOutstanding
  <1>4. rest[s].op = op /\ rest[s].start_cycle = 0
    BY <1>1, <1>3 DEF IInv, SlotsHoldOutstanding, Holds
  <1> QED BY <1>1, <1>3, <1>4, ReadyIsDataflow

\* A unit that has a ready entry in some station starts one of them.
LEMMA ReadyUnitFires ==
  ASSUME IInv, NEW r \in Slot, IsReady(Cleared[r])
  PROVE  \E s \in Fired : rest[s].op = rest[r].op
  <1> DEFINE op == rest[r].op
             T == {t \in Slot : IsReady(Cleared[t]) /\ Cleared[t].op = op}
  <1>1. \A t \in Slot : Cleared[t].op = rest[t].op
    BY DEF Cleared, AfterBroadcast, IInv, TypeOK, Entry
  <1>2. T # {} /\ T \in SUBSET Slot
    BY <1>1
  <1> HIDE DEF T, op
  <1>3. PICK s \in T : IsFirst(s, T)
    BY <1>2, FirstSlot
  <1> USE DEF T
  <1>4. s \in Slot /\ IsReady(Cleared[s]) /\ Cleared[s].op = op
    BY <1>3
  <1>5. SameTable(s, s)
    <2>1. Cleared[s].valid /\ op \in FU
      BY <1>4, Zenon DEF IsReady
    <2>2. rest[s].valid /\ rest[s].op = op
      BY <1>1, <1>4, <2>1 DEF Cleared, AfterBroadcast, IInv, TypeOK, Entry
    <2> QED BY <1>4, <2>1, <2>2 DEF SameTable, IInv, EntriesInOwnTable
  <1>6. \A t \in Slot : IsReady(Cleared[t]) /\ Rivals(Cleared, s, t) => t \in T
    BY <1>4 DEF Rivals
  <1>7. \A t \in Slot : IsReady(Cleared[t]) /\ Rivals(Cleared, s, t) => s <= t
    BY <1>3, <1>6 DEF IsFirst
  <1>8. s \in Fired
    BY <1>4, <1>5, <1>7, Zenon DEF Fired, Firing, IsFirst, Rivals
  <1> QED BY <1>1, <1>4, <1>8 DEF op

\* scheduler_step is Tick of the abstract machine.
LEMMA StepRefines ==
  ASSUME IInv, SchedulerStep
  PROVE  DF!Tick
  <1> DEFINE S == {inst[s] : s \in Fired}
  <1>1. \A s \in Fired : /\ s \in Slot /\ rest[s].valid /\ rest[s].start_cycle = 0
                         /\ rest[s].op \in FU /\ IsReady(Cleared[s])
                         /\ inst[s] \in 1 .. Len(prog)
                         /\ prog[inst[s]].op = rest[s].op /\ firedAt[inst[s]] = 0
    <2>1. \A s \in Fired : /\ s \in Slot /\ rest[s].valid /\ rest[s].start_cycle = 0
                           /\ rest[s].op \in FU
      BY StepEffect DEF IInv
    <2>2. \A s \in Fired : IsReady(Cleared[s])
      BY DEF Fired, Firing
    <2>3. \A s \in Slot : rest[s].valid => inst[s] \in 1 .. Len(prog) /\ Holds(s, inst[s])
      BY DEF IInv, SlotsHoldOutstanding, Outstanding
    <2> QED BY <2>1, <2>2, <2>3 DEF Holds
  <1>2. S \in SUBSET (1 .. Len(prog))
    BY <1>1
  <1>3. \A n \in S : prog[n].op \in DF!FU /\ n \in DF!CanFire(prog[n].op, clock + 1)
    <2> SUFFICES ASSUME NEW s \in Fired
                 PROVE  /\ prog[inst[s]].op \in DF!FU
                        /\ inst[s] \in DF!CanFire(prog[inst[s]].op, clock + 1)
      OBVIOUS
    <2>1. \A m \in 1 .. Len(prog) : Feeds(prog, m, inst[s]) => IsDone(prog, firedAt, m, clock + 1)
      BY <1>1, ReadyIsDataflow
    <2> QED BY <1>1, <2>1, SameProgramOrder, Zenon DEF DF!CanFire
  <1>4. \A m, n \in S : prog[m].op = prog[n].op => m = n
    <2>1. \A s, t \in Fired : rest[s].op = rest[t].op => s = t
      BY FiringIsExclusive
    <2> QED BY <1>1, <2>1
  <1>5. \A op \in DF!FU : DF!CanFire(op, clock + 1) # {} => \E n \in S : prog[n].op = op
    <2> SUFFICES ASSUME NEW op \in FU, NEW n \in DF!CanFire(op, clock + 1)
                 PROVE  \E s \in Fired : rest[s].op = op
      BY <1>1, SameProgramOrder
    <2> QED BY CanFireIsReady, ReadyUnitFires
  <1>6. /\ clock' = clock + 1 /\ prog' = prog
        /\ firedAt' = [n \in 1 .. Len(prog) |-> IF n \in S THEN clock + 1 ELSE firedAt[n]]
    <2>1. \A n : n \in S <=> \E s \in Fired : inst[s] = n
      OBVIOUS
    <2> HIDE DEF S
    <2> QED BY <2>1 DEF SchedulerStep
  <1> HIDE DEF S
  <1> QED BY <1>2, <1>3, <1>4, <1>5, <1>6 DEF DF!Tick

\* The scheduler implements the abstract machine: renaming through slots and
\* tags, broadcasts and the scan of the tables come to firing by data flow.
THEOREM DataflowRefinement == Spec => ImplementsDataflow
  <1>1. Init => DF!Init
    BY InitRefines
  <1>2. IInv /\ [Next]_vars => [DF!Next]_DF!vars
    <2> SUFFICES ASSUME IInv, [Next]_vars PROVE [DF!Next]_DF!vars
      OBVIOUS
    <2>1. CASE ReadLine
      BY <2>1 DEF ReadLine, history, DF!vars
    <2>2. ASSUME NEW s \in Slot, Issue(s) PROVE DF!Next
      BY <2>2, IssueRefines DEF DF!Next
    <2>3. CASE IssueFails
      BY <2>3 DEF IssueFails, history, DF!vars
    <2>4. CASE StepAfterIssue
      BY <2>4, StepRefines DEF StepAfterIssue, DF!Next
    <2>5. CASE Drain
      BY <2>5, StepRefines DEF Drain, DF!Next
    <2>6. CASE SchedulerComplete
      BY <2>6 DEF SchedulerComplete, history, DF!vars
    <2>7. CASE UNCHANGED vars
      BY <2>7 DEF vars, DF!vars
    <2> QED BY <2>1, <2>2, <2>3, <2>4, <2>5, <2>6, <2>7 DEF Next
  <1> QED BY <1>1, <1>2, Invariance, PTL DEF Spec, ImplementsDataflow, DF!Spec

-----------------------------------------------------------------------------
(* The schedule.                                                           *)

\* What fires in a step finds its producers done and its unit free.
LEMMA StepSchedule ==
  ASSUME IInv, ScheduleIsLegal, SchedulerStep
  PROVE  ScheduleIsLegal'
  <1>1. /\ prog' = prog /\ clock \in Nat /\ Len(prog) \in Nat
        /\ \A n \in 1 .. Len(prog) :
              firedAt'[n] = IF \E s \in Fired : inst[s] = n THEN clock + 1 ELSE firedAt[n]
    BY StepEffect DEF IInv, TypeOK
  <1>2. \A s \in Fired : /\ s \in Slot /\ rest[s].valid /\ rest[s].start_cycle = 0
                         /\ rest[s].op \in FU /\ IsReady(Cleared[s])
                         /\ firedAt[inst[s]] = 0 /\ prog[inst[s]].op = rest[s].op
    <2>1. \A s \in Fired : /\ s \in Slot /\ rest[s].valid /\ rest[s].start_cycle = 0
                           /\ rest[s].op \in FU
      BY StepEffect DEF IInv
    <2>2. \A s \in Fired : IsReady(Cleared[s])
      BY DEF Fired, Firing
    <2>3. \A s \in Slot : rest[s].valid => Holds(s, inst[s])
      BY DEF IInv, SlotsHoldOutstanding
    <2> QED BY <2>1, <2>2, <2>3 DEF Holds
  <1>3. \A n \in 1 .. Len(prog) : firedAt[n] \in Nat /\ firedAt[n] <= clock
    BY DEF IInv, TypeOK, FiredInThePast
  <1>4. ASSUME NEW m \in 1 .. Len(prog), NEW n \in 1 .. Len(prog), firedAt'[n] > 0,
               Feeds(prog, m, n)
        PROVE  /\ firedAt'[m] > 0
               /\ firedAt'[n] - firedAt'[m] >= get_inst_latency(prog[m].op)
    <2>1. CASE \E s \in Fired : inst[s] = n
      <3>1. PICK s \in Fired : inst[s] = n
        BY <2>1
      <3>2. IsDone(prog, firedAt, m, clock + 1)
        BY <1>2, <1>4, <3>1, ReadyIsDataflow
      <3>3. firedAt[m] > 0 /\ clock + 1 - firedAt[m] >= get_inst_latency(prog[m].op)
        BY <1>1, <1>3, <3>2, LatencyType DEF IsDone
      <3>4. firedAt'[m] = firedAt[m] /\ firedAt'[n] = clock + 1
        BY <1>1, <1>2, <2>1, <3>3
      <3> QED BY <1>1, <1>3, <3>3, <3>4, LatencyType
    <2>2. CASE ~ \E s \in Fired : inst[s] = n
      <3>1. firedAt'[n] = firedAt[n]
        BY <1>1, <2>2
      <3>2. firedAt[m] > 0 /\ firedAt[n] - firedAt[m] >= get_inst_latency(prog[m].op)
        BY <1>4, <3>1 DEF ScheduleIsLegal
      <3>3. firedAt'[m] = firedAt[m]
        BY <1>1, <1>2, <3>2
      <3> QED BY <3>1, <3>2, <3>3
    <2> QED BY <2>1, <2>2
  <1>5. ASSUME NEW m \in 1 .. Len(prog), NEW n \in 1 .. Len(prog), firedAt'[n] > 0,
               prog[m].op = prog[n].op, firedAt'[m] = firedAt'[n]
        PROVE  m = n
    <2>1. CASE firedAt'[n] = clock + 1
      <3>1. (\E s \in Fired : inst[s] = m) /\ (\E s \in Fired : inst[s] = n)
        BY <1>1, <1>3, <1>5, <2>1
      <3>2. PICK s \in Fired, t \in Fired : inst[s] = m /\ inst[t] = n
        BY <3>1
      <3>3. rest[s].op = rest[t].op
        BY <1>2, <1>5, <3>2
      <3> QED BY <3>2, <3>3, FiringIsExclusive
    <2>2. CASE firedAt'[n] # clock + 1
      <3>1. firedAt'[n] = firedAt[n] /\ firedAt'[m] = firedAt[m]
        BY <1>1, <1>5, <2>2
      <3> QED BY <1>5, <3>1 DEF ScheduleIsLegal
    <2> QED BY <2>1, <2>2
  <1> QED BY <1>1, <1>4, <1>5 DEF ScheduleIsLegal

\* The last of the instructions has not fired and feeds none before it.
LEMMA IssueSchedule ==
  ASSUME IInv, ScheduleIsLegal, NEW s \in Slot, Issue(s)
  PROVE  ScheduleIsLegal'
  <1> DEFINE k == Len(prog)
  <1>1. /\ Len(prog') = k + 1 /\ k \in Nat /\ firedAt'[k + 1] = 0
        /\ \A n \in 1 .. k : prog'[n] = prog[n] /\ firedAt'[n] = firedAt[n]
    <2>1. line \in Instruction /\ prog' = Append(prog, line) /\ firedAt' = Append(firedAt, 0)
      BY IssueEffect DEF IInv
    <2>2. prog \in Seq(Instruction) /\ firedAt \in Seq(Nat) /\ Len(firedAt) = Len(prog)
      BY DEF IInv, TypeOK
    <2> QED BY <2>1, <2>2
  <1>2. ASSUME NEW m \in 1 .. k + 1, NEW n \in 1 .. k + 1, firedAt'[n] > 0
        PROVE  /\ Feeds(prog', m, n) =>
                     /\ firedAt'[m] > 0
                     /\ firedAt'[n] - firedAt'[m] >= get_inst_latency(prog'[m].op)
               /\ prog'[m].op = prog'[n].op /\ firedAt'[m] = firedAt'[n] => m = n
    <2>1. n \in 1 .. k
      BY <1>1, <1>2
    <2>2. CASE m = k + 1
      <3>1. firedAt'[m] # firedAt'[n]
        BY <1>1, <1>2, <2>2
      <3>2. ~Feeds(prog', m, n)
        BY <1>1, <2>1, <2>2 DEF Feeds, IsProducer
      <3> QED BY <3>1, <3>2
    <2>3. CASE m \in 1 .. k
      <3>1. Feeds(prog', m, n) => Feeds(prog, m, n)
        BY <1>1, <2>1, <2>3 DEF Feeds, IsProducer
      <3>2. prog'[m] = prog[m] /\ prog'[n] = prog[n]
            /\ firedAt'[m] = firedAt[m] /\ firedAt'[n] = firedAt[n]
        BY <1>1, <2>1, <2>3
      <3> QED BY <1>2, <2>1, <2>3, <3>1, <3>2 DEF ScheduleIsLegal
    <2> QED BY <1>1, <2>2, <2>3
  <1> QED BY <1>1, <1>2 DEF ScheduleIsLegal

\* Every instruction fires when its operands are there and its unit is free, by
\* program order and not by what slots and tags say.
THEOREM ScheduleCorrect == Spec => []ScheduleIsLegal
  <1>1. Init => ScheduleIsLegal
    BY DEF Init, ScheduleIsLegal
  <1>2. IInv /\ ScheduleIsLegal /\ [Next]_vars => ScheduleIsLegal'
    <2> SUFFICES ASSUME IInv, ScheduleIsLegal, [Next]_vars PROVE ScheduleIsLegal'
      OBVIOUS
    <2>1. CASE ReadLine \/ IssueFails \/ SchedulerComplete \/ UNCHANGED vars
      <3>1. UNCHANGED <<prog, firedAt>>
        BY <2>1 DEF ReadLine, IssueFails, SchedulerComplete, history, vars
      <3> QED BY <3>1 DEF ScheduleIsLegal
    <2>2. ASSUME NEW s \in Slot, Issue(s) PROVE ScheduleIsLegal'
      BY <2>2, IssueSchedule
    <2>3. CASE StepAfterIssue \/ Drain
      BY <2>3, StepSchedule DEF StepAfterIssue, Drain
    <2> QED BY <2>1, <2>2, <2>3 DEF Next
  <1> QED BY <1>1, <1>2, Invariance, PTL DEF Spec

-----------------------------------------------------------------------------
(* No cycle is lost: in every cycle with an entry in a station either an   *)
(* instruction is in its unit, or one starts.  Each then pays for a cycle, *)
(* and never for more than its latency and one.                            *)

\* Only lines of units with a station are executed at all.
Executable ==
    /\ \A n \in 1 .. Len(prog) : prog[n].op \in FU
    /\ line # Eof => Table(line.op) # {}

Running(n) == firedAt[n] > 0 /\ ~IsDone(prog, firedAt, n, clock)

\* Among entries of which none is running, the one that came first has
\* nobody to wait for.
LEMMA OldestFires ==
  ASSUME IInv, SchedulerStep, \A n \in 1 .. Len(prog) : prog[n].op \in FU,
         ~scheduler_completed, \A n \in 1 .. Len(prog) : ~Running(n)
  PROVE  Fired # {}
  <1> DEFINE T == {inst[s] : s \in {t \in Slot : rest[t].valid}}
  <1>1. T \in SUBSET Nat /\ T # {}
    BY DEF IInv, TypeOK, scheduler_completed
  <1> HIDE DEF T
  <1>2. PICK n \in T : \A m \in T : n <= m
    BY <1>1, SmallestNumber
  <1>0. \A m \in T : m \in Nat /\ ~ (m < n)
    BY <1>1, <1>2
  <1> USE DEF T
  <1>3. PICK s \in Slot : rest[s].valid /\ inst[s] = n
    BY <1>2
  <1>4. n \in Outstanding /\ Holds(s, n)
    BY <1>3 DEF IInv, SlotsHoldOutstanding
  <1>5. n \in 1 .. Len(prog) /\ firedAt[n] \in Nat /\ Len(prog) \in Nat /\ clock \in Nat
    BY <1>4 DEF Outstanding, IInv, TypeOK
  <1>6. firedAt[n] = 0
    BY <1>4, <1>5 DEF Running, Outstanding
  <1>7. rest[s].start_cycle = 0 /\ rest[s].op \in FU
    BY <1>4, <1>5, <1>6 DEF Holds
  <1>8. ASSUME NEW m \in 1 .. Len(prog), Feeds(prog, m, n)
        PROVE  IsDone(prog, firedAt, m, clock + 1)
    <2>1. m < n
      BY <1>8 DEF Feeds, IsProducer
    <2>2. m \notin T
      BY <1>0, <2>1
    <2>3. m \notin Outstanding
      BY <2>2 DEF IInv, SlotsHoldOutstanding
    <2>4. IsDone(prog, firedAt, m, clock)
      BY <2>3 DEF Outstanding
    <2>5. firedAt[m] \in Nat /\ get_inst_latency(prog[m].op) \in Nat
      BY LatencyType DEF IInv, TypeOK
    <2> QED BY <1>5, <2>4, <2>5 DEF IsDone
  <1>9. IsReady(Cleared[s])
    BY <1>3, <1>7, <1>8, ReadyIsDataflow
  <1> QED BY <1>9, ReadyUnitFires

\* The cycles an instruction has paid for: from its start to its completion.
Paid(n) ==
    IF firedAt[n] = 0 THEN 0
    ELSE 1 + IF IsDone(prog, firedAt, n, clock) THEN get_inst_latency(prog[n].op)
             ELSE clock - firedAt[n]

Payments == [n \in 1 .. Len(prog) |-> Paid(n)]
Prices == [n \in 1 .. Len(prog) |-> 1 + get_inst_latency(prog[n].op)]

\* A line is in main's hands between its reading and its acceptance, and there
\* is an entry in some station when main steps.
DriverInv ==
    /\ pc \in {"read", "drain", "end"} => line = Eof
    /\ pc = "step" /\ Executable => ~scheduler_completed

SerialInv == DriverInv /\ (Executable => clock <= 1 + SumFunction(Payments))

LEMMA PaymentsType ==
  ASSUME IInv
  PROVE  /\ Payments \in [1 .. Len(prog) -> Int] /\ Prices \in [1 .. Len(prog) -> Int]
         /\ \A n \in 1 .. Len(prog) : Payments[n] <= Prices[n]
         /\ IsFiniteSet(1 .. Len(prog)) /\ Len(prog) \in Nat
  <1>1. Len(prog) \in Nat /\ clock \in Nat
    BY DEF IInv, TypeOK
  <1>2. IsFiniteSet(1 .. Len(prog))
    BY <1>1, FS_Interval
  <1>3. ASSUME NEW n \in 1 .. Len(prog)
        PROVE  Paid(n) \in Int /\ Paid(n) <= 1 + get_inst_latency(prog[n].op)
    <2>1. firedAt[n] \in Nat /\ firedAt[n] <= clock /\ get_inst_latency(prog[n].op) \in Nat
      BY LatencyType DEF IInv, TypeOK, FiredInThePast
    <2> QED BY <1>1, <2>1 DEF Paid, IsDone
  <1>4. \A n \in 1 .. Len(prog) : 1 + get_inst_latency(prog[n].op) \in Int
    BY LatencyType
  <1> QED BY <1>1, <1>2, <1>3, <1>4 DEF Payments, Prices

\* In a step nobody takes back what is paid, and somebody pays.
LEMMA StepPays ==
  ASSUME IInv, IInv', SchedulerStep, Executable, ~scheduler_completed
  PROVE  /\ SumFunction(Payments)' \in Int
         /\ 1 + SumFunction(Payments) <= SumFunction(Payments)'
  <1>1. /\ prog' = prog /\ clock' = clock + 1 /\ clock \in Nat /\ Len(prog) \in Nat
        /\ \A n \in 1 .. Len(prog) :
              firedAt'[n] = IF \E s \in Fired : inst[s] = n THEN clock + 1 ELSE firedAt[n]
    BY StepEffect DEF IInv, TypeOK
  <1>2. \A s \in Fired : inst[s] \in 1 .. Len(prog) /\ firedAt[inst[s]] = 0
    <2>1. \A s \in Fired : s \in Slot /\ rest[s].valid /\ rest[s].start_cycle = 0
      BY StepEffect DEF IInv
    <2> QED BY <2>1 DEF IInv, SlotsHoldOutstanding, Outstanding, Holds
  <1>3. ASSUME NEW n \in 1 .. Len(prog)
        PROVE  /\ Paid(n)' \in Int /\ Paid(n) <= Paid(n)'
               /\ Running(n) \/ (\E s \in Fired : inst[s] = n) => Paid(n) < Paid(n)'
    <2>1. /\ firedAt[n] \in Nat /\ firedAt[n] <= clock
          /\ get_inst_latency(prog[n].op) \in Nat \ {0}
      BY LatencyType DEF IInv, TypeOK, FiredInThePast
    <2>2. CASE \E s \in Fired : inst[s] = n
      <3>1. firedAt[n] = 0 /\ firedAt'[n] = clock + 1
        BY <1>1, <1>2, <2>2
      <3>2. Paid(n) = 0
        BY <3>1 DEF Paid
      <3>3. Paid(n)' = 1
        BY <1>1, <2>1, <3>1 DEF Paid, IsDone
      <3> QED BY <3>2, <3>3
    <2>3. CASE ~ \E s \in Fired : inst[s] = n
      <3>1. firedAt'[n] = firedAt[n]
        BY <1>1, <2>3
      <3>2. Paid(n)' = IF firedAt[n] = 0 THEN 0
                       ELSE 1 + IF clock + 1 - firedAt[n] >= get_inst_latency(prog[n].op)
                                THEN get_inst_latency(prog[n].op) ELSE clock + 1 - firedAt[n]
        BY <1>1, <2>1, <3>1 DEF Paid, IsDone
      <3>3. Paid(n) = IF firedAt[n] = 0 THEN 0
                      ELSE 1 + IF clock - firedAt[n] >= get_inst_latency(prog[n].op)
                               THEN get_inst_latency(prog[n].op) ELSE clock - firedAt[n]
        BY <1>1, <2>1 DEF Paid, IsDone
      <3>4. Running(n) => firedAt[n] > 0 /\ clock - firedAt[n] < get_inst_latency(prog[n].op)
        BY <1>1, <2>1 DEF Running, IsDone
      <3> QED BY <1>1, <2>1, <2>3, <3>2, <3>3, <3>4
    <2> QED BY <2>2, <2>3
  <1>4. PICK y \in 1 .. Len(prog) : Running(y) \/ \E s \in Fired : inst[s] = y
    BY <1>2, OldestFires DEF Executable
  <1>5. /\ Payments \in [1 .. Len(prog) -> Int]
        /\ Payments' \in [1 .. Len(prog) -> Int]
        /\ IsFiniteSet(1 .. Len(prog))
    <2>1. Payments' \in [1 .. Len(prog) -> Int]
      BY <1>1, <1>3 DEF Payments
    <2> QED BY <1>1, <2>1, PaymentsType
  <1>6. \A n \in 1 .. Len(prog) : Payments[n] = Paid(n) /\ Payments'[n] = Paid(n)'
    BY <1>1 DEF Payments
  <1>7. SumFunction(Payments) + 1 <= SumFunction(Payments')
    <2> DEFINE f == Payments
               g == Payments'
    <2>1. \A n \in 1 .. Len(prog) : f[n] <= g[n]
      BY <1>3, <1>6
    <2>2. f[y] < g[y]
      BY <1>3, <1>4, <1>6
    <2>3. f \in [1 .. Len(prog) -> Int] /\ g \in [1 .. Len(prog) -> Int]
      BY <1>5
    <2> HIDE DEF f, g
    <2>4. SumFunction(f) + 1 <= SumFunction(g)
      BY <1>5, <2>1, <2>2, <2>3, SumGrows
    <2> QED BY <2>4 DEF f, g
  <1>8. SumFunction(Payments) \in Int /\ SumFunction(Payments') \in Int
    BY <1>5, SumIsInteger
  <1> QED BY <1>7, <1>8

\* The invariant is kept by every step of main.
LEMMA NextSerial ==
  IInv /\ IInv' /\ SerialInv /\ [Next]_vars => SerialInv'
  <1> SUFFICES ASSUME IInv, IInv', SerialInv, [Next]_vars PROVE SerialInv'
    OBVIOUS
  <1>0. clock \in Nat /\ line \in Instruction \cup {Eof} /\ Len(prog) \in Nat
    BY DEF IInv, TypeOK
  <1>1. CASE ReadLine
    <2>1. pc = "read" /\ line = Eof /\ UNCHANGED <<prog, firedAt, clock, rest>>
      BY <1>1 DEF ReadLine, history, SerialInv, DriverInv
    <2>2. pc' \notin {"read", "step", "end"} /\ (pc' = "drain" => line' = Eof)
      BY <1>1 DEF ReadLine
    <2>3. DriverInv'
      BY <2>2 DEF DriverInv
    <2>4. (Executable' => Executable) /\ Payments' = Payments
      BY <2>1 DEF Executable, Payments, Paid, IsDone
    <2> QED BY <2>1, <2>3, <2>4 DEF SerialInv
  <1>2. ASSUME NEW s \in Slot, Issue(s) PROVE SerialInv'
    <2>1. /\ line \in Instruction /\ s \in Table(line.op) /\ rest'[s].valid
          /\ prog' = Append(prog, line) /\ firedAt' = Append(firedAt, 0)
          /\ clock' = clock /\ pc' = "step"
      BY <1>2, IssueEffect DEF IInv
    <2>2. DriverInv'
      BY <2>1 DEF DriverInv, scheduler_completed
    <2>3. ASSUME Executable' PROVE Executable
      <3>1. \A n \in 1 .. Len(prog) : n \in 1 .. Len(prog') /\ prog'[n] = prog[n]
        BY <1>0, <2>1 DEF IInv, TypeOK
      <3> QED BY <2>1, <2>3, <3>1 DEF Executable
    <2>4. SumFunction(Payments') = SumFunction(Payments)
      <3> DEFINE k == Len(prog)
                 f == Payments
                 g == Payments'
      <3>1. /\ Len(prog') = k + 1 /\ k \in Nat /\ firedAt'[k + 1] = 0
            /\ \A n \in 1 .. k : prog'[n] = prog[n] /\ firedAt'[n] = firedAt[n]
        BY <2>1 DEF IInv, TypeOK
      <3>2. f \in [1 .. k -> Int]
        BY PaymentsType
      <3>3. ASSUME NEW n \in 1 .. k PROVE Paid(n)' = Paid(n)
        <4>1. prog'[n] = prog[n] /\ firedAt'[n] = firedAt[n] /\ n \in 1 .. Len(prog')
          BY <3>1
        <4> QED BY <2>1, <4>1 DEF Paid, IsDone
      <3>4. ASSUME NEW n \in 1 .. k + 1, n = k + 1 PROVE Paid(n)' = 0
        BY <3>1, <3>4 DEF Paid
      <3>5. \A n \in 1 .. k : f[n] = Paid(n)
        BY DEF Payments
      <3>6. DOMAIN g = 1 .. k + 1 /\ \A n \in 1 .. k + 1 : g[n] = Paid(n)'
        BY <3>1 DEF Payments
      <3>7. g \in [1 .. k + 1 -> Int]
        <4>1. g = [n \in 1 .. k + 1 |-> Paid(n)']
          BY <3>1 DEF Payments
        <4>2. \A n \in 1 .. k : Paid(n) \in Int
          BY <3>2, <3>5
        <4>3. \A n \in 1 .. k + 1 : n \in 1 .. k \/ n = k + 1
          BY <3>1
        <4>4. ASSUME NEW n \in 1 .. k + 1 PROVE Paid(n)' \in Int
          <5>1. CASE n \in 1 .. k
            BY <3>3, <4>2, <5>1
          <5>2. CASE n = k + 1
            BY <3>4, <5>2
          <5> QED BY <4>3, <5>1, <5>2
        <4> HIDE DEF g
        <4> QED BY <4>1, <4>4
      <3>8. (\A n \in 1 .. k : g[n] = f[n]) /\ g[k + 1] = 0
        <4>1. \A n \in 1 .. k + 1 : n = k + 1 => g[n] = 0
          BY <3>4, <3>6
        <4>2. \A n \in 1 .. k : n \in 1 .. k + 1 /\ Paid(n)' = Paid(n)
          BY <3>1, <3>3
        <4>3. k + 1 \in 1 .. k + 1
          BY <3>1
        <4> HIDE DEF f, g
        <4> QED BY <3>5, <3>6, <4>1, <4>2, <4>3
      <3>9. SumFunction(f) \in Int
        BY <3>2, PaymentsType, SumIsInteger
      <3> HIDE DEF f, g, k
      <3>10. SumFunction(g) = SumFunction(f) + g[k + 1]
        BY <3>1, <3>2, <3>7, <3>8, SumWithLast
      <3>11. SumFunction(g) = SumFunction(f)
        BY <3>8, <3>9, <3>10
      <3> QED BY <3>11 DEF f, g
    <2> QED BY <2>1, <2>2, <2>3, <2>4 DEF SerialInv
  <1>3. CASE IssueFails
    <2>1. pc = "issue" /\ UNCHANGED <<prog, firedAt, clock, rest, line>> /\ pc' = "step"
      BY <1>3 DEF IssueFails, history
    <2>2. (Executable' <=> Executable) /\ Payments' = Payments
      BY <2>1 DEF Executable, Payments, Paid, IsDone
    <2>3. ASSUME Executable PROVE ~scheduler_completed
      <3>1. line \in Instruction /\ line # Eof
        BY <2>1, TomasuloAssumption DEF IInv, TypeOK
      <3>2. PICK s \in Table(line.op) : TRUE
        BY <2>3, <3>1 DEF Executable
      <3>3. s \in Slot /\ rest[s].valid
        BY <1>3, <3>2, TableInSlot DEF IssueFails, Free
      <3> QED BY <3>3 DEF scheduler_completed
    <2>4. DriverInv'
      BY <2>1, <2>2, <2>3 DEF DriverInv, scheduler_completed
    <2> QED BY <2>1, <2>2, <2>4 DEF SerialInv
  <1>4. CASE StepAfterIssue \/ Drain
    <2>1. SchedulerStep /\ UNCHANGED <<prog, line>> /\ clock' = clock + 1
      BY <1>4 DEF StepAfterIssue, Drain, SchedulerStep
    <2>2. Executable' <=> Executable
      BY <2>1 DEF Executable
    <2>3. Executable => ~scheduler_completed
      BY <1>4 DEF StepAfterIssue, Drain, SerialInv, DriverInv
    <2>4. DriverInv'
      BY <1>4, <2>1 DEF StepAfterIssue, Drain, SerialInv, DriverInv
    <2>5. ASSUME Executable PROVE clock' <= 1 + SumFunction(Payments)'
      <3>1. 1 + SumFunction(Payments) <= SumFunction(Payments)'
        BY <2>1, <2>3, <2>5, StepPays
      <3>2. SumFunction(Payments) \in Int
        BY PaymentsType, SumIsInteger
      <3>3. SumFunction(Payments)' \in Int
        BY <2>1, <2>3, <2>5, StepPays
      <3>4. clock <= 1 + SumFunction(Payments)
        BY <2>5 DEF SerialInv
      <3> QED BY <1>0, <2>1, <3>1, <3>2, <3>3, <3>4
    <2> QED BY <2>2, <2>4, <2>5 DEF SerialInv
  <1>5. CASE SchedulerComplete
    <2>1. UNCHANGED <<prog, firedAt, clock, rest, line>> /\ pc = "drain" /\ pc' = "end"
      BY <1>5 DEF SchedulerComplete, history
    <2>2. (Executable' <=> Executable) /\ Payments' = Payments
      BY <2>1 DEF Executable, Payments, Paid, IsDone
    <2> QED BY <2>1, <2>2 DEF SerialInv, DriverInv
  <1>6. CASE UNCHANGED vars
    BY <1>6 DEF vars, SerialInv, DriverInv, Executable, Payments, Paid, IsDone, scheduler_completed
  <1> QED BY <1>1, <1>2, <1>3, <1>4, <1>5, <1>6 DEF Next

\* The clock never passes the sum of what a machine without overlap would take:
\* for every trace of lines that have a station the simulation is bounded,
\* whatever the sizes of the stations and the dependences of the trace.
THEOREM SerialBound == Spec => []NeverSlowerThanSerial
  <1>1. Init => SerialInv
    <2> SUFFICES ASSUME Init PROVE SerialInv
      OBVIOUS
    <2>1. DriverInv
      BY DEF Init, DriverInv
    <2>2. IInv /\ clock = 1 /\ 1 .. Len(prog) = {}
      BY InitIInv DEF Init
    <2>3. Payments \in [{} -> Int]
      BY <2>2, PaymentsType
    <2>4. SumFunction(Payments) = 0
      BY <2>3, SumOfNothing
    <2> QED BY <2>1, <2>2, <2>4 DEF SerialInv
  <1>2. IInv /\ SerialInv => NeverSlowerThanSerial
    <2> SUFFICES ASSUME IInv, SerialInv, Executable PROVE clock <= 1 + SumFunction(Prices)
      BY DEF NeverSlowerThanSerial, SerialTime, Prices, Executable
    <2>1. SumFunction(Payments) <= SumFunction(Prices)
      BY PaymentsType, SumIsMonotone
    <2>2. SumFunction(Payments) \in Int /\ SumFunction(Prices) \in Int /\ clock \in Nat
      BY PaymentsType, SumIsInteger DEF IInv, TypeOK
    <2> QED BY <2>1, <2>2 DEF SerialInv
  <1> QED BY <1>1, <1>2, NextSerial, Invariance, PTL DEF Spec

-----------------------------------------------------------------------------
(* The loops of SchedulerLoops compute the sets of the scheduler step.     *)

\* The slots of one station, and nobody else's.
IsStation(lo, hi) ==
    /\ lo \in Nat \ {0} /\ hi \in Nat /\ lo - 1 <= hi /\ hi <= NumSlots
    /\ \A s \in lo .. hi, t \in Slot : SameTable(s, t) <=> t \in lo .. hi

\* The stations partition the slots, in the order in which they are visited.
LEMMA Stations ==
  /\ RsType = "U" => IsStation(1, NumSlots)
  /\ RsType # "U" => /\ IsStation(1, LastAdd) /\ IsStation(LastAdd + 1, LastDiv)
                     /\ IsStation(LastDiv + 1, NumSlots)
  <1>1. CASE RsType = "U"
    BY <1>1, SlotIsNat DEF IsStation, SameTable, Slot
  <1>2. CASE RsType # "U"
    <2>1. /\ LastAdd \in Nat /\ LastDiv \in Nat /\ NumSlots \in Nat
          /\ LastAdd <= LastDiv /\ LastDiv <= NumSlots
      BY <1>2, TomasuloAssumption DEF LastAdd, LastDiv, NumSlots, FU
    <2>2. /\ Table("ADD") = 1 .. LastAdd /\ Table("DIV") = LastAdd + 1 .. LastDiv
          /\ Table("MEM") = LastDiv + 1 .. NumSlots
      BY <1>2 DEF Table, LastAdd, LastDiv
    <2>3. \A s, t : SameTable(s, t) <=> \/ s \in 1 .. LastAdd /\ t \in 1 .. LastAdd
                                        \/ s \in LastAdd + 1 .. LastDiv /\ t \in LastAdd + 1 .. LastDiv
                                        \/ s \in LastDiv + 1 .. NumSlots /\ t \in LastDiv + 1 .. NumSlots
      BY <1>2, <2>2 DEF SameTable, FU
    <2> QED BY <1>2, <2>1, <2>3 DEF IsStation, Slot
  <1> QED BY <1>1, <1>2

\* A loop leaves what satisfies the equation of its turns.
CompletionTurns(g, a, lo, hi, c) ==
    \A s \in lo - 1 .. hi : g[s] = IF s < lo THEN a ELSE CompleteOne(g[s - 1], s, c)

LEMMA CompletionLoop ==
  ASSUME NEW a, NEW c, NEW lo, NEW hi, IsStation(lo, hi), NEW g, CompletionTurns(g, a, lo, hi, c)
  PROVE  complete_insts(a, lo, hi, c) = g[hi]
  <1> DEFINE Turns(f) ==
               f = [s \in lo - 1 .. hi |-> IF s < lo THEN a ELSE CompleteOne(f[s - 1], s, c)]
             after == CHOOSE f : Turns(f)
             Bad == {s \in lo .. hi : after[s] # g[s]}
  <1>1. complete_insts(a, lo, hi, c) = after[hi]
    BY DEF complete_insts
  <1>2. Turns(after)
    <2> DEFINE G == [s \in lo - 1 .. hi |-> g[s]]
    <2>1. ASSUME NEW s \in lo - 1 .. hi
          PROVE  g[s] = IF s < lo THEN a ELSE CompleteOne(G[s - 1], s, c)
      <3>1. CASE s < lo
        BY <3>1 DEF CompletionTurns
      <3>2. CASE ~ (s < lo)
        <4>1. s - 1 \in lo - 1 .. hi
          BY <3>2 DEF IsStation
        <4> QED BY <3>2, <4>1 DEF CompletionTurns
      <3> QED BY <3>1, <3>2
    <2>2. Turns(G)
      BY <2>1
    <2> HIDE DEF G, Turns
    <2> QED BY <2>2
  <1> HIDE DEF after
  <1>3. \A s \in lo - 1 .. hi : after[s] = IF s < lo THEN a ELSE CompleteOne(after[s - 1], s, c)
    BY <1>2
  <1>4. \A s \in lo - 1 .. hi : g[s] = IF s < lo THEN a ELSE CompleteOne(g[s - 1], s, c)
    BY DEF CompletionTurns
  <1>5. ASSUME Bad # {} PROVE FALSE
    <2>1. Bad \in SUBSET Slot
      BY SlotIsNat DEF IsStation, Slot
    <2>2. PICK s \in Bad : IsFirst(s, Bad)
      <3> HIDE DEF Bad
      <3> QED BY <1>5, <2>1, FirstSlot
    <2>3. s \in Nat /\ s \in lo .. hi /\ after[s] # g[s] /\ s - 1 \in lo - 1 .. hi /\ ~ (s < lo)
      BY DEF IsStation
    <2>4. after[s - 1] = g[s - 1]
      <3>1. CASE s - 1 < lo
        BY <1>3, <1>4, <2>3, <3>1
      <3>2. CASE ~ (s - 1 < lo)
        <4>1. s - 1 \in lo .. hi /\ ~ (s <= s - 1)
          BY <2>3, <3>2 DEF IsStation
        <4> QED BY <2>2, <4>1 DEF IsFirst
      <3> QED BY <3>1, <3>2
    <2>5. after[s] = CompleteOne(after[s - 1], s, c) /\ g[s] = CompleteOne(g[s - 1], s, c)
      <3> HIDE DEF Bad, Turns
      <3> QED BY <1>3, <1>4, <2>3 DEF IsStation
    <2> QED BY <2>3, <2>4, <2>5
  <1>6. CASE hi < lo
    BY <1>1, <1>3, <1>4, <1>6 DEF IsStation
  <1>7. CASE ~ (hi < lo)
    <2>1. hi \in lo .. hi
      BY <1>7 DEF IsStation
    <2> QED BY <1>1, <1>5, <2>1
  <1> QED BY <1>6, <1>7

Unflagged(a) == [a EXCEPT !.fired = {}]
FiringTurns(g, a, lo, hi, c) ==
    \A s \in lo - 1 .. hi : g[s] = IF s < lo THEN Unflagged(a) ELSE FireOne(g[s - 1], s, c)

LEMMA FiringLoop ==
  ASSUME NEW a, NEW c, NEW lo, NEW hi, IsStation(lo, hi), NEW g, FiringTurns(g, a, lo, hi, c)
  PROVE  fire_ready(a, lo, hi, c) = g[hi]
  <1> DEFINE Turns(f) ==
               f = [s \in lo - 1 .. hi |-> IF s < lo THEN Unflagged(a) ELSE FireOne(f[s - 1], s, c)]
             after == CHOOSE f : Turns(f)
             Bad == {s \in lo .. hi : after[s] # g[s]}
  <1>1. fire_ready(a, lo, hi, c) = after[hi]
    BY DEF fire_ready, Unflagged
  <1>2. Turns(after)
    <2> DEFINE G == [s \in lo - 1 .. hi |-> g[s]]
    <2>1. ASSUME NEW s \in lo - 1 .. hi
          PROVE  g[s] = IF s < lo THEN Unflagged(a) ELSE FireOne(G[s - 1], s, c)
      <3>1. CASE s < lo
        BY <3>1 DEF FiringTurns
      <3>2. CASE ~ (s < lo)
        <4>1. s - 1 \in lo - 1 .. hi
          BY <3>2 DEF IsStation
        <4> QED BY <3>2, <4>1 DEF FiringTurns
      <3> QED BY <3>1, <3>2
    <2>2. Turns(G)
      BY <2>1
    <2> HIDE DEF G, Turns
    <2> QED BY <2>2
  <1> HIDE DEF after
  <1>3. \A s \in lo - 1 .. hi : after[s] = IF s < lo THEN Unflagged(a) ELSE FireOne(after[s - 1], s, c)
    BY <1>2
  <1>4. \A s \in lo - 1 .. hi : g[s] = IF s < lo THEN Unflagged(a) ELSE FireOne(g[s - 1], s, c)
    BY DEF FiringTurns
  <1>5. ASSUME Bad # {} PROVE FALSE
    <2>1. Bad \in SUBSET Slot
      BY SlotIsNat DEF IsStation, Slot
    <2>2. PICK s \in Bad : IsFirst(s, Bad)
      <3> HIDE DEF Bad
      <3> QED BY <1>5, <2>1, FirstSlot
    <2>3. s \in Nat /\ s \in lo .. hi /\ after[s] # g[s] /\ s - 1 \in lo - 1 .. hi /\ ~ (s < lo)
      BY DEF IsStation
    <2>4. after[s - 1] = g[s - 1]
      <3>1. CASE s - 1 < lo
        BY <1>3, <1>4, <2>3, <3>1
      <3>2. CASE ~ (s - 1 < lo)
        <4>1. s - 1 \in lo .. hi /\ ~ (s <= s - 1)
          BY <2>3, <3>2 DEF IsStation
        <4> QED BY <2>2, <4>1 DEF IsFirst
      <3> QED BY <3>1, <3>2
    <2>5. after[s] = FireOne(after[s - 1], s, c) /\ g[s] = FireOne(g[s - 1], s, c)
      <3> HIDE DEF Bad, Turns
      <3> QED BY <1>3, <1>4, <2>3 DEF IsStation
    <2> QED BY <2>3, <2>4, <2>5
  <1>6. CASE hi < lo
    BY <1>1, <1>3, <1>4, <1>6 DEF IsStation
  <1>7. CASE ~ (hi < lo)
    <2>1. hi \in lo .. hi
      BY <1>7 DEF IsStation
    <2> QED BY <1>1, <1>5, <2>1
  <1> QED BY <1>6, <1>7

\* What is in a unit has found its operands: no source of it waits.  (So a
\* broadcast does not reach a slot that completes in the same cycle, and it
\* does not matter which of the two the loop visits first.)
FiredAreReady ==
    \A s \in Slot : rest[s].valid /\ rest[s].start_cycle > 0 => rest[s].src1 = -1 /\ rest[s].src2 = -1

LEMMA NextReady == IInv /\ FiredAreReady /\ [Next]_vars => FiredAreReady'
  <1> SUFFICES ASSUME IInv, FiredAreReady, [Next]_vars PROVE FiredAreReady'
    OBVIOUS
  <1>1. ASSUME NEW s \in Slot, Issue(s) PROVE FiredAreReady'
    <2>1. \A t \in Slot \ {s} : rest'[t] = rest[t]
      BY <1>1, IssueEffect DEF IInv
    <2>2. rest'[s].start_cycle = 0
      BY <1>1, IssueEffect DEF IInv
    <2> QED BY <2>1, <2>2 DEF FiredAreReady
  <1>2. ASSUME SchedulerStep PROVE FiredAreReady'
    <2>1. \A s \in Slot :
            /\ rest'[s].valid <=> rest[s].valid /\ s \notin Freed
            /\ rest'[s].start_cycle = IF s \in Fired THEN clock + 1 ELSE rest[s].start_cycle
            /\ rest[s].valid => /\ rest'[s].src1 = Woken(rest[s].src1, Freed)
                                /\ rest'[s].src2 = Woken(rest[s].src2, Freed)
      BY <1>2, StepEffect DEF IInv
    <2>2. \A s \in Fired : rest'[s].src1 = -1 /\ rest'[s].src2 = -1
      BY <1>2, StepEffect DEF IInv
    <2>3. Woken(-1, Freed) = -1
      BY DEF Woken
    <2> QED BY <2>1, <2>2, <2>3 DEF FiredAreReady
  <1>3. CASE UNCHANGED rest
    BY <1>3 DEF FiredAreReady
  <1> QED BY <1>1, <1>2, <1>3
          DEF Next, ReadLine, IssueFails, StepAfterIssue, Drain, SchedulerComplete, vars

\* What complete_insts has left when its turns have come to slot s.
FreedUpTo(s) == Freed \cap 1 .. s

CompletedUpTo(s) ==
    [rest |-> AfterBroadcast(FreedUpTo(s)),
     rat  |-> RatAfter(FreedUpTo(s)),
     num  |-> Cardinality(FreedUpTo(s))]

\* The counter of a loop over the slots.
LEMMA OneMoreSlot ==
  ASSUME NEW S \in SUBSET Slot, NEW s \in Slot
  PROVE  /\ s \notin S => S \cap 1 .. s = S \cap 1 .. s - 1
         /\ s \in S => /\ S \cap 1 .. s = (S \cap 1 .. s - 1) \cup {s}
                       /\ Cardinality(S \cap 1 .. s) = Cardinality(S \cap 1 .. s - 1) + 1
         /\ s \notin S \cap 1 .. s - 1
         /\ Cardinality(S \cap 1 .. s - 1) \in Nat
  <1>1. s \in Nat /\ s >= 1 /\ Slot \subseteq Nat
    BY SlotIsNat DEF Slot
  <1>2. \A t \in Slot : t \in 1 .. s <=> t = s \/ t \in 1 .. s - 1
    BY <1>1 DEF Slot
  <1>3. s \notin 1 .. s - 1
    BY <1>1
  <1>4. /\ s \notin S => S \cap 1 .. s = S \cap 1 .. s - 1
        /\ s \in S => S \cap 1 .. s = (S \cap 1 .. s - 1) \cup {s}
    BY <1>2
  <1>5. IsFiniteSet(S \cap 1 .. s - 1)
    <2>1. IsFiniteSet(Slot)
      BY SlotIsNat, FS_Interval DEF Slot
    <2> QED BY <2>1, FS_Subset
  <1> QED BY <1>3, <1>4, <1>5, FS_AddElement, FS_CardinalityType

\* The guard of complete_insts, and what it does to the slot and to the others.
Runs(e, c) == ~e.valid \/ e.start_cycle <= 0 \/ c - e.start_cycle < get_inst_latency(e.op)

LEMMA OneCompletion ==
  ASSUME NEW a, NEW s, NEW c
  PROVE  /\ Runs(a.rest[s], c) => CompleteOne(a, s, c) = a
         /\ ~Runs(a.rest[s], c) =>
              CompleteOne(a, s, c) =
                [rest |-> [UpdateSources(a.rest, s) EXCEPT ![s].valid = FALSE],
                 rat  |-> ClearAlias(a.rat, a.rest[s].dest, s),
                 num  |-> a.num + 1]
  BY Zenon DEF CompleteOne, Runs

\* An entry with other sources, field by field.
LEMMA FieldsOfEntry ==
  ASSUME NEW old \in Entry, NEW v, NEW w, NEW x, x = [old EXCEPT !.src1 = v, !.src2 = w]
  PROVE  x = [valid |-> old.valid, op |-> old.op, dest |-> old.dest, src1 |-> v, src2 |-> w,
              start_cycle |-> old.start_cycle]
  BY DEF Entry

\* Broadcasting the tag of one more slot, to an entry it is not the tag of.
LEMMA EntryWoken ==
  ASSUME TypeOK, NEW D \in SUBSET Slot, NEW s \in Slot, NEW t \in Slot, rest[t].valid, t # s, t \notin D
  PROVE  UpdateSources(AfterBroadcast(D), s)[t] = AfterBroadcast(D \cup {s})[t]
  <1> DEFINE old == rest[t]
             E == D \cup {s}
  <1>1. old \in Entry
    BY DEF TypeOK
  <1>2. AfterBroadcast(D)[t] = [old EXCEPT !.valid = TRUE, !.src1 = Woken(@, D), !.src2 = Woken(@, D)]
    BY DEF AfterBroadcast
  <1>3. AfterBroadcast(E)[t] = [old EXCEPT !.valid = TRUE, !.src1 = Woken(@, E), !.src2 = Woken(@, E)]
    BY DEF AfterBroadcast
  <1>4. \A tag : Woken(tag, E) = IF Woken(tag, D) = s THEN -1 ELSE Woken(tag, D)
    BY SlotIsNat DEF Woken
  <1> HIDE DEF old, E
  <1>5. /\ AfterBroadcast(D)[t] = [valid |-> TRUE, op |-> old.op, dest |-> old.dest,
                                   src1 |-> Woken(old.src1, D), src2 |-> Woken(old.src2, D),
                                   start_cycle |-> old.start_cycle]
        /\ AfterBroadcast(E)[t] = [valid |-> TRUE, op |-> old.op, dest |-> old.dest,
                                   src1 |-> Woken(old.src1, E), src2 |-> Woken(old.src2, E),
                                   start_cycle |-> old.start_cycle]
    BY <1>1, <1>2, <1>3 DEF Entry
  <1>6. UpdateSources(AfterBroadcast(D), s)[t] =
          [AfterBroadcast(D)[t] EXCEPT !.src1 = IF @ = s THEN -1 ELSE @,
                                       !.src2 = IF @ = s THEN -1 ELSE @]
    <2>1. AfterBroadcast(D)[t].valid
      BY <1>5
    <2> QED BY <2>1, Zenon DEF UpdateSources
  <1> DEFINE mid == AfterBroadcast(D)[t]
             w1 == Woken(old.src1, D)
             w2 == Woken(old.src2, D)
  <1>7. mid = [valid |-> TRUE, op |-> old.op, dest |-> old.dest, src1 |-> w1, src2 |-> w2,
               start_cycle |-> old.start_cycle]
    BY <1>5
  <1> DEFINE v1 == IF w1 = s THEN -1 ELSE w1
             v2 == IF w2 = s THEN -1 ELSE w2
  <1>8. Woken(old.src1, E) = v1 /\ Woken(old.src2, E) = v2
    BY <1>4
  <1>9. /\ UpdateSources(AfterBroadcast(D), s)[t] = [mid EXCEPT !.src1 = v1, !.src2 = v2]
    <2>1. mid.src1 = w1 /\ mid.src2 = w2
      <3> HIDE DEF mid, w1, w2
      <3> QED BY <1>7
    <2> QED BY <1>6, <2>1
  <1> HIDE DEF mid, w1, w2, v1, v2
  <1>10. [mid EXCEPT !.src1 = v1, !.src2 = v2]
          = [valid |-> TRUE, op |-> old.op, dest |-> old.dest, src1 |-> v1, src2 |-> v2,
             start_cycle |-> old.start_cycle]
    <2>1. mid \in Entry /\ old \in Entry
      BY <1>1, <1>5, SlotIsNat DEF mid, Entry, Woken, Tag
    <2>2. /\ mid.valid = TRUE /\ mid.op = old.op /\ mid.dest = old.dest
          /\ mid.start_cycle = old.start_cycle
      BY <1>7
    <2> DEFINE x == [mid EXCEPT !.src1 = v1, !.src2 = v2]
    <2>3. x = [valid |-> mid.valid, op |-> mid.op, dest |-> mid.dest, src1 |-> v1, src2 |-> v2,
               start_cycle |-> mid.start_cycle]
      BY <2>1, FieldsOfEntry, Zenon
    <2> QED BY <2>2, <2>3, Zenon
  <1> QED BY <1>5, <1>8, <1>9, <1>10 DEF E

\* What the turn of a completed slot makes of the stations.
LEMMA SlotFreed ==
  ASSUME TypeOK, FiredAreReady, NEW D \in SUBSET Freed, NEW s \in Freed, s \notin D
  PROVE  [UpdateSources(AfterBroadcast(D), s) EXCEPT ![s].valid = FALSE] = AfterBroadcast(D \cup {s})
  <1> DEFINE E == D \cup {s}
             mid == UpdateSources(AfterBroadcast(D), s)
             new == [mid EXCEPT ![s].valid = FALSE]
  <1>1. rest \in [Slot -> Entry] /\ Freed \subseteq Slot
    BY DEF TypeOK, Freed, Completing
  <1>2. DOMAIN mid = Slot /\ DOMAIN AfterBroadcast(E) = Slot
    BY Zenon DEF UpdateSources, AfterBroadcast
  <1> HIDE DEF mid
  <1>3. /\ new = [t \in Slot |-> IF t = s THEN [mid[s] EXCEPT !.valid = FALSE] ELSE mid[t]]
    BY <1>1, <1>2
  <1>4. AfterBroadcast(E) = [t \in Slot |-> AfterBroadcast(E)[t]]
    BY DEF AfterBroadcast
  <1>5. ASSUME NEW t \in Freed
        PROVE  /\ AfterBroadcast(D)[t] = [rest[t] EXCEPT !.valid = t \notin D]
               /\ AfterBroadcast(E)[t] = [rest[t] EXCEPT !.valid = t \notin E]
    <2>1. t \in Slot /\ rest[t].valid /\ rest[t].src1 = -1 /\ rest[t].src2 = -1 /\ rest[t] \in Entry
      BY <1>1, FreedSlot DEF FiredAreReady
    <2>2. \A F : Woken(-1, F) = -1
      BY DEF Woken
    <2> DEFINE old == rest[t]
    <2>3. \A F : AfterBroadcast(F)[t] = [old EXCEPT !.valid = t \notin F, !.src1 = Woken(@, F), !.src2 = Woken(@, F)]
      BY <2>1 DEF AfterBroadcast
    <2>4. old \in Entry /\ old.src1 = -1 /\ old.src2 = -1
      BY <2>1
    <2> HIDE DEF old, E
    <2>5. \A F : [old EXCEPT !.valid = t \notin F, !.src1 = -1, !.src2 = -1] = [old EXCEPT !.valid = t \notin F]
      BY <2>4 DEF Entry
    <2>6. \A F : AfterBroadcast(F)[t] = [old EXCEPT !.valid = t \notin F, !.src1 = -1, !.src2 = -1]
      BY <2>2, <2>3, <2>4, Zenon
    <2>7. \A F : AfterBroadcast(F)[t] = [old EXCEPT !.valid = t \notin F]
      BY <2>5, <2>6, Zenon
    <2> QED BY <2>7 DEF old
  <1>6. ASSUME NEW t \in Freed PROVE mid[t] = AfterBroadcast(D)[t]
    <2> DEFINE old == AfterBroadcast(D)[t]
    <2>1. t \in Slot /\ rest[t] \in Entry /\ rest[t].src1 = -1 /\ rest[t].src2 = -1
      BY <1>1, FreedSlot DEF FiredAreReady
    <2>2. old \in Entry /\ old.src1 = -1 /\ old.src2 = -1
      BY <1>5, <2>1 DEF Entry
    <2>3. mid[t] = IF old.valid THEN [old EXCEPT !.src1 = IF @ = s THEN -1 ELSE @,
                                                 !.src2 = IF @ = s THEN -1 ELSE @] ELSE old
      BY <2>1 DEF mid, UpdateSources
    <2> HIDE DEF old
    <2>4. s # -1
      BY <1>1, SlotIsNat
    <2>5. [old EXCEPT !.src1 = -1, !.src2 = -1] = old
      BY <2>2 DEF Entry
    <2> QED BY <2>2, <2>3, <2>4, <2>5 DEF old
  <1>7. ASSUME NEW t \in Slot PROVE new[t] = AfterBroadcast(E)[t]
    <2>1. CASE t = s
      <3>1. mid[s] = AfterBroadcast(D)[s] /\ rest[s] \in Entry
        BY <1>1, <1>6
      <3>2. [[rest[s] EXCEPT !.valid = s \notin D] EXCEPT !.valid = FALSE] = [rest[s] EXCEPT !.valid = FALSE]
        BY <3>1 DEF Entry
      <3>3. AfterBroadcast(E)[s] = [rest[s] EXCEPT !.valid = FALSE]
        BY <1>5
      <3> QED BY <1>3, <1>5, <2>1, <3>1, <3>2, <3>3
    <2>2. CASE t \in D
      <3>1. t # s /\ t \in Freed /\ t \in E
        BY <2>2
      <3>2. mid[t] = [rest[t] EXCEPT !.valid = FALSE] /\ AfterBroadcast(E)[t] = [rest[t] EXCEPT !.valid = FALSE]
        BY <1>5, <1>6, <2>2, <3>1
      <3> QED BY <1>3, <3>1, <3>2
    <2>3. CASE t \notin E /\ ~rest[t].valid
      <3>1. AfterBroadcast(D)[t] = rest[t] /\ AfterBroadcast(E)[t] = rest[t]
        BY <2>3 DEF AfterBroadcast
      <3>2. mid[t] = rest[t]
        BY <2>3, <3>1 DEF UpdateSources, mid
      <3> QED BY <1>3, <2>3, <3>1, <3>2
    <2>4. CASE t \notin E /\ rest[t].valid
      <3>1. mid[t] = AfterBroadcast(E)[t]
        BY <1>1, <2>4, EntryWoken DEF mid
      <3> QED BY <1>3, <2>4, <3>1
    <2> QED BY <2>1, <2>2, <2>3, <2>4
  <1>8. new = [t \in Slot |-> new[t]]
    BY <1>3
  <1> HIDE DEF new
  <1>9. new = AfterBroadcast(E)
    BY <1>4, <1>7, <1>8
  <1> QED BY <1>9 DEF new, mid

\* A turn of complete_insts frees its slot, if that completes, and wakes its
\* readers.
LEMMA CompletionTurn ==
  ASSUME TypeOK, FiredAreReady, NEW s \in Slot
  PROVE  CompleteOne(CompletedUpTo(s - 1), s, clock + 1) = CompletedUpTo(s)
  <1> DEFINE D == FreedUpTo(s - 1)
             e == AfterBroadcast(D)[s]
             a == CompletedUpTo(s - 1)
  <1>1. /\ rest \in [Slot -> Entry] /\ rat \in [Reg -> Tag] /\ Freed \in SUBSET Slot
    BY DEF TypeOK, Freed, Completing
  <1>2. s \notin D /\ D \subseteq Freed
    BY <1>1, OneMoreSlot DEF FreedUpTo
  <1>3. e.valid = rest[s].valid /\ e.op = rest[s].op /\ e.start_cycle = rest[s].start_cycle
        /\ e.dest = rest[s].dest
    BY <1>1, <1>2 DEF AfterBroadcast, Entry
  <1>4. a.rest[s] = e /\ a.rest = AfterBroadcast(D) /\ a.rat = RatAfter(D) /\ a.num = Cardinality(D)
    BY DEF CompletedUpTo
  <1>5. s \in Freed <=> ~Runs(e, clock + 1)
    <2>1. /\ clock \in Nat /\ rest[s].start_cycle \in Nat /\ get_inst_latency(rest[s].op) \in Nat
      BY <1>1, LatencyType DEF TypeOK, Entry
    <2>2. s \in Freed <=> /\ rest[s].valid /\ rest[s].start_cycle > 0
                          /\ clock + 1 - rest[s].start_cycle >= get_inst_latency(rest[s].op)
      BY FreedSlot
    <2> HIDE DEF e
    <2> QED BY <1>3, <2>1, <2>2 DEF Runs
  <1>6. CASE s \notin Freed
    <2>1. CompleteOne(a, s, clock + 1) = a
      <3> HIDE DEF a, e, D
      <3> QED BY <1>4, <1>5, <1>6, OneCompletion
    <2>2. FreedUpTo(s) = D
      BY <1>1, <1>6, OneMoreSlot DEF FreedUpTo
    <2> QED BY <2>1, <2>2 DEF CompletedUpTo
  <1>7. CASE s \in Freed
    <2>1. FreedUpTo(s) = D \cup {s} /\ Cardinality(FreedUpTo(s)) = Cardinality(D) + 1
      BY <1>1, <1>7, OneMoreSlot, Zenon DEF FreedUpTo
    <2>2. CompleteOne(a, s, clock + 1) =
            [rest |-> [UpdateSources(AfterBroadcast(D), s) EXCEPT ![s].valid = FALSE],
             rat |-> ClearAlias(RatAfter(D), rest[s].dest, s), num |-> Cardinality(D) + 1]
      <3> HIDE DEF a, e, D
      <3> QED BY <1>3, <1>4, <1>5, <1>7, OneCompletion
    <2>3. ClearAlias(RatAfter(D), rest[s].dest, s) = RatAfter(D \cup {s})
      <3>1. s # -1
        BY SlotIsNat
      <3>2. \A r \in Reg : (IF r = rest[s].dest /\ RatAfter(D)[r] = s THEN -1 ELSE RatAfter(D)[r])
                            = IF rat[r] \in D \cup {s} /\ rest[rat[r]].dest = r THEN -1 ELSE rat[r]
        BY <1>2, <3>1 DEF RatAfter
      <3> QED BY <3>2 DEF ClearAlias, RatAfter
    <2>4. [UpdateSources(AfterBroadcast(D), s) EXCEPT ![s].valid = FALSE] = AfterBroadcast(D \cup {s})
      BY <1>2, <1>7, SlotFreed
    <2> HIDE DEF D, a
    <2>5. CompleteOne(a, s, clock + 1) = CompletedUpTo(s)
      BY <2>1, <2>2, <2>3, <2>4 DEF CompletedUpTo
    <2> QED BY <2>5 DEF a
  <1> QED BY <1>6, <1>7

\* A pass over one station goes from what the stations before it left to what
\* its own slots leave.
CompletesStation(p, lo, hi) ==
    complete_insts(CompletedUpTo(p), lo, hi, clock + 1) = CompletedUpTo(hi)

LEMMA CompletionPass ==
  ASSUME TypeOK, FiredAreReady, NEW p, NEW lo, NEW hi, p = lo - 1, IsStation(lo, hi)
  PROVE  CompletesStation(p, lo, hi)
  <1> DEFINE a == CompletedUpTo(p)
             g == [s \in lo - 1 .. hi |-> CompletedUpTo(s)]
  <1>1. ASSUME NEW s \in lo - 1 .. hi
        PROVE  g[s] = IF s < lo THEN a ELSE CompleteOne(g[s - 1], s, clock + 1)
    <2>1. CASE s < lo
      <3>1. s = lo - 1
        BY <2>1 DEF IsStation
      <3> QED BY <2>1, <3>1
    <2>2. CASE ~ (s < lo)
      <3>1. s \in Slot /\ s - 1 \in lo - 1 .. hi
        BY <2>2, SlotIsNat DEF IsStation, Slot
      <3>2. g[s - 1] = CompletedUpTo(s - 1)
        BY <3>1
      <3>3. CompleteOne(CompletedUpTo(s - 1), s, clock + 1) = CompletedUpTo(s)
        BY <3>1, CompletionTurn
      <3> QED BY <2>2, <3>2, <3>3
    <2> QED BY <2>1, <2>2
  <1>3. hi \in lo - 1 .. hi
    BY DEF IsStation
  <1>4. g[hi] = CompletedUpTo(hi)
    BY <1>3
  <1> HIDE DEF g, a
  <1>5. CompletionTurns(g, a, lo, hi, clock + 1)
    BY <1>1 DEF CompletionTurns
  <1>6. complete_insts(a, lo, hi, clock + 1) = g[hi]
    BY <1>5, CompletionLoop
  <1> QED BY <1>4, <1>6 DEF a, CompletesStation

LEMMA CompletionResult == TypeOK /\ FiredAreReady => CompletionLoopIsSetwise
  <1> SUFFICES ASSUME TypeOK, FiredAreReady PROVE CompletionLoopIsSetwise
    OBVIOUS
  <1> DEFINE start == [rest |-> rest, rat |-> rat, num |-> 0]
  <1>1. Freed \subseteq Slot /\ rest \in [Slot -> Entry] /\ rat \in [Reg -> Tag]
    BY DEF TypeOK, Freed, Completing
  <1>2. start = CompletedUpTo(0)
    <2>1. 1 .. 0 = {}
      OBVIOUS
    <2>2. FreedUpTo(0) = {}
      BY <2>1 DEF FreedUpTo
    <2>3. RatAfter({}) = rat
      BY <1>1 DEF RatAfter
    <2>4. AfterBroadcast({}) = rest
      <3>1. ASSUME NEW t \in Slot
            PROVE  (IF rest[t].valid THEN [rest[t] EXCEPT !.valid = t \notin {}, !.src1 = Woken(@, {}),
                                                          !.src2 = Woken(@, {})]
                    ELSE rest[t]) = rest[t]
        <4>1. rest[t] \in Entry /\ \A tag : Woken(tag, {}) = tag
          BY <1>1 DEF Woken
        <4> QED BY <4>1 DEF Entry
      <3> QED BY <1>1, <3>1 DEF AfterBroadcast
    <2> QED BY <2>2, <2>3, <2>4, FS_EmptySet DEF CompletedUpTo
  <1>3. CompletedUpTo(NumSlots) =
          [rest |-> Cleared, rat |-> RatAfter(Freed), num |-> Cardinality(Freed)]
    <2>1. FreedUpTo(NumSlots) = Freed
      BY <1>1 DEF FreedUpTo, Slot
    <2> QED BY <2>1 DEF CompletedUpTo, Cleared
  <1> HIDE DEF start
  <1>4. CASE RsType = "U"
    <2>1. ClearCompleted(clock + 1) = complete_insts(start, 1, NumSlots, clock + 1)
      BY <1>4 DEF ClearCompleted, start
    <2>2. complete_insts(start, 1, NumSlots, clock + 1) = CompletedUpTo(NumSlots)
      BY <1>2, <1>4, Stations, CompletionPass DEF CompletesStation
    <2> QED BY <1>3, <2>1, <2>2 DEF CompletionLoopIsSetwise
  <1>5. CASE RsType # "U"
    <2> DEFINE add == complete_insts(start, 1, LastAdd, clock + 1)
               div == complete_insts(add, LastAdd + 1, LastDiv, clock + 1)
    <2>1. ClearCompleted(clock + 1) = complete_insts(div, LastDiv + 1, NumSlots, clock + 1)
      BY <1>5 DEF ClearCompleted, start
    <2>2. /\ IsStation(1, LastAdd) /\ IsStation(LastAdd + 1, LastDiv) /\ IsStation(LastDiv + 1, NumSlots)
          /\ LastAdd + 1 - 1 = LastAdd /\ LastDiv + 1 - 1 = LastDiv /\ 1 - 1 = 0
      BY <1>5, Stations DEF IsStation
    <2>3. add = CompletedUpTo(LastAdd)
      BY <1>2, <2>2, CompletionPass DEF CompletesStation
    <2>4. /\ CompletesStation(LastAdd, LastAdd + 1, LastDiv)
          /\ CompletesStation(LastDiv, LastDiv + 1, NumSlots)
      <3> DEFINE div1 == LastAdd + 1
                 mem1 == LastDiv + 1
      <3>1. IsStation(div1, LastDiv) /\ IsStation(mem1, NumSlots)
        BY <2>2, Zenon
      <3>2. LastAdd = div1 - 1 /\ LastDiv = mem1 - 1
        BY <2>2 DEF IsStation
      <3> HIDE DEF div1, mem1
      <3>3. CompletesStation(LastAdd, div1, LastDiv) /\ CompletesStation(LastDiv, mem1, NumSlots)
        BY <3>1, <3>2, CompletionPass
      <3> QED BY <3>3 DEF div1, mem1
    <2> HIDE DEF add
    <2>5. div = CompletedUpTo(LastDiv)
      BY <2>3, <2>4, Zenon DEF CompletesStation
    <2> HIDE DEF div
    <2>6. complete_insts(div, LastDiv + 1, NumSlots, clock + 1) = CompletedUpTo(NumSlots)
      BY <2>4, <2>5, Zenon DEF CompletesStation
    <2> QED BY <1>3, <2>1, <2>6 DEF CompletionLoopIsSetwise
  <1> QED BY <1>4, <1>5

\* What fire_ready has left when its turns on the station from lo have come to
\* slot s: fired holds the units of the slots it has started in this station.
FlaggedUpTo(lo, s) ==
    [rest  |-> AfterFire(Cleared, Fired \cap 1 .. s, clock + 1),
     num   |-> Cardinality(Fired \cap 1 .. s),
     fired |-> {Cleared[t].op : t \in Fired \cap lo .. s}]

\* The guard of fire_ready, and what it does to the slot.
Waits(e, fired) ==
    ~e.valid \/ e.start_cycle > 0 \/ e.src1 # -1 \/ e.src2 # -1 \/ e.op \notin FU \ fired

LEMMA OneFiring ==
  ASSUME NEW a, NEW s, NEW c
  PROVE  /\ Waits(a.rest[s], a.fired) => FireOne(a, s, c) = a
         /\ ~Waits(a.rest[s], a.fired) =>
              FireOne(a, s, c) =
                [a EXCEPT !.rest[s].start_cycle = c, !.num = @ + 1, !.fired = @ \cup {a.rest[s].op}]
  BY Zenon DEF FireOne, Waits

LEMMA ClearedType == TypeOK => Cleared \in [Slot -> Entry]
  <1> SUFFICES ASSUME TypeOK, NEW t \in Slot
               PROVE  (IF rest[t].valid
                       THEN [rest[t] EXCEPT !.valid = t \notin Freed, !.src1 = Woken(@, Freed),
                                            !.src2 = Woken(@, Freed)]
                       ELSE rest[t]) \in Entry
    BY Zenon DEF Cleared, AfterBroadcast
  <1>1. rest[t] \in Entry /\ \A tag \in Tag : Woken(tag, Freed) \in Tag
    BY DEF TypeOK, Woken, Tag
  <1> QED BY <1>1 DEF Entry

\* A slot fires exactly if the flag of its unit is still down when its turn comes.
LEMMA FlagPicksFirst ==
  ASSUME TypeOK, NEW lo, NEW hi, IsStation(lo, hi), NEW s \in lo .. hi
  PROVE  s \in Fired <=> ~Waits(Cleared[s], {Cleared[t].op : t \in Fired \cap lo .. s - 1})
  <1> DEFINE flags == {Cleared[t].op : t \in Fired \cap lo .. s - 1}
             Contenders(u) == {t \in Slot : IsReady(Cleared[t]) /\ Rivals(Cleared, u, t)}
  <1>1. s \in Slot /\ s \in Nat /\ lo .. hi \subseteq Slot /\ Slot \subseteq Nat /\ lo \in Nat
    BY SlotIsNat DEF IsStation, Slot
  <1>2. \A u \in Slot : u \in Fired <=> IsReady(Cleared[u]) /\ IsFirst(u, Contenders(u))
    BY DEF Fired, Firing
  <1>3. \A u \in lo .. hi, t \in Slot : SameTable(u, t) <=> t \in lo .. hi
    BY DEF IsStation
  <1>4. ~Waits(Cleared[s], flags) <=> IsReady(Cleared[s]) /\ Cleared[s].op \notin flags
    <2>1. Cleared[s].start_cycle \in Nat
      BY <1>1, ClearedType DEF Entry
    <2> HIDE DEF flags
    <2> QED BY <2>1 DEF Waits, IsReady
  <1>5. ASSUME IsFirst(s, Contenders(s)), Cleared[s].op \in flags PROVE FALSE
    <2>1. PICK t \in Fired \cap lo .. s - 1 : Cleared[s].op = Cleared[t].op
      BY <1>5
    <2>2. t \in Slot /\ t \in lo .. hi /\ ~ (s <= t)
      BY <1>1, <2>1 DEF IsStation
    <2>3. t \in Contenders(s)
      BY <1>2, <1>3, <2>1, <2>2 DEF Rivals
    <2> QED BY <1>5, <2>2, <2>3 DEF IsFirst
  <1>6. ASSUME IsReady(Cleared[s]), Cleared[s].op \notin flags PROVE IsFirst(s, Contenders(s))
    <2>1. s \in Contenders(s)
      BY <1>1, <1>3, <1>6 DEF Rivals
    <2>2. PICK t \in Contenders(s) : IsFirst(t, Contenders(s))
      <3>1. Contenders(s) \in SUBSET Slot
        OBVIOUS
      <3> HIDE DEF Contenders
      <3> QED BY <2>1, <3>1, FirstSlot
    <2>3. t \in Slot /\ t \in lo .. hi /\ IsReady(Cleared[t]) /\ Cleared[t].op = Cleared[s].op
      BY <1>3, <2>2 DEF Rivals
    <2>4. Contenders(t) = Contenders(s)
      BY <1>3, <2>3 DEF Rivals
    <2>5. t \in Fired
      BY <1>2, <2>2, <2>3, <2>4
    <2>6. t \notin lo .. s - 1
      BY <1>6, <2>3, <2>5
    <2>7. t <= s
      BY <2>1, <2>2 DEF IsFirst
    <2>8. t = s
      BY <1>1, <2>3, <2>6, <2>7
    <2> QED BY <2>2, <2>8
  <1> HIDE DEF flags, Contenders
  <1>7. s \in Fired <=> ~Waits(Cleared[s], flags)
    BY <1>1, <1>2, <1>4, <1>5, <1>6
  <1> QED BY <1>7 DEF flags

\* A turn of fire_ready starts its slot, if that is its unit's turn to start.
LEMMA FiringTurn ==
  ASSUME TypeOK, NEW lo, NEW hi, IsStation(lo, hi), NEW s \in lo .. hi
  PROVE  FireOne(FlaggedUpTo(lo, s - 1), s, clock + 1) = FlaggedUpTo(lo, s)
  <1> DEFINE D == Fired \cap 1 .. s - 1
             a == FlaggedUpTo(lo, s - 1)
             e == Cleared[s]
             c == clock + 1
  <1>1. s \in Slot /\ s \in Nat /\ lo \in Nat \ {0} /\ Fired \in SUBSET Slot /\ s \in 1 .. s
    BY SlotIsNat DEF IsStation, Slot, Fired, Firing
  <1>2. s \notin D
    BY <1>1, OneMoreSlot, Zenon
  <1>3. Cleared \in [Slot -> Entry]
    BY ClearedType
  <1>4. /\ a.rest = AfterFire(Cleared, D, c) /\ a.num = Cardinality(D)
        /\ a.fired = {Cleared[t].op : t \in Fired \cap lo .. s - 1}
        /\ a = [rest |-> a.rest, num |-> a.num, fired |-> a.fired]
    BY DEF FlaggedUpTo
  <1>5. a.rest[s] = e
    BY <1>1, <1>2, <1>4 DEF AfterFire
  <1>6. s \in Fired <=> ~Waits(a.rest[s], a.fired)
    <2>1. s \in Fired <=> ~Waits(e, {Cleared[t].op : t \in Fired \cap lo .. s - 1})
      BY FlagPicksFirst, Zenon
    <2> HIDE DEF a, e
    <2> QED BY <1>4, <1>5, <2>1, Zenon
  <1>7. lo .. s = (lo .. s - 1) \cup {s}
    BY <1>1 DEF IsStation
  <1>8. CASE s \notin Fired
    <2>1. FireOne(a, s, c) = a
      <3> HIDE DEF a
      <3> QED BY <1>6, <1>8, OneFiring
    <2>2. Fired \cap 1 .. s = D /\ Fired \cap lo .. s = Fired \cap lo .. s - 1
      BY <1>1, <1>7, <1>8, OneMoreSlot
    <2> QED BY <2>1, <2>2 DEF FlaggedUpTo
  <1>9. CASE s \in Fired
    <2>1. /\ Fired \cap 1 .. s = D \cup {s} /\ Cardinality(Fired \cap 1 .. s) = Cardinality(D) + 1
          /\ Fired \cap lo .. s = (Fired \cap lo .. s - 1) \cup {s}
      <3>1. /\ Fired \cap 1 .. s = D \cup {s} /\ Cardinality(Fired \cap 1 .. s) = Cardinality(D) + 1
        BY <1>1, <1>9, OneMoreSlot, Zenon
      <3>2. Fired \cap lo .. s = (Fired \cap lo .. s - 1) \cup {s}
        BY <1>7, <1>9
      <3> QED BY <3>1, <3>2
    <2>2. FireOne(a, s, c) =
            [a EXCEPT !.rest[s].start_cycle = c, !.num = @ + 1, !.fired = @ \cup {e.op}]
      <3> HIDE DEF a, e
      <3> QED BY <1>5, <1>6, <1>9, OneFiring
    <2>3. FireOne(a, s, c) =
            [rest |-> [a.rest EXCEPT ![s].start_cycle = c], num |-> a.num + 1,
             fired |-> a.fired \cup {e.op}]
      <3> DEFINE r == a.rest
                 n == a.num
                 f == a.fired
      <3>1. a = [rest |-> r, num |-> n, fired |-> f]
        BY <1>4
      <3> HIDE DEF a, e, r, n, f
      <3>2. FireOne(a, s, c) =
              [a EXCEPT !.rest = [r EXCEPT ![s].start_cycle = c], !.num = n + 1, !.fired = f \cup {e.op}]
        BY <2>2 DEF r, n, f
      <3> QED BY <3>1, <3>2 DEF r, n, f
    <2>4. [a.rest EXCEPT ![s].start_cycle = c] = AfterFire(Cleared, D \cup {s}, c)
      <3>1. [AfterFire(Cleared, D, c) EXCEPT ![s].start_cycle = c]
              = [t \in Slot |-> IF t = s THEN [Cleared[s] EXCEPT !.start_cycle = c]
                                ELSE AfterFire(Cleared, D, c)[t]]
        BY <1>1, <1>2 DEF AfterFire
      <3>2. \A t \in Slot : (IF t = s THEN [Cleared[s] EXCEPT !.start_cycle = c]
                             ELSE AfterFire(Cleared, D, c)[t])
                            = IF t \in D \cup {s} THEN [Cleared[t] EXCEPT !.start_cycle = c] ELSE Cleared[t]
        BY DEF AfterFire
      <3> HIDE DEF a, D, c
      <3> QED BY <1>4, <3>1, <3>2 DEF AfterFire
    <2>5. {Cleared[t].op : t \in Fired \cap lo .. s} = a.fired \cup {e.op}
      <3> HIDE DEF a
      <3> QED BY <1>4, <2>1
    <2>6. FlaggedUpTo(lo, s) = [rest |-> AfterFire(Cleared, D \cup {s}, c),
                                num |-> Cardinality(D) + 1, fired |-> a.fired \cup {e.op}]
      <3> HIDE DEF a, D, e
      <3> QED BY <2>1, <2>5 DEF FlaggedUpTo
    <2> HIDE DEF a, D, e
    <2>7. FireOne(a, s, c) = FlaggedUpTo(lo, s)
      BY <1>4, <2>3, <2>4, <2>6
    <2> QED BY <2>7 DEF a
  <1> QED BY <1>8, <1>9

FiresStation(a, lo, hi) == fire_ready(a, lo, hi, clock + 1) = FlaggedUpTo(lo, hi)

LEMMA FiringPass ==
  ASSUME TypeOK, NEW lo, NEW hi, IsStation(lo, hi), NEW before, before = lo - 1,
         NEW a, Unflagged(a) = FlaggedUpTo(lo, before)
  PROVE  FiresStation(a, lo, hi)
  <1> DEFINE g == [s \in lo - 1 .. hi |-> FlaggedUpTo(lo, s)]
  <1>1. ASSUME NEW s \in lo - 1 .. hi
        PROVE  g[s] = IF s < lo THEN Unflagged(a) ELSE FireOne(g[s - 1], s, clock + 1)
    <2>1. CASE s < lo
      <3>1. s = lo - 1
        BY <2>1 DEF IsStation
      <3> QED BY <2>1, <3>1
    <2>2. CASE ~ (s < lo)
      <3>1. s \in lo .. hi /\ s - 1 \in lo - 1 .. hi
        BY <2>2 DEF IsStation
      <3>2. g[s - 1] = FlaggedUpTo(lo, s - 1)
        BY <3>1
      <3>3. FireOne(FlaggedUpTo(lo, s - 1), s, clock + 1) = FlaggedUpTo(lo, s)
        BY <3>1, FiringTurn
      <3> QED BY <2>2, <3>2, <3>3
    <2> QED BY <2>1, <2>2
  <1>3. hi \in lo - 1 .. hi
    BY DEF IsStation
  <1>4. g[hi] = FlaggedUpTo(lo, hi)
    BY <1>3
  <1> HIDE DEF g
  <1>5. FiringTurns(g, a, lo, hi, clock + 1)
    BY <1>1 DEF FiringTurns
  <1>6. fire_ready(a, lo, hi, clock + 1) = g[hi]
    BY <1>5, FiringLoop
  <1> QED BY <1>4, <1>6 DEF FiresStation

\* The flags are put down between two stations: before is the last slot of the
\* first of them, n its first.
LEMMA FlagsDown ==
  ASSUME NEW lo, NEW hi, IsStation(lo, hi), NEW before, before = lo - 1, NEW n
  PROVE  Unflagged(FlaggedUpTo(n, before)) = FlaggedUpTo(lo, before)
  <1>1. lo .. before = {}
    BY DEF IsStation
  <1>2. {Cleared[t].op : t \in Fired \cap lo .. before} = {}
    BY <1>1
  <1> DEFINE R == AfterFire(Cleared, Fired \cap 1 .. before, clock + 1)
             m == Cardinality(Fired \cap 1 .. before)
             f == {Cleared[t].op : t \in Fired \cap n .. before}
  <1>3. FlaggedUpTo(n, before) = [rest |-> R, num |-> m, fired |-> f]
    BY DEF FlaggedUpTo
  <1>4. FlaggedUpTo(lo, before) = [rest |-> R, num |-> m, fired |-> {}]
    BY <1>2 DEF FlaggedUpTo
  <1> HIDE DEF R, m, f
  <1> QED BY <1>3, <1>4 DEF Unflagged

LEMMA FiringResult == TypeOK => FiringLoopIsSetwise
  <1> SUFFICES ASSUME TypeOK PROVE FiringLoopIsSetwise
    OBVIOUS
  <1> DEFINE c == clock + 1
             start == [rest |-> Cleared, num |-> 0, fired |-> {}]
             L == StartReady(Cleared, c)
  <1>1. Cleared \in [Slot -> Entry] /\ Fired \subseteq Slot
    BY ClearedType DEF Fired, Firing
  <1>2. Unflagged(start) = FlaggedUpTo(1, 0)
    <2>1. 1 .. 0 = {}
      OBVIOUS
    <2>2. Fired \cap 1 .. 0 = {} /\ {Cleared[t].op : t \in Fired \cap 1 .. 0} = {}
      BY <2>1
    <2>3. AfterFire(Cleared, {}, c) = Cleared
      BY <1>1 DEF AfterFire
    <2>4. FlaggedUpTo(1, 0) = start
      BY <2>2, <2>3, FS_EmptySet DEF FlaggedUpTo
    <2>5. Unflagged(start) = start
      BY DEF Unflagged
    <2> QED BY <2>4, <2>5
  <1>3. SUFFICES \E lo : L = FlaggedUpTo(lo, NumSlots)
    <2>1. Fired \cap 1 .. NumSlots = Fired
      BY <1>1 DEF Slot
    <2> HIDE DEF L
    <2>2. L.rest = AfterFire(Cleared, Fired, c) /\ L.num = Cardinality(Fired)
      <3>1. PICK lo : L = FlaggedUpTo(lo, NumSlots)
        BY <1>3
      <3> QED BY <2>1, <3>1 DEF FlaggedUpTo
    <2> QED BY <2>2 DEF FiringLoopIsSetwise, L
  <1> HIDE DEF start
  <1>4. CASE RsType = "U"
    <2>1. L = fire_ready(start, 1, NumSlots, c)
      BY <1>4 DEF StartReady, start
    <2>2. fire_ready(start, 1, NumSlots, c) = FlaggedUpTo(1, NumSlots)
      BY <1>2, <1>4, Stations, FiringPass DEF FiresStation
    <2> QED BY <2>1, <2>2
  <1>5. CASE RsType # "U"
    <2> DEFINE add == fire_ready(start, 1, LastAdd, c)
               div == fire_ready(add, LastAdd + 1, LastDiv, c)
    <2>1. L = fire_ready(div, LastDiv + 1, NumSlots, c)
      BY <1>5 DEF StartReady, start
    <2>2. /\ IsStation(1, LastAdd) /\ IsStation(LastAdd + 1, LastDiv) /\ IsStation(LastDiv + 1, NumSlots)
      BY <1>5, Stations
    <2>3. 0 = 1 - 1 /\ LastAdd = LastAdd + 1 - 1 /\ LastDiv = LastDiv + 1 - 1
      BY <2>2 DEF IsStation
    <2>4. add = FlaggedUpTo(1, LastAdd)
      BY <1>2, <2>2, <2>3, FiringPass DEF FiresStation
    <2> HIDE DEF add
    <2> DEFINE div1 == LastAdd + 1
               mem1 == LastDiv + 1
    <2>5. /\ IsStation(div1, LastDiv) /\ IsStation(mem1, NumSlots)
          /\ LastAdd = div1 - 1 /\ LastDiv = mem1 - 1
      <3>1. IsStation(div1, LastDiv) /\ IsStation(mem1, NumSlots)
        BY <2>2, Zenon
      <3>2. LastAdd = div1 - 1 /\ LastDiv = mem1 - 1
        BY <2>2 DEF IsStation
      <3> QED BY <3>1, <3>2
    <2>6. /\ div = fire_ready(add, div1, LastDiv, c)
          /\ L = fire_ready(div, mem1, NumSlots, c)
      BY <2>1
    <2> HIDE DEF div1, mem1, div, L
    <2>7. Unflagged(add) = FlaggedUpTo(div1, LastAdd)
      BY <2>5, <2>4, FlagsDown
    <2>8. FiresStation(add, div1, LastDiv)
      BY <2>5, <2>7, FiringPass
    <2>9. div = FlaggedUpTo(div1, LastDiv)
      BY <2>8, <2>6 DEF FiresStation
    <2>10. Unflagged(div) = FlaggedUpTo(mem1, LastDiv)
      BY <2>5, <2>9, FlagsDown
    <2>11. FiresStation(div, mem1, NumSlots)
      BY <2>5, <2>10, FiringPass
    <2> QED BY <2>6, <2>11 DEF FiresStation
  <1> QED BY <1>4, <1>5

\* No instruction of the trace is ever in a unit and waiting for an operand.
THEOREM FiredCorrect == Spec => []FiredAreReady
  <1>1. Init => FiredAreReady
    BY DEF Init, FiredAreReady, NoEntry
  <1> QED BY <1>1, Invariance, NextReady, PTL DEF Spec

\* complete_insts, run slot by slot over tables that change under it, leaves the
\* stations and the alias table that freeing all completed slots at once leaves.
THEOREM CompletionLoopCorrect == Spec => []CompletionLoopIsSetwise
  BY TypeCorrect, FiredCorrect, CompletionResult, PTL

\* fire_ready starts, in every station, the first ready instruction of each unit.
THEOREM FiringLoopCorrect == Spec => []FiringLoopIsSetwise
  BY TypeCorrect, FiringResult, PTL

=============================================================================
