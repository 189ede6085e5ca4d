------------------------------- MODULE Machine -------------------------------
(***************************************************************************)
(* The machine the compiled code runs on: what the idioms of compile.rkt,  *)
(* compile-ops.rkt and assert.rkt do to registers, stack and heap, one     *)
(* action per instruction.  Stack and heap are sequences; the heap only    *)
(* grows; in and out are the files of the runtime.  The top of the stack   *)
(* is the word rsp, and the words above it stay in memory until something  *)
(* is pushed over them.  A program is                                      *)
(* entered by a call of the runtime, whose return address is the label 0,  *)
(* and ends with outcome                                                   *)
(*   "done"   when it returns there,                                       *)
(*   "err"    when it jumps to err (raise_error does not return),          *)
(*   "crash"  when it pops more than there is, returns to a word that is   *)
(*            no code address or follows a word that is no pointer.        *)
(***************************************************************************)
EXTENDS Compiler, Runtime

CONSTANT Programs           \* a sequence of programs; every behaviour runs one

ASSUME ProgramsAssumption == Len(Programs) > 0

VARIABLES
    prog,                   \* which program runs
    code,                   \* its compiled code, as loaded
    m,                      \* the machine: registers, stack and heap
    outcome

vars == <<prog, code, m, outcome>>

Instruction == code[m.pc]
Target(l) == CHOOSE i \in DOMAIN code : code[i].op = "Label" /\ code[i].a = l
CodeWord(l) == Word("label", Target(l))

Saved == <<Word("saved", 1), Word("saved", 2), Word("saved", 3)>>

Init ==
    /\ prog \in DOMAIN Programs
    /\ code = Compile(Programs[prog])
    /\ m = [pc |-> 1, rax |-> Void, r9 |-> Void, r14 |-> 0, r15 |-> 0,
            stack |-> <<Word("label", 0)>>, rsp |-> 1, heap |-> <<>>, restored |-> <<>>,
            in |-> Programs[prog].in, out |-> <<>>]
    /\ outcome = "running"

-----------------------------------------------------------------------------
Top(i) == m.stack[m.rsp - i]
Fresh == Len(m.heap) + 1                            \* rbx

(* How many words of the stack an instruction takes for granted. *)
Reads(i) ==
    CASE i.op \in {"Drop", "TestLit", "TestBox", "TestCons"} ->
             IF i.op = "Drop" THEN i.a ELSE i.n
      [] i.op = "Load" -> i.a + 1
      [] i.op \in {"Op2", "Ret", "PopRaised", "CallPredicate", "Resume"} -> 1
      [] i.op \in {"Install", "Op3"} -> 2
      [] i.op = "Restore" -> 3
      [] i.op = "OpN" -> i.b
      [] i.op = "MoveArgs" -> i.a + i.b
      [] i.op = "Enter" -> m.r15 + 1
      [] i.op = "Rest" -> m.r15 - i.a
      [] i.op \in {"Closure", "InitDefine"} -> Max({0} \cup ToSet(i.b)) + 1
      [] OTHER -> 0

(* The words that must be what the instruction follows them as. *)
Follows(i) ==
    CASE i.op = "Spread" -> m.rax.type = "cons"
      [] i.op = "OpenEnv" -> m.rax.type = "proc"
      [] i.op = "Ret" -> Top(0).type = "label"
      [] OTHER -> TRUE

Sane == Reads(Instruction) <= m.rsp /\ Follows(Instruction)
At(op) == outcome = "running" /\ Instruction.op = op /\ Sane

Goto(i) == [m EXCEPT !.pc = i]
Next1 == Goto(m.pc + 1)
Pushed(m1, ws) ==
    LET top == m1.rsp + Len(ws)
    IN [m1 EXCEPT !.rsp = top, !.stack =
            [i \in 1..Max({Len(@), top}) |->
                 IF i \in (m1.rsp + 1)..top THEN ws[i - m1.rsp] ELSE @[i]]]
Popped(m1, n) == [m1 EXCEPT !.rsp = @ - n]

(* every step but those that end the program *)
Continue(m1) == m' = m1 /\ UNCHANGED <<prog, code, outcome>>
Stop(how) == outcome' = how /\ UNCHANGED <<prog, code, m>>

(* the jump to err, or the end of a program that has lost its stack *)
Halt ==
    /\ outcome = "running"
    /\ Sane => Instruction.op = "Fail"
    /\ Stop(IF Sane THEN "err" ELSE "crash")

-----------------------------------------------------------------------------
(* Words, stack and control. *)
ConstStep == At("Const") /\ Continue([Next1 EXCEPT !.rax = Instruction.a])
LoadStep == At("Load") /\ Continue([Next1 EXCEPT !.rax = Top(Instruction.a)])
PushStep == At("Push") /\ Continue(Pushed(Next1, <<m.rax>>))
DropStep == At("Drop") /\ Continue(Popped(Next1, Instruction.a))
LabelStep == At("Label") /\ Continue(Next1)
JumpStep == At("Jump") /\ Continue(Goto(Target(Instruction.a)))

JumpIfStep ==
    \E op \in {"JumpIfFalse", "JumpIfTrue", "JumpIfEmpty"} :
        /\ At(op)
        /\ LET jumps == CASE op = "JumpIfFalse" -> m.rax = False
                          [] op = "JumpIfTrue" -> m.rax # False
                          [] op = "JumpIfEmpty" -> m.rax = Empty
           IN Continue(IF jumps THEN Goto(Target(Instruction.a)) ELSE Next1)

(* entry and exit of the program: the callee-saved registers, which nobody  *)
(* reads after Restore                                                      *)
SaveStep ==
    At("Save") /\ Continue([Pushed(Next1, Saved) EXCEPT !.r14 = 0])

RestoreStep ==
    /\ At("Restore")
    /\ Continue([Popped(Next1, 3) EXCEPT !.restored = <<Top(2), Top(1), Top(0)>>])

RetStep ==
    /\ At("Ret")
    /\ IF Top(0).n = 0
       THEN /\ m' = Popped(m, 1)
            /\ outcome' = "done"
            /\ UNCHANGED <<prog, code>>
       ELSE Continue(Popped(Goto(Top(0).n), 1))

-----------------------------------------------------------------------------
(* Primitives: compile-op0 to compile-opN with their assertions.             *)
IsInt(w) == w.type = "int"
HasIndex(w, i) == IsInt(i) /\ i.n \in 0..(Length(w, m.heap) - 1)

Two(cs, i) == [type |-> "chars", n |-> cs[i],
               high |-> IF i < Len(cs) THEN cs[i + 1] ELSE 0]
StringCells(cs) ==
    IF cs = <<>> THEN <<>>
    ELSE <<Word("length", Len(cs))>>
         \o [i \in 1..((Len(cs) + 1) \div 2) |-> Two(cs, 2 * i - 1)]
NewPointer(type, cells) == Word(type, IF cells = <<>> THEN 0 ELSE Fresh)

StringStep ==
    LET cells == StringCells(Instruction.a.n) IN
    /\ At("String")
    /\ Continue([Next1 EXCEPT !.rax = NewPointer("str", cells), !.heap = @ \o cells])

(* pad-stack leaves in r15 the bytes it has taken from rsp for the call.     *)
Called(m1) == [m1 EXCEPT !.r15 = 8 * (m1.rsp % 2)]

Op0Step ==
    LET p == Instruction.a IN
    /\ At("Op0")
    /\ Continue(CASE p = "void" -> [Next1 EXCEPT !.rax = Void]
                  [] p = "read-byte" -> Called(read_byte(Next1))
                  [] p = "peek-byte" -> Called(peek_byte(Next1)))

Result1(p, w) ==
    CASE p \in Heapless1 -> Computed1(p, w)
      [] p = "box" -> Word("box", Fresh)
      [] p = "unbox" -> m.heap[w.n]
      [] p = "car" -> Car(w, m.heap)
      [] p = "cdr" -> Cdr(w, m.heap)
      [] p \in {"vector-length", "string-length"} -> Num(Length(w, m.heap))

Op1Step ==
    LET p == Instruction.a IN
    /\ At("Op1")
    /\ CASE ~Asserted1(p, m.rax) -> Stop("err")
         [] Asserted1(p, m.rax) /\ p = "write-byte" -> Continue(Called(write_byte(Next1)))
         [] OTHER -> Continue([Next1 EXCEPT !.rax = Result1(p, @),
                          !.heap = @ \o IF p = "box" THEN <<m.rax>> ELSE <<>>])

Checked2(p, w1, w2) ==
    CASE p = "make-vector" -> IsInt(w1) /\ w1.n >= 0
      [] p = "make-string" -> IsInt(w1) /\ w1.n >= 0 /\ w2.type = "char"
      [] p = "vector-ref" -> w1.type = "vect" /\ HasIndex(w1, w2)
      [] p = "string-ref" -> w1.type = "str" /\ HasIndex(w1, w2)
      [] OTHER -> Asserted2(p, w1, w2)

Result2(p, w1, w2) ==
    CASE p \in Heapless2 -> Computed2(p, w1, w2)
      [] p = "cons" -> Word("cons", Fresh)
      [] p = "make-vector" -> Word("vect", IF w1.n = 0 THEN 0 ELSE Fresh)
      [] p = "make-string" -> Word("str", IF w1.n = 0 THEN 0 ELSE Fresh)
      [] p = "vector-ref" -> Element(w1, w2.n, m.heap)
      [] p = "string-ref" -> CharRef(w1, w2.n, m.heap)

Cells2(p, w1, w2) ==
    CASE p = "cons" -> <<w2, w1>>
      [] p = "make-vector" /\ w1.n > 0 ->
             <<Word("length", w1.n)>> \o [i \in 1..w1.n |-> w2]
      [] p = "make-string" -> StringCells([i \in 1..w1.n |-> w2.n])
      [] OTHER -> <<>>

Op2Step ==
    LET p == Instruction.a IN
    /\ At("Op2")
    /\ IF Checked2(p, Top(0), m.rax)
       THEN Continue([Popped(Next1, 1) EXCEPT
                         !.rax = Result2(p, Top(0), @),
                         !.heap = @ \o Cells2(p, Top(0), m.rax)])
       ELSE Stop("err")

(* vector-set!: the vector and the index lie on the stack, the value is rax  *)
Op3Step ==
    LET v == Top(1)
        i == Top(0)
    IN /\ At("Op3")
       /\ IF v.type = "vect" /\ HasIndex(v, i)
          THEN Continue([Popped(Next1, 2) EXCEPT
                  !.rax = Void, !.heap[v.n + 1 + i.n] = m.rax])
          ELSE Stop("err")

(* compile-op-list: the pairs of a list lie one after the other *)
ListCells(ws) ==
    FlattenSeq([i \in DOMAIN ws |->
        <<IF i = Len(ws) THEN Empty ELSE Word("cons", Fresh + 2 * i), ws[i]>>])

OpNStep ==
    LET n == Instruction.b
        ws == SubSeq(m.stack, m.rsp - n + 1, m.rsp)
    IN /\ At("OpN")
       /\ Continue([Popped(Next1, n) EXCEPT
              !.rax = CASE n = 0 /\ Instruction.a = "list" -> Empty
                        [] n = 0 /\ Instruction.a = "vector" -> Word("vect", 0)
                        [] n > 0 /\ Instruction.a = "list" -> Word("cons", Fresh)
                        [] n > 0 /\ Instruction.a = "vector" -> Word("vect", Fresh),
              !.heap = @ \o IF n = 0 THEN <<>>
                            ELSE IF Instruction.a = "list" THEN ListCells(ws)
                            ELSE <<Word("length", n)>> \o ws])

-----------------------------------------------------------------------------
(* Closures and calls. *)
ClosureStep ==
    /\ At("Closure")
    /\ Continue([Next1 EXCEPT
           !.rax = Word("proc", Fresh),
           !.heap = @ \o <<CodeWord(Instruction.a)>>
                      \o [i \in DOMAIN Instruction.b |-> Top(Instruction.b[i])]])

AllocDefineStep ==
    /\ At("AllocDefine")
    /\ Continue([Next1 EXCEPT
           !.rax = Word("proc", Fresh),
           !.heap = @ \o <<CodeWord(Instruction.a)>>
                      \o [i \in 1..Instruction.b |-> Void]])

InitDefineStep ==
    LET base == Top(Instruction.a).n IN
    /\ At("InitDefine")
    /\ Continue([Next1 EXCEPT !.heap =
           [a \in DOMAIN @ |-> IF a - base \in DOMAIN Instruction.b
                               THEN Top(Instruction.b[a - base]) ELSE @[a]]])

PushLabelStep ==
    /\ At("PushLabel")
    /\ Continue([Pushed(Next1, <<CodeWord(Instruction.a)>>) EXCEPT
                    !.rax = CodeWord(Instruction.a)])

(* move-args and the release of the caller's frame below the arguments *)
MoveArgsStep ==
    /\ At("MoveArgs")
    /\ Continue(Pushed(Popped(Next1, Instruction.a + Instruction.b),
                       SubSeq(m.stack, m.rsp - Instruction.a + 1, m.rsp)))

CountStep == At("Count") /\ Continue([Next1 EXCEPT !.r15 = Instruction.a])

(* The jump into a closure that lies under its r15 arguments. *)
EnterWith(m1, proc) ==
    IF proc.type = "proc"
    THEN Continue([m1 EXCEPT !.pc = m.heap[proc.n].n])
    ELSE Stop("err")

EnterStep == At("Enter") /\ EnterWith(m, Top(m.r15))

AssertConsStep ==
    /\ At("AssertCons")
    /\ IF m.rax.type = "cons" THEN Continue(Next1) ELSE Stop("err")

SpreadStep ==
    /\ At("Spread")
    /\ Continue([Pushed(Next1, <<m.heap[m.rax.n + 1]>>) EXCEPT
                    !.r15 = @ + 1, !.rax = m.heap[@.n]])

ArityStep ==
    \E op \in {"Exactly", "AtLeast"} :
        /\ At(op)
        /\ IF m.r15 = Instruction.a \/ (op = "AtLeast" /\ m.r15 > Instruction.a)
           THEN Continue(Next1) ELSE Stop("err")

(* the loop of a rest parameter: the last argument becomes the last pair *)
RestStep ==
    LET extra == m.r15 - Instruction.a
        cells == FlattenSeq([i \in 1..extra |->
            <<IF i = 1 THEN Empty ELSE Word("cons", Fresh + 2 * (i - 2)), Top(i - 1)>>])
    IN /\ At("Rest")
       /\ Continue([Popped(Next1, extra) EXCEPT
              !.rax = IF extra = 0 THEN Empty ELSE Word("cons", Fresh + 2 * (extra - 1)),
              !.heap = @ \o cells])

(* copy-env-to-stack *)
OpenEnvStep ==
    /\ At("OpenEnv")
    /\ Continue(Pushed(Next1, [i \in 1..Instruction.a |-> m.heap[m.rax.n + i]]))

-----------------------------------------------------------------------------
(* Patterns: a test that fails drops what the pattern has pushed. *)
TestStep ==
    \E op \in {"TestLit", "TestBox", "TestCons"} :
        /\ At(op)
        /\ LET ok == CASE op = "TestLit" -> m.rax = Instruction.d
                       [] op = "TestBox" -> m.rax.type = "box"
                       [] op = "TestCons" -> m.rax.type = "cons"
           IN Continue(
                CASE ~ok -> Popped(Goto(Target(Instruction.next)), Instruction.n)
                  [] ok /\ op = "TestLit" -> Next1
                  [] ok /\ op = "TestBox" -> [Next1 EXCEPT !.rax = m.heap[@.n]]
                  [] ok /\ op = "TestCons" ->
                        [Pushed(Next1, <<m.heap[m.rax.n]>>) EXCEPT
                             !.rax = m.heap[@.n + 1]])

-----------------------------------------------------------------------------
(* Exceptions.  A handler frame on the heap: the height of the stack with    *)
(* handler and predicate on it, the predicate, the handler, the code where   *)
(* the expression ends, and the frame below or 0.                            *)
InstallStep ==
    /\ At("Install")
    /\ Continue([Popped(Next1, 2) EXCEPT
           !.heap = @ \o <<Word("height", m.rsp), Top(0), Top(1),
                           CodeWord(Instruction.a), Word("frame", m.r14)>>,
           !.rax = CodeWord(Instruction.a), !.r14 = Fresh])

RewindStep ==
    /\ At("Rewind")
    /\ Continue(IF m.r14 = 0 THEN Goto(Target(Instruction.a))
                ELSE [Next1 EXCEPT !.rsp = m.heap[m.r14].n])

(* predicate or handler called with one argument, to return to a label *)
CallWith(proc, arg) ==
    EnterWith([Pushed(m, <<CodeWord(Instruction.a), proc, arg>>) EXCEPT !.r15 = 1],
              proc)

CallPredicateStep ==
    At("CallPredicate") /\ CallWith(m.heap[m.r14 + 1], Top(0))

PopRaisedStep ==
    At("PopRaised") /\ Continue([Popped(Next1, 1) EXCEPT !.r9 = Top(0)])

CallHandlerStep ==
    At("CallHandler") /\ CallWith(m.heap[m.r14 + 2], m.r9)

(* A bug for the mutants: the next handler is looked for in the same frame. *)
NextFrameKept ==
    /\ At("NextFrame")
    /\ Continue(IF m.heap[m.r14 + 4].n = 0 THEN Goto(Target(Instruction.a))
                ELSE Next1)

NextFrameStep ==
    /\ At("NextFrame")
    /\ Continue(IF m.heap[m.r14 + 4].n = 0 THEN Goto(Target(Instruction.a))
                ELSE [Next1 EXCEPT !.r14 = m.heap[@ + 4].n])

ResumeStep ==
    At("Resume")
    /\ Continue(Popped(Goto(m.heap[m.r14 + 3].n), 1))

-----------------------------------------------------------------------------
Step ==
    \/ ConstStep \/ LoadStep \/ PushStep \/ DropStep \/ LabelStep \/ JumpStep
    \/ JumpIfStep \/ SaveStep \/ RestoreStep \/ RetStep
    \/ StringStep \/ Op0Step \/ Op1Step \/ Op2Step \/ Op3Step \/ OpNStep
    \/ ClosureStep \/ AllocDefineStep \/ InitDefineStep \/ PushLabelStep
    \/ MoveArgsStep \/ CountStep \/ EnterStep \/ AssertConsStep \/ SpreadStep
    \/ ArityStep \/ RestStep \/ OpenEnvStep \/ TestStep
    \/ InstallStep \/ RewindStep \/ CallPredicateStep \/ PopRaisedStep
    \/ CallHandlerStep \/ NextFrameStep \/ ResumeStep

(* nothing after the end *)
Ended == outcome # "running" /\ UNCHANGED vars

Next == Step \/ Halt \/ Ended

(* A processor executes the next instruction. *)
Fairness == WF_vars(Step \/ Halt)

Spec == Init /\ [][Next]_vars /\ Fairness
=============================================================================
