------------------------------ MODULE MicroOCaml ------------------------------
(***************************************************************************)
(* The compiled code of every program beside what the interpreter says the *)
(* program means: the two implementations of the language (interp.rkt, and *)
(* compile.rkt run by run.rkt) are meant to give the same answers, and the *)
(* repository runs one test suite over both.                               *)
(***************************************************************************)
EXTENDS Machine, Interpreter, Parser

CONSTANTS
    TailLoops,          \* the programs that only loop by tail calls
    TailLoopHeight      \* words of stack that one round of such a loop needs

(* Values without places: an immediate, or the parts of an object;           *)
(* procedures are opaque.                                                    *)
Object(type, parts) == [type |-> type, parts |-> parts]
Procedure == Word("proc", 0)

(* bits->value: what run.rkt makes of the word in rax, with the heap behind  *)
(* it                                                                        *)
RECURSIVE BitsToValue(_)
BitsToValue(w) ==
    CASE w.type = "cons" -> Object("cons", <<BitsToValue(Car(w, m.heap)),
                                             BitsToValue(Cdr(w, m.heap))>>)
      [] w.type = "box" -> Object("box", <<BitsToValue(m.heap[w.n])>>)
      [] w.type = "vect" ->
            Object("vect", [i \in 1..Length(w, m.heap) |->
                                BitsToValue(Element(w, i - 1, m.heap))])
      [] w.type = "str" -> Object("str", Chars(w, m.heap))
      [] w.type = "proc" -> Procedure
      [] OTHER -> w

(* a value of the interpreter, likewise *)
RECURSIVE ValueOf(_, _)
ValueOf(v, mem) ==
    CASE v.type \in {"cons", "box", "vect", "str"} ->
            Object(v.type, [i \in DOMAIN mem[v.n] |-> ValueOf(mem[v.n][i], mem)])
      [] v.type = "proc" -> Procedure
      [] OTHER -> v

(* What the interpreter says: Err or a value, and the bytes written.         *)
Says(a) == [v |-> ValueOf(a.v, a.w.mem), out |-> a.w.out]
Answers == LET ps == Programs IN <<>> \o [i \in DOMAIN ps |-> Says(Interp(ps[i]))]

(* The reader of Racket on what print.c writes: a datum and what follows.    *)
ReadChar(ts) ==
    LET n == Utf8Length(ts[1].n)
    IN [v |-> Char(Utf8Decode([i \in 1..n |-> ts[i].n])),
        rest |-> SubSeq(ts, n + 1, Len(ts))]
RECURSIVE Read(_), ReadList(_), ReadParts(_, _)
Read(ts) ==
    LET more == Tail(ts) IN
    CASE Head(ts).type = "(" -> ReadList(more)
      [] Head(ts).type = "#(" -> ReadParts("vect", more)
      [] Head(ts).type = "quote" -> ReadParts("str", more)
      [] Head(ts).type = "#&" ->
            [Read(more) EXCEPT !.v = Object("box", <<@>>)]
      [] Head(ts).type = "#\\" -> ReadChar(more)
      [] Head(ts).type = "procedure" -> [v |-> Procedure, rest |-> more]
      [] OTHER -> [v |-> Head(ts), rest |-> more]
ReadList(ts) ==
    CASE Head(ts).type = ")" -> [v |-> Empty, rest |-> Tail(ts)]
      [] Head(ts).type = "." ->
            [Read(Tail(ts)) EXCEPT !.rest = Tail(@)]
      [] OTHER -> LET a == Read(ts)
                      d == ReadList(a.rest)
                  IN [d EXCEPT !.v = Object("cons", <<a.v, @>>)]
ReadParts(type, ts) ==
    IF Head(ts).type \in {")", "quote"}
    THEN [v |-> Object(type, <<>>), rest |-> Tail(ts)]
    ELSE LET a == IF type = "str" THEN ReadChar(ts) ELSE Read(ts)
             as == ReadParts(type, a.rest)
         IN [as EXCEPT !.v = Object(type, <<a.v>> \o @.parts)]

ReadBack(ts) ==
    IF ts = <<>> THEN [v |-> Void, rest |-> <<>>]
    ELSE Read(IF Head(ts).type = "'" THEN Tail(ts) ELSE ts)

(* How a program is written. *)
ParameterList(names, lam) ==
    LET symbols == [i \in DOMAIN names |-> Symbol(names[i])]
        rest == IF lam.node = "LamRest" THEN <<Symbol(lam.x)>> ELSE <<>>
    IN IF symbols = <<>> /\ rest # <<>> THEN rest[1] ELSE Dotted(symbols, rest)
RECURSIVE Text(_)
Text(e) ==
    LET form(name, ss) == List(<<Symbol(name)>> \o ss)
        texts(es) == [i \in DOMAIN es |-> Text(es[i])]
        pairs(as, bs) == [i \in DOMAIN as |-> List(<<Text(as[i]), Text(bs[i])>>)]
    IN CASE e.node = "Lit" -> CASE e.d.type = "empty" -> form("quote", <<List(<<>>)>>)
                                [] e.d.type = "eof" -> Symbol("eof")
                                [] OTHER -> Datum(e.d)
         [] e.node = "Var" -> Symbol(e.x)
         [] e.node = "Prim" -> form(e.p, texts(e.es))
         [] e.node = "If" -> form("if", texts(<<e.e1, e.e2, e.e3>>))
         [] e.node = "Begin" -> form("begin", texts(<<e.e1, e.e2>>))
         [] e.node = "Let" -> form("let", <<List(pairs(<<Var(e.x)>>, <<e.e1>>)), Text(e.e2)>>)
         [] e.node = "App" -> List(texts(<<e.e>> \o e.es))
         [] e.node = "Apply" -> form("apply", texts(<<e.ef>> \o e.es \o <<e.e>>))
         [] e.node \in {"LamPlain", "LamRest"} ->
               form("lambda", <<ParameterList(e.xs, e), Text(e.e)>>)
         [] e.node = "Match" -> form("match", <<Text(e.e)>> \o pairs(e.ps, e.es))
         [] e.node = "Raise" -> form("raise", texts(<<e.e>>))
         [] e.node = "WithHandlers" ->
               form("with-handlers", <<List(pairs(e.ps, e.hs)), Text(e.e)>>)
         [] e.node = "Box" -> form("box", texts(<<e.p>>))
         [] e.node = "Cons" -> form("cons", texts(<<e.p1, e.p2>>))
         [] e.node = "Conj" -> form("and", texts(<<e.p1, e.p2>>))
Definition(d) ==
    List(<<Symbol("define"), ParameterList(<<d.f>> \o d.xs, d), Text(d.e)>>)
Written(p) == [i \in DOMAIN p.ds |-> Definition(p.ds[i])] \o <<Text(p.e)>>

RECURSIVE HoldsVoid(_)
HoldsVoid(v) ==
    v.type \in {"cons", "box", "vect"} /\
    \E i \in DOMAIN v.parts : v.parts[i] = Void \/ HoldsVoid(v.parts[i])

-----------------------------------------------------------------------------
(* When the program ends, it ends as the interpreter says: with an error     *)
(* exactly if interp answers 'err, else with the same value, the stack as    *)
(* the runtime left it and the callee-saved registers restored; and it has   *)
(* written the same bytes, also before an error.  It never pops a word too   *)
(* many, returns into data or follows a word that is no pointer, whatever    *)
(* the closures, rest arguments, matches and exceptions of the program did   *)
(* to the stack before.                                                      *)
AgreesWithTheInterpreter ==
    CASE outcome = "running" -> TRUE
      [] outcome = "crash" -> FALSE
      [] outcome = "err" -> Answers[prog] = [v |-> Err, out |-> m.out]
      [] outcome = "done" -> /\ Answers[prog] = [v |-> BitsToValue(m.rax), out |-> m.out]
                             /\ m.rsp = 0
                             /\ m.restored = Saved

(* What main.c prints of a result reads back as the value the interpreter    *)
(* gives: nested and improper lists, boxes, vectors and strings, told apart  *)
(* and closed where they end.  (A void inside data is printed as nothing.)   *)
PrintsTheAnswer ==
    outcome = "done" /\ ~HoldsVoid(Answers[prog].v) =>
        ReadBack(print_result(m.rax, m.heap)) = [v |-> Answers[prog].v, rest |-> <<>>]

(* Machine works on a type and a number where the program works on a word:   *)
(* the assertions and the primitives that need no heap come to the same on   *)
(* the bits, and every value in rax or under a primitive is told apart and   *)
(* comes back from its bits.                                                 *)
PrimitivesWorkOnBits ==
    /\ At("Op1") => Faithful(m.rax) /\ WorksOnBits1(Instruction.a, m.rax)
    /\ At("Op2") => Faithful(Top(0)) /\ WorksOnBits2(Instruction.a, Top(0), m.rax)

(* What the parser reads in the text of a program means what the program     *)
(* means: no form is taken for a call, no call for a form, no part gets lost *)
(* or changes places; and no two lambdas share the label of their code.      *)
ParsesWhatIsWritten ==
    m.pc = 1 =>
        LET p == parse(Written(Programs[prog]))
            ls == lambdas(p)
        IN /\ Says(Interp([p EXCEPT !.in = Programs[prog].in])) = Answers[prog]
           /\ Cardinality({l.f : l \in ToSet(ls)}) = Len(ls)

(* A program that loops by tail calls needs no more stack the longer it      *)
(* loops: compile-app-tail releases the frame of the caller, whatever the    *)
(* caller has bound by let, match or a rest parameter in between.            *)
TailCallsKeepTheStack == prog \in TailLoops => m.rsp <= TailLoopHeight

(* Every program of these ends, by its value or by an error: a raise goes on *)
(* to the next handler and no jump goes round in a circle.                   *)
EveryProgramEnds == <>(outcome # "running")
=============================================================================
