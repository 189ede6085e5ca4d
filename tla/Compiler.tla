------------------------------ MODULE Compiler ------------------------------
(***************************************************************************)
(* The compiler of MicroOCaml (compile.rkt): from a program to a sequence  *)
(* of instructions.  An instruction stands for one idiom of the assembly   *)
(* code, as "push rax", "load a variable" or "assert a procedure and jump  *)
(* to its code"; the machine that runs them is module Machine.  Offsets    *)
(* count words of 8 bytes.                                                 *)
(*                                                                         *)
(* The compile-time environment c is a sequence of identifiers, "#f" for a *)
(* word of the stack that has no name; t says that the expression is in    *)
(* tail position; at is the place of the expression in the program and     *)
(* stands for gensym: it makes the labels of the expression its own.       *)
(***************************************************************************)
EXTENDS Syntax

Ins(op) == [op |-> op]
Ins1(op, a) == [op |-> op, a |-> a]
Ins2(op, a, b) == [op |-> op, a |-> a, b |-> b]
Push == Ins("Push")
Load(i) == Ins1("Load", i)
Drop(n) == Ins1("Drop", n)                          \* Add rsp (* 8 n)
Label(l) == Ins1("Label", l)
Jump(l) == Ins1("Jump", l)
Fail == Ins("Fail")                                 \* Jmp 'err

Gensym(at, name) == [at |-> at, name |-> name]
CodeOf(f) == Gensym(<<>>, f)                        \* symbol->label

(* lookup: the offset of a variable from the top of the stack *)
lookup(x, c) == SelectInSeq(c, LAMBDA y : y = x) - 1
Offsets(xs, c) == [i \in DOMAIN xs |-> lookup(xs[i], c)]
Unnamed(n) == [i \in 1..n |-> "#f"]

-----------------------------------------------------------------------------
(* compile-pattern: the code of a pattern and the names cm of the words it   *)
(* has pushed.  A pattern that does not match pops them and goes on at next. *)
Test(op, d, cm, next) == [op |-> op, d |-> d, n |-> Len(cm), next |-> next]

RECURSIVE CompilePattern(_, _, _)
CompilePattern(p, cm, next) ==
    LET (* both parts of a Cons or a Conj, the second value kept below p1's  *)
        both(first) ==
            LET p1 == CompilePattern(p.p1, <<"#f">> \o cm, next)
                p2 == CompilePattern(p.p2, p1.cm, next)
            IN [code |-> <<first>> \o p1.code
                         \o <<Load(Len(p1.cm) - 1 - Len(cm))>> \o p2.code,
                cm |-> p2.cm]
    IN CASE p.node = "Var" ->
               IF p.x = "_" THEN [code |-> <<>>, cm |-> cm]
               ELSE [code |-> <<Push>>, cm |-> <<p.x>> \o cm]
         [] p.node = "Lit" ->
               [code |-> <<Test("TestLit", p.d, cm, next)>>, cm |-> cm]
         [] p.node = "Box" ->
               LET p1 == CompilePattern(p.p, cm, next)
               IN [p1 EXCEPT !.code = <<Test("TestBox", Void, cm, next)>> \o @]
         [] p.node = "Cons" -> both(Test("TestCons", Void, cm, next))
         [] p.node = "Conj" -> both(Push)

-----------------------------------------------------------------------------
RECURSIVE CompileE(_, _, _, _), CompileHandlers(_, _, _, _, _, _)

(* compile-es: the values of es on the stack, the last on top *)
CompileEs(es, c, at) ==
    FlattenSeq([i \in DOMAIN es |->
        CompileE(es[i], Unnamed(i - 1) \o c, FALSE, Append(at, i)) \o <<Push>>])

(* compile-prim0 to compile-primN: Prim1 to Prim3 keep the last value in     *)
(* rax, PrimN has all of them on the stack                                   *)
CompilePrim(p, es, c, at) ==
    CASE p \in {"list", "vector"} ->
            CompileEs(es, c, at) \o <<Ins2("OpN", p, Len(es))>>
      [] es = <<>> -> <<Ins1("Op0", p)>>
      [] OTHER -> Front(CompileEs(es, c, at))
                  \o <<Ins1(CASE Len(es) = 1 -> "Op1" [] Len(es) = 2 -> "Op2"
                              [] Len(es) = 3 -> "Op3", p)>>

CompileIf(e, c, t, at) ==
    LET l1 == Gensym(at, "if1")
        l2 == Gensym(at, "if2")
    IN CompileE(e.e1, c, FALSE, Append(at, 1)) \o <<Ins1("JumpIfFalse", l1)>>
       \o CompileE(e.e2, c, t, Append(at, 2)) \o <<Jump(l2), Label(l1)>>
       \o CompileE(e.e3, c, t, Append(at, 3)) \o <<Label(l2)>>

CompileBegin(e, c, t, at) ==
    CompileE(e.e1, c, FALSE, Append(at, 1)) \o CompileE(e.e2, c, t, Append(at, 2))

CompileLet(e, c, t, at) ==
    CompileE(e.e1, c, FALSE, Append(at, 1)) \o <<Push>>
    \o CompileE(e.e2, <<e.x>> \o c, t, Append(at, 2)) \o <<Drop(1)>>

(* A bug for the mutants: the return address is missing in the environment. *)
CompileAppUnshifted(e, es, c, at) ==
    <<Ins1("PushLabel", Gensym(at, "ret"))>>
    \o CompileEs(<<e>> \o es, c, at)
    \o <<Ins1("Count", Len(es)), Ins("Enter"), Label(Gensym(at, "ret"))>>

(* compile-app: the return address below the closure and its arguments; a    *)
(* tail call moves them over the frame of the caller instead                 *)
CompileAppNontail(e, es, c, at) ==
    <<Ins1("PushLabel", Gensym(at, "ret"))>>
    \o CompileEs(<<e>> \o es, <<"#f">> \o c, at)
    \o <<Ins1("Count", Len(es)), Ins("Enter"), Label(Gensym(at, "ret"))>>

CompileAppTail(e, es, c, at) ==
    CompileEs(<<e>> \o es, c, at)
    \o <<Ins2("MoveArgs", Len(es) + 1, Len(c)), Ins1("Count", Len(es)), Ins("Enter")>>

(* A bug for the mutants: the frame of the caller stays. *)
CompileAppAlways(e, es, c, t, at) == CompileAppNontail(e, es, c, at)

CompileApp(e, es, c, t, at) ==
    IF t THEN CompileAppTail(e, es, c, at) ELSE CompileAppNontail(e, es, c, at)

(* compile-apply: the elements of the list are pushed by a loop.  The list   *)
(* is compiled with the tail flag of the whole expression.                   *)
CompileApply(e, c, t, at) ==
    LET ret == Gensym(at, "ret")
        loop == Gensym(at, "loop")
        done == Gensym(at, "done")
    IN <<Ins1("PushLabel", ret)>>
       \o CompileEs(<<e.ef>> \o e.es, <<"#f">> \o c, Append(at, 1))
       \o CompileE(e.e, Unnamed(Len(e.es) + 2) \o c, t, Append(at, 2))
       \o <<Ins1("Count", Len(e.es)), Ins1("JumpIfEmpty", done), Ins("AssertCons"),
            Label(loop), Ins("Spread"), Ins1("JumpIfEmpty", done), Jump(loop),
            Label(done), Ins("Enter"), Label(ret)>>

(* compile-lam: a closure with the current values of its free variables *)
CompileLam(l, c) == <<Ins2("Closure", CodeOf(l.f), Offsets(fv(l), c))>>

CompileMatch(e, c, t, at) ==
    LET done == Gensym(at, "done")
        matched == <<"#f">> \o c
        clause(i) ==
            LET next == Gensym(Append(at, i), "next")
                p == CompilePattern(e.ps[i], <<>>, next)
            IN <<Load(0)>> \o p.code
               \o CompileE(e.es[i], p.cm \o matched, t, Append(at, i))
               \o <<Drop(Len(p.cm)), Jump(done), Label(next)>>
    IN CompileE(e.e, c, FALSE, Append(at, 0)) \o <<Push>>
       \o FlattenSeq([i \in DOMAIN e.es |-> clause(i)])
       \o <<Fail, Label(done), Drop(1)>>

(* compile-raise: the expression is compiled between the rewinding of the    *)
(* stack and the test of the predicate, so it runs once for every frame      *)
CompileRaise(e, c, t, at) ==
    LET try == Gensym(at, "try_handler")
        none == Gensym(at, "no_handler")
        pred == Gensym(at, "pred_ret")
        handled == Gensym(at, "handler_ret")
        handler == Gensym(at, "handler")
    IN <<Label(try), Ins1("Rewind", none)>>
       \o CompileE(e, c, t, Append(at, 1))
       \o <<Push, Ins1("CallPredicate", pred), Label(pred), Ins("PopRaised"),
            Ins1("JumpIfTrue", handler), Ins1("NextFrame", none), Jump(try),
            Label(none), Fail,
            Label(handler), Ins1("CallHandler", handled), Label(handled),
            Ins("Resume")>>

(* compile-with-handlers: a frame for every clause, the last one on top *)
CompileHandlers(ps, hs, e, c, t, at) ==
    IF ps = <<>> THEN CompileE(e, c, t, Append(at, 0))
    ELSE LET l == Gensym(at, "handler_label")
         IN CompileE(Head(hs), c, t, Append(at, 1)) \o <<Push>>
            \o CompileE(Head(ps), <<"#f">> \o c, t, Append(at, 2)) \o <<Push>>
            \o <<Ins1("Install", l)>>
            \o CompileHandlers(Tail(ps), Tail(hs), e, c, t, Append(at, 3))
            \o <<Label(l), Drop(1)>>

CompileE(e, c, t, at) ==
    CASE e.node = "Lit" ->
            <<Ins1(IF e.d.type = "str" THEN "String" ELSE "Const", e.d)>>
      [] e.node = "Var" -> <<Load(lookup(e.x, c))>>
      [] e.node = "Prim" -> CompilePrim(e.p, e.es, c, at)
      [] e.node = "If" -> CompileIf(e, c, t, at)
      [] e.node = "Begin" -> CompileBegin(e, c, t, at)
      [] e.node = "Let" -> CompileLet(e, c, t, at)
      [] e.node = "App" -> CompileApp(e.e, e.es, c, t, at)
      [] e.node = "Apply" -> CompileApply(e, c, t, at)
      [] e.node \in {"LamPlain", "LamRest"} -> CompileLam(e, c)
      [] e.node = "Match" -> CompileMatch(e, c, t, at)
      [] e.node = "Raise" -> CompileRaise(e.e, c, t, at)
      [] e.node = "WithHandlers" -> CompileHandlers(e.ps, e.hs, e.e, c, t, at)

-----------------------------------------------------------------------------
(* compile-lambda-define: on entry the arguments lie on the stack above the  *)
(* closure and the return address; a rest parameter first collects the extra *)
(* ones into a list.  The environment of the closure is then pushed.         *)
CompileLambda(l, at) ==
    LET fvs == fv(l)
        n == Len(l.xs)
        rest == l.node = "LamRest"
        params == (IF rest THEN <<l.x>> ELSE <<>>) \o Reverse(l.xs)
        env == Reverse(fvs) \o params \o <<"#f">>
    IN <<Label(CodeOf(l.f))>>
       \o (IF rest THEN <<Ins1("AtLeast", n), Ins1("Rest", n), Push>>
                   ELSE <<Ins1("Exactly", n)>>)
       \o <<Load(Len(params)), Ins1("OpenEnv", Len(fvs))>>
       \o CompileE(l.e, env, TRUE, at)
       \o <<Drop(Len(env)), Ins("Ret")>>

CompileLambdas(ls, at) ==
    FlattenSeq([i \in DOMAIN ls |-> CompileLambda(ls[i], Append(at, i))])

(* compile-defines-values: the closures of all definitions are allocated and *)
(* pushed first, then each gets its environment, which may hold the others   *)
CompileDefinesValues(ds) ==
    LET ids == Reverse([i \in DOMAIN ds |-> ds[i].f])
    IN FlattenSeq([i \in DOMAIN ds |->
            <<Ins2("AllocDefine", CodeOf(ds[i].f), Len(fv(ds[i]))), Push>>])
       \o [i \in DOMAIN ds |->
            Ins2("InitDefine", Len(ds) - i, Offsets(fv(ds[i]), ids))]

Compile(p) ==
    LET ids == Reverse([i \in DOMAIN p.ds |-> p.ds[i].f])
    IN <<Ins("Save")>> \o CompileDefinesValues(p.ds)
       \o CompileE(p.e, ids, FALSE, <<1>>)
       \o <<Drop(Len(p.ds)), Ins("Restore"), Ins("Ret")>>
       \o CompileLambdas(p.ds, <<2>>) \o CompileLambdas(lambdas(p), <<3>>)
       \o <<Fail>>
=============================================================================
