----------------------------- MODULE MCMicroOCaml -----------------------------
(***************************************************************************)
(* Programs for MicroOCaml: every kind of expression over a few operands,  *)
(* under the surroundings that differ for the compiler (global code, the   *)
(* body of a lambda, of a definition with a rest parameter, of a closure   *)
(* over the variable), loops by tail calls, and exceptions.                *)
(***************************************************************************)
EXTENDS MicroOCaml

Int0(n) == Lit(Num(n))
x == Var("x")
y == Var("y")
z == Var("z")

Each(F(_), s) == <<>> \o [i \in DOMAIN s |-> F(s[i])]
Each2(F(_, _), s, t) ==
    FlattenSeq([i \in DOMAIN s |-> Each(LAMBDA b : F(s[i], b), t)])
Each3(F(_, _, _), s, t, u) ==
    FlattenSeq([i \in DOMAIN s |-> Each2(LAMBDA b, c : F(s[i], b, c), t, u)])

-----------------------------------------------------------------------------
(* (define (f a b) (if (zero? a) b (f (sub1 a) (cons a b))))                 *)
(* (define (g a . r) (cons a r))                                             *)
F == LamPlain("f", <<"a", "b">>,
        If(Prim("zero?", <<Var("a")>>), Var("b"),
           App(Var("f"), <<Prim("sub1", <<Var("a")>>),
                           Prim("cons", <<Var("a"), Var("b")>>)>>)))
G == LamRest("g", <<"a">>, "r", Prim("cons", <<Var("a"), Var("r")>>))
Definitions == <<F, G>>

Atoms == <<Int0(1), Lit(False), x>>
Data == <<Lit(Empty), Lit(Char(97)), Prim("cons", <<x, Lit(Empty)>>),
          Prim("box", <<x>>), Prim("vector", <<x, Int0(2)>>), Prim("void", <<>>),
          Lit(Str(<<97, 955, 98>>)), Lit(Eof)>>
Ops1 == <<"add1", "sub1", "zero?", "char?", "integer->char", "char->integer",
          "box", "unbox", "car", "cdr", "empty?", "cons?", "box?", "vector?",
          "vector-length", "string?", "string-length", "eof-object?", "write-byte">>
Ops2 == <<"+", "-", "<", "=", "cons", "make-vector", "vector-ref",
          "string-ref">>

Inner == LamPlain("l1", <<"y">>, Prim("list", <<x, y>>))
Curried == LamPlain("l2", <<"y">>,
               LamRest("l3", <<"z">>, "r", Prim("list", <<x, y, z, Var("r")>>)))

Calls ==
    Each2(LAMBDA a, b : App(Var("f"), <<a, b>>), <<Int0(0), Int0(2), Lit(False)>>, Atoms)
    \o <<App(Var("f"), <<Int0(1)>>), App(Var("g"), <<>>), App(Var("g"), <<x>>),
         App(Var("g"), <<x, Int0(2), Int0(3)>>), App(x, <<Int0(1)>>), Inner,
         App(Inner, <<Int0(2)>>), App(Inner, <<>>),
         App(App(Curried, <<Int0(2)>>), <<Int0(3), Int0(4), Int0(5)>>),
         App(App(Curried, <<Int0(2)>>), <<>>),
         Apply(Var("f"), <<Int0(1)>>, Prim("list", <<x>>)),
         Apply(Var("f"), <<>>, Prim("list", <<Int0(2), x>>)),
         Apply(Var("f"), <<>>, Prim("list", <<x>>)),
         Apply(Var("g"), <<>>, Lit(Empty)), Apply(Var("g"), <<Int0(7)>>, x),
         Apply(Var("g"), <<Int0(7), Int0(8)>>, Prim("list", <<x, x>>)),
         Apply(x, <<>>, Lit(Empty))>>

Patterns ==
    <<Var("_"), Var("y"), Lit(Num(1)), BoxPat(Var("y")),
      ConsPat(Var("y"), Var("_")), ConsPat(Lit(Num(1)), Var("y")),
      ConsPat(Var("y"), ConsPat(Var("_"), Lit(Empty))),
      Conj(Var("y"), ConsPat(Var("z"), Lit(Empty))),
      Conj(ConsPat(Var("z"), Var("_")), Var("y")),
      BoxPat(ConsPat(Conj(Lit(Num(1)), Var("z")), Var("y")))>>
Bound(p) == IF "y" \in BoundBy(p) THEN Prim("list", <<x, y>>) ELSE Prim("box", <<x>>)
Matched ==
    <<Int0(1), x, Prim("box", <<Int0(1)>>), Prim("list", <<Int0(1)>>),
      Prim("list", <<Int0(1), Int0(2)>>),
      Prim("box", <<Prim("cons", <<Int0(1), x>>)>>)>>
Matches ==
    Each2(LAMBDA e, p : Match(e, <<p>>, <<Bound(p)>>), Matched, Patterns)
    \o Each3(LAMBDA e, p, q : Match(e, <<p, q>>, <<Bound(p), Bound(q)>>),
             <<Prim("list", <<Int0(1)>>)>>, Patterns, SubSeq(Patterns, 2, 8))

Simple ==
    Each2(LAMBDA p, a : Prim(p, <<a>>), Ops1, Atoms \o Data)
    \o Each3(LAMBDA p, a, b : Prim(p, <<a, b>>), Ops2, Atoms \o Data, Atoms)
    \o Each3(LAMBDA a, b, c : If(a, b, c), Atoms, Atoms, Atoms)
    \o Each2(LAMBDA a, b : Begin(a, b), Data, Atoms)
    \o Each2(LAMBDA a, b : Let("y", a, Prim("list", <<b, y, x>>)), Data, Atoms)
    \o Each(LAMBDA a : Let("x", Prim("list", <<a, x>>), x), Atoms)
    \o Each(Raise, Atoms)
    \o <<Prim("list", <<>>), Prim("vector", <<>>), Prim("eq?", <<x, x>>)>>

-----------------------------------------------------------------------------
(* Input, output, and objects that are shared and changed. *)
ReadByte == Prim("read-byte", <<>>)
PeekByte == Prim("peek-byte", <<>>)
WriteByte(e) == Prim("write-byte", <<e>>)
Byte == Prim("cons", <<ReadByte, PeekByte>>)
Emit == LamPlain("l4", <<"b">>, Begin(WriteByte(Var("b")), Prim("add1", <<Var("b")>>)))
Bytes == <<7, 254, 128>>

InOut ==
    Each(WriteByte, <<Int0(0), Int0(255), Int0(256), Int0(-1), ReadByte, PeekByte>>)
    \o <<ReadByte, PeekByte, Prim("list", <<PeekByte, ReadByte, Byte, ReadByte, Byte>>),
         Prim("-", <<ReadByte, ReadByte>>), Begin(ReadByte, Begin(Byte, Byte)),
         Begin(WriteByte(ReadByte), Begin(WriteByte(ReadByte), Byte)),
         Begin(WriteByte(Int0(1)), Prim("car", <<Int0(1)>>)),
         Prim("list", <<WriteByte(PeekByte), Raise(Int0(1))>>),
         App(Var("g"), <<ReadByte, PeekByte, ReadByte>>),
         App(Begin(WriteByte(Int0(1)), Var("g")), <<WriteByte(Int0(2)), WriteByte(Int0(3))>>),
         Let("y", ReadByte, App(LamPlain("l5", <<"b">>, Prim("list", <<Var("b"), y, x, ReadByte>>)),
                                <<ReadByte>>)),
         Let("y", Emit, Prim("+", <<App(y, <<ReadByte>>), App(y, <<PeekByte>>)>>)),
         Apply(Emit, <<>>, Prim("list", <<Prim("-", <<ReadByte, Int0(1)>>)>>)),
         Match(ReadByte, <<Lit(Num(8)), Lit(Num(7))>>, <<ReadByte, Prim("list", <<Byte, x>>)>>),
         If(Prim("eof-object?", <<ReadByte>>), Int0(1), Prim("eof-object?", <<PeekByte>>))>>

SetTo(v, i, e) == Prim("vector-set!", <<v, i, e>>)
Indices == <<Int0(-1), Int0(0), Int0(1), Int0(2), Lit(Char(0))>>
VectorOf(n) == Prim("make-vector", <<Int0(n), x>>)
Changed(v, i, e) == Let("y", v, Begin(SetTo(y, i, e), Prim("list", <<y, x>>)))
Objects ==
    Each2(LAMBDA n, i : Changed(VectorOf(n), i, Prim("list", <<x>>)), <<0, 1, 2>>, Indices)
    \o Each2(LAMBDA s, i : Prim("string-ref", <<s, i>>),
             <<Lit(Str(<<>>)), Lit(Str(<<955>>)), Lit(Str(<<97, 8224>>)),
               Prim("make-string", <<Int0(0), Lit(Char(97))>>),
               Prim("make-string", <<Int0(2), Lit(Char(120171))>>)>>, Indices)
    \o Each2(LAMBDA n, e : Prim("make-string", <<n, e>>),
             <<Int0(-1), Int0(0), Int0(1), Int0(3), x>>, <<Lit(Char(955)), x>>)
    \o Each(LAMBDA e : Changed(e, Int0(0), Int0(9)), Data)
    \o Each2(LAMBDA a, b : Prim("eq?", <<a, b>>), Data \o <<x>>, <<Lit(Empty), Lit(Eof), x>>)
    \o <<Let("y", VectorOf(2), Let("z", Prim("cons", <<y, y>>),
             Begin(SetTo(Prim("car", <<z>>), Int0(1), Prim("box", <<y>>)),
             Begin(SetTo(Prim("cdr", <<z>>), Int0(0), Int0(4)),
                   Prim("list", <<Prim("eq?", <<Prim("car", <<z>>), y>>),
                                  Prim("eq?", <<Prim("box", <<y>>), Prim("box", <<y>>)>>),
                                  Prim("vector-ref", <<y, Int0(0)>>)>>))))),
         Let("y", VectorOf(1), Let("z", LamPlain("l6", <<"b">>, SetTo(y, Int0(0), Var("b"))),
             Begin(App(z, <<Int0(6)>>), Prim("cons", <<x, y>>)))),
         Let("y", VectorOf(2), Begin(SetTo(y, ReadByte, ReadByte), y)),
         Let("y", VectorOf(8), Begin(SetTo(y, ReadByte, ReadByte), y)),
         Prim("cons", <<Prim("cons", <<Prim("vector", <<VectorOf(1), Prim("vector", <<>>)>>),
                                       Prim("box", <<Lit(Empty)>>)>>),
                        Prim("cons", <<Lit(Str(<<34, 92>>)), Int0(-3)>>)>>)>>

Effects == InOut \o Objects

Some == Calls \o SubSeq(Matches, 1, 20)
             \o <<Let("y", Int0(2), Prim("cons", <<y, x>>)), If(x, Int0(1), Int0(2)), Raise(x)>>

(* an expression as an operand of another *)
Nested ==
    Each(LAMBDA e : Prim("cons", <<Int0(1), e>>), Some)
    \o Each(LAMBDA e : Prim("list", <<e, x, e>>), Calls)
    \o Each(LAMBDA e : If(e, x, Int0(2)), Some)
    \o Each(LAMBDA e : If(Lit(False), x, e), Some)
    \o Each(LAMBDA e : Let("y", e, Prim("list", <<x, y>>)), Some)
    \o Each(LAMBDA e : Let("w", Int0(6), e), Some)
    \o Each(LAMBDA e : Begin(e, e), Matches)
    \o Each(LAMBDA e : App(Var("g"), <<Int0(1), e>>), Some)
    \o Each(LAMBDA e : Match(e, <<ConsPat(Var("a"), Var("b"))>>, <<Prim("list", <<x, Var("b")>>)>>), Some)
    \o Each(LAMBDA e : Match(x, <<Var("v")>>, <<e>>), Some)

Expressions == Simple \o Calls \o Matches \o Effects \o Nested

(* the surroundings of an expression over x *)
Global(e) == ProgOn(Bytes, Definitions, Let("x", Int0(5), e))
InLambda(e) ==
    ProgOn(Bytes, Definitions, Prim("list", <<Int0(7), App(LamPlain("l0", <<"x">>, e), <<Int0(5)>>), Int0(8)>>))
InRest(e) ==
    ProgOn(Bytes, Definitions \o <<LamRest("h", <<"u">>, "x", e)>>,
         App(Var("h"), <<Int0(3), Int0(1), Int0(2)>>))
InClosure(e) ==
    ProgOn(Bytes, Definitions, Let("x", Prim("list", <<Int0(1)>>),
                          App(LamPlain("l0", <<"v">>, Begin(Var("v"), e)), <<Int0(9)>>)))

Expressed ==
    Each(Global, Expressions) \o Each(InLambda, Expressions)
    \o Each(InRest, Expressions) \o Each(InClosure, Expressions)

-----------------------------------------------------------------------------
(* Loops by tail calls: below let and match, with a rest parameter, and      *)
(* through another definition.                                               *)
Loop == LamPlain("loop", <<"n", "acc">>,
           If(Prim("zero?", <<Var("n")>>), Var("acc"),
              Let("v", Prim("sub1", <<Var("n")>>),
                  Match(Prim("cons", <<Var("n"), Var("acc")>>),
                        <<Conj(Var("c"), ConsPat(Var("_"), Var("_")))>>,
                        <<App(Var("loop"), <<Var("v"), Var("c")>>)>>))))
RestLoop == LamRest("restloop", <<"n">>, "r",
               If(Prim("zero?", <<Var("n")>>), Var("r"),
                  App(Var("restloop"), <<Prim("sub1", <<Var("n")>>), Var("n"), Var("n")>>)))
Ping == LamPlain("ping", <<"n">>,
           If(Prim("zero?", <<Var("n")>>), Lit(True),
              Begin(Var("n"), App(Var("pong"), <<Prim("sub1", <<Var("n")>>), Var("n")>>))))
Pong == LamPlain("pong", <<"n", "u">>,
           If(Prim("zero?", <<Var("n")>>), Lit(False),
              App(Var("ping"), <<Prim("sub1", <<Var("n")>>)>>)))
Echo == LamPlain("echo", <<"b">>,
           If(Prim("eof-object?", <<Var("b")>>), Var("b"),
              Begin(WriteByte(Var("b")), App(Var("echo"), <<ReadByte>>))))
LoopDefinitions == <<Loop, RestLoop, Ping, Pong, Echo>>

Rounds == [i \in 1..8 |-> Int0(i)]
Loops ==
    Each(LAMBDA n : Prog(LoopDefinitions, App(Var("loop"), <<n, Lit(Empty)>>)), Rounds)
    \o Each(LAMBDA n : Prog(LoopDefinitions, App(Var("restloop"), <<n>>)), Rounds)
    \o Each(LAMBDA n : Prog(LoopDefinitions, App(Var("ping"), <<n>>)), Rounds)
    \o Each(LAMBDA n : ProgOn([i \in 1..(2 * n.d.n) |-> 20 * i - (i % 7)], LoopDefinitions,
                              App(Var("echo"), <<ReadByte>>)), SubSeq(Rounds, 1, 6))

-----------------------------------------------------------------------------
(* Exceptions: bodies that raise a value that does not depend on a variable. *)
Is(k) == LamPlain("p" \o ToString(k), <<"x">>, Prim("=", <<x, Int0(k)>>))
Adds(k) == LamPlain("h" \o ToString(k), <<"x">>, Prim("+", <<x, Int0(k)>>))
Handle(k, e) == WithHandlers(<<Is(k)>>, <<Adds(k)>>, e)
Raises == Raise(Int0(42))
Raiser == LamPlain("r", <<"a", "b">>, Let("c", Var("a"), Begin(Raises, Var("b"))))

Raising ==
    <<Raises, Prim("list", <<Int0(1), Prim("add1", <<Raises>>)>>),
      Let("y", Int0(1), Match(y, <<Lit(Num(2)), Var("z")>>, <<y, Raises>>)),
      App(Raiser, <<Int0(1), Int0(2)>>), Prim("+", <<Int0(1), App(Raiser, <<Int0(1), Int0(2)>>)>>),
      Raise(Prim("+", <<Int0(40), Int0(2)>>)), Raise(Lit(False))>>
Caught ==
    Each(LAMBDA e : Handle(42, e), Raising)
    \o Each(LAMBDA e : Handle(41, e), Raising)
    \o Each(LAMBDA e : Handle(42, Handle(41, e)), Raising)
    \o Each(LAMBDA e : Handle(42, Handle(41, Handle(40, e))), Raising)
    \o Each(LAMBDA e : WithHandlers(<<Is(42), Is(41)>>, <<Adds(1), Adds(2)>>, e), Raising)
    \o Each(LAMBDA h : WithHandlers(<<Is(42)>>, <<h>>, Raises),
            <<Int0(1), LamRest("h", <<>>, "x", x), LamPlain("h", <<>>, Int0(1)), G>>)
    \o Each(LAMBDA p : WithHandlers(<<p>>, <<Adds(1)>>, Raises),
            <<Int0(1), LamRest("p", <<>>, "x", x), LamPlain("p", <<>>, Int0(1)),
              LamPlain("p", <<"x">>, Prim("car", <<x>>))>>)
Handled ==
    Each(LAMBDA e : Prog(<<>>, e), Caught \o Raising)
    \o Each(LAMBDA e : Prog(<<>>, Let("u", Int0(5), Prim("list", <<Var("u"), e, Var("u")>>))), Caught)
    \o Each(LAMBDA e : Prog(<<LamPlain("k", <<"u">>, e)>>,
                            Prim("list", <<Int0(3), App(Var("k"), <<Int0(4)>>)>>)),
            SubSeq(Caught, 1, 3))

CompiledPrograms == Expressed \o Handled \o Loops
LoopIndices == (Len(Expressed) + Len(Handled) + 1)..Len(CompiledPrograms)

(* Bodies that return normally, as all code that may raise does most days. *)
UnraisedPrograms ==
    Each(LAMBDA e : Prog(<<>>, Handle(42, e)), <<Int0(1), Prim("add1", <<Int0(1)>>)>>)
    \o Each(LAMBDA e : Prog(<<>>, Let("u", Int0(5), Prim("list", <<Var("u"), Handle(42, e)>>))),
            <<Int0(1), Prim("add1", <<Int0(1)>>)>>)

(* The byte 255, as any byte a file may hold. *)
BytePrograms ==
    Each(LAMBDA e : ProgOn(<<255, 7>>, <<>>, e),
         <<ReadByte, PeekByte, Byte, Begin(PeekByte, ReadByte)>>)
=============================================================================
