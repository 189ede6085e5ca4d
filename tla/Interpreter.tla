----------------------------- MODULE Interpreter -----------------------------
(***************************************************************************)
(* The interpreter of MicroOCaml (interp.rkt, interp-prim.rkt,             *)
(* interp-io.rkt): what a program means.  An environment is a function     *)
(* from identifiers; an answer is a value, 'err, or a value that was       *)
(* raised and not handled yet (the exceptions of the Racket program that   *)
(* interprets), and the world w that the evaluation leaves: the bytes not  *)
(* read yet, those written, and the objects of Racket's memory, which eq?  *)
(* tells apart by their place.                                             *)
(***************************************************************************)
EXTENDS Syntax

Err == Word("err", 0)
Raised(v) == [type |-> "raised", raised |-> v]

Answer(v, w) == [v |-> v, w |-> w]
Stops(a) == a.v.type \in {"err", "raised"}

(* match on 'err, and the propagation of a Racket exception *)
Then(a, F(_, _)) == IF Stops(a) THEN a ELSE F(a.v, a.w)

(* a new object: a sequence of its parts, for a procedure a lambda and its   *)
(* environment                                                               *)
New(type, parts, w) ==
    Answer(Word(type, Len(w.mem) + 1), [w EXCEPT !.mem = Append(@, parts)])
NewList(vs, w) ==
    FoldRight(LAMBDA v, a : New("cons", <<v, a.v>>, a.w), vs, Answer(Empty, w))

(* list? and the elements of a list *)
RECURSIVE IsList(_, _)
IsList(v, mem) == v = Empty \/ (v.type = "cons" /\ IsList(mem[v.n][2], mem))
RECURSIVE Elements(_, _)
Elements(v, mem) ==
    IF v = Empty THEN <<>> ELSE <<mem[v.n][1]>> \o Elements(mem[v.n][2], mem)

ext(r, x, v) == (x :> v) @@ r
zip(xs, vs) == [x \in ToSet(xs) |-> vs[SelectInSeq(xs, LAMBDA y : y = x)]]

-----------------------------------------------------------------------------
codepoint(v) ==
    v.type = "int" /\ (v.n \in 0..55295 \/ v.n \in 57344..1114111)

(* Racket's read-byte and peek-byte *)
InterpPrim0(p, w) ==
    CASE p = "void" -> Answer(Void, w)
      [] p # "void" /\ w.in = <<>> -> Answer(Eof, w)
      [] p = "read-byte" /\ w.in # <<>> ->
            Answer(Num(Head(w.in)), [w EXCEPT !.in = Tail(@)])
      [] p = "peek-byte" /\ w.in # <<>> -> Answer(Num(Head(w.in)), w)

(* the primitives that only look *)
Value1(p, v, mem) ==
    CASE p = "add1" /\ v.type = "int" -> Num(v.n + 1)
      [] p = "sub1" /\ v.type = "int" -> Num(v.n - 1)
      [] p = "zero?" /\ v.type = "int" -> Truth(v.n = 0)
      [] p = "char?" -> Truth(v.type = "char")
      [] p = "integer->char" /\ codepoint(v) -> Char(v.n)
      [] p = "char->integer" /\ v.type = "char" -> Num(v.n)
      [] p = "eof-object?" -> Truth(v = Eof)
      [] p = "unbox" /\ v.type = "box" -> mem[v.n][1]
      [] p = "car" /\ v.type = "cons" -> mem[v.n][1]
      [] p = "cdr" /\ v.type = "cons" -> mem[v.n][2]
      [] p = "empty?" -> Truth(v = Empty)
      [] p = "cons?" -> Truth(v.type = "cons")
      [] p = "box?" -> Truth(v.type = "box")
      [] p = "vector?" -> Truth(v.type = "vect")
      [] p = "string?" -> Truth(v.type = "str")
      [] \/ p = "vector-length" /\ v.type = "vect"
         \/ p = "string-length" /\ v.type = "str" -> Num(Len(mem[v.n]))
      [] OTHER -> Err

InterpPrim1(p, v, w) ==
    CASE p = "box" -> New("box", <<v>>, w)
      [] p = "write-byte" /\ v.type = "int" /\ v.n \in 0..255 ->
            Answer(Void, [w EXCEPT !.out = Append(@, v.n)])
      [] OTHER -> Answer(Value1(p, v, w.mem), w)

Value2(p, v1, v2, mem) ==
    LET ints == v1.type = "int" /\ v2.type = "int" IN
    CASE p = "+" /\ ints -> Num(v1.n + v2.n)
      [] p = "-" /\ ints -> Num(v1.n - v2.n)
      [] p = "<" /\ ints -> Truth(v1.n < v2.n)
      [] p = "=" /\ ints -> Truth(v1.n = v2.n)
      [] p = "eq?" -> Truth(v1 = v2)
      [] \/ p = "vector-ref" /\ v1.type = "vect" /\ v2.type = "int"
         \/ p = "string-ref" /\ v1.type = "str" /\ v2.type = "int" ->
            IF v2.n + 1 \in DOMAIN mem[v1.n] THEN mem[v1.n][v2.n + 1] ELSE Err
      [] OTHER -> Err

InterpPrim2(p, v1, v2, w) ==
    CASE p = "cons" -> New("cons", <<v1, v2>>, w)
      [] p = "make-vector" /\ v1.type = "int" /\ v1.n >= 0 ->
            New("vect", [i \in 1..v1.n |-> v2], w)
      [] p = "make-string" /\ v1.type = "int" /\ v1.n >= 0 /\ v2.type = "char" ->
            New("str", [i \in 1..v1.n |-> v2], w)
      [] OTHER -> Answer(Value2(p, v1, v2, w.mem), w)

InterpPrim3(p, v1, v2, v3, w) ==
    IF v1.type = "vect" /\ v2.type = "int" /\ v2.n + 1 \in DOMAIN w.mem[v1.n]
    THEN Answer(Void, [w EXCEPT !.mem[v1.n][v2.n + 1] = v3])
    ELSE Answer(Err, w)

InterpPrim(p, vs, w) ==
    CASE p = "list" -> NewList(vs, w)
      [] p = "vector" -> New("vect", vs, w)
      [] OTHER -> CASE vs = <<>> -> InterpPrim0(p, w)
                    [] Len(vs) = 1 -> InterpPrim1(p, vs[1], w)
                    [] Len(vs) = 2 -> InterpPrim2(p, vs[1], vs[2], w)
                    [] Len(vs) = 3 -> InterpPrim3(p, vs[1], vs[2], vs[3], w)

(* interp-match-pat: the environment of a match, or none *)
RECURSIVE InterpPattern(_, _, _, _)
InterpPattern(p, v, r, mem) ==
    CASE p.node = "Var" -> {IF p.x = "_" THEN r ELSE ext(r, p.x, v)}
      [] p.node = "Lit" -> IF p.d = v THEN {r} ELSE {}
      [] p.node = "Box" ->
            IF v.type = "box" THEN InterpPattern(p.p, mem[v.n][1], r, mem) ELSE {}
      [] p.node = "Cons" ->
            IF v.type = "cons"
            THEN UNION {InterpPattern(p.p2, mem[v.n][2], r1, mem) :
                            r1 \in InterpPattern(p.p1, mem[v.n][1], r, mem)}
            ELSE {}
      [] p.node = "Conj" ->
            UNION {InterpPattern(p.p2, v, r1, mem) :
                       r1 \in InterpPattern(p.p1, v, r, mem)}

-----------------------------------------------------------------------------
RECURSIVE InterpEnv(_, _, _, _), InterpList(_, _, _, _), Call(_, _, _, _),
          HandleExceptions(_, _, _, _, _)

NewClosure(lam, r, w) == New("proc", [lam |-> lam, env |-> r], w)

(* interp-var: a binding, else a procedure made of a definition, else 'err *)
InterpVar(x, r, ds, w) ==
    LET d == {i \in DOMAIN ds : ds[i].f = x} IN
    CASE x \in DOMAIN r /\ r[x] # Err -> Answer(r[x], w)
      [] ~(x \in DOMAIN r /\ r[x] # Err) /\ d # {} -> NewClosure(ds[Min(d)], <<>>, w)
      [] OTHER -> Answer(Err, w)

(* interp-env*: the values of a list of expressions, left to right *)
InterpList(es, r, ds, w) ==
    IF es = <<>> THEN [v |-> [type |-> "values", vs |-> <<>>], w |-> w]
    ELSE Then(InterpEnv(Head(es), r, ds, w), LAMBDA v, w1 :
         Then(InterpList(Tail(es), r, ds, w1), LAMBDA vs, w2 :
              Answer([vs EXCEPT !.vs = <<v>> \o @], w2)))

(* the procedures that LamPlain and LamRest evaluate to, with their arity    *)
(* checks, and 'err for a value that is no procedure                         *)
Call(f, vs, ds, w) ==
    LET proc == w.mem[f.n]
        xs == proc.lam.xs
        n == Len(xs)
        rest == NewList(SubSeq(vs, n + 1, Len(vs)), w)
    IN CASE f.type = "proc" /\ proc.lam.node = "LamPlain" /\ Len(vs) = n ->
               InterpEnv(proc.lam.e, zip(xs, vs) @@ proc.env, ds, w)
         [] f.type = "proc" /\ proc.lam.node = "LamRest" /\ Len(vs) >= n ->
               InterpEnv(proc.lam.e,
                         ext(zip(xs, SubSeq(vs, 1, n)) @@ proc.env, proc.lam.x, rest.v),
                         ds, rest.w)
         [] OTHER -> Answer(Err, w)

InterpMatch(v, ps, es, r, ds, w) ==
    LET hits == {i \in DOMAIN ps : InterpPattern(ps[i], v, r, w.mem) # {}}
    IN IF hits = {} THEN Answer(Err, w)
       ELSE LET i == Min(hits)
            IN InterpEnv(es[i], CHOOSE r1 \in InterpPattern(ps[i], v, r, w.mem) : TRUE, ds, w)

(* handle-exceptions: the first predicate that does not answer #f decides *)
HandleExceptions(v, ps, hs, ds, w) ==
    IF ps = <<>> THEN Answer(Raised(v), w)
    ELSE Then(Call(Head(ps), <<v>>, ds, w), LAMBDA a, w1 :
              IF a = False
              THEN HandleExceptions(v, Tail(ps), Tail(hs), ds, w1)
              ELSE Call(Head(hs), <<v>>, ds, w1))

(* interp-with-handlers: predicates and handlers first, then the body *)
InterpWithHandlers(e, r, ds, w) ==
    Then(InterpList(e.ps, r, ds, w), LAMBDA ps, w1 :
    Then(InterpList(e.hs, r, ds, w1), LAMBDA hs, w2 :
        LET a == InterpEnv(e.e, r, ds, w2)
        IN IF a.v.type = "raised"
           THEN HandleExceptions(a.v.raised, ps.vs, hs.vs, ds, a.w) ELSE a))

InterpEnv(e, r, ds, w) ==
    CASE e.node = "Lit" /\ e.d.type = "str" ->
            New("str", [i \in DOMAIN e.d.n |-> Char(e.d.n[i])], w)
      [] e.node = "Lit" /\ e.d.type # "str" -> Answer(e.d, w)
      [] e.node = "Var" -> InterpVar(e.x, r, ds, w)
      [] e.node = "Prim" ->
            Then(InterpList(e.es, r, ds, w), LAMBDA vs, w1 :
                 InterpPrim(e.p, vs.vs, w1))
      [] e.node = "If" ->
            Then(InterpEnv(e.e1, r, ds, w), LAMBDA v, w1 :
                 InterpEnv(IF v # False THEN e.e2 ELSE e.e3, r, ds, w1))
      [] e.node = "Begin" ->
            Then(InterpEnv(e.e1, r, ds, w), LAMBDA v, w1 :
                 InterpEnv(e.e2, r, ds, w1))
      [] e.node = "Let" ->
            Then(InterpEnv(e.e1, r, ds, w), LAMBDA v, w1 :
                 InterpEnv(e.e2, ext(r, e.x, v), ds, w1))
      [] e.node = "App" ->
            Then(InterpList(<<e.e>> \o e.es, r, ds, w), LAMBDA vs, w1 :
                 Call(Head(vs.vs), Tail(vs.vs), ds, w1))
      [] e.node = "Apply" ->
            Then(InterpList(<<e.ef>> \o e.es \o <<e.e>>, r, ds, w), LAMBDA vs, w1 :
                 IF IsList(Last(vs.vs), w1.mem)
                 THEN Call(Head(vs.vs),
                           Tail(Front(vs.vs)) \o Elements(Last(vs.vs), w1.mem), ds, w1)
                 ELSE Answer(Err, w1))
      [] e.node = "Match" ->
            Then(InterpEnv(e.e, r, ds, w), LAMBDA v, w1 :
                 InterpMatch(v, e.ps, e.es, r, ds, w1))
      [] e.node \in {"LamPlain", "LamRest"} -> NewClosure(e, r, w)
      [] e.node = "Raise" ->
            LET a == InterpEnv(e.e, r, ds, w)
            IN IF a.v.type = "raised" THEN a ELSE Answer(Raised(a.v), a.w)
      [] e.node = "WithHandlers" -> InterpWithHandlers(e, r, ds, w)

(* interp: what is raised and not handled is an error *)
Interp(p) ==
    LET a == InterpEnv(p.e, <<>>, p.ds, [in |-> p.in, out |-> <<>>, mem |-> <<>>])
    IN IF a.v.type = "raised" THEN Answer(Err, a.w) ELSE a
=============================================================================
