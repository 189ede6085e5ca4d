-------------------------------- MODULE Parser --------------------------------
(***************************************************************************)
(* parse.rkt.  The reader of Racket makes a datum, a symbol or a list of a *)
(* text; the rest of a list is empty or holds the symbol behind the dot.   *)
(* lambda may also be written as the Greek letter.                         *)
(***************************************************************************)
EXTENDS Syntax

Datum(d) == [kind |-> "datum", d |-> d]
Symbol(name) == [kind |-> "symbol", name |-> name]
Dotted(ss, rest) == [kind |-> "list", ss |-> ss, rest |-> rest]
List(ss) == Dotted(ss, <<>>)

IsSymbol(s) == s.kind = "symbol"
IsProper(s) == s.kind = "list" /\ s.rest = <<>>
IsPair(s) == IsProper(s) /\ Len(s.ss) = 2
Begins(s, name) == s.kind = "list" /\ s.ss # <<>> /\ s.ss[1] = Symbol(name)
(* a list of n forms behind the word name *)
IsForm(s, name, n) == IsProper(s) /\ Begins(s, name) /\ Len(s.ss) = n + 1

op0 == {"read-byte", "peek-byte", "void"}
op1 == {"add1", "sub1", "zero?", "char?", "integer->char", "char->integer",
        "write-byte", "eof-object?", "box", "unbox", "empty?", "cons?", "box?",
        "car", "cdr", "vector?", "vector-length", "string?", "string-length"}
op2 == {"+", "-", "<", "=", "eq?", "cons", "make-vector", "vector-ref",
        "make-string", "string-ref"}
op3 == {"vector-set!"}
opN == {"list", "vector"}

(* a primitive with as many operands as it takes; with others it is called  *)
(* like a variable                                                          *)
IsPrim(s) ==
    /\ IsProper(s) /\ s.ss # <<>> /\ IsSymbol(s.ss[1])
    /\ \/ s.ss[1].name \in opN
       \/ Len(s.ss) <= 4 /\ s.ss[1].name \in <<op0, op1, op2, op3>>[Len(s.ss)]

IsEmptyLiteral(s) == IsForm(s, "quote", 1) /\ s.ss[2] = List(<<>>)
IsLet(s) == IsForm(s, "let", 2) /\ IsProper(s.ss[2]) /\ Len(s.ss[2].ss) = 1
            /\ IsPair(s.ss[2].ss[1]) /\ IsSymbol(s.ss[2].ss[1].ss[1])
IsApply(s) == IsProper(s) /\ Begins(s, "apply") /\ Len(s.ss) > 2
IsMatch(s) == Begins(s, "match") /\ Len(s.ss) > 1
IsHandlers(s) == IsForm(s, "with-handlers", 2) /\ IsProper(s.ss[2])
                 /\ \A i \in DOMAIN s.ss[2].ss : IsPair(s.ss[2].ss[i])
IsDefine(s) == IsForm(s, "define", 2) /\ s.ss[2].kind = "list"
               /\ s.ss[2].ss # <<>> /\ IsSymbol(s.ss[2].ss[1])

(* what is no expression: the whole program is refused *)
Refused == [node |-> "Refused"]

(* A bug for the mutants: the symbol behind the dot is a name like the rest. *)
parse_param_listFlat(f, ss, rest, e) ==
    LamPlain(f, [i \in DOMAIN (ss \o rest) |-> (ss \o rest)[i].name], e)

parse_param_list(f, ss, rest, e) ==
    LET xs == [i \in DOMAIN ss |-> ss[i].name] IN
    IF \E i \in DOMAIN ss : ~IsSymbol(ss[i]) THEN Refused
    ELSE IF rest = <<>> THEN LamPlain(f, xs, e)
    ELSE LamRest(f, xs, rest[1].name, e)

RECURSIVE parse_pat(_)
parse_pat(s) ==
    CASE s.kind = "datum" -> Lit(s.d)
      [] IsSymbol(s) -> Var(s.name)
      [] IsEmptyLiteral(s) -> Lit(Empty)
      [] IsForm(s, "box", 1) -> BoxPat(parse_pat(s.ss[2]))
      [] IsForm(s, "cons", 2) -> ConsPat(parse_pat(s.ss[2]), parse_pat(s.ss[3]))
      [] IsForm(s, "and", 2) -> Conj(parse_pat(s.ss[2]), parse_pat(s.ss[3]))
      [] OTHER -> Refused

(* The symbol that gensym makes for a lambda is its place in the program.   *)
RECURSIVE parse_e(_, _)
parse_e(s, at) ==
    LET sub(i) == parse_e(s.ss[i], at \o <<i>>)
        subs(i, j) == [k \in 1..(j - i + 1) |-> sub(i + k - 1)]
        clauses == SubSeq(s.ss, 3, Len(s.ss))
        (* the k-th forms of the bindings, the handlers *)
        column(k) == [i \in DOMAIN s.ss[2].ss |->
                          parse_e(s.ss[2].ss[i].ss[k], at \o <<2, i, k>>)]
    IN
    CASE s.kind = "datum" -> Lit(s.d)
      [] IsSymbol(s) -> IF s.name = "eof" THEN Lit(Eof) ELSE Var(s.name)
      [] IsEmptyLiteral(s) -> Lit(Empty)
      [] IsPrim(s) -> Prim(s.ss[1].name, subs(2, Len(s.ss)))
      [] IsForm(s, "begin", 2) -> Begin(sub(2), sub(3))
      [] IsForm(s, "if", 3) -> If(sub(2), sub(3), sub(4))
      [] IsLet(s) -> Let(s.ss[2].ss[1].ss[1].name, column(2)[1], sub(3))
      [] IsApply(s) -> Apply(sub(2), subs(3, Len(s.ss) - 1), sub(Len(s.ss)))
      [] IsMatch(s) ->
            IF s.rest # <<>> \/ \E i \in DOMAIN clauses : ~IsPair(clauses[i]) THEN Refused
            ELSE Match(sub(2), [i \in DOMAIN clauses |-> parse_pat(clauses[i].ss[1])],
                       [i \in DOMAIN clauses |-> parse_e(clauses[i].ss[2], at \o <<i + 2>>)])
      [] IsForm(s, "lambda", 2) ->
            CASE IsSymbol(s.ss[2]) -> parse_param_list(at, <<>>, <<s.ss[2]>>, sub(3))
              [] s.ss[2].kind = "list" ->
                    parse_param_list(at, s.ss[2].ss, s.ss[2].rest, sub(3))
              [] OTHER -> Refused
      [] IsForm(s, "raise", 1) -> Raise(sub(2))
      [] IsHandlers(s) -> WithHandlers(column(1), column(2), sub(3))
      [] OTHER -> IF IsProper(s) /\ s.ss # <<>> THEN App(sub(1), subs(2, Len(s.ss)))
                  ELSE Refused

parse_define(s, at) ==
    IF IsDefine(s)
    THEN parse_param_list(s.ss[2].ss[1].name, Tail(s.ss[2].ss), s.ss[2].rest,
                          parse_e(s.ss[3], at))
    ELSE Refused

(* the definitions, and one form that is none *)
parse(ss) ==
    LET n == Len(ss) IN
    IF n > 0 /\ \A i \in 1..n : Begins(ss[i], "define") <=> i < n
    THEN Prog([i \in 1..(n - 1) |-> parse_define(ss[i], <<i>>)], parse_e(ss[n], <<n>>))
    ELSE Refused
=============================================================================
