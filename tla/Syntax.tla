------------------------------- MODULE Syntax -------------------------------
(***************************************************************************)
(* The abstract syntax of MicroOCaml (ast.rkt), whose literals are the     *)
(* values of Words, and the two traversals the compiler needs: the free    *)
(* variables (fv.rkt) and the lambdas (lambdas.rkt) of an expression.      *)
(*                                                                         *)
(* The operands of Prim1, Prim2 and PrimN are one sequence: their number   *)
(* is a matter of the primitive.  Defn f (FunPlain xs e) is written as the *)
(* lambda every user of it turns it into.                                  *)
(***************************************************************************)
EXTENDS Words, Sequences, FiniteSets, SequencesExt

-----------------------------------------------------------------------------
Str(cs) == Word("str", cs)              \* a literal: a sequence of code points

-----------------------------------------------------------------------------
Lit(d) == [node |-> "Lit", d |-> d]
Var(x) == [node |-> "Var", x |-> x]
Prim(p, es) == [node |-> "Prim", p |-> p, es |-> es]
If(e1, e2, e3) == [node |-> "If", e1 |-> e1, e2 |-> e2, e3 |-> e3]
Begin(e1, e2) == [node |-> "Begin", e1 |-> e1, e2 |-> e2]
Let(x, e1, e2) == [node |-> "Let", x |-> x, e1 |-> e1, e2 |-> e2]
App(e, es) == [node |-> "App", e |-> e, es |-> es]
Apply(ef, es, e) == [node |-> "Apply", ef |-> ef, es |-> es, e |-> e]
LamPlain(f, xs, e) == [node |-> "LamPlain", f |-> f, xs |-> xs, e |-> e]
LamRest(f, xs, x, e) ==
    [node |-> "LamRest", f |-> f, xs |-> xs, x |-> x, e |-> e]
Match(e, ps, es) == [node |-> "Match", e |-> e, ps |-> ps, es |-> es]
Raise(e) == [node |-> "Raise", e |-> e]
WithHandlers(ps, hs, e) ==
    [node |-> "WithHandlers", ps |-> ps, hs |-> hs, e |-> e]
(* a program and the bytes on its standard input *)
ProgOn(in, ds, e) == [ds |-> ds, e |-> e, in |-> in]
Prog(ds, e) == ProgOn(<<>>, ds, e)

(* Patterns: Lit and Var are shared with the expressions; "_" binds nothing. *)
BoxPat(p) == [node |-> "Box", p |-> p]
ConsPat(p1, p2) == [node |-> "Cons", p1 |-> p1, p2 |-> p2]
Conj(p1, p2) == [node |-> "Conj", p1 |-> p1, p2 |-> p2]

-----------------------------------------------------------------------------
(* The subexpressions that fv* and lambdas-e visit.  Both leave out the      *)
(* arguments es of an Apply: fv* passes the list where an expression is      *)
(* expected, and lambdas-e likewise, and a list has no clause.               *)
Subexpressions(e) ==
    CASE e.node \in {"Lit", "Var"} -> <<>>
      [] e.node = "Prim" -> e.es
      [] e.node = "If" -> <<e.e1, e.e2, e.e3>>
      [] e.node \in {"Begin", "Let"} -> <<e.e1, e.e2>>
      [] e.node = "App" -> <<e.e>> \o e.es
      [] e.node = "Apply" -> <<e.ef, e.e>>
      [] e.node \in {"LamPlain", "LamRest", "Raise"} -> <<e.e>>
      [] e.node = "Match" -> <<e.e>> \o e.es
      [] e.node = "WithHandlers" -> e.ps \o e.hs \o <<e.e>>

RECURSIVE BoundBy(_)
BoundBy(p) ==
    CASE p.node = "Var" -> {p.x}
      [] p.node = "Lit" -> {}
      [] p.node = "Box" -> BoundBy(p.p)
      [] OTHER -> BoundBy(p.p1) \cup BoundBy(p.p2)

Parameters(lam) ==
    ToSet(lam.xs) \cup IF lam.node = "LamRest" THEN {lam.x} ELSE {}

RECURSIVE FreeVariables(_)
FreeVariables(e) ==
    CASE e.node = "Var" -> {e.x}
      [] e.node = "Let" ->
            FreeVariables(e.e1) \cup (FreeVariables(e.e2) \ {e.x})
      [] e.node \in {"LamPlain", "LamRest"} ->
            FreeVariables(e.e) \ Parameters(e)
      [] e.node = "Match" ->
            FreeVariables(e.e) \cup
            UNION {FreeVariables(e.es[i]) \ BoundBy(e.ps[i]) : i \in DOMAIN e.es}
      [] OTHER ->
            UNION {FreeVariables(Subexpressions(e)[i]) :
                       i \in DOMAIN Subexpressions(e)}

(* fv: the order of the list is that of the closure's environment, any order *)
(* that definition and creation of the closure share will do.                *)
fv(e) == SetToSeq(FreeVariables(e))

RECURSIVE LambdasOf(_)
LambdasOf(e) ==
    LET inner == FlattenSeq([i \in DOMAIN Subexpressions(e) |->
                                 LambdasOf(Subexpressions(e)[i])])
    IN IF e.node \in {"LamPlain", "LamRest"} THEN <<e>> \o inner ELSE inner

lambdas(p) ==
    FlattenSeq([i \in DOMAIN p.ds |-> LambdasOf(p.ds[i].e)]) \o LambdasOf(p.e)
=============================================================================
