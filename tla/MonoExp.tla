------------------------------ MODULE MonoExp ------------------------------
(***************************************************************************)
(* Expressions of the monomorphic language                                 *)
(* (src/src/monomorphized/mod.rs) and what the passes do to their          *)
(* variables, which are numbers of binders                                 *)
(* (src/src/monomorphized/environment.rs).                                 *)
(*                                                                         *)
(* An expression is a tree of nodes: op says which, d holds what is not an *)
(* expression (a number, a type, the patterns of a case), kids the         *)
(* expressions inside.  Binds says how many variables a node binds in each *)
(* of them, so that whatever walks under binders is one definition over    *)
(* trees instead of one clause for each of the code's thirty constructors. *)
(*                                                                         *)
(* A type is a sequence: the arguments of a function, then its result.     *)
(***************************************************************************)
EXTENDS Integers, SequencesExt

Node(op, d, kids) == [op |-> op, d |-> d, kids |-> kids]

Value == <<"value">>
Option == <<"option">>
UnitType == <<"unit">>
Action == <<"unit", "unit">>
IsFunction(t) == Len(t) > 1

Rel(n) == Node("rel", n, <<>>)
Named(n) == Node("named", n, <<>>)
Prim == Node("prim", 0, <<>>)
Unit == Node("unit", 0, <<>>)
None == Node("none", 0, <<>>)
SomeOf(e) == Node("some", 0, <<e>>)
Strcat(e, f) == Node("strcat", 0, <<e, f>>)
FfiApp(effectful, e) == Node("ffiapp", effectful, <<e>>)
Write(e) == Node("write", 0, <<e>>)
Dml(e) == Node("dml", 0, <<e>>)
Error(e) == Node("error", 0, <<e>>)
Query(q, body, initial) == Node("query", 0, <<q, body, initial>>)
Abs(dom, ran, body) == Node("abs", [dom |-> dom, ran |-> ran], <<body>>)
App(f, e) == Node("app", 0, <<f, e>>)
Then(e, f) == Node("seq", 0, <<e, f>>)
Let(t, e, b) == Node("let", t, <<e, b>>)
\* the arms of a case, with one pattern each: "none", "some" with a variable, "var"
Case(e, pats, arms, result) ==
    Node("case", [pats |-> pats, result |-> result], <<e>> \o arms)

pat_binds_n(p) == IF p = "none" THEN 0 ELSE 1

\* How many variables the node e binds in its i-th part.
Binds(e, i) ==
    CASE e.op = "abs" -> 1
      [] e.op = "let" -> IF i = 2 THEN 1 ELSE 0
      [] e.op = "query" -> IF i = 2 THEN 2 ELSE 0
      [] e.op = "case" -> IF i = 1 THEN 0 ELSE pat_binds_n(e.d.pats[i - 1])
      [] OTHER -> 0

(***************************************************************************)
(* Lifting over a new binder, substitution for one that goes, and the two  *)
(* exchanges of neighbouring binders.                                      *)
(***************************************************************************)
RECURSIVE lift_exp_in_exp(_, _), sub_exp_in_exp(_, _, _), swap_exp_vars_pat(_, _, _),
          count_free(_, _), free_in_abs_aux(_, _), exp_size(_), NamedUses(_, _)

lift_exp_in_exp(bound, e) ==
    IF e.op = "rel"
    THEN IF e.d < bound THEN e ELSE Rel(e.d + 1)
    ELSE [e EXCEPT !.kids = [i \in DOMAIN @ |-> lift_exp_in_exp(bound + Binds(e, i), @[i])]]

multi_lift(n, e) == FoldLeft(LAMBDA x, i : lift_exp_in_exp(0, x), e, [i \in 1..n |-> i])

sub_exp_in_exp(n, rep, e) ==
    IF e.op = "rel"
    THEN CASE e.d = n -> rep [] e.d > n -> Rel(e.d - 1) [] OTHER -> e
    ELSE [e EXCEPT !.kids =
             [i \in DOMAIN @ |->
                 sub_exp_in_exp(n + Binds(e, i), multi_lift(Binds(e, i), rep), @[i])]]

\* The variable lower goes behind the len that follow it.
swap_exp_vars_pat(lower, len, e) ==
    IF e.op = "rel"
    THEN CASE e.d = lower -> Rel(lower + len)
           [] e.d \in (lower + 1)..(lower + len) -> Rel(e.d - 1)
           [] OTHER -> e
    ELSE [e EXCEPT !.kids =
             [i \in DOMAIN @ |-> swap_exp_vars_pat(lower + Binds(e, i), len, @[i])]]

swap_exp_vars(lower, e) == swap_exp_vars_pat(lower, 1, e)

(***************************************************************************)
(* How often a variable occurs, whether under a function, and how often a  *)
(* name of the file does; the size of an expression.                       *)
(***************************************************************************)
SumOf(s) == FoldLeft(LAMBDA x, y : x + y, 0, s)

count_free(n, e) ==
    IF e.op = "rel" THEN (IF e.d = n THEN 1 ELSE 0)
    ELSE SumOf([i \in DOMAIN e.kids |-> count_free(n + Binds(e, i), e.kids[i])])

\* (As in the code, a function's body is searched for the number that the variable
\* has outside of the function.)
free_in_abs_aux(n, e) ==
    \/ e.op = "abs" /\ count_free(n, e.kids[1]) > 0
    \/ \E i \in DOMAIN e.kids : free_in_abs_aux(n + Binds(e, i), e.kids[i])

free_in_abs(e) == free_in_abs_aux(0, e)

exp_size(e) == 1 + SumOf([i \in DOMAIN e.kids |-> exp_size(e.kids[i])])

NamedUses(n, e) ==
    IF e.op = "named" THEN (IF e.d = n THEN 1 ELSE 0)
    ELSE SumOf([i \in DOMAIN e.kids |-> NamedUses(n, e.kids[i])])
=============================================================================
