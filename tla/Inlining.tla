------------------------------ MODULE Inlining ------------------------------
(***************************************************************************)
(* The reduction of monomorphic programs                                   *)
(* (src/src/monomorphized/mono_reduce.rs): functions are applied, bindings *)
(* put in the place of their variables, cases of known values decided, and *)
(* small functions of the file copied to where they are named.  Reads of   *)
(* the database, writes to it and to the page are expressions like any     *)
(* other; what may be moved past what is decided by lists of effects       *)
(* (summarize, verify_compatible).                                         *)
(*                                                                         *)
(* The file is one helper, Named(1), and the body of one handler with two  *)
(* parameters: an optional value, Rel(1), and an action, Rel(0).  Records, *)
(* signals and JavaScript are left out, and with them the rules for fields *)
(* and those that repair types (strip_spurious_unit_app excepted).         *)
(***************************************************************************)
EXTENDS MonoExp

CONSTANTS
    MonoInline,    \* settings.mono_inline: the size up to which functions are copied
    PassesMax      \* bound: passes over the file

VARIABLES
    source,        \* the file as it came: [helper, body]
    file,          \* the file now
    passes         \* how many passes have been made

vars == <<source, file, passes>>

HandlerEnv == <<Action, Option>>

(***************************************************************************)
(* Impurity.  env has the type of every variable, the innermost first;     *)
(* c.impures are the functions of the file that may have effects.          *)
(***************************************************************************)
RECURSIVE simple_impure(_, _, _, _), impure_rough(_), summarize(_, _), passive(_),
          ResultType(_, _), verify_compatible(_, _), reduce_exp(_, _, _), reduce_node(_, _, _),
          FirstMatch(_, _, _)

pat_binds(env, p) ==
    CASE p = "none" -> env
      [] p = "some" -> <<Value>> \o env
      [] p = "var"  -> <<Option>> \o env

\* The environment of the i-th part of e.
Under(env, e, i) ==
    CASE e.op = "abs" -> <<e.d.dom>> \o env
      [] e.op = "let" /\ i = 2 -> <<e.d>> \o env
      [] e.op = "query" /\ i = 2 -> <<Value, Value>> \o env
      [] e.op = "case" /\ i > 1 -> pat_binds(env, e.d.pats[i - 1])
      [] OTHER -> env

simple_impure(global, c, env, e) ==
    CASE e.op \in {"write", "query", "dml"} -> TRUE
      [] e.op = "ffiapp" -> e.d
      [] e.op = "named" -> e.d \in c.impures
      [] e.op = "rel" -> e.d < Len(env) /\ IsFunction(env[e.d + 1])
      [] e.op = "app" -> ~global
      [] OTHER -> \E i \in DOMAIN e.kids : simple_impure(global, c, Under(env, e, i), e.kids[i])

impure_rough(e) ==
    CASE e.op \in {"write", "query", "dml", "error", "ffiapp", "app"} -> TRUE
      [] e.op \in {"abs", "prim", "rel", "named", "none"} -> FALSE
      [] OTHER -> \E i \in DOMAIN e.kids : impure_rough(e.kids[i])

(***************************************************************************)
(* The effects of an expression in their order, and where it uses the      *)
(* variable d (-1: no variable).  The arms of a case follow each other,    *)
(* and d is not counted up for what their patterns bind.                   *)
(***************************************************************************)
Concat(s) == FlattenSeq(s)

Deeper(d, n) == IF d >= 0 THEN d + n ELSE d

summarize(d, e) ==
    LET parts == [i \in DOMAIN e.kids |-> summarize(d, e.kids[i])]
    IN CASE e.op = "rel" -> IF d >= 0 /\ e.d = d THEN <<"UseRel">> ELSE <<>>
         [] e.op \in {"prim", "named", "abs"} -> <<>>
         [] e.op \in {"ffiapp", "app"} -> Append(Concat(parts), "Unsure")
         [] e.op = "write" -> Append(parts[1], "WritePage")
         [] e.op = "dml" -> Append(parts[1], "WriteDb")
         [] e.op = "error" -> <<"Abort">>
         [] e.op = "let" -> parts[1] \o summarize(Deeper(d, 1), e.kids[2])
         [] e.op = "query" ->
              parts[1] \o <<"ReadDb">> \o summarize(Deeper(d, 2), e.kids[2]) \o parts[3]
         [] OTHER -> Concat(parts)

impure_ctx(c, env, e) ==
    /\ simple_impure(FALSE, c, env, e)
    /\ impure_rough(e)
    /\ summarize(-1, e) # <<>>

(***************************************************************************)
(* Whether e' may move to where the list of effects uses its variable.     *)
(***************************************************************************)
\* Mutant: a read may move past a write to the database.
VerifyReadsPass(effs, has) ==
    /\ effs # <<>>
    /\ LET eff == Head(effs)
           rest == Tail(effs)
       IN CASE eff = "Unsure" -> FALSE
            [] eff = "UseRel" -> "UseRel" \notin Range(rest)
            [] eff = "WritePage" -> "WritePage" \notin has /\ verify_compatible(rest, has)
            [] eff \in {"ReadDb", "WriteDb"} -> "WriteDb" \notin has /\ verify_compatible(rest, has)
            [] eff = "Abort" -> TRUE

verify_compatible(effs, has) ==
    /\ effs # <<>>
    /\ LET eff == Head(effs)
           rest == Tail(effs)
       IN CASE eff = "Unsure" -> FALSE
            [] eff = "UseRel" -> "UseRel" \notin Range(rest)
            [] eff = "WritePage" -> "WritePage" \notin has /\ verify_compatible(rest, has)
            [] eff = "ReadDb" -> "WriteDb" \notin has /\ verify_compatible(rest, has)
            [] eff = "WriteDb" -> {"WriteDb", "ReadDb"} \cap has = {} /\ verify_compatible(rest, has)
            [] eff = "Abort" -> TRUE

MayMove(e, b) ==
    LET has == Range(summarize(0, e)) \ {"UseRel"}
        effs == summarize(0, b)
    IN /\ \/ has = {}
          \/ "Unsure" \notin has /\ verify_compatible(effs, has)
          \/ effs # <<>> /\ effs[1] = "UseRel" /\ "UseRel" \notin Range(Tail(effs))
       /\ count_free(0, b) = 1
       /\ ~free_in_abs(b)

passive(e) ==
    \/ e.op \in {"prim", "rel", "named", "abs", "none", "unit"}
    \/ e.op = "some" /\ passive(e.kids[1])

(***************************************************************************)
(* The rules.  The parts of an expression are reduced before it, and what  *)
(* a rule makes is reduced again.                                          *)
(***************************************************************************)
\* <<>>: the type is not known.  The body of a let is looked up in the environment
\* outside of it.
ResultType(env, e) ==
    CASE e.op = "prim" -> Value
      [] e.op = "unit" -> UnitType
      [] e.op = "rel" -> IF e.d < Len(env) THEN env[e.d + 1] ELSE <<>>
      [] e.op = "named" -> Action
      [] e.op = "abs" -> e.d.dom \o e.d.ran
      [] e.op = "let" -> ResultType(env, e.kids[2])
      [] e.op = "app" -> LET t == ResultType(env, e.kids[1])
                         IN IF Len(t) > 1 THEN Tail(t) ELSE <<>>
      [] OTHER -> <<>>

strip_spurious_unit_app(env, f, e) == e.op = "unit" /\ Len(ResultType(env, f)) = 1

do_let(c, env, t, e, b) ==
    LET Keep == Let(t, e, b)
        Sub == reduce_exp(c, env, sub_exp_in_exp(0, e, b))
        TrySub == IF e.op = "case" THEN Keep ELSE Sub
    IN CASE e.op = "abs" /\ count_free(0, b) = 1 -> Sub
         [] impure_ctx(c, env, e) -> IF MayMove(e, b) THEN TrySub ELSE Keep
         [] OTHER -> IF count_free(0, b) > 1 /\ ~c.full /\ ~passive(e) THEN Keep ELSE TrySub

ReduceLet(c, env, t, e, b) ==
    CASE e.op = "let" ->
           reduce_exp(c, env, Let(e.d, e.kids[1], Let(t, e.kids[2], lift_exp_in_exp(1, b))))
      [] e.op # "let" /\ b.op = "abs" /\ b.d.dom = UnitType /\ ~IsFunction(b.d.ran)
                      /\ ~impure_ctx(c, env, e) ->
           Abs(UnitType, b.d.ran,
               reduce_exp(c, <<UnitType>> \o env,
                          Let(t, lift_exp_in_exp(0, e), swap_exp_vars(0, b.kids[1]))))
      [] OTHER -> do_let(c, env, t, e, b)

ReduceApp(c, env, f, e) ==
    CASE strip_spurious_unit_app(env, f, e) -> reduce_exp(c, env, f)
      [] ~strip_spurious_unit_app(env, f, e) /\ f.op = "abs" ->
           IF impure_ctx(c, env, e) \/ (~c.full /\ count_free(0, f.kids[1]) > 1)
           THEN reduce_exp(c, env, Let(f.d.dom, e, f.kids[1]))
           ELSE reduce_exp(c, env, sub_exp_in_exp(0, e, f.kids[1]))
      [] ~strip_spurious_unit_app(env, f, e) /\ f.op = "let" ->
           reduce_exp(c, env, Let(f.d, f.kids[1], App(f.kids[2], lift_exp_in_exp(0, e))))
      [] OTHER -> App(f, e)

\* A case between functions becomes a function with the case inside.
arm_safe(arm) == Range(summarize(0, arm)) \subseteq {"UseRel", "Abort"}

PushArm(p, arm) ==
    LET n == pat_binds_n(p)
    IN CASE arm.op = "abs" -> swap_exp_vars_pat(0, n, arm.kids[1])
         [] arm.op = "error" -> arm
         [] OTHER -> App(lift_exp_in_exp(n, arm), Rel(n))

push_case(e) ==
    LET arms == Tail(e.kids)
        t == e.d.result
    IN IF IsFunction(t) /\ \A i \in DOMAIN arms : arm_safe(arms[i])
       THEN Abs(<<t[1]>>, Tail(t),
                Case(lift_exp_in_exp(0, e.kids[1]), e.d.pats,
                     [i \in DOMAIN arms |-> PushArm(e.d.pats[i], arms[i])], Tail(t)))
       ELSE e

\* "Yes", "No" or "Maybe", and what the variable of the pattern stands for.
match_pat(p, e) ==
    CASE p = "var" -> <<"Yes", <<e>>>>
      [] p = "none" /\ e.op = "none" -> <<"Yes", <<>>>>
      [] p = "some" /\ e.op = "some" -> <<"Yes", <<e.kids[1]>>>>
      [] {p, e.op} = {"none", "some"} -> <<"No", <<>>>>
      [] OTHER -> <<"Maybe", <<>>>>

\* The first arm, from the i-th on, that is not known to be the wrong one.
FirstMatch(e, pats, i) ==
    IF i <= Len(pats) /\ match_pat(pats[i], e)[1] = "No" THEN FirstMatch(e, pats, i + 1) ELSE i

search_arms(c, env, e) ==
    LET disc == e.kids[1]
        pats == e.d.pats
        i == FirstMatch(disc, pats, 1)
        arm == e.kids[i + 1]
        match == match_pat(pats[i], disc)
        \* the types of the environment are those inside the arm, whatever became of its variable
        inside == pat_binds(env, pats[i])
    IN CASE i > Len(pats) -> push_case(e)
         [] i <= Len(pats) /\ match[1] = "Maybe" -> push_case(e)
         [] i <= Len(pats) /\ match = <<"Yes", <<>>>> -> reduce_exp(c, inside, arm)
         [] OTHER ->
              reduce_exp(c, inside,
                  IF count_free(0, arm) > 1 THEN Let(inside[1], match[2][1], arm)
                  ELSE sub_exp_in_exp(0, match[2][1], arm))

reduce_node(c, env, e) ==
    CASE e.op = "named" -> IF c.inline THEN c.helper ELSE e
      [] e.op = "app" -> ReduceApp(c, env, e.kids[1], e.kids[2])
      [] e.op = "let" -> ReduceLet(c, env, e.d, e.kids[1], e.kids[2])
      [] e.op = "case" -> IF impure_ctx(c, env, e.kids[1]) THEN push_case(e)
                          ELSE search_arms(c, env, e)
      [] OTHER -> e

reduce_exp(c, env, e) ==
    reduce_node(c, env,
        [e EXCEPT !.kids = [i \in DOMAIN @ |-> reduce_exp(c, Under(env, e, i), @[i])]])

(***************************************************************************)
(* A pass over the file: what is impure and how often the helper is named  *)
(* is found out before, the helper is reduced first and may be copied into *)
(* the handler.  FULL_MODE, set by mono_inline, comes with the largest     *)
(* mono_inline.                                                            *)
(***************************************************************************)
may_inline(uses, e, full) == uses > 0 /\ (uses <= 1 \/ full \/ exp_size(e) <= MonoInline)

Function(body) == Abs(UnitType, UnitType, body)

reduce_once(f, full) ==
    LET none == [impures |-> {}]
        helper == Function(f.helper)
        c == [impures |-> IF simple_impure(TRUE, none, <<>>, helper) THEN {1} ELSE {},
              full |-> full, inline |-> FALSE, helper |-> helper]
        reduced == reduce_exp(c, <<>>, helper)
        uses == NamedUses(1, f.body)
    IN [helper |-> reduced.kids[1],
        body |-> reduce_exp([c EXCEPT !.inline = may_inline(uses, reduced, full),
                                      !.helper = reduced],
                            HandlerEnv, f.body)]

Start(helper, body) ==
    /\ source = [helper |-> helper, body |-> body]
    /\ file = source
    /\ passes = 0

\* The compiler makes passes in both modes (mono_reduce, mono_inline and
\* mono_post_js_cleanup of src/src/compiler.rs), and repeats one that pushed a case.
Reduce(full) ==
    /\ passes < PassesMax
    /\ file' = reduce_once(file, full)
    /\ passes' = passes + 1
    /\ UNCHANGED source

Next == \E full \in BOOLEAN : Reduce(full)

-----------------------------------------------------------------------------
(***************************************************************************)
(* What an expression does, as the reference the passes are held against:  *)
(* arguments before calls, the first of two before the second, the body of *)
(* a query once for each of Rows rows.  w is the world: the page and the   *)
(* writes to the database so far, and whether the transaction was given    *)
(* up, after which nothing happens.  A read sees how many writes there     *)
(* were; an unknown function writes to both.                               *)
(***************************************************************************)
Rows == 2

RECURSIVE Eval(_, _, _, _), EvalAll(_, _, _, _, _), EvalRows(_, _, _, _, _, _)

Result(v, w) == [v |-> v, w |-> w]
External(w, v) ==
    Result(<<"answer", v, Len(w.page), Len(w.db)>>,
           [w EXCEPT !.page = Append(@, <<"call", v>>), !.db = Append(@, <<"call", v>>)])

\* The expressions of a sequence from the i-th on: their values and the last world.
EvalAll(f, env, w, es, vs) ==
    IF Len(vs) = Len(es) THEN Result(vs, w)
    ELSE LET r == Eval(f, env, w, es[Len(vs) + 1])
         IN EvalAll(f, env, r.w, es, Append(vs, r.v))

EvalRows(f, env, w, body, acc, i) ==
    IF i > Rows THEN Result(acc, w)
    ELSE LET r == Eval(f, <<acc, <<"row", i>>>> \o env, w, body)
         IN EvalRows(f, env, r.w, body, r.v, i + 1)

Matches(p, v) == p = "var" \/ p = v[1]
Bound(p, v) ==
    CASE p = "none" -> <<>> [] p = "some" -> <<v[2]>> [] p = "var" -> <<v>>

Apply(f, w, fn, v) ==
    CASE fn[1] = "fun" -> Eval(f, <<v>> \o fn[3], w, fn[2])
      [] fn[1] = "action" -> External(w, v)
      [] OTHER -> Result(<<"stuck">>, w)

Eval(f, env, w, e) ==
    IF w.dead THEN Result(<<"dead">>, w)
    ELSE CASE e.op = "rel" -> Result(IF e.d < Len(env) THEN env[e.d + 1] ELSE <<"unbound">>, w)
           [] e.op = "named" -> Result(<<"fun", f.helper, <<>>>>, w)
           [] e.op = "abs" -> Result(<<"fun", e.kids[1], env>>, w)
           [] e.op = "let" -> LET r == Eval(f, env, w, e.kids[1])
                              IN Eval(f, <<r.v>> \o env, r.w, e.kids[2])
           [] e.op = "case" ->
                LET r == Eval(f, env, w, e.kids[1])
                    arms == {i \in DOMAIN e.d.pats : Matches(e.d.pats[i], r.v)}
                IN IF r.w.dead \/ arms = {} THEN Result(<<"stuck">>, r.w)
                   ELSE LET i == CHOOSE j \in arms : \A k \in arms : j <= k
                        IN Eval(f, Bound(e.d.pats[i], r.v) \o env, r.w, e.kids[i + 1])
           [] e.op = "query" ->
                LET r == EvalAll(f, env, w, <<e.kids[1], e.kids[3]>>, <<>>)
                    start == <<"read", r.v[1], r.v[2], Len(r.w.db)>>
                IN EvalRows(f, env, r.w, e.kids[2], start, 1)
           [] OTHER ->
                LET r == EvalAll(f, env, w, e.kids, <<>>)
                IN CASE r.w.dead -> r
                     [] ~r.w.dead /\ e.op = "write" ->
                          Result(<<"unit">>, [r.w EXCEPT !.page = Append(@, r.v[1])])
                     [] ~r.w.dead /\ e.op = "dml" ->
                          Result(<<"done", Len(r.w.db)>>, [r.w EXCEPT !.db = Append(@, r.v[1])])
                     [] ~r.w.dead /\ e.op = "error" -> Result(<<"dead">>, [r.w EXCEPT !.dead = TRUE])
                     [] ~r.w.dead /\ e.op = "app" -> Apply(f, r.w, r.v[1], r.v[2])
                     [] ~r.w.dead /\ e.op = "ffiapp" /\ e.d -> External(r.w, r.v[1])
                     [] ~r.w.dead /\ e.op = "seq" -> Result(r.v[2], r.w)
                     [] OTHER -> Result(<<e.op>> \o r.v, r.w)

World0 == [page |-> <<>>, db |-> <<>>, dead |-> FALSE]
Given == { <<"none">>, <<"some", <<"given">>>> }

\* What a request sees of the handler: the page, the writes and the answer, unless the
\* transaction is given up and rolled back.
Seen(r) == IF r.w.dead THEN <<"failed">> ELSE <<"served", r.w.page, r.w.db, r.v>>
Observed(f, given) == Seen(Eval(f, <<<<"action">>, given>>, World0, f.body))

(***************************************************************************)
(* The reduction changes nothing that can be observed: whatever is given,  *)
(* the handler writes the same page and the same rows in the same order,   *)
(* reads the database in the same states, and fails if and only if it did. *)
(***************************************************************************)
EffectsKept == \A given \in Given : Observed(file, given) = Observed(source, given)
=============================================================================
