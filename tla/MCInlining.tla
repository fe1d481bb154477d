---------------------------- MODULE MCInlining -----------------------------
(***************************************************************************)
(* Handlers for TLC: one or two bindings and what follows them.  What the  *)
(* passes are known not to preserve is kept out of MCSpec: the results of  *)
(* writes and calls are units, which only straight code uses; what was     *)
(* read is not written to the database within a loop; no arm of a case     *)
(* fails, or uses its variable and has effects before it uses another, or  *)
(* calls an action that is a variable where the value is known; and no     *)
(* foreign function without effects is applied to an expression with some. *)
(***************************************************************************)
EXTENDS Inlining

VarsOf(ts, types) == {Rel(i - 1) : i \in {j \in DOMAIN ts : ts[j] \in types}}
Vals(ts) == {Prim} \cup VarsOf(ts, {Value})
TheOption(ts) == CHOOSE o \in VarsOf(ts, {Option}) : TRUE

Read(a) == Query(a, Rel(0), Prim)
Does(vals) == UNION {{Write(a), Dml(a)} : a \in vals}
Calls(fns) == {App(f, Unit) : f \in fns}
Known(ts) ==
    Does(Vals(ts)) \cup {Read(a) : a \in Vals(ts)} \cup Calls({Named(1)}) \cup {FfiApp(TRUE, Prim)}
Effects(ts) == Known(ts) \cup Calls(VarsOf(ts, {Action}))
WithUnits(ts) ==
    Effects(ts) \cup Does(VarsOf(ts, {UnitType})) \cup {Read(a) : a \in VarsOf(ts, {UnitType})}

(***************************************************************************)
(* What may be bound, with its type: effects, values, thunks.              *)
(***************************************************************************)
Thunk(e) == Abs(UnitType, UnitType, e)
Rhs(ts) ==
    {<<UnitType, e>> : e \in Does(Vals(ts)) \cup Calls(VarsOf(ts, {Action}) \cup {Named(1)})}
    \cup {<<Value, e>> : e \in {Read(a) : a \in Vals(ts)} \cup {Strcat(a, a) : a \in Vals(ts)}}
    \cup {<<Action, Thunk(e)>> : e \in Effects(<<UnitType>> \o ts)}

(***************************************************************************)
(* What follows: two steps; a case of what the request gave, with two      *)
(* steps in either arm (the second arm does not use its variable before    *)
(* it has effects); a case of a known value; a loop; an action chosen by a *)
(* case, and called after a step; a function applied to an effect;         *)
(* bindings within what is bound.                                          *)
(***************************************************************************)
OptionCase(o, none, some, t) == Case(o, <<"none", "some">>, <<none, some>>, t)

Steps(ts) == {Then(e, f) : e, f \in WithUnits(ts)}
Cases(ts) ==
    {OptionCase(TheOption(ts), Then(e, f), g, Value) :
        e, f \in Effects(ts), g \in Effects(<<Value>> \o ts)}
    \cup {OptionCase(TheOption(ts), g, lift_exp_in_exp(0, Then(e, f)), Value) : e, f, g \in Effects(ts)}
    \cup {OptionCase(o, e, Then(f, f), Value) :
             o \in {None, SomeOf(Prim), SomeOf(Read(Prim))}, e \in Effects(ts), f \in Known(<<Value>> \o ts)}
    \cup {Case(o, <<"var">>, <<Then(e, OptionCase(Rel(0), f, f, Value))>>, Value) :
             o \in {TheOption(ts), SomeOf(Read(Prim))}, e \in Known(<<Option>> \o ts), f \in {Prim, Write(Prim)}}
Loops(ts) ==
    {Then(Query(Prim, e, a), f) :
        e \in Does(Vals(<<Value, Value>>)) \cup {Write(v) : v \in Vals(<<Value, Value>> \o ts)},
        a \in Vals(ts), f \in Effects(ts)}
Chosen(ts) ==
    {Let(Action, OptionCase(TheOption(ts), Thunk(e), Thunk(f), Action), Then(g, App(Rel(0), Unit))) :
        e \in Effects(<<UnitType>> \o ts), f \in Known(<<UnitType, Value>> \o ts),
        g \in Known(<<Action>> \o ts)}
Applied(ts) ==
    {App(Abs(UnitType, Value, Then(e, f)), a) : a \in Effects(ts), e, f \in WithUnits(<<UnitType>> \o ts)}

Ts1(r) == <<r[1]>> \o HandlerEnv
Ts2(r, q) == <<q[1], r[1]>> \o HandlerEnv
Nested(ts) ==
    {Let(UnitType, Let(Value, v, e), Then(f, g)) :
        v \in {Read(Prim), Strcat(Prim, Prim)}, e \in WithUnits(<<Value>> \o ts),
        f, g \in WithUnits(<<UnitType>> \o ts)}
    \cup {Let(Action, Let(Value, v, Thunk(e)), Then(f, App(Rel(0), Unit))) :
        v \in {Read(Prim), Strcat(Prim, Prim)}, e \in WithUnits(<<UnitType, Value>> \o ts),
        f \in WithUnits(<<Action>> \o ts)}
    \cup {App(Let(UnitType, v, Thunk(e)), Unit) :
        v \in Effects(ts), e \in WithUnits(<<UnitType, UnitType>> \o ts)}

MCInit ==
    \E r \in Rhs(HandlerEnv), h \in {Dml(Prim), Write(Prim)} :
        \/ \E e \in UNION {Cases(Ts1(r)), Loops(Ts1(r)), Chosen(Ts1(r)), Applied(Ts1(r))} :
              Start(h, Let(r[1], r[2], e))
        \/ r[1] = Value /\ \E e \in Nested(Ts1(r)) : Start(h, Let(r[1], r[2], e))
        \/ \E q \in Rhs(Ts1(r)) : \E e \in Steps(Ts2(r, q)) :
              Start(h, Let(r[1], r[2], Let(q[1], q[2], e)))

MCSpec == MCInit /\ [][Next]_vars
=============================================================================
