----------------------------- MODULE Elaboration -----------------------------
(***************************************************************************)
(* The constraints of the elaborator (src/src/elaborated/elaborate.rs):    *)
(* rows unified while the declarations of a file are elaborated, rows that *)
(* have to be disjoint and folders that have to be built, deferred while   *)
(* too little is known, taken up again between declarations and around     *)
(* the arguments of applications, and solved or reported at the end of the *)
(* file.                                                                   *)
(*                                                                         *)
(* The demands stand for the program: each pair of rows the elaborator     *)
(* would unify, each pair it would want disjoint, each row whose folder it *)
(* would want, in every order.                                             *)
(***************************************************************************)
EXTENDS Rows, FiniteSets

CONSTANTS
    Started,     \* cells in use at the start: 1..Started
    Equations,   \* pairs of rows the program unifies
    Apart,       \* pairs of rows the program wants disjoint
    Assumptions, \* pairs of rows an expression [c1 ~ c2] => e assumes disjoint
    Folders,     \* rows whose folder the program wants
    MaxDemands,  \* bound: demands of one program
    MaxPasses    \* CONSTRAINT_SOLVE_MAX_PASSES

\* The rows of the program: their cells are those in use at the start.
ProgramRows ==
    {e[1] : e \in Equations \cup Apart \cup Assumptions}
        \cup {e[2] : e \in Equations \cup Apart \cup Assumptions} \cup Folders

ASSUME ProgramAssumption ==
    /\ Started \in Nat
    /\ \A row \in ProgramRows :
         /\ row \in Seq(ToSet(row))
         /\ \A p \in ToSet(row) : p[1] \in {"field", "rigid"} \/ \E c \in 1..Started : p = Unif(c)

ASSUME PassesAssumption == MaxPasses \in Nat \ {0}

VARIABLES
    phase,       \* "elaborate", "solve" or "done"
    known,       \* solved cells
    fresh,       \* the next cell to be made
    constraints, \* elaboration_context.constraints
    mayDelay,    \* elaboration_context.may_delay
    envs,        \* disjointness environments of the enclosing scopes, the current one last
    witnesses,   \* folders built: pairs of the row wanted and the fields folded over
    errors,      \* constraints reported
    demands,     \* everything demanded so far
    pending, next, progress, pass,  \* locals of solve_constraints_internal
    older, report, saved            \* locals of its callers

context == <<known, fresh, constraints, mayDelay, witnesses, errors>>
solver == <<pending, next, progress, pass, older, report, saved>>
vars == <<phase, context, envs, demands, solver>>

Equal(l, r) == [kind |-> "equal", left |-> l, right |-> r, env |-> {}]
Disjoint(l, r, env) == [kind |-> "disjoint", left |-> l, right |-> r, env |-> env]
Folder(row) == [kind |-> "folder", left |-> row, right |-> <<>>, env |-> {}]
Goals(env, pairs) == [i \in DOMAIN pairs |-> Disjoint(pairs[i][1], pairs[i][2], env)]
Env == envs[Len(envs)]

-----------------------------------------------------------------------------
(* Elaborating expressions                                                 *)

Demand(d) ==
    /\ phase = "elaborate"
    /\ d \notin demands /\ Cardinality(demands) < MaxDemands
    /\ demands' = demands \cup {d}
    /\ UNCHANGED <<phase, witnesses, solver, mayDelay>>

\* Two rows of which nothing is known are demanded disjoint: prove returns no goal.
Unexamined(l, r) == Known(Normal(known, l)) = <<>> /\ Known(Normal(known, r)) = <<>>
DemandDisjoint(l, r, env) ==
    Demand([Disjoint(l, r, env) EXCEPT !.kind = IF Unexamined(l, r) THEN "unexamined" ELSE "disjoint"])

NextFresh(outcome) ==
    IF \E c \in DOMAIN outcome.known : Occurs(fresh, outcome.known[c]) THEN fresh + 1 ELSE fresh

\* check_con: what cannot be unified is an error at once, what cannot be decided yet
\* a constraint.
CheckCon(l, r) ==
    /\ Demand(Equal(l, r))
    /\ \E outcome \in {UnifyCons(known, l, r, fresh, mayDelay)} :
          /\ known' = outcome.known
          /\ fresh' = NextFresh(outcome)
          /\ constraints' = IF outcome.result = "delayed" THEN Append(constraints, Equal(l, r)) ELSE constraints
          /\ errors' = IF outcome.result = "error" THEN errors \cup {Equal(l, r)} ELSE errors
    /\ UNCHANGED envs

\* A function whose type is guarded by [l ~ r] is applied (elab_head).
DischargeGuard(l, r) ==
    /\ DemandDisjoint(l, r, Env)
    /\ constraints' = constraints \o Goals(Env, Prove(known, Env, l, r))
    /\ UNCHANGED <<known, fresh, errors, envs>>

\* [l ~ r] => e: assumed disjoint in e, and found disjoint under the assumption.
EnterGuarded(l, r) ==
    LET env == AssertApart(known, l, r, Env) IN
    /\ Len(envs) = 1
    /\ DemandDisjoint(l, r, env)
    /\ envs' = Append(envs, env)
    /\ constraints' = constraints \o Goals(env, Prove(known, env, l, r))
    /\ UNCHANGED <<known, fresh, errors>>

LeaveGuarded ==
    /\ phase = "elaborate" /\ Len(envs) > 1
    /\ envs' = SubSeq(envs, 1, Len(envs) - 1)
    /\ UNCHANGED <<phase, context, demands, solver>>

\* An argument of type folder row is left to the elaborator.
WantFolder(row) ==
    /\ Demand(Folder(row))
    /\ constraints' = Append(constraints, Folder(row))
    /\ UNCHANGED <<known, fresh, errors, envs>>

-----------------------------------------------------------------------------
(* Solving constraints                                                     *)

\* Mutant: what is deferred while the solver runs goes to the list that it replaces.
StartSolvingDelaying(start, final) ==
    /\ phase = "elaborate"
    /\ phase' = "solve"
    /\ older' = SubSeq(constraints, 1, start)
    /\ pending' = SubSeq(constraints, start + 1, Len(constraints))
    /\ constraints' = <<>>
    /\ saved' = mayDelay
    /\ mayDelay' = mayDelay
    /\ report' = final
    /\ next' = <<>>
    /\ progress' = FALSE
    /\ pass' = 0
    /\ UNCHANGED <<known, fresh, witnesses, errors, envs, demands>>

\* The constraints from start on are taken out of the context; those before it are
\* kept aside by solve_recent_constraints_deferred.
StartSolving(start, final) ==
    /\ phase = "elaborate"
    /\ phase' = "solve"
    /\ older' = SubSeq(constraints, 1, start)
    /\ pending' = SubSeq(constraints, start + 1, Len(constraints))
    /\ constraints' = <<>>
    /\ saved' = mayDelay
    /\ mayDelay' = FALSE
    /\ report' = final
    /\ next' = <<>>
    /\ progress' = FALSE
    /\ pass' = 0
    /\ UNCHANGED <<known, fresh, witnesses, errors, envs, demands>>

SolveRecent == \E start \in 1..Len(constraints) - 1 : StartSolving(start, FALSE)
SolveDeferred == constraints # <<>> /\ StartSolving(0, FALSE)
SolveFinal == Len(envs) = 1 /\ StartSolving(0, TRUE)

Taken == pending' = SubSeq(pending, 2, Len(pending))

Solving(kind) == phase = "solve" /\ pending # <<>> /\ pending[1].kind = kind

TryDisjoint ==
    /\ Solving("disjoint")
    /\ Taken
    /\ \E goals \in {Prove(known, pending[1].env, pending[1].left, pending[1].right)} :
          /\ next' = next \o Goals(pending[1].env, goals)
          /\ progress' = (progress \/ goals = <<>>)
    /\ UNCHANGED <<phase, context, envs, demands, pass, older, report, saved>>

ClosedRecord(row) == Fields(row) = row

\* resolve_class: a folder can be built for a row of fields alone.
TryFolder ==
    /\ Solving("folder")
    /\ Taken
    /\ \E row \in {Normal(known, pending[1].left)} :
          /\ witnesses' = IF ClosedRecord(row) THEN witnesses \cup {<<pending[1].left, row>>} ELSE witnesses
          /\ next' = IF ClosedRecord(row) THEN next ELSE Append(next, pending[1])
          /\ progress' = (progress \/ ClosedRecord(row))
    /\ UNCHANGED <<phase, known, fresh, constraints, mayDelay, errors, envs, demands, pass, older, report, saved>>

\* Mutant: what failed is appended to the list that is being drained.
TryEqualAgain ==
    /\ Solving("equal")
    /\ \E outcome \in {UnifyRows(known, pending[1].left, pending[1].right, fresh, mayDelay)} :
          /\ known' = outcome.known
          /\ pending' = IF outcome.result = "error" THEN Append(Tail(pending), pending[1]) ELSE Tail(pending)
          /\ fresh' = NextFresh(outcome)
          /\ constraints' = IF outcome.result = "delayed" THEN Append(constraints, pending[1]) ELSE constraints
          /\ progress' = (progress \/ outcome.result # "error")
    /\ UNCHANGED <<phase, next, mayDelay, witnesses, errors, envs, demands, pass, older, report, saved>>

TryEqual ==
    /\ Solving("equal")
    /\ Taken
    /\ \E outcome \in {UnifyRows(known, pending[1].left, pending[1].right, fresh, mayDelay)} :
          /\ known' = outcome.known
          /\ fresh' = NextFresh(outcome)
          /\ constraints' = IF outcome.result = "delayed" THEN Append(constraints, pending[1]) ELSE constraints
          /\ next' = IF outcome.result = "error" THEN Append(next, pending[1]) ELSE next
          /\ progress' = (progress \/ outcome.result # "error")
    /\ UNCHANGED <<phase, mayDelay, witnesses, errors, envs, demands, pass, older, report, saved>>

PassOver == phase = "solve" /\ pending = <<>>
\* Mutant: one pass.
LastPassOne == TRUE

LastPass == next = <<>> \/ ~progress \/ pass + 1 = MaxPasses

NextPass ==
    /\ PassOver /\ ~LastPass
    /\ pending' = next
    /\ next' = <<>>
    /\ progress' = FALSE
    /\ pass' = pass + 1
    /\ UNCHANGED <<phase, context, envs, demands, older, report, saved>>

Finish ==
    /\ PassOver /\ LastPass
    /\ phase' = IF report THEN "done" ELSE "elaborate"
    /\ errors' = IF report THEN errors \cup ToSet(next) ELSE errors
    /\ constraints' = IF report THEN constraints ELSE older \o next
    /\ mayDelay' = saved
    /\ older' = <<>> /\ next' = <<>>
    /\ progress' = FALSE /\ pass' = 0 /\ report' = FALSE /\ saved' = FALSE
    /\ UNCHANGED <<known, fresh, witnesses, envs, demands, pending>>

SolverStep == TryDisjoint \/ TryFolder \/ TryEqual \/ NextPass \/ Finish

Init ==
    /\ phase = "elaborate"
    /\ known = <<>> /\ fresh = Started + 1
    /\ constraints = <<>> /\ mayDelay = TRUE
    /\ envs = <<{}>> /\ witnesses = {} /\ errors = {} /\ demands = {}
    /\ pending = <<>> /\ next = <<>> /\ progress = FALSE /\ pass = 0
    /\ older = <<>> /\ report = FALSE /\ saved = FALSE

Next ==
    \/ \E e \in Equations : CheckCon(e[1], e[2])
    \/ \E e \in Apart : DischargeGuard(e[1], e[2])
    \/ \E e \in Assumptions : EnterGuarded(e[1], e[2])
    \/ LeaveGuarded
    \/ \E row \in Folders : WantFolder(row)
    \/ SolveRecent \/ SolveDeferred \/ SolveFinal
    \/ SolverStep

\* The solver is sequential code that runs on: weak fairness of its steps, some one
\* of which is enabled exactly while it has the constraints.
Fairness == []<>(phase # "solve") \/ []<><<SolverStep>>_vars

Spec == Init /\ [][Next]_vars /\ Fairness

-----------------------------------------------------------------------------
(* Properties                                                              *)

Outstanding == ToSet(constraints) \cup ToSet(pending) \cup ToSet(next) \cup ToSet(older)

\* Cells are made in order, and nothing is deferred into the context while the
\* solver has it.
TypeOK ==
    /\ phase \in {"elaborate", "solve", "done"}
    /\ fresh \in Nat /\ fresh > Started
    /\ DOMAIN known \subseteq 1..fresh - 1
    /\ \A c \in DOMAIN known : \A i \in DOMAIN known[c] :
           known[c][i][1] = "unif" => known[c][i][2] < fresh
    /\ \A d \in Outstanding \cup errors \cup demands : d.kind \in {"equal", "disjoint", "folder", "unexamined"}
    /\ pass \in 0..MaxPasses - 1
    /\ phase = "solve" => constraints = <<>> /\ ~mayDelay
    /\ phase # "solve" => mayDelay /\ pending = <<>> /\ next = <<>> /\ older = <<>>

\* No cell is solved to a row that contains it, however many cells in between: the
\* occurs check of each assignment looks only at the row assigned.
Acyclic ==
    \A c \in DOMAIN known : \A p \in ToSet(Normal(known, <<Unif(c)>>)) : p[1] = "unif" => p[2] \notin DOMAIN known

\* The type invariant: types, and the rows known make sense.
WellFormed == TypeOK /\ Acyclic

HoldsEqual(l, r) == EatMatching(Normal(known, l), Normal(known, r)) = [left |-> <<>>, right |-> <<>>]

\* Two pieces that no instance of the unknown cells can make overlap.
ApartNow(env, p, q) == p[1] # "unif" /\ q[1] # "unif" /\ Prove1(env, PieceOf(p), PieceOf(q))

PiecesOf(row) == ToSet(Normal(known, row))

StillAsked(env, p, q) ==
    \E g \in Outstanding \cup errors :
        g.kind = "disjoint" /\ g.env = env /\ p \in PiecesOf(g.left) /\ q \in PiecesOf(g.right)

\* Nothing the program demanded is forgotten: it holds of the rows as they are known
\* now, for every instance of what is not, or a constraint stands for it, or it was
\* reported.
Met(d) ==
    \/ d \in Outstanding \cup errors
    \/ d.kind = "equal" /\ HoldsEqual(d.left, d.right)
    \/ d.kind = "folder" /\ <<d.left, Normal(known, d.left)>> \in witnesses
    \/ /\ d.kind = "disjoint"
       /\ \A p \in PiecesOf(d.left), q \in PiecesOf(d.right) : ApartNow(d.env, p, q) \/ StillAsked(d.env, p, q)

DemandsMet == \A d \in demands : d.kind # "unexamined" => Met(d)

\* Several unknown tails, of which the first comes back among the others, and one rigid
\* row: the first is assigned the rigid row, and then emptied with the rest.
Repeats(side, other) ==
    /\ Len(other) = 1 /\ Others(other) = other /\ OnlyTails(side)
    /\ \E i \in 2..Len(side) : side[i] = side[1]

NoRepeats(k, left, right) ==
    LET rest == EatMatching(Normal(k, left), Normal(k, right))
    IN  ~Repeats(rest.left, rest.right) /\ ~Repeats(rest.right, rest.left)

\* None of the equations of the program ever comes to that: what rows that are equated
\* need to stay equal (a premise, not a property of the code).
TailsApart == \A e \in Equations : NoRepeats(known, e[1], e[2])

\* A program without errors joins no two rows that were to be disjoint and have a
\* field in common.
NoFieldTwice ==
    phase = "done" /\ errors = {} => \A d \in demands : d.kind \in {"disjoint", "unexamined"} =>
        \A p \in PiecesOf(d.left), q \in PiecesOf(d.right) :
            IsName(p) /\ IsName(q) => Canon[p[2]] # Canon[q[2]]

\* What is reported at the end could not have been solved with what is known then.
ReportsJustified ==
    phase = "done" => \A d \in errors :
        /\ d.kind = "disjoint" => Prove(known, d.env, d.left, d.right) # <<>>
        /\ d.kind = "folder" => Fields(Normal(known, d.left)) # Normal(known, d.left)
        /\ d.kind = "equal" => UnifyRows(known, d.left, d.right, fresh, FALSE).result = "error"

\* A cell is solved once.
SolvedOnce == [][\A c \in DOMAIN known : c \in DOMAIN known' /\ known'[c] = known[c]]_vars

\* Solving ends.
SolvingEnds == phase = "solve" ~> phase # "solve"

=============================================================================
