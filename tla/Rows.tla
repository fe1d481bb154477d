-------------------------------- MODULE Rows --------------------------------
(***************************************************************************)
(* Rows of record types as the elaborator sees them, their unification     *)
(* (src/src/elaborated/elaborate.rs, unify_rows) and the proof that two    *)
(* of them share no field (src/src/elaborated/disjointness_analysis.rs).   *)
(*                                                                         *)
(* A row is the sequence of the pieces its concatenations join: fields,    *)
(* unknown tails (unification cells) and rigid rows (variables of the      *)
(* program).  Cells solved so far are a function from cells to rows: a     *)
(* cell outside its domain is unknown.                                     *)
(*                                                                         *)
(* Left out: applications of map (and guess_map, which only they need),    *)
(* field names that are variables, kinds, cells made under further binders *)
(* and the scopes of cells.                                                *)
(***************************************************************************)
EXTENDS Naturals, SequencesExt

CONSTANT
    Canon      \* the lower-case form of each field name

Field(n, t) == <<"field", n, t>>
Unif(c) == <<"unif", c>>
Rigid(x) == <<"rigid", x>>

\* The pieces of a row that are of some kinds, in order.
OfKind(row, kinds) ==
    FlattenSeq([i \in DOMAIN row |-> IF row[i][1] \in kinds THEN <<row[i]>> ELSE <<>>])

Fields(row) == OfKind(row, {"field"})
Tails(row) == OfKind(row, {"unif"})
Others(row) == OfKind(row, {"rigid"})

\* Every solved cell of a row replaced once by what it was solved to.
Expand(known, row) ==
    FlattenSeq([i \in DOMAIN row |->
        IF row[i][1] = "unif" /\ row[i][2] \in DOMAIN known THEN known[row[i][2]] ELSE <<row[i]>>])

\* A row as record_summary and decompose_row see it: no solved cell is left.  What
\* cells are solved to being acyclic, no expansion goes through a cell twice.
Normal(known, row) ==
    LET depth == Cardinality(DOMAIN known)
        expanded[k \in 0..depth] == IF k = 0 THEN row ELSE Expand(known, expanded[k - 1])
    IN expanded[depth]

-----------------------------------------------------------------------------
(* Unification of rows                                                     *)

SamePiece(p, q) ==
    IF p[1] = "field" /\ q[1] = "field" THEN Canon[p[2]] = Canon[q[2]] /\ p[3] = q[3] ELSE p = q

\* What is left of two rows once the pieces they share are taken from both.
First(S) == CHOOSE i \in S : \A j \in S : i <= j
Matches(p, row) == {i \in DOMAIN row : SamePiece(p, row[i])}
Eat(rest, p) ==
    IF Matches(p, rest.right) = {}
    THEN [rest EXCEPT !.left = Append(@, p)]
    ELSE [rest EXCEPT !.right = RemoveAt(@, First(Matches(p, @)))]
EatMatching(left, right) ==
    LET rest[k \in 0..Len(left)] ==
            IF k = 0 THEN [left |-> <<>>, right |-> right] ELSE Eat(rest[k - 1], left[k])
    IN rest[Len(left)]

Solved(known, c, row) == [d \in DOMAIN known \cup {c} |-> IF d = c THEN row ELSE known[d]]
AllEmpty(known, tails) ==
    LET cells == {p[2] : p \in ToSet(tails)}
    IN [d \in DOMAIN known \cup cells |-> IF d \in cells THEN <<>> ELSE known[d]]
OnlyTails(row) == row # <<>> /\ Tails(row) = row
OneTail(row) == Len(Tails(row)) = 1
Closed(row) == Tails(row) = <<>> /\ Others(row) = <<>>
Occurs(c, row) == \E i \in DOMAIN row : row[i] = Unif(c)

\* The rules of unify_rows: each returns what is known afterwards, as the only
\* member of a set, or no member when it does not apply.  "side" is the row whose
\* tails a rule solves.
TailsToEmpty(known, side, other) ==
    IF other = <<>> /\ OnlyTails(side) THEN {AllEmpty(known, side)} ELSE {}

RigidToFirst(known, side, other) ==
    IF Len(other) = 1 /\ Others(other) = other /\ OnlyTails(side)
    THEN {AllEmpty(Solved(known, side[1][2], other), SubSeq(side, 2, Len(side)))}
    ELSE {}

\* The first of several tails takes the other row's fields; the rest of them is then
\* unified with the other row's tail.  On the left side, a single unknown cell left
\* over is the one that is assigned.
PeelLeading(known, side, other, isLeft) ==
    IF OnlyTails(side) /\ Len(side) >= 2 /\ Others(other) = <<>> /\ OneTail(other)
    THEN LET first == Solved(known, side[1][2], Fields(other))
             rest == Normal(first, SubSeq(side, 2, Len(side)))
             tail == Tails(other)[1]
         IN {IF isLeft /\ Len(rest) = 1 /\ OnlyTails(rest)
             THEN Solved(first, rest[1][2], <<tail>>)
             ELSE Solved(first, tail[2], rest)}
    ELSE {}

OneTailTakesAll(known, side, other) ==
    IF OneTail(side) /\ Tails(side) = side /\ ~Occurs(side[1][2], other)
    THEN {Solved(known, side[1][2], Fields(other) \o Tails(other) \o Others(other))}
    ELSE {}

DefinitelyDistinct(left, right) ==
    \A i \in DOMAIN Fields(left), j \in DOMAIN Fields(right) : Fields(left)[i][2] # Fields(right)[j][2]

SharedTail(known, left, right, fresh) ==
    IF /\ OneTail(left) /\ OneTail(right) /\ Others(left) = <<>> /\ Others(right) = <<>>
       /\ DefinitelyDistinct(left, right)
    THEN {Solved(Solved(known, Tails(left)[1][2], Append(Fields(right), Unif(fresh))),
                 Tails(right)[1][2], Append(Fields(left), Unif(fresh)))}
    ELSE {}

\* side: a rigid row and a tail; other: fields and a tail.
RigidSharedTail(known, side, other, fresh) ==
    IF /\ OneTail(side) /\ OneTail(other)
       /\ Fields(side) = <<>> /\ Len(Others(side)) = 1 /\ Others(other) = <<>>
    THEN {Solved(Solved(known, Tails(side)[1][2], Append(Fields(other), Unif(fresh))),
                 Tails(other)[1][2], Append(Others(side), Unif(fresh)))}
    ELSE {}

\* The rules in the order in which unify_rows tries them.
Rules(known, l, r, fresh) ==
    << TailsToEmpty(known, l, r), TailsToEmpty(known, r, l),
       RigidToFirst(known, r, l), RigidToFirst(known, l, r),
       PeelLeading(known, l, r, TRUE), PeelLeading(known, r, l, FALSE),
       OneTailTakesAll(known, l, r), OneTailTakesAll(known, r, l),
       SharedTail(known, l, r, fresh),
       RigidSharedTail(known, l, r, fresh), RigidSharedTail(known, r, l, fresh) >>

Ok(known) == [result |-> "ok", known |-> known]
Err(known) == [result |-> "error", known |-> known]
Delayed(known) == [result |-> "delayed", known |-> known]

UnifyRows(known, left, right, fresh, mayDelay) ==
    LET rest == EatMatching(Normal(known, left), Normal(known, right))
        l == rest.left
        r == rest.right
        rules == Rules(known, l, r, fresh)
        applicable == {i \in DOMAIN rules : rules[i] # {}}
    IN IF l = <<>> /\ r = <<>> THEN Ok(known)
       ELSE IF Closed(l) /\ Closed(r) THEN Err(known)
       ELSE IF applicable # {} THEN Ok(CHOOSE k \in rules[First(applicable)] : TRUE)
       ELSE IF mayDelay THEN Delayed(known) ELSE Err(known)

\* Mutant: no occurs check.
UnifyConsUnchecked(known, left, right, fresh, mayDelay) ==
    LET l == Normal(known, left)
        r == Normal(known, right)
        Assign(c, row) == Ok(Solved(known, c, row))
    IN IF l = r THEN Ok(known)
       ELSE IF Len(l) = 1 /\ OnlyTails(l) THEN Assign(l[1][2], r)
       ELSE IF Len(r) = 1 /\ OnlyTails(r) THEN Assign(r[1][2], l)
       ELSE UnifyRows(known, left, right, fresh, mayDelay)

\* unify_cons on two rows: equal rows and single unknown cells first.
UnifyCons(known, left, right, fresh, mayDelay) ==
    LET l == Normal(known, left)
        r == Normal(known, right)
        Assign(c, row) == IF Occurs(c, row) THEN Err(known) ELSE Ok(Solved(known, c, row))
    IN IF l = r THEN Ok(known)
       ELSE IF Len(l) = 1 /\ OnlyTails(l) THEN Assign(l[1][2], r)
       ELSE IF Len(r) = 1 /\ OnlyTails(r) THEN Assign(r[1][2], l)
       ELSE UnifyRows(known, left, right, fresh, mayDelay)

-----------------------------------------------------------------------------
(* Disjointness                                                            *)

Known(row) == OfKind(row, {"field", "rigid"})
PieceOf(p) == <<p[1], p[2]>>
IsName(piece) == piece[1] = "field"

Prove1(env, p, q) ==
    IF IsName(p) /\ IsName(q) THEN Canon[p[2]] # Canon[q[2]] ELSE <<p, q>> \in env

AssertApart(known, left, right, env) ==
    LET ps == {PieceOf(p) : p \in ToSet(Known(Normal(known, left)))}
        qs == {PieceOf(q) : q \in ToSet(Known(Normal(known, right)))}
        new == {pq \in ps \X qs : ~(IsName(pq[1]) /\ IsName(pq[2]))}
    IN env \cup new \cup {<<pq[2], pq[1]>> : pq \in new}

\* Of the pairs of a piece with those of a row, the ones not proved.
Unproved(env, p, row) ==
    FlattenSeq([j \in DOMAIN row |->
        IF Prove1(env, PieceOf(p), PieceOf(row[j])) THEN <<>> ELSE << << <<p>>, <<row[j]>> >> >>])

\* The goals left over, as pairs of rows.
Prove(known, env, left, right) ==
    LET l == Normal(known, left)
        r == Normal(known, right)
        ps == Known(l)
        qs == Known(r)
        HalfKnown(a, b) == Tails(a) # <<>> /\ Known(b) # <<>>
        goals == FlattenSeq([i \in DOMAIN ps |-> Unproved(env, ps[i], qs)])
    IN IF HalfKnown(l, r) \/ HalfKnown(r, l) THEN << <<l, r>> >> ELSE goals
=============================================================================
