-------------------------- MODULE ElaborationProofs --------------------------
(***************************************************************************)
(* Proofs about Elaboration.tla, for every program: any rows, demands in   *)
(* any order, any number of cells.                                         *)
(*                                                                         *)
(* unify_rows looks for a cell only in the row it is about to assign, and  *)
(* that row is normal: what could close a cycle is several cells solved    *)
(* between two normalisations.  Cells are ranked, each below those that    *)
(* occur in what it is solved to, and no chain of ranks is longer than     *)
(* there are solved cells: every rule keeps such a ranking, since the rows *)
(* it works on are without solved cells and without cells in common.       *)
(*                                                                         *)
(* From the ranking, normal forms compose: what is known later makes of a  *)
(* row what it makes of the row's earlier normal form.  So a pair of       *)
(* pieces once apart stays apart, and the goals prove returns stand for    *)
(* the demand they replace.  Equality of rows up to order is carried by    *)
(* measures, which add up over concatenations and give a solved cell what  *)
(* it was solved to: eating matching pieces takes as much from both sides, *)
(* each rule makes its two rows weigh the same for each measure that       *)
(* respects what it leaves known, and rows that weigh the same for the     *)
(* measures that count a piece have nothing left over.                     *)
(***************************************************************************)
EXTENDS Elaboration, SequenceTheorems, FiniteSetTheorems, WellFoundedInduction, TLAPS

-----------------------------------------------------------------------------
(* Induction, least members, recursion up to a bound                       *)

LEMMA LeastMember == ASSUME NEW S, S \subseteq Nat, S # {} PROVE \E x \in S : \A y \in S : x <= y
<1> DEFINE R == OpToRel(<, Nat)
<1>1. IsWellFoundedOn(R, Nat)
  BY NatLessThanWellFounded
<1>2. \A x, y \in Nat : y < x => <<y, x>> \in R
  BY DEF OpToRel
<1> HIDE DEF R
<1>3. PICK x \in S : \A y \in S : ~(<<y, x>> \in R)
  BY <1>1, WFMin
<1>4. \A y \in S : ~(y < x)
  BY <1>2, <1>3
<1> QED
  BY <1>4

\* Induction up to n, for a set instead of a predicate.
LEMMA UpTo ==
    ASSUME NEW n \in Nat, NEW S, 0 \in S, \A m \in 0..n : m < n /\ m \in S => m + 1 \in S
    PROVE  0..n \subseteq S
<1> SUFFICES ASSUME ~(0..n \subseteq S) PROVE FALSE
  OBVIOUS
<1> DEFINE Bad == {m \in 0..n : m \notin S}
<1>1. Bad \subseteq Nat /\ Bad # {}
  OBVIOUS
<1>2. PICK m \in Bad : \A y \in Bad : m <= y
  <2> HIDE DEF Bad
  <2> QED BY <1>1, LeastMember
<1>3. m # 0 /\ m \in 0..n /\ m \notin S
  BY <1>2
<1>4. m - 1 \in 0..n /\ m - 1 < n /\ (m - 1) + 1 = m
  BY <1>3
<1>5. m - 1 \in S
  BY <1>2, <1>4
<1> QED
  BY <1>3, <1>4, <1>5

\* A recursion over 0..n has a value.
Recursion(A, base, n, step) == base \in A /\ n \in Nat /\ step \in [1..n -> [A -> A]]

LEMMA Iterates ==
    ASSUME NEW A, NEW base, NEW n, NEW step, Recursion(A, base, n, step)
    PROVE  \E h \in [0..n -> A] : h[0] = base /\ \A k \in 1..n : h[k] = step[k][h[k - 1]]
<1>0. base \in A /\ n \in Nat /\ step \in [1..n -> [A -> A]]
  BY DEF Recursion
<1> DEFINE Upto(m, h) == h \in [0..m -> A] /\ h[0] = base /\ \A k \in 1..m : h[k] = step[k][h[k - 1]]
           S == {m \in 0..n : \E h : Upto(m, h)}
<1>1. 0 \in S
  <2>1. Upto(0, [k \in 0..0 |-> base])
    BY <1>0
  <2> HIDE DEF Upto
  <2> QED
    BY <2>1, <1>0
<1>2. ASSUME NEW m \in 0..n, m < n, m \in S PROVE m + 1 \in S
  <2>1. PICK h : Upto(m, h)
    BY <1>2
  <2> DEFINE g == [k \in 0..m + 1 |-> IF k <= m THEN h[k] ELSE step[m + 1][h[m]]]
  <2>2. h[m] \in A /\ step[m + 1] \in [A -> A]
    BY <2>1, <1>2, <1>0
  <2>3. g \in [0..m + 1 -> A] /\ g[0] = base
    BY <2>1, <2>2, <1>0
  <2>4. ASSUME NEW k \in 1..m + 1 PROVE g[k] = step[k][g[k - 1]]
    <3>1. CASE k <= m
      BY <2>1, <3>1, <1>0
    <3>2. CASE k = m + 1
      BY <3>2, <1>0
    <3> QED
      BY <3>1, <3>2, <1>0
  <2>5. Upto(m + 1, g)
    <3> HIDE DEF g
    <3> QED BY <2>3, <2>4
  <2>6. m + 1 \in 0..n
    BY <1>2, <1>0
  <2> HIDE DEF Upto, g
  <2> QED
    BY <2>5, <2>6
<1>3. n \in S
  <2> HIDE DEF S
  <2>1. 0..n \subseteq S
    BY <1>0, <1>1, <1>2, UpTo
  <2> QED
    BY <2>1, <1>0
<1> QED
  BY <1>3

-----------------------------------------------------------------------------
(* Sequences *)
LEMMA FlattenSteps ==
    ASSUME NEW X, NEW seqs \in Seq(Seq(X))
    PROVE  \E h \in [0..Len(seqs) -> Seq(X)] :
              /\ h[0] = <<>>
              /\ \A k \in 1..Len(seqs) : h[k] = h[k - 1] \o seqs[k]
              /\ FlattenSeq(seqs) = h[Len(seqs)]
<1> DEFINE n == Len(seqs)
           step == [k \in 1..n |-> [s \in Seq(X) |-> s \o seqs[k]]]
<1>1. n \in Nat /\ \A k \in 1..n : seqs[k] \in Seq(X)
  BY LenProperties, ElementOfSeq
<1> HIDE DEF n
<1>2. \A k \in 1..n, s \in Seq(X) : s \o seqs[k] \in Seq(X)
  BY <1>1, ConcatProperties
<1>3. step \in [1..n -> [Seq(X) -> Seq(X)]] /\ <<>> \in Seq(X)
  BY <1>2
<1>4. PICK h \in [0..n -> Seq(X)] : h[0] = <<>> /\ \A k \in 1..n : h[k] = step[k][h[k - 1]]
  <2>1. Recursion(Seq(X), <<>>, n, step)
    BY <1>1, <1>3 DEF Recursion
  <2> HIDE DEF step
  <2> QED BY <2>1, Iterates
<1>5. ASSUME NEW k \in 1..n PROVE h[k] = h[k - 1] \o seqs[k]
  <2>1. k - 1 \in 0..n
    BY <1>1
  <2>2. h[k - 1] \in Seq(X)
    BY <2>1
  <2> QED
    BY <1>4, <2>2
<1>6. CASE n = 0
  <2>1. FlattenSeq(seqs) = <<>>
    BY <1>6, EmptySeq DEF FlattenSeq, n
  <2> QED
    BY <1>4, <1>5, <1>6, <2>1 DEF n
<1>7. CASE n # 0
  <2> DEFINE Def(f) == f = [k \in 1..n |-> IF k = 1 THEN seqs[k] ELSE f[k - 1] \o seqs[k]]
             g == CHOOSE f : Def(f)
             r == [k \in 1..n |-> h[k]]
  <2>1. h[1] = seqs[1]
    <3>1. 1 \in 1..n /\ 1 - 1 = 0
      BY <1>7, <1>1
    <3>2. h[1] = <<>> \o seqs[1]
      BY <3>1, <1>4, <1>5
    <3> QED
      BY <3>1, <3>2, <1>1, ConcatEmptySeq
  <2>2. Def(r)
    <3>1. ASSUME NEW k \in 1..n PROVE r[k] = IF k = 1 THEN seqs[k] ELSE r[k - 1] \o seqs[k]
      <4>1. CASE k = 1
        BY <4>1, <2>1
      <4>2. CASE k # 1
        <5>1. k - 1 \in 1..n
          BY <4>2, <1>1
        <5> QED
          BY <5>1, <1>5, <4>2
      <4> QED
        BY <4>1, <4>2
    <3> QED
      BY <3>1
  <2>3. Def(g)
    <3> HIDE DEF Def
    <3> QED BY <2>2
  <2>4. FlattenSeq(seqs) = g[n]
    BY <1>7 DEF FlattenSeq, n
  <2>5. \A k \in 1..n : g[k] = IF k = 1 THEN seqs[k] ELSE g[k - 1] \o seqs[k]
    <3> HIDE DEF g
    <3> QED BY <2>3
  <2> HIDE DEF g
  <2> DEFINE G == {k \in 0..n : k = 0 \/ g[k] = h[k]}
  <2>6. ASSUME NEW m \in 0..n, m < n, m \in G PROVE m + 1 \in G
    <3>1. m + 1 \in 1..n /\ (m + 1) - 1 = m /\ m + 1 \in 0..n
      BY <2>6, <1>1
    <3>2. CASE m = 0
      BY <3>1, <3>2, <2>5, <2>1
    <3>3. CASE m # 0
      <4>1. g[m] = h[m] /\ m + 1 # 1
        BY <3>3, <2>6
      <4>2. g[m + 1] = g[m] \o seqs[m + 1] /\ h[m + 1] = h[m] \o seqs[m + 1]
        BY <3>1, <4>1, <2>5, <1>5
      <4> QED
        BY <3>1, <4>1, <4>2
    <3> QED
      BY <3>2, <3>3
  <2>7. 0..n \subseteq G
    <3>1. 0 \in G
      BY <1>1
    <3> HIDE DEF G
    <3> QED BY <3>1, <2>6, <1>1, UpTo
  <2>8. g[n] = h[n]
    BY <2>7, <1>1, <1>7
  <2> QED
    BY <1>4, <1>5, <2>4, <2>8 DEF n
<1> QED
  BY <1>6, <1>7

\* The members of a concatenation.
LEMMA ConcatMembers ==
    ASSUME NEW X, NEW s \in Seq(X), NEW t \in Seq(X)
    PROVE  s \o t \in Seq(X) /\ ToSet(s \o t) = ToSet(s) \cup ToSet(t)
<1>1. /\ s \o t \in Seq(X) /\ Len(s \o t) = Len(s) + Len(t)
      /\ \A i \in 1..Len(s) + Len(t) : (s \o t)[i] = IF i <= Len(s) THEN s[i] ELSE t[i - Len(s)]
  BY ConcatProperties
<1>2. /\ DOMAIN (s \o t) = 1..Len(s) + Len(t) /\ DOMAIN s = 1..Len(s) /\ DOMAIN t = 1..Len(t)
      /\ Len(s) \in Nat /\ Len(t) \in Nat
  BY <1>1, LenProperties
<1>3. \A i \in DOMAIN s : i \in DOMAIN (s \o t) /\ (s \o t)[i] = s[i]
  BY <1>1, <1>2
<1>4. \A i \in DOMAIN t : i + Len(s) \in DOMAIN (s \o t) /\ (s \o t)[i + Len(s)] = t[i]
  BY <1>1, <1>2
<1>5. \A i \in DOMAIN (s \o t) : (s \o t)[i] \in ToSet(s) \cup ToSet(t)
  BY <1>1, <1>2 DEF ToSet
<1>6. ToSet(s) \subseteq ToSet(s \o t)
  BY <1>3 DEF ToSet
<1>7. ToSet(t) \subseteq ToSet(s \o t)
  BY <1>4 DEF ToSet
<1>8. ToSet(s \o t) \subseteq ToSet(s) \cup ToSet(t)
  BY <1>5 DEF ToSet
<1> QED
  BY <1>1, <1>6, <1>7, <1>8

LEMMA FlattenMembers ==
    ASSUME NEW X, NEW seqs \in Seq(Seq(X))
    PROVE  /\ FlattenSeq(seqs) \in Seq(X)
           /\ ToSet(FlattenSeq(seqs)) = UNION {ToSet(seqs[i]) : i \in DOMAIN seqs}
<1> DEFINE n == Len(seqs)
<1>1. n \in Nat /\ DOMAIN seqs = 1..n /\ \A k \in 1..n : seqs[k] \in Seq(X)
  BY LenProperties, ElementOfSeq
<1>2. PICK h \in [0..n -> Seq(X)] :
          h[0] = <<>> /\ (\A k \in 1..n : h[k] = h[k - 1] \o seqs[k]) /\ FlattenSeq(seqs) = h[n]
  BY FlattenSteps
<1> HIDE DEF n
<1> DEFINE G == {k \in 0..n : ToSet(h[k]) = UNION {ToSet(seqs[i]) : i \in 1..k}}
<1>3. 0 \in G
  BY <1>1, <1>2 DEF ToSet
<1>4. ASSUME NEW m \in 0..n, m < n, m \in G PROVE m + 1 \in G
  <2>1. m + 1 \in 1..n /\ (m + 1) - 1 = m /\ m + 1 \in 0..n
    BY <1>4, <1>1
  <2>2. h[m + 1] = h[m] \o seqs[m + 1] /\ h[m] \in Seq(X)
    BY <2>1, <1>2
  <2>3. ToSet(h[m + 1]) = ToSet(h[m]) \cup ToSet(seqs[m + 1])
    BY <2>1, <2>2, <1>1, ConcatMembers
  <2>4. 1..m + 1 = 1..m \cup {m + 1}
    OBVIOUS
  <2> QED
    BY <1>4, <2>1, <2>3, <2>4
<1>5. 0..n \subseteq G
  <2> HIDE DEF G
  <2> QED BY <1>1, <1>3, <1>4, UpTo
<1> QED
  BY <1>1, <1>2, <1>5

-----------------------------------------------------------------------------
(* Expanding rows: the ranks of cells                                      *)

\* A solved cell among the pieces, rows without one, and what a piece expands to.
IsSolved(k, p) == p[1] = "unif" /\ p[2] \in DOMAIN k
Clean(k, row) == \A p \in ToSet(row) : ~IsSolved(k, p)
Image(k, p) == IF IsSolved(k, p) THEN ToSet(k[p[2]]) ELSE {p}
Over(k, X) == \A c \in DOMAIN k : k[c] \in Seq(X)

\* No chain of cells is longer than the number of solved ones: cells are ranked, each
\* below those that occur in what it is solved to.
Ranks(k, n, rank) ==
    /\ n \in Nat /\ n <= Cardinality(DOMAIN k)
    /\ rank \in [DOMAIN k -> 1..n]
    /\ \A c \in DOMAIN k : \A p \in ToSet(k[c]) : IsSolved(k, p) => rank[c] < rank[p[2]]
Ranked(k) == \E n, rank : Ranks(k, n, rank)

LEMMA Members == ASSUME NEW X, NEW s \in Seq(X) PROVE ToSet(s) \subseteq X /\ s \in Seq(ToSet(s))
<1>1. Len(s) \in Nat /\ DOMAIN s = 1..Len(s) /\ \A i \in 1..Len(s) : s[i] \in X
  BY LenProperties, ElementOfSeq
<1>2. s \in [1..Len(s) -> ToSet(s)]
  <2>1. \A i \in 1..Len(s) : s[i] \in ToSet(s)
    BY <1>1 DEF ToSet
  <2>2. s \in [1..Len(s) -> X]
    BY LenProperties
  <2> QED
    BY <2>1, <2>2
<1>3. s \in Seq(ToSet(s))
  BY <1>1, <1>2, SeqDef
<1> QED
  BY <1>1, <1>3 DEF ToSet

LEMMA OfKindMembers ==
    ASSUME NEW X, NEW row \in Seq(X), NEW kinds
    PROVE  OfKind(row, kinds) \in Seq(X) /\ ToSet(OfKind(row, kinds)) = {p \in ToSet(row) : p[1] \in kinds}
<1> DEFINE seqs == [i \in DOMAIN row |-> IF row[i][1] \in kinds THEN <<row[i]>> ELSE <<>>]
<1>1. Len(row) \in Nat /\ DOMAIN row = 1..Len(row) /\ \A i \in 1..Len(row) : row[i] \in X
  BY LenProperties, ElementOfSeq
<1>2. \A i \in DOMAIN row : seqs[i] \in Seq(X)
  BY <1>1
<1>3. seqs \in Seq(Seq(X)) /\ DOMAIN seqs = DOMAIN row
  BY <1>1, <1>2
<1>4. \A i \in DOMAIN row : ToSet(seqs[i]) = IF row[i][1] \in kinds THEN {row[i]} ELSE {}
  BY DEF ToSet
<1> HIDE DEF seqs
<1>5. /\ FlattenSeq(seqs) \in Seq(X)
      /\ ToSet(FlattenSeq(seqs)) = UNION {ToSet(seqs[i]) : i \in DOMAIN seqs}
  BY <1>3, FlattenMembers
<1>6. OfKind(row, kinds) = FlattenSeq(seqs)
  BY DEF OfKind, seqs
<1>7. \A p : p \in ToSet(row) <=> \E i \in DOMAIN row : p = row[i]
  BY DEF ToSet
<1>8. UNION {ToSet(seqs[i]) : i \in DOMAIN seqs} = {p \in ToSet(row) : p[1] \in kinds}
  BY <1>3, <1>4, <1>7
<1> QED
  BY <1>5, <1>6, <1>8

LEMMA ExpandMembers ==
    ASSUME NEW X, NEW row \in Seq(X), NEW k, Over(k, X)
    PROVE  Expand(k, row) \in Seq(X) /\ ToSet(Expand(k, row)) = UNION {Image(k, p) : p \in ToSet(row)}
<1> DEFINE seqs == [i \in DOMAIN row |->
                      IF row[i][1] = "unif" /\ row[i][2] \in DOMAIN k THEN k[row[i][2]] ELSE <<row[i]>>]
<1>1. Len(row) \in Nat /\ DOMAIN row = 1..Len(row) /\ \A i \in 1..Len(row) : row[i] \in X
  BY LenProperties, ElementOfSeq
<1>2. \A i \in DOMAIN row : seqs[i] \in Seq(X)
  BY <1>1 DEF Over
<1>3. seqs \in Seq(Seq(X)) /\ DOMAIN seqs = DOMAIN row
  BY <1>1, <1>2
<1>4. \A i \in DOMAIN row : ToSet(seqs[i]) = Image(k, row[i])
  BY DEF ToSet, Image, IsSolved
<1> HIDE DEF seqs
<1>5. /\ FlattenSeq(seqs) \in Seq(X)
      /\ ToSet(FlattenSeq(seqs)) = UNION {ToSet(seqs[i]) : i \in DOMAIN seqs}
  BY <1>3, FlattenMembers
<1>6. Expand(k, row) = FlattenSeq(seqs)
  BY DEF Expand, seqs
<1>7. \A p : p \in ToSet(row) <=> \E i \in DOMAIN row : p = row[i]
  BY DEF ToSet
<1>8. UNION {ToSet(seqs[i]) : i \in DOMAIN seqs} = UNION {Image(k, p) : p \in ToSet(row)}
  BY <1>3, <1>4, <1>7
<1> QED
  BY <1>5, <1>6, <1>8

LEMMA NormalSteps ==
    ASSUME NEW X, NEW row \in Seq(X), NEW k, Over(k, X), Cardinality(DOMAIN k) \in Nat
    PROVE  \E h \in [0..Cardinality(DOMAIN k) -> Seq(X)] :
              /\ h[0] = row
              /\ \A j \in 1..Cardinality(DOMAIN k) : h[j] = Expand(k, h[j - 1])
              /\ Normal(k, row) = h[Cardinality(DOMAIN k)]
<1> DEFINE n == Cardinality(DOMAIN k)
           step == [j \in 1..n |-> [s \in Seq(X) |-> Expand(k, s)]]
           Def(f) == f = [j \in 0..n |-> IF j = 0 THEN row ELSE Expand(k, f[j - 1])]
           g == CHOOSE f : Def(f)
<1>1. Normal(k, row) = g[n]
  BY DEF Normal
<1>2. n \in Nat /\ \A s \in Seq(X) : Expand(k, s) \in Seq(X)
  BY ExpandMembers
<1> HIDE DEF n
<1>3. Recursion(Seq(X), row, n, step)
  BY <1>2 DEF Recursion
<1>4. PICK h \in [0..n -> Seq(X)] : h[0] = row /\ \A j \in 1..n : h[j] = step[j][h[j - 1]]
  <2> HIDE DEF step
  <2> QED BY <1>3, Iterates
<1>5. ASSUME NEW j \in 1..n PROVE h[j] = Expand(k, h[j - 1]) /\ h[j - 1] \in Seq(X)
  <2>1. j - 1 \in 0..n
    BY <1>2
  <2>2. h[j - 1] \in Seq(X)
    BY <2>1
  <2> QED
    BY <1>4, <2>2
<1>6. Def(h)
  BY <1>4, <1>5, <1>2
<1>7. Def(g)
  <2> HIDE DEF Def
  <2> QED BY <1>6
<1>8. g[0] = row /\ \A j \in 1..n : g[j] = Expand(k, g[j - 1])
  <2> HIDE DEF g
  <2> QED BY <1>7, <1>2
<1> HIDE DEF g
<1> DEFINE G == {j \in 0..n : g[j] = h[j]}
<1>9. ASSUME NEW m \in 0..n, m < n, m \in G PROVE m + 1 \in G
  <2>1. m + 1 \in 1..n /\ (m + 1) - 1 = m /\ m + 1 \in 0..n
    BY <1>9, <1>2
  <2>2. g[m + 1] = Expand(k, g[m]) /\ h[m + 1] = Expand(k, h[m])
    BY <2>1, <1>5, <1>8
  <2> QED
    BY <2>1, <2>2, <1>9
<1>10. 0..n \subseteq G
  <2>1. 0 \in G
    BY <1>2, <1>4, <1>8
  <2> HIDE DEF G
  <2> QED BY <2>1, <1>2, <1>9, UpTo
<1>11. g[n] = h[n]
  BY <1>2, <1>10
<1> QED
  BY <1>1, <1>4, <1>5, <1>11 DEF n

LEMMA NormalWithin ==
    ASSUME NEW X, NEW row \in Seq(X), NEW k, Over(k, X), Cardinality(DOMAIN k) \in Nat
    PROVE  Normal(k, row) \in Seq(X)
<1>1. PICK h \in [0..Cardinality(DOMAIN k) -> Seq(X)] : Normal(k, row) = h[Cardinality(DOMAIN k)]
  BY NormalSteps
<1> QED
  BY <1>1

LEMMA NormalClean ==
    ASSUME NEW X, NEW row \in Seq(X), NEW k, Over(k, X), Cardinality(DOMAIN k) \in Nat, Ranked(k)
    PROVE  Clean(k, Normal(k, row))
<1> DEFINE depth == Cardinality(DOMAIN k)
<1>1. PICK n, rank : Ranks(k, n, rank)
  BY DEF Ranked
<1>2. PICK h \in [0..depth -> Seq(X)] :
        h[0] = row /\ (\A j \in 1..depth : h[j] = Expand(k, h[j - 1])) /\ Normal(k, row) = h[depth]
  BY NormalSteps
<1> DEFINE G == {j \in 0..depth : \A p \in ToSet(h[j]) : IsSolved(k, p) => rank[p[2]] > j}
<1>3. 0 \in G
  BY <1>1 DEF Ranks, IsSolved
<1>4. ASSUME NEW m \in 0..depth, m < depth, m \in G PROVE m + 1 \in G
  <2>1. m + 1 \in 1..depth /\ (m + 1) - 1 = m /\ m + 1 \in 0..depth
    BY <1>4
  <2>2. h[m + 1] = Expand(k, h[m]) /\ h[m] \in Seq(X)
    BY <2>1, <1>2
  <2>3. ToSet(h[m + 1]) = UNION {Image(k, p) : p \in ToSet(h[m])}
    BY <2>2, ExpandMembers
  <2>4. ASSUME NEW p \in ToSet(h[m + 1]), IsSolved(k, p) PROVE rank[p[2]] > m + 1
    <3>1. PICK q \in ToSet(h[m]) : p \in Image(k, q)
      BY <2>3
    <3>2. IsSolved(k, q) /\ p \in ToSet(k[q[2]])
      BY <3>1, <2>4 DEF Image
    <3>3. rank[q[2]] > m /\ rank[q[2]] < rank[p[2]]
      BY <3>2, <1>4, <1>1, <2>4 DEF Ranks, IsSolved
    <3>4. rank[q[2]] \in Nat /\ rank[p[2]] \in Nat
      BY <3>2, <1>1, <2>4 DEF Ranks, IsSolved
    <3> QED
      BY <3>3, <3>4
  <2> QED
    BY <2>1, <2>4
<1>5. depth \in G
  <2> HIDE DEF G, depth
  <2>1. depth \in Nat
    BY DEF depth
  <2>2. 0..depth \subseteq G
    BY <1>3, <1>4, <2>1, UpTo
  <2> QED
    BY <2>1, <2>2
<1>6. ASSUME NEW p \in ToSet(h[depth]) PROVE ~IsSolved(k, p)
  <2> SUFFICES ASSUME IsSolved(k, p) PROVE FALSE
    OBVIOUS
  <2>1. rank[p[2]] > depth
    BY <1>5
  <2>2. rank[p[2]] \in 1..n /\ n <= depth /\ n \in Nat
    BY <1>1 DEF Ranks, IsSolved
  <2> QED
    BY <2>1, <2>2
<1> QED
  BY <1>2, <1>6 DEF Clean

-----------------------------------------------------------------------------
(* Solving cells                                                           *)

Sound(k, X) == IsFiniteSet(DOMAIN k) /\ Over(k, X) /\ Ranked(k)
Extends(k2, k) == DOMAIN k \subseteq DOMAIN k2 /\ \A c \in DOMAIN k : k2[c] = k[c]

\* The cells of C are solved, to rows of cells that are not.
Updates(k2, k, C, X) ==
    /\ IsFiniteSet(C) /\ DOMAIN k2 = DOMAIN k \cup C
    /\ \A d \in DOMAIN k \ C : k2[d] = k[d]
    /\ \A d \in C : k2[d] \in Seq(X) /\ Clean(k2, k2[d])

LEMMA SoundUpdate ==
    ASSUME NEW X, NEW k, Sound(k, X), NEW C, NEW k2, Updates(k2, k, C, X)
    PROVE  Sound(k2, X)
<1>0. /\ IsFiniteSet(C) /\ DOMAIN k2 = DOMAIN k \cup C
      /\ \A d \in DOMAIN k \ C : k2[d] = k[d]
      /\ \A d \in C : k2[d] \in Seq(X) /\ Clean(k2, k2[d])
  BY DEF Updates
<1>1. IsFiniteSet(DOMAIN k) /\ Over(k, X) /\ Ranked(k)
  BY DEF Sound
<1>2. IsFiniteSet(DOMAIN k2)
  BY <1>0, <1>1, FS_Union
<1>3. Over(k2, X)
  BY <1>0, <1>1 DEF Over
<1>4. PICK n, rank : Ranks(k, n, rank)
  BY <1>1 DEF Ranked
<1>5. /\ n \in Nat /\ n <= Cardinality(DOMAIN k) /\ rank \in [DOMAIN k -> 1..n]
      /\ \A c \in DOMAIN k : \A p \in ToSet(k[c]) : IsSolved(k, p) => rank[c] < rank[p[2]]
  BY <1>4 DEF Ranks
<1>6. CASE C \subseteq DOMAIN k
  <2>1. DOMAIN k2 = DOMAIN k
    BY <1>0, <1>6
  <2>2. ASSUME NEW c \in DOMAIN k2, NEW p \in ToSet(k2[c]), IsSolved(k2, p) PROVE rank[c] < rank[p[2]]
    <3>1. c \notin C
      BY <1>0, <2>2 DEF Clean
    <3> QED
      BY <1>0, <3>1, <2>1, <2>2, <1>5 DEF IsSolved
  <2>3. Ranks(k2, n, rank)
    BY <1>5, <2>1, <2>2 DEF Ranks
  <2> QED
    BY <1>2, <1>3, <2>3 DEF Sound, Ranked
<1>7. CASE ~(C \subseteq DOMAIN k)
  <2> DEFINE rank2 == [d \in DOMAIN k2 |-> IF d \in DOMAIN k THEN rank[d] ELSE n + 1]
  <2>1. n + 1 <= Cardinality(DOMAIN k2)
    <3>1. PICK c \in C : c \notin DOMAIN k
      BY <1>7
    <3>2. /\ IsFiniteSet(DOMAIN k \cup {c}) /\ Cardinality(DOMAIN k \cup {c}) = Cardinality(DOMAIN k) + 1
      BY <3>1, <1>1, FS_AddElement
    <3>3. DOMAIN k \cup {c} \subseteq DOMAIN k2
      BY <1>0
    <3>4. Cardinality(DOMAIN k \cup {c}) <= Cardinality(DOMAIN k2)
      BY <3>3, <1>2, FS_Subset
    <3>5. Cardinality(DOMAIN k) \in Nat /\ Cardinality(DOMAIN k2) \in Nat
      BY <1>1, <1>2, FS_CardinalityType
    <3> QED
      BY <3>2, <3>4, <3>5, <1>5
  <2>2. rank2 \in [DOMAIN k2 -> 1..n + 1]
    BY <1>0, <1>5
  <2>3. ASSUME NEW c \in DOMAIN k2, NEW p \in ToSet(k2[c]), IsSolved(k2, p) PROVE rank2[c] < rank2[p[2]]
    <3>1. c \notin C
      BY <1>0, <2>3 DEF Clean
    <3>2. c \in DOMAIN k /\ p \in ToSet(k[c]) /\ p[2] \in DOMAIN k2 /\ p[1] = "unif"
      BY <1>0, <3>1, <2>3 DEF IsSolved
    <3>3. CASE p[2] \in DOMAIN k
      BY <3>2, <3>3, <1>5 DEF IsSolved
    <3>4. CASE p[2] \notin DOMAIN k
      <4>1. rank[c] \in 1..n
        BY <3>2, <1>5
      <4> QED
        BY <3>2, <3>4, <4>1, <1>5
    <3> QED
      BY <3>3, <3>4
  <2> HIDE DEF rank2
  <2>4. Ranks(k2, n + 1, rank2)
    BY <1>5, <2>1, <2>2, <2>3 DEF Ranks
  <2> QED
    BY <1>2, <1>3, <2>4 DEF Sound, Ranked
<1> QED
  BY <1>6, <1>7

\* Rows none of whose cells is solved or one of those being solved.
Without(C, row) == \A p \in ToSet(row) : p[1] = "unif" => p[2] \notin C

Assignable(k, c, row, X) == c \notin DOMAIN k /\ row \in Seq(X) /\ Clean(k, row) /\ Without({c}, row)
Adds(k2, k, c) == DOMAIN k2 = DOMAIN k \cup {c} /\ Extends(k2, k)

LEMMA SolvedSound ==
    ASSUME NEW X, NEW k, Sound(k, X), NEW c, NEW row, Assignable(k, c, row, X)
    PROVE  Sound(Solved(k, c, row), X) /\ Adds(Solved(k, c, row), k, c)
<1> DEFINE k2 == Solved(k, c, row)
<1>1. DOMAIN k2 = DOMAIN k \cup {c} /\ k2[c] = row /\ \A d \in DOMAIN k \ {c} : k2[d] = k[d]
  BY DEF Solved
<1> HIDE DEF k2
<1>2. Clean(k2, row)
  BY <1>1 DEF Clean, Without, IsSolved, Assignable
<1>3. IsFiniteSet({c})
  BY FS_Singleton
<1>4. Sound(k2, X)
  <2>1. Updates(k2, k, {c}, X)
    BY <1>1, <1>2, <1>3 DEF Updates, Assignable
  <2> QED
    BY <2>1, SoundUpdate
<1>5. Adds(k2, k, c)
  BY <1>1 DEF Extends, Adds, Assignable
<1> QED
  BY <1>4, <1>5 DEF k2

Kept(k2, k, C) == \A c \in DOMAIN k \ C : k2[c] = k[c]
CellsOf(row) == {p[2] : p \in ToSet(row)}

LEMMA AllEmptySound ==
    ASSUME NEW X, NEW k, Sound(k, X), NEW tails \in Seq(X)
    PROVE  /\ Sound(AllEmpty(k, tails), X)
           /\ DOMAIN AllEmpty(k, tails) = DOMAIN k \cup CellsOf(tails)
           /\ Kept(AllEmpty(k, tails), k, CellsOf(tails))
<1> DEFINE k2 == AllEmpty(k, tails)
           C == CellsOf(tails)
           n == Len(tails)
           f == [i \in 1..n |-> tails[i][2]]
<1>1. /\ DOMAIN k2 = DOMAIN k \cup C /\ (\A d \in DOMAIN k \ C : k2[d] = k[d])
      /\ \A d \in C : k2[d] = <<>>
  BY DEF AllEmpty, CellsOf
<1>2. n \in Nat /\ DOMAIN tails = 1..n
  BY LenProperties
<1>3. IsFiniteSet(C)
  <2>1. IsFiniteSet(1..n)
    BY <1>2, FS_Interval
  <2>2. \A q : q \in C <=> \E i \in 1..n : q = tails[i][2]
    BY <1>2 DEF ToSet, CellsOf
  <2> HIDE DEF C
  <2>3. f \in Surjection(1..n, C)
    BY <2>2 DEF Surjection, Range
  <2> QED
    BY <2>1, <2>3, FS_Surjection
<1>4. \A d \in C : k2[d] \in Seq(X) /\ Clean(k2, k2[d])
  <2>1. <<>> \in Seq(X) /\ Clean(k2, <<>>)
    BY DEF Clean, ToSet
  <2> HIDE DEF k2, C
  <2> QED BY <2>1, <1>1
<1> HIDE DEF k2, C
<1>5. Sound(k2, X)
  <2>1. Updates(k2, k, C, X)
    BY <1>1, <1>3, <1>4 DEF Updates
  <2> QED
    BY <2>1, SoundUpdate
<1> QED
  BY <1>1, <1>5 DEF k2, C, Kept

-----------------------------------------------------------------------------
(* What two rows share                                                     *)

LEMMA FirstMember == ASSUME NEW S, S \subseteq Nat, S # {} PROVE First(S) \in S
<1>1. \E x \in S : \A y \in S : x <= y
  BY LeastMember
<1> QED
  BY <1>1 DEF First

LEMMA RemoveMembers ==
    ASSUME NEW X, NEW s \in Seq(X), NEW i \in DOMAIN s
    PROVE  RemoveAt(s, i) \in Seq(X) /\ ToSet(RemoveAt(s, i)) \subseteq ToSet(s)
<1>1. Len(s) \in Nat /\ DOMAIN s = 1..Len(s) /\ s \in Seq(ToSet(s)) /\ i \in 1..Len(s)
  BY LenProperties, Members
<1>2. \A j \in 1..Len(s) : s[j] \in ToSet(s)
  BY <1>1 DEF ToSet
<1>3. SubSeq(s, 1, i - 1) \in Seq(ToSet(s)) /\ SubSeq(s, i + 1, Len(s)) \in Seq(ToSet(s))
  <2>1. \A j \in 1..i - 1 : s[j] \in ToSet(s)
    BY <1>1, <1>2
  <2>2. \A j \in i + 1..Len(s) : s[j] \in ToSet(s)
    BY <1>1, <1>2
  <2>3. 1 \in Int /\ i - 1 \in Int /\ i + 1 \in Int /\ Len(s) \in Int
    BY <1>1
  <2>4. SubSeq(s, 1, i - 1) \in Seq(ToSet(s))
    BY <2>1, <2>3, SubSeqProperties
  <2> QED
    BY <2>2, <2>3, <2>4, SubSeqProperties
<1>4. RemoveAt(s, i) \in Seq(ToSet(s))
  BY <1>3, ConcatProperties DEF RemoveAt
<1> QED
  BY <1>4, Members, SeqMonotonic

LEMMA AppendMembers ==
    ASSUME NEW X, NEW s \in Seq(X), NEW p \in X
    PROVE  Append(s, p) \in Seq(X) /\ ToSet(Append(s, p)) = ToSet(s) \cup {p}
<1>1. /\ Append(s, p) \in Seq(X) /\ Len(Append(s, p)) = Len(s) + 1
      /\ (\A i \in 1..Len(s) : Append(s, p)[i] = s[i]) /\ Append(s, p)[Len(s) + 1] = p
  BY AppendProperties
<1>2. Len(s) \in Nat /\ DOMAIN s = 1..Len(s) /\ DOMAIN Append(s, p) = 1..Len(s) + 1
  BY <1>1, LenProperties
<1>3. ToSet(s) \subseteq ToSet(Append(s, p)) /\ p \in ToSet(Append(s, p))
  BY <1>1, <1>2 DEF ToSet
<1>4. \A i \in DOMAIN Append(s, p) : Append(s, p)[i] \in ToSet(s) \cup {p}
  BY <1>1, <1>2 DEF ToSet
<1>5. ToSet(Append(s, p)) \subseteq ToSet(s) \cup {p}
  BY <1>4 DEF ToSet
<1> QED
  BY <1>1, <1>3, <1>5

Remains(left, right) == [left : Seq(ToSet(left)), right : Seq(ToSet(right))]
NoMatch(rest) == \A p \in ToSet(rest.left), q \in ToSet(rest.right) : ~SamePiece(p, q)

LEMMA EatTyped ==
    ASSUME NEW left, NEW right, NEW rest \in Remains(left, right), NEW p \in ToSet(left)
    PROVE  /\ Eat(rest, p) \in Remains(left, right)
           /\ NoMatch(rest) => NoMatch(Eat(rest, p))
<1>1. rest.left \in Seq(ToSet(left)) /\ rest.right \in Seq(ToSet(right))
  BY DEF Remains
<1>2. CASE Matches(p, rest.right) = {}
  <2>1. Eat(rest, p) = [left |-> Append(rest.left, p), right |-> rest.right]
    BY <1>2 DEF Eat, Remains
  <2>2. /\ Append(rest.left, p) \in Seq(ToSet(left))
        /\ ToSet(Append(rest.left, p)) = ToSet(rest.left) \cup {p}
    BY <1>1, AppendMembers
  <2>3. \A q \in ToSet(rest.right) : ~SamePiece(p, q)
    BY <1>2 DEF Matches, ToSet
  <2> QED
    BY <1>1, <2>1, <2>2, <2>3 DEF Remains, NoMatch
<1>3. CASE Matches(p, rest.right) # {}
  <2> DEFINE i == First(Matches(p, rest.right))
  <2>1. Matches(p, rest.right) \subseteq DOMAIN rest.right /\ DOMAIN rest.right \subseteq Nat
    BY <1>1, LenProperties DEF Matches
  <2>2. i \in DOMAIN rest.right
    BY <1>3, <2>1, FirstMember
  <2>3. Eat(rest, p) = [left |-> rest.left, right |-> RemoveAt(rest.right, i)]
    BY <1>3 DEF Eat, Remains
  <2> HIDE DEF i
  <2>4. /\ RemoveAt(rest.right, i) \in Seq(ToSet(right))
        /\ ToSet(RemoveAt(rest.right, i)) \subseteq ToSet(rest.right)
    BY <1>1, <2>2, RemoveMembers
  <2> QED
    BY <1>1, <2>3, <2>4 DEF Remains, NoMatch
<1> QED
  BY <1>2, <1>3

\* What is left while the pieces of the left row are gone through.
EatChain(left, right, g) ==
    /\ g[0] = [left |-> <<>>, right |-> right]
    /\ \A j \in 1..Len(left) : g[j] = Eat(g[j - 1], left[j])
    /\ \A j \in 0..Len(left) : g[j] \in Remains(left, right) /\ NoMatch(g[j])
    /\ EatMatching(left, right) = g[Len(left)]

LEMMA EatSteps ==
    ASSUME NEW X, NEW left \in Seq(X), NEW right \in Seq(X)
    PROVE  \E g : EatChain(left, right, g)
<1> DEFINE n == Len(left)
           A == {rest \in Remains(left, right) : NoMatch(rest)}
           base == [left |-> <<>>, right |-> right]
           step == [j \in 1..n |-> [rest \in A |-> Eat(rest, left[j])]]
           Def(f) == f = [j \in 0..n |-> IF j = 0 THEN base ELSE Eat(f[j - 1], left[j])]
           g == CHOOSE f : Def(f)
<1>1. EatMatching(left, right) = g[n]
  BY DEF EatMatching
<1>2. n \in Nat /\ \A j \in 1..n : left[j] \in ToSet(left)
  BY LenProperties DEF ToSet
<1>3. base \in A
  <2>1. right \in Seq(ToSet(right)) /\ <<>> \in Seq(ToSet(left))
    BY Members
  <2>2. ToSet(<<>>) = {}
    BY DEF ToSet
  <2> QED
    BY <2>1, <2>2 DEF Remains, NoMatch
<1>4. \A j \in 1..n : \A rest \in A : Eat(rest, left[j]) \in A
  BY <1>2, EatTyped
<1> HIDE DEF n, A, base
<1>5. Recursion(A, base, n, step)
  BY <1>2, <1>3, <1>4 DEF Recursion
<1>6. PICK h \in [0..n -> A] : h[0] = base /\ \A j \in 1..n : h[j] = step[j][h[j - 1]]
  <2> HIDE DEF step
  <2> QED BY <1>5, Iterates
<1>7. ASSUME NEW j \in 1..n PROVE h[j] = Eat(h[j - 1], left[j])
  <2>1. j - 1 \in 0..n
    BY <1>2
  <2>2. h[j - 1] \in A
    BY <2>1
  <2> QED
    BY <1>6, <2>2
<1>8. Def(h)
  BY <1>6, <1>7, <1>2
<1>9. Def(g)
  <2> HIDE DEF Def
  <2> QED BY <1>8
<1>10. g[0] = base /\ \A j \in 1..n : g[j] = Eat(g[j - 1], left[j])
  <2> HIDE DEF g
  <2> QED BY <1>9, <1>2
<1> HIDE DEF g
<1> DEFINE G == {j \in 0..n : g[j] \in A}
<1>11. ASSUME NEW m \in 0..n, m < n, m \in G PROVE m + 1 \in G
  <2>1. m + 1 \in 1..n /\ (m + 1) - 1 = m /\ m + 1 \in 0..n
    BY <1>11, <1>2
  <2>2. g[m + 1] = Eat(g[m], left[m + 1])
    BY <2>1, <1>10
  <2> QED
    BY <2>1, <2>2, <1>4, <1>11
<1>12. 0..n \subseteq G
  <2>1. 0 \in G
    BY <1>2, <1>3, <1>10
  <2> HIDE DEF G
  <2> QED BY <2>1, <1>2, <1>11, UpTo
<1>13. \A j \in 0..n : g[j] \in A
  BY <1>12
<1>14. EatChain(left, right, g)
  BY <1>1, <1>10, <1>13 DEF EatChain, A, n, base
<1> QED
  BY <1>14

LEMMA EatMatchingTyped ==
    ASSUME NEW X, NEW left \in Seq(X), NEW right \in Seq(X)
    PROVE  /\ EatMatching(left, right) \in Remains(left, right)
           /\ NoMatch(EatMatching(left, right))
<1>1. PICK g : EatChain(left, right, g)
  BY EatSteps
<1>2. Len(left) \in 0..Len(left)
  BY LenProperties
<1> QED
  BY <1>1, <1>2 DEF EatChain

-----------------------------------------------------------------------------
(* What rules start from and leave                                         *)

LEMMA NormalClosed ==
    ASSUME NEW X, NEW row \in Seq(X), NEW k, Over(k, X), Cardinality(DOMAIN k) \in Nat,
           NEW Y, ToSet(row) \subseteq Y, \A p \in Y : Image(k, p) \subseteq Y
    PROVE  ToSet(Normal(k, row)) \subseteq Y
<1> DEFINE depth == Cardinality(DOMAIN k)
<1>1. PICK h \in [0..depth -> Seq(X)] :
        h[0] = row /\ (\A j \in 1..depth : h[j] = Expand(k, h[j - 1])) /\ Normal(k, row) = h[depth]
  BY NormalSteps
<1>2. depth \in Nat
  OBVIOUS
<1> HIDE DEF depth
<1> DEFINE G == {j \in 0..depth : ToSet(h[j]) \subseteq Y}
<1>3. 0 \in G
  BY <1>1, <1>2
<1>4. ASSUME NEW m \in 0..depth, m < depth, m \in G PROVE m + 1 \in G
  <2>1. m + 1 \in 1..depth /\ (m + 1) - 1 = m /\ m + 1 \in 0..depth
    BY <1>4, <1>2
  <2>2. h[m + 1] = Expand(k, h[m]) /\ h[m] \in Seq(X)
    BY <2>1, <1>1
  <2>3. ToSet(h[m + 1]) = UNION {Image(k, p) : p \in ToSet(h[m])}
    BY <2>2, ExpandMembers
  <2>4. ToSet(h[m + 1]) \subseteq Y
    BY <2>3, <1>4
  <2> QED
    BY <2>1, <2>4
<1>5. 0..depth \subseteq G
  <2> HIDE DEF G
  <2> QED BY <1>2, <1>3, <1>4, UpTo
<1> QED
  BY <1>1, <1>2, <1>5

\* The pieces of the program's rows, with the first n cells.
Atoms == {p \in UNION {ToSet(row) : row \in ProgramRows} : p[1] # "unif"}
Pieces(n) == Atoms \cup {Unif(c) : c \in 1..n}

LEMMA PieceFacts ==
    ASSUME NEW n \in Nat
    PROVE  /\ \A p \in Pieces(n) : /\ p[1] \in {"field", "rigid", "unif"}
                                   /\ p[1] = "unif" => p = Unif(p[2]) /\ p[2] \in 1..n
           /\ Pieces(n) \subseteq Pieces(n + 1) /\ Unif(n + 1) \in Pieces(n + 1)
           /\ \A c : Unif(c)[1] = "unif" /\ Unif(c)[2] = c
<1>1. \A c : Unif(c)[1] = "unif" /\ Unif(c)[2] = c
  BY DEF Unif
<1>2. \A p \in Atoms : p[1] \in {"field", "rigid"}
  BY ProgramAssumption, <1>1 DEF Atoms
<1>3. \A p \in Pieces(n) : p \in Atoms \/ \E c \in 1..n : p = Unif(c)
  BY DEF Pieces
<1>4. \A p \in Pieces(n) : p[1] \in {"field", "rigid", "unif"}
                           /\ (p[1] = "unif" => p = Unif(p[2]) /\ p[2] \in 1..n)
  BY <1>1, <1>2, <1>3
<1>5. 1..n \subseteq 1..n + 1 /\ n + 1 \in 1..n + 1
  OBVIOUS
<1>6. Pieces(n) \subseteq Pieces(n + 1) /\ Unif(n + 1) \in Pieces(n + 1)
  BY <1>5 DEF Pieces
<1> QED
  BY <1>1, <1>4, <1>6

\* What the rules work on: two normal rows without a cell in common; and what a rule
\* leaves.
Sides(k, l, r, n) ==
    /\ n \in Nat /\ Sound(k, Pieces(n)) /\ DOMAIN k \subseteq 1..n
    /\ l \in Seq(Pieces(n)) /\ r \in Seq(Pieces(n))
    /\ Clean(k, l) /\ Clean(k, r)
    /\ \A p \in ToSet(l) : p[1] = "unif" => p \notin ToSet(r)
Result(k, k2, n) == Sound(k2, Pieces(n + 1)) /\ DOMAIN k2 \subseteq 1..n /\ Extends(k2, k)

LEMMA SoundMonotonic == ASSUME NEW k, NEW n \in Nat, Sound(k, Pieces(n)) PROVE Sound(k, Pieces(n + 1))
<1>1. \A s \in Seq(Pieces(n)) : s \in Seq(Pieces(n + 1))
  BY PieceFacts, SeqMonotonic
<1> QED
  BY <1>1 DEF Sound, Over

LEMMA SidesSymmetric == ASSUME NEW k, NEW l, NEW r, NEW n, Sides(k, l, r, n) PROVE Sides(k, r, l, n)
BY DEF Sides

\* An unknown cell at some place of a normal row.
LEMMA CellOf ==
    ASSUME NEW n \in Nat, NEW k, NEW row \in Seq(Pieces(n)), Clean(k, row),
           NEW p \in ToSet(row), p[1] = "unif"
    PROVE  p = Unif(p[2]) /\ p[2] \in 1..n /\ p[2] \notin DOMAIN k
<1>1. p \in Pieces(n)
  BY Members
<1> QED
  BY <1>1, PieceFacts DEF Clean, IsSolved

LEMMA OnlyTailsFacts ==
    ASSUME NEW X, NEW row \in Seq(X), Tails(row) = row
    PROVE  \A p \in ToSet(row) : p[1] = "unif"
<1>1. ToSet(row) = {p \in ToSet(row) : p[1] \in {"unif"}}
  BY OfKindMembers DEF Tails
<1> QED
  BY <1>1

LEMMA OneTailFacts ==
    ASSUME NEW X, NEW row \in Seq(X), OneTail(row)
    PROVE  Tails(row)[1] \in ToSet(row) /\ Tails(row)[1][1] = "unif"
<1>1. /\ Tails(row) \in Seq(X)
      /\ ToSet(Tails(row)) = {p \in ToSet(row) : p[1] \in {"unif"}}
  BY OfKindMembers DEF Tails
<1>2. Tails(row)[1] \in ToSet(Tails(row))
  BY <1>1, LenProperties DEF OneTail, ToSet
<1> QED
  BY <1>1, <1>2

LEMMA FirstOf ==
    ASSUME NEW X, NEW row \in Seq(X), row # <<>>
    PROVE  /\ row[1] \in ToSet(row)
           /\ SubSeq(row, 2, Len(row)) \in Seq(X) /\ ToSet(SubSeq(row, 2, Len(row))) \subseteq ToSet(row)
<1>1. Len(row) \in Nat /\ Len(row) # 0 /\ DOMAIN row = 1..Len(row) /\ row \in Seq(ToSet(row))
  BY LenProperties, EmptySeq, Members
<1>2. \A j \in 1..Len(row) : row[j] \in ToSet(row)
  BY <1>1 DEF ToSet
<1>3. \A j \in 2..Len(row) : row[j] \in ToSet(row)
  BY <1>1, <1>2
<1>4. 2 \in Int /\ Len(row) \in Int
  BY <1>1
<1>5. SubSeq(row, 2, Len(row)) \in Seq(ToSet(row))
  BY <1>3, <1>4, SubSeqProperties
<1>6. ToSet(SubSeq(row, 2, Len(row))) \subseteq ToSet(row)
  BY <1>5, Members
<1>7. SubSeq(row, 2, Len(row)) \in Seq(X)
  BY <1>5, Members, SeqMonotonic
<1> QED
  BY <1>1, <1>2, <1>6, <1>7

LEMMA TailsToEmptyResult ==
    ASSUME NEW k, NEW side, NEW other, NEW n, Sides(k, side, other, n),
           NEW k2 \in TailsToEmpty(k, side, other)
    PROVE  Result(k, k2, n)
<1>1. n \in Nat /\ Sound(k, Pieces(n)) /\ DOMAIN k \subseteq 1..n /\ side \in Seq(Pieces(n)) /\ Clean(k, side)
  BY DEF Sides
<1>2. k2 = AllEmpty(k, side) /\ Tails(side) = side
  BY DEF TailsToEmpty, OnlyTails
<1>3. \A p \in ToSet(side) : p[2] \in 1..n /\ p[2] \notin DOMAIN k
  BY <1>1, <1>2, OnlyTailsFacts, CellOf
<1>4. /\ Sound(k2, Pieces(n)) /\ DOMAIN k2 = DOMAIN k \cup CellsOf(side)
      /\ Kept(k2, k, CellsOf(side))
  BY <1>1, <1>2, AllEmptySound
<1>5. DOMAIN k2 \subseteq 1..n /\ Extends(k2, k)
  BY <1>1, <1>3, <1>4 DEF Extends, CellsOf, Kept
<1> QED
  BY <1>1, <1>4, <1>5, SoundMonotonic DEF Result

LEMMA RigidToFirstResult ==
    ASSUME NEW k, NEW side, NEW other, NEW n, Sides(k, side, other, n),
           NEW k2 \in RigidToFirst(k, side, other)
    PROVE  Result(k, k2, n)
<1>1. /\ n \in Nat /\ Sound(k, Pieces(n)) /\ DOMAIN k \subseteq 1..n
      /\ side \in Seq(Pieces(n)) /\ Clean(k, side) /\ other \in Seq(Pieces(n)) /\ Clean(k, other)
  BY DEF Sides
<1> DEFINE c == side[1][2]
           first == Solved(k, c, other)
           rest == SubSeq(side, 2, Len(side))
<1>2. k2 = AllEmpty(first, rest) /\ Tails(side) = side /\ side # <<>> /\ Others(other) = other
  BY DEF RigidToFirst, OnlyTails
<1>3. \A p \in ToSet(side) : p[2] \in 1..n /\ p[2] \notin DOMAIN k
  BY <1>1, <1>2, OnlyTailsFacts, CellOf
<1>4. side[1] \in ToSet(side) /\ rest \in Seq(Pieces(n)) /\ ToSet(rest) \subseteq ToSet(side)
  BY <1>1, <1>2, FirstOf
<1>5. Without({c}, other)
  <2>1. ToSet(other) = {p \in ToSet(other) : p[1] \in {"rigid"}}
    BY <1>1, <1>2, OfKindMembers DEF Others
  <2> QED
    BY <2>1 DEF Without
<1>6. c \in 1..n /\ c \notin DOMAIN k
  BY <1>3, <1>4
<1> HIDE DEF c, rest
<1>7. Sound(first, Pieces(n)) /\ DOMAIN first = DOMAIN k \cup {c} /\ Extends(first, k)
  <2>1. Assignable(k, c, other, Pieces(n))
    BY <1>1, <1>5, <1>6 DEF Assignable
  <2>2. Sound(first, Pieces(n)) /\ Adds(first, k, c)
    BY <2>1, <1>1, SolvedSound
  <2> QED
    BY <2>2 DEF Adds
<1> HIDE DEF first
<1>8. /\ Sound(k2, Pieces(n)) /\ DOMAIN k2 = DOMAIN first \cup CellsOf(rest)
      /\ Kept(k2, first, CellsOf(rest))
  BY <1>2, <1>4, <1>7, AllEmptySound DEF c, rest, first
<1>9. DOMAIN k2 \subseteq 1..n
  BY <1>1, <1>3, <1>4, <1>6, <1>7, <1>8 DEF CellsOf
<1>10. Extends(k2, k)
  BY <1>3, <1>4, <1>7, <1>8 DEF Extends, CellsOf, Kept
<1> QED
  BY <1>1, <1>8, <1>9, <1>10, SoundMonotonic DEF Result

-----------------------------------------------------------------------------
(* Rules that solve cells of one row                                       *)

LEMMA SidesFacts ==
    ASSUME NEW k, NEW side, NEW other, NEW n, Sides(k, side, other, n)
    PROVE  /\ n \in Nat /\ Sound(k, Pieces(n)) /\ DOMAIN k \subseteq 1..n
           /\ side \in Seq(Pieces(n)) /\ other \in Seq(Pieces(n)) /\ Clean(k, side) /\ Clean(k, other)
           /\ \A p \in ToSet(side) : p[1] = "unif" => p = Unif(p[2]) /\ p[2] \in 1..n /\ p[2] \notin DOMAIN k
           /\ \A p \in ToSet(other) : p[1] = "unif" => p = Unif(p[2]) /\ p[2] \in 1..n /\ p[2] \notin DOMAIN k
           /\ \A p \in ToSet(side), q \in ToSet(other) : p[1] = "unif" /\ q[1] = "unif" => p[2] # q[2]
<1>1. /\ n \in Nat /\ Sound(k, Pieces(n)) /\ DOMAIN k \subseteq 1..n
      /\ side \in Seq(Pieces(n)) /\ other \in Seq(Pieces(n)) /\ Clean(k, side) /\ Clean(k, other)
      /\ \A p \in ToSet(side) : p[1] = "unif" => p \notin ToSet(other)
  BY DEF Sides
<1>2. \A p \in ToSet(side) : p[1] = "unif" => p = Unif(p[2]) /\ p[2] \in 1..n /\ p[2] \notin DOMAIN k
  BY <1>1, CellOf
<1>3. \A p \in ToSet(other) : p[1] = "unif" => p = Unif(p[2]) /\ p[2] \in 1..n /\ p[2] \notin DOMAIN k
  BY <1>1, CellOf
<1>4. ASSUME NEW p \in ToSet(side), NEW q \in ToSet(other), p[1] = "unif", q[1] = "unif", p[2] = q[2]
      PROVE  FALSE
  BY <1>1, <1>2, <1>3, <1>4
<1> QED
  BY <1>1, <1>2, <1>3, <1>4

LEMMA SideMembers ==
    ASSUME NEW X, NEW row \in Seq(X)
    PROVE  /\ Fields(row) \in Seq(X) /\ Tails(row) \in Seq(X) /\ Others(row) \in Seq(X)
           /\ ToSet(Fields(row)) = {p \in ToSet(row) : p[1] = "field"}
           /\ ToSet(Tails(row)) = {p \in ToSet(row) : p[1] = "unif"}
           /\ ToSet(Others(row)) = {p \in ToSet(row) : p[1] = "rigid"}
BY OfKindMembers DEF Fields, Tails, Others

LEMMA PeelLeadingResult ==
    ASSUME NEW k, NEW side, NEW other, NEW n, Sides(k, side, other, n), NEW isLeft,
           NEW k2 \in PeelLeading(k, side, other, isLeft)
    PROVE  Result(k, k2, n)
<1> DEFINE c == side[1][2]
           first == Solved(k, c, Fields(other))
           others == SubSeq(side, 2, Len(side))
           rest == Normal(first, others)
           tail == Tails(other)[1]
<1>1. /\ n \in Nat /\ Sound(k, Pieces(n)) /\ DOMAIN k \subseteq 1..n
      /\ side \in Seq(Pieces(n)) /\ other \in Seq(Pieces(n)) /\ Clean(k, side) /\ Clean(k, other)
      /\ \A p \in ToSet(side) : p[1] = "unif" => p = Unif(p[2]) /\ p[2] \in 1..n /\ p[2] \notin DOMAIN k
      /\ \A p \in ToSet(other) : p[1] = "unif" => p = Unif(p[2]) /\ p[2] \in 1..n /\ p[2] \notin DOMAIN k
      /\ \A p \in ToSet(side), q \in ToSet(other) : p[1] = "unif" /\ q[1] = "unif" => p[2] # q[2]
  BY SidesFacts
<1>2. /\ Tails(side) = side /\ side # <<>> /\ OneTail(other)
      /\ \/ OnlyTails(rest) /\ k2 = Solved(first, rest[1][2], <<tail>>)
         \/ k2 = Solved(first, tail[2], rest)
  BY DEF PeelLeading, OnlyTails
<1>3. side[1] \in ToSet(side) /\ others \in Seq(Pieces(n)) /\ ToSet(others) \subseteq ToSet(side)
  BY <1>1, <1>2, FirstOf
<1>4. \A p \in ToSet(side) : p[1] = "unif"
  BY <1>1, <1>2, OnlyTailsFacts
<1>5. tail \in ToSet(other) /\ tail[1] = "unif"
  BY <1>1, <1>2, OneTailFacts
<1>6. c \in 1..n /\ c \notin DOMAIN k /\ tail[2] \in 1..n /\ tail[2] \notin DOMAIN k /\ tail[2] # c
      /\ tail \in Pieces(n)
  BY <1>1, <1>3, <1>4, <1>5, Members
<1>7. /\ Fields(other) \in Seq(Pieces(n)) /\ ToSet(Fields(other)) = {p \in ToSet(other) : p[1] = "field"}
      /\ Clean(k, Fields(other)) /\ Without({c}, Fields(other))
  BY <1>1, SideMembers DEF Clean, Without, IsSolved
<1> HIDE DEF c, others, tail
<1>8. Sound(first, Pieces(n)) /\ DOMAIN first = DOMAIN k \cup {c} /\ Extends(first, k)
  <2>1. Assignable(k, c, Fields(other), Pieces(n))
    BY <1>6, <1>7 DEF Assignable
  <2>2. Sound(first, Pieces(n)) /\ Adds(first, k, c)
    BY <2>1, <1>1, SolvedSound
  <2> QED
    BY <2>2 DEF Adds
<1>9. first[c] = Fields(other)
  BY DEF Solved
<1> HIDE DEF first
<1>10. Over(first, Pieces(n)) /\ Cardinality(DOMAIN first) \in Nat /\ Ranked(first)
  BY <1>8, FS_CardinalityType DEF Sound
<1>11. rest \in Seq(Pieces(n)) /\ Clean(first, rest)
  BY <1>3, <1>10, NormalWithin, NormalClean
<1> DEFINE Y == ToSet(side) \cup ToSet(Fields(other))
<1>12. \A p \in Y : Image(first, p) \subseteq Y
  <2>1. ASSUME NEW p \in ToSet(side) PROVE Image(first, p) \subseteq Y
    <3>1. p[2] = c \/ ~IsSolved(first, p)
      BY <1>1, <1>4, <1>8 DEF IsSolved
    <3> QED
      BY <3>1, <1>9 DEF Image
  <2>2. ASSUME NEW p \in ToSet(Fields(other)) PROVE Image(first, p) \subseteq Y
    BY <1>7 DEF Image, IsSolved
  <2> QED
    BY <2>1, <2>2
<1>13. ToSet(rest) \subseteq Y
  <2>1. ToSet(others) \subseteq Y
    BY <1>3
  <2> HIDE DEF Y
  <2> QED BY <2>1, <1>3, <1>10, <1>12, NormalClosed
<1>14. \A p \in ToSet(rest) : p[1] = "unif" => p[2] # tail[2]
  BY <1>1, <1>5, <1>7, <1>13
<1> HIDE DEF rest
<1>15. CASE OnlyTails(rest) /\ k2 = Solved(first, rest[1][2], <<tail>>)
  <2>1. rest # <<>> /\ Tails(rest) = rest
    BY <1>15 DEF OnlyTails
  <2>2. rest[1] \in ToSet(rest) /\ rest[1][1] = "unif"
    BY <1>11, <2>1, FirstOf, OnlyTailsFacts
  <2>3. rest[1][2] \in 1..n /\ rest[1][2] \notin DOMAIN first /\ rest[1][2] # tail[2]
    BY <1>1, <1>11, <1>14, <2>2, CellOf
  <2>4. ToSet(<<tail>>) = {tail} /\ <<tail>> \in Seq(Pieces(n))
    BY <1>6 DEF ToSet
  <2>5. Clean(first, <<tail>>) /\ Without({rest[1][2]}, <<tail>>)
    BY <1>6, <1>8, <2>3, <2>4 DEF Clean, Without, IsSolved
  <2>6. /\ Sound(k2, Pieces(n)) /\ DOMAIN k2 = DOMAIN first \cup {rest[1][2]} /\ Extends(k2, first)
    <3>1. Assignable(first, rest[1][2], <<tail>>, Pieces(n))
      BY <2>3, <2>4, <2>5 DEF Assignable
    <3>2. Sound(k2, Pieces(n)) /\ Adds(k2, first, rest[1][2])
      BY <3>1, <1>8, <1>15, SolvedSound
    <3> QED
      BY <3>2 DEF Adds
  <2>7. DOMAIN k2 \subseteq 1..n /\ Extends(k2, k)
    BY <1>1, <1>6, <1>8, <2>3, <2>6 DEF Extends
  <2> QED
    BY <1>1, <2>6, <2>7, SoundMonotonic DEF Result
<1>16. CASE k2 = Solved(first, tail[2], rest)
  <2>1. Without({tail[2]}, rest)
    BY <1>14 DEF Without
  <2>2. tail[2] \notin DOMAIN first
    BY <1>6, <1>8
  <2>3. Sound(k2, Pieces(n)) /\ DOMAIN k2 = DOMAIN first \cup {tail[2]} /\ Extends(k2, first)
    <3>1. Assignable(first, tail[2], rest, Pieces(n))
      BY <1>11, <2>1, <2>2 DEF Assignable
    <3>2. Sound(k2, Pieces(n)) /\ Adds(k2, first, tail[2])
      BY <3>1, <1>8, <1>16, SolvedSound
    <3> QED
      BY <3>2 DEF Adds
  <2>4. DOMAIN k2 \subseteq 1..n /\ Extends(k2, k)
    BY <1>1, <1>6, <1>8, <2>3 DEF Extends
  <2> QED
    BY <1>1, <2>3, <2>4, SoundMonotonic DEF Result
<1> QED
  BY <1>2, <1>15, <1>16 DEF rest

LEMMA OneTailTakesAllResult ==
    ASSUME NEW k, NEW side, NEW other, NEW n, Sides(k, side, other, n),
           NEW k2 \in OneTailTakesAll(k, side, other)
    PROVE  Result(k, k2, n)
<1> DEFINE row == Fields(other) \o Tails(other) \o Others(other)
           c == side[1][2]
<1>1. /\ n \in Nat /\ Sound(k, Pieces(n)) /\ DOMAIN k \subseteq 1..n
      /\ side \in Seq(Pieces(n)) /\ other \in Seq(Pieces(n)) /\ Clean(k, side) /\ Clean(k, other)
      /\ \A p \in ToSet(side) : p[1] = "unif" => p = Unif(p[2]) /\ p[2] \in 1..n /\ p[2] \notin DOMAIN k
      /\ \A p \in ToSet(side), q \in ToSet(other) : p[1] = "unif" /\ q[1] = "unif" => p[2] # q[2]
  BY SidesFacts
<1>2. OneTail(side) /\ Tails(side) = side /\ k2 = Solved(k, c, row)
  BY DEF OneTailTakesAll
<1>3. side[1] \in ToSet(side) /\ side[1][1] = "unif"
  BY <1>1, <1>2, OneTailFacts
<1>4. row \in Seq(Pieces(n)) /\ ToSet(row) \subseteq ToSet(other)
  <2>1. /\ Fields(other) \in Seq(Pieces(n)) /\ Tails(other) \in Seq(Pieces(n)) /\ Others(other) \in Seq(Pieces(n))
        /\ ToSet(Fields(other)) \subseteq ToSet(other) /\ ToSet(Tails(other)) \subseteq ToSet(other)
        /\ ToSet(Others(other)) \subseteq ToSet(other)
    BY <1>1, SideMembers
  <2>2. /\ Fields(other) \o Tails(other) \in Seq(Pieces(n))
        /\ ToSet(Fields(other) \o Tails(other)) \subseteq ToSet(other)
    BY <2>1, ConcatMembers
  <2>3. /\ row \in Seq(Pieces(n))
        /\ ToSet(row) = ToSet(Fields(other) \o Tails(other)) \cup ToSet(Others(other))
    <3> DEFINE both == Fields(other) \o Tails(other)
               last == Others(other)
    <3>1. both \in Seq(Pieces(n)) /\ last \in Seq(Pieces(n)) /\ row = both \o last
      BY <2>1, <2>2
    <3> HIDE DEF both, last
    <3>2. row \in Seq(Pieces(n)) /\ ToSet(row) = ToSet(both) \cup ToSet(last)
      BY <3>1, ConcatMembers
    <3> QED
      BY <3>2 DEF both, last
  <2> QED
    BY <2>1, <2>2, <2>3
<1>5. Clean(k, row) /\ Without({c}, row)
  BY <1>1, <1>3, <1>4 DEF Clean, Without
<1>6. c \in 1..n /\ c \notin DOMAIN k
  BY <1>1, <1>3
<1> HIDE DEF row, c
<1>7. Sound(k2, Pieces(n)) /\ DOMAIN k2 = DOMAIN k \cup {c} /\ Extends(k2, k)
  <2>1. Assignable(k, c, row, Pieces(n))
    BY <1>4, <1>5, <1>6 DEF Assignable
  <2>2. Sound(k2, Pieces(n)) /\ Adds(k2, k, c)
    BY <2>1, <1>1, <1>2, SolvedSound
  <2> QED
    BY <2>2 DEF Adds
<1> QED
  BY <1>1, <1>6, <1>7, SoundMonotonic DEF Result

\* Two cells are solved to rows that end with a new one.
LEMMA SharedResult ==
    ASSUME NEW k, NEW n \in Nat, Sound(k, Pieces(n)), DOMAIN k \subseteq 1..n,
           NEW c \in 1..n, NEW d \in 1..n, c # d, c \notin DOMAIN k, d \notin DOMAIN k,
           NEW s \in Seq(Pieces(n)), NEW t \in Seq(Pieces(n)),
           \A p \in ToSet(s) \cup ToSet(t) : p[1] # "unif"
    PROVE  Result(k, Solved(Solved(k, c, Append(s, Unif(n + 1))), d, Append(t, Unif(n + 1))), n)
<1> DEFINE row == Append(s, Unif(n + 1))
           row2 == Append(t, Unif(n + 1))
           k1 == Solved(k, c, row)
           k2 == Solved(k1, d, row2)
<1>1. /\ Unif(n + 1) \in Pieces(n + 1) /\ Unif(n + 1)[2] = n + 1
      /\ s \in Seq(Pieces(n + 1)) /\ t \in Seq(Pieces(n + 1))
  BY PieceFacts, SeqMonotonic
<1>2. /\ row \in Seq(Pieces(n + 1)) /\ ToSet(row) = ToSet(s) \cup {Unif(n + 1)}
      /\ row2 \in Seq(Pieces(n + 1)) /\ ToSet(row2) = ToSet(t) \cup {Unif(n + 1)}
  BY <1>1, AppendMembers
<1>3. ASSUME NEW m, DOMAIN m \subseteq 1..n, NEW e \in 1..n
      PROVE  /\ Clean(m, row) /\ Without({e}, row) /\ Clean(m, row2) /\ Without({e}, row2)
  BY <1>1, <1>2, <1>3 DEF Clean, Without, IsSolved
<1> HIDE DEF row, row2
<1>4. Sound(k1, Pieces(n + 1)) /\ DOMAIN k1 = DOMAIN k \cup {c} /\ Extends(k1, k)
  <2>1. Sound(k, Pieces(n + 1)) /\ Clean(k, row) /\ Without({c}, row)
    BY <1>3, SoundMonotonic
  <2> QED
    <3>1. Assignable(k, c, row, Pieces(n + 1))
      BY <2>1, <1>2 DEF Assignable
    <3>2. Sound(k1, Pieces(n + 1)) /\ Adds(k1, k, c)
      BY <3>1, <2>1, SolvedSound
    <3> QED
      BY <3>2 DEF Adds
<1> HIDE DEF k1
<1>5. Sound(k2, Pieces(n + 1)) /\ DOMAIN k2 = DOMAIN k1 \cup {d} /\ Extends(k2, k1)
  <2>1. Clean(k1, row2) /\ Without({d}, row2) /\ d \notin DOMAIN k1
    BY <1>3, <1>4
  <2> QED
    <3>1. Assignable(k1, d, row2, Pieces(n + 1))
      BY <2>1, <1>2 DEF Assignable
    <3>2. Sound(k2, Pieces(n + 1)) /\ Adds(k2, k1, d)
      BY <3>1, <1>4, SolvedSound
    <3> QED
      BY <3>2 DEF Adds
<1> HIDE DEF k2
<1>6. DOMAIN k2 \subseteq 1..n /\ Extends(k2, k)
  BY <1>4, <1>5 DEF Extends
<1>7. Result(k, k2, n)
  BY <1>5, <1>6 DEF Result
<1> QED
  BY <1>7 DEF k2, k1, row, row2

-----------------------------------------------------------------------------
(* Rules that solve cells of both rows; unification                        *)

LEMMA SharedTailResult ==
    ASSUME NEW k, NEW left, NEW right, NEW n, Sides(k, left, right, n),
           NEW k2 \in SharedTail(k, left, right, n + 1)
    PROVE  Result(k, k2, n)
<1> DEFINE c == Tails(left)[1][2]
           d == Tails(right)[1][2]
<1>1. /\ n \in Nat /\ Sound(k, Pieces(n)) /\ DOMAIN k \subseteq 1..n
      /\ left \in Seq(Pieces(n)) /\ right \in Seq(Pieces(n))
      /\ \A p \in ToSet(left) : p[1] = "unif" => p = Unif(p[2]) /\ p[2] \in 1..n /\ p[2] \notin DOMAIN k
      /\ \A p \in ToSet(right) : p[1] = "unif" => p = Unif(p[2]) /\ p[2] \in 1..n /\ p[2] \notin DOMAIN k
      /\ \A p \in ToSet(left), q \in ToSet(right) : p[1] = "unif" /\ q[1] = "unif" => p[2] # q[2]
  BY SidesFacts
<1>2. /\ OneTail(left) /\ OneTail(right)
      /\ k2 = Solved(Solved(k, c, Append(Fields(right), Unif(n + 1))), d, Append(Fields(left), Unif(n + 1)))
  BY DEF SharedTail
<1>3. /\ Tails(left)[1] \in ToSet(left) /\ Tails(left)[1][1] = "unif"
      /\ Tails(right)[1] \in ToSet(right) /\ Tails(right)[1][1] = "unif"
  BY <1>1, <1>2, OneTailFacts
<1>4. c \in 1..n /\ d \in 1..n /\ c # d /\ c \notin DOMAIN k /\ d \notin DOMAIN k
  BY <1>1, <1>3
<1>5. /\ Fields(left) \in Seq(Pieces(n)) /\ Fields(right) \in Seq(Pieces(n))
      /\ \A p \in ToSet(Fields(right)) \cup ToSet(Fields(left)) : p[1] # "unif"
  BY <1>1, SideMembers
<1> HIDE DEF c, d
<1> QED
  BY <1>1, <1>2, <1>4, <1>5, SharedResult

LEMMA RigidSharedTailResult ==
    ASSUME NEW k, NEW side, NEW other, NEW n, Sides(k, side, other, n),
           NEW k2 \in RigidSharedTail(k, side, other, n + 1)
    PROVE  Result(k, k2, n)
<1> DEFINE c == Tails(side)[1][2]
           d == Tails(other)[1][2]
<1>1. /\ n \in Nat /\ Sound(k, Pieces(n)) /\ DOMAIN k \subseteq 1..n
      /\ side \in Seq(Pieces(n)) /\ other \in Seq(Pieces(n))
      /\ \A p \in ToSet(side) : p[1] = "unif" => p = Unif(p[2]) /\ p[2] \in 1..n /\ p[2] \notin DOMAIN k
      /\ \A p \in ToSet(other) : p[1] = "unif" => p = Unif(p[2]) /\ p[2] \in 1..n /\ p[2] \notin DOMAIN k
      /\ \A p \in ToSet(side), q \in ToSet(other) : p[1] = "unif" /\ q[1] = "unif" => p[2] # q[2]
  BY SidesFacts
<1>2. /\ OneTail(side) /\ OneTail(other)
      /\ k2 = Solved(Solved(k, c, Append(Fields(other), Unif(n + 1))), d, Append(Others(side), Unif(n + 1)))
  BY DEF RigidSharedTail
<1>3. /\ Tails(side)[1] \in ToSet(side) /\ Tails(side)[1][1] = "unif"
      /\ Tails(other)[1] \in ToSet(other) /\ Tails(other)[1][1] = "unif"
  BY <1>1, <1>2, OneTailFacts
<1>4. c \in 1..n /\ d \in 1..n /\ c # d /\ c \notin DOMAIN k /\ d \notin DOMAIN k
  BY <1>1, <1>3
<1>5. /\ Others(side) \in Seq(Pieces(n)) /\ Fields(other) \in Seq(Pieces(n))
      /\ \A p \in ToSet(Fields(other)) \cup ToSet(Others(side)) : p[1] # "unif"
  BY <1>1, SideMembers
<1> HIDE DEF c, d
<1> QED
  BY <1>1, <1>2, <1>4, <1>5, SharedResult

LEMMA RuleCases ==
    ASSUME NEW k, NEW l, NEW r, NEW n, NEW i \in 1..11, NEW k2 \in Rules(k, l, r, n + 1)[i]
    PROVE  \/ k2 \in TailsToEmpty(k, l, r) \/ k2 \in TailsToEmpty(k, r, l)
           \/ k2 \in RigidToFirst(k, r, l) \/ k2 \in RigidToFirst(k, l, r)
           \/ k2 \in PeelLeading(k, l, r, TRUE) \/ k2 \in PeelLeading(k, r, l, FALSE)
           \/ k2 \in OneTailTakesAll(k, l, r) \/ k2 \in OneTailTakesAll(k, r, l)
           \/ k2 \in SharedTail(k, l, r, n + 1)
           \/ k2 \in RigidSharedTail(k, l, r, n + 1) \/ k2 \in RigidSharedTail(k, r, l, n + 1)
<1>1. i \in {1, 2, 3, 4, 5, 6, 7, 8, 9, 10, 11}
  OBVIOUS
<1> DEFINE rules == Rules(k, l, r, n + 1)
<1>2. /\ rules[1] = TailsToEmpty(k, l, r) /\ rules[2] = TailsToEmpty(k, r, l)
      /\ rules[3] = RigidToFirst(k, r, l) /\ rules[4] = RigidToFirst(k, l, r)
      /\ rules[5] = PeelLeading(k, l, r, TRUE) /\ rules[6] = PeelLeading(k, r, l, FALSE)
      /\ rules[7] = OneTailTakesAll(k, l, r) /\ rules[8] = OneTailTakesAll(k, r, l)
      /\ rules[9] = SharedTail(k, l, r, n + 1)
      /\ rules[10] = RigidSharedTail(k, l, r, n + 1) /\ rules[11] = RigidSharedTail(k, r, l, n + 1)
  BY DEF Rules
<1>3. k2 \in rules[i]
  OBVIOUS
<1> HIDE DEF rules
<1> QED
  BY <1>1, <1>2, <1>3

LEMMA RulesResult ==
    ASSUME NEW k, NEW l, NEW r, NEW n, Sides(k, l, r, n), NEW i \in 1..11,
           NEW k2 \in Rules(k, l, r, n + 1)[i]
    PROVE  Result(k, k2, n)
<1>1. Sides(k, r, l, n)
  BY SidesSymmetric
<1>2. CASE k2 \in TailsToEmpty(k, l, r) \/ k2 \in TailsToEmpty(k, r, l)
  BY <1>1, <1>2, TailsToEmptyResult
<1>3. CASE k2 \in RigidToFirst(k, r, l) \/ k2 \in RigidToFirst(k, l, r)
  BY <1>1, <1>3, RigidToFirstResult
<1>4. CASE k2 \in PeelLeading(k, l, r, TRUE) \/ k2 \in PeelLeading(k, r, l, FALSE)
  BY <1>1, <1>4, PeelLeadingResult
<1>5. CASE k2 \in OneTailTakesAll(k, l, r) \/ k2 \in OneTailTakesAll(k, r, l)
  BY <1>1, <1>5, OneTailTakesAllResult
<1>6. CASE k2 \in SharedTail(k, l, r, n + 1)
  BY <1>6, SharedTailResult
<1>7. CASE k2 \in RigidSharedTail(k, l, r, n + 1) \/ k2 \in RigidSharedTail(k, r, l, n + 1)
  BY <1>1, <1>7, RigidSharedTailResult
<1> QED
  BY <1>2, <1>3, <1>4, <1>5, <1>6, <1>7, RuleCases

\* What unification starts from.
Given(k, left, right, n) ==
    /\ n \in Nat /\ Sound(k, Pieces(n)) /\ DOMAIN k \subseteq 1..n
    /\ left \in Seq(Pieces(n)) /\ right \in Seq(Pieces(n))

LEMMA NormalGiven ==
    ASSUME NEW n \in Nat, NEW k, Sound(k, Pieces(n)), NEW row \in Seq(Pieces(n))
    PROVE  Normal(k, row) \in Seq(Pieces(n)) /\ Clean(k, Normal(k, row))
<1>1. Over(k, Pieces(n)) /\ Cardinality(DOMAIN k) \in Nat /\ Ranked(k)
  BY FS_CardinalityType DEF Sound
<1> QED
  BY <1>1, NormalWithin, NormalClean

LEMMA SidesEaten ==
    ASSUME NEW k, NEW left, NEW right, NEW n, Given(k, left, right, n)
    PROVE  LET rest == EatMatching(Normal(k, left), Normal(k, right)) IN Sides(k, rest.left, rest.right, n)
<1> DEFINE l == Normal(k, left)
           r == Normal(k, right)
           rest == EatMatching(l, r)
<1>1. n \in Nat /\ Sound(k, Pieces(n)) /\ DOMAIN k \subseteq 1..n
      /\ l \in Seq(Pieces(n)) /\ r \in Seq(Pieces(n)) /\ Clean(k, l) /\ Clean(k, r)
  BY NormalGiven DEF Given
<1> HIDE DEF l, r
<1>2. rest \in Remains(l, r) /\ NoMatch(rest)
  BY <1>1, EatMatchingTyped
<1> HIDE DEF rest
<1>3. /\ rest.left \in Seq(ToSet(l)) /\ rest.right \in Seq(ToSet(r))
  BY <1>2 DEF Remains
<1>4. ToSet(rest.left) \subseteq ToSet(l) /\ ToSet(rest.right) \subseteq ToSet(r)
  BY <1>3, Members
<1>5. rest.left \in Seq(Pieces(n)) /\ rest.right \in Seq(Pieces(n))
  <2>1. ToSet(l) \subseteq Pieces(n) /\ ToSet(r) \subseteq Pieces(n)
    BY <1>1, Members
  <2>2. rest.left \in Seq(Pieces(n))
    BY <2>1, <1>3, SeqMonotonic
  <2>3. rest.right \in Seq(Pieces(n))
    BY <2>1, <1>3, SeqMonotonic
  <2> QED
    BY <2>2, <2>3
<1>6. Clean(k, rest.left) /\ Clean(k, rest.right)
  BY <1>1, <1>4 DEF Clean
<1>7. \A p \in ToSet(rest.left) : p[1] = "unif" => p \notin ToSet(rest.right)
  BY <1>2 DEF NoMatch, SamePiece
<1>8. Sides(k, rest.left, rest.right, n)
  BY <1>1, <1>5, <1>6, <1>7 DEF Sides
<1> QED
  BY <1>8 DEF rest, l, r

\* An outcome changes what is known only when it is a success.
Sensible(k, outcome, n, delay) ==
    /\ Result(k, outcome.known, n)
    /\ outcome.result \in {"ok", "error", "delayed"}
    /\ outcome.result # "ok" => outcome.known = k
    /\ ~delay => outcome.result # "delayed"

LEMMA UnifyRowsResult ==
    ASSUME NEW k, NEW left, NEW right, NEW n, Given(k, left, right, n), NEW delay \in BOOLEAN
    PROVE  Sensible(k, UnifyRows(k, left, right, n + 1, delay), n, delay)
<1> DEFINE rest == EatMatching(Normal(k, left), Normal(k, right))
           l == rest.left
           r == rest.right
           rules == Rules(k, l, r, n + 1)
           applicable == {i \in DOMAIN rules : rules[i] # {}}
           chosen == CHOOSE m \in rules[First(applicable)] : TRUE
           outcome == UnifyRows(k, left, right, n + 1, delay)
<1>1. Sides(k, l, r, n)
  BY SidesEaten
<1>2. Result(k, k, n)
  BY SoundMonotonic DEF Given, Result, Extends
<1>3. \/ outcome = Ok(k) \/ outcome = Err(k) \/ (delay /\ outcome = Delayed(k))
      \/ (applicable # {} /\ outcome = Ok(chosen))
  BY DEF UnifyRows
<1> HIDE DEF l, r, outcome
<1>4. applicable # {} => Result(k, chosen, n)
  <2> SUFFICES ASSUME applicable # {} PROVE Result(k, chosen, n)
    OBVIOUS
  <2>1. DOMAIN rules = 1..11
    BY DEF Rules
  <2> HIDE DEF rules
  <2>2. First(applicable) \in applicable
    <3>1. applicable \subseteq Nat
      BY <2>1
    <3> HIDE DEF applicable
    <3> QED BY <3>1, FirstMember
  <2>3. First(applicable) \in 1..11 /\ rules[First(applicable)] # {}
    BY <2>1, <2>2
  <2> HIDE DEF applicable
  <2>4. chosen \in rules[First(applicable)]
    BY <2>3
  <2> HIDE DEF chosen
  <2> QED
    BY <1>1, <2>3, <2>4, RulesResult DEF rules
<1> HIDE DEF applicable, chosen
<1>5. Sensible(k, outcome, n, delay)
  BY <1>2, <1>3, <1>4 DEF Sensible, Ok, Err, Delayed
<1> QED
  BY <1>5 DEF outcome

LEMMA UnifyConsResult ==
    ASSUME NEW k, NEW left, NEW right, NEW n, Given(k, left, right, n), NEW delay \in BOOLEAN
    PROVE  Sensible(k, UnifyCons(k, left, right, n + 1, delay), n, delay)
<1> DEFINE l == Normal(k, left)
           r == Normal(k, right)
           Assign(c, row) == IF Occurs(c, row) THEN Err(k) ELSE Ok(Solved(k, c, row))
           outcome == UnifyCons(k, left, right, n + 1, delay)
<1>1. n \in Nat /\ Sound(k, Pieces(n)) /\ DOMAIN k \subseteq 1..n
      /\ l \in Seq(Pieces(n)) /\ r \in Seq(Pieces(n)) /\ Clean(k, l) /\ Clean(k, r)
  BY NormalGiven DEF Given
<1>2. \/ outcome = Ok(k)
      \/ Len(l) = 1 /\ OnlyTails(l) /\ outcome = Assign(l[1][2], r)
      \/ Len(r) = 1 /\ OnlyTails(r) /\ outcome = Assign(r[1][2], l)
      \/ outcome = UnifyRows(k, left, right, n + 1, delay)
  BY DEF UnifyCons
<1>3. Result(k, k, n)
  BY <1>1, SoundMonotonic DEF Result, Extends
<1>4. ASSUME NEW s \in Seq(Pieces(n)), NEW t \in Seq(Pieces(n)), Clean(k, s), Clean(k, t), OnlyTails(s)
      PROVE  Sensible(k, Assign(s[1][2], t), n, delay)
  <2> DEFINE c == s[1][2]
  <2>1. s[1] \in ToSet(s) /\ s[1][1] = "unif"
    BY <1>4, FirstOf, OnlyTailsFacts DEF OnlyTails
  <2>2. c \in 1..n /\ c \notin DOMAIN k
    BY <1>1, <1>4, <2>1, CellOf
  <2> HIDE DEF c
  <2>3. CASE Occurs(c, t)
    BY <1>3, <2>3 DEF Err, c, Sensible
  <2>4. CASE ~Occurs(c, t)
    <3>1. Without({c}, t)
      <4>1. \A p \in ToSet(t) : p[1] = "unif" => p = Unif(p[2])
        BY <1>1, <1>4, CellOf
      <4>2. Unif(c) \notin ToSet(t)
        BY <2>4 DEF Occurs, ToSet
      <4> QED
        BY <4>1, <4>2 DEF Without
    <3>2. Assignable(k, c, t, Pieces(n))
      BY <1>4, <2>2, <3>1 DEF Assignable
    <3>3. Sound(Solved(k, c, t), Pieces(n)) /\ Adds(Solved(k, c, t), k, c)
      BY <1>1, <3>2, SolvedSound
    <3>4. Result(k, Solved(k, c, t), n)
      BY <1>1, <2>2, <3>3, SoundMonotonic DEF Result, Adds
    <3> QED
      BY <3>4, <2>4 DEF Ok, c, Sensible
  <2> QED
    BY <2>3, <2>4
<1>5. Sensible(k, Ok(k), n, delay)
  BY <1>3 DEF Ok, Sensible
<1>6. Sensible(k, UnifyRows(k, left, right, n + 1, delay), n, delay)
  BY UnifyRowsResult
<1> HIDE DEF l, r, outcome, Assign
<1>7. Sensible(k, outcome, n, delay)
  BY <1>1, <1>2, <1>4, <1>5, <1>6
<1> QED
  BY <1>7 DEF outcome

-----------------------------------------------------------------------------
(* The inductive invariant; lists of constraints                           *)

\* Constraints over the first n cells.
Kinds == {"equal", "disjoint", "folder"}
IsJob(d, n) == d.kind \in Kinds /\ d.left \in Seq(Pieces(n)) /\ d.right \in Seq(Pieces(n))
Jobs(s, n) == s \in Seq(ToSet(s)) /\ \A d \in ToSet(s) : IsJob(d, n)

KnownSound ==
    /\ fresh \in Nat /\ fresh > Started
    /\ Sound(known, Pieces(fresh - 1)) /\ DOMAIN known \subseteq 1..fresh - 1

ListsSound ==
    /\ Jobs(constraints, fresh - 1) /\ Jobs(pending, fresh - 1)
    /\ Jobs(next, fresh - 1) /\ Jobs(older, fresh - 1)

PhaseInv ==
    /\ phase \in {"elaborate", "solve", "done"}
    /\ pass \in 0..MaxPasses - 1
    /\ phase = "solve" => constraints = <<>> /\ mayDelay = FALSE /\ saved = TRUE
    /\ phase # "solve" => mayDelay = TRUE /\ pending = <<>> /\ next = <<>> /\ older = <<>> /\ pass = 0

KindsInv == \A d \in errors \cup demands : d.kind \in Kinds \cup {"unexamined"}

IInv == KnownSound /\ ListsSound /\ PhaseInv /\ KindsInv

-----------------------------------------------------------------------------
LEMMA JobsEmpty == ASSUME NEW n PROVE Jobs(<<>>, n)
BY DEF Jobs, ToSet

LEMMA JobsMonotonic ==
    ASSUME NEW n \in Nat, NEW s, Jobs(s, n)
    PROVE  Jobs(s, n + 1)
<1>1. \A row \in Seq(Pieces(n)) : row \in Seq(Pieces(n + 1))
  BY PieceFacts, SeqMonotonic
<1> QED
  BY <1>1 DEF Jobs, IsJob

LEMMA JobsAppend ==
    ASSUME NEW n, NEW s, Jobs(s, n), NEW d, IsJob(d, n)
    PROVE  Jobs(Append(s, d), n)
<1> DEFINE X == ToSet(s) \cup {d}
<1>1. s \in Seq(X)
  BY SeqMonotonic DEF Jobs
<1>2. Append(s, d) \in Seq(X) /\ ToSet(Append(s, d)) = X
  BY <1>1, AppendMembers
<1>3. \A e \in X : IsJob(e, n)
  BY DEF Jobs
<1> HIDE DEF X
<1> QED
  BY <1>2, <1>3 DEF Jobs

LEMMA JobsConcat ==
    ASSUME NEW n, NEW s, Jobs(s, n), NEW t, Jobs(t, n)
    PROVE  Jobs(s \o t, n) /\ ToSet(s \o t) = ToSet(s) \cup ToSet(t)
<1> DEFINE X == ToSet(s) \cup ToSet(t)
<1>1. s \in Seq(ToSet(s)) /\ t \in Seq(ToSet(t))
  BY DEF Jobs
<1>2. s \in Seq(X)
  BY <1>1, SeqMonotonic
<1>3. t \in Seq(X)
  BY <1>1, SeqMonotonic
<1>4. s \o t \in Seq(X) /\ ToSet(s \o t) = X
  BY <1>2, <1>3, ConcatMembers
<1>5. \A e \in X : IsJob(e, n)
  BY DEF Jobs
<1> QED
  BY <1>4, <1>5 DEF Jobs

LEMMA JobsPart ==
    ASSUME NEW n, NEW s, Jobs(s, n), NEW a \in Int, NEW b \in Int, 1 <= a, b <= Len(s)
    PROVE  Jobs(SubSeq(s, a, b), n)
<1>1. s \in Seq(ToSet(s)) /\ Len(s) \in Nat /\ \A j \in 1..Len(s) : s[j] \in ToSet(s)
  BY LenProperties, ElementOfSeq DEF Jobs
<1>2. \A j \in a..b : s[j] \in ToSet(s)
  BY <1>1
<1>3. SubSeq(s, a, b) \in Seq(ToSet(s))
  BY <1>2, SubSeqProperties
<1>4. ToSet(SubSeq(s, a, b)) \subseteq ToSet(s) /\ SubSeq(s, a, b) \in Seq(ToSet(SubSeq(s, a, b)))
  BY <1>3, Members
<1> QED
  BY <1>4 DEF Jobs

LEMMA JobsHead ==
    ASSUME NEW n, NEW s, Jobs(s, n), s # <<>>
    PROVE  IsJob(s[1], n) /\ Jobs(SubSeq(s, 2, Len(s)), n)
<1>1. s \in Seq(ToSet(s))
  BY DEF Jobs
<1>2. Len(s) \in Nat /\ s[1] \in ToSet(s)
  BY <1>1, FirstOf, LenProperties
<1>3. Jobs(SubSeq(s, 2, Len(s)), n)
  BY <1>2, JobsPart
<1> QED
  BY <1>2, <1>3 DEF Jobs

Pairs(n) == Seq(Pieces(n)) \X Seq(Pieces(n))

LEMMA JobsGoals ==
    ASSUME NEW n, NEW env, NEW pairs \in Seq(Pairs(n))
    PROVE  Jobs(Goals(env, pairs), n)
<1>1. Len(pairs) \in Nat /\ DOMAIN pairs = 1..Len(pairs) /\ \A i \in 1..Len(pairs) : pairs[i] \in Pairs(n)
  BY LenProperties, ElementOfSeq
<1> DEFINE goals == Goals(env, pairs)
<1>2. /\ goals = [i \in 1..Len(pairs) |-> Disjoint(pairs[i][1], pairs[i][2], env)]
  BY <1>1 DEF Goals
<1>3. \A i \in 1..Len(pairs) : IsJob(goals[i], n)
  BY <1>1, <1>2 DEF IsJob, Kinds, Disjoint, Pairs
<1>4. goals \in Seq(ToSet(goals))
  <2>1. \A i \in 1..Len(pairs) : goals[i] \in ToSet(goals)
    BY <1>2 DEF ToSet
  <2> HIDE DEF goals
  <2>2. goals \in [1..Len(pairs) -> ToSet(goals)]
    BY <2>1, <1>2
  <2> QED
    BY <1>1, <2>2, SeqDef
<1>5. \A d \in ToSet(goals) : IsJob(d, n)
  BY <1>2, <1>3 DEF ToSet
<1> QED
  BY <1>4, <1>5 DEF Jobs

LEMMA UnprovedTyped ==
    ASSUME NEW n, NEW env, NEW p \in Pieces(n), NEW row \in Seq(Pieces(n))
    PROVE  Unproved(env, p, row) \in Seq(Pairs(n))
<1> DEFINE seqs == [j \in DOMAIN row |->
                      IF Prove1(env, PieceOf(p), PieceOf(row[j])) THEN <<>> ELSE << <<<<p>>, <<row[j]>>>> >>]
<1>1. Len(row) \in Nat /\ DOMAIN row = 1..Len(row) /\ \A i \in 1..Len(row) : row[i] \in Pieces(n)
  BY LenProperties, ElementOfSeq
<1>2. \A j \in DOMAIN row : <<<<p>>, <<row[j]>>>> \in Pairs(n)
  <2>1. \A x \in Pieces(n) : <<x>> \in Seq(Pieces(n))
    OBVIOUS
  <2>2. \A x, y \in Pieces(n) : <<<<x>>, <<y>>>> \in Pairs(n)
    BY <2>1 DEF Pairs
  <2> QED
    BY <1>1, <2>2
<1>3. \A j \in DOMAIN row : seqs[j] \in Seq(Pairs(n))
  BY <1>2
<1>4. seqs \in Seq(Seq(Pairs(n)))
  BY <1>1, <1>3
<1>5. Unproved(env, p, row) = FlattenSeq(seqs)
  BY DEF Unproved
<1> HIDE DEF seqs
<1> QED
  BY <1>4, <1>5, FlattenMembers

LEMMA ProveTyped ==
    ASSUME NEW n \in Nat, NEW k, Sound(k, Pieces(n)), NEW env,
           NEW left \in Seq(Pieces(n)), NEW right \in Seq(Pieces(n))
    PROVE  Prove(k, env, left, right) \in Seq(Pairs(n))
<1> DEFINE l == Normal(k, left)
           r == Normal(k, right)
           ps == Known(l)
           qs == Known(r)
           seqs == [i \in DOMAIN ps |-> Unproved(env, ps[i], qs)]
<1>1. l \in Seq(Pieces(n)) /\ r \in Seq(Pieces(n))
  BY NormalGiven
<1>2. ps \in Seq(Pieces(n)) /\ qs \in Seq(Pieces(n))
  BY <1>1, OfKindMembers DEF Known
<1>3. Prove(k, env, left, right) \in {<< <<l, r>> >>, FlattenSeq(seqs)}
  BY DEF Prove
<1> HIDE DEF l, r
<1>4. << <<l, r>> >> \in Seq(Pairs(n))
  BY <1>1 DEF Pairs
<1> HIDE DEF ps, qs
<1>5. Len(ps) \in Nat /\ DOMAIN ps = 1..Len(ps) /\ \A i \in 1..Len(ps) : ps[i] \in Pieces(n)
  BY <1>2, LenProperties, ElementOfSeq
<1>6. \A i \in DOMAIN ps : Unproved(env, ps[i], qs) \in Seq(Pairs(n))
  BY <1>2, <1>5, UnprovedTyped
<1>7. seqs \in Seq(Seq(Pairs(n)))
  BY <1>5, <1>6
<1> HIDE DEF seqs
<1>8. FlattenSeq(seqs) \in Seq(Pairs(n))
  BY <1>7, FlattenMembers
<1> QED
  BY <1>3, <1>4, <1>8

-----------------------------------------------------------------------------
\* The next cell to be made is above those in use.
LEMMA NextFreshSound ==
    ASSUME NEW n \in Nat, fresh = n + 1, NEW outcome, Sound(outcome.known, Pieces(n + 1)),
           DOMAIN outcome.known \subseteq 1..n
    PROVE  /\ NextFresh(outcome) \in {fresh, fresh + 1}
           /\ Sound(outcome.known, Pieces(NextFresh(outcome) - 1))
           /\ DOMAIN outcome.known \subseteq 1..NextFresh(outcome) - 1
<1> DEFINE k == outcome.known
<1>1. CASE \E c \in DOMAIN k : Occurs(fresh, k[c])
  <2>1. NextFresh(outcome) = fresh + 1
    BY <1>1 DEF NextFresh
  <2>2. (fresh + 1) - 1 = n + 1 /\ 1..n \subseteq 1..n + 1
    OBVIOUS
  <2> QED
    BY <2>1, <2>2
<1>2. CASE \A c \in DOMAIN k : ~Occurs(fresh, k[c])
  <2>1. NextFresh(outcome) = fresh /\ fresh - 1 = n
    BY <1>2 DEF NextFresh
  <2>2. ASSUME NEW c \in DOMAIN k PROVE k[c] \in Seq(Pieces(n))
    <3>1. k[c] \in Seq(Pieces(n + 1))
      BY DEF Sound, Over
    <3>2. Unif(n + 1) \notin ToSet(k[c])
      BY <1>2 DEF Occurs, ToSet
    <3>3. ToSet(k[c]) \subseteq Pieces(n + 1) /\ k[c] \in Seq(ToSet(k[c]))
      BY <3>1, Members
    <3>4. 1..n + 1 = 1..n \cup {n + 1}
      OBVIOUS
    <3>5. Pieces(n + 1) \ {Unif(n + 1)} \subseteq Pieces(n)
      BY <3>4 DEF Pieces
    <3>6. ToSet(k[c]) \subseteq Pieces(n)
      BY <3>2, <3>3, <3>5
    <3> QED
      BY <3>3, <3>6, SeqMonotonic
  <2>3. Sound(k, Pieces(n))
    BY <2>2 DEF Sound, Over
  <2> QED
    BY <2>1, <2>3
<1> QED
  BY <1>1, <1>2

\* Rows of the program.
LEMMA ProgramRow ==
    ASSUME NEW row \in ProgramRows, NEW n \in Nat, n >= Started
    PROVE  row \in Seq(Pieces(n))
<1>1. row \in Seq(ToSet(row)) /\ Started \in Nat
  BY ProgramAssumption
<1>2. \A p \in ToSet(row) : p \in Pieces(n)
  <2>1. TAKE p \in ToSet(row)
  <2>2. p[1] \in {"field", "rigid"} \/ \E c \in 1..Started : p = Unif(c)
    BY ProgramAssumption
  <2>3. CASE p[1] \in {"field", "rigid"}
    BY <2>3 DEF Pieces, Atoms
  <2>4. CASE \E c \in 1..Started : p = Unif(c)
    BY <2>4, <1>1 DEF Pieces
  <2> QED
    BY <2>2, <2>3, <2>4
<1> QED
  BY <1>1, <1>2, SeqMonotonic

-----------------------------------------------------------------------------
(* Actions that demand                                                     *)

LEMMA FreshFacts ==
    ASSUME KnownSound
    PROVE  /\ fresh \in Nat /\ fresh > Started /\ fresh - 1 \in Nat /\ fresh = (fresh - 1) + 1
           /\ Sound(known, Pieces(fresh - 1)) /\ DOMAIN known \subseteq 1..fresh - 1
<1>1. /\ fresh \in Nat /\ fresh > Started
      /\ Sound(known, Pieces(fresh - 1)) /\ DOMAIN known \subseteq 1..fresh - 1
  BY DEF KnownSound
<1>2. fresh - 1 \in Nat /\ fresh = (fresh - 1) + 1
  BY <1>1, ProgramAssumption
<1> QED
  BY <1>1, <1>2

LEMMA KnownGiven ==
    ASSUME KnownSound, NEW left \in Seq(Pieces(fresh - 1)), NEW right \in Seq(Pieces(fresh - 1))
    PROVE  /\ fresh - 1 \in Nat /\ fresh = (fresh - 1) + 1
           /\ Given(known, left, right, fresh - 1)
BY FreshFacts DEF Given

\* What an outcome leaves.
LEMMA OutcomeSound ==
    ASSUME KnownSound, NEW outcome, Result(known, outcome.known, fresh - 1),
           known' = outcome.known, fresh' = NextFresh(outcome)
    PROVE  KnownSound' /\ fresh' \in {fresh, fresh + 1} /\ Extends(known', known)
<1>1. fresh - 1 \in Nat /\ fresh = (fresh - 1) + 1 /\ fresh \in Nat /\ fresh > Started
  BY FreshFacts
<1>2. /\ Sound(outcome.known, Pieces((fresh - 1) + 1)) /\ DOMAIN outcome.known \subseteq 1..fresh - 1
      /\ Extends(outcome.known, known)
  BY DEF Result
<1>3. /\ NextFresh(outcome) \in {fresh, fresh + 1}
      /\ Sound(outcome.known, Pieces(NextFresh(outcome) - 1))
      /\ DOMAIN outcome.known \subseteq 1..NextFresh(outcome) - 1
  BY <1>1, <1>2, NextFreshSound
<1>4. fresh' \in Nat /\ fresh' > Started
  BY <1>1, <1>3, ProgramAssumption
<1> QED
  BY <1>2, <1>3, <1>4 DEF KnownSound

\* Lists that stay are lists over the cells there are afterwards.
LEMMA JobsKept ==
    ASSUME KnownSound, fresh' \in {fresh, fresh + 1}, NEW s, Jobs(s, fresh - 1)
    PROVE  Jobs(s, fresh' - 1)
<1>1. fresh \in Nat /\ fresh - 1 \in Nat
  BY FreshFacts
<1>2. CASE fresh' = fresh
  BY <1>2
<1>3. CASE fresh' = fresh + 1
  <2>1. fresh' - 1 = (fresh - 1) + 1
    BY <1>1, <1>3
  <2> QED
    BY <1>1, <2>1, JobsMonotonic
<1> QED
  BY <1>2, <1>3

LEMMA EqualJob ==
    ASSUME NEW n, NEW l \in Seq(Pieces(n)), NEW r \in Seq(Pieces(n))
    PROVE  IsJob(Equal(l, r), n)
BY DEF IsJob, Equal, Kinds

LEMMA ProgramRowsKnown ==
    ASSUME KnownSound
    PROVE  /\ \A row \in ProgramRows : row \in Seq(Pieces(fresh - 1))
           /\ \A e \in Equations \cup Apart \cup Assumptions : e[1] \in ProgramRows /\ e[2] \in ProgramRows
           /\ \A row \in Folders : row \in ProgramRows
<1>1. fresh - 1 \in Nat /\ fresh - 1 >= Started
  BY ProgramAssumption DEF KnownSound
<1> QED
  BY <1>1, ProgramRow DEF ProgramRows

-----------------------------------------------------------------------------
LEMMA InitIInv == ASSUME Init PROVE IInv
<1>1. known = <<>> /\ DOMAIN known = {}
  BY DEF Init
<1>2. Ranks(known, 0, [c \in {} |-> 0])
  <2>1. Cardinality(DOMAIN known) = 0
    BY <1>1, FS_EmptySet
  <2> QED
    BY <1>1, <2>1 DEF Ranks
<1>3. Sound(known, Pieces(fresh - 1))
  <2>1. Ranked(known)
    BY <1>2 DEF Ranked
  <2> QED
    BY <1>1, <2>1, FS_EmptySet DEF Sound, Over
<1>4. KnownSound
  BY <1>1, <1>3, ProgramAssumption DEF Init, KnownSound
<1>5. ListsSound
  BY JobsEmpty DEF Init, ListsSound
<1>6. PhaseInv /\ KindsInv
  BY PassesAssumption DEF Init, PhaseInv, KindsInv
<1> QED
  BY <1>4, <1>5, <1>6 DEF IInv

LEMMA CheckConIInv ==
    ASSUME IInv, NEW e \in Equations, CheckCon(e[1], e[2])
    PROVE  IInv' /\ Extends(known', known)
<1> DEFINE l == e[1]
           r == e[2]
           job == Equal(l, r)
<1>1. KnownSound /\ ListsSound /\ PhaseInv /\ KindsInv
  BY DEF IInv
<1>2. l \in Seq(Pieces(fresh - 1)) /\ r \in Seq(Pieces(fresh - 1))
  BY <1>1, ProgramRowsKnown
<1>3. IsJob(job, fresh - 1)
  BY <1>2, EqualJob
<1>4. /\ phase = "elaborate" /\ demands' = demands \cup {job}
      /\ UNCHANGED <<phase, witnesses, solver, mayDelay, envs>>
  BY DEF CheckCon, Demand
<1> SUFFICES ASSUME NEW outcome, outcome = UnifyCons(known, l, r, fresh, mayDelay),
                    known' = outcome.known, fresh' = NextFresh(outcome),
                    constraints' = IF outcome.result = "delayed" THEN Append(constraints, job) ELSE constraints,
                    errors' = IF outcome.result = "error" THEN errors \cup {job} ELSE errors
             PROVE  IInv' /\ Extends(known', known)
  BY DEF CheckCon
<1> HIDE DEF job, l, r
<1>5. mayDelay = TRUE
  BY <1>1, <1>4 DEF PhaseInv
<1>6. Result(known, outcome.known, fresh - 1)
  <2>1. fresh = (fresh - 1) + 1 /\ Given(known, l, r, fresh - 1)
    BY <1>1, <1>2, KnownGiven
  <2>2. Sensible(known, UnifyCons(known, l, r, (fresh - 1) + 1, TRUE), fresh - 1, TRUE)
    BY <2>1, UnifyConsResult
  <2> QED
    BY <2>1, <2>2, <1>5 DEF Sensible
<1>7. KnownSound' /\ fresh' \in {fresh, fresh + 1} /\ Extends(known', known)
  BY <1>1, <1>6, OutcomeSound
<1>8. ListsSound'
  <2>1. Jobs(constraints', fresh - 1)
    BY <1>1, <1>3, JobsAppend DEF ListsSound
  <2>2. Jobs(pending', fresh - 1) /\ Jobs(next', fresh - 1) /\ Jobs(older', fresh - 1)
    BY <1>1, <1>4 DEF ListsSound, solver
  <2> QED
    BY <1>1, <1>7, <2>1, <2>2, JobsKept DEF ListsSound
<1>9. PhaseInv'
  BY <1>1, <1>4 DEF PhaseInv, solver
<1>10. KindsInv'
  BY <1>1, <1>3, <1>4 DEF KindsInv, IsJob
<1> QED
  BY <1>7, <1>8, <1>9, <1>10 DEF IInv

LEMMA DisjointIInv ==
    ASSUME IInv, NEW l \in ProgramRows, NEW r \in ProgramRows, NEW env,
           DemandDisjoint(l, r, env), UNCHANGED <<known, fresh, errors>>,
           constraints' = constraints \o Goals(env, Prove(known, env, l, r))
    PROVE  IInv' /\ Extends(known', known)
<1>1. KnownSound /\ ListsSound /\ PhaseInv /\ KindsInv
  BY DEF IInv
<1>2. l \in Seq(Pieces(fresh - 1)) /\ r \in Seq(Pieces(fresh - 1))
  BY <1>1, ProgramRowsKnown
<1>3. phase = "elaborate" /\ UNCHANGED <<phase, witnesses, solver, mayDelay>>
  BY DEF DemandDisjoint, Demand
<1>4. \A d \in demands' : d \in demands \/ d.kind \in Kinds \cup {"unexamined"}
  BY DEF DemandDisjoint, Demand, Disjoint, Kinds
<1>5. KnownSound'
  BY <1>1 DEF KnownSound
<1>6. Jobs(constraints', fresh - 1)
  <2>1. fresh - 1 \in Nat /\ Sound(known, Pieces(fresh - 1))
    BY <1>1, FreshFacts
  <2>2. Jobs(Goals(env, Prove(known, env, l, r)), fresh - 1)
    BY <1>2, <2>1, ProveTyped, JobsGoals
  <2> QED
    BY <1>1, <2>2, JobsConcat DEF ListsSound
<1>7. ListsSound'
  BY <1>1, <1>3, <1>6 DEF ListsSound, solver
<1>8. PhaseInv'
  BY <1>1, <1>3 DEF PhaseInv, solver
<1>9. KindsInv'
  BY <1>1, <1>4 DEF KindsInv
<1>10. Extends(known', known)
  BY DEF Extends
<1> QED
  BY <1>5, <1>7, <1>8, <1>9, <1>10 DEF IInv

LEMMA WantFolderIInv ==
    ASSUME IInv, NEW row \in Folders, WantFolder(row)
    PROVE  IInv' /\ Extends(known', known)
<1>1. KnownSound /\ ListsSound /\ PhaseInv /\ KindsInv
  BY DEF IInv
<1>2. /\ phase = "elaborate" /\ demands' = demands \cup {Folder(row)}
      /\ constraints' = Append(constraints, Folder(row))
      /\ UNCHANGED <<phase, witnesses, solver, mayDelay, known, fresh, errors>>
  BY DEF WantFolder, Demand
<1>3. IsJob(Folder(row), fresh - 1)
  BY <1>1, ProgramRowsKnown DEF IsJob, Folder, Kinds
<1>4. KnownSound' /\ Extends(known', known)
  BY <1>1, <1>2 DEF KnownSound, Extends
<1>5. Jobs(constraints', fresh - 1)
  BY <1>1, <1>2, <1>3, JobsAppend DEF ListsSound
<1>6. ListsSound'
  BY <1>1, <1>2, <1>5 DEF ListsSound, solver
<1>7. PhaseInv'
  BY <1>1, <1>2 DEF PhaseInv, solver
<1>8. KindsInv'
  BY <1>1, <1>2, <1>3 DEF KindsInv, IsJob
<1> QED
  BY <1>4, <1>6, <1>7, <1>8 DEF IInv

LEMMA StartSolvingIInv ==
    ASSUME IInv, NEW start \in Nat, start <= Len(constraints), NEW final, StartSolving(start, final)
    PROVE  IInv' /\ Extends(known', known)
<1>1. KnownSound /\ ListsSound /\ PhaseInv /\ KindsInv
  BY DEF IInv
<1>2. /\ phase = "elaborate" /\ phase' = "solve"
      /\ older' = SubSeq(constraints, 1, start)
      /\ pending' = SubSeq(constraints, start + 1, Len(constraints))
      /\ constraints' = <<>> /\ saved' = mayDelay /\ mayDelay' = FALSE /\ next' = <<>> /\ pass' = 0
      /\ UNCHANGED <<known, fresh, errors, demands>>
  BY DEF StartSolving
<1>3. Len(constraints) \in Nat
  BY <1>1, LenProperties DEF ListsSound, Jobs
<1>4. Jobs(older', fresh - 1) /\ Jobs(pending', fresh - 1)
  BY <1>1, <1>2, <1>3, JobsPart DEF ListsSound
<1>5. KnownSound' /\ Extends(known', known)
  BY <1>1, <1>2 DEF KnownSound, Extends
<1>6. ListsSound'
  BY <1>2, <1>4, JobsEmpty DEF ListsSound
<1>7. PhaseInv'
  BY <1>1, <1>2, PassesAssumption DEF PhaseInv
<1>8. KindsInv'
  BY <1>1, <1>2 DEF KindsInv
<1> QED
  BY <1>5, <1>6, <1>7, <1>8 DEF IInv

LEMMA TryDisjointIInv == ASSUME IInv, TryDisjoint PROVE IInv' /\ Extends(known', known)
<1>1. KnownSound /\ ListsSound /\ PhaseInv /\ KindsInv
  BY DEF IInv
<1> DEFINE job == pending[1]
           goals == Prove(known, job.env, job.left, job.right)
<1>2. /\ phase = "solve" /\ pending # <<>> /\ pending' = SubSeq(pending, 2, Len(pending))
      /\ next' = next \o Goals(job.env, goals)
      /\ UNCHANGED <<phase, known, fresh, constraints, mayDelay, errors, demands, pass, older, saved>>
  BY DEF TryDisjoint, Solving, Taken, context
<1>3. IsJob(job, fresh - 1) /\ Jobs(pending', fresh - 1)
  BY <1>1, <1>2, JobsHead DEF ListsSound
<1>4. Jobs(next', fresh - 1)
  <2>1. fresh - 1 \in Nat /\ Sound(known, Pieces(fresh - 1))
    BY <1>1, FreshFacts
  <2>2. job.left \in Seq(Pieces(fresh - 1)) /\ job.right \in Seq(Pieces(fresh - 1))
    BY <1>3 DEF IsJob
  <2>3. goals \in Seq(Pairs(fresh - 1))
    BY <2>1, <2>2, ProveTyped
  <2> HIDE DEF goals
  <2>4. Jobs(Goals(job.env, goals), fresh - 1)
    BY <2>3, JobsGoals
  <2> QED
    BY <1>1, <1>2, <2>4, JobsConcat DEF ListsSound
<1>5. KnownSound' /\ Extends(known', known)
  BY <1>1, <1>2 DEF KnownSound, Extends
<1>6. ListsSound'
  BY <1>1, <1>2, <1>3, <1>4 DEF ListsSound
<1>7. PhaseInv'
  BY <1>1, <1>2 DEF PhaseInv
<1>8. KindsInv'
  BY <1>1, <1>2 DEF KindsInv
<1> QED
  BY <1>5, <1>6, <1>7, <1>8 DEF IInv

-----------------------------------------------------------------------------
(* Actions that solve; the rows known make sense                           *)

LEMMA TryFolderIInv == ASSUME IInv, TryFolder PROVE IInv' /\ Extends(known', known)
<1>1. KnownSound /\ ListsSound /\ PhaseInv /\ KindsInv
  BY DEF IInv
<1>2. /\ phase = "solve" /\ pending # <<>> /\ pending' = SubSeq(pending, 2, Len(pending))
      /\ next' \in {next, Append(next, pending[1])}
      /\ UNCHANGED <<phase, known, fresh, constraints, mayDelay, errors, demands, pass, older, saved>>
  BY DEF TryFolder, Solving, Taken
<1>3. IsJob(pending[1], fresh - 1) /\ Jobs(pending', fresh - 1)
  BY <1>1, <1>2, JobsHead DEF ListsSound
<1>4. Jobs(next', fresh - 1)
  BY <1>1, <1>2, <1>3, JobsAppend DEF ListsSound
<1>5. KnownSound' /\ Extends(known', known)
  BY <1>1, <1>2 DEF KnownSound, Extends
<1>6. ListsSound'
  BY <1>1, <1>2, <1>3, <1>4 DEF ListsSound
<1>7. PhaseInv'
  BY <1>1, <1>2 DEF PhaseInv
<1>8. KindsInv'
  BY <1>1, <1>2 DEF KindsInv
<1> QED
  BY <1>5, <1>6, <1>7, <1>8 DEF IInv

LEMMA TryEqualIInv == ASSUME IInv, TryEqual PROVE IInv' /\ Extends(known', known)
<1>1. KnownSound /\ ListsSound /\ PhaseInv /\ KindsInv
  BY DEF IInv
<1> DEFINE job == pending[1]
<1>2. /\ phase = "solve" /\ pending # <<>> /\ pending' = SubSeq(pending, 2, Len(pending))
      /\ UNCHANGED <<phase, mayDelay, errors, demands, pass, older, saved>>
  BY DEF TryEqual, Solving, Taken
<1>3. IsJob(job, fresh - 1) /\ Jobs(pending', fresh - 1)
  BY <1>1, <1>2, JobsHead DEF ListsSound
<1> SUFFICES ASSUME NEW outcome, outcome = UnifyRows(known, job.left, job.right, fresh, mayDelay),
                    known' = outcome.known, fresh' = NextFresh(outcome),
                    constraints' = IF outcome.result = "delayed" THEN Append(constraints, job) ELSE constraints,
                    next' = IF outcome.result = "error" THEN Append(next, job) ELSE next
             PROVE  IInv' /\ Extends(known', known)
  BY DEF TryEqual
<1> HIDE DEF job
<1>4. mayDelay = FALSE /\ constraints = <<>>
  BY <1>1, <1>2 DEF PhaseInv
<1>5. Result(known, outcome.known, fresh - 1) /\ outcome.result # "delayed"
  <2>1. job.left \in Seq(Pieces(fresh - 1)) /\ job.right \in Seq(Pieces(fresh - 1))
    BY <1>3 DEF IsJob
  <2>2. fresh = (fresh - 1) + 1 /\ Given(known, job.left, job.right, fresh - 1)
    BY <1>1, <2>1, KnownGiven
  <2>3. Sensible(known, UnifyRows(known, job.left, job.right, (fresh - 1) + 1, FALSE), fresh - 1, FALSE)
    BY <2>2, UnifyRowsResult
  <2> QED
    BY <2>2, <2>3, <1>4 DEF Sensible
<1>6. KnownSound' /\ fresh' \in {fresh, fresh + 1} /\ Extends(known', known)
  BY <1>1, <1>5, OutcomeSound
<1>7. Jobs(next', fresh - 1) /\ constraints' = constraints
  BY <1>1, <1>3, <1>5, JobsAppend DEF ListsSound
<1>8. ListsSound'
  <2>1. Jobs(constraints', fresh - 1) /\ Jobs(older', fresh - 1)
    BY <1>1, <1>2, <1>7 DEF ListsSound
  <2> QED
    BY <1>1, <1>3, <1>6, <1>7, <2>1, JobsKept DEF ListsSound
<1>9. PhaseInv'
  BY <1>1, <1>2, <1>7 DEF PhaseInv
<1>10. KindsInv'
  BY <1>1, <1>2 DEF KindsInv
<1> QED
  BY <1>6, <1>8, <1>9, <1>10 DEF IInv

LEMMA NextPassIInv == ASSUME IInv, NextPass PROVE IInv' /\ Extends(known', known)
<1>1. KnownSound /\ ListsSound /\ PhaseInv /\ KindsInv
  BY DEF IInv
<1>2. /\ phase = "solve" /\ pending' = next /\ next' = <<>> /\ pass' = pass + 1 /\ pass + 1 # MaxPasses
      /\ UNCHANGED <<phase, known, fresh, constraints, mayDelay, errors, demands, older, saved>>
  BY DEF NextPass, PassOver, LastPass, context
<1>3. KnownSound' /\ Extends(known', known)
  BY <1>1, <1>2 DEF KnownSound, Extends
<1>4. ListsSound'
  BY <1>1, <1>2, JobsEmpty DEF ListsSound
<1>5. PhaseInv'
  BY <1>1, <1>2, PassesAssumption DEF PhaseInv
<1>6. KindsInv'
  BY <1>1, <1>2 DEF KindsInv
<1> QED
  BY <1>3, <1>4, <1>5, <1>6 DEF IInv

LEMMA FinishIInv == ASSUME IInv, Finish PROVE IInv' /\ Extends(known', known)
<1>1. KnownSound /\ ListsSound /\ PhaseInv /\ KindsInv
  BY DEF IInv
<1>2. /\ phase = "solve" /\ pending = <<>> /\ phase' \in {"elaborate", "done"}
      /\ errors' \subseteq errors \cup ToSet(next)
      /\ constraints' \in {constraints, older \o next}
      /\ mayDelay' = saved /\ older' = <<>> /\ next' = <<>> /\ pass' = 0
      /\ UNCHANGED <<known, fresh, demands, pending>>
  BY DEF Finish, PassOver
<1>3. KnownSound' /\ Extends(known', known)
  BY <1>1, <1>2 DEF KnownSound, Extends
<1>4. Jobs(constraints', fresh - 1)
  BY <1>1, <1>2, JobsConcat DEF ListsSound
<1>5. ListsSound'
  BY <1>1, <1>2, <1>4, JobsEmpty DEF ListsSound
<1>6. PhaseInv'
  BY <1>1, <1>2, PassesAssumption DEF PhaseInv
<1>7. KindsInv'
  <2>1. \A d \in ToSet(next) : d.kind \in Kinds
    BY <1>1 DEF ListsSound, Jobs, IsJob
  <2> QED
    BY <1>1, <1>2, <2>1 DEF KindsInv
<1> QED
  BY <1>3, <1>5, <1>6, <1>7 DEF IInv

LEMMA NextIInv == ASSUME IInv, [Next]_vars PROVE IInv' /\ Extends(known', known)
<1>1. ASSUME NEW e \in Equations, CheckCon(e[1], e[2]) PROVE IInv' /\ Extends(known', known)
  BY <1>1, CheckConIInv
<1>2. ASSUME NEW e \in Apart, DischargeGuard(e[1], e[2]) PROVE IInv' /\ Extends(known', known)
  <2>1. e[1] \in ProgramRows /\ e[2] \in ProgramRows
    BY DEF ProgramRows
  <2>2. /\ DemandDisjoint(e[1], e[2], Env) /\ UNCHANGED <<known, fresh, errors>>
        /\ constraints' = constraints \o Goals(Env, Prove(known, Env, e[1], e[2]))
    BY <1>2 DEF DischargeGuard
  <2> QED
    BY <2>1, <2>2, DisjointIInv
<1>3. ASSUME NEW e \in Assumptions, EnterGuarded(e[1], e[2]) PROVE IInv' /\ Extends(known', known)
  <2>1. e[1] \in ProgramRows /\ e[2] \in ProgramRows
    BY DEF ProgramRows
  <2> DEFINE env == AssertApart(known, e[1], e[2], Env)
  <2>2. /\ DemandDisjoint(e[1], e[2], env) /\ UNCHANGED <<known, fresh, errors>>
        /\ constraints' = constraints \o Goals(env, Prove(known, env, e[1], e[2]))
    BY <1>3 DEF EnterGuarded
  <2> HIDE DEF env
  <2> QED
    BY <2>1, <2>2, DisjointIInv
<1>4. ASSUME UNCHANGED <<phase, context, demands, solver>> PROVE IInv' /\ Extends(known', known)
  <2>1. KnownSound' /\ Extends(known', known)
    BY <1>4 DEF IInv, KnownSound, Extends, context
  <2>2. ListsSound'
    BY <1>4 DEF IInv, ListsSound, context, solver
  <2>3. PhaseInv' /\ KindsInv'
    BY <1>4 DEF IInv, PhaseInv, KindsInv, context, solver
  <2> QED
    BY <2>1, <2>2, <2>3 DEF IInv
<1>5. CASE LeaveGuarded
  BY <1>4, <1>5 DEF LeaveGuarded
<1>6. ASSUME NEW row \in Folders, WantFolder(row) PROVE IInv' /\ Extends(known', known)
  BY <1>6, WantFolderIInv
<1>7. CASE SolveRecent \/ SolveDeferred \/ SolveFinal
  <2>1. Len(constraints) \in Nat
    BY LenProperties DEF IInv, ListsSound, Jobs
  <2>2. CASE SolveRecent
    <3>1. PICK start \in 1..Len(constraints) - 1 : StartSolving(start, FALSE)
      BY <2>2 DEF SolveRecent
    <3>2. start \in Nat /\ start <= Len(constraints)
      BY <2>1
    <3> QED
      BY <3>1, <3>2, StartSolvingIInv
  <2>3. CASE SolveDeferred \/ SolveFinal
    <3>1. StartSolving(0, FALSE) \/ StartSolving(0, TRUE)
      BY <2>3 DEF SolveDeferred, SolveFinal
    <3>2. 0 \in Nat /\ 0 <= Len(constraints)
      BY <2>1
    <3> QED
      BY <3>1, <3>2, StartSolvingIInv
  <2> QED
    BY <1>7, <2>2, <2>3
<1>8. CASE SolverStep
  BY <1>8, TryDisjointIInv, TryFolderIInv, TryEqualIInv, NextPassIInv, FinishIInv DEF SolverStep
<1>9. CASE UNCHANGED vars
  BY <1>4, <1>9 DEF vars
<1> QED
  BY <1>1, <1>2, <1>3, <1>5, <1>6, <1>7, <1>8, <1>9 DEF Next

LEMMA IInvWellFormed == ASSUME IInv PROVE WellFormed
<1>1. KnownSound /\ ListsSound /\ PhaseInv /\ KindsInv
  BY DEF IInv
<1>2. /\ fresh \in Nat /\ fresh > Started /\ fresh - 1 \in Nat /\ fresh = (fresh - 1) + 1
      /\ Sound(known, Pieces(fresh - 1)) /\ DOMAIN known \subseteq 1..fresh - 1
  BY <1>1, FreshFacts
<1>3. ASSUME NEW c \in DOMAIN known, NEW i \in DOMAIN known[c], known[c][i][1] = "unif"
      PROVE  known[c][i][2] < fresh
  <2>1. known[c] \in Seq(Pieces(fresh - 1))
    BY <1>2 DEF Sound, Over
  <2>2. known[c][i] \in Pieces(fresh - 1)
    BY <2>1, ElementOfSeq, LenProperties
  <2>3. known[c][i][2] \in 1..fresh - 1
    BY <1>2, <1>3, <2>2, PieceFacts
  <2> QED
    BY <1>2, <2>3
<1>4. ASSUME NEW d \in Outstanding \cup errors \cup demands
      PROVE  d.kind \in {"equal", "disjoint", "folder", "unexamined"}
  BY <1>1 DEF Outstanding, ListsSound, Jobs, IsJob, KindsInv, Kinds
<1>5. TypeOK
  BY <1>1, <1>2, <1>3, <1>4 DEF TypeOK, PhaseInv
<1>6. ASSUME NEW c \in DOMAIN known PROVE Clean(known, Normal(known, <<Unif(c)>>))
  <2>1. <<Unif(c)>> \in Seq(Pieces(fresh - 1))
    BY <1>2 DEF Pieces
  <2> QED
    BY <1>2, <2>1, NormalGiven
<1>7. Acyclic
  BY <1>6 DEF Acyclic, Clean, IsSolved
<1> QED
  BY <1>5, <1>7 DEF WellFormed

(* No cell is solved, over however many other cells, to a row that it       *)
(* occurs in, however unify_rows (elaborate.rs:6384) and unify_cons         *)
(* assign them, and every cell and constraint is of its type.               *)
THEOREM WellFormedRows == Spec => []WellFormed
<1>1. Init => IInv
  BY InitIInv
<1>2. IInv /\ [Next]_vars => IInv'
  BY NextIInv
<1>3. IInv => WellFormed
  BY IInvWellFormed
<1> QED
  BY <1>1, <1>2, <1>3, PTL DEF Spec

(* What a cell was solved to stays: no step of the elaborator or of         *)
(* solve_constraints_internal assigns a cell that has a solution            *)
(* (assign_unknown_cunif_solution), nor takes a solution back.              *)
THEOREM CellsSolvedOnce == Spec => SolvedOnce
<1>1. Init => IInv
  BY InitIInv
<1>2. IInv /\ [Next]_vars => IInv'
  BY NextIInv
<1>3. IInv /\ [Next]_vars => [\A c \in DOMAIN known : c \in DOMAIN known' /\ known'[c] = known[c]]_vars
  BY NextIInv DEF Extends
<1> QED
  BY <1>1, <1>2, <1>3, PTL DEF Spec, SolvedOnce

-----------------------------------------------------------------------------
(* Concatenations and what they expand to                                  *)

\* Induction over rows, piece by piece.
LEMMA RowInduction ==
    ASSUME NEW X, NEW S, <<>> \in S, \A s \in Seq(X), p \in X : s \in S => s \o <<p>> \in S
    PROVE  Seq(X) \subseteq S
<1> SUFFICES ASSUME NEW t \in Seq(X) PROVE t \in S
  OBVIOUS
<1> DEFINE n == Len(t)
           Part(m) == SubSeq(t, 1, m)
           G == {m \in 0..n : Part(m) \in S}
<1>1. n \in Nat /\ DOMAIN t = 1..n /\ \A i \in 1..n : t[i] \in X
  BY LenProperties, ElementOfSeq
<1> HIDE DEF n
<1>2. 0 \in G
  <2>1. Part(0) = <<>>
    BY SubSeqEmpty
  <2> HIDE DEF Part
  <2> QED
    BY <2>1, <1>1
<1>3. ASSUME NEW m \in 0..n, m < n, m \in G PROVE m + 1 \in G
  <2>1. m + 1 \in 1..Len(t) /\ 1 \in 1..Len(t) /\ m + 1 \in 1..n /\ (m + 1) - 1 = m /\ m + 1 \in 0..n
    BY <1>1, <1>3 DEF n
  <2>2. SubSeq(t, 1, m + 1) = SubSeq(t, 1, (m + 1) - 1) \o <<t[m + 1]>>
    BY <2>1, SubSeqRecursiveSecond
  <2>3. SubSeq(t, 1, m) \in Seq(X)
    BY <1>1, <1>3, SubSeqProperties
  <2>4. SubSeq(t, 1, m) \in S /\ t[m + 1] \in X
    BY <1>1, <1>3, <2>1
  <2>5. SubSeq(t, 1, m) \o <<t[m + 1]>> \in S
    BY <2>3, <2>4
  <2>6. Part(m + 1) \in S
    BY <2>1, <2>2, <2>5
  <2> HIDE DEF Part
  <2> QED
    BY <2>1, <2>6
<1>4. 0..n \subseteq G
  <2> HIDE DEF G
  <2> QED BY <1>1, <1>2, <1>3, UpTo
<1>5. Part(n) = t
  BY SubSeqFull DEF n
<1> HIDE DEF Part
<1> QED
  BY <1>1, <1>4, <1>5

LEMMA ConcatIndex ==
    ASSUME NEW X, NEW s \in Seq(X), NEW p \in X
    PROVE  /\ s \o <<p>> \in Seq(X) /\ Len(s \o <<p>>) = Len(s) + 1 /\ Len(s) \in Nat
           /\ DOMAIN s = 1..Len(s) /\ DOMAIN (s \o <<p>>) = 1..Len(s) + 1
           /\ \A i \in 1..Len(s) : (s \o <<p>>)[i] = s[i]
           /\ (s \o <<p>>)[Len(s) + 1] = p
<1>1. <<p>> \in Seq(X) /\ Len(<<p>>) = 1 /\ <<p>>[1] = p
  OBVIOUS
<1>2. /\ s \o <<p>> \in Seq(X) /\ Len(s \o <<p>>) = Len(s) + 1
      /\ \A i \in 1..Len(s) + 1 : (s \o <<p>>)[i] = IF i <= Len(s) THEN s[i] ELSE <<p>>[i - Len(s)]
  BY <1>1, ConcatProperties
<1>3. Len(s) \in Nat /\ DOMAIN s = 1..Len(s)
  BY LenProperties
<1>4. DOMAIN (s \o <<p>>) = 1..Len(s) + 1
  BY <1>2, LenProperties
<1>5. (Len(s) + 1) - Len(s) = 1 /\ ~(Len(s) + 1 <= Len(s)) /\ Len(s) + 1 \in 1..Len(s) + 1
  BY <1>3
<1>6. (s \o <<p>>)[Len(s) + 1] = p
  BY <1>1, <1>2, <1>5
<1>7. \A i \in 1..Len(s) : (s \o <<p>>)[i] = s[i]
  BY <1>2, <1>3
<1> QED
  BY <1>2, <1>3, <1>4, <1>6, <1>7

LEMMA FlattenNone == FlattenSeq(<<>>) = <<>>
<1>1. <<>> \in Seq(Seq({})) /\ Len(<<>>) = 0
  OBVIOUS
<1>2. PICK h \in [0..Len(<<>>) -> Seq({})] : h[0] = <<>> /\ FlattenSeq(<<>>) = h[Len(<<>>)]
  BY <1>1, FlattenSteps
<1> QED
  BY <1>1, <1>2

LEMMA FlattenOneMore ==
    ASSUME NEW X, NEW seqs \in Seq(Seq(X)), NEW s \in Seq(X)
    PROVE  FlattenSeq(seqs \o <<s>>) = FlattenSeq(seqs) \o s
<1> DEFINE n == Len(seqs)
           more == seqs \o <<s>>
<1>1. /\ more \in Seq(Seq(X)) /\ Len(more) = n + 1 /\ n \in Nat
      /\ (\A i \in 1..n : more[i] = seqs[i]) /\ more[n + 1] = s
  BY ConcatIndex
<1> HIDE DEF n, more
<1>2. PICK g \in [0..n -> Seq(X)] :
        g[0] = <<>> /\ (\A k \in 1..n : g[k] = g[k - 1] \o seqs[k]) /\ FlattenSeq(seqs) = g[n]
  BY FlattenSteps DEF n
<1>3. PICK h \in [0..n + 1 -> Seq(X)] :
        h[0] = <<>> /\ (\A k \in 1..n + 1 : h[k] = h[k - 1] \o more[k]) /\ FlattenSeq(more) = h[n + 1]
  <2>1. \E h \in [0..Len(more) -> Seq(X)] :
          /\ h[0] = <<>> /\ (\A k \in 1..Len(more) : h[k] = h[k - 1] \o more[k])
          /\ FlattenSeq(more) = h[Len(more)]
    BY <1>1, FlattenSteps
  <2> QED
    BY <1>1, <2>1
<1> DEFINE G == {k \in 0..n : h[k] = g[k]}
<1>4. 0 \in G
  BY <1>1, <1>2, <1>3
<1>5. ASSUME NEW m \in 0..n, m < n, m \in G PROVE m + 1 \in G
  <2>1. m + 1 \in 1..n /\ m + 1 \in 1..n + 1 /\ (m + 1) - 1 = m /\ m + 1 \in 0..n
    BY <1>1, <1>5
  <2>2. h[m + 1] = h[m] \o more[m + 1]
    BY <1>3, <2>1
  <2>3. g[m + 1] = g[m] \o seqs[m + 1]
    BY <1>2, <2>1
  <2>4. more[m + 1] = seqs[m + 1] /\ h[m] = g[m]
    BY <1>1, <1>5, <2>1
  <2> QED
    BY <2>1, <2>2, <2>3, <2>4
<1>6. 0..n \subseteq G
  <2> HIDE DEF G
  <2> QED BY <1>1, <1>4, <1>5, UpTo
<1>7. n \in 0..n /\ n + 1 \in 1..n + 1 /\ (n + 1) - 1 = n
  BY <1>1
<1>8. h[n + 1] = g[n] \o s
  BY <1>1, <1>3, <1>6, <1>7
<1> QED
  BY <1>2, <1>3, <1>8 DEF more

\* What a piece is replaced by.
Replaced(k, p) == IF IsSolved(k, p) THEN k[p[2]] ELSE <<p>>

LEMMA ExpandOneMore ==
    ASSUME NEW X, NEW k, Over(k, X), NEW row \in Seq(X), NEW p \in X
    PROVE  Expand(k, row \o <<p>>) = Expand(k, row) \o Replaced(k, p) /\ Replaced(k, p) \in Seq(X)
<1> DEFINE more == row \o <<p>>
           seqs == [i \in DOMAIN row |->
                      IF row[i][1] = "unif" /\ row[i][2] \in DOMAIN k THEN k[row[i][2]] ELSE <<row[i]>>]
           seqs2 == [i \in DOMAIN more |->
                      IF more[i][1] = "unif" /\ more[i][2] \in DOMAIN k THEN k[more[i][2]] ELSE <<more[i]>>]
           n == Len(row)
<1>1. /\ more \in Seq(X) /\ n \in Nat /\ DOMAIN row = 1..n /\ DOMAIN more = 1..n + 1
      /\ (\A i \in 1..n : more[i] = row[i]) /\ more[n + 1] = p
  BY ConcatIndex
<1>2. \A i \in 1..n : row[i] \in X
  BY ElementOfSeq
<1> HIDE DEF n, more
<1>3. Replaced(k, p) \in Seq(X)
  BY DEF Replaced, IsSolved, Over
<1>4. \A i \in 1..n : seqs[i] \in Seq(X)
  BY <1>1, <1>2 DEF Over
<1>5. seqs \in Seq(Seq(X)) /\ Len(seqs) = n
  BY <1>1, <1>4
<1>6. DOMAIN seqs2 = 1..n + 1 /\ (\A i \in 1..n : seqs2[i] = seqs[i]) /\ seqs2[n + 1] = Replaced(k, p)
  BY <1>1 DEF Replaced, IsSolved
<1>7. seqs2 = [i \in 1..n + 1 |-> seqs2[i]]
  BY <1>1
<1> HIDE DEF seqs, seqs2
<1>8. /\ seqs \o <<Replaced(k, p)>> \in Seq(Seq(X)) /\ Len(seqs \o <<Replaced(k, p)>>) = n + 1
      /\ (\A i \in 1..n : (seqs \o <<Replaced(k, p)>>)[i] = seqs[i])
      /\ (seqs \o <<Replaced(k, p)>>)[n + 1] = Replaced(k, p)
  BY <1>3, <1>5, ConcatIndex
<1>9. seqs2 = seqs \o <<Replaced(k, p)>>
  <2>1. \A i \in 1..n + 1 : seqs2[i] \in Seq(X)
    BY <1>1, <1>3, <1>4, <1>6
  <2>2. seqs2 \in Seq(Seq(X)) /\ Len(seqs2) = n + 1
    <3>1. seqs2 \in [1..n + 1 -> Seq(X)] /\ n + 1 \in Nat
      BY <1>1, <1>7, <2>1
    <3>2. seqs2 \in Seq(Seq(X))
      BY <3>1, SeqDef
    <3> QED
      BY <1>1, <1>6, <3>2, LenProperties
  <2>3. \A i \in 1..Len(seqs2) : seqs2[i] = (seqs \o <<Replaced(k, p)>>)[i]
    BY <1>1, <1>6, <1>8, <2>2
  <2> QED
    BY <1>8, <2>2, <2>3, SeqEqual
<1>10. FlattenSeq(seqs2) = FlattenSeq(seqs) \o Replaced(k, p)
  BY <1>3, <1>5, <1>9, FlattenOneMore
<1>11. Expand(k, row) = FlattenSeq(seqs) /\ Expand(k, more) = FlattenSeq(seqs2)
  BY DEF Expand, seqs, seqs2
<1> QED
  BY <1>3, <1>10, <1>11 DEF more

LEMMA ExpandNone == ASSUME NEW k PROVE Expand(k, <<>>) = <<>>
<1>1. Expand(k, <<>>) = FlattenSeq(<<>>)
  BY DEF Expand
<1> QED
  BY <1>1, FlattenNone

LEMMA ConcatRows ==
    ASSUME NEW X, NEW s \in Seq(X), NEW t \in Seq(X), NEW u \in Seq(X)
    PROVE  /\ s \o t \in Seq(X) /\ s \o (t \o u) = (s \o t) \o u
           /\ s \o <<>> = s /\ <<>> \o s = s
<1>1. s \o t \in Seq(X)
  BY ConcatProperties
<1>2. s \o (t \o u) = (s \o t) \o u
  BY ConcatAssociative
<1>3. s \o <<>> = s /\ <<>> \o s = s
  BY ConcatEmptySeq
<1> QED
  BY <1>1, <1>2, <1>3

\* How three rows are grouped when they are joined makes no difference.
Regroups(a, b, c) == a \o (b \o c) = (a \o b) \o c

LEMMA ConcatRegroups == ASSUME NEW X PROVE \A a, b, c \in Seq(X) : Regroups(a, b, c)
<1>1. ASSUME NEW a \in Seq(X), NEW b \in Seq(X), NEW c \in Seq(X)
      PROVE  a \o (b \o c) = (a \o b) \o c
  BY ConcatAssociative
<1> QED
  BY <1>1 DEF Regroups

\* A piece at the end of a row adds what replaces it.
Stepwise(k, X) ==
    \A row \in Seq(X), p \in X :
        Expand(k, row \o <<p>>) = Expand(k, row) \o Replaced(k, p) /\ Replaced(k, p) \in Seq(X)

LEMMA ExpandStepwise == ASSUME NEW X, NEW k, Over(k, X) PROVE Stepwise(k, X)
BY ExpandOneMore DEF Stepwise

LEMMA ExpandConcat ==
    ASSUME NEW X, NEW k, Over(k, X), NEW s \in Seq(X), NEW t \in Seq(X)
    PROVE  Expand(k, s \o t) = Expand(k, s) \o Expand(k, t)
<1> DEFINE S == {u \in Seq(X) : Expand(k, s \o u) = Expand(k, s) \o Expand(k, u)}
<1>1. <<>> \in S
  <2>1. <<>> \in Seq(X) /\ s \o <<>> = s
    BY ConcatRows
  <2>2. Expand(k, s) \o <<>> = Expand(k, s)
    BY ExpandMembers, ConcatRows
  <2> QED
    BY <2>1, <2>2, ExpandNone
<1>2. ASSUME NEW u \in Seq(X), NEW p \in X, u \in S PROVE u \o <<p>> \in S
  <2>1. <<p>> \in Seq(X) /\ s \o u \in Seq(X) /\ u \o <<p>> \in Seq(X)
    BY ConcatIndex, ConcatRows
  <2>2. s \o (u \o <<p>>) = (s \o u) \o <<p>>
    <3>1. Regroups(s, u, <<p>>)
      BY <2>1, ConcatRegroups
    <3> QED
      BY <3>1 DEF Regroups
  <2>3. Expand(k, (s \o u) \o <<p>>) = Expand(k, s \o u) \o Replaced(k, p)
    <3>1. Stepwise(k, X)
      BY ExpandStepwise
    <3> QED
      BY <2>1, <3>1 DEF Stepwise
  <2>4. Expand(k, u \o <<p>>) = Expand(k, u) \o Replaced(k, p) /\ Replaced(k, p) \in Seq(X)
    <3>1. Stepwise(k, X)
      BY ExpandStepwise
    <3> QED
      BY <3>1 DEF Stepwise
  <2>5. Expand(k, s) \in Seq(X) /\ Expand(k, u) \in Seq(X)
    BY ExpandMembers
  <2>6. Expand(k, s) \o (Expand(k, u) \o Replaced(k, p)) = (Expand(k, s) \o Expand(k, u)) \o Replaced(k, p)
    <3>1. Regroups(Expand(k, s), Expand(k, u), Replaced(k, p))
      BY <2>4, <2>5, ConcatRegroups
    <3> QED
      BY <3>1 DEF Regroups
  <2>7. Expand(k, s \o u) = Expand(k, s) \o Expand(k, u)
    BY <1>2
  <2>8. Expand(k, s \o (u \o <<p>>)) = Expand(k, s) \o Expand(k, u \o <<p>>)
    BY <2>2, <2>3, <2>4, <2>6, <2>7
  <2> QED
    BY <2>1, <2>8
<1>3. Seq(X) \subseteq S
  <2> HIDE DEF S
  <2> QED BY <1>1, <1>2, RowInduction
<1> QED
  BY <1>3

LEMMA ExpandDistributes ==
    ASSUME NEW X, NEW k, Over(k, X)
    PROVE  \A a, b \in Seq(X) : Expand(k, a \o b) = Expand(k, a) \o Expand(k, b)
BY ExpandConcat

LEMMA CleanParts ==
    ASSUME NEW X, NEW k, NEW s \in Seq(X), NEW t \in Seq(X)
    PROVE  Clean(k, s \o t) <=> Clean(k, s) /\ Clean(k, t)
<1>1. ToSet(s \o t) = ToSet(s) \cup ToSet(t)
  BY ConcatMembers
<1> QED
  BY <1>1 DEF Clean

LEMMA OnePiece ==
    ASSUME NEW X, NEW k, NEW p \in X
    PROVE  /\ <<p>> \in Seq(X) /\ ToSet(<<p>>) = {p}
           /\ Clean(k, <<p>>) <=> ~IsSolved(k, p)
           /\ Over(k, X) => Expand(k, <<p>>) = Replaced(k, p) /\ Replaced(k, p) \in Seq(X)
<1>1. <<p>> \in Seq(X) /\ ToSet(<<p>>) = {p}
  BY DEF ToSet
<1>2. Clean(k, <<p>>) <=> ~IsSolved(k, p)
  BY <1>1 DEF Clean
<1>3. ASSUME Over(k, X) PROVE Expand(k, <<p>>) = Replaced(k, p) /\ Replaced(k, p) \in Seq(X)
  <2>1. <<>> \in Seq(X) /\ <<>> \o <<p>> = <<p>>
    BY <1>1, ConcatRows
  <2>2. Expand(k, <<>> \o <<p>>) = Expand(k, <<>>) \o Replaced(k, p) /\ Replaced(k, p) \in Seq(X)
    <3>1. Stepwise(k, X)
      BY <1>3, ExpandStepwise
    <3> QED
      BY <2>1, <3>1 DEF Stepwise
  <2>3. <<>> \o Replaced(k, p) = Replaced(k, p)
    BY <2>2, ConcatRows
  <2> QED
    BY <2>1, <2>2, <2>3, ExpandNone
<1> QED
  BY <1>1, <1>2, <1>3

LEMMA ExpandOfClean ==
    ASSUME NEW X, NEW k, Over(k, X), NEW row \in Seq(X), Clean(k, row)
    PROVE  Expand(k, row) = row
<1> DEFINE S == {u \in Seq(X) : Clean(k, u) => Expand(k, u) = u}
<1>1. <<>> \in S
  BY ExpandNone, ConcatRows
<1>2. ASSUME NEW u \in Seq(X), NEW p \in X, u \in S PROVE u \o <<p>> \in S
  <2>1. <<p>> \in Seq(X) /\ u \o <<p>> \in Seq(X)
    BY ConcatIndex
  <2>2. Clean(k, u \o <<p>>) => Clean(k, u) /\ ~IsSolved(k, p)
    BY <2>1, CleanParts, OnePiece
  <2>3. Expand(k, u \o <<p>>) = Expand(k, u) \o Replaced(k, p)
    <3>1. Stepwise(k, X)
      BY ExpandStepwise
    <3> QED
      BY <3>1 DEF Stepwise
  <2>4. ~IsSolved(k, p) => Replaced(k, p) = <<p>>
    BY DEF Replaced
  <2> QED
    BY <1>2, <2>1, <2>2, <2>3, <2>4
<1>3. Seq(X) \subseteq S
  <2> HIDE DEF S
  <2> QED BY <1>1, <1>2, RowInduction
<1> QED
  BY <1>3

LEMMA SoundDepth ==
    ASSUME NEW X, NEW k, Sound(k, X)
    PROVE  Over(k, X) /\ Cardinality(DOMAIN k) \in Nat /\ Ranked(k)
           /\ (DOMAIN k # {} => Cardinality(DOMAIN k) >= 1)
<1>1. IsFiniteSet(DOMAIN k) /\ Over(k, X) /\ Ranked(k)
  BY DEF Sound
<1>2. Cardinality(DOMAIN k) \in Nat /\ (Cardinality(DOMAIN k) = 0 <=> DOMAIN k = {})
  BY <1>1, FS_CardinalityType, FS_EmptySet
<1> QED
  BY <1>1, <1>2

\* The expansions that lead to the normal form.
Chain(k, X, row, h) ==
    /\ h \in [0..Cardinality(DOMAIN k) -> Seq(X)] /\ h[0] = row
    /\ \A j \in 1..Cardinality(DOMAIN k) : h[j] = Expand(k, h[j - 1])
    /\ Normal(k, row) = h[Cardinality(DOMAIN k)]

LEMMA Chained ==
    ASSUME NEW X, NEW k, Sound(k, X), NEW row \in Seq(X)
    PROVE  (\E h : Chain(k, X, row, h)) /\ Normal(k, row) \in Seq(X) /\ Clean(k, Normal(k, row))
<1>1. Over(k, X) /\ Cardinality(DOMAIN k) \in Nat /\ Ranked(k)
  BY SoundDepth
<1>2. PICK h \in [0..Cardinality(DOMAIN k) -> Seq(X)] :
              /\ h[0] = row
              /\ \A j \in 1..Cardinality(DOMAIN k) : h[j] = Expand(k, h[j - 1])
              /\ Normal(k, row) = h[Cardinality(DOMAIN k)]
  BY <1>1, NormalSteps
<1>3. Normal(k, row) \in Seq(X) /\ Clean(k, Normal(k, row))
  BY <1>1, NormalWithin, NormalClean
<1> QED
  BY <1>2, <1>3 DEF Chain

LEMMA ChainSteps ==
    ASSUME NEW X, NEW k, Sound(k, X), NEW row, NEW h, Chain(k, X, row, h), NEW m \in 0..Cardinality(DOMAIN k),
           m < Cardinality(DOMAIN k)
    PROVE  h[m] \in Seq(X) /\ h[m + 1] = Expand(k, h[m]) /\ h[m + 1] \in Seq(X)
           /\ m + 1 \in 0..Cardinality(DOMAIN k)
<1> DEFINE d == Cardinality(DOMAIN k)
<1>1. d \in Nat
  BY SoundDepth
<1> HIDE DEF d
<1>2. h \in [0..d -> Seq(X)] /\ \A j \in 1..d : h[j] = Expand(k, h[j - 1])
  BY DEF Chain, d
<1>3. m \in 0..d /\ m < d
  BY DEF d
<1>4. m + 1 \in 1..d /\ (m + 1) - 1 = m /\ m + 1 \in 0..d
  BY <1>1, <1>3
<1>5. h[m + 1] = Expand(k, h[m])
  BY <1>2, <1>4
<1> QED
  BY <1>2, <1>3, <1>4, <1>5 DEF d

LEMMA NormalConcat ==
    ASSUME NEW X, NEW k, Sound(k, X), NEW s \in Seq(X), NEW t \in Seq(X)
    PROVE  Normal(k, s \o t) = Normal(k, s) \o Normal(k, t)
<1> DEFINE d == Cardinality(DOMAIN k)
<1>1. Over(k, X) /\ d \in Nat
  BY SoundDepth
<1>1a. \A a, b \in Seq(X) : Expand(k, a \o b) = Expand(k, a) \o Expand(k, b)
  <2> HIDE DEF d
  <2> QED BY <1>1, ExpandDistributes
<1>2. PICK f : Chain(k, X, s, f)
  BY Chained
<1>3. PICK g : Chain(k, X, t, g)
  BY Chained
<1>4. PICK h : Chain(k, X, s \o t, h)
  <2>1. \A u \in Seq(X) : \E h : Chain(k, X, u, h)
    BY Chained
  <2>2. s \o t \in Seq(X)
    BY ConcatRows
  <2> QED
    BY <2>1, <2>2
<1> DEFINE G == {m \in 0..d : h[m] = f[m] \o g[m]}
<1>5. 0 \in G
  BY <1>1, <1>2, <1>3, <1>4 DEF Chain
<1>6. ASSUME NEW m \in 0..d, m < d, m \in G PROVE m + 1 \in G
  <2>1. f[m] \in Seq(X) /\ f[m + 1] = Expand(k, f[m])
    BY <1>2, <1>6, ChainSteps
  <2>2. g[m] \in Seq(X) /\ g[m + 1] = Expand(k, g[m])
    BY <1>3, <1>6, ChainSteps
  <2>3. \A u : Chain(k, X, u, h) => h[m + 1] = Expand(k, h[m]) /\ m + 1 \in 0..d
    BY <1>6, ChainSteps
  <2>5. Expand(k, f[m] \o g[m]) = Expand(k, f[m]) \o Expand(k, g[m])
    BY <1>1a, <2>1, <2>2
  <2>6. h[m + 1] = Expand(k, h[m]) /\ m + 1 \in 0..d /\ h[m] = f[m] \o g[m]
    BY <1>4, <1>6, <2>3
  <2>7. h[m + 1] = f[m + 1] \o g[m + 1]
    BY <2>1, <2>2, <2>5, <2>6
  <2> QED
    BY <2>6, <2>7
<1>7. 0..d \subseteq G
  <2> HIDE DEF G, d
  <2> QED BY <1>1, <1>5, <1>6, UpTo
<1>8. h[d] = f[d] \o g[d]
  <2> HIDE DEF d
  <2>1. d \in 0..d
    BY <1>1
  <2> QED
    BY <1>7, <2>1
<1>9. Normal(k, s) = f[d] /\ Normal(k, t) = g[d]
  BY <1>2, <1>3 DEF Chain
<1>10. \A u : Chain(k, X, u, h) => Normal(k, u) = h[d]
  BY DEF Chain
<1>11. Normal(k, s \o t) = h[d]
  BY <1>4, <1>10
<1> QED
  BY <1>8, <1>9, <1>11

LEMMA NormalConcats ==
    ASSUME NEW X, NEW k, Sound(k, X)
    PROVE  \A s, t \in Seq(X) : Normal(k, s \o t) = Normal(k, s) \o Normal(k, t)
<1> TAKE s, t \in Seq(X)
<1> QED
  BY NormalConcat

LEMMA NormalOfClean ==
    ASSUME NEW X, NEW k, Sound(k, X), NEW row \in Seq(X), Clean(k, row)
    PROVE  Normal(k, row) = row
<1> DEFINE d == Cardinality(DOMAIN k)
<1>1. Over(k, X) /\ d \in Nat
  BY SoundDepth
<1>2. PICK h : Chain(k, X, row, h)
  BY Chained
<1> DEFINE G == {m \in 0..d : h[m] = row}
<1>3. 0 \in G
  BY <1>1, <1>2 DEF Chain
<1>4. ASSUME NEW m \in 0..d, m < d, m \in G PROVE m + 1 \in G
  <2>1. h[m + 1] = Expand(k, h[m]) /\ m + 1 \in 0..d
    BY <1>2, <1>4, ChainSteps
  <2> QED
    BY <1>1, <1>4, <2>1, ExpandOfClean
<1>5. 0..d \subseteq G
  <2> HIDE DEF G, d
  <2> QED BY <1>1, <1>3, <1>4, UpTo
<1>6. Normal(k, row) = h[d]
  BY <1>2 DEF Chain
<1> QED
  BY <1>1, <1>5, <1>6

\* A solved cell stands for what it was solved to.
LEMMA NormalOfSolved ==
    ASSUME NEW X, NEW k, Sound(k, X), NEW p \in X, IsSolved(k, p)
    PROVE  k[p[2]] \in Seq(X) /\ Normal(k, <<p>>) = Normal(k, k[p[2]])
<1> DEFINE d == Cardinality(DOMAIN k)
           row == k[p[2]]
<1>1. Over(k, X) /\ d \in Nat /\ d >= 1
  <2>1. p[2] \in DOMAIN k
    BY DEF IsSolved
  <2> QED
    BY <2>1, SoundDepth
<1>2. row \in Seq(X) /\ <<p>> \in Seq(X) /\ Expand(k, <<p>>) = row
  BY <1>1, OnePiece DEF Replaced, IsSolved, Over
<1>3. PICK h : Chain(k, X, <<p>>, h)
  <2>1. \A u \in Seq(X) : \E h : Chain(k, X, u, h)
    BY Chained
  <2> QED
    BY <1>2, <2>1
<1>4. PICK g : Chain(k, X, row, g)
  <2> HIDE DEF row
  <2> QED BY <1>2, Chained
<1>5. \A u : Chain(k, X, u, h) =>
        h[0] = u /\ Normal(k, u) = h[d] /\
        \A m \in 0..d : m < d => h[m] \in Seq(X) /\ h[m + 1] = Expand(k, h[m]) /\ h[m + 1] \in Seq(X)
  <2>1. \A u : Chain(k, X, u, h) => \A m \in 0..d :
          m < d => h[m] \in Seq(X) /\ h[m + 1] = Expand(k, h[m]) /\ h[m + 1] \in Seq(X)
    BY ChainSteps
  <2>2. \A u : Chain(k, X, u, h) => h[0] = u /\ Normal(k, u) = h[d]
    BY DEF Chain
  <2> QED
    BY <2>1, <2>2
<1>6. \A m \in 0..d : m < d => g[m] \in Seq(X) /\ g[m + 1] = Expand(k, g[m])
  <2> HIDE DEF row
  <2> QED BY <1>4, ChainSteps
<1>7. g[0] = row /\ Normal(k, row) = g[d]
  BY <1>4 DEF Chain
<1>8. h[0] = <<p>> /\ Normal(k, <<p>>) = h[d]
  BY <1>3, <1>5
<1>9. \A m \in 0..d : m < d => h[m + 1] = Expand(k, h[m]) /\ h[m + 1] \in Seq(X)
  BY <1>3, <1>5
<1> HIDE DEF d, row
<1> DEFINE G == {m \in 0..d - 1 : h[m + 1] = g[m]}
<1>10. 0 \in G
  <2>1. 0 \in 0..d /\ 0 < d /\ 0 \in 0..d - 1 /\ 0 + 1 = 1
    BY <1>1
  <2>2. h[0 + 1] = Expand(k, h[0])
    BY <1>9, <2>1
  <2> QED
    BY <1>2, <1>7, <1>8, <2>1, <2>2
<1>11. ASSUME NEW m \in 0..d - 1, m < d - 1, m \in G PROVE m + 1 \in G
  <2>1. m \in 0..d /\ m < d /\ m + 1 \in 0..d /\ m + 1 < d /\ m + 1 \in 0..d - 1
    BY <1>1, <1>11
  <2>2. h[(m + 1) + 1] = Expand(k, h[m + 1]) /\ g[m + 1] = Expand(k, g[m])
    BY <1>6, <1>9, <2>1
  <2> QED
    BY <1>11, <2>1, <2>2
<1>12. d - 1 \in Nat /\ d - 1 \in 0..d - 1 /\ (d - 1) + 1 = d /\ d - 1 \in 0..d /\ d - 1 < d
  BY <1>1
<1>13. 0..d - 1 \subseteq G
  <2> HIDE DEF G
  <2> QED BY <1>10, <1>11, <1>12, UpTo
<1>14. h[d] = g[d - 1] /\ g[d] = Expand(k, g[d - 1]) /\ h[d] \in Seq(X)
  BY <1>6, <1>9, <1>12, <1>13
<1>15. Clean(k, h[d])
  <2>1. \A u \in Seq(X) : Clean(k, Normal(k, u))
    BY Chained
  <2> QED
    BY <1>2, <1>8, <2>1
<1>16. Expand(k, h[d]) = h[d]
  BY <1>1, <1>14, <1>15, ExpandOfClean
<1>17. Normal(k, row) = Normal(k, <<p>>)
  BY <1>7, <1>8, <1>14, <1>16
<1> QED
  BY <1>2, <1>17 DEF row

LEMMA NormalOfReplaced ==
    ASSUME NEW X, NEW k, Sound(k, X), NEW k2, Sound(k2, X), Extends(k2, k), NEW p \in X
    PROVE  Replaced(k, p) \in Seq(X) /\ Normal(k2, Replaced(k, p)) = Normal(k2, <<p>>)
<1>1. Over(k, X)
  BY SoundDepth
<1>2. Replaced(k, p) \in Seq(X)
  BY <1>1, OnePiece
<1>3. CASE IsSolved(k, p)
  <2>1. IsSolved(k2, p) /\ k2[p[2]] = k[p[2]]
    BY <1>3 DEF Extends, IsSolved
  <2>2. Normal(k2, <<p>>) = Normal(k2, k2[p[2]])
    BY <2>1, NormalOfSolved
  <2> QED
    BY <1>2, <1>3, <2>1, <2>2 DEF Replaced
<1>4. CASE ~IsSolved(k, p)
  BY <1>2, <1>4 DEF Replaced
<1> QED
  BY <1>3, <1>4

LEMMA NormalExpand ==
    ASSUME NEW X, NEW k, Sound(k, X), NEW k2, Sound(k2, X), Extends(k2, k), NEW row \in Seq(X)
    PROVE  Expand(k, row) \in Seq(X) /\ Normal(k2, Expand(k, row)) = Normal(k2, row)
<1>1. Over(k, X)
  BY SoundDepth
<1>2. \A u \in Seq(X) : Expand(k, u) \in Seq(X)
  BY <1>1, ExpandMembers
<1>2a. \A a, b \in Seq(X) : Normal(k2, a \o b) = Normal(k2, a) \o Normal(k2, b)
  BY NormalConcats
<1> DEFINE S == {u \in Seq(X) : Normal(k2, Expand(k, u)) = Normal(k2, u)}
<1>3. <<>> \in S
  <2>1. <<>> \in Seq(X)
    OBVIOUS
  <2> QED
    BY <2>1, ExpandNone
<1>4. ASSUME NEW u \in Seq(X), NEW p \in X, u \in S PROVE u \o <<p>> \in S
  <2>1. <<p>> \in Seq(X) /\ u \o <<p>> \in Seq(X)
    BY ConcatIndex, OnePiece
  <2>2. Replaced(k, p) \in Seq(X) /\ Normal(k2, Replaced(k, p)) = Normal(k2, <<p>>)
    BY NormalOfReplaced
  <2>4. Expand(k, u \o <<p>>) = Expand(k, u) \o Replaced(k, p)
    <3>1. Stepwise(k, X)
      BY <1>1, ExpandStepwise
    <3> QED
      BY <3>1 DEF Stepwise
  <2>5. Normal(k2, Expand(k, u) \o Replaced(k, p)) = Normal(k2, Expand(k, u)) \o Normal(k2, Replaced(k, p))
    <3>1. Expand(k, u) \in Seq(X)
      BY <1>2
    <3> QED
      BY <1>2a, <2>2, <3>1
  <2>6. Normal(k2, u \o <<p>>) = Normal(k2, u) \o Normal(k2, <<p>>)
    BY <1>2a, <2>1
  <2>7. Normal(k2, Expand(k, u)) = Normal(k2, u)
    BY <1>4
  <2>8. Normal(k2, Expand(k, u \o <<p>>)) = Normal(k2, u \o <<p>>)
    BY <2>2, <2>4, <2>5, <2>6, <2>7
  <2> QED
    BY <2>1, <2>8
<1>5. Seq(X) \subseteq S
  <2> HIDE DEF S
  <2> QED BY <1>3, <1>4, RowInduction
<1> QED
  BY <1>2, <1>5

\* What is known later makes of a row what it makes of what it was before.
LEMMA NormalTwice ==
    ASSUME NEW X, NEW k, Sound(k, X), NEW k2, Sound(k2, X), Extends(k2, k), NEW row \in Seq(X)
    PROVE  Normal(k, row) \in Seq(X) /\ Normal(k2, Normal(k, row)) = Normal(k2, row)
<1> DEFINE d == Cardinality(DOMAIN k)
<1>1. d \in Nat /\ d \in 0..d
  <2>1. d \in Nat
    BY SoundDepth
  <2> HIDE DEF d
  <2> QED BY <2>1
<1>2. PICK h : Chain(k, X, row, h)
  BY Chained
<1> DEFINE G == {m \in 0..d : Normal(k2, h[m]) = Normal(k2, row)}
<1>3. 0 \in G
  <2>1. h[0] = row
    BY <1>2 DEF Chain
  <2> HIDE DEF d
  <2> QED BY <1>1, <2>1
<1>4. ASSUME NEW m \in 0..d, m < d, m \in G PROVE m + 1 \in G
  <2>1. h[m] \in Seq(X) /\ h[m + 1] = Expand(k, h[m]) /\ m + 1 \in 0..d
    BY <1>2, <1>4, ChainSteps
  <2>2. Normal(k2, Expand(k, h[m])) = Normal(k2, h[m])
    BY <2>1, NormalExpand
  <2> QED
    BY <1>4, <2>1, <2>2
<1>5. 0..d \subseteq G
  <2> HIDE DEF G, d
  <2> QED BY <1>1, <1>3, <1>4, UpTo
<1>6. Normal(k, row) = h[d]
  BY <1>2 DEF Chain
<1>7. Normal(k, row) \in Seq(X)
  BY Chained
<1> QED
  BY <1>1, <1>5, <1>6, <1>7

\* The pieces a row comes to, taken piece by piece.
PieceByPiece(k, row) == UNION {ToSet(Normal(k, <<p>>)) : p \in ToSet(row)}

LEMMA NormalPieces ==
    ASSUME NEW X, NEW k, Sound(k, X)
    PROVE  \A row \in Seq(X) : ToSet(Normal(k, row)) = PieceByPiece(k, row)
<1> DEFINE N(p) == ToSet(Normal(k, <<p>>))
           S == {u \in Seq(X) : ToSet(Normal(k, u)) = UNION {N(p) : p \in ToSet(u)}}
<1>1. <<>> \in S
  <2>1. <<>> \in Seq(X) /\ ToSet(<<>>) = {}
    BY DEF ToSet
  <2>2. Clean(k, <<>>)
    BY <2>1 DEF Clean
  <2>3. Normal(k, <<>>) = <<>>
    BY <2>1, <2>2, NormalOfClean
  <2> QED
    BY <2>1, <2>3
<1>2. ASSUME NEW u \in Seq(X), NEW p \in X, u \in S PROVE u \o <<p>> \in S
  <2>1. <<p>> \in Seq(X) /\ u \o <<p>> \in Seq(X) /\ ToSet(<<p>>) = {p}
    BY ConcatIndex, OnePiece
  <2>2. ToSet(u \o <<p>>) = ToSet(u) \cup {p}
    <3>1. \A b \in Seq(X) : ToSet(u \o b) = ToSet(u) \cup ToSet(b)
      BY ConcatMembers
    <3> QED
      BY <2>1, <3>1
  <2>3. \A v \in Seq(X) : Normal(k, v) \in Seq(X)
    BY Chained
  <2>4. \A a, b \in Seq(X) : ToSet(a \o b) = ToSet(a) \cup ToSet(b)
    BY ConcatMembers
  <2>5. \A b \in Seq(X) : Normal(k, u \o b) = Normal(k, u) \o Normal(k, b)
    BY NormalConcat
  <2>6. ToSet(Normal(k, u \o <<p>>)) = ToSet(Normal(k, u)) \cup N(p)
    <3>1. Normal(k, u \o <<p>>) = Normal(k, u) \o Normal(k, <<p>>)
      BY <2>1, <2>5
    <3>2. Normal(k, u) \in Seq(X) /\ Normal(k, <<p>>) \in Seq(X)
      BY <2>1, <2>3
    <3>3. ToSet(Normal(k, u) \o Normal(k, <<p>>)) = ToSet(Normal(k, u)) \cup ToSet(Normal(k, <<p>>))
      BY <2>4, <3>2
    <3> QED
      BY <3>1, <3>3
  <2>7. ToSet(Normal(k, u)) = UNION {N(q) : q \in ToSet(u)}
    BY <1>2
  <2> HIDE DEF N
  <2>8. ToSet(Normal(k, u \o <<p>>)) = UNION {N(q) : q \in ToSet(u \o <<p>>)}
    BY <2>2, <2>6, <2>7
  <2> QED
    BY <2>1, <2>8
<1>3. Seq(X) \subseteq S
  <2> HIDE DEF S
  <2> QED BY <1>1, <1>2, RowInduction
<1>4. ASSUME NEW row \in Seq(X) PROVE ToSet(Normal(k, row)) = PieceByPiece(k, row)
  <2>1. ToSet(Normal(k, row)) = UNION {N(p) : p \in ToSet(row)}
    BY <1>3
  <2> QED
    BY <2>1 DEF PieceByPiece
<1> QED
  BY <1>4

-----------------------------------------------------------------------------
(* What prove leaves to be proved                                          *)

\* Something is known of one of two rows.
Examined(k, left, right) ==
    \E p \in ToSet(Normal(k, left)) \cup ToSet(Normal(k, right)) : p[1] # "unif"

PairGoal(p, q) == <<<<p>>, <<q>>>>

LEMMA UnprovedMembers ==
    ASSUME NEW n, NEW env, NEW p \in Pieces(n), NEW row \in Seq(Pieces(n))
    PROVE  /\ \A q \in ToSet(row) : ~Prove1(env, PieceOf(p), PieceOf(q)) =>
                PairGoal(p, q) \in ToSet(Unproved(env, p, row))
           /\ \A x \in ToSet(Unproved(env, p, row)) : \E q \in ToSet(row) : x = PairGoal(p, q)
<1> DEFINE seqs == [j \in DOMAIN row |->
                      IF Prove1(env, PieceOf(p), PieceOf(row[j])) THEN <<>> ELSE << <<<<p>>, <<row[j]>>>> >>]
<1>1. Len(row) \in Nat /\ DOMAIN row = 1..Len(row) /\ \A i \in 1..Len(row) : row[i] \in Pieces(n)
  BY LenProperties, ElementOfSeq
<1>2. \A j \in DOMAIN row : PairGoal(p, row[j]) \in Pairs(n)
  <2>1. \A x \in Pieces(n) : <<x>> \in Seq(Pieces(n))
    OBVIOUS
  <2>2. \A x, y \in Pieces(n) : PairGoal(x, y) \in Pairs(n)
    BY <2>1 DEF Pairs, PairGoal
  <2> QED
    BY <1>1, <2>2
<1>3. \A j \in DOMAIN row : seqs[j] \in Seq(Pairs(n))
  BY <1>2 DEF PairGoal
<1>4. seqs \in Seq(Seq(Pairs(n))) /\ DOMAIN seqs = DOMAIN row
  BY <1>1, <1>3
<1>5. \A j \in DOMAIN row :
        ToSet(seqs[j]) = IF Prove1(env, PieceOf(p), PieceOf(row[j])) THEN {} ELSE {PairGoal(p, row[j])}
  BY DEF ToSet, PairGoal
<1>6. Unproved(env, p, row) = FlattenSeq(seqs)
  BY DEF Unproved
<1> HIDE DEF seqs
<1>7. ToSet(Unproved(env, p, row)) = UNION {ToSet(seqs[j]) : j \in DOMAIN row}
  BY <1>4, <1>6, FlattenMembers
<1>8. \A q : q \in ToSet(row) <=> \E j \in DOMAIN row : q = row[j]
  BY DEF ToSet
<1>9. ASSUME NEW q \in ToSet(row), ~Prove1(env, PieceOf(p), PieceOf(q))
      PROVE  PairGoal(p, q) \in ToSet(Unproved(env, p, row))
  <2>1. PICK j \in DOMAIN row : q = row[j]
    BY <1>8
  <2>2. ToSet(seqs[j]) = {PairGoal(p, q)}
    BY <1>5, <1>9, <2>1
  <2> QED
    BY <1>7, <2>2
<1>10. ASSUME NEW x \in ToSet(Unproved(env, p, row)) PROVE \E q \in ToSet(row) : x = PairGoal(p, q)
  <2>1. PICK j \in DOMAIN row : x \in ToSet(seqs[j])
    BY <1>7
  <2>2. x = PairGoal(p, row[j])
    BY <1>5, <2>1
  <2> QED
    BY <1>8, <2>2
<1> QED
  BY <1>9, <1>10

\* A tail of one row, and something known of the other.
Half(l, r) == Tails(l) # <<>> /\ Known(r) # <<>>

LEMMA HalfMembers ==
    ASSUME NEW X, NEW l \in Seq(X), NEW r \in Seq(X)
    PROVE  Half(l, r) <=> (\E p \in ToSet(l) : p[1] = "unif") /\ (\E q \in ToSet(r) : q[1] \in {"field", "rigid"})
<1>1. \A s \in Seq(X) : s # <<>> <=> ToSet(s) # {}
  <2> TAKE s \in Seq(X)
  <2>1. Len(s) \in Nat /\ DOMAIN s = 1..Len(s)
    BY LenProperties
  <2>2. s # <<>> => 1 \in DOMAIN s
    BY <2>1, EmptySeq
  <2>3. 1 \in DOMAIN s => s[1] \in ToSet(s)
    BY DEF ToSet
  <2>4. s = <<>> => ToSet(s) = {}
    BY DEF ToSet
  <2> QED
    BY <2>2, <2>3, <2>4
<1>2. Tails(l) \in Seq(X) /\ ToSet(Tails(l)) = {p \in ToSet(l) : p[1] \in {"unif"}}
  BY OfKindMembers DEF Tails
<1>3. Known(r) \in Seq(X) /\ ToSet(Known(r)) = {p \in ToSet(r) : p[1] \in {"field", "rigid"}}
  BY OfKindMembers DEF Known
<1> QED
  BY <1>1, <1>2, <1>3 DEF Half

LEMMA ProveHalf ==
    ASSUME NEW k, NEW env, NEW left, NEW right,
           Half(Normal(k, left), Normal(k, right)) \/ Half(Normal(k, right), Normal(k, left))
    PROVE  ToSet(Prove(k, env, left, right)) = {<<Normal(k, left), Normal(k, right)>>}
<1>1. Prove(k, env, left, right) = << <<Normal(k, left), Normal(k, right)>> >>
  BY DEF Prove, Half
<1> QED
  BY <1>1 DEF ToSet

\* The goals of prove when it looks at each pair of pieces.
Unhalved(l, r) == ~Half(l, r) /\ ~Half(r, l)
PairsProved(k, env, left, right, n) ==
    /\ \A p \in ToSet(Normal(k, left)), q \in ToSet(Normal(k, right)) :
         p[1] # "unif" /\ q[1] # "unif" =>
             Prove1(env, PieceOf(p), PieceOf(q)) \/ PairGoal(p, q) \in ToSet(Prove(k, env, left, right))
    /\ \A x \in ToSet(Prove(k, env, left, right)) :
         \E p \in Pieces(n), q \in Pieces(n) : p[1] # "unif" /\ q[1] # "unif" /\ x = PairGoal(p, q)

LEMMA ProvePairs ==
    ASSUME NEW n \in Nat, NEW k, Sound(k, Pieces(n)), NEW env,
           NEW left \in Seq(Pieces(n)), NEW right \in Seq(Pieces(n)),
           Unhalved(Normal(k, left), Normal(k, right))
    PROVE  PairsProved(k, env, left, right, n)
<1> DEFINE l == Normal(k, left)
           r == Normal(k, right)
           ps == Known(l)
           qs == Known(r)
           seqs == [i \in DOMAIN ps |-> Unproved(env, ps[i], qs)]
<1>1. l \in Seq(Pieces(n)) /\ r \in Seq(Pieces(n))
  BY NormalGiven
<1>2. Prove(k, env, left, right) = FlattenSeq(seqs)
  BY DEF Prove, Half, Unhalved
<1>3. \A p \in Pieces(n) : p[1] \in {"field", "rigid", "unif"}
  BY PieceFacts
<1> HIDE DEF l, r
<1>4. ToSet(l) \subseteq Pieces(n) /\ ToSet(r) \subseteq Pieces(n)
  BY <1>1, Members
<1>5. ps \in Seq(Pieces(n)) /\ ToSet(ps) = {p \in ToSet(l) : p[1] # "unif"}
  <2>1. ps \in Seq(Pieces(n)) /\ ToSet(ps) = {p \in ToSet(l) : p[1] \in {"field", "rigid"}}
    BY <1>1, OfKindMembers DEF Known
  <2> QED
    BY <1>3, <1>4, <2>1
<1>6. qs \in Seq(Pieces(n)) /\ ToSet(qs) = {p \in ToSet(r) : p[1] # "unif"}
  <2>1. qs \in Seq(Pieces(n)) /\ ToSet(qs) = {p \in ToSet(r) : p[1] \in {"field", "rigid"}}
    BY <1>1, OfKindMembers DEF Known
  <2> QED
    BY <1>3, <1>4, <2>1
<1> HIDE DEF ps, qs
<1>7. Len(ps) \in Nat /\ DOMAIN ps = 1..Len(ps) /\ \A i \in 1..Len(ps) : ps[i] \in Pieces(n)
  BY <1>5, LenProperties, ElementOfSeq
<1>8. \A i \in DOMAIN ps : seqs[i] \in Seq(Pairs(n))
  BY <1>6, <1>7, UnprovedTyped
<1>9. seqs \in Seq(Seq(Pairs(n))) /\ DOMAIN seqs = DOMAIN ps
  BY <1>7, <1>8
<1>10. \A i \in DOMAIN ps :
        /\ \A q \in ToSet(qs) : ~Prove1(env, PieceOf(ps[i]), PieceOf(q)) => PairGoal(ps[i], q) \in ToSet(seqs[i])
        /\ \A x \in ToSet(seqs[i]) : \E q \in ToSet(qs) : x = PairGoal(ps[i], q)
  <2> TAKE i \in DOMAIN ps
  <2>1. ps[i] \in Pieces(n)
    BY <1>7
  <2>2. seqs[i] = Unproved(env, ps[i], qs)
    OBVIOUS
  <2>3. \A p \in Pieces(n) :
          /\ \A q \in ToSet(qs) : ~Prove1(env, PieceOf(p), PieceOf(q)) => PairGoal(p, q) \in ToSet(Unproved(env, p, qs))
          /\ \A x \in ToSet(Unproved(env, p, qs)) : \E q \in ToSet(qs) : x = PairGoal(p, q)
    BY <1>6, UnprovedMembers
  <2> HIDE DEF seqs
  <2> QED
    BY <2>1, <2>2, <2>3
<1> HIDE DEF seqs
<1>11. ToSet(FlattenSeq(seqs)) = UNION {ToSet(seqs[i]) : i \in DOMAIN ps}
  BY <1>9, FlattenMembers
<1>12. \A p : p \in ToSet(ps) <=> \E i \in DOMAIN ps : p = ps[i]
  BY DEF ToSet
<1>13. ASSUME NEW p \in ToSet(ps), NEW q \in ToSet(qs), ~Prove1(env, PieceOf(p), PieceOf(q))
       PROVE  PairGoal(p, q) \in ToSet(FlattenSeq(seqs))
  <2>1. PICK i \in DOMAIN ps : p = ps[i]
    BY <1>12
  <2>2. PairGoal(p, q) \in ToSet(seqs[i])
    BY <1>10, <1>13, <2>1
  <2> QED
    BY <1>11, <2>2
<1>14. ASSUME NEW x \in ToSet(FlattenSeq(seqs)) PROVE \E p \in ToSet(ps), q \in ToSet(qs) : x = PairGoal(p, q)
  <2>1. PICK i \in DOMAIN ps : x \in ToSet(seqs[i])
    BY <1>11
  <2>2. PICK q \in ToSet(qs) : x = PairGoal(ps[i], q)
    BY <1>10, <2>1
  <2> QED
    BY <1>12, <2>2
<1>15. \A p \in ToSet(l), q \in ToSet(r) : p[1] # "unif" /\ q[1] # "unif" =>
         Prove1(env, PieceOf(p), PieceOf(q)) \/ PairGoal(p, q) \in ToSet(FlattenSeq(seqs))
  BY <1>5, <1>6, <1>13
<1>16. \A x \in ToSet(FlattenSeq(seqs)) :
         \E p \in Pieces(n), q \in Pieces(n) : p[1] # "unif" /\ q[1] # "unif" /\ x = PairGoal(p, q)
  BY <1>4, <1>5, <1>6, <1>14
<1> QED
  BY <1>2, <1>15, <1>16 DEF l, r, PairsProved

\* Constraints of G stand for each pair of pieces of two rows that are not apart.
Stands(k, G, env, p, q) ==
    \E g \in G : g.kind = "disjoint" /\ g.env = env /\ p \in ToSet(Normal(k, g.left)) /\ q \in ToSet(Normal(k, g.right))
Covered(k, G, env, left, right) ==
    \A p \in ToSet(Normal(k, left)), q \in ToSet(Normal(k, right)) : ApartNow(env, p, q) \/ Stands(k, G, env, p, q)

LEMMA ProveCovers ==
    ASSUME NEW n \in Nat, NEW k, Sound(k, Pieces(n)), NEW env,
           NEW left \in Seq(Pieces(n)), NEW right \in Seq(Pieces(n)), Examined(k, left, right)
    PROVE  /\ Covered(k, ToSet(Goals(env, Prove(k, env, left, right))), env, left, right)
           /\ \A g \in ToSet(Goals(env, Prove(k, env, left, right))) : g.kind = "disjoint" /\ Examined(k, g.left, g.right)
<1> DEFINE l == Normal(k, left)
           r == Normal(k, right)
           pairs == Prove(k, env, left, right)
<1>1. l \in Seq(Pieces(n)) /\ r \in Seq(Pieces(n)) /\ Clean(k, l) /\ Clean(k, r)
  BY NormalGiven
<1>2. Normal(k, l) = l /\ Normal(k, r) = r
  <2> HIDE DEF l, r
  <2> QED BY <1>1, NormalOfClean
<1>3. \A p \in Pieces(n) : p[1] \in {"field", "rigid", "unif"}
  BY PieceFacts
<1>4. ToSet(l) \subseteq Pieces(n) /\ ToSet(r) \subseteq Pieces(n)
  <2> HIDE DEF l, r
  <2> QED BY <1>1, Members
<1>5. \A x \in ToSet(pairs) : Disjoint(x[1], x[2], env) \in ToSet(Goals(env, pairs))
  <2> HIDE DEF pairs
  <2> QED BY DEF Goals, ToSet
<1>6. \A g \in ToSet(Goals(env, pairs)) : \E x \in ToSet(pairs) : g = Disjoint(x[1], x[2], env)
  <2> HIDE DEF pairs
  <2> QED BY DEF Goals, ToSet
<1>7. \A x, y : /\ Disjoint(x, y, env).kind = "disjoint" /\ Disjoint(x, y, env).env = env
                /\ Disjoint(x, y, env).left = x /\ Disjoint(x, y, env).right = y
  BY DEF Disjoint
<1> DEFINE half == Half(l, r) \/ Half(r, l)
<1>8. CASE half
  <2>1. ToSet(pairs) = {<<l, r>>}
    BY <1>8, ProveHalf
  <2> HIDE DEF l, r, pairs
  <2>2. Disjoint(l, r, env) \in ToSet(Goals(env, pairs))
    BY <1>5, <2>1
  <2>3. \A p \in ToSet(l), q \in ToSet(r) : Stands(k, ToSet(Goals(env, pairs)), env, p, q)
    BY <1>2, <1>7, <2>2 DEF Stands
  <2>4. Covered(k, ToSet(Goals(env, pairs)), env, left, right)
    BY <2>3 DEF Covered, l, r
  <2>5. Examined(k, l, r)
    BY <1>2 DEF Examined, l, r
  <2>6. \A g \in ToSet(Goals(env, pairs)) : g = Disjoint(l, r, env)
    BY <1>6, <2>1
  <2>7. \A g \in ToSet(Goals(env, pairs)) : g.kind = "disjoint" /\ Examined(k, g.left, g.right)
    BY <1>7, <2>5, <2>6
  <2> QED
    BY <2>4, <2>7 DEF pairs
<1>9. CASE ~half
  <2>1. /\ \A p \in ToSet(l), q \in ToSet(r) : p[1] # "unif" /\ q[1] # "unif" =>
              Prove1(env, PieceOf(p), PieceOf(q)) \/ PairGoal(p, q) \in ToSet(pairs)
        /\ \A x \in ToSet(pairs) :
             \E p \in Pieces(n), q \in Pieces(n) : p[1] # "unif" /\ q[1] # "unif" /\ x = PairGoal(p, q)
    <3>1. Unhalved(Normal(k, left), Normal(k, right))
      BY <1>9 DEF Unhalved
    <3>2. PairsProved(k, env, left, right, n)
      BY <3>1, ProvePairs
    <3> QED
      BY <3>2 DEF PairsProved
  <2>2. \A p \in Pieces(n) : p[1] # "unif" => Normal(k, <<p>>) = <<p>> /\ ToSet(<<p>>) = {p}
    <3> TAKE p \in Pieces(n)
    <3>1. <<p>> \in Seq(Pieces(n)) /\ ToSet(<<p>>) = {p} /\ (Clean(k, <<p>>) <=> ~IsSolved(k, p))
      BY OnePiece
    <3>2. p[1] # "unif" => Clean(k, <<p>>)
      BY <3>1 DEF IsSolved
    <3> QED
      BY <3>1, <3>2, NormalOfClean
  <2>3. ASSUME NEW p \in ToSet(l), NEW q \in ToSet(r) PROVE p[1] # "unif" /\ q[1] # "unif"
    <3> HIDE DEF l, r
    <3>1. ~((\E x \in ToSet(l) : x[1] = "unif") /\ (\E x \in ToSet(r) : x[1] \in {"field", "rigid"}))
      BY <1>1, <1>9, HalfMembers
    <3>2. ~((\E x \in ToSet(r) : x[1] = "unif") /\ (\E x \in ToSet(l) : x[1] \in {"field", "rigid"}))
      BY <1>1, <1>9, HalfMembers
    <3>3. PICK x \in ToSet(l) \cup ToSet(r) : x[1] # "unif"
      BY DEF Examined, l, r
    <3>4. \A y \in ToSet(l) \cup ToSet(r) : y[1] = "unif" \/ y[1] \in {"field", "rigid"}
      BY <1>3, <1>4
    <3> QED
      BY <3>1, <3>2, <3>3, <3>4
  <2>4. Covered(k, ToSet(Goals(env, pairs)), env, left, right)
    <3> SUFFICES ASSUME NEW p \in ToSet(l), NEW q \in ToSet(r)
                 PROVE  ApartNow(env, p, q) \/ Stands(k, ToSet(Goals(env, pairs)), env, p, q)
      BY DEF Covered
    <3>1. p[1] # "unif" /\ q[1] # "unif"
      BY <2>3
    <3>2. CASE Prove1(env, PieceOf(p), PieceOf(q))
      BY <3>1, <3>2 DEF ApartNow
    <3>3. CASE PairGoal(p, q) \in ToSet(pairs)
      <4>1. Disjoint(<<p>>, <<q>>, env) \in ToSet(Goals(env, pairs))
        BY <1>5, <3>3 DEF PairGoal
      <4>2. p \in Pieces(n) /\ q \in Pieces(n)
        BY <1>4
      <4>3. p \in ToSet(Normal(k, <<p>>)) /\ q \in ToSet(Normal(k, <<q>>))
        BY <2>2, <3>1, <4>2
      <4> HIDE DEF pairs, l, r
      <4> QED
        BY <1>7, <4>1, <4>3 DEF Stands
    <3> QED
      BY <2>1, <3>1, <3>2, <3>3
  <2>5. ASSUME NEW g \in ToSet(Goals(env, pairs)) PROVE g.kind = "disjoint" /\ Examined(k, g.left, g.right)
    <3> HIDE DEF pairs
    <3>1. PICK x \in ToSet(pairs) : g = Disjoint(x[1], x[2], env)
      BY <1>6
    <3>2. PICK p \in Pieces(n), q \in Pieces(n) : p[1] # "unif" /\ x = PairGoal(p, q)
      BY <2>1
    <3>3. g.kind = "disjoint" /\ g.left = <<p>>
      BY <1>7, <3>1, <3>2 DEF PairGoal
    <3>4. p \in ToSet(Normal(k, <<p>>))
      BY <2>2, <3>2
    <3> QED
      BY <3>2, <3>3, <3>4 DEF Examined
  <2> QED
    BY <2>4, <2>5
<1> QED
  BY <1>8, <1>9

LEMMA PieceStays ==
    ASSUME NEW X, NEW k, Sound(k, X), NEW k2, Sound(k2, X), Extends(k2, k), NEW row \in Seq(X)
    PROVE  /\ \A p \in ToSet(Normal(k, row)) : ToSet(Normal(k2, <<p>>)) \subseteq ToSet(Normal(k2, row))
           /\ \A q \in ToSet(Normal(k2, row)) : \E p \in ToSet(Normal(k, row)) : q \in ToSet(Normal(k2, <<p>>))
           /\ \A p \in ToSet(Normal(k, row)) : p[1] # "unif" => ToSet(Normal(k2, <<p>>)) = {p}
<1>1. Normal(k, row) \in Seq(X) /\ Normal(k2, Normal(k, row)) = Normal(k2, row)
  BY NormalTwice
<1>2. \A v \in Seq(X) : ToSet(Normal(k2, v)) = PieceByPiece(k2, v)
  BY NormalPieces
<1>3. ToSet(Normal(k2, row)) = UNION {ToSet(Normal(k2, <<p>>)) : p \in ToSet(Normal(k, row))}
  BY <1>1, <1>2 DEF PieceByPiece
<1>4. ASSUME NEW p \in ToSet(Normal(k, row)), p[1] # "unif" PROVE ToSet(Normal(k2, <<p>>)) = {p}
  <2>1. p \in X
    BY <1>1, Members
  <2>2. <<p>> \in Seq(X) /\ ToSet(<<p>>) = {p} /\ (Clean(k2, <<p>>) <=> ~IsSolved(k2, p))
    BY <2>1, OnePiece
  <2>3. Clean(k2, <<p>>)
    BY <1>4, <2>2 DEF IsSolved
  <2>4. Normal(k2, <<p>>) = <<p>>
    BY <2>2, <2>3, NormalOfClean
  <2> QED
    BY <2>2, <2>4
<1> QED
  BY <1>3, <1>4

LEMMA ExaminedStays ==
    ASSUME NEW X, NEW k, Sound(k, X), NEW k2, Sound(k2, X), Extends(k2, k),
           NEW left \in Seq(X), NEW right \in Seq(X), Examined(k, left, right)
    PROVE  Examined(k2, left, right)
<1>1. PICK p \in ToSet(Normal(k, left)) \cup ToSet(Normal(k, right)) : p[1] # "unif"
  BY DEF Examined
<1>2. \A row \in Seq(X) : \A x \in ToSet(Normal(k, row)) : x[1] # "unif" => x \in ToSet(Normal(k2, row))
  <2> TAKE row \in Seq(X)
  <2>1. /\ \A x \in ToSet(Normal(k, row)) : ToSet(Normal(k2, <<x>>)) \subseteq ToSet(Normal(k2, row))
        /\ \A x \in ToSet(Normal(k, row)) : x[1] # "unif" => ToSet(Normal(k2, <<x>>)) = {x}
    BY PieceStays
  <2> QED
    BY <2>1
<1>3. p \in ToSet(Normal(k2, left)) \cup ToSet(Normal(k2, right))
  BY <1>1, <1>2
<1> QED
  BY <1>1, <1>3 DEF Examined

LEMMA CoveredStays ==
    ASSUME NEW X, NEW k, Sound(k, X), NEW k2, Sound(k2, X), Extends(k2, k),
           NEW left \in Seq(X), NEW right \in Seq(X), NEW env,
           NEW G, \A g \in G : g.kind = "disjoint" => g.left \in Seq(X) /\ g.right \in Seq(X),
           Covered(k, G, env, left, right)
    PROVE  Covered(k2, G, env, left, right)
<1>1. \A row \in Seq(X) :
        /\ \A p \in ToSet(Normal(k, row)) : ToSet(Normal(k2, <<p>>)) \subseteq ToSet(Normal(k2, row))
        /\ \A q \in ToSet(Normal(k2, row)) : \E p \in ToSet(Normal(k, row)) : q \in ToSet(Normal(k2, <<p>>))
        /\ \A p \in ToSet(Normal(k, row)) : p[1] # "unif" => ToSet(Normal(k2, <<p>>)) = {p}
  BY PieceStays
<1> SUFFICES ASSUME NEW p2 \in ToSet(Normal(k2, left)), NEW q2 \in ToSet(Normal(k2, right))
             PROVE  ApartNow(env, p2, q2) \/ Stands(k2, G, env, p2, q2)
  BY DEF Covered
<1>2. PICK p \in ToSet(Normal(k, left)) : p2 \in ToSet(Normal(k2, <<p>>))
  BY <1>1
<1>3. PICK q \in ToSet(Normal(k, right)) : q2 \in ToSet(Normal(k2, <<q>>))
  BY <1>1
<1>4. ApartNow(env, p, q) \/ Stands(k, G, env, p, q)
  BY DEF Covered
<1>5. CASE ApartNow(env, p, q)
  <2>1. p[1] # "unif" /\ q[1] # "unif"
    BY <1>5 DEF ApartNow
  <2>2. p2 = p /\ q2 = q
    BY <1>1, <1>2, <1>3, <2>1
  <2> QED
    BY <1>5, <2>2
<1>6. CASE Stands(k, G, env, p, q)
  <2>1. PICK g \in G : /\ g.kind = "disjoint" /\ g.env = env
                       /\ p \in ToSet(Normal(k, g.left)) /\ q \in ToSet(Normal(k, g.right))
    BY <1>6 DEF Stands
  <2>2. p2 \in ToSet(Normal(k2, g.left)) /\ q2 \in ToSet(Normal(k2, g.right))
    BY <1>1, <1>2, <1>3, <2>1
  <2> QED
    BY <2>1, <2>2 DEF Stands
<1> QED
  BY <1>4, <1>5, <1>6

\* Constraints may make room for those that cover them.
LEMMA CoveredReplaced ==
    ASSUME NEW k, NEW env, NEW left, NEW right, NEW G, Covered(k, G, env, left, right),
           NEW H, \A g \in G : g.kind = "disjoint" => g \in H \/ Covered(k, H, g.env, g.left, g.right)
    PROVE  Covered(k, H, env, left, right)
<1> SUFFICES ASSUME NEW p \in ToSet(Normal(k, left)), NEW q \in ToSet(Normal(k, right)), Stands(k, G, env, p, q)
             PROVE  ApartNow(env, p, q) \/ Stands(k, H, env, p, q)
  BY DEF Covered
<1>1. PICK g \in G : /\ g.kind = "disjoint" /\ g.env = env
                     /\ p \in ToSet(Normal(k, g.left)) /\ q \in ToSet(Normal(k, g.right))
  BY DEF Stands
<1>2. CASE Covered(k, H, g.env, g.left, g.right)
  BY <1>1, <1>2 DEF Covered
<1>3. CASE g \in H
  BY <1>1, <1>3 DEF Stands
<1> QED
  BY <1>1, <1>2, <1>3

-----------------------------------------------------------------------------
(* The demands: an invariant                                               *)

\* What is left to be solved or was reported; rows over the first n cells.
Standing == Outstanding \cup errors
HasRows(d, n) == d.left \in Seq(Pieces(n)) /\ d.right \in Seq(Pieces(n))

\* A folder that was built, and is that of the row whatever is solved later.
FolderDone(d) == ClosedRecord(Normal(known, d.left)) /\ <<d.left, Normal(known, d.left)>> \in witnesses

RowsInv == \A d \in demands \cup errors : HasRows(d, fresh - 1)
FoldersInv == \A d \in demands : d.kind = "folder" => d \in Standing \/ FolderDone(d)
GuardsInv == \A d \in demands : d.kind = "disjoint" => Covered(known, Standing, d.env, d.left, d.right)
ExaminedInv == \A d \in Outstanding : d.kind = "disjoint" => Examined(known, d.left, d.right)
ReportInv == report => older = <<>>

DemandInv == IInv /\ RowsInv /\ FoldersInv /\ GuardsInv /\ ExaminedInv /\ ReportInv

\* What a step may do to what is known.
Learns == IInv /\ IInv' /\ Extends(known', known) /\ fresh' \in {fresh, fresh + 1}

LEMMA LearnsFacts ==
    ASSUME Learns
    PROVE  \E n \in Nat : /\ n = fresh' - 1
                          /\ Sound(known, Pieces(n)) /\ Sound(known', Pieces(n)) /\ Extends(known', known)
                          /\ \A d : HasRows(d, fresh - 1) => HasRows(d, n)
<1>1. KnownSound /\ KnownSound' /\ Extends(known', known) /\ fresh' \in {fresh, fresh + 1}
  BY DEF Learns, IInv
<1>2. /\ fresh \in Nat /\ fresh - 1 \in Nat /\ fresh = (fresh - 1) + 1
      /\ Sound(known, Pieces(fresh - 1)) /\ Sound(known', Pieces(fresh' - 1))
  BY <1>1, FreshFacts DEF KnownSound
<1>3. CASE fresh' = fresh
  BY <1>1, <1>2, <1>3
<1>4. CASE fresh' = fresh + 1
  <2>1. fresh' - 1 = (fresh - 1) + 1 /\ fresh' - 1 \in Nat
    BY <1>2, <1>4
  <2>2. Sound(known, Pieces(fresh' - 1))
    BY <1>2, <2>1, SoundMonotonic
  <2>3. Pieces(fresh - 1) \subseteq Pieces((fresh - 1) + 1)
    BY <1>2, PieceFacts
  <2>4. \A row \in Seq(Pieces(fresh - 1)) : row \in Seq(Pieces(fresh' - 1))
    BY <2>1, <2>3, SeqMonotonic
  <2> QED
    BY <1>1, <1>2, <2>1, <2>2, <2>4 DEF HasRows
<1> QED
  BY <1>1, <1>3, <1>4

LEMMA StandingRows == ASSUME IInv, RowsInv PROVE \A d \in Standing : HasRows(d, fresh - 1)
BY DEF IInv, ListsSound, Jobs, IsJob, RowsInv, Standing, Outstanding, HasRows

\* A folder stays that of its row: there is no cell left in it.
LEMMA FolderStays ==
    ASSUME NEW X, NEW k, Sound(k, X), NEW k2, Sound(k2, X), Extends(k2, k), NEW row \in Seq(X),
           ClosedRecord(Normal(k, row))
    PROVE  Normal(k2, row) = Normal(k, row)
<1>1. Normal(k, row) \in Seq(X) /\ Normal(k2, Normal(k, row)) = Normal(k2, row)
  BY NormalTwice
<1> DEFINE v == Normal(k, row)
<1>2. ToSet(v) = {p \in ToSet(v) : p[1] \in {"field"}}
  <2> HIDE DEF v
  <2>1. \A u \in Seq(X) : ToSet(OfKind(u, {"field"})) = {p \in ToSet(u) : p[1] \in {"field"}}
    BY OfKindMembers
  <2>2. OfKind(v, {"field"}) = v /\ v \in Seq(X)
    BY <1>1 DEF ClosedRecord, Fields, v
  <2> QED
    BY <2>1, <2>2
<1>3. Clean(k2, v)
  <2> HIDE DEF v
  <2> QED
    BY <1>2 DEF Clean, IsSolved
<1> HIDE DEF v
<1>4. Normal(k2, v) = v
  BY <1>1, <1>3, NormalOfClean DEF v
<1> QED
  BY <1>1, <1>4 DEF v

\* The demands made so far, when the constraints that go are covered by others.
LEMMA OldDemands ==
    ASSUME DemandInv, Learns, witnesses \subseteq witnesses',
           \A d \in Standing : d.kind = "folder" => d \in Standing' \/ FolderDone(d)',
           \A d \in Standing : d.kind = "disjoint" =>
               d \in Standing' \/ Covered(known', Standing', d.env, d.left, d.right)
    PROVE  /\ \A d \in demands : d.kind = "folder" => d \in Standing' \/ FolderDone(d)'
           /\ \A d \in demands : d.kind = "disjoint" => Covered(known', Standing', d.env, d.left, d.right)
<1>1. PICK n \in Nat : /\ Sound(known, Pieces(n)) /\ Sound(known', Pieces(n)) /\ Extends(known', known)
                       /\ \A d : HasRows(d, fresh - 1) => HasRows(d, n)
  BY LearnsFacts
<1>2. \A d \in demands \cup Standing : HasRows(d, n)
  BY <1>1, StandingRows DEF DemandInv, RowsInv
<1>3. ASSUME NEW d \in demands, d.kind = "folder" PROVE d \in Standing' \/ FolderDone(d)'
  <2>1. CASE d \in Standing
    BY <1>3, <2>1
  <2>2. CASE FolderDone(d)
    <3>1. d.left \in Seq(Pieces(n))
      BY <1>2 DEF HasRows
    <3>2. ClosedRecord(Normal(known, d.left)) /\ <<d.left, Normal(known, d.left)>> \in witnesses
      BY <2>2 DEF FolderDone
    <3>3. Normal(known', d.left) = Normal(known, d.left)
      BY <1>1, <3>1, <3>2, FolderStays
    <3> QED
      BY <3>2, <3>3 DEF FolderDone
  <2> QED
    BY <1>3, <2>1, <2>2 DEF DemandInv, FoldersInv
<1>4. ASSUME NEW d \in demands, d.kind = "disjoint" PROVE Covered(known', Standing', d.env, d.left, d.right)
  <2>1. Covered(known, Standing, d.env, d.left, d.right)
    BY <1>4 DEF DemandInv, GuardsInv
  <2>2. d.left \in Seq(Pieces(n)) /\ d.right \in Seq(Pieces(n))
    BY <1>2 DEF HasRows
  <2>3. \A g \in Standing : g.kind = "disjoint" => g.left \in Seq(Pieces(n)) /\ g.right \in Seq(Pieces(n))
    BY <1>2 DEF HasRows
  <2>4. Covered(known', Standing, d.env, d.left, d.right)
    BY <1>1, <2>1, <2>2, <2>3, CoveredStays
  <2> QED
    BY <2>4, CoveredReplaced
<1> QED
  BY <1>3, <1>4

LEMMA OldExamined ==
    ASSUME DemandInv, Learns, NEW d \in Outstanding, d.kind = "disjoint"
    PROVE  Examined(known', d.left, d.right)
<1>1. PICK n \in Nat : /\ Sound(known, Pieces(n)) /\ Sound(known', Pieces(n)) /\ Extends(known', known)
                       /\ \A e : HasRows(e, fresh - 1) => HasRows(e, n)
  BY LearnsFacts
<1>2. d \in Standing
  BY DEF Standing
<1>3. d.left \in Seq(Pieces(n)) /\ d.right \in Seq(Pieces(n))
  BY <1>1, <1>2, StandingRows DEF DemandInv, HasRows
<1>4. Examined(known, d.left, d.right)
  BY DEF DemandInv, ExaminedInv
<1> QED
  BY <1>1, <1>3, <1>4, ExaminedStays

\* What a step has to show: the constraints that go are done or covered, those that
\* come say something, and a new demand is met.
Accounts ==
    /\ witnesses \subseteq witnesses'
    /\ \A d \in Standing : d.kind = "folder" => d \in Standing' \/ FolderDone(d)'
    /\ \A d \in Standing : d.kind = "disjoint" =>
           d \in Standing' \/ Covered(known', Standing', d.env, d.left, d.right)
    /\ \A d \in Outstanding' : d.kind = "disjoint" => d \in Outstanding \/ Examined(known', d.left, d.right)
    /\ \A d \in errors' : d \in Standing \/ HasRows(d, fresh - 1)
    /\ \A d \in demands' : d \notin demands =>
           /\ HasRows(d, fresh - 1)
           /\ d.kind = "folder" => d \in Standing' \/ FolderDone(d)'
           /\ d.kind = "disjoint" => Covered(known', Standing', d.env, d.left, d.right)

\* A step that leaves what is known and the rows to be made equal.
KeepsEquals ==
    /\ known' = known
    /\ \A d \in Standing : d.kind = "equal" => d \in Standing'
    /\ \A d \in Outstanding' : d.kind = "equal" => d \in Outstanding
    /\ \A d \in demands' : d.kind = "equal" => d \in demands

LEMMA DemandStep == ASSUME DemandInv, Learns, Accounts, ReportInv' PROVE DemandInv'
<1>1. /\ witnesses \subseteq witnesses'
      /\ \A d \in Standing : d.kind = "folder" => d \in Standing' \/ FolderDone(d)'
      /\ \A d \in Standing : d.kind = "disjoint" =>
             d \in Standing' \/ Covered(known', Standing', d.env, d.left, d.right)
      /\ \A d \in Outstanding' : d.kind = "disjoint" => d \in Outstanding \/ Examined(known', d.left, d.right)
      /\ \A d \in errors' : d \in Standing \/ HasRows(d, fresh - 1)
      /\ \A d \in demands' : d \notin demands =>
             /\ HasRows(d, fresh - 1)
             /\ d.kind = "folder" => d \in Standing' \/ FolderDone(d)'
             /\ d.kind = "disjoint" => Covered(known', Standing', d.env, d.left, d.right)
  BY DEF Accounts
<1>2. /\ \A d \in demands : d.kind = "folder" => d \in Standing' \/ FolderDone(d)'
      /\ \A d \in demands : d.kind = "disjoint" => Covered(known', Standing', d.env, d.left, d.right)
  BY <1>1, OldDemands
<1>3. FoldersInv'
  BY <1>1, <1>2 DEF FoldersInv
<1>4. GuardsInv'
  BY <1>1, <1>2 DEF GuardsInv
<1>5. ExaminedInv'
  BY <1>1, OldExamined DEF ExaminedInv
<1>6. RowsInv'
  <2>1. \A d : HasRows(d, fresh - 1) => HasRows(d, fresh' - 1)
    BY LearnsFacts
  <2>2. \A d \in Standing \cup demands : HasRows(d, fresh - 1)
    BY StandingRows DEF DemandInv, RowsInv
  <2> QED
    BY <1>1, <2>1, <2>2 DEF RowsInv
<1>7. IInv'
  BY DEF Learns
<1> QED
  BY <1>3, <1>4, <1>5, <1>6, <1>7 DEF DemandInv

\* Members of parts of a list.
LEMMA SplitMembers ==
    ASSUME NEW s, s \in Seq(ToSet(s)), NEW start \in Nat, start <= Len(s)
    PROVE  ToSet(s) = ToSet(SubSeq(s, 1, start)) \cup ToSet(SubSeq(s, start + 1, Len(s)))
<1> DEFINE front == SubSeq(s, 1, start)
           rest == SubSeq(s, start + 1, Len(s))
<1>1. Len(s) \in Nat /\ \A i \in 1..Len(s) : s[i] \in ToSet(s)
  BY LenProperties, ElementOfSeq
<1>2. front \o rest = s
  <2>1. 1 \in 1..Len(s) + 1 /\ start \in (1 - 1)..Len(s) /\ Len(s) \in start..Len(s)
    BY <1>1
  <2>2. front \o rest = SubSeq(s, 1, Len(s))
    BY <2>1, ConcatAdjacentSubSeq
  <2> QED
    BY <2>2, SubSeqFull
<1>3. front \in Seq(ToSet(s)) /\ rest \in Seq(ToSet(s))
  <2>1. \A i \in 1..start : s[i] \in ToSet(s)
    BY <1>1
  <2>2. \A i \in start + 1..Len(s) : s[i] \in ToSet(s)
    BY <1>1
  <2>3. 1 \in Int /\ start \in Int /\ start + 1 \in Int /\ Len(s) \in Int
    BY <1>1
  <2>4. front \in Seq(ToSet(s))
    BY <2>1, <2>3, SubSeqProperties
  <2> QED
    BY <2>2, <2>3, <2>4, SubSeqProperties
<1> HIDE DEF front, rest
<1>4. ToSet(front \o rest) = ToSet(front) \cup ToSet(rest)
  BY <1>3, ConcatMembers
<1> QED
  BY <1>2, <1>4 DEF front, rest

LEMMA HeadMembers ==
    ASSUME NEW n, NEW s, Jobs(s, n), s # <<>>
    PROVE  ToSet(s) = {s[1]} \cup ToSet(SubSeq(s, 2, Len(s)))
<1>1. s \in Seq(ToSet(s))
  BY DEF Jobs
<1>2. Len(s) \in Nat /\ 1 <= Len(s)
  BY <1>1, LenProperties, EmptySeq
<1>3. ToSet(s) = ToSet(SubSeq(s, 1, 1)) \cup ToSet(SubSeq(s, 1 + 1, Len(s)))
  BY <1>1, <1>2, SplitMembers
<1>4. ToSet(SubSeq(s, 1, 1)) = {s[1]}
  <2>1. s[1] \in ToSet(s)
    BY <1>1, <1>2, ElementOfSeq
  <2>2. \A i \in 1..1 : s[i] \in ToSet(s)
    BY <2>1
  <2>3. Len(SubSeq(s, 1, 1)) = 1 /\ SubSeq(s, 1, 1)[1] = s[1] /\ SubSeq(s, 1, 1) \in Seq(ToSet(s))
    BY <2>2, SubSeqProperties
  <2>4. DOMAIN SubSeq(s, 1, 1) = 1..1
    BY <2>3, LenProperties
  <2> QED
    BY <2>3, <2>4 DEF ToSet
<1> QED
  BY <1>3, <1>4

LEMMA MembersAppended ==
    ASSUME NEW n, NEW s, Jobs(s, n), NEW d
    PROVE  ToSet(Append(s, d)) = ToSet(s) \cup {d}
<1> DEFINE X == ToSet(s) \cup {d}
<1>1. s \in Seq(X)
  BY SeqMonotonic DEF Jobs
<1> QED
  BY <1>1, AppendMembers

LEMMA KnownMember ==
    ASSUME NEW X, NEW s \in Seq(X), Known(s) # <<>>
    PROVE  \E p \in ToSet(s) : p[1] # "unif"
<1>1. Known(s) \in Seq(X) /\ ToSet(Known(s)) = {p \in ToSet(s) : p[1] \in {"field", "rigid"}}
  BY OfKindMembers DEF Known
<1>2. Known(s)[1] \in ToSet(Known(s))
  BY <1>1, FirstOf
<1> QED
  BY <1>1, <1>2

-----------------------------------------------------------------------------
(* Actions that demand: nothing is lost                                    *)

LEMMA FreshStep == ASSUME NEW outcome PROVE NextFresh(outcome) \in {fresh, fresh + 1}
BY DEF NextFresh

LEMMA InitDemandInv == ASSUME Init PROVE DemandInv
<1>1. IInv
  BY InitIInv
<1>2. demands = {} /\ errors = {} /\ Outstanding = {} /\ report = FALSE
  BY DEF Init, Outstanding, ToSet
<1> QED
  BY <1>1, <1>2 DEF DemandInv, RowsInv, FoldersInv, GuardsInv, ExaminedInv, ReportInv

LEMMA CheckConDemands ==
    ASSUME DemandInv, NEW e \in Equations, CheckCon(e[1], e[2])
    PROVE  DemandInv'
<1> DEFINE job == Equal(e[1], e[2])
<1>1. IInv /\ ReportInv /\ KnownSound /\ ListsSound
  BY DEF DemandInv, IInv
<1>2. IInv' /\ Extends(known', known)
  BY <1>1, CheckConIInv
<1>3. /\ demands' = demands \cup {job} /\ UNCHANGED <<witnesses, pending, next, older, report>>
      /\ fresh' \in {fresh, fresh + 1}
      /\ constraints' \in {constraints, Append(constraints, job)}
      /\ errors' \in {errors, errors \cup {job}}
  BY FreshStep DEF CheckCon, Demand, solver
<1>4. HasRows(job, fresh - 1) /\ job.kind = "equal"
  BY <1>1, ProgramRowsKnown DEF HasRows, Equal
<1> HIDE DEF job
<1>5. Learns
  BY <1>1, <1>2, <1>3 DEF Learns
<1>6. ToSet(constraints') \in {ToSet(constraints), ToSet(constraints) \cup {job}}
  BY <1>1, <1>3, MembersAppended DEF ListsSound
<1>7. /\ Outstanding \subseteq Outstanding' /\ errors \subseteq errors'
      /\ Outstanding' \subseteq Outstanding \cup {job} /\ errors' \subseteq errors \cup {job}
  BY <1>3, <1>6 DEF Outstanding
<1>8. Accounts
  BY <1>3, <1>4, <1>7 DEF Accounts, Standing
<1>9. ReportInv'
  BY <1>1, <1>3 DEF ReportInv
<1> QED
  BY <1>5, <1>8, <1>9, DemandStep

LEMMA DisjointDemands ==
    ASSUME DemandInv, NEW l \in ProgramRows, NEW r \in ProgramRows, NEW env,
           DemandDisjoint(l, r, env), UNCHANGED <<known, fresh, errors>>,
           constraints' = constraints \o Goals(env, Prove(known, env, l, r))
    PROVE  DemandInv' /\ KeepsEquals
<1> DEFINE goals == Goals(env, Prove(known, env, l, r))
           job == [Disjoint(l, r, env) EXCEPT !.kind = IF Unexamined(l, r) THEN "unexamined" ELSE "disjoint"]
<1>1. IInv /\ ReportInv /\ KnownSound /\ ListsSound
  BY DEF DemandInv, IInv
<1>2. IInv' /\ Extends(known', known)
  BY <1>1, DisjointIInv
<1>3. /\ demands' = demands \cup {job} /\ UNCHANGED <<witnesses, pending, next, older, report>>
  BY DEF DemandDisjoint, Demand, solver
<1>4. /\ job.left = l /\ job.right = r /\ job.env = env
      /\ job.kind = IF Unexamined(l, r) THEN "unexamined" ELSE "disjoint"
  BY DEF Disjoint
<1>5. l \in Seq(Pieces(fresh - 1)) /\ r \in Seq(Pieces(fresh - 1))
  BY <1>1, ProgramRowsKnown
<1>6. fresh - 1 \in Nat /\ Sound(known, Pieces(fresh - 1))
  BY <1>1, FreshFacts
<1>7. Jobs(goals, fresh - 1)
  BY <1>5, <1>6, ProveTyped, JobsGoals
<1> HIDE DEF job
<1>8. ToSet(constraints') = ToSet(constraints) \cup ToSet(goals)
  BY <1>1, <1>7, JobsConcat DEF ListsSound
<1>9. Outstanding' = Outstanding \cup ToSet(goals)
  BY <1>3, <1>8 DEF Outstanding
<1>10. Unexamined(l, r) => goals = <<>> /\ ToSet(goals) = {}
  <2> SUFFICES ASSUME Unexamined(l, r) PROVE goals = <<>> /\ ToSet(goals) = {}
    OBVIOUS
  <2>1. Known(Normal(known, l)) = <<>> /\ Known(Normal(known, r)) = <<>>
    BY DEF Unexamined
  <2>2. FlattenSeq(<<>>) = <<>>
    BY FlattenNone
  <2>3. Prove(known, env, l, r) = <<>>
    BY <2>1, <2>2 DEF Prove
  <2> QED
    BY <2>3 DEF Goals, ToSet
<1>11. ~Unexamined(l, r) => Examined(known, l, r)
  <2> SUFFICES ASSUME ~Unexamined(l, r) PROVE Examined(known, l, r)
    OBVIOUS
  <2>1. Normal(known, l) \in Seq(Pieces(fresh - 1)) /\ Normal(known, r) \in Seq(Pieces(fresh - 1))
    BY <1>5, <1>6, NormalGiven
  <2>2. \A s \in Seq(Pieces(fresh - 1)) : Known(s) # <<>> => \E p \in ToSet(s) : p[1] # "unif"
    BY KnownMember
  <2> QED
    BY <2>1, <2>2 DEF Unexamined, Examined
<1>12. Examined(known, l, r) =>
         /\ Covered(known, ToSet(goals), env, l, r)
         /\ \A g \in ToSet(goals) : g.kind = "disjoint" /\ Examined(known, g.left, g.right)
  BY <1>5, <1>6, ProveCovers
<1> HIDE DEF goals
<1>13. Learns
  BY <1>1, <1>2 DEF Learns
<1>14. job.kind = "disjoint" => Covered(known', Standing', job.env, job.left, job.right)
  <2> SUFFICES ASSUME job.kind = "disjoint" PROVE Covered(known', Standing', env, l, r)
    BY <1>4
  <2>1. Covered(known, ToSet(goals), env, l, r)
    BY <1>4, <1>11, <1>12
  <2>2. ToSet(goals) \subseteq Standing'
    BY <1>9 DEF Standing
  <2> QED
    BY <2>1, <2>2 DEF Covered, Stands
<1>15. \A d \in ToSet(goals) : d.kind = "disjoint" /\ Examined(known, d.left, d.right)
  BY <1>10, <1>11, <1>12
<1>16. HasRows(job, fresh - 1) /\ job.kind # "folder" /\ job.kind # "equal"
  BY <1>4, <1>5 DEF HasRows
<1>17. Standing \subseteq Standing'
  BY <1>9 DEF Standing
<1>18. Accounts
  BY <1>3, <1>9, <1>14, <1>15, <1>16, <1>17 DEF Accounts, Standing
<1>19. ReportInv'
  BY <1>1, <1>3 DEF ReportInv
<1>20. KeepsEquals
  BY <1>3, <1>9, <1>15, <1>16, <1>17 DEF KeepsEquals
<1> QED
  BY <1>13, <1>18, <1>19, <1>20, DemandStep

LEMMA WantFolderDemands == ASSUME DemandInv, NEW row \in Folders, WantFolder(row) PROVE DemandInv' /\ KeepsEquals
<1> DEFINE job == Folder(row)
<1>1. IInv /\ ReportInv /\ KnownSound /\ ListsSound
  BY DEF DemandInv, IInv
<1>2. IInv' /\ Extends(known', known)
  BY <1>1, WantFolderIInv
<1>3. /\ demands' = demands \cup {job} /\ constraints' = Append(constraints, job)
      /\ UNCHANGED <<witnesses, pending, next, older, report, known, fresh, errors>>
  BY DEF WantFolder, Demand, solver
<1>4. HasRows(job, fresh - 1) /\ job.kind = "folder"
  BY <1>1, ProgramRowsKnown DEF HasRows, Folder
<1> HIDE DEF job
<1>5. Learns
  BY <1>1, <1>2, <1>3 DEF Learns
<1>6. Outstanding' = Outstanding \cup {job}
  BY <1>1, <1>3, MembersAppended DEF ListsSound, Outstanding
<1>7. Accounts
  BY <1>3, <1>4, <1>6 DEF Accounts, Standing
<1>8. ReportInv'
  BY <1>1, <1>3 DEF ReportInv
<1>9. KeepsEquals
  BY <1>3, <1>4, <1>6 DEF KeepsEquals, Standing
<1> QED
  BY <1>5, <1>7, <1>8, <1>9, DemandStep

-----------------------------------------------------------------------------
(* Actions that solve: nothing is lost                                     *)

\* Steps that move constraints from list to list.
LEMMA MoveDemands ==
    ASSUME DemandInv, IInv', Extends(known', known), UNCHANGED <<known, fresh, witnesses, demands>>,
           Outstanding' \subseteq Outstanding, errors \subseteq errors', errors' \subseteq Standing,
           Standing \subseteq Standing', ReportInv'
    PROVE  DemandInv' /\ KeepsEquals
<1>1. Learns
  BY DEF Learns, DemandInv
<1>2. Accounts
  BY DEF Accounts
<1>3. KeepsEquals
  BY DEF KeepsEquals
<1> QED
  BY <1>1, <1>2, <1>3, DemandStep

LEMMA StartSolvingDemands ==
    ASSUME DemandInv, NEW start \in Nat, start <= Len(constraints), NEW final,
           StartSolving(start, final), final => start = 0
    PROVE  DemandInv' /\ KeepsEquals
<1>1. IInv /\ ReportInv /\ ListsSound /\ PhaseInv
  BY DEF DemandInv, IInv
<1>2. IInv' /\ Extends(known', known)
  BY <1>1, StartSolvingIInv
<1>3. /\ phase = "elaborate" /\ report' = final
      /\ older' = SubSeq(constraints, 1, start)
      /\ pending' = SubSeq(constraints, start + 1, Len(constraints))
      /\ constraints' = <<>> /\ next' = <<>>
      /\ UNCHANGED <<known, fresh, witnesses, errors, demands>>
  BY DEF StartSolving
<1>4. pending = <<>> /\ next = <<>> /\ older = <<>>
  BY <1>1, <1>3 DEF PhaseInv
<1>5. ToSet(constraints) = ToSet(older') \cup ToSet(pending')
  BY <1>1, <1>3, SplitMembers DEF ListsSound, Jobs
<1>6. ToSet(<<>>) = {}
  BY DEF ToSet
<1>7. Outstanding' = Outstanding
  BY <1>3, <1>4, <1>5, <1>6 DEF Outstanding
<1>8. ReportInv'
  <2>1. final => older' = <<>>
    <3>1. \A i \in 1..0 : constraints[i] \in {}
      OBVIOUS
    <3>2. Len(SubSeq(constraints, 1, 0)) = 0 /\ SubSeq(constraints, 1, 0) \in Seq({})
      BY <3>1, SubSeqProperties
    <3>3. SubSeq(constraints, 1, 0) = <<>>
      BY <3>2, EmptySeq
    <3> QED
      BY <1>3, <3>3
  <2> QED
    BY <1>3, <2>1 DEF ReportInv
<1> QED
  BY <1>2, <1>3, <1>7, <1>8, MoveDemands DEF Standing

LEMMA TryDisjointDemands == ASSUME DemandInv, TryDisjoint PROVE DemandInv' /\ KeepsEquals
<1> DEFINE job == pending[1]
           goals == Goals(job.env, Prove(known, job.env, job.left, job.right))
<1>1. IInv /\ ReportInv /\ KnownSound /\ ListsSound /\ ExaminedInv
  BY DEF DemandInv, IInv
<1>2. IInv' /\ Extends(known', known)
  BY <1>1, TryDisjointIInv
<1>3. /\ pending # <<>> /\ pending' = SubSeq(pending, 2, Len(pending)) /\ job.kind = "disjoint"
      /\ next' = next \o goals
      /\ UNCHANGED <<known, fresh, constraints, witnesses, errors, demands, older, report>>
  BY DEF TryDisjoint, Solving, Taken, context
<1>4. ToSet(pending) = {job} \cup ToSet(pending')
  BY <1>1, <1>3, HeadMembers DEF ListsSound
<1>5. IsJob(job, fresh - 1) /\ job \in Outstanding
  BY <1>1, <1>4 DEF ListsSound, Jobs, Outstanding
<1>6. job.left \in Seq(Pieces(fresh - 1)) /\ job.right \in Seq(Pieces(fresh - 1))
  BY <1>5 DEF IsJob
<1>7. fresh - 1 \in Nat /\ Sound(known, Pieces(fresh - 1))
  BY <1>1, FreshFacts
<1>8. Jobs(goals, fresh - 1)
  BY <1>6, <1>7, ProveTyped, JobsGoals
<1>9. Examined(known, job.left, job.right)
  BY <1>1, <1>3, <1>5 DEF ExaminedInv
<1>10. /\ Covered(known, ToSet(goals), job.env, job.left, job.right)
       /\ \A g \in ToSet(goals) : g.kind = "disjoint" /\ Examined(known, g.left, g.right)
  BY <1>6, <1>7, <1>9, ProveCovers
<1>11. ToSet(next \o goals) = ToSet(next) \cup ToSet(goals)
  BY <1>1, <1>8, JobsConcat DEF ListsSound
<1> HIDE DEF job, goals
<1>12. /\ Outstanding \subseteq Outstanding' \cup {job} /\ Outstanding' \subseteq Outstanding \cup ToSet(goals)
       /\ ToSet(goals) \subseteq Outstanding'
  BY <1>3, <1>4, <1>11 DEF Outstanding
<1>13. Covered(known', Standing', job.env, job.left, job.right)
  <2>1. ToSet(goals) \subseteq Standing'
    BY <1>12 DEF Standing
  <2> QED
    BY <1>3, <1>10, <2>1 DEF Covered, Stands
<1>14. \A d \in Standing : d \in Standing' \/ d = job
  BY <1>3, <1>12 DEF Standing
<1>15. Learns
  BY <1>1, <1>2, <1>3 DEF Learns
<1>16. \A d \in Outstanding' : d \in Outstanding \/ Examined(known', d.left, d.right)
  BY <1>3, <1>10, <1>12
<1>17. Accounts
  BY <1>3, <1>13, <1>14, <1>16 DEF Accounts, Standing
<1>18. ReportInv'
  BY <1>1, <1>3 DEF ReportInv
<1>19. job.kind = "disjoint"
  BY <1>3 DEF job
<1>20. KeepsEquals
  BY <1>3, <1>10, <1>12, <1>14, <1>19 DEF KeepsEquals
<1> QED
  BY <1>15, <1>17, <1>18, <1>20, DemandStep

LEMMA TryFolderDemands == ASSUME DemandInv, TryFolder PROVE DemandInv' /\ KeepsEquals
<1>0. PICK job : job = pending[1]
  OBVIOUS
<1> DEFINE row == Normal(known, job.left)
<1>1. IInv /\ ReportInv /\ KnownSound /\ ListsSound
  BY DEF DemandInv, IInv
<1>2. IInv' /\ Extends(known', known)
  BY <1>1, TryFolderIInv
<1>3. /\ pending # <<>> /\ pending' = SubSeq(pending, 2, Len(pending)) /\ job.kind = "folder"
      /\ witnesses' = IF ClosedRecord(row) THEN witnesses \cup {<<job.left, row>>} ELSE witnesses
      /\ next' = IF ClosedRecord(row) THEN next ELSE Append(next, job)
      /\ UNCHANGED <<known, fresh, constraints, errors, demands, older, report>>
  BY <1>0 DEF TryFolder, Solving, Taken
<1>4. ToSet(pending) = {job} \cup ToSet(pending')
  BY <1>0, <1>1, <1>3, HeadMembers DEF ListsSound
<1>5. ToSet(Append(next, job)) = ToSet(next) \cup {job}
  BY <1>1, MembersAppended DEF ListsSound
<1>6. ClosedRecord(row) => FolderDone(job)'
  BY <1>3 DEF FolderDone
<1> HIDE DEF row
<1>7. ~ClosedRecord(row) => job \in Outstanding'
  BY <1>3, <1>5 DEF Outstanding
<1>8. /\ Outstanding \subseteq Outstanding' \cup {job} /\ Outstanding' \subseteq Outstanding
  BY <1>3, <1>4, <1>5 DEF Outstanding
<1>9. \A d \in Standing : d \in Standing' \/ (d = job /\ FolderDone(job)')
  BY <1>3, <1>6, <1>7, <1>8 DEF Standing
<1>10. Learns
  BY <1>1, <1>2, <1>3 DEF Learns
<1>11. Accounts
  BY <1>3, <1>8, <1>9 DEF Accounts, Standing
<1>12. ReportInv'
  BY <1>1, <1>3 DEF ReportInv
<1>13. KeepsEquals
  BY <1>3, <1>8, <1>9 DEF KeepsEquals
<1> QED
  BY <1>10, <1>11, <1>12, <1>13, DemandStep

LEMMA TryEqualDemands == ASSUME DemandInv, TryEqual PROVE DemandInv'
<1> DEFINE job == pending[1]
<1>1. IInv /\ ReportInv /\ KnownSound /\ ListsSound
  BY DEF DemandInv, IInv
<1>2. IInv' /\ Extends(known', known)
  BY <1>1, TryEqualIInv
<1>3. /\ pending # <<>> /\ pending' = SubSeq(pending, 2, Len(pending)) /\ job.kind = "equal"
      /\ constraints' \in {constraints, Append(constraints, job)}
      /\ next' \in {next, Append(next, job)}
      /\ fresh' \in {fresh, fresh + 1}
      /\ UNCHANGED <<witnesses, errors, demands, older, report>>
  BY FreshStep DEF TryEqual, Solving, Taken
<1>4. ToSet(pending) = {job} \cup ToSet(pending')
  BY <1>1, <1>3, HeadMembers DEF ListsSound
<1>5. ToSet(Append(next, job)) = ToSet(next) \cup {job} /\ ToSet(Append(constraints, job)) = ToSet(constraints) \cup {job}
  BY <1>1, MembersAppended DEF ListsSound
<1> HIDE DEF job
<1>6. /\ Outstanding \subseteq Outstanding' \cup {job} /\ Outstanding' \subseteq Outstanding
  BY <1>3, <1>4, <1>5 DEF Outstanding
<1>7. \A d \in Standing : d \in Standing' \/ d.kind = "equal"
  BY <1>3, <1>6 DEF Standing
<1>8. Learns
  BY <1>1, <1>2, <1>3 DEF Learns
<1>9. Accounts
  BY <1>3, <1>6, <1>7 DEF Accounts, Standing
<1>10. ReportInv'
  BY <1>1, <1>3 DEF ReportInv
<1> QED
  BY <1>8, <1>9, <1>10, DemandStep

LEMMA NextPassDemands == ASSUME DemandInv, NextPass PROVE DemandInv' /\ KeepsEquals
<1>1. IInv /\ ReportInv
  BY DEF DemandInv
<1>2. IInv' /\ Extends(known', known)
  BY <1>1, NextPassIInv
<1>3. /\ pending = <<>> /\ pending' = next /\ next' = <<>>
      /\ UNCHANGED <<known, fresh, constraints, witnesses, errors, demands, older, report>>
  BY DEF NextPass, PassOver, context
<1>4. Outstanding' = Outstanding
  BY <1>3 DEF Outstanding
<1>5. ReportInv'
  BY <1>1, <1>3 DEF ReportInv
<1> QED
  BY <1>2, <1>3, <1>4, <1>5, MoveDemands DEF Standing

\* What is reported is all there is: nothing was kept aside.
LEMMA FinishDemands == ASSUME DemandInv, Finish PROVE DemandInv' /\ KeepsEquals
<1>1. IInv /\ ReportInv /\ ListsSound /\ PhaseInv
  BY DEF DemandInv, IInv
<1>2. IInv' /\ Extends(known', known)
  BY <1>1, FinishIInv
<1>3. /\ phase = "solve" /\ pending = <<>>
      /\ errors' = IF report THEN errors \cup ToSet(next) ELSE errors
      /\ constraints' = IF report THEN constraints ELSE older \o next
      /\ older' = <<>> /\ next' = <<>> /\ report' = FALSE
      /\ UNCHANGED <<known, fresh, demands, witnesses, pending>>
  BY DEF Finish, PassOver
<1>4. constraints = <<>> /\ (report => older = <<>>)
  BY <1>1, <1>3 DEF PhaseInv, ReportInv
<1>5. ToSet(older \o next) = ToSet(older) \cup ToSet(next)
  BY <1>1, JobsConcat DEF ListsSound
<1>6. ToSet(<<>>) = {}
  BY DEF ToSet
<1>7. ReportInv'
  BY <1>3 DEF ReportInv
<1>8. CASE report
  <2>1. Outstanding' = {} /\ errors' = errors \cup ToSet(next) /\ Standing = errors \cup ToSet(next)
    BY <1>3, <1>4, <1>6, <1>8 DEF Outstanding, Standing
  <2> QED
    BY <1>2, <1>3, <1>7, <2>1, MoveDemands DEF Standing
<1>9. CASE ~report
  <2>1. Outstanding' = Outstanding /\ errors' = errors
    BY <1>3, <1>4, <1>5, <1>6, <1>9 DEF Outstanding
  <2> QED
    BY <1>2, <1>3, <1>7, <2>1, MoveDemands DEF Standing
<1> QED
  BY <1>8, <1>9

LEMMA NextDemands ==
    ASSUME DemandInv, [Next]_vars
    PROVE  DemandInv' /\ (KeepsEquals \/ TryEqual \/ \E e \in Equations : CheckCon(e[1], e[2]))
<1>1. ASSUME NEW e \in Equations, CheckCon(e[1], e[2]) PROVE DemandInv'
  BY <1>1, CheckConDemands
<1>2. ASSUME NEW e \in Apart, DischargeGuard(e[1], e[2]) PROVE DemandInv' /\ KeepsEquals
  <2>1. e[1] \in ProgramRows /\ e[2] \in ProgramRows
    BY DEF ProgramRows
  <2>2. /\ DemandDisjoint(e[1], e[2], Env) /\ UNCHANGED <<known, fresh, errors>>
        /\ constraints' = constraints \o Goals(Env, Prove(known, Env, e[1], e[2]))
    BY <1>2 DEF DischargeGuard
  <2> QED
    BY <2>1, <2>2, DisjointDemands
<1>3. ASSUME NEW e \in Assumptions, EnterGuarded(e[1], e[2]) PROVE DemandInv' /\ KeepsEquals
  <2>1. e[1] \in ProgramRows /\ e[2] \in ProgramRows
    BY DEF ProgramRows
  <2> DEFINE env == AssertApart(known, e[1], e[2], Env)
  <2>2. /\ DemandDisjoint(e[1], e[2], env) /\ UNCHANGED <<known, fresh, errors>>
        /\ constraints' = constraints \o Goals(env, Prove(known, env, e[1], e[2]))
    BY <1>3 DEF EnterGuarded
  <2> HIDE DEF env
  <2> QED
    BY <2>1, <2>2, DisjointDemands
<1>4. ASSUME UNCHANGED <<phase, context, demands, solver>> PROVE DemandInv' /\ KeepsEquals
  <2>1. UNCHANGED <<known, fresh, witnesses, demands, errors, report, older>> /\ Outstanding' = Outstanding
    BY <1>4 DEF context, solver, Outstanding
  <2>2. IInv'
    <3>1. IInv
      BY DEF DemandInv
    <3>2. KnownSound' /\ ListsSound' /\ PhaseInv' /\ KindsInv'
      BY <1>4, <3>1 DEF IInv, KnownSound, ListsSound, PhaseInv, KindsInv, context, solver
    <3> QED
      BY <3>2 DEF IInv
  <2>3. Extends(known', known)
    BY <2>1 DEF Extends
  <2>4. ReportInv'
    BY <2>1 DEF DemandInv, ReportInv
  <2> QED
    BY <2>1, <2>2, <2>3, <2>4, MoveDemands DEF Standing
<1>5. LeaveGuarded => DemandInv' /\ KeepsEquals
  BY <1>4 DEF LeaveGuarded
<1>6. ASSUME NEW row \in Folders, WantFolder(row) PROVE DemandInv' /\ KeepsEquals
  BY <1>6, WantFolderDemands
<1>7. ASSUME SolveRecent \/ SolveDeferred \/ SolveFinal PROVE DemandInv' /\ KeepsEquals
  <2>1. Len(constraints) \in Nat
    BY LenProperties DEF DemandInv, IInv, ListsSound, Jobs
  <2>2. CASE SolveRecent
    <3>1. PICK start \in 1..Len(constraints) - 1 : StartSolving(start, FALSE)
      BY <2>2 DEF SolveRecent
    <3>2. start \in Nat /\ start <= Len(constraints)
      BY <2>1
    <3> QED
      BY <3>1, <3>2, StartSolvingDemands
  <2>3. CASE SolveDeferred \/ SolveFinal
    <3>1. StartSolving(0, FALSE) \/ StartSolving(0, TRUE)
      BY <2>3 DEF SolveDeferred, SolveFinal
    <3>2. 0 \in Nat /\ 0 <= Len(constraints)
      BY <2>1
    <3> QED
      BY <3>1, <3>2, StartSolvingDemands
  <2> QED
    BY <1>7, <2>2, <2>3
<1>8. SolverStep => DemandInv' /\ (KeepsEquals \/ TryEqual)
  BY TryDisjointDemands, TryFolderDemands, TryEqualDemands, NextPassDemands, FinishDemands DEF SolverStep
<1>9. UNCHANGED vars => DemandInv' /\ KeepsEquals
  BY <1>4 DEF vars
<1> QED
  BY <1>1, <1>2, <1>3, <1>5, <1>6, <1>7, <1>8, <1>9 DEF Next

LEMMA NextDemandInv == ASSUME DemandInv, [Next]_vars PROVE DemandInv'
BY NextDemands

\* No guard and no folder the program demanded is forgotten: two rows that were to be
\* disjoint are, for every instance of what is unknown, or constraints stand for each
\* pair of their pieces that may overlap, or they were reported; a folder was built for
\* the row as it is known, or its constraint waits or was reported.
FoldersAndGuardsMet == \A d \in demands : d.kind \in {"folder", "disjoint"} => Met(d)

LEMMA DemandInvMet == ASSUME DemandInv PROVE FoldersAndGuardsMet
<1> SUFFICES ASSUME NEW d \in demands, d.kind \in {"folder", "disjoint"} PROVE Met(d)
  BY DEF FoldersAndGuardsMet
<1>1. CASE d.kind = "folder"
  BY <1>1 DEF DemandInv, FoldersInv, FolderDone, Standing, Met
<1>2. CASE d.kind = "disjoint"
  <2>1. Covered(known, Standing, d.env, d.left, d.right)
    BY <1>2 DEF DemandInv, GuardsInv
  <2>2. \A p \in PiecesOf(d.left), q \in PiecesOf(d.right) : ApartNow(d.env, p, q) \/ StillAsked(d.env, p, q)
    BY <2>1 DEF Covered, Stands, StillAsked, PiecesOf, Standing
  <2> QED
    BY <1>2, <2>2 DEF Met
<1> QED
  BY <1>1, <1>2

(* No guard and no folder a program demands is lost between the lists of   *)
(* solve_constraints_internal (elaborate.rs:14863) and of its callers: the  *)
(* goals that prove (disjointness_analysis.rs:455) returns, and the folders *)
(* resolve_class builds, make up for each constraint that goes, and stay    *)
(* true of rows whose cells are solved later.                               *)
THEOREM FoldersAndGuards == Spec => []FoldersAndGuardsMet
<1>1. Init => DemandInv
  BY InitDemandInv
<1>2. DemandInv /\ [Next]_vars => DemandInv'
  BY NextDemandInv
<1>3. DemandInv => FoldersAndGuardsMet
  BY DemandInvMet
<1> QED
  BY <1>1, <1>2, <1>3, PTL DEF Spec

-----------------------------------------------------------------------------
(* Programs without errors                                                 *)

DoneInv == phase = "done" => constraints = <<>>

LEMMA NextDoneInv == ASSUME IInv, DoneInv, [Next]_vars PROVE DoneInv'
<1>1. phase = "solve" => constraints = <<>>
  BY DEF IInv, PhaseInv
<1>2. CASE UNCHANGED vars
  BY <1>2 DEF vars, context, DoneInv
<1>3. CASE LeaveGuarded
  BY <1>3 DEF LeaveGuarded, DoneInv
<1>4. CASE SolverStep
  <2>1. TryDisjoint \/ TryFolder \/ TryEqual \/ NextPass => phase' = "solve"
    BY DEF TryDisjoint, TryFolder, TryEqual, NextPass, Solving, PassOver
  <2>2. Finish => phase' = "elaborate" \/ constraints' = <<>>
    BY <1>1 DEF Finish, PassOver
  <2> QED
    BY <1>4, <2>1, <2>2 DEF SolverStep, DoneInv
<1>5. CASE SolveRecent \/ SolveDeferred \/ SolveFinal
  <2>1. \A start, final : StartSolving(start, final) => phase' = "solve"
    BY DEF StartSolving
  <2> QED
    BY <1>5, <2>1 DEF SolveRecent, SolveDeferred, SolveFinal, DoneInv
<1>6. CASE \/ \E e \in Equations : CheckCon(e[1], e[2])
           \/ \E e \in Apart : DischargeGuard(e[1], e[2])
           \/ \E e \in Assumptions : EnterGuarded(e[1], e[2])
           \/ \E row \in Folders : WantFolder(row)
  <2>1. \A d : Demand(d) => phase' = "elaborate"
    BY DEF Demand
  <2>2. phase' = "elaborate"
    BY <1>6, <2>1 DEF CheckCon, DischargeGuard, EnterGuarded, WantFolder, DemandDisjoint
  <2> QED
    BY <2>2 DEF DoneInv
<1> QED
  BY <1>2, <1>3, <1>4, <1>5, <1>6 DEF Next

\* A program elaborated without an error: each guard that prove looked at holds for every
\* instance of the cells left, and each folder was built.
GuardsProved ==
    phase = "done" /\ errors = {} => \A d \in demands :
        /\ d.kind = "disjoint" => \A p \in PiecesOf(d.left), q \in PiecesOf(d.right) : ApartNow(d.env, p, q)
        /\ d.kind = "folder" => <<d.left, Normal(known, d.left)>> \in witnesses

LEMMA DoneStanding == ASSUME IInv, DoneInv, phase = "done", errors = {} PROVE Outstanding \cup errors = {}
<1>1. constraints = <<>> /\ pending = <<>> /\ next = <<>> /\ older = <<>>
  BY DEF IInv, PhaseInv, DoneInv
<1>2. ToSet(<<>>) = {}
  BY DEF ToSet
<1> QED
  BY <1>1, <1>2 DEF Outstanding

(* When elab_file ends without an error, each guard of which prove knew     *)
(* anything holds of the rows as they are then, for every instance of the   *)
(* cells left unknown, and each folder was built for the row it belongs to. *)
THEOREM AcceptedProgram == Spec => []GuardsProved
<1> DEFINE Inv == DemandInv /\ DoneInv
<1>1. Init => Inv
  BY InitDemandInv DEF Init, DoneInv
<1>2. Inv /\ [Next]_vars => Inv'
  BY NextDemandInv, NextDoneInv DEF DemandInv
<1>3. Inv => GuardsProved
  <2> SUFFICES ASSUME Inv, phase = "done", errors = {}, NEW d \in demands
               PROVE  /\ d.kind = "disjoint" =>
                           \A p \in PiecesOf(d.left), q \in PiecesOf(d.right) : ApartNow(d.env, p, q)
                      /\ d.kind = "folder" => <<d.left, Normal(known, d.left)>> \in witnesses
    BY DEF GuardsProved
  <2>1. Outstanding \cup errors = {}
    BY DoneStanding DEF DemandInv
  <2>2. CASE d.kind = "disjoint"
    <3>1. Covered(known, {}, d.env, d.left, d.right)
      BY <2>1, <2>2 DEF DemandInv, GuardsInv, Standing
    <3> QED
      BY <2>2, <3>1 DEF Covered, Stands, PiecesOf
  <2>3. CASE d.kind = "folder"
    BY <2>1, <2>3 DEF DemandInv, FoldersInv, Standing, FolderDone
  <2> QED
    BY <2>2, <2>3
<1> QED
  BY <1>1, <1>2, <1>3, PTL DEF Spec

-----------------------------------------------------------------------------
(* How often a piece occurs; measures of rows                              *)

\* A row with each piece replaced by a sequence.
Each(G, row) == FlattenSeq([i \in DOMAIN row |-> G[row[i]]])

LEMMA EachOneMore ==
    ASSUME NEW X, NEW Y, NEW G \in [X -> Seq(Y)], NEW row \in Seq(X), NEW p \in X
    PROVE  Each(G, row \o <<p>>) = Each(G, row) \o G[p] /\ Each(G, row) \in Seq(Y) /\ G[p] \in Seq(Y)
<1> DEFINE more == row \o <<p>>
           seqs == [i \in DOMAIN row |-> G[row[i]]]
           seqs2 == [i \in DOMAIN more |-> G[more[i]]]
           n == Len(row)
<1>1. /\ more \in Seq(X) /\ n \in Nat /\ DOMAIN row = 1..n /\ DOMAIN more = 1..n + 1
      /\ (\A i \in 1..n : more[i] = row[i]) /\ more[n + 1] = p
  BY ConcatIndex
<1>2. \A i \in 1..n : row[i] \in X
  BY ElementOfSeq
<1> HIDE DEF n, more
<1>3. G[p] \in Seq(Y)
  OBVIOUS
<1>4. \A i \in 1..n : seqs[i] \in Seq(Y)
  BY <1>1, <1>2
<1>5. seqs \in Seq(Seq(Y)) /\ Len(seqs) = n
  BY <1>1, <1>4
<1>6. DOMAIN seqs2 = 1..n + 1 /\ (\A i \in 1..n : seqs2[i] = seqs[i]) /\ seqs2[n + 1] = G[p]
  BY <1>1
<1>7. seqs2 = [i \in 1..n + 1 |-> seqs2[i]]
  BY <1>1
<1> HIDE DEF seqs, seqs2
<1>8. /\ seqs \o <<G[p]>> \in Seq(Seq(Y)) /\ Len(seqs \o <<G[p]>>) = n + 1
      /\ (\A i \in 1..n : (seqs \o <<G[p]>>)[i] = seqs[i])
      /\ (seqs \o <<G[p]>>)[n + 1] = G[p]
  BY <1>3, <1>5, ConcatIndex
<1>9. seqs2 = seqs \o <<G[p]>>
  <2>1. \A i \in 1..n + 1 : seqs2[i] \in Seq(Y)
    <3> TAKE i \in 1..n + 1
    <3>1. i \in 1..n \/ i = n + 1
      BY <1>1
    <3>2. i \in 1..n => seqs2[i] \in Seq(Y)
      BY <1>4, <1>6
    <3> QED
      BY <1>3, <1>6, <3>1, <3>2
  <2>2. seqs2 \in Seq(Seq(Y)) /\ Len(seqs2) = n + 1
    <3>1. \A m \in Nat : seqs2 \in [1..m -> Seq(Y)] => seqs2 \in Seq(Seq(Y))
      BY SeqDef
    <3>2. n + 1 \in Nat
      BY <1>1
    <3>3. PICK m \in Nat : m = n + 1
      BY <3>2
    <3>4. seqs2 = [i \in 1..m |-> seqs2[i]] /\ \A i \in 1..m : seqs2[i] \in Seq(Y)
      BY <1>7, <2>1, <3>3
    <3>5. seqs2 \in [1..m -> Seq(Y)]
      BY <3>4
    <3>6. seqs2 \in Seq(Seq(Y))
      BY <3>1, <3>5
    <3>7. Len(seqs2) \in Nat /\ 1..Len(seqs2) = 1..n + 1
      BY <1>6, <3>6, LenProperties
    <3>8. Len(seqs2) = n + 1
      BY <1>1, <3>7
    <3> QED
      BY <3>6, <3>8
  <2>3. \A i \in 1..Len(seqs2) : seqs2[i] = (seqs \o <<G[p]>>)[i]
    <3> TAKE i \in 1..Len(seqs2)
    <3>1. i \in 1..n \/ i = n + 1
      BY <1>1, <2>2
    <3> QED
      BY <1>6, <1>8, <3>1
  <2> QED
    BY <1>8, <2>2, <2>3, SeqEqual
<1>10. FlattenSeq(seqs2) = FlattenSeq(seqs) \o G[p]
  BY <1>3, <1>5, <1>9, FlattenOneMore
<1>11. Each(G, row) = FlattenSeq(seqs) /\ Each(G, more) = FlattenSeq(seqs2)
  BY DEF Each, seqs, seqs2
<1>12. FlattenSeq(seqs) \in Seq(Y)
  BY <1>5, FlattenMembers
<1> QED
  BY <1>3, <1>10, <1>11, <1>12 DEF more

LEMMA EachNone == ASSUME NEW G PROVE Each(G, <<>>) = <<>>
<1>1. Each(G, <<>>) = FlattenSeq(<<>>)
  BY DEF Each
<1> QED
  BY <1>1, FlattenNone

\* How often a row has a piece.
Hits(X, p) == [q \in X |-> IF SamePiece(p, q) THEN <<q>> ELSE <<>>]
Count(X, p, row) == Len(Each(Hits(X, p), row))
One(p, q) == IF SamePiece(p, q) THEN 1 ELSE 0

LEMMA CountOneMore ==
    ASSUME NEW X, NEW p, NEW row \in Seq(X), NEW q \in X
    PROVE  Count(X, p, row) \in Nat /\ Count(X, p, row \o <<q>>) = Count(X, p, row) + One(p, q)
<1> DEFINE G == Hits(X, p)
           old == Each(G, row)
<1>1. G \in [X -> Seq(X)] /\ G[q] = IF SamePiece(p, q) THEN <<q>> ELSE <<>>
  BY DEF Hits
<1> HIDE DEF G
<1>2. Each(G, row \o <<q>>) = old \o G[q] /\ old \in Seq(X) /\ G[q] \in Seq(X)
  BY <1>1, EachOneMore
<1> HIDE DEF old
<1>3. Len(old \o G[q]) = Len(old) + Len(G[q]) /\ Len(old) \in Nat
  BY <1>2, ConcatProperties, LenProperties
<1>4. Len(G[q]) = One(p, q)
  BY <1>1 DEF One
<1> QED
  BY <1>2, <1>3, <1>4 DEF Count, G, old

LEMMA CountNone == ASSUME NEW X, NEW p PROVE Count(X, p, <<>>) = 0
BY EachNone DEF Count

LEMMA CountNat == ASSUME NEW X, NEW p, NEW row \in Seq(X) PROVE Count(X, p, row) \in Nat
<1> DEFINE S == {s \in Seq(X) : Count(X, p, s) \in Nat}
<1>1. <<>> \in S
  BY CountNone
<1>2. \A s \in Seq(X), q \in X : s \in S => s \o <<q>> \in S
  <2> TAKE s \in Seq(X), q \in X
  <2>1. Count(X, p, s) \in Nat /\ Count(X, p, s \o <<q>>) = Count(X, p, s) + One(p, q)
    BY CountOneMore
  <2>2. s \o <<q>> \in Seq(X) /\ One(p, q) \in Nat
    BY ConcatIndex DEF One
  <2> QED
    BY <2>1, <2>2
<1>3. Seq(X) \subseteq S
  <2> HIDE DEF S
  <2> QED BY <1>1, <1>2, RowInduction
<1> QED
  BY <1>3

LEMMA CountConcat ==
    ASSUME NEW X, NEW p, NEW s \in Seq(X), NEW t \in Seq(X)
    PROVE  Count(X, p, s \o t) = Count(X, p, s) + Count(X, p, t)
<1> DEFINE S == {u \in Seq(X) : Count(X, p, s \o u) = Count(X, p, s) + Count(X, p, u)}
<1>0. Count(X, p, s) \in Nat
  BY CountNat
<1>1. <<>> \in S
  BY <1>0, CountNone, ConcatRows
<1>2. ASSUME NEW u \in Seq(X), NEW q \in X, u \in S PROVE u \o <<q>> \in S
  <2>1. <<q>> \in Seq(X) /\ s \o u \in Seq(X) /\ u \o <<q>> \in Seq(X)
    BY ConcatIndex, ConcatRows
  <2>2. s \o (u \o <<q>>) = (s \o u) \o <<q>>
    BY <2>1, ConcatRows
  <2>3. \A v \in Seq(X) : Count(X, p, v) \in Nat /\ Count(X, p, v \o <<q>>) = Count(X, p, v) + One(p, q)
    BY CountOneMore
  <2>4. Count(X, p, (s \o u) \o <<q>>) = Count(X, p, s \o u) + One(p, q)
    BY <2>1, <2>3
  <2>5. Count(X, p, u \o <<q>>) = Count(X, p, u) + One(p, q) /\ Count(X, p, u) \in Nat
    BY <2>3
  <2>6. One(p, q) \in Nat
    BY DEF One
  <2>7. Count(X, p, s \o u) = Count(X, p, s) + Count(X, p, u)
    BY <1>2
  <2>8. Count(X, p, s \o (u \o <<q>>)) = Count(X, p, s) + Count(X, p, u \o <<q>>)
    <3>1. \A a, b, c \in Nat : (a + b) + c = a + (b + c)
      OBVIOUS
    <3>2. Count(X, p, s \o (u \o <<q>>)) = (Count(X, p, s) + Count(X, p, u)) + One(p, q)
      BY <2>2, <2>4, <2>7
    <3> QED
      BY <1>0, <2>5, <2>6, <3>1, <3>2
  <2> QED
    BY <2>1, <2>8
<1>3. Seq(X) \subseteq S
  <2> HIDE DEF S
  <2> QED BY <1>1, <1>2, RowInduction
<1> QED
  BY <1>3

\* A measure of rows: a number for each piece, the same for pieces that unification
\* takes for one, added up.
Measure(w, X) ==
    /\ w \in [Seq(X) -> Nat] /\ w[<<>>] = 0
    /\ \A s, t \in Seq(X) : w[s \o t] = w[s] + w[t]
    /\ \A p, q \in X : SamePiece(p, q) => w[<<p>>] = w[<<q>>]

LEMMA ZeroMeasure ==
    ASSUME NEW X, NEW w, Measure(w, X), NEW row \in Seq(X), \A p \in ToSet(row) : w[<<p>>] = 0
    PROVE  w[row] = 0
<1> DEFINE Y == ToSet(row)
           S == {s \in Seq(Y) : w[s] = 0}
<1>1. Y \subseteq X /\ row \in Seq(Y)
  BY Members
<1>2. \A s \in Seq(Y) : s \in Seq(X)
  BY <1>1, SeqMonotonic
<1>3. \A p \in Y : w[<<p>>] = 0
  OBVIOUS
<1> HIDE DEF Y
<1>4. <<>> \in S
  BY DEF Measure
<1>5. ASSUME NEW s \in Seq(Y), NEW p \in Y, s \in S PROVE s \o <<p>> \in S
  <2>1. s \o <<p>> \in Seq(Y) /\ <<p>> \in Seq(X) /\ s \in Seq(X)
    BY <1>1, <1>2, ConcatIndex
  <2>2. w[s \o <<p>>] = w[s] + w[<<p>>]
    BY <2>1 DEF Measure
  <2> QED
    BY <1>3, <1>5, <2>1, <2>2
<1>6. Seq(Y) \subseteq S
  <2> HIDE DEF S
  <2> QED BY <1>4, <1>5, RowInduction
<1> QED
  BY <1>1, <1>6

LEMMA OfKindOneMore ==
    ASSUME NEW X, NEW row \in Seq(X), NEW p \in X, NEW kinds
    PROVE  OfKind(row \o <<p>>, kinds) = IF p[1] \in kinds THEN OfKind(row, kinds) \o <<p>> ELSE OfKind(row, kinds)
<1> DEFINE G == [q \in X |-> IF q[1] \in kinds THEN <<q>> ELSE <<>>]
<1>1. G \in [X -> Seq(X)] /\ G[p] = IF p[1] \in kinds THEN <<p>> ELSE <<>>
  OBVIOUS
<1>2. ASSUME NEW s \in Seq(X) PROVE OfKind(s, kinds) = Each(G, s)
  <2>1. DOMAIN s = 1..Len(s) /\ \A i \in DOMAIN s : s[i] \in X
    BY LenProperties, ElementOfSeq
  <2>2. [i \in DOMAIN s |-> IF s[i][1] \in kinds THEN <<s[i]>> ELSE <<>>] = [i \in DOMAIN s |-> G[s[i]]]
    BY <2>1
  <2> HIDE DEF G
  <2> QED
    BY <2>2 DEF OfKind, Each
<1> HIDE DEF G
<1>3. Each(G, row \o <<p>>) = Each(G, row) \o G[p] /\ Each(G, row) \in Seq(X)
  <2>1. Each(G, row \o <<p>>) = Each(G, row) \o G[p] /\ Each(G, row) \in Seq(X) /\ G[p] \in Seq(X)
    BY <1>1, EachOneMore
  <2> QED
    BY <2>1
<1>4. row \o <<p>> \in Seq(X)
  BY ConcatIndex
<1>5. OfKind(row \o <<p>>, kinds) = OfKind(row, kinds) \o G[p]
  BY <1>2, <1>3, <1>4
<1>6. OfKind(row, kinds) \in Seq(X)
  BY <1>2, <1>3
<1>7. OfKind(row, kinds) \o <<>> = OfKind(row, kinds)
  BY <1>6, ConcatRows
<1> QED
  BY <1>1, <1>5, <1>7

\* A row weighs what its fields, tails and rigid rows weigh.
LEMMA KindMeasure ==
    ASSUME NEW X, \A p \in X : p[1] \in {"field", "rigid", "unif"}, NEW w, Measure(w, X), NEW row \in Seq(X)
    PROVE  w[row] = w[Fields(row)] + w[Tails(row)] + w[Others(row)]
<1> DEFINE Sum(s) == w[s] = w[OfKind(s, {"field"})] + w[OfKind(s, {"unif"})] + w[OfKind(s, {"rigid"})]
           S == {s \in Seq(X) : Sum(s)}
<1>1. ASSUME NEW s \in Seq(X), NEW kinds PROVE OfKind(s, kinds) \in Seq(X) /\ w[OfKind(s, kinds)] \in Nat
  BY OfKindMembers DEF Measure
<1>2. <<>> \in S
  <2>1. ASSUME NEW kinds PROVE OfKind(<<>>, kinds) = <<>>
    <3>1. OfKind(<<>>, kinds) = FlattenSeq(<<>>)
      BY DEF OfKind
    <3> QED
      BY <3>1, FlattenNone
  <2>2. w[<<>>] = 0 /\ <<>> \in Seq(X)
    BY DEF Measure
  <2>3. Sum(<<>>)
    BY <2>1, <2>2
  <2> QED
    BY <2>2, <2>3
<1>3. ASSUME NEW s \in Seq(X), NEW p \in X, s \in S PROVE s \o <<p>> \in S
  <2>1. s \o <<p>> \in Seq(X) /\ <<p>> \in Seq(X)
    BY ConcatIndex
  <2>2. \A t \in Seq(X) : w[t \o <<p>>] = w[t] + w[<<p>>] /\ w[t] \in Nat /\ w[<<p>>] \in Nat
    BY <2>1 DEF Measure
  <2>3. \A kinds : w[OfKind(s \o <<p>>, kinds)] =
                       IF p[1] \in kinds THEN w[OfKind(s, kinds)] + w[<<p>>] ELSE w[OfKind(s, kinds)]
    <3> TAKE kinds
    <3>1. OfKind(s \o <<p>>, kinds) = IF p[1] \in kinds THEN OfKind(s, kinds) \o <<p>> ELSE OfKind(s, kinds)
      BY OfKindOneMore
    <3>2. w[OfKind(s, kinds) \o <<p>>] = w[OfKind(s, kinds)] + w[<<p>>]
      BY <1>1, <2>2
    <3> QED
      BY <3>1, <3>2
  <2> DEFINE f == w[OfKind(s, {"field"})]
             u == w[OfKind(s, {"unif"})]
             o == w[OfKind(s, {"rigid"})]
             v == w[<<p>>]
  <2>4. f \in Nat /\ u \in Nat /\ o \in Nat /\ v \in Nat
    BY <1>1, <2>2
  <2>5. w[s \o <<p>>] = w[s] + v /\ w[s] = f + u + o
    BY <1>3, <2>2
  <2>6. /\ w[OfKind(s \o <<p>>, {"field"})] = IF p[1] \in {"field"} THEN f + v ELSE f
        /\ w[OfKind(s \o <<p>>, {"unif"})] = IF p[1] \in {"unif"} THEN u + v ELSE u
        /\ w[OfKind(s \o <<p>>, {"rigid"})] = IF p[1] \in {"rigid"} THEN o + v ELSE o
    BY <2>3
  <2>7. p[1] = "field" \/ p[1] = "unif" \/ p[1] = "rigid"
    OBVIOUS
  <2> HIDE DEF f, u, o, v
  <2>8. \A a, b, c, d \in Nat : (a + d) + b + c = (a + b + c) + d /\ a + (b + d) + c = (a + b + c) + d
                                /\ a + b + (c + d) = (a + b + c) + d
    OBVIOUS
  <2>9. Sum(s \o <<p>>)
    <3>1. CASE p[1] = "field"
      BY <2>4, <2>5, <2>6, <2>8, <3>1
    <3>2. CASE p[1] = "unif"
      BY <2>4, <2>5, <2>6, <2>8, <3>2
    <3>3. CASE p[1] = "rigid"
      BY <2>4, <2>5, <2>6, <2>8, <3>3
    <3> QED
      BY <2>7, <3>1, <3>2, <3>3
  <2> QED
    BY <2>1, <2>9
<1>4. Seq(X) \subseteq S
  <2> HIDE DEF S
  <2> QED BY <1>2, <1>3, RowInduction
<1> QED
  BY <1>4 DEF Fields, Tails, Others

LEMMA AroundPiece ==
    ASSUME NEW X, NEW s \in Seq(X), NEW i \in 1..Len(s), NEW w, Measure(w, X)
    PROVE  RemoveAt(s, i) \in Seq(X) /\ s[i] \in X /\ w[s] = w[RemoveAt(s, i)] + w[<<s[i]>>]
<1> DEFINE a == SubSeq(s, 1, i - 1)
           b == SubSeq(s, i + 1, Len(s))
           p == s[i]
<1>1. Len(s) \in Nat /\ (\A j \in 1..Len(s) : s[j] \in X) /\ i \in Nat /\ i >= 1 /\ i <= Len(s)
  BY LenProperties, ElementOfSeq
<1>2. a \in Seq(X) /\ b \in Seq(X)
  <2>1. (\A j \in 1..i - 1 : s[j] \in X) /\ (\A j \in i + 1..Len(s) : s[j] \in X)
    BY <1>1
  <2>2. 1 \in Int /\ i - 1 \in Int /\ i + 1 \in Int /\ Len(s) \in Int
    BY <1>1
  <2>3. a \in Seq(X)
    BY <2>1, <2>2, SubSeqProperties
  <2> QED
    BY <2>1, <2>2, <2>3, SubSeqProperties
<1>3. p \in X /\ <<p>> \in Seq(X)
  BY <1>1
<1>4. SubSeq(s, 1, i) = a \o <<p>>
  <2>1. 1 \in 1..Len(s) /\ i \in 1..Len(s)
    BY <1>1
  <2> QED
    BY <2>1, SubSeqRecursiveSecond
<1>5. SubSeq(s, 1, i) \o b = s
  <2>1. 1 \in 1..Len(s) + 1 /\ i \in (1 - 1)..Len(s) /\ Len(s) \in i..Len(s)
    BY <1>1
  <2>2. SubSeq(s, 1, i) \o b = SubSeq(s, 1, Len(s))
    BY <2>1, ConcatAdjacentSubSeq
  <2> QED
    BY <2>2, SubSeqFull
<1>6. RemoveAt(s, i) = a \o b
  BY DEF RemoveAt
<1> HIDE DEF a, b, p
<1>7. (a \o <<p>>) \o b = s
  BY <1>4, <1>5
<1>8. a \o <<p>> \in Seq(X) /\ a \o b \in Seq(X)
  BY <1>2, <1>3, ConcatProperties
<1>9. w[s] = w[a \o <<p>>] + w[b] /\ w[a \o <<p>>] = w[a] + w[<<p>>] /\ w[a \o b] = w[a] + w[b]
  <2>1. \A u, v \in Seq(X) : w[u \o v] = w[u] + w[v]
    BY DEF Measure
  <2> QED
    BY <1>2, <1>3, <1>7, <1>8, <2>1
<1>10. w[a] \in Nat /\ w[b] \in Nat /\ w[<<p>>] \in Nat
  BY <1>2, <1>3 DEF Measure
<1>11. w[s] = w[RemoveAt(s, i)] + w[<<p>>]
  BY <1>6, <1>9, <1>10
<1> QED
  BY <1>3, <1>6, <1>8, <1>11 DEF p

\* What a step takes from both rows weighs the same.
LEMMA EatMeasure1 ==
    ASSUME NEW X, NEW w, Measure(w, X), NEW left \in Seq(X), NEW right \in Seq(X),
           NEW rest \in Remains(left, right), NEW p \in ToSet(left)
    PROVE  LET eaten == Eat(rest, p)
           IN  (w[eaten.right] + w[<<p>>]) + w[rest.left] = w[eaten.left] + w[rest.right]
<1>1. p \in X /\ <<p>> \in Seq(X) /\ ToSet(left) \subseteq X /\ ToSet(right) \subseteq X
  BY Members
<1>2. rest.left \in Seq(X) /\ rest.right \in Seq(X)
  <2>1. rest.left \in Seq(ToSet(left)) /\ rest.right \in Seq(ToSet(right))
    BY DEF Remains
  <2>2. rest.left \in Seq(X)
    BY <1>1, <2>1, SeqMonotonic
  <2> QED
    BY <1>1, <2>1, <2>2, SeqMonotonic
<1>3. \A u \in Seq(X) : w[u] \in Nat
  BY DEF Measure
<1>4. CASE Matches(p, rest.right) = {}
  <2>1. Eat(rest, p) = [left |-> Append(rest.left, p), right |-> rest.right]
    BY <1>4 DEF Eat, Remains
  <2>2. Append(rest.left, p) = rest.left \o <<p>>
    BY <1>1, <1>2, AppendIsConcat
  <2>3. w[rest.left \o <<p>>] = w[rest.left] + w[<<p>>]
    BY <1>1, <1>2 DEF Measure
  <2>4. w[rest.left] \in Nat /\ w[<<p>>] \in Nat /\ w[rest.right] \in Nat
    BY <1>1, <1>2, <1>3
  <2> QED
    BY <2>1, <2>2, <2>3, <2>4
<1>5. CASE Matches(p, rest.right) # {}
  <2> DEFINE i == First(Matches(p, rest.right))
  <2>1. DOMAIN rest.right = 1..Len(rest.right) /\ Len(rest.right) \in Nat
    BY <1>2, LenProperties
  <2>2. Matches(p, rest.right) \subseteq Nat
    BY <2>1 DEF Matches
  <2>3. i \in Matches(p, rest.right)
    BY <1>5, <2>2, FirstMember
  <2>4. Eat(rest, p) = [left |-> rest.left, right |-> RemoveAt(rest.right, i)]
    BY <1>5 DEF Eat, Remains
  <2> HIDE DEF i
  <2>5. i \in 1..Len(rest.right) /\ SamePiece(p, rest.right[i])
    BY <2>1, <2>3 DEF Matches
  <2> DEFINE v == RemoveAt(rest.right, i)
  <2>6. v \in Seq(X) /\ rest.right[i] \in X /\ w[rest.right] = w[v] + w[<<rest.right[i]>>]
    BY <1>2, <2>5, AroundPiece
  <2>7. w[<<p>>] = w[<<rest.right[i]>>]
    BY <1>1, <2>5, <2>6 DEF Measure
  <2>8. w[rest.left] \in Nat /\ w[<<p>>] \in Nat /\ w[v] \in Nat
    BY <1>1, <1>2, <1>3, <2>6
  <2> HIDE DEF v
  <2> QED
    BY <2>4, <2>6, <2>7, <2>8 DEF v
<1> QED
  BY <1>4, <1>5

LEMMA EatMeasure ==
    ASSUME NEW X, NEW w, Measure(w, X), NEW left \in Seq(X), NEW right \in Seq(X)
    PROVE  LET rest == EatMatching(left, right)
           IN  w[left] + w[rest.right] = w[rest.left] + w[right]
<1>1. PICK g : EatChain(left, right, g)
  BY EatSteps
<1> DEFINE n == Len(left)
           Part(j) == SubSeq(left, 1, j)
           G == {j \in 0..n : w[Part(j)] + w[g[j].right] = w[g[j].left] + w[right]}
<1>2. n \in Nat /\ \A j \in 1..n : left[j] \in X /\ left[j] \in ToSet(left)
  BY LenProperties, ElementOfSeq DEF ToSet
<1>3. /\ g[0] = [left |-> <<>>, right |-> right]
      /\ \A j \in 1..n : g[j] = Eat(g[j - 1], left[j])
      /\ \A j \in 0..n : g[j] \in Remains(left, right)
      /\ EatMatching(left, right) = g[n]
  BY <1>1 DEF EatChain
<1>4. \A rest \in Remains(left, right) : w[rest.left] \in Nat /\ w[rest.right] \in Nat
  <2> TAKE rest \in Remains(left, right)
  <2>1. rest.left \in Seq(ToSet(left)) /\ rest.right \in Seq(ToSet(right))
    BY DEF Remains
  <2>2. ToSet(left) \subseteq X /\ ToSet(right) \subseteq X
    BY Members
  <2>3. rest.left \in Seq(X)
    BY <2>1, <2>2, SeqMonotonic
  <2>4. rest.right \in Seq(X)
    BY <2>1, <2>2, SeqMonotonic
  <2> QED
    BY <2>3, <2>4 DEF Measure
<1>5. w[right] \in Nat
  BY DEF Measure
<1>6. 0 \in G
  <2>1. Part(0) = <<>>
    BY SubSeqEmpty
  <2>2. w[Part(0)] = 0 /\ w[g[0].right] = w[right] /\ w[g[0].left] = 0
    <3>1. w[<<>>] = 0
      BY DEF Measure
    <3>2. g[0].right = right /\ g[0].left = <<>>
      BY <1>3
    <3> QED
      BY <2>1, <3>1, <3>2
  <2> HIDE DEF Part
  <2> QED
    BY <1>2, <1>5, <2>2
<1>7. ASSUME NEW m \in 0..n, m < n, m \in G PROVE m + 1 \in G
  <2>1. m + 1 \in 1..n /\ 1 \in 1..n /\ (m + 1) - 1 = m /\ m + 1 \in 0..n /\ m + 1 \in 1..m + 1
    BY <1>2, <1>7
  <2> DEFINE p == left[m + 1]
             old == g[m]
             new == g[m + 1]
  <2>2. new = Eat(old, p) /\ p \in ToSet(left) /\ p \in X /\ old \in Remains(left, right) /\ new \in Remains(left, right)
    BY <1>2, <1>3, <2>1
  <2>3. Part(m + 1) = Part(m) \o <<p>>
    BY <2>1, SubSeqRecursiveSecond
  <2>4. Part(m) \in Seq(X)
    <3>1. \A j \in 1..m : left[j] \in X
      BY <1>2, <1>7
    <3> QED
      BY <3>1, <1>7, SubSeqProperties
  <2>5. w[Part(m)] + w[old.right] = w[old.left] + w[right]
    BY <1>7
  <2> HIDE DEF Part, p, old, new
  <2>6. (w[new.right] + w[<<p>>]) + w[old.left] = w[new.left] + w[old.right]
    BY <2>2, EatMeasure1
  <2>7. <<p>> \in Seq(X)
    BY <2>2
  <2>8. w[Part(m + 1)] = w[Part(m)] + w[<<p>>] /\ w[Part(m)] \in Nat /\ w[<<p>>] \in Nat
    BY <2>3, <2>4, <2>7 DEF Measure
  <2>9. w[old.left] \in Nat /\ w[old.right] \in Nat /\ w[new.left] \in Nat /\ w[new.right] \in Nat
    BY <1>4, <2>2
  <2>10. PICK a, b, c, d, e, f, r \in Nat :
           /\ a = w[Part(m)] /\ b = w[old.right] /\ c = w[old.left] /\ d = w[<<p>>]
           /\ e = w[new.left] /\ f = w[new.right] /\ r = w[right]
    BY <1>5, <2>8, <2>9
  <2>11. w[Part(m + 1)] + w[new.right] = w[new.left] + w[right]
    <3>1. a + b = c + r /\ (f + d) + c = e + b
      BY <2>5, <2>6, <2>10
    <3>2. (a + d) + f = e + r
      BY <3>1
    <3> QED
      BY <2>8, <2>10, <3>2
  <2> QED
    BY <2>1, <2>11 DEF new
<1>8. 0..n \subseteq G
  <2> HIDE DEF G, n
  <2> QED BY <1>2, <1>6, <1>7, UpTo
<1>9. n \in G
  BY <1>2, <1>8
<1>10. Part(n) = left
  BY SubSeqFull
<1> HIDE DEF Part
<1> QED
  BY <1>3, <1>9, <1>10

-----------------------------------------------------------------------------
(* Measures that what is known leaves                                      *)

\* A measure for which each solved cell weighs what it was solved to.
Respects(w, k, X) == Measure(w, X) /\ \A p \in X : IsSolved(k, p) => w[<<p>>] = w[k[p[2]]]

LEMMA RespectsExtended ==
    ASSUME NEW X, NEW w, NEW k2, Respects(w, k2, X), NEW k, Extends(k2, k)
    PROVE  Respects(w, k, X)
BY DEF Respects, Extends, IsSolved

LEMMA ExpandMeasure ==
    ASSUME NEW X, NEW w, NEW k, Respects(w, k, X), Over(k, X), NEW row \in Seq(X)
    PROVE  w[Expand(k, row)] = w[row]
<1> DEFINE S == {s \in Seq(X) : Expand(k, s) \in Seq(X) /\ w[Expand(k, s)] = w[s]}
<1>1. Measure(w, X)
  BY DEF Respects
<1>2. <<>> \in S
  <2>1. <<>> \in Seq(X)
    OBVIOUS
  <2> QED
    BY <2>1, ExpandNone
<1>3. \A s \in Seq(X), p \in X : s \in S => s \o <<p>> \in S
  <2> TAKE s \in Seq(X), p \in X
  <2> HAVE s \in S
  <2>1. s \o <<p>> \in Seq(X) /\ <<p>> \in Seq(X)
    BY ConcatIndex
  <2>2. Expand(k, s \o <<p>>) = Expand(k, s) \o Replaced(k, p) /\ Replaced(k, p) \in Seq(X)
    <3>1. Stepwise(k, X)
      BY ExpandStepwise
    <3> QED
      BY <3>1 DEF Stepwise
  <2>3. w[Replaced(k, p)] = w[<<p>>]
    BY DEF Replaced, Respects
  <2>4. Expand(k, s) \in Seq(X) /\ w[Expand(k, s)] = w[s]
    OBVIOUS
  <2>5. w[Expand(k, s) \o Replaced(k, p)] = w[Expand(k, s)] + w[Replaced(k, p)]
        /\ w[s \o <<p>>] = w[s] + w[<<p>>]
    BY <1>1, <2>1, <2>2, <2>4 DEF Measure
  <2>6. Expand(k, s) \o Replaced(k, p) \in Seq(X)
    BY <2>2, <2>4, ConcatProperties
  <2> QED
    BY <2>1, <2>2, <2>3, <2>4, <2>5, <2>6
<1> HIDE DEF S
<1>4. Seq(X) \subseteq S
  BY <1>2, <1>3, RowInduction
<1> QED
  BY <1>4 DEF S

LEMMA NormalMeasure ==
    ASSUME NEW X, NEW w, NEW k, Respects(w, k, X), Sound(k, X), NEW row \in Seq(X)
    PROVE  Normal(k, row) \in Seq(X) /\ w[Normal(k, row)] = w[row]
<1> DEFINE n == Cardinality(DOMAIN k)
<1>1. PICK h : Chain(k, X, row, h)
  BY Chained
<1> DEFINE G == {j \in 0..n : w[h[j]] = w[row]}
<1>2. n \in Nat /\ Over(k, X)
  BY SoundDepth
<1>3. h[0] = row /\ Normal(k, row) = h[n]
  BY <1>1 DEF Chain
<1>4. 0 \in G
  BY <1>2, <1>3
<1>5. ASSUME NEW m \in 0..n, m < n, m \in G PROVE m + 1 \in G
  <2>1. h[m] \in Seq(X) /\ h[m + 1] = Expand(k, h[m]) /\ m + 1 \in 0..n
    BY <1>1, <1>5, ChainSteps
  <2>2. w[Expand(k, h[m])] = w[h[m]]
    BY <1>2, <2>1, ExpandMeasure
  <2> QED
    BY <1>5, <2>1, <2>2
<1>6. 0..n \subseteq G
  <2> HIDE DEF G, n
  <2> QED BY <1>2, <1>4, <1>5, UpTo
<1>7. n \in G
  BY <1>2, <1>6
<1> QED
  BY <1>3, <1>7, Chained

LEMMA SameTwice ==
    ASSUME NEW p, NEW q, NEW r, SamePiece(q, r)
    PROVE  SamePiece(p, q) <=> SamePiece(p, r)
BY DEF SamePiece

\* How often each row will have a piece, once what is known is put into it.
Occurrences(k, X, p) == [s \in Seq(X) |-> Count(X, p, Normal(k, s))]

LEMMA OccurrencesRespect ==
    ASSUME NEW X, NEW k, Sound(k, X), NEW p
    PROVE  /\ Respects(Occurrences(k, X, p), k, X)
           /\ \A q \in X : ~IsSolved(k, q) => Occurrences(k, X, p)[<<q>>] = One(p, q)
<1> DEFINE w == Occurrences(k, X, p)
<1>1. \A s \in Seq(X) : Normal(k, s) \in Seq(X) /\ w[s] = Count(X, p, Normal(k, s)) /\ w[s] \in Nat
  <2> TAKE s \in Seq(X)
  <2>1. Normal(k, s) \in Seq(X)
    BY Chained
  <2>2. Count(X, p, Normal(k, s)) \in Nat
    BY <2>1, CountNat
  <2> QED
    BY <2>1, <2>2 DEF Occurrences
<1>2. w \in [Seq(X) -> Nat]
  BY <1>1 DEF Occurrences
<1>3. <<>> \in Seq(X) /\ Clean(k, <<>>)
  BY DEF Clean, ToSet
<1>4. Normal(k, <<>>) = <<>>
  BY <1>3, NormalOfClean
<1>5. w[<<>>] = 0
  BY <1>1, <1>3, <1>4, CountNone
<1>6. \A q \in X : ~IsSolved(k, q) => w[<<q>>] = One(p, q)
  <2> TAKE q \in X
  <2> HAVE ~IsSolved(k, q)
  <2>1. <<q>> \in Seq(X) /\ Clean(k, <<q>>)
    BY OnePiece
  <2>2. Normal(k, <<q>>) = <<q>>
    BY <2>1, NormalOfClean
  <2>3. w[<<q>>] = Count(X, p, <<q>>)
    BY <1>1, <2>1, <2>2
  <2>4. Count(X, p, <<>> \o <<q>>) = Count(X, p, <<>>) + One(p, q)
    BY <1>3, CountOneMore
  <2>5. <<>> \o <<q>> = <<q>>
    BY <2>1, ConcatEmptySeq
  <2>6. One(p, q) \in Nat
    BY DEF One
  <2> QED
    BY <2>3, <2>4, <2>5, <2>6, CountNone
<1>7. \A s, t \in Seq(X) : w[s \o t] = w[s] + w[t]
  <2> TAKE s, t \in Seq(X)
  <2>1. s \o t \in Seq(X)
    BY ConcatProperties
  <2>2. Normal(k, s \o t) = Normal(k, s) \o Normal(k, t)
    BY NormalConcats
  <2>3. \A u, v \in Seq(X) : Count(X, p, u \o v) = Count(X, p, u) + Count(X, p, v)
    BY CountConcat
  <2>4. Count(X, p, Normal(k, s) \o Normal(k, t)) = Count(X, p, Normal(k, s)) + Count(X, p, Normal(k, t))
    BY <1>1, <2>3
  <2> QED
    BY <1>1, <2>1, <2>2, <2>4
<1>8. \A q, r \in X : SamePiece(q, r) => w[<<q>>] = w[<<r>>]
  <2> TAKE q, r \in X
  <2> HAVE SamePiece(q, r)
  <2>1. CASE q = r
    BY <2>1
  <2>2. CASE q # r
    <3>1. q[1] = "field" /\ r[1] = "field"
      BY <2>2 DEF SamePiece
    <3>2. ~IsSolved(k, q) /\ ~IsSolved(k, r)
      BY <3>1 DEF IsSolved
    <3>3. One(p, q) = One(p, r)
      BY SameTwice DEF One
    <3> HIDE DEF w
    <3> QED
      BY <1>6, <3>2, <3>3
  <2> QED
    BY <2>1, <2>2
<1>9. \A q \in X : IsSolved(k, q) => w[<<q>>] = w[k[q[2]]]
  <2> TAKE q \in X
  <2> HAVE IsSolved(k, q)
  <2>1. k[q[2]] \in Seq(X) /\ Normal(k, <<q>>) = Normal(k, k[q[2]])
    BY NormalOfSolved
  <2>2. <<q>> \in Seq(X)
    BY OnePiece
  <2> QED
    BY <1>1, <2>1, <2>2
<1> HIDE DEF w
<1>10. Respects(w, k, X)
  BY <1>2, <1>5, <1>7, <1>8, <1>9 DEF Respects, Measure
<1> QED
  BY <1>6, <1>10 DEF w

\* No piece of two rows would be left over: they weigh the same for every measure that
\* what is known leaves.
Balanced(k, X, left, right) == \A w : Respects(w, k, X) => w[left] = w[right]

\* What unify_rows leaves of two rows, when it leaves nothing.
Eaten(k, left, right) == EatMatching(Normal(k, left), Normal(k, right)) = [left |-> <<>>, right |-> <<>>]

LEMMA RestBalanced ==
    ASSUME NEW X, NEW w, NEW k, Respects(w, k, X), Sound(k, X), NEW left \in Seq(X), NEW right \in Seq(X)
    PROVE  LET rest == EatMatching(Normal(k, left), Normal(k, right))
           IN  /\ rest.left \in Seq(X) /\ rest.right \in Seq(X)
               /\ w[rest.left] = w[rest.right] <=> w[left] = w[right]
<1> DEFINE l == Normal(k, left)
           r == Normal(k, right)
           rest == EatMatching(l, r)
<1>1. l \in Seq(X) /\ r \in Seq(X) /\ w[l] = w[left] /\ w[r] = w[right]
  BY NormalMeasure
<1> HIDE DEF l, r
<1>2. Measure(w, X)
  BY DEF Respects
<1>3. w[l] + w[rest.right] = w[rest.left] + w[r]
  BY <1>1, <1>2, EatMeasure
<1>4. rest \in Remains(l, r)
  BY <1>1, EatMatchingTyped
<1>5. rest.left \in Seq(X) /\ rest.right \in Seq(X)
  <2>1. ToSet(l) \subseteq X /\ ToSet(r) \subseteq X
    BY <1>1, Members
  <2>2. rest.left \in Seq(ToSet(l)) /\ rest.right \in Seq(ToSet(r))
    BY <1>4 DEF Remains
  <2>3. rest.left \in Seq(X)
    BY <2>1, <2>2, SeqMonotonic
  <2> QED
    BY <2>1, <2>2, <2>3, SeqMonotonic
<1>6. PICK a, b, c, d \in Nat : a = w[l] /\ b = w[rest.right] /\ c = w[rest.left] /\ d = w[r]
  BY <1>1, <1>2, <1>5 DEF Measure
<1>7. a + b = c + d
  BY <1>3, <1>6
<1>8. c = b <=> a = d
  BY <1>7
<1>9. w[rest.left] = w[rest.right] <=> w[left] = w[right]
  BY <1>1, <1>6, <1>8
<1> HIDE DEF rest
<1> QED
  BY <1>5, <1>9 DEF rest, l, r

LEMMA EatenBalanced ==
    ASSUME NEW X, NEW k, Sound(k, X), NEW left \in Seq(X), NEW right \in Seq(X), Eaten(k, left, right)
    PROVE  Balanced(k, X, left, right)
<1> SUFFICES ASSUME NEW w, Respects(w, k, X) PROVE w[left] = w[right]
  BY DEF Balanced
<1> QED
  BY RestBalanced DEF Eaten

LEMMA BalancedExtended ==
    ASSUME NEW X, NEW k, NEW k2, Extends(k2, k), NEW left, NEW right, Balanced(k, X, left, right)
    PROVE  Balanced(k2, X, left, right)
BY RespectsExtended DEF Balanced

\* A piece that a row has weighs, and one like it is in each row that weighs as much.
LEMMA SomePiece ==
    ASSUME NEW X, NEW k, Sound(k, X), NEW row \in Seq(X), Clean(k, row), NEW p
    PROVE  LET w == Occurrences(k, X, p)
           IN  /\ \A q \in ToSet(row) : w[<<q>>] = One(p, q)
               /\ w[row] # 0 => \E q \in ToSet(row) : SamePiece(p, q)
<1> DEFINE w == Occurrences(k, X, p)
<1>1. Respects(w, k, X) /\ \A q \in X : ~IsSolved(k, q) => w[<<q>>] = One(p, q)
  BY OccurrencesRespect
<1> HIDE DEF w
<1>2. \A q \in ToSet(row) : w[<<q>>] = One(p, q)
  BY <1>1, Members DEF Clean
<1>3. ASSUME \A q \in ToSet(row) : ~SamePiece(p, q) PROVE w[row] = 0
  <2>1. \A q \in ToSet(row) : w[<<q>>] = 0
    BY <1>2, <1>3 DEF One
  <2> QED
    BY <1>1, <2>1, ZeroMeasure DEF Respects
<1> QED
  BY <1>2, <1>3 DEF w

LEMMA FirstWeighs ==
    ASSUME NEW X, NEW k, Sound(k, X), NEW row \in Seq(X), Clean(k, row), row # <<>>
    PROVE  row[1] \in ToSet(row) /\ Occurrences(k, X, row[1])[row] # 0
<1> DEFINE p == row[1]
           w == Occurrences(k, X, p)
           rest == SubSeq(row, 2, Len(row))
<1>1. p \in ToSet(row) /\ rest \in Seq(X)
  BY FirstOf
<1>2. row = <<p>> \o rest
  <2>1. p = Head(row) /\ rest = Tail(row)
    OBVIOUS
  <2> QED
    BY <2>1, HeadTailProperties, ConcatProperties
<1>3. p \in X /\ <<p>> \in Seq(X)
  BY <1>1, Members
<1>4. w[<<p>>] = One(p, p) /\ Respects(w, k, X)
  BY <1>1, SomePiece, OccurrencesRespect
<1>5. One(p, p) = 1
  BY DEF One, SamePiece
<1> HIDE DEF p, w, rest
<1>6. w[<<p>> \o rest] = w[<<p>>] + w[rest] /\ w[rest] \in Nat
  BY <1>1, <1>3, <1>4 DEF Respects, Measure
<1>7. w[row] # 0
  BY <1>2, <1>4, <1>5, <1>6
<1> QED
  BY <1>1, <1>7 DEF p, w

LEMMA BalancedEaten ==
    ASSUME NEW X, NEW k, Sound(k, X), NEW left \in Seq(X), NEW right \in Seq(X), Balanced(k, X, left, right)
    PROVE  Eaten(k, left, right)
<1> DEFINE l == Normal(k, left)
           r == Normal(k, right)
           rest == EatMatching(l, r)
<1>1. l \in Seq(X) /\ r \in Seq(X) /\ Clean(k, l) /\ Clean(k, r)
  BY Chained
<1>2. \A w : Respects(w, k, X) => w[rest.left] = w[rest.right]
  BY RestBalanced DEF Balanced
<1> HIDE DEF l, r
<1>3. rest \in Remains(l, r) /\ NoMatch(rest)
  BY <1>1, EatMatchingTyped
<1> DEFINE s == rest.left
           t == rest.right
<1>4. /\ s \in Seq(ToSet(l)) /\ t \in Seq(ToSet(r)) /\ rest = [left |-> s, right |-> t]
      /\ \A p \in ToSet(s), q \in ToSet(t) : ~SamePiece(p, q)
  BY <1>3 DEF Remains, NoMatch
<1> HIDE DEF s, t, rest
<1>5. s \in Seq(X) /\ t \in Seq(X) /\ Clean(k, s) /\ Clean(k, t)
  <2>1. ToSet(l) \subseteq X /\ ToSet(r) \subseteq X
    BY <1>1, Members
  <2>2. s \in Seq(X)
    BY <1>4, <2>1, SeqMonotonic
  <2>3. t \in Seq(X)
    BY <1>4, <2>1, SeqMonotonic
  <2>4. ToSet(s) \subseteq ToSet(l) /\ ToSet(t) \subseteq ToSet(r)
    BY <1>4, Members
  <2> QED
    BY <1>1, <2>2, <2>3, <2>4 DEF Clean
<1>6. s = <<>>
  <2> SUFFICES ASSUME s # <<>> PROVE FALSE
    OBVIOUS
  <2>1. s[1] \in ToSet(s) /\ Occurrences(k, X, s[1])[s] # 0
    BY <1>5, FirstWeighs
  <2>2. Occurrences(k, X, s[1])[s] = Occurrences(k, X, s[1])[t]
    BY <1>2, OccurrencesRespect DEF s, t
  <2>3. \E q \in ToSet(t) : SamePiece(s[1], q)
    BY <1>5, <2>1, <2>2, SomePiece
  <2> QED
    BY <1>4, <2>1, <2>3
<1>7. t = <<>>
  <2> SUFFICES ASSUME t # <<>> PROVE FALSE
    OBVIOUS
  <2>1. Occurrences(k, X, t[1])[t] # 0
    BY <1>5, FirstWeighs
  <2>2. Occurrences(k, X, t[1])[s] = Occurrences(k, X, t[1])[t]
    BY <1>2, OccurrencesRespect DEF s, t
  <2>3. \E q \in ToSet(s) : SamePiece(t[1], q)
    BY <1>5, <2>1, <2>2, SomePiece
  <2> QED
    BY <1>6, <2>3 DEF ToSet
<1> QED
  BY <1>4, <1>6, <1>7 DEF rest, l, r, Eaten

-----------------------------------------------------------------------------
(* What the rules equate                                                   *)

\* The rows of rules, weighed over the cells there are afterwards.
Weighed(w, k2, X, n) ==
    /\ Measure(w, X) /\ w[<<>>] = 0
    /\ \A row \in Seq(Pieces(n)) :
         /\ row \in Seq(X) /\ w[row] \in Nat
         /\ Fields(row) \in Seq(X) /\ Tails(row) \in Seq(X) /\ Others(row) \in Seq(X)
         /\ w[Fields(row)] \in Nat /\ w[Tails(row)] \in Nat /\ w[Others(row)] \in Nat
         /\ w[row] = w[Fields(row)] + w[Tails(row)] + w[Others(row)]
    /\ \A s, t \in Seq(X) : w[s \o t] = w[s] + w[t]
    /\ \A c \in DOMAIN k2 : c \in 1..n => w[<<Unif(c)>>] = w[k2[c]]

LEMMA Weighing ==
    ASSUME NEW n \in Nat, NEW w, NEW k2, Respects(w, k2, Pieces(n + 1))
    PROVE  Weighed(w, k2, Pieces(n + 1), n)
<1> DEFINE X == Pieces(n + 1)
<1>1. Pieces(n) \subseteq X /\ (\A c : Unif(c)[1] = "unif" /\ Unif(c)[2] = c)
  BY PieceFacts
<1>2. n + 1 \in Nat
  OBVIOUS
<1>3. \A p \in X : p[1] \in {"field", "rigid", "unif"}
  BY <1>2, PieceFacts
<1>4. \A c \in 1..n : Unif(c) \in X
  <2>1. \A c \in 1..n : Unif(c) \in Pieces(n)
    BY DEF Pieces
  <2> QED
    BY <1>1, <2>1
<1> HIDE DEF X
<1>5. Measure(w, X) /\ \A p \in X : IsSolved(k2, p) => w[<<p>>] = w[k2[p[2]]]
  BY DEF Respects, X
<1>6. (\A s \in Seq(X) : w[s] \in Nat) /\ w[<<>>] = 0 /\ (\A s, t \in Seq(X) : w[s \o t] = w[s] + w[t])
  BY <1>5 DEF Measure
<1>7. ASSUME NEW row \in Seq(Pieces(n))
      PROVE  /\ row \in Seq(X) /\ w[row] \in Nat
             /\ Fields(row) \in Seq(X) /\ Tails(row) \in Seq(X) /\ Others(row) \in Seq(X)
             /\ w[Fields(row)] \in Nat /\ w[Tails(row)] \in Nat /\ w[Others(row)] \in Nat
             /\ w[row] = w[Fields(row)] + w[Tails(row)] + w[Others(row)]
  <2>1. row \in Seq(X)
    BY <1>1, SeqMonotonic
  <2>2. Fields(row) \in Seq(X) /\ Tails(row) \in Seq(X) /\ Others(row) \in Seq(X)
    BY <2>1, SideMembers
  <2>3. w[row] = w[Fields(row)] + w[Tails(row)] + w[Others(row)]
    BY <1>3, <1>5, <2>1, KindMeasure
  <2> QED
    BY <1>6, <2>1, <2>2, <2>3
<1>8. \A c \in DOMAIN k2 : c \in 1..n => w[<<Unif(c)>>] = w[k2[c]]
  BY <1>1, <1>4, <1>5 DEF IsSolved
<1>9. Weighed(w, k2, X, n)
  BY <1>5, <1>6, <1>7, <1>8 DEF Weighed
<1> QED
  BY <1>9 DEF X

LEMMA HeadWeight ==
    ASSUME NEW X, NEW w, Measure(w, X), NEW row \in Seq(X), row # <<>>
    PROVE  /\ <<row[1]>> \in Seq(X) /\ SubSeq(row, 2, Len(row)) \in Seq(X)
           /\ w[row] = w[<<row[1]>>] + w[SubSeq(row, 2, Len(row))]
           /\ w[<<row[1]>>] \in Nat /\ w[SubSeq(row, 2, Len(row))] \in Nat
<1> DEFINE p == row[1]
           rest == SubSeq(row, 2, Len(row))
<1>1. p \in ToSet(row) /\ rest \in Seq(X)
  BY FirstOf
<1>2. row = <<p>> \o rest
  <2>1. p = Head(row) /\ rest = Tail(row)
    OBVIOUS
  <2> QED
    BY <2>1, HeadTailProperties, ConcatProperties
<1>3. p \in X /\ <<p>> \in Seq(X)
  BY <1>1, Members
<1> HIDE DEF p, rest
<1>4. w[<<p>> \o rest] = w[<<p>>] + w[rest] /\ w[<<p>>] \in Nat /\ w[rest] \in Nat
  BY <1>1, <1>3 DEF Measure
<1> QED
  BY <1>1, <1>2, <1>3, <1>4 DEF p, rest

LEMMA SingleRow == ASSUME NEW X, NEW row \in Seq(X), Len(row) = 1 PROVE row = <<row[1]>>
OBVIOUS

LEMMA TailsToEmptyWeight ==
    ASSUME NEW k, NEW side, NEW other, NEW n, Sides(k, side, other, n),
           NEW k2 \in TailsToEmpty(k, side, other), NEW w, Respects(w, k2, Pieces(n + 1))
    PROVE  w[side] = w[other]
<1>1. /\ n \in Nat /\ side \in Seq(Pieces(n))
      /\ \A p \in ToSet(side) : p[1] = "unif" => p = Unif(p[2]) /\ p[2] \in 1..n
  BY SidesFacts
<1>2. other = <<>> /\ Tails(side) = side /\ k2 = AllEmpty(k, side)
  BY DEF TailsToEmpty, OnlyTails
<1>3. \A p \in ToSet(side) : p[1] = "unif"
  BY <1>1, <1>2, OnlyTailsFacts
<1>4. \A p \in ToSet(side) : p[2] \in DOMAIN k2 /\ k2[p[2]] = <<>>
  BY <1>2 DEF AllEmpty
<1>5. side \in Seq(Pieces(n + 1)) /\ w[<<>>] = 0 /\ \A c \in DOMAIN k2 : c \in 1..n => w[<<Unif(c)>>] = w[k2[c]]
  <2>1. Weighed(w, k2, Pieces(n + 1), n)
    BY <1>1, Weighing
  <2> QED
    BY <1>1, <2>1 DEF Weighed
<1>6. \A p \in ToSet(side) : w[<<p>>] = 0
  BY <1>1, <1>3, <1>4, <1>5
<1>7. w[side] = 0
  BY <1>5, <1>6, ZeroMeasure DEF Respects
<1> QED
  BY <1>2, <1>5, <1>7

LEMMA RigidToFirstWeight ==
    ASSUME NEW k, NEW side, NEW other, NEW n, Sides(k, side, other, n), ~Repeats(side, other),
           NEW k2 \in RigidToFirst(k, side, other), NEW w, Respects(w, k2, Pieces(n + 1))
    PROVE  w[side] = w[other]
<1> DEFINE c == side[1][2]
           first == Solved(k, c, other)
           rest == SubSeq(side, 2, Len(side))
<1>1. /\ n \in Nat /\ side \in Seq(Pieces(n)) /\ other \in Seq(Pieces(n))
      /\ \A p \in ToSet(side) : p[1] = "unif" => p = Unif(p[2]) /\ p[2] \in 1..n
  BY SidesFacts
<1>2. /\ k2 = AllEmpty(first, rest) /\ Tails(side) = side /\ side # <<>>
      /\ \A i \in 2..Len(side) : side[i] # side[1]
  BY DEF RigidToFirst, OnlyTails, Repeats
<1>3. \A p \in ToSet(side) : p = Unif(p[2]) /\ p[2] \in 1..n
  BY <1>1, <1>2, OnlyTailsFacts
<1>4. side[1] \in ToSet(side) /\ rest \in Seq(Pieces(n)) /\ ToSet(rest) \subseteq ToSet(side)
  BY <1>1, <1>2, FirstOf
<1>5. \A p \in ToSet(rest) : p # side[1]
  <2>1. rest = Tail(side) /\ Len(side) \in Nat
    BY <1>1
  <2>2. \A i \in 1..Len(rest) : rest[i] = side[i + 1] /\ i + 1 \in 2..Len(side)
    BY <1>1, <1>2, <2>1
  <2>3. \A i \in DOMAIN rest : rest[i] # side[1]
    BY <1>2, <1>4, <2>2
  <2> HIDE DEF rest
  <2> QED
    BY <2>3 DEF ToSet
<1>6. \A p \in ToSet(rest) : p[2] # c
  BY <1>3, <1>4, <1>5
<1> HIDE DEF rest
<1>7. c \in DOMAIN k2 /\ k2[c] = other
  BY <1>2, <1>6 DEF AllEmpty, Solved
<1>8. \A p \in ToSet(rest) : p[2] \in DOMAIN k2 /\ k2[p[2]] = <<>>
  BY <1>2 DEF AllEmpty
<1>9. /\ side \in Seq(Pieces(n + 1)) /\ other \in Seq(Pieces(n + 1)) /\ rest \in Seq(Pieces(n + 1)) /\ w[<<>>] = 0
      /\ w[other] \in Nat
      /\ \A d \in DOMAIN k2 : d \in 1..n => w[<<Unif(d)>>] = w[k2[d]]
  <2>1. Weighed(w, k2, Pieces(n + 1), n)
    BY <1>1, Weighing
  <2> QED
    BY <1>1, <1>4, <2>1 DEF Weighed
<1>10. w[<<side[1]>>] = w[other]
  BY <1>3, <1>4, <1>7, <1>9
<1>11. \A p \in ToSet(rest) : w[<<p>>] = 0
  BY <1>3, <1>4, <1>8, <1>9
<1>12. w[rest] = 0
  BY <1>9, <1>11, ZeroMeasure DEF Respects
<1>13. w[side] = w[<<side[1]>>] + w[rest]
  BY <1>2, <1>9, HeadWeight DEF rest, Respects
<1> QED
  BY <1>9, <1>10, <1>12, <1>13

LEMMA OneTailTakesAllWeight ==
    ASSUME NEW k, NEW side, NEW other, NEW n, Sides(k, side, other, n),
           NEW k2 \in OneTailTakesAll(k, side, other), NEW w, Respects(w, k2, Pieces(n + 1))
    PROVE  w[side] = w[other]
<1> DEFINE c == side[1][2]
           F == Fields(other)
           T == Tails(other)
           O == Others(other)
<1>1. /\ n \in Nat /\ side \in Seq(Pieces(n)) /\ other \in Seq(Pieces(n))
      /\ \A p \in ToSet(side) : p[1] = "unif" => p = Unif(p[2]) /\ p[2] \in 1..n
  BY SidesFacts
<1>2. OneTail(side) /\ Tails(side) = side /\ k2 = Solved(k, c, F \o T \o O)
  BY DEF OneTailTakesAll
<1>3. side[1] \in ToSet(side) /\ side[1][1] = "unif" /\ Len(side) = 1
  BY <1>1, <1>2, OneTailFacts DEF OneTail
<1>4. side = <<Unif(c)>> /\ c \in 1..n
  BY <1>1, <1>3, SingleRow
<1>5. c \in DOMAIN k2 /\ k2[c] = F \o T \o O
  BY <1>2 DEF Solved
<1> DEFINE X == Pieces(n + 1)
<1>0. Weighed(w, k2, X, n)
  BY <1>1, Weighing
<1> HIDE DEF X
<1>6. /\ F \in Seq(X) /\ T \in Seq(X) /\ O \in Seq(X)
      /\ w[other] = w[F] + w[T] + w[O] /\ w[F] \in Nat /\ w[T] \in Nat /\ w[O] \in Nat
      /\ \A s, t \in Seq(X) : w[s \o t] = w[s] + w[t]
      /\ \A d \in DOMAIN k2 : d \in 1..n => w[<<Unif(d)>>] = w[k2[d]]
  BY <1>0, <1>1 DEF Weighed
<1> HIDE DEF c, F, T, O
<1>7. F \o T \in Seq(X)
  BY <1>6, ConcatProperties
<1>8. w[(F \o T) \o O] = w[F] + w[T] + w[O]
  BY <1>6, <1>7
<1>9. w[<<Unif(c)>>] = w[k2[c]]
  BY <1>4, <1>5, <1>6
<1> QED
  BY <1>4, <1>5, <1>6, <1>8, <1>9

\* A row with one unknown tail, over cells of which only that tail can be solved.
LEMMA TailWeight ==
    ASSUME NEW k, NEW side, NEW other, NEW n, Sides(k, side, other, n), OneTail(side),
           NEW k2, NEW w, Respects(w, k2, Pieces(n + 1))
    PROVE  /\ Tails(side)[1] = Unif(Tails(side)[1][2]) /\ Tails(side)[1][2] \in 1..n
           /\ w[Tails(side)] = w[<<Tails(side)[1]>>]
<1>1. /\ n \in Nat /\ side \in Seq(Pieces(n))
      /\ \A p \in ToSet(side) : p[1] = "unif" => p = Unif(p[2]) /\ p[2] \in 1..n
  BY SidesFacts
<1>2. Tails(side)[1] \in ToSet(side) /\ Tails(side)[1][1] = "unif" /\ Tails(side) \in Seq(Pieces(n))
  BY <1>1, OneTailFacts, SideMembers
<1>3. Tails(side) = <<Tails(side)[1]>>
  BY <1>2, SingleRow DEF OneTail
<1> QED
  BY <1>1, <1>2, <1>3

\* Two cells solved to rows that end with a new one.
LEMMA SharedWeight ==
    ASSUME NEW n \in Nat, NEW k, NEW c \in 1..n, NEW d \in 1..n, c # d,
           NEW s \in Seq(Pieces(n)), NEW t \in Seq(Pieces(n)), NEW k2,
           k2 = Solved(Solved(k, c, Append(s, Unif(n + 1))), d, Append(t, Unif(n + 1))),
           NEW w, Respects(w, k2, Pieces(n + 1))
    PROVE  w[t] + w[<<Unif(c)>>] = w[s] + w[<<Unif(d)>>]
<1> DEFINE f == Unif(n + 1)
           X == Pieces(n + 1)
<1>1. c \in DOMAIN k2 /\ d \in DOMAIN k2 /\ k2[c] = Append(s, f) /\ k2[d] = Append(t, f)
  BY DEF Solved
<1>2. f \in X
  BY PieceFacts
<1> HIDE DEF f
<1>0. Weighed(w, k2, X, n)
  BY Weighing
<1> HIDE DEF X
<1>3. /\ \A row \in Seq(Pieces(n)) : row \in Seq(X) /\ w[row] \in Nat
      /\ \A u, v \in Seq(X) : w[u \o v] = w[u] + w[v]
      /\ \A e \in DOMAIN k2 : e \in 1..n => w[<<Unif(e)>>] = w[k2[e]]
  BY <1>0 DEF Weighed
<1>4. s \in Seq(X) /\ t \in Seq(X) /\ <<f>> \in Seq(X) /\ w[s] \in Nat /\ w[t] \in Nat
  BY <1>2, <1>3
<1>5. w[<<f>>] \in Nat
  BY <1>0, <1>4 DEF Weighed, Measure
<1>6. Append(s, f) = s \o <<f>> /\ Append(t, f) = t \o <<f>>
  BY <1>2, <1>4, AppendIsConcat
<1>7. w[<<Unif(c)>>] = w[s] + w[<<f>>] /\ w[<<Unif(d)>>] = w[t] + w[<<f>>]
  <2>1. w[<<Unif(c)>>] = w[k2[c]] /\ w[<<Unif(d)>>] = w[k2[d]]
    BY <1>1, <1>3
  <2>2. w[s \o <<f>>] = w[s] + w[<<f>>] /\ w[t \o <<f>>] = w[t] + w[<<f>>]
    BY <1>3, <1>4
  <2> QED
    BY <1>1, <1>6, <2>1, <2>2
<1> QED
  BY <1>4, <1>5, <1>7

LEMMA SharedTailWeight ==
    ASSUME NEW k, NEW left, NEW right, NEW n, Sides(k, left, right, n),
           NEW k2 \in SharedTail(k, left, right, n + 1), NEW w, Respects(w, k2, Pieces(n + 1))
    PROVE  w[left] = w[right]
<1> DEFINE c == Tails(left)[1][2]
           d == Tails(right)[1][2]
<1>1. /\ n \in Nat /\ left \in Seq(Pieces(n)) /\ right \in Seq(Pieces(n))
      /\ \A p \in ToSet(left), q \in ToSet(right) : p[1] = "unif" /\ q[1] = "unif" => p[2] # q[2]
  BY SidesFacts
<1>2. /\ OneTail(left) /\ OneTail(right) /\ Others(left) = <<>> /\ Others(right) = <<>>
      /\ k2 = Solved(Solved(k, c, Append(Fields(right), Unif(n + 1))), d, Append(Fields(left), Unif(n + 1)))
  BY DEF SharedTail
<1>3. Sides(k, right, left, n)
  BY SidesSymmetric
<1>4. c \in 1..n /\ d \in 1..n /\ w[Tails(left)] = w[<<Unif(c)>>] /\ w[Tails(right)] = w[<<Unif(d)>>]
  BY <1>2, <1>3, TailWeight
<1>5. c # d
  BY <1>1, <1>2, OneTailFacts
<1>6. Fields(left) \in Seq(Pieces(n)) /\ Fields(right) \in Seq(Pieces(n))
  BY <1>1, SideMembers
<1> HIDE DEF c, d
<1>7. w[Fields(left)] + w[<<Unif(c)>>] = w[Fields(right)] + w[<<Unif(d)>>]
  BY <1>1, <1>2, <1>4, <1>5, <1>6, SharedWeight
<1>0. Weighed(w, k2, Pieces(n + 1), n)
  BY <1>1, Weighing
<1>8. /\ w[left] = w[Fields(left)] + w[Tails(left)] + w[Others(left)] /\ w[<<>>] = 0
      /\ w[Fields(left)] \in Nat /\ w[Tails(left)] \in Nat
  BY <1>0, <1>1 DEF Weighed
<1>9. /\ w[right] = w[Fields(right)] + w[Tails(right)] + w[Others(right)]
      /\ w[Fields(right)] \in Nat /\ w[Tails(right)] \in Nat
  BY <1>0, <1>1 DEF Weighed
<1>10. w[left] = w[Fields(left)] + w[Tails(left)] /\ w[right] = w[Fields(right)] + w[Tails(right)]
  BY <1>2, <1>8, <1>9
<1> QED
  BY <1>4, <1>7, <1>10

LEMMA RigidSharedTailWeight ==
    ASSUME NEW k, NEW side, NEW other, NEW n, Sides(k, side, other, n),
           NEW k2 \in RigidSharedTail(k, side, other, n + 1), NEW w, Respects(w, k2, Pieces(n + 1))
    PROVE  w[side] = w[other]
<1> DEFINE c == Tails(side)[1][2]
           d == Tails(other)[1][2]
<1>1. /\ n \in Nat /\ side \in Seq(Pieces(n)) /\ other \in Seq(Pieces(n))
      /\ \A p \in ToSet(side), q \in ToSet(other) : p[1] = "unif" /\ q[1] = "unif" => p[2] # q[2]
  BY SidesFacts
<1>2. /\ OneTail(side) /\ OneTail(other) /\ Fields(side) = <<>> /\ Others(other) = <<>>
      /\ k2 = Solved(Solved(k, c, Append(Fields(other), Unif(n + 1))), d, Append(Others(side), Unif(n + 1)))
  BY DEF RigidSharedTail
<1>3. Sides(k, other, side, n)
  BY SidesSymmetric
<1>4. c \in 1..n /\ d \in 1..n /\ w[Tails(side)] = w[<<Unif(c)>>] /\ w[Tails(other)] = w[<<Unif(d)>>]
  BY <1>2, <1>3, TailWeight
<1>5. c # d
  BY <1>1, <1>2, OneTailFacts
<1>6. Others(side) \in Seq(Pieces(n)) /\ Fields(other) \in Seq(Pieces(n))
  BY <1>1, SideMembers
<1> HIDE DEF c, d
<1>7. w[Others(side)] + w[<<Unif(c)>>] = w[Fields(other)] + w[<<Unif(d)>>]
  BY <1>1, <1>2, <1>4, <1>5, <1>6, SharedWeight
<1>0. Weighed(w, k2, Pieces(n + 1), n)
  BY <1>1, Weighing
<1>8. /\ w[side] = w[Fields(side)] + w[Tails(side)] + w[Others(side)] /\ w[<<>>] = 0
      /\ w[Others(side)] \in Nat /\ w[Tails(side)] \in Nat
  BY <1>0, <1>1 DEF Weighed
<1>9. /\ w[other] = w[Fields(other)] + w[Tails(other)] + w[Others(other)]
      /\ w[Fields(other)] \in Nat /\ w[Tails(other)] \in Nat
  BY <1>0, <1>1 DEF Weighed
<1>10. w[side] = w[Others(side)] + w[Tails(side)] /\ w[other] = w[Fields(other)] + w[Tails(other)]
  BY <1>2, <1>8, <1>9
<1> QED
  BY <1>4, <1>7, <1>10

LEMMA PeelLeadingWeight ==
    ASSUME NEW k, NEW side, NEW other, NEW n, Sides(k, side, other, n), NEW isLeft,
           NEW k2 \in PeelLeading(k, side, other, isLeft), NEW w, Respects(w, k2, Pieces(n + 1))
    PROVE  w[side] = w[other]
<1> DEFINE c == side[1][2]
           first == Solved(k, c, Fields(other))
           others == SubSeq(side, 2, Len(side))
           rest == Normal(first, others)
           tail == Tails(other)[1]
<1>1. /\ n \in Nat /\ Sound(k, Pieces(n)) /\ DOMAIN k \subseteq 1..n
      /\ side \in Seq(Pieces(n)) /\ other \in Seq(Pieces(n)) /\ Clean(k, side) /\ Clean(k, other)
      /\ \A p \in ToSet(side) : p[1] = "unif" => p = Unif(p[2]) /\ p[2] \in 1..n /\ p[2] \notin DOMAIN k
      /\ \A p \in ToSet(other) : p[1] = "unif" => p = Unif(p[2]) /\ p[2] \in 1..n /\ p[2] \notin DOMAIN k
      /\ \A p \in ToSet(side), q \in ToSet(other) : p[1] = "unif" /\ q[1] = "unif" => p[2] # q[2]
  BY SidesFacts
<1>2. /\ Tails(side) = side /\ side # <<>> /\ OneTail(other) /\ Others(other) = <<>>
      /\ \/ Len(rest) = 1 /\ OnlyTails(rest) /\ k2 = Solved(first, rest[1][2], <<tail>>)
         \/ k2 = Solved(first, tail[2], rest)
  BY DEF PeelLeading, OnlyTails
<1>3. side[1] \in ToSet(side) /\ others \in Seq(Pieces(n))
  BY <1>1, <1>2, FirstOf
<1>4. side[1] = Unif(c) /\ c \in 1..n /\ c \notin DOMAIN k
  BY <1>1, <1>2, <1>3, OnlyTailsFacts
<1>5. tail \in ToSet(other) /\ tail[1] = "unif"
  BY <1>1, <1>2, OneTailFacts
<1>6. tail = Unif(tail[2]) /\ tail[2] \in 1..n /\ tail[2] \notin DOMAIN k /\ tail[2] # c
  BY <1>1, <1>2, <1>3, <1>5, OnlyTailsFacts
<1>7. /\ Fields(other) \in Seq(Pieces(n)) /\ ToSet(Fields(other)) = {p \in ToSet(other) : p[1] = "field"}
      /\ Clean(k, Fields(other)) /\ Without({c}, Fields(other))
  BY <1>1, SideMembers DEF Clean, Without, IsSolved
<1> HIDE DEF c, others, tail
<1>8. Sound(first, Pieces(n)) /\ DOMAIN first = DOMAIN k \cup {c} /\ Extends(first, k)
  <2>1. Assignable(k, c, Fields(other), Pieces(n))
    BY <1>4, <1>7 DEF Assignable
  <2>2. Sound(first, Pieces(n)) /\ Adds(first, k, c)
    BY <2>1, <1>1, SolvedSound
  <2> QED
    BY <2>2 DEF Adds
<1>9. first[c] = Fields(other)
  BY DEF Solved
<1> HIDE DEF first
<1>10. rest \in Seq(Pieces(n)) /\ Clean(first, rest)
  BY <1>3, <1>8, Chained
<1> HIDE DEF rest
<1>0. Weighed(w, k2, Pieces(n + 1), n)
  BY <1>1, Weighing
<1>11. Extends(k2, first) /\ w[rest] = w[<<tail>>]
  <2>1. \A e \in DOMAIN k2 : e \in 1..n => w[<<Unif(e)>>] = w[k2[e]]
    BY <1>0 DEF Weighed
  <2>2. CASE Len(rest) = 1 /\ OnlyTails(rest) /\ k2 = Solved(first, rest[1][2], <<tail>>)
    <3>1. rest[1] \in ToSet(rest) /\ rest[1][1] = "unif" /\ rest = <<rest[1]>>
      BY <1>10, <2>2, FirstOf, OnlyTailsFacts, SingleRow DEF OnlyTails
    <3>2. rest[1] = Unif(rest[1][2]) /\ rest[1][2] \in 1..n /\ rest[1][2] \notin DOMAIN first
      BY <1>1, <1>10, <3>1, CellOf
    <3>3. rest[1][2] \in DOMAIN k2 /\ k2[rest[1][2]] = <<tail>> /\ Extends(k2, first)
      BY <2>2, <3>2 DEF Solved, Extends
    <3> QED
      BY <2>1, <3>1, <3>2, <3>3
  <2>3. CASE k2 = Solved(first, tail[2], rest)
    <3>1. tail[2] \notin DOMAIN first
      BY <1>6, <1>8
    <3>2. tail[2] \in DOMAIN k2 /\ k2[tail[2]] = rest /\ Extends(k2, first)
      BY <2>3, <3>1 DEF Solved, Extends
    <3> QED
      BY <1>6, <2>1, <3>2
  <2> QED
    BY <1>2, <2>2, <2>3 DEF rest
<1>12. Sound(first, Pieces(n + 1)) /\ Respects(w, first, Pieces(n + 1))
  BY <1>1, <1>8, <1>11, SoundMonotonic, RespectsExtended
<1>13. /\ side \in Seq(Pieces(n + 1)) /\ others \in Seq(Pieces(n + 1))
       /\ \A e \in DOMAIN first : e \in 1..n => w[<<Unif(e)>>] = w[first[e]]
  <2>1. Weighed(w, first, Pieces(n + 1), n)
    BY <1>1, <1>12, Weighing
  <2> QED
    BY <1>1, <1>3, <2>1 DEF Weighed
<1>14. w[<<side[1]>>] = w[Fields(other)]
  BY <1>4, <1>8, <1>9, <1>13
<1>15. w[rest] = w[others]
  BY <1>12, <1>13, NormalMeasure DEF rest
<1>16. w[side] = w[<<side[1]>>] + w[others] /\ w[others] \in Nat
  BY <1>2, <1>13, HeadWeight DEF others, Respects
<1>17. /\ w[other] = w[Fields(other)] + w[Tails(other)] + w[Others(other)] /\ w[<<>>] = 0
       /\ w[Fields(other)] \in Nat /\ w[Tails(other)] \in Nat
  BY <1>0, <1>1 DEF Weighed
<1>18. w[Tails(other)] = w[<<tail>>]
  <2>1. Sides(k, other, side, n)
    BY SidesSymmetric
  <2> QED
    BY <1>2, <2>1, TailWeight DEF tail
<1>19. w[other] = w[Fields(other)] + w[Tails(other)]
  BY <1>2, <1>17
<1> QED
  BY <1>11, <1>14, <1>15, <1>16, <1>18, <1>19

-----------------------------------------------------------------------------
(* What unification equates                                                *)

LEMMA RulesWeight ==
    ASSUME NEW k, NEW l, NEW r, NEW n, Sides(k, l, r, n), ~Repeats(l, r), ~Repeats(r, l), NEW i \in 1..11,
           NEW k2 \in Rules(k, l, r, n + 1)[i], NEW w, Respects(w, k2, Pieces(n + 1))
    PROVE  w[l] = w[r]
<1>1. Sides(k, r, l, n)
  BY SidesSymmetric
<1>2. CASE k2 \in TailsToEmpty(k, l, r) \/ k2 \in TailsToEmpty(k, r, l)
  BY <1>1, <1>2, TailsToEmptyWeight
<1>3. CASE k2 \in RigidToFirst(k, r, l) \/ k2 \in RigidToFirst(k, l, r)
  BY <1>1, <1>3, RigidToFirstWeight
<1>4. CASE k2 \in PeelLeading(k, l, r, TRUE) \/ k2 \in PeelLeading(k, r, l, FALSE)
  <2>1. \A first : k2 \in PeelLeading(k, l, r, first) => w[l] = w[r]
    BY PeelLeadingWeight
  <2>2. \A first : k2 \in PeelLeading(k, r, l, first) => w[r] = w[l]
    BY <1>1, PeelLeadingWeight
  <2> QED
    BY <1>4, <2>1, <2>2
<1>5. CASE k2 \in OneTailTakesAll(k, l, r) \/ k2 \in OneTailTakesAll(k, r, l)
  BY <1>1, <1>5, OneTailTakesAllWeight
<1>6. CASE k2 \in SharedTail(k, l, r, n + 1)
  BY <1>6, SharedTailWeight
<1>7. CASE k2 \in RigidSharedTail(k, l, r, n + 1) \/ k2 \in RigidSharedTail(k, r, l, n + 1)
  BY <1>1, <1>7, RigidSharedTailWeight
<1> QED
  BY <1>2, <1>3, <1>4, <1>5, <1>6, <1>7, RuleCases

\* An outcome that is a success makes the rows equal.
Solves(outcome, left, right) == outcome.result = "ok" => Eaten(outcome.known, left, right)

LEMMA GivenWider ==
    ASSUME NEW k, NEW left, NEW right, NEW n, Given(k, left, right, n)
    PROVE  Sound(k, Pieces(n + 1)) /\ left \in Seq(Pieces(n + 1)) /\ right \in Seq(Pieces(n + 1))
<1>1. n \in Nat /\ Sound(k, Pieces(n)) /\ left \in Seq(Pieces(n)) /\ right \in Seq(Pieces(n))
  BY DEF Given
<1>2. Pieces(n) \subseteq Pieces(n + 1)
  BY <1>1, PieceFacts
<1>3. \A row \in Seq(Pieces(n)) : row \in Seq(Pieces(n + 1))
  BY <1>2, SeqMonotonic
<1> QED
  BY <1>1, <1>3, SoundMonotonic

LEMMA UnifyRowsSolves ==
    ASSUME NEW k, NEW left, NEW right, NEW n, Given(k, left, right, n), NEW delay \in BOOLEAN,
           NoRepeats(k, left, right)
    PROVE  Solves(UnifyRows(k, left, right, n + 1, delay), left, right)
<1> DEFINE rest == EatMatching(Normal(k, left), Normal(k, right))
           l == rest.left
           r == rest.right
           rules == Rules(k, l, r, n + 1)
           applicable == {i \in DOMAIN rules : rules[i] # {}}
           chosen == CHOOSE m \in rules[First(applicable)] : TRUE
           outcome == UnifyRows(k, left, right, n + 1, delay)
           X == Pieces(n + 1)
<1>1. Sides(k, l, r, n) /\ ~Repeats(l, r) /\ ~Repeats(r, l)
  BY SidesEaten DEF NoRepeats
<1>2. Sound(k, X) /\ left \in Seq(X) /\ right \in Seq(X)
  BY GivenWider
<1>3. \/ outcome = Ok(k) /\ l = <<>> /\ r = <<>>
      \/ outcome = Err(k) \/ outcome = Delayed(k)
      \/ (applicable # {} /\ outcome = Ok(chosen))
  BY DEF UnifyRows
<1>4. rest = [left |-> l, right |-> r]
  <2>1. Normal(k, left) \in Seq(X) /\ Normal(k, right) \in Seq(X)
    BY <1>2, Chained
  <2>2. rest \in Remains(Normal(k, left), Normal(k, right))
    BY <2>1, EatMatchingTyped
  <2> HIDE DEF rest
  <2> QED
    BY <2>2 DEF Remains
<1>5. l = <<>> /\ r = <<>> => Eaten(k, left, right)
  BY <1>4 DEF Eaten
<1>6. \A w : Respects(w, k, X) /\ w[l] = w[r] => w[left] = w[right]
  BY <1>2, RestBalanced
<1> HIDE DEF l, r, outcome, X
<1>7. applicable # {} => Eaten(chosen, left, right)
  <2> SUFFICES ASSUME applicable # {} PROVE Eaten(chosen, left, right)
    OBVIOUS
  <2>1. DOMAIN rules = 1..11
    BY DEF Rules
  <2> HIDE DEF rules
  <2>2. First(applicable) \in applicable
    <3>1. applicable \subseteq Nat
      BY <2>1
    <3> HIDE DEF applicable
    <3> QED BY <3>1, FirstMember
  <2>3. First(applicable) \in 1..11 /\ rules[First(applicable)] # {}
    BY <2>1, <2>2
  <2> HIDE DEF applicable
  <2>4. chosen \in rules[First(applicable)]
    BY <2>3
  <2> HIDE DEF chosen
  <2>5. Result(k, chosen, n)
    BY <1>1, <2>3, <2>4, RulesResult DEF rules
  <2>6. Sound(chosen, X) /\ Extends(chosen, k)
    BY <2>5 DEF Result, X
  <2>7. \A w : Respects(w, chosen, X) => w[l] = w[r]
    BY <1>1, <2>3, <2>4, RulesWeight DEF rules, X
  <2>8. Balanced(chosen, X, left, right)
    <3> SUFFICES ASSUME NEW w, Respects(w, chosen, X) PROVE w[left] = w[right]
      BY DEF Balanced
    <3>1. Respects(w, k, X)
      BY <2>6, RespectsExtended
    <3> QED
      BY <1>6, <2>7, <3>1
  <2> QED
    BY <1>2, <2>6, <2>8, BalancedEaten
<1> HIDE DEF applicable, chosen
<1>8. Solves(outcome, left, right)
  BY <1>3, <1>5, <1>7 DEF Solves, Ok, Err, Delayed
<1> QED
  BY <1>8 DEF outcome

LEMMA UnifyConsSolves ==
    ASSUME NEW k, NEW left, NEW right, NEW n, Given(k, left, right, n), NEW delay \in BOOLEAN,
           NoRepeats(k, left, right)
    PROVE  Solves(UnifyCons(k, left, right, n + 1, delay), left, right)
<1> DEFINE l == Normal(k, left)
           r == Normal(k, right)
           Assign(c, row) == IF Occurs(c, row) THEN Err(k) ELSE Ok(Solved(k, c, row))
           outcome == UnifyCons(k, left, right, n + 1, delay)
           X == Pieces(n + 1)
<1>1. n \in Nat /\ Sound(k, Pieces(n)) /\ DOMAIN k \subseteq 1..n
      /\ l \in Seq(Pieces(n)) /\ r \in Seq(Pieces(n)) /\ Clean(k, l) /\ Clean(k, r)
  BY NormalGiven DEF Given
<1>2. \/ outcome = Ok(k) /\ l = r
      \/ Len(l) = 1 /\ OnlyTails(l) /\ outcome = Assign(l[1][2], r)
      \/ Len(r) = 1 /\ OnlyTails(r) /\ outcome = Assign(r[1][2], l)
      \/ outcome = UnifyRows(k, left, right, n + 1, delay)
  BY DEF UnifyCons
<1>3. Sound(k, X) /\ left \in Seq(X) /\ right \in Seq(X)
  BY GivenWider
<1>4. \A w : Respects(w, k, X) => w[l] = w[left] /\ w[r] = w[right]
  BY <1>3, NormalMeasure
<1>5. Sensible(k, outcome, n, delay)
  BY UnifyConsResult
<1> HIDE DEF l, r, outcome
<1>6. outcome.result = "ok" => Sound(outcome.known, X) /\ Extends(outcome.known, k)
  BY <1>5 DEF Sensible, Result
<1>7. ASSUME NEW s \in Seq(Pieces(n)), NEW t, Clean(k, s), Len(s) = 1, OnlyTails(s),
             outcome = Assign(s[1][2], t), outcome.result = "ok",
             NEW w, Respects(w, outcome.known, X)
      PROVE  w[s] = w[t]
  <2>1. s = <<s[1]>> /\ s[1] \in ToSet(s) /\ s[1][1] = "unif"
    BY <1>7, FirstOf, OnlyTailsFacts, SingleRow DEF OnlyTails
  <2>2. s[1] = Unif(s[1][2]) /\ s[1][2] \in 1..n
    BY <1>1, <1>7, <2>1, CellOf
  <2>3. outcome.known = Solved(k, s[1][2], t)
    BY <1>7 DEF Ok, Err
  <2>4. s[1][2] \in DOMAIN outcome.known /\ outcome.known[s[1][2]] = t
    BY <2>3 DEF Solved
  <2>5. Weighed(w, outcome.known, Pieces(n + 1), n)
    BY <1>1, <1>7, Weighing
  <2>6. w[<<Unif(s[1][2])>>] = w[outcome.known[s[1][2]]]
    BY <2>2, <2>4, <2>5 DEF Weighed
  <2> QED
    BY <2>1, <2>2, <2>4, <2>6
<1> HIDE DEF X, Assign
<1>8. ASSUME outcome.result = "ok", \A w : Respects(w, outcome.known, X) => w[l] = w[r]
      PROVE  Eaten(outcome.known, left, right)
  <2>1. Sound(outcome.known, X) /\ Extends(outcome.known, k)
    BY <1>6, <1>8
  <2>2. Balanced(outcome.known, X, left, right)
    <3> SUFFICES ASSUME NEW w, Respects(w, outcome.known, X) PROVE w[left] = w[right]
      BY DEF Balanced
    <3>1. Respects(w, k, X)
      BY <2>1, RespectsExtended
    <3> QED
      BY <1>4, <1>8, <3>1
  <2> QED
    BY <1>3, <2>1, <2>2, BalancedEaten
<1>9. outcome = Ok(k) /\ l = r => Solves(outcome, left, right)
  BY <1>8 DEF Solves
<1>10. Len(l) = 1 /\ OnlyTails(l) /\ outcome = Assign(l[1][2], r) => Solves(outcome, left, right)
  BY <1>1, <1>7, <1>8 DEF Solves
<1>11. Len(r) = 1 /\ OnlyTails(r) /\ outcome = Assign(r[1][2], l) => Solves(outcome, left, right)
  <2> SUFFICES ASSUME Len(r) = 1, OnlyTails(r), outcome = Assign(r[1][2], l), outcome.result = "ok"
               PROVE  Eaten(outcome.known, left, right)
    BY DEF Solves
  <2>1. \A w : Respects(w, outcome.known, X) => w[r] = w[l]
    BY <1>1, <1>7
  <2> QED
    BY <1>8, <2>1
<1>12. outcome = UnifyRows(k, left, right, n + 1, delay) => Solves(outcome, left, right)
  BY UnifyRowsSolves
<1>13. Solves(outcome, left, right)
  BY <1>2, <1>9, <1>10, <1>11, <1>12
<1> QED
  BY <1>13 DEF outcome

-----------------------------------------------------------------------------
(* Equations                                                               *)

\* The program asks that these rows be equal.
IsEquation(d) == \E e \in Equations : d.left = e[1] /\ d.right = e[2]

EqualInv ==
    /\ \A d \in demands : d.kind = "equal" => d \in Standing \/ Eaten(known, d.left, d.right)
    /\ \A d \in Outstanding : d.kind = "equal" => IsEquation(d)

\* Equal rows stay equal, whatever is solved later.
LEMMA EatenStays ==
    ASSUME Learns, NEW d, HasRows(d, fresh - 1), Eaten(known, d.left, d.right)
    PROVE  Eaten(known', d.left, d.right)
<1>1. PICK n \in Nat : /\ Sound(known, Pieces(n)) /\ Sound(known', Pieces(n)) /\ Extends(known', known)
                       /\ HasRows(d, n)
  BY LearnsFacts
<1>2. d.left \in Seq(Pieces(n)) /\ d.right \in Seq(Pieces(n))
  BY <1>1 DEF HasRows
<1>3. Balanced(known, Pieces(n), d.left, d.right)
  BY <1>1, <1>2, EatenBalanced
<1>4. Balanced(known', Pieces(n), d.left, d.right)
  BY <1>1, <1>3, BalancedExtended
<1> QED
  BY <1>1, <1>2, <1>4, BalancedEaten

\* A step that takes up at most one pair of rows to be made equal.
LEMMA EqualStep ==
    ASSUME DemandInv, EqualInv, Learns, NEW job, IsEquation(job),
           demands' \subseteq demands \cup {job}, Outstanding' \subseteq Outstanding \cup {job},
           Standing \subseteq Standing' \cup {job},
           job \in Standing' \/ Eaten(known', job.left, job.right)
    PROVE  EqualInv'
<1>1. \A d \in Outstanding' : d.kind = "equal" => IsEquation(d)
  BY DEF EqualInv
<1>2. ASSUME NEW d \in demands', d.kind = "equal"
      PROVE  d \in Standing' \/ Eaten(known', d.left, d.right)
  <2>1. CASE d = job
    BY <2>1
  <2>2. CASE d # job /\ d \in Standing
    BY <2>2
  <2>3. CASE d # job /\ d \notin Standing
    <3>1. d \in demands /\ Eaten(known, d.left, d.right)
      BY <1>2, <2>3 DEF EqualInv
    <3>2. HasRows(d, fresh - 1)
      BY <3>1 DEF DemandInv, RowsInv
    <3> QED
      BY <3>1, <3>2, EatenStays
  <2> QED
    BY <2>1, <2>2, <2>3
<1> QED
  BY <1>1, <1>2 DEF EqualInv, IsEquation

LEMMA KeptEquals == ASSUME EqualInv, KeepsEquals PROVE EqualInv'
BY DEF EqualInv, KeepsEquals, IsEquation

\* What unification of two rows of the program leaves of a demand.
LEMMA CheckConEquals ==
    ASSUME DemandInv, DemandInv', EqualInv, TailsApart, NEW e \in Equations, CheckCon(e[1], e[2])
    PROVE  EqualInv'
<1>0. PICK job : job = Equal(e[1], e[2])
  OBVIOUS
<1> DEFINE l == e[1]
           r == e[2]
           outcome == UnifyCons(known, l, r, fresh, mayDelay)
<1>1. IInv /\ IInv' /\ KnownSound /\ ListsSound /\ PhaseInv
  BY DEF DemandInv, IInv
<1>2. Extends(known', known)
  BY <1>1, CheckConIInv
<1>3. /\ demands' = demands \cup {job} /\ UNCHANGED <<pending, next, older>>
      /\ known' = outcome.known /\ fresh' \in {fresh, fresh + 1}
      /\ constraints' = IF outcome.result = "delayed" THEN Append(constraints, job) ELSE constraints
      /\ errors' = IF outcome.result = "error" THEN errors \cup {job} ELSE errors
  BY <1>0, FreshStep DEF CheckCon, Demand, solver
<1>4. l \in Seq(Pieces(fresh - 1)) /\ r \in Seq(Pieces(fresh - 1))
  BY <1>1, ProgramRowsKnown
<1>5. job.left = l /\ job.right = r /\ IsEquation(job)
  BY <1>0 DEF Equal, IsEquation
<1>6. mayDelay \in BOOLEAN
  BY <1>1 DEF PhaseInv
<1>7. /\ fresh - 1 \in Nat /\ fresh = (fresh - 1) + 1
      /\ Given(known, l, r, fresh - 1)
  BY <1>1, <1>4, KnownGiven
<1>8. NoRepeats(known, l, r)
  BY DEF TailsApart
<1> HIDE DEF l, r
<1>9. Solves(UnifyCons(known, l, r, (fresh - 1) + 1, mayDelay), l, r)
  BY <1>6, <1>7, <1>8, UnifyConsSolves
<1>10. Sensible(known, UnifyCons(known, l, r, (fresh - 1) + 1, mayDelay), fresh - 1, mayDelay)
  BY <1>6, <1>7, UnifyConsResult
<1>11. Solves(outcome, l, r) /\ outcome.result \in {"ok", "error", "delayed"}
  BY <1>7, <1>9, <1>10 DEF Sensible
<1> HIDE DEF outcome
<1>12. ToSet(Append(constraints, job)) = ToSet(constraints) \cup {job}
  BY <1>1, MembersAppended DEF ListsSound
<1>13. /\ Outstanding' \subseteq Outstanding \cup {job} /\ Standing \subseteq Standing'
       /\ outcome.result # "ok" => job \in Standing'
  <2>1. /\ ToSet(constraints) \subseteq ToSet(constraints')
        /\ ToSet(constraints') \subseteq ToSet(constraints) \cup {job}
        /\ pending' = pending /\ next' = next /\ older' = older
    BY <1>3, <1>12
  <2>2. outcome.result # "ok" => job \in ToSet(constraints') \/ job \in errors'
    BY <1>3, <1>11, <1>12
  <2>3. errors \subseteq errors'
    BY <1>3
  <2>4. Outstanding' \subseteq Outstanding \cup {job} /\ Outstanding \subseteq Outstanding'
    BY <2>1 DEF Outstanding
  <2>5. ToSet(constraints') \subseteq Outstanding'
    BY DEF Outstanding
  <2> QED
    BY <2>2, <2>3, <2>4, <2>5 DEF Standing
<1>14. job \in Standing' \/ Eaten(known', job.left, job.right)
  BY <1>3, <1>5, <1>11, <1>13 DEF Solves
<1>15. Learns
  BY <1>1, <1>2, <1>3 DEF Learns
<1> QED
  BY <1>3, <1>5, <1>13, <1>14, <1>15, EqualStep

LEMMA TryEqualEquals ==
    ASSUME DemandInv, DemandInv', EqualInv, TailsApart, TryEqual
    PROVE  EqualInv'
<1>0. PICK job : job = pending[1]
  OBVIOUS
<1> DEFINE outcome == UnifyRows(known, job.left, job.right, fresh, mayDelay)
<1>1. IInv /\ IInv' /\ KnownSound /\ ListsSound /\ PhaseInv
  BY DEF DemandInv, IInv
<1>2. Extends(known', known)
  BY <1>1, TryEqualIInv
<1>3. /\ pending # <<>> /\ pending' = SubSeq(pending, 2, Len(pending)) /\ job.kind = "equal"
      /\ known' = outcome.known /\ fresh' \in {fresh, fresh + 1}
      /\ constraints' = IF outcome.result = "delayed" THEN Append(constraints, job) ELSE constraints
      /\ next' = IF outcome.result = "error" THEN Append(next, job) ELSE next
      /\ UNCHANGED <<errors, demands, older>>
  BY <1>0, FreshStep DEF TryEqual, Solving, Taken
<1>4. ToSet(pending) = {job} \cup ToSet(pending')
  BY <1>0, <1>1, <1>3, HeadMembers DEF ListsSound
<1>5. job.left \in Seq(Pieces(fresh - 1)) /\ job.right \in Seq(Pieces(fresh - 1)) /\ job \in Outstanding
  BY <1>1, <1>4 DEF ListsSound, Jobs, IsJob, Outstanding
<1>6. IsEquation(job)
  BY <1>3, <1>5 DEF EqualInv
<1>7. mayDelay \in BOOLEAN
  BY <1>1 DEF PhaseInv
<1>8. /\ fresh - 1 \in Nat /\ fresh = (fresh - 1) + 1
      /\ Given(known, job.left, job.right, fresh - 1)
  BY <1>1, <1>5, KnownGiven
<1>9. NoRepeats(known, job.left, job.right)
  BY <1>6 DEF TailsApart, IsEquation
<1>10. Solves(UnifyRows(known, job.left, job.right, (fresh - 1) + 1, mayDelay), job.left, job.right)
  BY <1>7, <1>8, <1>9, UnifyRowsSolves
<1>11. Sensible(known, UnifyRows(known, job.left, job.right, (fresh - 1) + 1, mayDelay), fresh - 1, mayDelay)
  BY <1>7, <1>8, UnifyRowsResult
<1>12. Solves(outcome, job.left, job.right) /\ outcome.result \in {"ok", "error", "delayed"}
  BY <1>8, <1>10, <1>11 DEF Sensible
<1> HIDE DEF outcome
<1>13. ToSet(Append(next, job)) = ToSet(next) \cup {job} /\ ToSet(Append(constraints, job)) = ToSet(constraints) \cup {job}
  BY <1>1, MembersAppended DEF ListsSound
<1>14. /\ Outstanding' \subseteq Outstanding \cup {job} /\ Standing \subseteq Standing' \cup {job}
       /\ outcome.result # "ok" => job \in Standing'
  <2>1. /\ ToSet(constraints) \subseteq ToSet(constraints')
        /\ ToSet(constraints') \subseteq ToSet(constraints) \cup {job}
        /\ ToSet(next) \subseteq ToSet(next') /\ ToSet(next') \subseteq ToSet(next) \cup {job}
    BY <1>3, <1>13
  <2>2. outcome.result # "ok" => job \in ToSet(constraints') \/ job \in ToSet(next')
    BY <1>3, <1>12, <1>13
  <2> QED
    BY <1>3, <1>4, <2>1, <2>2 DEF Outstanding, Standing
<1>15. job \in Standing' \/ Eaten(known', job.left, job.right)
  BY <1>3, <1>12, <1>14 DEF Solves
<1>16. Learns
  BY <1>1, <1>2, <1>3 DEF Learns
<1> QED
  BY <1>3, <1>6, <1>14, <1>15, <1>16, EqualStep

LEMMA InitEquals == ASSUME Init PROVE DemandInv /\ EqualInv
<1>1. demands = {} /\ Outstanding = {}
  BY DEF Init, Outstanding, ToSet
<1> QED
  BY <1>1, InitDemandInv DEF EqualInv

LEMMA NextEquals == ASSUME DemandInv, EqualInv, TailsApart, [Next]_vars PROVE DemandInv' /\ EqualInv'
<1>1. DemandInv' /\ (KeepsEquals \/ TryEqual \/ \E e \in Equations : CheckCon(e[1], e[2]))
  BY NextDemands
<1>2. CASE KeepsEquals
  BY <1>1, <1>2, KeptEquals
<1>3. CASE TryEqual
  BY <1>1, <1>3, TryEqualEquals
<1>4. CASE \E e \in Equations : CheckCon(e[1], e[2])
  BY <1>1, <1>4, CheckConEquals
<1> QED
  BY <1>1, <1>2, <1>3, <1>4

LEMMA EqualInvMet == ASSUME DemandInv, EqualInv PROVE DemandsMet
<1> SUFFICES ASSUME NEW d \in demands, d.kind # "unexamined" PROVE Met(d)
  BY DEF DemandsMet
<1>1. CASE d.kind \in {"folder", "disjoint"}
  BY <1>1, DemandInvMet DEF FoldersAndGuardsMet
<1>2. CASE d.kind = "equal"
  BY <1>2 DEF EqualInv, Eaten, HoldsEqual, Standing, Met
<1>3. d.kind \in {"equal", "disjoint", "folder", "unexamined"}
  BY DEF DemandInv, IInv, KindsInv, Kinds
<1> QED
  BY <1>1, <1>2, <1>3

(* Nothing a program demands is forgotten by check_con and                 *)
(* solve_constraints_internal: rows it equates are equal, for every         *)
(* instance of the cells still unknown, however many cells are solved       *)
(* afterwards, or the constraint stands or was reported; likewise folders   *)
(* and guards.  The premise excludes what RigidToFirst (elaborate.rs:6775)  *)
(* gets wrong.                                                              *)
THEOREM DemandsKept == Spec /\ []TailsApart => []DemandsMet
<1>1. Init => DemandInv /\ EqualInv
  BY InitEquals
<1>2. DemandInv /\ EqualInv /\ TailsApart /\ [Next]_vars => DemandInv' /\ EqualInv'
  BY NextEquals
<1>3. DemandInv /\ EqualInv => DemandsMet
  BY EqualInvMet
<1> QED
  BY <1>1, <1>2, <1>3, PTL DEF Spec

\* A program elaborated without an error: the rows that were equated are equal.
EquationsHold ==
    phase = "done" /\ errors = {} => \A d \in demands : d.kind = "equal" => HoldsEqual(d.left, d.right)

(* An equation is not lost on its way through the lists of the solver and   *)
(* of its callers: when the file is done and no error was reported          *)
(* (elab_file), it holds.                                                   *)
THEOREM AcceptedEquations == Spec /\ []TailsApart => []EquationsHold
<1> DEFINE Inv == DemandInv /\ EqualInv /\ DoneInv
<1>1. Init => Inv
  BY InitEquals DEF Init, DoneInv
<1>2. Inv /\ TailsApart /\ [Next]_vars => Inv'
  BY NextEquals, NextDoneInv DEF DemandInv
<1>3. Inv => EquationsHold
  <2> SUFFICES ASSUME Inv, phase = "done", errors = {}, NEW d \in demands, d.kind = "equal"
               PROVE  HoldsEqual(d.left, d.right)
    BY DEF EquationsHold
  <2>1. Outstanding \cup errors = {}
    BY DoneStanding DEF DemandInv
  <2> QED
    BY <2>1 DEF EqualInv, Eaten, HoldsEqual, Standing
<1> QED
  BY <1>1, <1>2, <1>3, PTL DEF Spec
==============================================================================
