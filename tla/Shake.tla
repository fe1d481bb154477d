-------------------------------- MODULE Shake --------------------------------
(***************************************************************************)
(* Dead code elimination (src/src/core/dead_code_elimination.rs): what the *)
(* roots of a program refer to is marked, with all that it needs in turn,  *)
(* and the declarations of which nothing is marked are dropped.            *)
(*                                                                         *)
(* The code marks in depth first; here any marked name that has not been   *)
(* followed may be next.  Names are unique, so merge_expression_def, which *)
(* joins the definitions of one name, does nothing.                        *)
(***************************************************************************)
EXTENDS Naturals, Sequences

CONSTANTS
    Types,  \* names of constructors: type aliases and datatypes
    Exps,   \* names of expressions
    Programs  \* programs to shake

Names == Types \cup Exps

(* Of a term the pass sees the names in it, found by walking over it.      *)
TermType == [con : SUBSET Types, exp : SUBSET Exps]
Named(term) == term.con \cup term.exp

VARIABLES
    file,      \* declarations: their kind, the terms that define names, and
               \* the term the declaration itself holds
    slice,     \* slice_for_db
    pc,        \* "seed", "mark" or "done"
    used,      \* the names marked and followed
    todo       \* the names marked, still to be followed

vars == <<file, slice, pc, used, todo>>

Indices == DOMAIN file
Defined(d) == DOMAIN d.def

(***************************************************************************)
(* build_definition_maps: what the definition of a name refers to, and for *)
(* a recursive function its group.                                         *)
(***************************************************************************)
\* Mutant: the other members of a recursive group are not marked.
BringsAlone(n) == UNION {Named(file[i].def[n]) : i \in {k \in Indices : n \in Defined(file[k])}}

Brings(n) ==
    UNION {Named(file[i].def[n]) \cup (IF file[i].kind = "rec" THEN Defined(file[i]) ELSE {}) :
              i \in {k \in Indices : n \in Defined(file[k])}}

(* Only declarations of these kinds define names, and all but a group of   *)
(* datatypes or functions one name.  The term of a table or view is at the *)
(* same time the definition of its name.                                   *)
Defining == {"constructor", "datatype", "val", "rec", "table", "sequence", "view",
             "cookie", "style"}
Plain == {"sequence", "style"}
FromDatabase == {"table", "view"}
WellDefined(d) ==
    /\ d.kind \in Defining \cup {"export", "index", "database", "task", "policy", "onerror"}
    /\ d.kind \notin Defining => Defined(d) = {}
    /\ d.kind \in Defining \ {"datatype", "rec"} => \E n \in Names : Defined(d) = {n}
    /\ d.kind \in FromDatabase => \A n \in Defined(d) : d.def[n] = d.term
    /\ d.kind \in (Defining \ FromDatabase) \cup {"database"} => Named(d.term) = {}
    /\ d.kind \in Plain => \A n \in Defined(d) : Named(d.def[n]) = {}
WellFormed(p) == \A i \in DOMAIN p : WellDefined(p[i])

(***************************************************************************)
(* seed_roots_from_file.                                                   *)
(***************************************************************************)
DbRoots == {"table", "view", "index"}
AppRoots == {"export", "task", "policy", "onerror"}
IsRoot(d) == d.kind \in DbRoots \/ (d.kind \in AppRoots /\ ~slice)
Seeds == UNION {Named(file[i].term) : i \in {k \in Indices : IsRoot(file[k])}}

Seed ==
    /\ pc = "seed"
    /\ todo' = Seeds
    /\ pc' = "mark"
    /\ UNCHANGED <<file, slice, used>>

(***************************************************************************)
(* mark_constructor_used and mark_expression_used.                         *)
(***************************************************************************)
\* Mutant: only what is new in this very step is followed.
UnmarkedOnly(n) == Brings(n) \ used
Unmarked(n) == (todo \cup Brings(n)) \ (used \cup {n})

Mark ==
    /\ pc = "mark"
    /\ \E n \in todo :
          /\ used' = used \cup {n}
          /\ todo' = Unmarked(n)
    /\ UNCHANGED <<file, slice, pc>>

(***************************************************************************)
(* should_keep_declaration.                                                *)
(***************************************************************************)
ByName == {"constructor", "datatype", "val", "rec"}
Always == {"view", "index", "sequence", "table"}
Kept(d) ==
    IF d.kind \in ByName THEN Defined(d) \cap used # {}
    ELSE d.kind \in Always \/ ~slice

Filter ==
    /\ pc = "mark"
    /\ todo = {}
    /\ pc' = "done"
    /\ UNCHANGED <<file, slice, used, todo>>

Begin == pc = "seed" /\ used = {} /\ todo = {}

Init == file \in Programs /\ slice \in BOOLEAN /\ Begin

Next == Seed \/ Mark \/ Filter

Spec == Init /\ [][Next]_vars

-----------------------------------------------------------------------------
(***************************************************************************)
(* What is marked is exactly what the roots need: it holds the roots, all  *)
(* that its members refer to and the whole of their groups, and nothing    *)
(* that some such set does without (shake_with_options).  The roots are    *)
(* those of seed_roots_from_file, which leaves cookies out although the    *)
(* comments at lines 5 and 567 of the source name them.                    *)
(***************************************************************************)
Closed(S) == \A n \in S : Brings(n) \subseteq S

UsedExact ==
    /\ \A S \in SUBSET Names : Seeds \subseteq S /\ Closed(S) => used \subseteq S
    /\ pc = "done" => Seeds \subseteq used /\ Closed(used)

(***************************************************************************)
(* All that a declaration refers to, followed or not.                      *)
(***************************************************************************)
RefersTo(d) == Named(d.term) \cup UNION {Named(d.def[n]) : n \in Defined(d)}

(***************************************************************************)
(* What the comments promise (lines 3-6, 567): no reference of what is     *)
(* kept dangles.  It does not hold of the code.                            *)
(***************************************************************************)
ResultClosed ==
    pc = "done" =>
        \A i, j \in Indices :
            Kept(file[i]) /\ RefersTo(file[i]) \cap Defined(file[j]) # {} => Kept(file[j])

(***************************************************************************)
(* The two ways in which the filter and the walk disagree: a cookie that   *)
(* nothing refers to is kept and its type is not followed, neither are the *)
(* unmarked datatypes of a group that is kept for another; and slicing for *)
(* the database drops cookies and styles that something kept refers to.    *)
(***************************************************************************)
Unfollowed(d) ==
    IF d.kind \in {"cookie", "datatype"}
    THEN UNION {Named(d.def[n]) : n \in Defined(d) \ used}
    ELSE {}
Sliced(d) == slice /\ d.kind \in {"cookie", "style"}

(***************************************************************************)
(* Of all that the kept declarations refer to nothing else dangles         *)
(* (should_keep_declaration against mark_expression_used).                 *)
(***************************************************************************)
NothingDangles ==
    pc = "done" =>
        \A i, j \in Indices :
            Kept(file[i]) /\ ~Kept(file[j])
                => \A n \in RefersTo(file[i]) \cap Defined(file[j]) :
                       n \in Unfollowed(file[i]) \/ Sliced(file[j])
=============================================================================
