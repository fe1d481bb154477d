----------------------------- MODULE CorePasses -----------------------------
(***************************************************************************)
(* Three passes over the core of a program in the order in which the       *)
(* compiler runs them (src/src/compiler.rs, run_compile): untangling,      *)
(* dead code elimination and the effect analysis.  What one leaves is what *)
(* the next gets; the passes between them, which rewrite bodies, are       *)
(* left out.                                                               *)
(*                                                                         *)
(* A program enters at any of the three: as one group of functions         *)
(* declared recursive together and then exported, as declarations of every *)
(* kind, or as functions and exports.                                      *)
(***************************************************************************)
EXTENDS Effects, SequencesExt

CONSTANTS
    N,          \* bound: the functions are 1..N
    Groups,     \* bodies of functions declared as one group
    Programs,   \* programs with declarations of every kind
    Types, Others  \* names of constructors, and of expressions other than functions

VARIABLES
    phase,                                   \* "untangle", "shake" or "effects"
    deps, outside, upc, index, lowlink, onStack, stack, frames, sccs, decls, steps,
    program, slice, spc, used, todo

untangling == <<deps, outside, upc, index, lowlink, onStack, stack, frames, sccs, decls, steps>>
shaking == <<program, slice, spc, used, todo>>
passes == <<phase, untangling, shaking, vars>>

U == INSTANCE Untangle WITH pc <- upc
S == INSTANCE Shake WITH file <- program, pc <- spc, Exps <- Fns \cup Others

(* What is analysed is about functions: a val is one, and so is an export. *)
OfFunctions(p) ==
    /\ Len(p) \in Nat /\ DOMAIN p = 1..Len(p)
    /\ \A i \in DOMAIN p :
          /\ p[i].kind = "rec" => DOMAIN p[i].def \subseteq Fns
          /\ p[i].kind = "val" => \E f \in Fns : DOMAIN p[i].def = {f}
          /\ p[i].kind = "export" => \E f \in Fns : p[i].term.exp = {f}

ASSUME PassesAssumption ==
    /\ N \in Nat \ {0} /\ Fns = 1..N
    /\ Groups \subseteq BodyType
    /\ \A p \in Programs : S!WellFormed(p) /\ OfFunctions(p)

(***************************************************************************)
(* A group as the untangling leaves it, followed by its exports: all       *)
(* actions, but for the first function, which is a link.                   *)
(***************************************************************************)
NoTerm == [con |-> {}, exp |-> {}]
NoDef == [n \in {} |-> NoTerm]
Function(d) ==
    [kind |-> IF d.rec THEN "rec" ELSE "val", term |-> NoTerm,
     def |-> [f \in d.members |-> [con |-> {}, exp |-> AllRefs(f)]]]
Export(f) == [kind |-> "export", def |-> NoDef, term |-> [con |-> {}, exp |-> {f}]]

ToShake ==
    /\ phase = "untangle" /\ upc = "done"
    /\ program' = [i \in DOMAIN decls |-> Function(decls[i])] \o <<Export(1), Export(N)>>
    /\ phase' = "shake"
    /\ UNCHANGED <<untangling, slice, spc, used, todo, vars>>

(***************************************************************************)
(* What the effect analysis looks at of the declarations that were kept.   *)
(* In the place of one that was dropped it gets one it passes over.        *)
(***************************************************************************)
Analysed(d) ==
    CASE d.kind = "export" ->
            LET f == CHOOSE g \in d.term.exp : TRUE
            IN [kind |-> IF f = 1 THEN "link" ELSE "action", fns |-> <<f>>]
      [] d.kind \in {"val", "rec"} -> [kind |-> d.kind, fns |-> SetToSeq(DOMAIN d.def)]
      [] OTHER -> [kind |-> "other", fns |-> <<>>]
Dropped == [kind |-> "other", fns |-> <<>>]

ToEffects ==
    /\ phase = "shake" /\ spc = "done"
    /\ file' = [i \in S!Indices |-> IF S!Kept(program[i]) THEN Analysed(program[i]) ELSE Dropped]
    /\ phase' = "effects"
    /\ UNCHANGED <<untangling, shaking, body, pos, member, changed, writers, readers,
                   pushers, stamped, warned>>

Untangling == phase = "untangle" /\ U!Next /\ UNCHANGED <<phase, shaking, vars>>
Shaking == phase = "shake" /\ S!Next /\ UNCHANGED <<phase, untangling, vars>>
Analysing == phase = "effects" /\ Next /\ UNCHANGED <<phase, untangling, shaking>>

(***************************************************************************)
(* The programs.                                                           *)
(***************************************************************************)
BodyIn(decl, f) == [leaf |-> {}, named |-> decl.def[f].exp \cap Fns, rpc |-> {}, onload |-> {},
                    handlerNamed |-> {}, handlerRpc |-> {}]
BodiesOf(p) ==
    [f \in Fns |-> BodyIn(p[CHOOSE i \in DOMAIN p : f \in DOMAIN p[i].def], f)]

PassesInit ==
    /\ \/ /\ phase = "untangle"
          /\ body \in [Fns -> Groups]
          /\ outside \in {{}, {N}}
          /\ program = <<>> /\ file = <<>>
       \/ /\ phase = "shake"
          /\ program \in Programs
          /\ body = BodiesOf(program)
          /\ outside = {} /\ file = <<>>
       \/ /\ phase = "effects"
          /\ body \in [Fns -> Bodies]
          /\ file \in Files
          /\ outside = {} /\ program = <<>>
    /\ deps = [f \in Fns |-> AllRefs(f)]
    /\ slice \in (IF phase = "shake" THEN BOOLEAN ELSE {FALSE})
    /\ U!Begin /\ S!Begin /\ Begin

PassesNext == Untangling \/ ToShake \/ Shaking \/ ToEffects \/ Analysing

PassesSpec == PassesInit /\ [][PassesNext]_passes /\ WF_passes(PassesNext)

-----------------------------------------------------------------------------
(***************************************************************************)
(* A recursive group falls into its strongly connected components, each    *)
(* declared once, with rec only where needed, dependents first, in as few  *)
(* steps as a search takes (split_val_rec_into_sccs; see Untangle).        *)
(***************************************************************************)
GroupsSplit ==
    phase = "untangle" =>
        U!TypeOK /\ U!ComponentsExact /\ U!DeclaredOnce /\ U!DependentsFirst

(***************************************************************************)
(* Dead code elimination marks exactly what the roots need (see Shake).    *)
(***************************************************************************)
UsedExact == phase = "shake" => S!UsedExact

(***************************************************************************)
(* What is kept refers to nothing that was dropped, but for the cases that *)
(* Shake names (Unfollowed, Sliced); KeptClosed has no exception.          *)
(***************************************************************************)
KeptClosed == phase = "shake" => S!ResultClosed
NothingDangles == phase = "shake" => S!NothingDangles

(***************************************************************************)
(* All passes come to an end, whatever the references: Tarjan's loops, the *)
(* marking, and the rounds over recursive groups.                          *)
(***************************************************************************)
PassesEnd == <>(phase = "effects" /\ pos > Len(file))
=============================================================================
