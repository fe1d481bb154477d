------------------------------- MODULE Effects -------------------------------
(***************************************************************************)
(* The effect analysis (src/src/core/effect_analysis.rs): one pass over    *)
(* the declarations finds the functions that may write to the database,    *)
(* read a cookie, or call by RPC a function that does both, and stamps     *)
(* every exported handler with what it may do.  A handler stamped          *)
(* ReadOnly may be fetched with GET and is not protected against forged    *)
(* requests.                                                               *)
(*                                                                         *)
(* Of a body the analysis sees which functions it refers to, and where:    *)
(* by name, by RPC, by RPC inside an Onload attribute, or inside another   *)
(* event handler, which dejs takes away for all but the pushers.           *)
(***************************************************************************)
EXTENDS Naturals, Sequences, FiniteSets

CONSTANTS
    Fns,     \* the functions of the program
    Bodies,  \* the bodies they may have
    Files,   \* files of declarations of them
    Safe     \* functions the safeGet directive lists

Refs == SUBSET Fns
BodyType == [leaf : SUBSET {"write", "cookie"}, named : Refs, rpc : Refs, onload : Refs,
             handlerNamed : Refs, handlerRpc : Refs]
DeclType == [kind : {"val", "rec", "link", "action", "other"}, fns : Seq(Fns)]
WellFormed(decls) ==
    /\ decls \in Seq(DeclType)
    /\ \A i \in DOMAIN decls : decls[i].kind \notin {"rec", "other"} => Len(decls[i].fns) = 1

ASSUME EffectsAssumption ==
    /\ Bodies \subseteq BodyType
    /\ \A decls \in Files : WellFormed(decls)

VARIABLES
    body,     \* what each function's body refers to
    file,     \* the declarations
    pos,      \* the declaration being analysed
    member,   \* the member of a recursive group being looked at
    changed,  \* whether this round over the group added something
    writers, readers, pushers,
    stamped,  \* the exports seen: the function's effect and whether it pushes
    warned    \* handlers reported as reachable by GET with side effects

vars == <<body, file, pos, member, changed, writers, readers, pushers, stamped, warned>>

Decl == file[pos]
At(kinds) == pos <= Len(file) /\ Decl.kind \in kinds

(***************************************************************************)
(* exp_has_write, exp_has_read_cookie and exp_has_push.                    *)
(***************************************************************************)
HasWrite(f, W) ==
    \/ "write" \in body[f].leaf
    \/ body[f].named \cap W # {}
    \/ body[f].onload \cap W # {}

HasReadCookie(f, R) ==
    \/ "cookie" \in body[f].leaf
    \/ (body[f].named \cup body[f].rpc \cup body[f].onload) \cap R # {}

HasPush(f, W, R, P) ==
    \/ (body[f].named \cup body[f].handlerNamed) \cap P # {}
    \/ (body[f].rpc \cup body[f].onload \cup body[f].handlerRpc) \cap W \cap R # {}

With(f, holds, S) == IF holds THEN S \cup {f} ELSE S

(***************************************************************************)
(* A function is looked at: the pushers are judged by the writers and      *)
(* readers just found.                                                     *)
(***************************************************************************)
Look(f) ==
    /\ writers' = With(f, HasWrite(f, writers), writers)
    /\ readers' = With(f, HasReadCookie(f, readers), readers)
    /\ pushers' = With(f, HasPush(f, writers', readers', pushers), pushers)

AnalyzeVal ==
    /\ At({"val"})
    /\ Look(Decl.fns[1])
    /\ pos' = pos + 1
    /\ UNCHANGED <<body, file, member, changed, stamped, warned>>

(***************************************************************************)
(* A recursive group is gone over until a round adds nothing.              *)
(***************************************************************************)
AnalyzeMember ==
    /\ At({"rec"})
    /\ member <= Len(Decl.fns)
    /\ Look(Decl.fns[member])
    /\ changed' = (changed \/ <<writers, readers, pushers>> # <<writers', readers', pushers'>>)
    /\ member' = member + 1
    /\ UNCHANGED <<body, file, pos, stamped, warned>>

\* Mutant: one round only.
RoundsOver == TRUE
RoundAddedNothing == ~changed

EndRound ==
    /\ At({"rec"})
    /\ member > Len(Decl.fns)
    /\ pos' = IF RoundAddedNothing THEN pos + 1 ELSE pos
    /\ member' = 1
    /\ changed' = FALSE
    /\ UNCHANGED <<body, file, writers, readers, pushers, stamped, warned>>

(***************************************************************************)
(* An export is stamped, and a link that writes is reported.               *)
(***************************************************************************)
\* Mutant: who reads no cookie is taken to write nothing.
ComputeEffectCookies(f) ==
    CASE f \in writers /\ f \in readers -> "ReadCookieWrite"
      [] f \in writers /\ f \in pushers -> "ReadWrite"
      [] OTHER -> "ReadOnly"

ComputeEffect(f) ==
    CASE f \in writers /\ f \in readers -> "ReadCookieWrite"
      [] f \in writers /\ f \notin readers -> "ReadWrite"
      [] OTHER -> "ReadOnly"

GetWithEffects(f) == f \in writers /\ f \notin Safe

AnalyzeExport ==
    /\ At({"link", "action"})
    /\ LET f == Decl.fns[1]
       IN /\ stamped' = stamped \cup
                {[fn |-> f, effect |-> ComputeEffect(f), state |-> f \in pushers]}
          /\ warned' = With(f, Decl.kind = "link" /\ GetWithEffects(f), warned)
    /\ pos' = pos + 1
    /\ UNCHANGED <<body, file, member, changed, writers, readers, pushers>>

(***************************************************************************)
(* Declarations of every other kind are left as they are.                  *)
(***************************************************************************)
AnalyzeOther ==
    /\ At({"other"})
    /\ pos' = pos + 1
    /\ UNCHANGED <<body, file, member, changed, writers, readers, pushers, stamped, warned>>

Begin ==
    /\ pos = 1 /\ member = 1 /\ changed = FALSE
    /\ writers = {} /\ readers = {} /\ pushers = {}
    /\ stamped = {} /\ warned = {}

Init == body \in [Fns -> Bodies] /\ file \in Files /\ Begin

Next == AnalyzeVal \/ AnalyzeMember \/ EndRound \/ AnalyzeExport \/ AnalyzeOther

Spec == Init /\ [][Next]_vars

-----------------------------------------------------------------------------
(***************************************************************************)
(* The type invariant.                                                     *)
(***************************************************************************)
TypeOK ==
    /\ body \in [Fns -> BodyType]
    /\ WellFormed(file)
    /\ pos \in 1..(Len(file) + 1)
    /\ member \in 1..(IF At({"rec"}) THEN Len(Decl.fns) + 1 ELSE 1)
    /\ changed \in BOOLEAN
    /\ writers \subseteq Fns /\ readers \subseteq Fns /\ pushers \subseteq Fns
    /\ stamped \subseteq [fn : Fns, effect : {"ReadCookieWrite", "ReadWrite", "ReadOnly"},
                          state : BOOLEAN]
    /\ warned \subseteq Fns

(***************************************************************************)
(* A set of functions is closed if it holds every function that writes     *)
(* when these write: the functions that really may write are the least     *)
(* closed set.  The same for the readers.                                  *)
(***************************************************************************)
WriteClosed(S) == \A f \in Fns : HasWrite(f, S) => f \in S
CookieClosed(S) == \A f \in Fns : HasReadCookie(f, S) => f \in S

(***************************************************************************)
(* The analysis accuses no function wrongly, whatever the order of the     *)
(* declarations: what it finds is in every closed set (analyze_decl).      *)
(***************************************************************************)
NothingInvented ==
    /\ \A S \in SUBSET Fns : WriteClosed(S) => writers \subseteq S
    /\ \A S \in SUBSET Fns : CookieClosed(S) => readers \subseteq S

(***************************************************************************)
(* A file is in order if functions refer to those of their own recursive   *)
(* group and of earlier declarations only.                                 *)
(***************************************************************************)
Members(i) == IF file[i].kind \in {"val", "rec"} THEN {file[i].fns[k] : k \in DOMAIN file[i].fns}
              ELSE {}
DeclaredBefore(i) == UNION {Members(k) : k \in 1..(i - 1)}
AllRefs(f) == body[f].named \cup body[f].rpc \cup body[f].onload
                  \cup body[f].handlerNamed \cup body[f].handlerRpc
InOrder ==
    \A i \in DOMAIN file :
        /\ \A f \in Members(i) :
              AllRefs(f) \subseteq DeclaredBefore(i) \cup (IF file[i].kind = "rec" THEN Members(i) ELSE {})
        /\ file[i].kind \in {"link", "action"} => file[i].fns[1] \in DeclaredBefore(i)

(***************************************************************************)
(* In a file in order nothing is missed: a function that has been analysed *)
(* and may write, read a cookie or push, given what was found, was found   *)
(* (analyze_decl, the rounds over a recursive group).                      *)
(***************************************************************************)
NothingMissed ==
    InOrder =>
        \A f \in DeclaredBefore(pos) :
            /\ HasWrite(f, writers) => f \in writers
            /\ HasReadCookie(f, readers) => f \in readers
            /\ HasPush(f, writers, readers, pushers) => f \in pushers

(***************************************************************************)
(* Stamps stay true: in a file in order what an export was stamped with is *)
(* what the analysis knows at its end, so that no handler that writes is   *)
(* taken for a page to GET (compute_effect).                               *)
(***************************************************************************)
StampsTrue ==
    InOrder =>
        \A s \in stamped :
            /\ s.effect = "ReadOnly" <=> s.fn \notin writers
            /\ s.effect = "ReadCookieWrite" <=> s.fn \in writers \cap readers
            /\ s.state <=> s.fn \in pushers

(***************************************************************************)
(* A handler exported as a link that may write, and is not listed as safe, *)
(* is reported, and no other (analyze_decl, ExportKind::Link).             *)
(***************************************************************************)
GetsReported ==
    pos > Len(file) /\ InOrder =>
        warned = {f \in writers \ Safe :
                     \E i \in DOMAIN file : file[i].kind = "link" /\ file[i].fns[1] = f}
=============================================================================
