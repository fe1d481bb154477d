------------------------------- MODULE MCCore -------------------------------
(***************************************************************************)
(* Instances of CorePasses for TLC: three functions.                       *)
(***************************************************************************)
EXTENDS CorePasses

MCFns == 1..3
NoRefs == [leaf |-> {}, named |-> {}, rpc |-> {}, onload |-> {},
           handlerNamed |-> {}, handlerRpc |-> {}]

(* Groups of functions that call each other in every way, some writing.    *)
MCGroups == {[NoRefs EXCEPT !.named = s, !.leaf = l] :
                s \in SUBSET MCFns, l \in {{}, {"write"}}}

(* For the analysis alone: one reference of every kind, and every leaf.    *)
MCBodies ==
    {[NoRefs EXCEPT !.leaf = l] : l \in SUBSET {"write", "cookie"}}
    \cup UNION {{[NoRefs EXCEPT !.named = {f}], [NoRefs EXCEPT !.onload = {f}],
                 [NoRefs EXCEPT !.handlerRpc = {f}], [NoRefs EXCEPT !.rpc = {f}],
                 [NoRefs EXCEPT !.handlerNamed = {f}],
                 [NoRefs EXCEPT !.named = {f}, !.leaf = {"cookie"}]} : f \in MCFns}
Exports == <<[kind |-> "link", fns |-> <<1>>], [kind |-> "action", fns |-> <<2>>],
             [kind |-> "link", fns |-> <<3>>]>>
Group(fns) == <<[kind |-> "rec", fns |-> fns]>>
Single(f) == <<[kind |-> "val", fns |-> <<f>>]>>
MCFiles == {Single(1) \o Single(2) \o Single(3) \o Exports,
            Single(3) \o Group(<<1, 2>>) \o Exports,
            Group(<<1, 2, 3>>) \o Exports}
MCSafe == {3}

(* Programs with a type (8), two datatypes declared together (6 and 7), a  *)
(* table (4), a cookie (5), three functions, an export and a task.         *)
MCTypes == {6, 7, 8}
MCOthers == {4, 5}
Term(c, e) == [con |-> c, exp |-> e]
None == Term({}, {})
MCPrograms ==
    {<<[kind |-> "constructor", term |-> None, def |-> [n \in {8} |-> None]],
       [kind |-> "datatype", term |-> None, def |-> [n \in {6, 7} |-> IF n = 6 THEN Term(c, {}) ELSE None]],
       [kind |-> "val", term |-> None, def |-> [n \in {3} |-> Term({7}, {})]],
       [kind |-> "table", term |-> t, def |-> [n \in {4} |-> t]],
       [kind |-> "cookie", term |-> None, def |-> [n \in {5} |-> Term({6}, {})]],
       [kind |-> "rec", term |-> None, def |-> [n \in {1, 2} |-> IF n = 1 THEN r ELSE s]],
       [kind |-> "export", term |-> Term({}, {e}), def |-> [n \in {} |-> None]],
       [kind |-> "task", term |-> Term({}, k), def |-> [n \in {} |-> None]]>> :
        c \in {{}, {7, 8}}, t \in {None, Term({6}, {}), Term({}, {3})},
        r \in {Term(x, y) : x \in SUBSET {6}, y \in {{2}, {2, 4}, {2, 5}, {3}}},
        s \in {None, Term({}, {1}), Term({7}, {1, 3})}, e \in 1..3, k \in {{}, {2}, {4}}}
=============================================================================
