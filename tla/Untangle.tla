------------------------------ MODULE Untangle ------------------------------
(***************************************************************************)
(* The untangling of a group of functions declared recursive together      *)
(* (src/src/core/untangling.rs): Tarjan's algorithm, written with explicit *)
(* stacks, splits the group into its strongly connected components, and    *)
(* each component becomes a declaration of its own.                        *)
(*                                                                         *)
(* One step of the model is one pass through the loop over successors or   *)
(* one finished frame.  The bounds on the loops, which exist so that a     *)
(* mutated program ends, are not modelled: TypeOK shows that they are      *)
(* never reached.                                                          *)
(***************************************************************************)
EXTENDS Integers, Sequences, FiniteSets, SequencesExt

CONSTANT N  \* bound: the members of the group are 1..N

Nodes == 1..N

VARIABLES
    deps,      \* dependency_map: the members each member's body refers to
    outside,   \* the members whose body refers to something outside the group
    pc,        \* "start", "search" or "done"
    index,     \* discovery_index, -1 for a node not discovered
    lowlink,
    onStack,
    stack,     \* tarjan_stack
    frames,    \* dfs_stack: nodes with the successors still to look at
    sccs,      \* sccs_reverse_topo
    decls,     \* the declarations put in the place of the group
    steps      \* rounds of the outer loop since its start node

vars == <<deps, outside, pc, index, lowlink, onStack, stack, frames, sccs, decls, steps>>

Least(S) == CHOOSE x \in S : \A y \in S : x <= y
Greatest(S) == CHOOSE x \in S : \A y \in S : x >= y
Lower(a, b) == IF a <= b THEN a ELSE b

Discovered == {n \in Nodes : index[n] # -1}

(***************************************************************************)
(* A node is discovered: it gets the next index and is pushed on both      *)
(* stacks, with all its successors to look at.                             *)
(***************************************************************************)
Discover(n) ==
    /\ index' = [index EXCEPT ![n] = Cardinality(Discovered)]
    /\ lowlink' = [lowlink EXCEPT ![n] = Cardinality(Discovered)]
    /\ onStack' = onStack \cup {n}
    /\ stack' = Append(stack, n)

(***************************************************************************)
(* split_val_rec_into_sccs: a reference out of the group keeps it whole.   *)
(***************************************************************************)
NonRecursiveSingleton(scc) == \E n \in scc : scc = {n} /\ n \notin deps[n]

Declared(components) ==
    [i \in DOMAIN components |->
        [rec |-> ~NonRecursiveSingleton(components[i]), members |-> components[i]]]

KeepGroup ==
    /\ pc = "start"
    /\ outside # {}
    /\ decls' = Declared(<<Nodes>>)
    /\ pc' = "done"
    /\ UNCHANGED <<deps, outside, index, lowlink, onStack, stack, frames, sccs, steps>>

BeginSearch ==
    /\ pc = "start"
    /\ outside = {}
    /\ pc' = "search"
    /\ UNCHANGED <<deps, outside, index, lowlink, onStack, stack, frames, sccs, decls, steps>>

(* The next start node, in order of the ids.                               *)
StartNode ==
    /\ pc = "search" /\ frames = <<>>
    /\ Discovered # Nodes
    /\ LET n == Least(Nodes \ Discovered)
       IN /\ Discover(n)
          /\ frames' = <<[node |-> n, rest |-> deps[n]]>>
    /\ steps' = 0
    /\ UNCHANGED <<deps, outside, pc, sccs, decls>>

(* The top frame pops its next successor, from the end of a sorted list.   *)
Top == frames[Len(frames)]
NextSuccessor == Greatest(Top.rest)
\* Mutant: the successor stays in the list.
PoppedNever == frames
Popped == [frames EXCEPT ![Len(frames)].rest = @ \ {NextSuccessor}]
Looking == pc = "search" /\ frames # <<>> /\ Top.rest # {}

TreeEdge ==
    /\ Looking
    /\ index[NextSuccessor] = -1
    /\ Discover(NextSuccessor)
    /\ frames' = Append(Popped, [node |-> NextSuccessor, rest |-> deps[NextSuccessor]])
    /\ steps' = steps + 1
    /\ UNCHANGED <<deps, outside, pc, sccs, decls>>

BackEdge ==
    /\ Looking
    /\ NextSuccessor \in onStack
    /\ lowlink' = [lowlink EXCEPT ![Top.node] = Lower(@, index[NextSuccessor])]
    /\ frames' = Popped
    /\ UNCHANGED <<deps, outside, pc, index, onStack, stack, sccs, decls, steps>>

CrossEdge ==
    /\ Looking
    /\ index[NextSuccessor] # -1 /\ NextSuccessor \notin onStack
    /\ frames' = Popped
    /\ UNCHANGED <<deps, outside, pc, index, lowlink, onStack, stack, sccs, decls, steps>>

(***************************************************************************)
(* A frame without successors: a root pops its component off the stack,    *)
(* and the lowlink goes to the parent.                                     *)
(***************************************************************************)
Depth(n) == CHOOSE i \in DOMAIN stack : stack[i] = n
Component(n) == {stack[i] : i \in Depth(n)..Len(stack)}

\* Mutant: the parent does not learn the lowlink of its child.
LowlinksKept(fs) == lowlink
LowlinksPassed(fs) ==
    IF fs = <<>> THEN lowlink
    ELSE [lowlink EXCEPT ![Last(fs).node] = Lower(@, lowlink[Top.node])]

OffStack(scc) == onStack \ scc

Finish ==
    /\ pc = "search" /\ frames # <<>> /\ Top.rest = {}
    /\ IF lowlink[Top.node] = index[Top.node]
       THEN LET scc == Component(Top.node)
            IN /\ sccs' = Append(sccs, scc)
               /\ onStack' = OffStack(scc)
               /\ stack' = SubSeq(stack, 1, Depth(Top.node) - 1)
       ELSE UNCHANGED <<sccs, onStack, stack>>
    /\ frames' = Front(frames)
    /\ lowlink' = LowlinksPassed(Front(frames))
    /\ steps' = steps + 1
    /\ UNCHANGED <<deps, outside, pc, index, decls>>

Emitted == Reverse(sccs)

EndSearch ==
    /\ pc = "search" /\ frames = <<>>
    /\ Discovered = Nodes
    /\ decls' = Declared(Emitted)
    /\ pc' = "done"
    /\ UNCHANGED <<deps, outside, index, lowlink, onStack, stack, frames, sccs, steps>>

Begin ==
    /\ pc = "start"
    /\ index = [n \in Nodes |-> -1]
    /\ lowlink = [n \in Nodes |-> -1]
    /\ onStack = {}
    /\ stack = <<>> /\ frames = <<>> /\ sccs = <<>> /\ decls = <<>>
    /\ steps = 0

Init == deps \in [Nodes -> SUBSET Nodes] /\ outside \in SUBSET Nodes /\ Begin

Next == KeepGroup \/ BeginSearch \/ StartNode \/ TreeEdge \/ BackEdge \/ CrossEdge
            \/ Finish \/ EndSearch

Spec == Init /\ [][Next]_vars

-----------------------------------------------------------------------------
(***************************************************************************)
(* The type invariant.  A start node takes two rounds of the outer loop    *)
(* per node at most, far below outer_step_budget: the bound never cuts the *)
(* search short.                                                           *)
(***************************************************************************)
TypeOK ==
    /\ deps \in [Nodes -> SUBSET Nodes]
    /\ outside \in SUBSET Nodes
    /\ pc \in {"start", "search", "done"}
    /\ index \in [Nodes -> -1..(N - 1)]
    /\ lowlink \in [Nodes -> -1..(N - 1)]
    /\ onStack \in SUBSET Nodes
    /\ stack \in Seq(Nodes)
    /\ frames \in Seq([node : Nodes, rest : SUBSET Nodes])
    /\ sccs \in Seq(SUBSET Nodes)
    /\ decls \in Seq([rec : BOOLEAN, members : SUBSET Nodes])
    /\ steps \in 0..(2 * N - 1)

(***************************************************************************)
(* Reachability in the group: what lies in every set that holds a member   *)
(* and all that its own members refer to.                                  *)
(***************************************************************************)
Closed(S) == \A n \in S : deps[n] \subseteq S
Reach(m) == {n \in Nodes : \A S \in SUBSET Nodes : m \in S /\ Closed(S) => n \in S}
Connected(n) == {m \in Reach(n) : n \in Reach(m)}

(***************************************************************************)
(* What comes off the stack is a strongly connected component: two members *)
(* are in one declaration exactly when each needs the other (tarjan, and   *)
(* what a group with outside references is exempt from).                   *)
(***************************************************************************)
ComponentsExact == \A i \in DOMAIN sccs : \E n \in Nodes : sccs[i] = Connected(n)

(***************************************************************************)
(* Every member is declared exactly once, and without rec only if nothing  *)
(* it needs needs it (split_val_rec_into_sccs).                            *)
(***************************************************************************)
DeclaredOnce ==
    pc = "done" =>
        /\ \A n \in Nodes : \E i \in DOMAIN decls :
              \A j \in DOMAIN decls : n \in decls[j].members <=> j = i
        /\ \A i \in DOMAIN decls : ~decls[i].rec =>
              \A n \in decls[i].members : \A m \in deps[n] : n \notin Reach(m)

(***************************************************************************)
(* The order the unit test of untangling.rs asserts (lines 711 to 718):    *)
(* a declaration comes before those it needs.                              *)
(***************************************************************************)
Needs(i, j) == \E n \in decls[i].members : deps[n] \cap decls[j].members # {}

DependentsFirst ==
    pc = "done" => \A i, j \in DOMAIN decls : Needs(i, j) => i <= j

=============================================================================
