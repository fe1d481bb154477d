--------------------------- MODULE UntangleProofs ---------------------------
(***************************************************************************)
(* Theorems about the untangling of recursive groups, for groups of any    *)
(* size: Tarjan's algorithm with explicit stacks finds the strongly        *)
(* connected components, each once, dependents first.                      *)
(***************************************************************************)
EXTENDS Untangle, SequenceTheorems, FiniteSetTheorems, WellFoundedInduction, TLAPS

-----------------------------------------------------------------------------
(***************************************************************************)
(* The inductive invariant.                                                *)
(***************************************************************************)
Frame == [node : Nodes, rest : SUBSET Nodes]
Node(i) == frames[i].node
Gray == {Node(i) : i \in DOMAIN frames}
Done == Discovered \ onStack

\* The successors of a node that are not left in a frame.
Explored(x) == {y \in deps[x] : \A i \in DOMAIN frames : Node(i) = x => y \notin frames[i].rest}

\* The stack holds its nodes in the order in which they were discovered.
StackSorted ==
    /\ \A i \in DOMAIN stack : stack[i] \in onStack
    /\ \A n \in onStack : \E i \in DOMAIN stack : stack[i] = n
    /\ \A i, j \in DOMAIN stack : i < j => index[stack[i]] < index[stack[j]]
    /\ onStack \subseteq Discovered
    /\ \A n \in Nodes : index[n] < Cardinality(Discovered)

\* So do the frames, whose nodes are on the stack.
FramesSorted ==
    /\ \A i \in DOMAIN frames : Node(i) \in onStack /\ frames[i].rest \subseteq deps[Node(i)]
    /\ \A i, j \in DOMAIN frames : i < j => index[Node(i)] < index[Node(j)]
    /\ \A x \in Discovered : Explored(x) \subseteq Discovered

\* A node with a frame reaches all above it, and every other node of the
\* stack reaches one with a frame below it.
Linked ==
    /\ \A i \in DOMAIN frames : \A x \in onStack : index[Node(i)] <= index[x] => x \in Reach(Node(i))
    /\ \A x \in onStack \ Gray : \E i \in DOMAIN frames :
          index[Node(i)] < index[x] /\ Node(i) \in Reach(x)

\* The nodes of the stack from a frame to the next.
Owned(i) ==
    {x \in onStack : /\ index[Node(i)] <= index[x]
                     /\ \A j \in DOMAIN frames : i < j => index[x] < index[Node(j)]}

\* The lowlink of a frame is the index of a node it reaches, and no edge
\* explored from what it owns leads to one below.
LowlinkSound ==
    \A i \in DOMAIN frames :
        /\ lowlink[Node(i)] <= index[Node(i)]
        /\ \E y \in onStack : index[y] = lowlink[Node(i)] /\ y \in Reach(Node(i))
LowlinkLowest ==
    \A i \in DOMAIN frames : \A x \in Owned(i) : \A y \in Explored(x) \cap onStack :
        lowlink[Node(i)] <= index[y]

\* What has left the stack is in one component, and leads to no later one.
Emission ==
    /\ \A n \in Nodes : n \in Done <=> \E i \in DOMAIN sccs : n \in sccs[i]
    /\ \A i, j \in DOMAIN sccs : sccs[i] \cap sccs[j] # {} => i = j
    /\ \A i \in DOMAIN sccs : \A n \in sccs[i] : \A m \in deps[n] : \E j \in 1..i : m \in sccs[j]

StepsBounded ==
    Discovered # {} => steps + Len(frames) + 1 <= 2 * Cardinality(Discovered)

Types == N \in Nat \ {0} /\ TypeOK

IInv ==
    /\ Types /\ StackSorted /\ FramesSorted /\ Linked /\ LowlinkSound /\ LowlinkLowest
    /\ Emission /\ ComponentsExact /\ StepsBounded /\ DeclaredOnce /\ DependentsFirst
    /\ (Discovered = {} => steps = 0)

-----------------------------------------------------------------------------
(***************************************************************************)
(* Nodes and sets of them.                                                 *)
(***************************************************************************)
LEMMA NodesFinite ==
    ASSUME N \in Nat \ {0}
    PROVE  /\ N \in Nat /\ N >= 1
           /\ \A S \in SUBSET Nodes :
                /\ IsFiniteSet(S) /\ Cardinality(S) \in Nat /\ Cardinality(S) <= N
                /\ Cardinality(S) = N => S = Nodes
<1>1. N \in Nat /\ N >= 1
  OBVIOUS
<1>2. IsFiniteSet(Nodes) /\ Cardinality(Nodes) = N
  BY <1>1, FS_Interval DEF Nodes
<1>3. ASSUME NEW S \in SUBSET Nodes
      PROVE  /\ IsFiniteSet(S) /\ Cardinality(S) \in Nat /\ Cardinality(S) <= N
             /\ Cardinality(S) = N => S = Nodes
  BY <1>2, FS_Subset, FS_CardinalityType
<1> QED
  BY <1>1, <1>3

LEMMA LeastMember == ASSUME NEW S, S \subseteq Nat, S # {} PROVE Least(S) \in S /\ \A y \in S : Least(S) <= y
<1> DEFINE R == OpToRel(<, Nat)
<1>1. IsWellFoundedOn(R, Nat)
  BY NatLessThanWellFounded
<1>2. \A x, y \in Nat : y < x => <<y, x>> \in R
  BY DEF OpToRel
<1> HIDE DEF R
<1>3. PICK x \in S : \A y \in S : ~(<<y, x>> \in R)
  BY <1>1, WFMin
<1>4. \A y \in S : ~(y < x)
  BY <1>2, <1>3
<1>5. \A y \in S : x <= y
  BY <1>4
<1> QED
  BY <1>5 DEF Least

LEMMA GreatestMember == ASSUME N \in Nat \ {0}, NEW S \in SUBSET Nodes, S # {} PROVE Greatest(S) \in S
<1> DEFINE T == {n \in 0..N : N - n \in S}
<1>1. \A y \in S : N - y \in T /\ y \in Nat /\ N - (N - y) = y
  BY NodesFinite DEF Nodes
<1>2. T \subseteq Nat /\ T # {}
  BY <1>1, NodesFinite
<1>3. Least(T) \in T /\ \A y \in T : Least(T) <= y
  <2> HIDE DEF T
  <2> QED BY <1>2, LeastMember
<1>4. \A y \in S : N - Least(T) >= y /\ N - Least(T) \in S
  BY <1>1, <1>2, <1>3, NodesFinite
<1> QED
  BY <1>4 DEF Greatest

-----------------------------------------------------------------------------
(***************************************************************************)
(* Reachability.                                                           *)
(***************************************************************************)
Typed == deps \in [Nodes -> SUBSET Nodes]

LEMMA ReachWithin ==
    ASSUME NEW S \in SUBSET Nodes, Closed(S), NEW m \in S
    PROVE  Reach(m) \subseteq S
BY DEF Reach

LEMMA ReachSelf == ASSUME NEW m \in Nodes PROVE m \in Reach(m)
BY DEF Reach

LEMMA ReachStep ==
    ASSUME Typed, NEW m \in Nodes, NEW n \in Reach(m), NEW y \in deps[n]
    PROVE  y \in Reach(m)
<1>1. n \in Nodes /\ y \in Nodes
  BY DEF Reach, Typed
<1>2. ASSUME NEW S \in SUBSET Nodes, m \in S, Closed(S) PROVE y \in S
  <2>1. n \in S
    BY <1>2 DEF Reach
  <2> QED BY <1>2, <2>1 DEF Closed
<1> QED
  BY <1>1, <1>2 DEF Reach

LEMMA ReachTrans ==
    ASSUME Typed, NEW m \in Nodes, NEW n \in Reach(m), NEW y \in Reach(n)
    PROVE  y \in Reach(m)
<1>1. Reach(m) \in SUBSET Nodes
  BY DEF Reach
<1>2. Closed(Reach(m))
  BY ReachStep DEF Closed
<1> QED
  BY <1>1, <1>2, ReachWithin

LEMMA ReachEdge ==
    ASSUME Typed, NEW m \in Nodes, NEW y \in deps[m]
    PROVE  y \in Reach(m)
BY ReachSelf, ReachStep

LEMMA ReachFixed ==
    ASSUME deps' = deps
    PROVE  /\ \A m : Reach(m)' = Reach(m)
           /\ \A m : Connected(m)' = Connected(m)
<1>1. ASSUME NEW m PROVE Reach(m)' = Reach(m)
  <2>1. \A S : Closed(S)' <=> Closed(S)
    BY DEF Closed
  <2> QED BY <2>1 DEF Reach
<1> QED
  BY <1>1 DEF Connected

-----------------------------------------------------------------------------
(***************************************************************************)
(* A node is discovered.                                                   *)
(***************************************************************************)
LEMMA Counted ==
    ASSUME Types
    PROVE  /\ Cardinality(Discovered) \in 0..N
           /\ \A n \in Nodes : n \in Discovered <=> index[n] >= 0
           /\ \A n \in Nodes : index[n] \in Int /\ lowlink[n] \in Int
           /\ Discovered \in SUBSET Nodes
<1>1. Discovered \in SUBSET Nodes
  BY DEF Discovered
<1> QED
  BY <1>1, NodesFinite DEF Types, TypeOK, Discovered

LEMMA Discovering ==
    ASSUME Types, StackSorted, NEW n \in Nodes, n \notin Discovered, Discover(n)
    PROVE  /\ Discovered' = Discovered \cup {n}
           /\ Cardinality(Discovered)' = Cardinality(Discovered) + 1
           /\ index' \in [Nodes -> -1..(N - 1)] /\ lowlink' \in [Nodes -> -1..(N - 1)]
           /\ index'[n] = Cardinality(Discovered) /\ lowlink'[n] = Cardinality(Discovered)
           /\ \A x \in Nodes : x # n => index'[x] = index[x] /\ lowlink'[x] = lowlink[x]
           /\ \A x \in Nodes : x # n => index'[x] < index'[n]
           /\ n \notin onStack /\ onStack' = onStack \cup {n}
           /\ StackSorted' /\ onStack' \in SUBSET Nodes /\ stack' \in Seq(Nodes)
           /\ Done' = Done
<1> USE NodesFinite DEF Types
<1> DEFINE d == Cardinality(Discovered)
<1>1. Discovered \in SUBSET Nodes /\ d \in 0..N
  BY Counted
<1>2. d \in 0..(N - 1)
  BY <1>1
<1>3. /\ index' = [index EXCEPT ![n] = d] /\ lowlink' = [lowlink EXCEPT ![n] = d]
      /\ onStack' = onStack \cup {n} /\ stack' = Append(stack, n)
  BY DEF Discover
<1>4. /\ index' \in [Nodes -> -1..(N - 1)] /\ lowlink' \in [Nodes -> -1..(N - 1)]
      /\ index'[n] = d /\ lowlink'[n] = d
      /\ \A x \in Nodes : x # n => index'[x] = index[x] /\ lowlink'[x] = lowlink[x]
  BY <1>2, <1>3 DEF Types, TypeOK
<1>5. Discovered' = Discovered \cup {n}
  BY <1>2, <1>4 DEF Discovered
<1>6. Cardinality(Discovered') = d + 1
  BY <1>1, <1>5, FS_AddElement
<1>7. \A x \in Nodes : x # n => index'[x] < index'[n]
  BY <1>4 DEF StackSorted
<1>8. n \notin onStack /\ onStack' \in SUBSET Nodes /\ stack' \in Seq(Nodes)
  BY <1>3 DEF StackSorted, Types, TypeOK
<1>9. StackSorted'
  <2>1. /\ Len(stack) \in Nat /\ DOMAIN stack = 1..Len(stack) /\ DOMAIN stack' = 1..(Len(stack) + 1)
        /\ \A i \in 1..Len(stack) : stack'[i] = stack[i] /\ stack[i] \in Nodes /\ stack[i] # n
        /\ stack'[Len(stack) + 1] = n
    BY <1>3, <1>8 DEF Types, TypeOK, StackSorted
  <2>2. \A i \in DOMAIN stack' : stack'[i] \in onStack'
    BY <1>3, <2>1 DEF StackSorted
  <2>3. \A x \in onStack' : \E i \in DOMAIN stack' : stack'[i] = x
    <3>1. \A x \in onStack : \E i \in DOMAIN stack : stack[i] = x
      BY DEF StackSorted
    <3> QED BY <1>3, <2>1, <3>1
  <2>4. \A i, j \in DOMAIN stack' : i < j => index'[stack'[i]] < index'[stack'[j]]
    <3>1. ASSUME NEW i \in DOMAIN stack', NEW j \in DOMAIN stack', i < j
          PROVE  index'[stack'[i]] < index'[stack'[j]]
      <4>1. CASE j = Len(stack) + 1
        BY <1>7, <2>1, <3>1, <4>1
      <4>2. CASE j # Len(stack) + 1
        <5>1. i \in DOMAIN stack /\ j \in DOMAIN stack
          BY <2>1, <3>1, <4>2
        <5>2. index[stack[i]] < index[stack[j]]
          BY <3>1, <5>1 DEF StackSorted
        <5> QED BY <1>4, <2>1, <5>1, <5>2
      <4> QED BY <4>1, <4>2
    <3> QED BY <3>1
  <2>5. onStack' \subseteq Discovered'
    BY <1>3, <1>5 DEF StackSorted
  <2>6. \A x \in Nodes : index'[x] < Cardinality(Discovered')
    BY <1>2, <1>4, <1>6, <1>7
  <2> QED BY <2>2, <2>3, <2>4, <2>5, <2>6 DEF StackSorted
<1>10. Done' = Done
  BY <1>3, <1>5, <1>8 DEF Done
<1> QED
  BY <1>3, <1>4, <1>5, <1>6, <1>7, <1>8, <1>9, <1>10

(***************************************************************************)
(* What is on top.                                                         *)
(***************************************************************************)
LEMMA FrameFacts ==
    ASSUME Types, FramesSorted
    PROVE  /\ Len(frames) \in Nat /\ DOMAIN frames = 1..Len(frames)
           /\ \A i \in DOMAIN frames : Node(i) \in Nodes /\ Node(i) \in onStack
                                          /\ frames[i].rest \in SUBSET Nodes
           /\ \A i, j \in DOMAIN frames : Node(i) = Node(j) => i = j
           /\ frames # <<>> => Len(frames) >= 1 /\ Top.node = Node(Len(frames))
<1>1. /\ Len(frames) \in Nat /\ DOMAIN frames = 1..Len(frames)
      /\ \A i \in DOMAIN frames : Node(i) \in Nodes /\ frames[i].rest \in SUBSET Nodes
  <2>1. frames \in Seq([node : Nodes, rest : SUBSET Nodes])
    BY DEF Types, TypeOK
  <2>2. \A i \in 1..Len(frames) : frames[i] \in [node : Nodes, rest : SUBSET Nodes]
    BY <2>1, ElementOfSeq
  <2> QED BY <2>1, <2>2 DEF Node
<1>2. \A i \in DOMAIN frames : Node(i) \in onStack
  BY DEF FramesSorted
<1>3. \A i, j \in DOMAIN frames : Node(i) = Node(j) => i = j
  BY <1>1, Counted DEF FramesSorted
<1>4. frames # <<>> => Len(frames) >= 1 /\ Top.node = Node(Len(frames))
  <2>1. frames \in Seq([node : Nodes, rest : SUBSET Nodes])
    BY DEF Types, TypeOK
  <2> QED BY <1>1, <2>1 DEF Top, Node
<1> QED
  BY <1>1, <1>2, <1>3, <1>4

LEMMA SuccessorLeft ==
    ASSUME Types, FramesSorted, Looking
    PROVE  /\ NextSuccessor \in Nodes /\ NextSuccessor \in deps[Top.node]
           /\ NextSuccessor \in Top.rest
<1>1. Top.rest \in SUBSET Nodes /\ Top.rest # {} /\ Top.rest \subseteq deps[Top.node]
  BY FrameFacts DEF Looking, Top, FramesSorted, Node
<1> QED
  BY <1>1, GreatestMember DEF NextSuccessor, Types

LEMMA Popping ==
    ASSUME Types, FramesSorted, Looking
    PROVE  /\ Popped \in Seq([node : Nodes, rest : SUBSET Nodes]) /\ Len(Popped) = Len(frames)
           /\ DOMAIN Popped = DOMAIN frames
           /\ \A i \in DOMAIN frames : /\ Popped[i].node = Node(i)
                                         /\ Popped[i].rest \subseteq frames[i].rest
                                         /\ \A y \in frames[i].rest :
                                              y \in Popped[i].rest \/ (i = Len(frames) /\ y = NextSuccessor)
<1> DEFINE k == Len(frames)
           top == [frames[k] EXCEPT !.rest = frames[k].rest \ {NextSuccessor}]
<1>1. frames \in Seq(Frame)
  BY DEF Types, TypeOK, Frame
<1>2. k \in Nat /\ k >= 1 /\ DOMAIN frames = 1..k
  BY FrameFacts DEF Looking
<1>3. frames[k] \in Frame
  BY <1>1, <1>2, ElementOfSeq
<1>4. top \in Frame /\ top.node = frames[k].node /\ top.rest = frames[k].rest \ {NextSuccessor}
  BY <1>3 DEF Frame
<1>5. Popped = [frames EXCEPT ![k] = top]
  BY DEF Popped
<1> HIDE DEF top
<1>6. /\ Popped \in Seq(Frame) /\ Len(Popped) = k
      /\ \A i \in 1..k : Popped[i] = IF i = k THEN top ELSE frames[i]
  BY <1>1, <1>2, <1>4, <1>5, ExceptSeq
<1>7. DOMAIN Popped = 1..k
  BY <1>6, LenProperties
<1>8. \A i \in 1..k : /\ Popped[i].node = frames[i].node
                       /\ Popped[i].rest \subseteq frames[i].rest
                       /\ \A y \in frames[i].rest :
                            y \in Popped[i].rest \/ (i = k /\ y = NextSuccessor)
  BY <1>4, <1>6
<1> QED
  BY <1>2, <1>6, <1>7, <1>8 DEF Node, Frame
LEMMA PoppedFrames ==
    ASSUME Types, FramesSorted, Looking, frames' = Popped, deps' = deps
    PROVE  /\ frames' \in Seq(Frame) /\ Len(frames') = Len(frames) /\ DOMAIN frames' = DOMAIN frames
           /\ \A i \in DOMAIN frames : Node(i)' = Node(i)
           /\ Gray' = Gray
           /\ \A i \in DOMAIN frames : frames'[i].rest \subseteq deps[Node(i)]
           /\ \A x \in Nodes, y \in Nodes : y \in Explored(x)' =>
                 y \in Explored(x) \/ (x = Top.node /\ y = NextSuccessor)
<1>1. /\ frames' \in Seq(Frame) /\ Len(frames') = Len(frames) /\ DOMAIN frames' = DOMAIN frames
      /\ \A i \in DOMAIN frames : Node(i)' = Node(i)
      /\ \A i \in DOMAIN frames : frames'[i].rest \subseteq deps[Node(i)]
  BY Popping DEF Frame, Node, FramesSorted
<1>2. Gray' = Gray
  BY <1>1 DEF Gray
<1>3. ASSUME NEW x \in Nodes, NEW y \in Nodes, y \in Explored(x)', y \notin Explored(x)
      PROVE  x = Top.node /\ y = NextSuccessor
  <2>1. y \in deps[x] /\ \A i \in DOMAIN frames : Node(i) = x => y \notin frames'[i].rest
    BY <1>1, <1>3 DEF Explored
  <2>2. PICK i \in DOMAIN frames : Node(i) = x /\ y \in frames[i].rest
    BY <1>3, <2>1 DEF Explored
  <2>3. i = Len(frames) /\ y = NextSuccessor
    BY <2>1, <2>2, Popping
  <2> QED BY <2>2, <2>3, FrameFacts DEF Looking
<1> QED
  BY <1>1, <1>2, <1>3

(***************************************************************************)
(* The steps of the search.                                                *)
(***************************************************************************)
LEMMA EmittedKept ==
    ASSUME IInv, UNCHANGED <<deps, sccs>>, Done' = Done, pc' # "done"
    PROVE  Emission' /\ ComponentsExact' /\ DeclaredOnce' /\ DependentsFirst'
<1>1. Emission'
  BY DEF IInv, Emission
<1>2. ComponentsExact'
  BY ReachFixed DEF IInv, ComponentsExact
<1> QED
  BY <1>1, <1>2 DEF DeclaredOnce, DependentsFirst

LEMMA CrossEdgeOK == ASSUME IInv, CrossEdge PROVE IInv'
<1> DEFINE g == Top.node
           y == NextSuccessor
<1>1. Types /\ FramesSorted /\ Looking /\ Typed
  BY DEF IInv, CrossEdge, Types, TypeOK, Typed
<1>2. /\ UNCHANGED <<deps, outside, pc, index, lowlink, onStack, stack, sccs, decls, steps>>
      /\ frames' = Popped /\ y \in Nodes /\ y \in Discovered /\ y \notin onStack
  BY <1>1, SuccessorLeft, Counted DEF CrossEdge, Discovered
<1>3. /\ Discovered' = Discovered /\ Done' = Done
      /\ \A m : Reach(m)' = Reach(m)
  BY <1>2, ReachFixed DEF Discovered, Done
<1>4. Types'
  BY <1>1, <1>2, PoppedFrames DEF Types, TypeOK, Frame
<1>5. StackSorted'
  BY <1>2, <1>3 DEF IInv, StackSorted
<1>6. /\ DOMAIN frames' = DOMAIN frames /\ \A i \in DOMAIN frames : Node(i)' = Node(i)
      /\ Len(frames') = Len(frames) /\ Gray' = Gray
      /\ \A i \in DOMAIN frames : frames'[i].rest \subseteq deps[Node(i)]
  BY <1>1, <1>2, PoppedFrames
<1>7. \A x \in Nodes : Explored(x)' \subseteq Explored(x) \cup {y}
  <2>1. \A x \in Nodes : Explored(x)' \subseteq Nodes
    BY <1>1, <1>2 DEF Explored, Typed
  <2> QED BY <1>1, <1>2, <2>1, PoppedFrames
<1>8. FramesSorted'
  <2>1. \A x \in Discovered : Explored(x)' \subseteq Discovered
    BY <1>1, <1>2, <1>7, Counted DEF FramesSorted
  <2> QED BY <1>1, <1>2, <1>3, <1>6, <2>1 DEF FramesSorted
<1>9. Linked'
  BY <1>2, <1>3, <1>6 DEF IInv, Linked
<1>10. LowlinkSound'
  BY <1>2, <1>3, <1>6 DEF IInv, LowlinkSound
<1>11. LowlinkLowest'
  <2>1. \A i \in DOMAIN frames : Owned(i)' = Owned(i) /\ Owned(i) \subseteq Nodes
    BY <1>1, <1>2, <1>6 DEF Owned, Types, TypeOK
  <2> QED BY <1>2, <1>6, <1>7, <2>1 DEF IInv, LowlinkLowest
<1>12. StepsBounded' /\ (Discovered' = {} => steps' = 0)
  BY <1>2, <1>3, <1>6 DEF IInv, StepsBounded
<1> QED
  <2>1. pc' # "done"
    BY <1>1, <1>2 DEF Looking
  <2> QED BY <1>2, <1>3, <1>4, <1>5, <1>8, <1>9, <1>10, <1>11, <1>12, <2>1, EmittedKept DEF IInv

LEMMA BackEdgeOK == ASSUME IInv, BackEdge PROVE IInv'
<1> DEFINE g == Top.node
           y == NextSuccessor
           k == Len(frames)
<1>1. Types /\ FramesSorted /\ Looking /\ Typed
  BY DEF IInv, BackEdge, Types, TypeOK, Typed
<1>2. /\ UNCHANGED <<deps, outside, pc, index, onStack, stack, sccs, decls, steps>>
      /\ lowlink' = [lowlink EXCEPT ![g] = Lower(@, index[y])]
      /\ frames' = Popped /\ y \in Nodes /\ y \in onStack /\ y \in Discovered /\ y \in deps[g]
  BY <1>1, SuccessorLeft DEF BackEdge, IInv, StackSorted
<1>3. /\ Discovered' = Discovered /\ Done' = Done
      /\ \A m : Reach(m)' = Reach(m)
  BY <1>2, ReachFixed DEF Discovered, Done
<1>4. k \in DOMAIN frames /\ Node(k) = g /\ g \in Nodes /\ \A i \in DOMAIN frames : Node(i) = g => i = k
  BY <1>1, FrameFacts DEF Looking
<1>5. /\ lowlink'[g] <= lowlink[g] /\ lowlink'[g] <= index[y]
      /\ lowlink'[g] \in {lowlink[g], index[y]}
      /\ \A x \in Nodes : x # g => lowlink'[x] = lowlink[x]
      /\ lowlink' \in [Nodes -> -1..(N - 1)]
  <2>1. lowlink \in [Nodes -> -1..(N - 1)] /\ index \in [Nodes -> -1..(N - 1)]
    BY <1>1 DEF Types, TypeOK
  <2>2. /\ Lower(lowlink[g], index[y]) <= lowlink[g] /\ Lower(lowlink[g], index[y]) <= index[y]
        /\ Lower(lowlink[g], index[y]) \in {lowlink[g], index[y]}
    BY <1>1, <1>2, <1>4, Counted DEF Lower
  <2> QED BY <1>2, <1>4, <2>1, <2>2
<1>6. \A x \in Nodes : lowlink'[x] \in Int /\ lowlink[x] \in Int /\ index[x] \in Int /\ lowlink'[x] <= lowlink[x]
  BY <1>1, <1>5, Counted
<1>7. Types'
  BY <1>1, <1>2, <1>5, PoppedFrames DEF Types, TypeOK, Frame
<1>8. StackSorted'
  BY <1>2, <1>3 DEF IInv, StackSorted
<1>9. /\ DOMAIN frames' = DOMAIN frames /\ \A i \in DOMAIN frames : Node(i)' = Node(i)
      /\ Len(frames') = Len(frames) /\ Gray' = Gray
      /\ \A i \in DOMAIN frames : frames'[i].rest \subseteq deps[Node(i)]
  BY <1>1, <1>2, PoppedFrames
<1>10. \A x \in Nodes, z \in Nodes : z \in Explored(x)' => z \in Explored(x) \/ (x = g /\ z = y)
  BY <1>1, <1>2, PoppedFrames
<1>11. \A x \in Nodes : Explored(x)' \subseteq Nodes
  BY <1>1, <1>2 DEF Explored, Typed
<1>12. FramesSorted'
  <2>1. \A x \in Discovered : Explored(x)' \subseteq Discovered
    BY <1>1, <1>2, <1>10, <1>11, Counted DEF FramesSorted
  <2> QED BY <1>1, <1>2, <1>3, <1>9, <2>1 DEF FramesSorted
<1>13. Linked'
  BY <1>2, <1>3, <1>9 DEF IInv, Linked
<1>14. LowlinkSound'
  <2>1. SUFFICES ASSUME NEW i \in DOMAIN frames
                 PROVE  /\ lowlink'[Node(i)] <= index[Node(i)]
                        /\ \E z \in onStack : index[z] = lowlink'[Node(i)] /\ z \in Reach(Node(i))
    BY <1>2, <1>3, <1>9 DEF LowlinkSound
  <2>2. Node(i) \in Nodes /\ lowlink[Node(i)] <= index[Node(i)]
    BY <1>1, FrameFacts DEF IInv, LowlinkSound
  <2>3. lowlink'[Node(i)] <= index[Node(i)]
    BY <1>6, <2>2
  <2>4. CASE lowlink'[Node(i)] = lowlink[Node(i)]
    BY <2>3, <2>4 DEF IInv, LowlinkSound
  <2>5. CASE lowlink'[Node(i)] # lowlink[Node(i)]
    <3>1. Node(i) = g /\ lowlink'[g] = index[y]
      BY <1>5, <2>2, <2>5
    <3>2. y \in Reach(g)
      BY <1>1, <1>2, <1>4, ReachEdge
    <3> QED BY <1>2, <2>3, <3>1, <3>2
  <2> QED BY <2>4, <2>5
<1>15. LowlinkLowest'
  <2>1. \A i \in DOMAIN frames : Owned(i)' = Owned(i) /\ Owned(i) \subseteq Nodes
    BY <1>1, <1>2, <1>9 DEF Owned, Types, TypeOK
  <2>2. SUFFICES ASSUME NEW i \in DOMAIN frames, NEW x \in Owned(i), NEW z \in onStack, z \in Explored(x)'
                 PROVE  lowlink'[Node(i)] <= index[z]
    BY <1>2, <1>9, <2>1 DEF LowlinkLowest
  <2>3. x \in Nodes /\ z \in Nodes /\ Node(i) \in Nodes
    BY <1>1, <2>1, FrameFacts DEF Types, TypeOK
  <2>4. CASE z \in Explored(x)
    <3>1. lowlink[Node(i)] <= index[z]
      BY <2>4 DEF IInv, LowlinkLowest
    <3> QED BY <1>6, <2>3, <3>1
  <2>5. CASE x = g /\ z = y
    <3>1. i = k
      <4>1. i \in Int /\ k \in Int /\ i <= k
        BY <1>1, FrameFacts
      <4>2. ~(i < k)
        BY <1>4, <1>6, <2>3, <2>5 DEF Owned
      <4> QED BY <4>1, <4>2
    <3> QED BY <1>4, <1>5, <2>5, <3>1
  <2> QED BY <1>10, <2>2, <2>3, <2>4, <2>5
<1>16. StepsBounded' /\ (Discovered' = {} => steps' = 0)
  BY <1>2, <1>3, <1>9 DEF IInv, StepsBounded
<1> QED
  <2>1. pc' # "done"
    BY <1>1, <1>2 DEF Looking
  <2> QED BY <1>2, <1>3, <1>7, <1>8, <1>12, <1>13, <1>14, <1>15, <1>16, <2>1, EmittedKept DEF IInv
(***************************************************************************)
(* A node discovered from the top frame, or as a start.                    *)
(***************************************************************************)
LEMMA GrownFrames ==
    ASSUME Types, FramesSorted, Looking, deps' = deps,
           NEW k, k = Len(frames), NEW y, y = NextSuccessor, y \notin Gray,
           frames' = Append(Popped, [node |-> y, rest |-> deps[y]])
    PROVE  /\ frames' \in Seq(Frame) /\ Len(frames') = k + 1
           /\ DOMAIN frames' = 1..(k + 1)
           /\ \A i \in DOMAIN frames : Node(i)' = Node(i)
           /\ Node(k + 1)' = y
           /\ Gray' = Gray \cup {y}
           /\ \A i \in DOMAIN frames' : frames'[i].rest \subseteq deps[Node(i)']
           /\ Explored(y)' = {}
           /\ \A x, z \in Nodes : z \in Explored(x)' => z \in Explored(x) \/ (x = Top.node /\ z = y)
<1> DEFINE e == [node |-> y, rest |-> deps[y]]
<1>1. y \in Nodes /\ deps[y] \in SUBSET Nodes /\ e \in Frame
  BY SuccessorLeft DEF Types, TypeOK, Frame
<1>2. k \in Nat /\ k >= 1 /\ DOMAIN frames = 1..k
  BY FrameFacts DEF Looking
<1>3. Popped \in Seq(Frame) /\ Len(Popped) = k
  BY Popping DEF Frame
<1>4. /\ frames' \in Seq(Frame) /\ Len(frames') = k + 1 /\ DOMAIN frames' = 1..(k + 1)
      /\ \A i \in 1..k : frames'[i] = Popped[i]
      /\ frames'[k + 1] = e
  <2> HIDE DEF e
  <2>1. frames' = Append(Popped, e)
    BY DEF e
  <2> QED BY <1>1, <1>2, <1>3, <2>1, AppendProperties, LenProperties
<1>5. \A i \in DOMAIN frames : Node(i)' = Node(i) /\ frames'[i].rest \subseteq deps[Node(i)]
  BY <1>2, <1>4, Popping DEF Node, FramesSorted
<1>6. Node(k + 1)' = y /\ frames'[k + 1].rest = deps[y]
  BY <1>4 DEF Node
<1>7. Gray' = Gray \cup {y}
  BY <1>2, <1>4, <1>5, <1>6 DEF Gray
<1>8. \A i \in DOMAIN frames' : frames'[i].rest \subseteq deps[Node(i)']
  BY <1>2, <1>4, <1>5, <1>6
<1>9. Explored(y)' = {}
  <2>1. ASSUME NEW z \in Explored(y)' PROVE FALSE
    <3>1. z \in deps[y] /\ k + 1 \in DOMAIN frames'
      BY <1>2, <1>4, <2>1 DEF Explored
    <3> QED BY <1>6, <2>1, <3>1 DEF Explored
  <2> QED BY <2>1
<1>10. ASSUME NEW x \in Nodes, NEW z \in Nodes, z \in Explored(x)', z \notin Explored(x)
       PROVE  x = Top.node /\ z = y
  <2>1. z \in deps[x] /\ \A i \in DOMAIN frames : Node(i) = x => z \notin frames'[i].rest
    BY <1>2, <1>4, <1>5, <1>10 DEF Explored
  <2>2. PICK i \in DOMAIN frames : Node(i) = x /\ z \in frames[i].rest
    BY <1>10, <2>1 DEF Explored
  <2>3. i = k /\ z = y
    BY <1>2, <1>4, <2>1, <2>2, Popping
  <2> QED BY <2>2, <2>3, FrameFacts DEF Looking
<1> QED
  BY <1>4, <1>5, <1>6, <1>7, <1>8, <1>9, <1>10

LEMMA StepsGrow ==
    ASSUME IInv, Cardinality(Discovered)' = Cardinality(Discovered) + 1,
           Discovered' # {},
           \/ steps' = 0 /\ Len(frames') = 1
           \/ steps' = steps + 1 /\ Len(frames') = Len(frames) + 1 /\ Discovered # {}
    PROVE  StepsBounded' /\ steps' \in Nat
<1>1. steps \in Nat /\ Cardinality(Discovered) \in Nat /\ Len(frames) \in Nat
  BY FrameFacts, Counted DEF IInv, Types, TypeOK
<1>2. Discovered # {} => steps + Len(frames) + 1 <= 2 * Cardinality(Discovered)
  BY DEF IInv, StepsBounded
<1>3. steps' + Len(frames') + 1 <= 2 * Cardinality(Discovered')
  <2>1. CASE steps' = 0 /\ Len(frames') = 1
    BY <1>1, <2>1
  <2>2. CASE steps' = steps + 1 /\ Len(frames') = Len(frames) + 1 /\ Discovered # {}
    BY <1>1, <1>2, <2>2
  <2> QED BY <2>1, <2>2
<1> QED
  BY <1>1, <1>3 DEF StepsBounded

LEMMA TypeSteps ==
    ASSUME N \in Nat \ {0}, StepsBounded, Discovered # {}, steps \in Nat, Len(frames) \in Nat,
           Cardinality(Discovered) \in 0..N
    PROVE  steps \in 0..(2 * N - 1)
BY NodesFinite DEF StepsBounded

LEMMA TreeEdgeOK == ASSUME IInv, TreeEdge PROVE IInv'
<1> SUFFICES ASSUME NEW g, g = Top.node, NEW y, y = NextSuccessor, NEW k, k = Len(frames)
             PROVE  IInv'
  OBVIOUS
<1>1. Types /\ FramesSorted /\ StackSorted /\ Looking /\ Typed
  BY DEF IInv, TreeEdge, Types, TypeOK, Typed
<1>2. /\ UNCHANGED <<deps, outside, pc, sccs, decls>>
      /\ frames' = Append(Popped, [node |-> y, rest |-> deps[y]])
      /\ steps' = steps + 1 /\ Discover(y)
      /\ y \in Nodes /\ y \notin Discovered /\ y \in deps[g]
  BY <1>1, SuccessorLeft DEF TreeEdge, Discovered
<1>3. /\ Discovered' = Discovered \cup {y} /\ Cardinality(Discovered)' = Cardinality(Discovered) + 1
      /\ index' \in [Nodes -> -1..(N - 1)] /\ lowlink' \in [Nodes -> -1..(N - 1)]
      /\ index'[y] = lowlink'[y]
      /\ \A x \in Nodes : x # y => index'[x] = index[x] /\ lowlink'[x] = lowlink[x]
      /\ \A x \in Nodes : x # y => index'[x] < index'[y]
      /\ y \notin onStack /\ onStack' = onStack \cup {y}
      /\ StackSorted' /\ onStack' \in SUBSET Nodes /\ stack' \in Seq(Nodes)
      /\ Done' = Done
  BY <1>1, <1>2, Discovering
<1>4. /\ k \in Nat /\ k >= 1 /\ DOMAIN frames = 1..k /\ g = Node(k) /\ g \in onStack /\ g \in Nodes /\ g # y
      /\ \A i \in DOMAIN frames : Node(i) \in Nodes /\ Node(i) \in onStack /\ Node(i) # y
      /\ y \notin Gray
  BY <1>1, <1>3, FrameFacts DEF Looking, Gray
<1>5. /\ frames' \in Seq(Frame) /\ Len(frames') = k + 1 /\ DOMAIN frames' = 1..(k + 1)
      /\ \A i \in DOMAIN frames : Node(i)' = Node(i)
      /\ Node(k + 1)' = y /\ Gray' = Gray \cup {y}
      /\ \A i \in DOMAIN frames' : frames'[i].rest \subseteq deps[Node(i)']
      /\ Explored(y)' = {}
      /\ \A x, z \in Nodes : z \in Explored(x)' => z \in Explored(x) \/ (x = g /\ z = y)
  BY <1>1, <1>2, <1>4, GrownFrames
<1>6. \A m : Reach(m)' = Reach(m)
  BY <1>2, ReachFixed
<1>7. /\ \A x \in Nodes : /\ index[x] \in Int /\ index'[x] \in Int
                            /\ lowlink[x] \in Int /\ lowlink'[x] \in Int
      /\ \A x \in Nodes : Explored(x)' \subseteq Nodes /\ Explored(x) \subseteq Nodes
      /\ onStack \subseteq Nodes
  <2>1. \A x \in Nodes : Explored(x)' \subseteq Nodes /\ Explored(x) \subseteq Nodes
    BY <1>1, <1>2 DEF Explored, Typed
  <2>2. N \in Nat
    BY <1>1, NodesFinite DEF Types
  <2>3. \A x \in Nodes : index[x] \in Int /\ lowlink[x] \in Int
    BY <1>1, Counted
  <2>4. \A x \in Nodes : index'[x] \in Int /\ lowlink'[x] \in Int
    BY <1>3, <2>2
  <2>5. onStack \subseteq Nodes
    BY <1>1 DEF Types, TypeOK
  <2> QED BY <2>1, <2>3, <2>4, <2>5
<1>8. FramesSorted'
  <2>1. \A i \in DOMAIN frames' : Node(i)' \in onStack' /\ frames'[i].rest \subseteq deps[Node(i)']
    BY <1>3, <1>4, <1>5
  <2>2. ASSUME NEW i \in DOMAIN frames', NEW j \in DOMAIN frames', i < j
        PROVE  index'[Node(i)'] < index'[Node(j)']
    <3>1. i \in DOMAIN frames
      BY <1>4, <1>5, <2>2
    <3>2. CASE j = k + 1
      BY <1>3, <1>4, <1>5, <3>1, <3>2
    <3>3. CASE j # k + 1
      <4>1. j \in DOMAIN frames
        BY <1>4, <1>5, <3>3
      <4>2. index[Node(i)] < index[Node(j)]
        BY <1>1, <2>2, <3>1, <4>1 DEF FramesSorted
      <4> QED BY <1>3, <1>4, <1>5, <3>1, <4>1, <4>2
    <3> QED BY <3>2, <3>3
  <2>3. \A x \in Discovered' : Explored(x)' \subseteq Discovered'
    <3>1. ASSUME NEW x \in Discovered PROVE Explored(x)' \subseteq Discovered'
      <4>1. x \in Nodes /\ Explored(x) \subseteq Discovered
        BY <1>1, Counted DEF FramesSorted
      <4> QED BY <1>3, <1>5, <1>7, <4>1
    <3> QED BY <1>3, <1>5, <3>1
  <2> QED BY <1>2, <2>1, <2>2, <2>3 DEF FramesSorted
<1>9. Linked'
  <2>1. ASSUME NEW i \in DOMAIN frames', NEW x \in onStack', index'[Node(i)'] <= index'[x]
        PROVE  x \in Reach(Node(i)')
    <3>1. CASE i = k + 1
      <4>1. x = y
        BY <1>3, <1>5, <1>7, <2>1, <3>1
      <4> QED BY <1>2, <1>5, <3>1, <4>1, ReachSelf
    <3>2. CASE i # k + 1 /\ x = y
      <4>1. i \in DOMAIN frames
        BY <1>4, <1>5, <3>2
      <4>2. index[Node(i)] <= index[g]
        <5>1. i < k \/ i = k
          BY <1>4, <4>1
        <5>2. i < k => index[Node(i)] < index[Node(k)]
          BY <1>1, <1>4, <4>1 DEF FramesSorted
        <5> QED BY <1>4, <1>7, <4>1, <5>1, <5>2
      <4>3. g \in Reach(Node(i))
        BY <1>4, <4>1, <4>2 DEF IInv, Linked
      <4> QED BY <1>1, <1>2, <1>4, <1>5, <3>2, <4>1, <4>3, ReachStep
    <3>3. CASE i # k + 1 /\ x # y
      <4>1. i \in DOMAIN frames /\ x \in onStack
        BY <1>3, <1>4, <1>5, <3>3
      <4>2. index[Node(i)] <= index[x]
        BY <1>3, <1>4, <1>5, <1>7, <2>1, <3>3, <4>1
      <4> QED BY <1>5, <4>1, <4>2 DEF IInv, Linked
    <3> QED BY <3>1, <3>2, <3>3
  <2>2. ASSUME NEW x \in onStack' \ Gray'
        PROVE  \E i \in DOMAIN frames' : index'[Node(i)'] < index'[x] /\ Node(i)' \in Reach(x)
    <3>1. x \in onStack \ Gray /\ x # y
      BY <1>3, <1>5, <2>2
    <3>2. PICK i \in DOMAIN frames : index[Node(i)] < index[x] /\ Node(i) \in Reach(x)
      BY <3>1 DEF IInv, Linked
    <3>3. i \in DOMAIN frames'
      BY <1>4, <1>5
    <3> QED BY <1>3, <1>4, <1>5, <1>7, <3>1, <3>2, <3>3
  <2> QED BY <1>6, <2>1, <2>2 DEF Linked
<1>10. LowlinkSound'
  <2>1. SUFFICES ASSUME NEW i \in DOMAIN frames'
                 PROVE  /\ lowlink'[Node(i)'] <= index'[Node(i)']
                        /\ \E z \in onStack' : index'[z] = lowlink'[Node(i)'] /\ z \in Reach(Node(i)')
    BY <1>6 DEF LowlinkSound
  <2>2. CASE i = k + 1
    <3>1. y \in onStack' /\ y \in Reach(y)
      BY <1>2, <1>3, ReachSelf
    <3> QED BY <1>2, <1>3, <1>5, <1>7, <2>2, <3>1
  <2>3. CASE i # k + 1
    <3>1. i \in DOMAIN frames
      BY <1>4, <1>5, <2>3
    <3>2. /\ lowlink[Node(i)] <= index[Node(i)]
          /\ \E z \in onStack : index[z] = lowlink[Node(i)] /\ z \in Reach(Node(i))
      BY <3>1 DEF IInv, LowlinkSound
    <3>3. \A z \in onStack : z # y /\ z \in Nodes
      BY <1>3, <1>7
    <3>4. Node(i)' = Node(i) /\ Node(i) \in Nodes /\ Node(i) # y
      BY <1>4, <1>5, <3>1
    <3> QED BY <1>3, <3>2, <3>3, <3>4
  <2> QED BY <2>2, <2>3
<1>11. LowlinkLowest'
  <2>1. SUFFICES ASSUME NEW i \in DOMAIN frames', NEW x \in Owned(i)', NEW z \in onStack', z \in Explored(x)'
                 PROVE  lowlink'[Node(i)'] <= index'[z]
    BY DEF LowlinkLowest
  <2>2. /\ x \in onStack' /\ index'[Node(i)'] <= index'[x]
        /\ \A j \in DOMAIN frames' : i < j => index'[x] < index'[Node(j)']
        /\ x \in Nodes /\ z \in Nodes
    BY <1>3, <2>1 DEF Owned
  <2>3. x # y
    BY <1>5, <2>1
  <2>4. x \in onStack
    BY <1>3, <2>2, <2>3
  <2>5. i # k + 1
    BY <1>3, <1>5, <1>7, <1>2, <2>2, <2>3
  <2>6. i \in DOMAIN frames
    BY <1>4, <1>5, <2>5
  <2>7. Node(i)' = Node(i) /\ Node(i) \in Nodes /\ Node(i) # y
    BY <1>4, <1>5, <2>6
  <2>8. CASE z \in Explored(x)
    <3>1. x \in Discovered /\ z \in Discovered
      BY <1>1, <2>4, <2>8 DEF StackSorted, FramesSorted
    <3>2. z # y /\ z \in onStack
      BY <1>2, <1>3, <3>1
    <3>3. x \in Owned(i)
      <4>1. index[Node(i)] <= index[x]
        BY <1>3, <2>2, <2>3, <2>7
      <4>2. ASSUME NEW j \in DOMAIN frames, i < j PROVE index[x] < index[Node(j)]
        <5>1. j \in DOMAIN frames' /\ Node(j)' = Node(j) /\ Node(j) # y /\ Node(j) \in Nodes
          BY <1>4, <1>5
        <5> QED BY <1>3, <2>2, <2>3, <4>2, <5>1
      <4> QED BY <2>4, <4>1, <4>2 DEF Owned
    <3>4. lowlink[Node(i)] <= index[z]
      BY <2>6, <2>8, <3>2, <3>3 DEF IInv, LowlinkLowest
    <3> QED BY <1>3, <2>2, <2>7, <3>2, <3>4
  <2>9. CASE x = g /\ z = y
    <3>1. lowlink[Node(i)] <= index[Node(i)]
      BY <2>6 DEF IInv, LowlinkSound
    <3>2. lowlink'[Node(i)] = lowlink[Node(i)] /\ index'[Node(i)] = index[Node(i)] /\ index'[Node(i)] < index'[y]
      BY <1>3, <2>7
    <3> QED BY <1>7, <2>7, <2>9, <3>1, <3>2, <1>2
  <2> QED BY <1>5, <2>1, <2>2, <2>8, <2>9
<1>12. Discovered # {} /\ Discovered' # {}
  BY <1>1, <1>3, <1>4 DEF StackSorted
<1>13. StepsBounded' /\ steps' \in Nat
  BY <1>2, <1>3, <1>5, <1>12, StepsGrow
<1>14. steps' \in 0..(2 * N - 1)
  <2>1. Cardinality(Discovered)' \in 0..N
    BY <1>2, <1>3, NodesFinite, Counted, <1>1 DEF Types
  <2> QED BY <1>4, <1>5, <1>12, <1>13, <2>1, NodesFinite, <1>1 DEF StepsBounded, Types
<1>15. Types'
  BY <1>1, <1>2, <1>3, <1>5, <1>14 DEF Types, TypeOK, Frame
<1> QED
  <2>1. pc' # "done"
    BY <1>1, <1>2 DEF Looking
  <2> QED BY <1>2, <1>3, <1>8, <1>9, <1>10, <1>11, <1>12, <1>13, <1>15, <2>1, EmittedKept DEF IInv
LEMMA EmptyStack == ASSUME IInv, frames = <<>> PROVE onStack = {}
<1>1. DOMAIN frames = {}
  OBVIOUS
<1> QED
  BY <1>1 DEF IInv, Linked, Gray

LEMMA StartNodeOK == ASSUME IInv, StartNode PROVE IInv'
<1> SUFFICES ASSUME NEW n, n = Least(Nodes \ Discovered)
             PROVE  IInv'
  OBVIOUS
<1>1. Types /\ FramesSorted /\ StackSorted /\ Typed /\ onStack = {}
  BY EmptyStack DEF IInv, StartNode, Types, TypeOK, Typed
<1>2. /\ UNCHANGED <<deps, outside, pc, sccs, decls>> /\ pc = "search"
      /\ frames' = <<[node |-> n, rest |-> deps[n]]>>
      /\ steps' = 0 /\ Discover(n)
      /\ n \in Nodes /\ n \notin Discovered
  <2>1. Nodes \ Discovered # {} /\ Nodes \ Discovered \subseteq Nat
    <3>1. Discovered \in SUBSET Nodes /\ Discovered # Nodes
      BY Counted, <1>1 DEF StartNode
    <3>2. Nodes \subseteq Nat
      BY NodesFinite DEF Nodes
    <3> QED BY <3>1, <3>2
  <2>2. n \in Nodes \ Discovered
    BY <2>1, LeastMember
  <2> QED BY <2>2 DEF StartNode
<1>3. /\ Discovered' = Discovered \cup {n} /\ Cardinality(Discovered)' = Cardinality(Discovered) + 1
      /\ index' \in [Nodes -> -1..(N - 1)] /\ lowlink' \in [Nodes -> -1..(N - 1)]
      /\ index'[n] = lowlink'[n]
      /\ \A x \in Nodes : x # n => index'[x] = index[x] /\ lowlink'[x] = lowlink[x]
      /\ onStack' = {n} /\ StackSorted' /\ onStack' \in SUBSET Nodes /\ stack' \in Seq(Nodes)
      /\ Done' = Done
  BY <1>1, <1>2, Discovering
<1>4. /\ frames' \in Seq(Frame) /\ Len(frames') = 1 /\ DOMAIN frames' = {1}
      /\ Node(1)' = n /\ frames'[1].rest = deps[n] /\ Gray' = {n}
  <2>1. /\ Len(frames') = 1 /\ DOMAIN frames' = {1} /\ Node(1)' = n /\ frames'[1].rest = deps[n]
        /\ frames'[1] = [node |-> n, rest |-> deps[n]]
    BY <1>2 DEF Node
  <2>2. frames'[1] \in Frame
    BY <1>1, <1>2, <2>1 DEF Typed, Frame
  <2>3. frames' \in Seq(Frame)
    BY <1>2, <2>1, <2>2
  <2>4. Gray' = {n}
    <3>1. \A i \in DOMAIN frames' : Node(i)' = n
      BY <2>1
    <3>2. 1 \in DOMAIN frames'
      BY <2>1
    <3> QED BY <3>1, <3>2 DEF Gray
  <2> QED BY <2>1, <2>3, <2>4
<1>5. \A m : Reach(m)' = Reach(m)
  BY <1>2, ReachFixed
<1>6. index'[n] \in Int /\ n \in Reach(n)
  BY <1>2, <1>3, ReachSelf, NodesFinite
<1>7. Explored(n)' = {}
  BY <1>2, <1>4 DEF Explored
<1>8. FramesSorted'
  <2>1. \A x \in Discovered : Explored(x)' \subseteq Discovered
    <3>1. ASSUME NEW x \in Discovered PROVE Explored(x)' \subseteq Explored(x)
      <4>1. DOMAIN frames = {}
        BY DEF StartNode
      <4> QED BY <1>2, <4>1 DEF Explored
    <3> QED BY <1>1, <3>1 DEF FramesSorted
  <2>2. \A x \in Discovered' : Explored(x)' \subseteq Discovered'
    BY <1>3, <1>7, <2>1
  <2>3. \A i \in DOMAIN frames' : Node(i)' \in onStack' /\ frames'[i].rest \subseteq deps[Node(i)']
    BY <1>3, <1>4
  <2>4. \A i, j \in DOMAIN frames' : ~(i < j)
    BY <1>4
  <2> QED BY <1>2, <2>2, <2>3, <2>4 DEF FramesSorted
<1>9. Linked' /\ LowlinkSound'
  <2>1. \A i \in DOMAIN frames' : Node(i)' = n
    BY <1>4
  <2>2. \A x \in onStack' : x = n
    BY <1>3
  <2>3. n \in onStack' /\ lowlink'[n] <= index'[n]
    BY <1>3, <1>6
  <2> QED BY <1>3, <1>4, <1>5, <1>6, <2>1, <2>2, <2>3 DEF Linked, LowlinkSound
<1>10. LowlinkLowest'
  <2>1. \A x \in Owned(1)' : x = n
    BY <1>3 DEF Owned
  <2> QED BY <1>4, <1>7, <2>1 DEF LowlinkLowest
<1>11. Discovered' # {}
  BY <1>3
<1>12. StepsBounded'
  BY <1>2, <1>3, <1>4, <1>11, StepsGrow
<1>13. Types'
  <2>1. steps' \in 0..(2 * N - 1)
    BY <1>1, <1>2, NodesFinite DEF Types
  <2> QED BY <1>1, <1>2, <1>3, <1>4, <2>1 DEF Types, TypeOK, Frame
<1> QED
  <2>1. pc' # "done"
    BY <1>2
  <2> QED BY <1>2, <1>3, <1>8, <1>9, <1>10, <1>11, <1>12, <1>13, <2>1, EmittedKept DEF IInv

(***************************************************************************)
(* The top frame is finished.                                              *)
(***************************************************************************)
Finishing == pc = "search" /\ frames # <<>> /\ Top.rest = {}

LEMMA FrontFrames ==
    ASSUME Types, FramesSorted, Finishing, deps' = deps, frames' = Front(frames),
           NEW k, k = Len(frames), NEW v, v = Top.node
    PROVE  /\ frames' \in Seq(Frame) /\ Len(frames') = k - 1 /\ DOMAIN frames' = 1..(k - 1)
           /\ k \in Nat /\ k >= 1 /\ DOMAIN frames = 1..k /\ v = Node(k)
           /\ \A i \in DOMAIN frames' : i \in DOMAIN frames /\ frames'[i] = frames[i] /\ Node(i)' = Node(i)
           /\ Gray' = Gray \ {v}
           /\ \A x \in Nodes : Explored(x)' = Explored(x)
<1>1. k \in Nat /\ k >= 1 /\ DOMAIN frames = 1..k /\ v = Node(k)
  BY FrameFacts DEF Finishing
<1>2. frames \in Seq(Frame)
  BY DEF Types, TypeOK, Frame
<1>3. /\ frames' \in Seq(Frame) /\ Len(frames') = k - 1 /\ DOMAIN frames' = 1..(k - 1)
      /\ \A i \in 1..(k - 1) : frames'[i] = frames[i]
  <2>1. frames' = SubSeq(frames, 1, k - 1)
    BY DEF Front
  <2>2. k - 1 \in Int /\ 1 \in 1..(Len(frames) + 1) /\ k - 1 \in (1 - 1)..Len(frames)
    BY <1>1
  <2> QED BY <1>1, <1>2, <2>1, <2>2, SubSeqProperties, LenProperties
<1>4. \A i \in DOMAIN frames' : i \in DOMAIN frames /\ frames'[i] = frames[i] /\ Node(i)' = Node(i)
  BY <1>1, <1>3 DEF Node
<1>5. Gray' = Gray \ {v}
  <2>1. \A i \in DOMAIN frames : Node(i) = v <=> i = k
    BY <1>1, FrameFacts
  <2> QED BY <1>1, <1>3, <1>4, <2>1 DEF Gray
<1>6. ASSUME NEW x \in Nodes PROVE Explored(x)' = Explored(x)
  <2>1. frames[k].rest = {}
    BY DEF Finishing, Top
  <2> QED BY <1>1, <1>3, <1>4, <2>1 DEF Explored
<1> QED
  BY <1>1, <1>3, <1>4, <1>5, <1>6

LEMMA ComponentIs ==
    ASSUME Types, StackSorted, NEW v \in onStack
    PROVE  /\ Depth(v) \in DOMAIN stack /\ stack[Depth(v)] = v
           /\ Component(v) = {x \in onStack : index[v] <= index[x]}
           /\ \A i \in DOMAIN stack : stack[i] \notin Component(v) <=> i < Depth(v)
<1>1. /\ Len(stack) \in Nat /\ DOMAIN stack = 1..Len(stack)
      /\ \A i \in 1..Len(stack) : stack[i] \in Nodes
      /\ \A x \in Nodes : index[x] \in Int
  BY Counted DEF Types, TypeOK
<1>2. Depth(v) \in DOMAIN stack /\ stack[Depth(v)] = v
  BY DEF StackSorted, Depth
<1>3. \A i \in DOMAIN stack : i < Depth(v) => index[stack[i]] < index[v]
  BY <1>2 DEF StackSorted
<1>4. \A i \in DOMAIN stack : i >= Depth(v) => index[v] <= index[stack[i]]
  <2>1. ASSUME NEW i \in DOMAIN stack, i > Depth(v) PROVE index[v] < index[stack[i]]
    BY <1>1, <1>2, <2>1 DEF StackSorted
  <2>2. index[v] \in Int /\ \A i \in DOMAIN stack : index[stack[i]] \in Int
    BY <1>1, <1>2
  <2> QED BY <1>1, <1>2, <2>1, <2>2
<1>5. Component(v) = {x \in onStack : index[v] <= index[x]}
  <2>1. ASSUME NEW x \in Component(v) PROVE x \in onStack /\ index[v] <= index[x]
    <3>1. PICK i \in Depth(v)..Len(stack) : x = stack[i]
      BY DEF Component
    <3>2. i \in DOMAIN stack /\ i >= Depth(v)
      BY <1>1, <1>2
    <3> QED BY <1>4, <3>1, <3>2 DEF StackSorted
  <2>2. ASSUME NEW x \in onStack, index[v] <= index[x] PROVE x \in Component(v)
    <3>1. PICK i \in DOMAIN stack : stack[i] = x
      BY DEF StackSorted
    <3>2. ~(i < Depth(v))
      BY <1>1, <1>2, <1>3, <2>2, <3>1
    <3>3. i \in Depth(v)..Len(stack)
      BY <1>1, <1>2, <3>2
    <3> QED BY <3>1, <3>3 DEF Component
  <2> QED BY <2>1, <2>2
<1>6. ASSUME NEW i \in DOMAIN stack PROVE stack[i] \notin Component(v) <=> i < Depth(v)
  <2>1. index[v] \in Int /\ index[stack[i]] \in Int /\ stack[i] \in onStack
    BY <1>1, <1>2 DEF StackSorted
  <2> QED BY <1>1, <1>2, <1>3, <1>4, <1>5, <2>1
<1> QED
  BY <1>2, <1>5, <1>6

LEMMA DoneClosed == ASSUME IInv PROVE Closed(Done) /\ Done \in SUBSET Nodes
<1>1. Done \in SUBSET Nodes
  BY Counted DEF Done, IInv
<1>2. ASSUME NEW n \in Done, NEW m \in deps[n] PROVE m \in Done
  <2>1. PICK i \in DOMAIN sccs : n \in sccs[i]
    BY <1>1 DEF IInv, Emission
  <2>2. PICK j \in 1..i : m \in sccs[j]
    BY <2>1 DEF IInv, Emission
  <2>3. j \in DOMAIN sccs /\ m \in Nodes
    <3>1. Len(sccs) \in Nat /\ DOMAIN sccs = 1..Len(sccs)
      BY DEF IInv, Types, TypeOK
    <3>2. m \in Nodes
      BY <1>1 DEF IInv, Types, TypeOK
    <3> QED BY <3>1, <3>2
  <2> QED BY <2>2, <2>3 DEF IInv, Emission
<1> QED
  BY <1>1, <1>2 DEF Closed

\* What the top frame owns when its lowlink is its own index is a component.
LEMMA RootEmits ==
    ASSUME IInv, Finishing, NEW v, v = Top.node, lowlink[v] = index[v]
    PROVE  /\ Component(v) = Connected(v)
           /\ \A x \in Component(v) : deps[x] \subseteq Component(v) \cup Done
<1> DEFINE k == Len(frames)
           S == Component(v)
<1>1. Types /\ FramesSorted /\ StackSorted /\ Typed /\ onStack \subseteq Nodes
  BY DEF IInv, Types, TypeOK, Typed
<1>2. /\ k \in Nat /\ k >= 1 /\ DOMAIN frames = 1..k /\ v = Node(k) /\ v \in onStack /\ v \in Nodes
      /\ \A i \in DOMAIN frames : Node(i) \in Nodes /\ Node(i) \in onStack
  BY <1>1, FrameFacts DEF Finishing
<1>3. S = {x \in onStack : index[v] <= index[x]} /\ S \subseteq Nodes
  BY <1>1, <1>2, ComponentIs
<1>4. \A x \in Nodes : index[x] \in Int
  BY <1>1, Counted
<1>5. \A i \in DOMAIN frames : index[Node(i)] <= index[v] /\ (Node(i) \in S => Node(i) = v)
  <2>1. \A i \in DOMAIN frames : i < k => index[Node(i)] < index[v]
    BY <1>1, <1>2 DEF FramesSorted
  <2>2. \A i \in DOMAIN frames : i < k \/ i = k
    BY <1>2
  <2> QED BY <1>2, <1>3, <1>4, <2>1, <2>2
<1>6. \A x \in S : x \in Owned(k)
  BY <1>2, <1>3 DEF Owned
<1>7. ASSUME NEW x \in S, NEW y \in deps[x] PROVE y \in S \cup Done
  <2>1. y \in Explored(x)
    <3>1. \A i \in DOMAIN frames : Node(i) = x => i = k
      BY <1>1, <1>2, <1>5, FrameFacts
    <3>2. frames[k].rest = {}
      BY DEF Finishing, Top
    <3> QED BY <3>1, <3>2 DEF Explored
  <2>2. y \in Discovered /\ y \in Nodes
    BY <1>1, <1>3, <2>1, Counted DEF FramesSorted, StackSorted
  <2>3. CASE y \in onStack
    <3>1. lowlink[Node(k)] <= index[y]
      BY <1>2, <1>6, <2>1, <2>3 DEF IInv, LowlinkLowest
    <3> QED BY <1>2, <1>3, <2>3, <3>1
  <2>4. CASE y \notin onStack
    BY <2>2, <2>4 DEF Done
  <2> QED BY <2>3, <2>4
<1>8. Closed(Done) /\ Done \in SUBSET Nodes
  BY DoneClosed
<1>9. Closed(S \cup Done)
  <2>1. \A x \in S \cup Done : deps[x] \subseteq S \cup Done
    <3> HIDE DEF S
    <3> QED BY <1>7, <1>8 DEF Closed
  <2> QED BY <2>1 DEF Closed
<1>10. v \in S /\ v \notin Done
  BY <1>2, <1>3, <1>4 DEF Done
<1>11. ASSUME NEW w \in Connected(v) PROVE w \in S
  <2>1. w \in Reach(v) /\ v \in Reach(w)
    BY DEF Connected
  <2>2. w \in S \cup Done
    <3> HIDE DEF S
    <3>1. S \cup Done \in SUBSET Nodes /\ v \in S \cup Done
      BY <1>3, <1>8, <1>10
    <3> QED BY <1>9, <2>1, <3>1, ReachWithin
  <2>3. w \notin Done
    BY <1>8, <1>10, <2>1, ReachWithin
  <2> QED BY <2>2, <2>3
<1>12. ASSUME NEW x \in S PROVE x \in Connected(v)
  <2>1. x \in Reach(v) /\ x \in Nodes /\ x \in onStack
    BY <1>2, <1>3 DEF IInv, Linked
  <2>2. CASE x \in Gray
    <3>1. x = v
      BY <1>5, <2>2 DEF Gray
    <3> QED BY <1>2, <3>1, ReachSelf DEF Connected
  <2>3. CASE x \notin Gray
    <3>1. PICK i \in DOMAIN frames : Node(i) \in Reach(x)
      BY <2>1, <2>3 DEF IInv, Linked
    <3>2. v \in Reach(Node(i))
      BY <1>2, <1>5 DEF IInv, Linked
    <3>3. v \in Reach(x)
      BY <1>1, <2>1, <3>1, <3>2, ReachTrans
    <3> QED BY <2>1, <3>3 DEF Connected
  <2> QED BY <2>2, <2>3
<1> QED
  BY <1>7, <1>11, <1>12
LEMMA FinishingTypes ==
    ASSUME IInv, Finishing, deps' = deps, index' = index, frames' = Front(frames), steps' = steps + 1
    PROVE  StepsBounded' /\ steps' \in 0..(2 * N - 1) /\ Discovered' # {} /\ Discovered' = Discovered
<1>1. Types /\ FramesSorted /\ StackSorted
  BY DEF IInv
<1>2. Len(frames') = Len(frames) - 1 /\ Len(frames) \in Nat /\ Len(frames) >= 1 /\ Top.node \in onStack
  <2>1. ASSUME NEW k, k = Len(frames), NEW v, v = Top.node
        PROVE  Len(frames') = k - 1 /\ k \in Nat /\ k >= 1
    BY <1>1, <2>1, FrontFrames
  <2>2. Top.node \in onStack
    BY <1>1, <2>1, FrameFacts DEF Finishing
  <2> QED BY <2>1, <2>2
<1>3. Discovered' = Discovered /\ Discovered # {} /\ Cardinality(Discovered) \in 0..N
  BY <1>1, <1>2, Counted DEF Discovered, StackSorted
<1>4. steps \in Nat
  BY <1>1 DEF Types, TypeOK
<1>5. steps + Len(frames) + 1 <= 2 * Cardinality(Discovered)
  BY <1>3 DEF IInv, StepsBounded
<1>6. steps' + Len(frames') + 1 <= 2 * Cardinality(Discovered) /\ steps' \in Nat /\ Len(frames') \in Nat
  BY <1>2, <1>4, <1>5
<1>7. steps' \in 0..(2 * N - 1)
  BY <1>1, <1>3, <1>6, NodesFinite DEF Types
<1> QED
  BY <1>3, <1>6, <1>7 DEF StepsBounded

LEMMA RootOK == ASSUME IInv, Finish, lowlink[Top.node] = index[Top.node] PROVE IInv'
<1> SUFFICES ASSUME NEW v, v = Top.node, NEW k, k = Len(frames), NEW S, S = Component(v)
             PROVE  IInv'
  OBVIOUS
<1>1. Types /\ FramesSorted /\ StackSorted /\ Typed /\ onStack \subseteq Nodes /\ Finishing
  BY DEF IInv, Types, TypeOK, Typed, Finish, Finishing
<1>2. /\ UNCHANGED <<deps, outside, pc, index, decls>> /\ pc = "search" /\ steps' = steps + 1
      /\ frames' = Front(frames) /\ lowlink' = LowlinksPassed(Front(frames))
      /\ sccs' = Append(sccs, S) /\ onStack' = onStack \ S /\ stack' = SubSeq(stack, 1, Depth(v) - 1)
  BY DEF Finish, OffStack
<1>3. /\ frames' \in Seq(Frame) /\ Len(frames') = k - 1 /\ DOMAIN frames' = 1..(k - 1)
      /\ k \in Nat /\ k >= 1 /\ DOMAIN frames = 1..k /\ v = Node(k)
      /\ \A i \in DOMAIN frames' : i \in DOMAIN frames /\ frames'[i] = frames[i] /\ Node(i)' = Node(i)
      /\ Gray' = Gray \ {v}
      /\ \A x \in Nodes : Explored(x)' = Explored(x)
  BY <1>1, <1>2, FrontFrames
<1>4. /\ \A i \in DOMAIN frames : Node(i) \in Nodes /\ Node(i) \in onStack
      /\ \A i, j \in DOMAIN frames : Node(i) = Node(j) => i = j
      /\ v \in onStack /\ v \in Nodes
      /\ \A x \in Nodes : index[x] \in Int /\ lowlink[x] \in Int
  BY <1>1, <1>3, FrameFacts, Counted
<1>5. /\ Depth(v) \in DOMAIN stack /\ stack[Depth(v)] = v
      /\ S = {x \in onStack : index[v] <= index[x]}
      /\ \A i \in DOMAIN stack : stack[i] \notin S <=> i < Depth(v)
  BY <1>1, <1>4, ComponentIs
<1>6. \A i \in DOMAIN frames' : index[Node(i)] < index[v] /\ Node(i) \notin S
  <2>1. \A i \in DOMAIN frames' : i < k /\ i \in DOMAIN frames /\ k \in DOMAIN frames
    BY <1>3
  <2>2. \A i \in DOMAIN frames' : index[Node(i)] < index[v]
    BY <1>3, <2>1 DEF IInv, FramesSorted
  <2> QED BY <1>4, <1>5, <2>1, <2>2
<1>7. \A x \in onStack' : x \in onStack /\ x \in Nodes /\ x # v /\ index[x] < index[v]
  BY <1>1, <1>2, <1>4, <1>5
<1>8. lowlink' = lowlink
  <2>1. CASE frames' = <<>>
    BY <1>2, <2>1 DEF LowlinksPassed
  <2>2. CASE frames' # <<>>
    <3>1. k - 1 \in DOMAIN frames' /\ Last(frames').node = Node(k - 1)
      <4>1. k - 1 >= 1
        BY <1>3, <2>2, EmptySeq
      <4>2. k - 1 \in DOMAIN frames'
        BY <1>3, <4>1
      <4> QED BY <1>3, <4>2 DEF Last, Node
    <3> DEFINE p == Node(k - 1)
    <3>2. lowlink[p] <= index[p] /\ index[p] < index[v] /\ p \in Nodes
      BY <1>3, <1>4, <1>6, <3>1 DEF IInv, LowlinkSound
    <3>3. Lower(lowlink[p], lowlink[v]) = lowlink[p]
      BY <1>4, <3>2 DEF Lower
    <3>4. lowlink' = [lowlink EXCEPT ![p] = Lower(lowlink[p], lowlink[v])]
      BY <1>2, <2>2, <3>1 DEF LowlinksPassed
    <3>5. lowlink \in [Nodes -> -1..(N - 1)]
      BY <1>1 DEF Types, TypeOK
    <3> HIDE DEF p
    <3> QED BY <3>2, <3>3, <3>4, <3>5
  <2> QED BY <2>1, <2>2
<1>9. \A m : Reach(m)' = Reach(m) /\ Connected(m)' = Connected(m)
  BY <1>2, ReachFixed
<1>10. S = Connected(v) /\ S \subseteq Nodes /\ S \subseteq onStack /\ \A x \in S : deps[x] \subseteq S \cup Done
  BY <1>1, <1>5, RootEmits
<1>11. /\ StepsBounded' /\ steps' \in 0..(2 * N - 1) /\ Discovered' # {} /\ Discovered' = Discovered
       /\ Done' = Done \cup S
  <2>1. StepsBounded' /\ steps' \in 0..(2 * N - 1) /\ Discovered' # {} /\ Discovered' = Discovered
    BY <1>1, <1>2, FinishingTypes
  <2> QED BY <1>1, <1>2, <1>10, <2>1 DEF Done, StackSorted
<1>12. StackSorted' /\ stack' \in Seq(Nodes)
  <2>1. /\ Len(stack) \in Nat /\ DOMAIN stack = 1..Len(stack) /\ stack \in Seq(Nodes)
    BY <1>1 DEF Types, TypeOK
  <2>2. /\ stack' \in Seq(Nodes) /\ DOMAIN stack' = 1..(Depth(v) - 1)
        /\ \A i \in 1..(Depth(v) - 1) : stack'[i] = stack[i] /\ i \in DOMAIN stack
    <3> DEFINE d == Depth(v) - 1
    <3>1. d \in 0..Len(stack)
      BY <1>5, <2>1
    <3>2. stack' = SubSeq(stack, 1, d)
      BY <1>2
    <3> HIDE DEF d
    <3>3. stack' \in Seq(Nodes) /\ Len(stack') = d /\ \A i \in 1..d : stack'[i] = stack[i]
      BY <2>1, <3>1, <3>2, SubSeqProperties
    <3>4. DOMAIN stack' = 1..d /\ \A i \in 1..d : i \in DOMAIN stack
      BY <2>1, <3>1, <3>3
    <3> QED BY <3>3, <3>4 DEF d
  <2>3. \A i \in DOMAIN stack' : stack'[i] \in onStack'
    BY <1>1, <1>2, <1>5, <2>1, <2>2 DEF StackSorted
  <2>4. ASSUME NEW x \in onStack' PROVE \E i \in DOMAIN stack' : stack'[i] = x
    <3>1. PICK i \in DOMAIN stack : stack[i] = x
      BY <1>1, <1>7 DEF StackSorted
    <3>2. i < Depth(v)
      BY <1>2, <1>5, <3>1, <2>4
    <3>3. i \in DOMAIN stack'
      BY <1>5, <2>1, <2>2, <3>2
    <3> QED BY <2>2, <3>1, <3>3
  <2>5. \A i, j \in DOMAIN stack' : i < j => index'[stack'[i]] < index'[stack'[j]]
    BY <1>1, <1>2, <2>2 DEF StackSorted
  <2>6. StackSorted'
    BY <1>1, <1>2, <1>7, <1>11, <2>3, <2>4, <2>5 DEF StackSorted
  <2> QED BY <2>2, <2>6
<1>13. FramesSorted'
  <2>1. \A i \in DOMAIN frames' : Node(i)' \in onStack' /\ frames'[i].rest \subseteq deps[Node(i)']
    BY <1>1, <1>2, <1>3, <1>4, <1>6 DEF FramesSorted
  <2>2. \A i, j \in DOMAIN frames' : i < j => index'[Node(i)'] < index'[Node(j)']
    BY <1>1, <1>2, <1>3 DEF FramesSorted
  <2>3. \A x \in Discovered' : Explored(x)' \subseteq Discovered'
    BY <1>1, <1>3, <1>11, Counted DEF FramesSorted
  <2> QED BY <1>2, <2>1, <2>2, <2>3 DEF FramesSorted
<1>14. Linked'
  <2>1. ASSUME NEW i \in DOMAIN frames', NEW x \in onStack', index[Node(i)] <= index[x]
        PROVE  x \in Reach(Node(i))
    BY <1>3, <1>7, <2>1 DEF IInv, Linked
  <2>2. ASSUME NEW x \in onStack' \ Gray'
        PROVE  \E i \in DOMAIN frames' : index[Node(i)] < index[x] /\ Node(i) \in Reach(x)
    <3>1. x \in onStack \ Gray /\ index[x] < index[v] /\ x \in Nodes
      BY <1>3, <1>7, <2>2
    <3>2. PICK i \in DOMAIN frames : index[Node(i)] < index[x] /\ Node(i) \in Reach(x)
      BY <3>1 DEF IInv, Linked
    <3>3. i # k
      BY <1>3, <1>4, <3>1, <3>2
    <3> QED BY <1>3, <3>2, <3>3
  <2> QED BY <1>2, <1>3, <1>9, <2>1, <2>2 DEF Linked
<1>15. LowlinkSound'
  <2>1. SUFFICES ASSUME NEW i \in DOMAIN frames'
                 PROVE  /\ lowlink[Node(i)] <= index[Node(i)]
                        /\ \E y \in onStack' : index[y] = lowlink[Node(i)] /\ y \in Reach(Node(i))
    BY <1>2, <1>3, <1>8, <1>9 DEF LowlinkSound
  <2>2. lowlink[Node(i)] <= index[Node(i)] /\ i \in DOMAIN frames
    BY <1>3 DEF IInv, LowlinkSound
  <2>3. PICK y \in onStack : index[y] = lowlink[Node(i)] /\ y \in Reach(Node(i))
    BY <2>2 DEF IInv, LowlinkSound
  <2>4. y \notin S
    BY <1>1, <1>4, <1>5, <1>6, <2>2, <2>3
  <2> QED BY <1>2, <2>2, <2>3, <2>4
<1>16. LowlinkLowest'
  <2>1. SUFFICES ASSUME NEW i \in DOMAIN frames', NEW x \in Owned(i)', NEW y \in Explored(x)' \cap onStack'
                 PROVE  lowlink[Node(i)] <= index[y]
    BY <1>2, <1>3, <1>8 DEF LowlinkLowest
  <2>2. /\ x \in onStack' /\ x \in Nodes /\ index[Node(i)] <= index[x] /\ index[x] < index[v]
        /\ \A j \in DOMAIN frames' : i < j => index[x] < index[Node(j)]
    BY <1>2, <1>3, <1>7, <2>1 DEF Owned
  <2>3. x \in Owned(i)
    <3>1. ASSUME NEW j \in DOMAIN frames, i < j PROVE index[x] < index[Node(j)]
      <4>1. j = k \/ j \in DOMAIN frames'
        BY <1>3
      <4> QED BY <1>3, <2>2, <3>1, <4>1
    <3> QED BY <1>7, <2>2, <3>1 DEF Owned
  <2> QED BY <1>3, <1>7, <2>1, <2>2, <2>3 DEF IInv, LowlinkLowest
<1>17. /\ sccs \in Seq(SUBSET Nodes) /\ Len(sccs) \in Nat /\ DOMAIN sccs = 1..Len(sccs)
       /\ sccs' \in Seq(SUBSET Nodes) /\ DOMAIN sccs' = 1..(Len(sccs) + 1)
       /\ \A i \in DOMAIN sccs : sccs'[i] = sccs[i]
  BY <1>1, <1>2, <1>10 DEF Types, TypeOK
<1> DEFINE l == Len(sccs) + 1
<1>18. sccs'[Len(sccs) + 1] = S
  BY <1>2, <1>17
<1>19. Emission'
  <2>1. \A n \in Nodes : n \in Done' <=> \E i \in DOMAIN sccs' : n \in sccs'[i]
    <3>1. \A n \in Nodes : n \in Done <=> \E i \in DOMAIN sccs : n \in sccs[i]
      BY DEF IInv, Emission
    <3>2. \A i \in DOMAIN sccs' : i \in DOMAIN sccs \/ i = Len(sccs) + 1
      BY <1>17
    <3>3. Len(sccs) + 1 \in DOMAIN sccs' /\ \A i \in DOMAIN sccs : i \in DOMAIN sccs'
      BY <1>17
    <3> QED BY <1>11, <1>17, <1>18, <3>1, <3>2, <3>3
  <2>2. ASSUME NEW i \in DOMAIN sccs', NEW j \in DOMAIN sccs', sccs'[i] \cap sccs'[j] # {}
        PROVE  i = j
    <3>1. \A m \in DOMAIN sccs : sccs[m] \cap S = {}
      <4>1. \A m \in DOMAIN sccs : \A n \in sccs[m] : n \in Nodes
        BY <1>17
      <4>2. \A m \in DOMAIN sccs : \A n \in sccs[m] : n \notin onStack
        BY <4>1 DEF IInv, Emission, Done
      <4> QED BY <1>10, <4>2
    <3>2. \A m \in DOMAIN sccs' : m \in DOMAIN sccs \/ m = Len(sccs) + 1
      BY <1>17
    <3>3. \A a, b \in DOMAIN sccs : sccs[a] \cap sccs[b] # {} => a = b
      BY DEF IInv, Emission
    <3> QED BY <1>17, <1>18, <2>2, <3>1, <3>2, <3>3
  <2>3. ASSUME NEW i \in DOMAIN sccs', NEW n \in sccs'[i], NEW m \in deps[n]
        PROVE  \E j \in 1..i : m \in sccs'[j]
    <3>1. CASE i = Len(sccs) + 1
      <4>1. n \in S /\ n \in Nodes /\ m \in S \cup Done /\ i \in 1..i /\ m \in Nodes
        BY <1>1, <1>10, <1>17, <1>18, <2>3, <3>1 DEF Typed
      <4>2. CASE m \in S
        BY <1>18, <3>1, <4>1, <4>2
      <4>3. CASE m \in Done
        <5>1. PICK j \in DOMAIN sccs : m \in sccs[j]
          BY <4>1, <4>3 DEF IInv, Emission
        <5>2. j \in 1..i
          BY <1>17, <3>1
        <5> QED BY <1>17, <5>1, <5>2
      <4> QED BY <4>1, <4>2, <4>3
    <3>2. CASE i # Len(sccs) + 1
      <4>1. i \in DOMAIN sccs /\ n \in sccs[i]
        BY <1>17, <2>3, <3>2
      <4>2. PICK j \in 1..i : m \in sccs[j]
        BY <4>1 DEF IInv, Emission
      <4>3. j \in DOMAIN sccs
        BY <1>17, <4>1
      <4> QED BY <1>17, <4>2, <4>3
    <3> QED BY <3>1, <3>2
  <2> QED BY <1>2, <2>1, <2>2, <2>3 DEF Emission
<1>20. ComponentsExact'
  <2>1. \A i \in DOMAIN sccs' : i \in DOMAIN sccs \/ i = Len(sccs) + 1
    BY <1>17
  <2>2. \A i \in DOMAIN sccs : \E n \in Nodes : sccs[i] = Connected(n)
    BY DEF IInv, ComponentsExact
  <2>3. \A i \in DOMAIN sccs' : \E n \in Nodes : sccs'[i] = Connected(n)
    BY <1>4, <1>10, <1>17, <1>18, <2>1, <2>2
  <2> QED BY <1>9, <2>3 DEF ComponentsExact
<1>21. Types'
  <2>1. onStack' \in SUBSET Nodes
    BY <1>1, <1>2
  <2> QED BY <1>1, <1>2, <1>3, <1>8, <1>11, <1>12, <1>17, <2>1 DEF Types, TypeOK, Frame
<1>22. DeclaredOnce' /\ DependentsFirst'
  BY <1>2 DEF DeclaredOnce, DependentsFirst
<1> QED
  BY <1>11, <1>12, <1>13, <1>14, <1>15, <1>16, <1>19, <1>20, <1>21, <1>22 DEF IInv
LEMMA InnerOK == ASSUME IInv, Finish, lowlink[Top.node] # index[Top.node] PROVE IInv'
<1> SUFFICES ASSUME NEW v, v = Top.node, NEW k, k = Len(frames), NEW p, p = Node(k - 1)
             PROVE  IInv'
  OBVIOUS
<1>1. Types /\ FramesSorted /\ StackSorted /\ Typed /\ onStack \subseteq Nodes /\ Finishing
  BY DEF IInv, Types, TypeOK, Typed, Finish, Finishing
<1>2. /\ UNCHANGED <<deps, outside, pc, index, decls, sccs, onStack, stack>> /\ pc = "search" /\ steps' = steps + 1
      /\ frames' = Front(frames) /\ lowlink' = LowlinksPassed(Front(frames))
  BY DEF Finish
<1>3. /\ frames' \in Seq(Frame) /\ Len(frames') = k - 1 /\ DOMAIN frames' = 1..(k - 1)
      /\ k \in Nat /\ k >= 1 /\ DOMAIN frames = 1..k /\ v = Node(k)
      /\ \A i \in DOMAIN frames' : i \in DOMAIN frames /\ frames'[i] = frames[i] /\ Node(i)' = Node(i)
      /\ Gray' = Gray \ {v}
      /\ \A x \in Nodes : Explored(x)' = Explored(x)
  BY <1>1, <1>2, FrontFrames
<1>4. /\ \A i \in DOMAIN frames : Node(i) \in Nodes /\ Node(i) \in onStack
      /\ \A i, j \in DOMAIN frames : Node(i) = Node(j) => i = j
      /\ v \in onStack /\ v \in Nodes
      /\ \A x \in Nodes : index[x] \in Int /\ lowlink[x] \in Int
  BY <1>1, <1>3, FrameFacts, Counted
<1>5. \A m : Reach(m)' = Reach(m)
  BY <1>2, ReachFixed
<1>6. /\ StepsBounded' /\ steps' \in 0..(2 * N - 1) /\ Discovered' # {} /\ Discovered' = Discovered
      /\ Done' = Done
  <2>1. StepsBounded' /\ steps' \in 0..(2 * N - 1) /\ Discovered' # {} /\ Discovered' = Discovered
    BY <1>1, <1>2, FinishingTypes
  <2> QED BY <1>2, <2>1 DEF Done
\* The finished node reaches a frame below.
<1>7. PICK y \in onStack : index[y] = lowlink[v] /\ y \in Reach(v) /\ index[y] < index[v]
  <2>1. /\ lowlink[v] <= index[v]
        /\ \E y \in onStack : index[y] = lowlink[v] /\ y \in Reach(v)
    BY <1>3 DEF IInv, LowlinkSound
  <2> QED BY <1>1, <1>4, <2>1
<1>8. PICK b \in DOMAIN frames' : index[Node(b)] < index[v] /\ Node(b) \in Reach(v)
  <2>1. \E b \in DOMAIN frames : index[Node(b)] <= index[y] /\ Node(b) \in Reach(v)
    <3>1. CASE y \in Gray
      <4>1. PICK b \in DOMAIN frames : Node(b) = y
        BY <3>1 DEF Gray
      <4> QED BY <1>4, <1>7, <4>1
    <3>2. CASE y \notin Gray
      <4>1. PICK b \in DOMAIN frames : index[Node(b)] < index[y] /\ Node(b) \in Reach(y)
        BY <3>2 DEF IInv, Linked
      <4>2. Node(b) \in Reach(v)
        BY <1>1, <1>4, <1>7, <4>1, ReachTrans
      <4> QED BY <1>1, <1>4, <4>1, <4>2
    <3> QED BY <3>1, <3>2
  <2>2. PICK b \in DOMAIN frames : index[Node(b)] <= index[y] /\ Node(b) \in Reach(v)
    BY <2>1
  <2>3. index[Node(b)] < index[v] /\ b # k
    BY <1>1, <1>3, <1>4, <1>7, <2>2
  <2>4. b \in DOMAIN frames'
    BY <1>3, <2>3
  <2> QED BY <2>2, <2>3, <2>4
<1>9. k - 1 \in DOMAIN frames' /\ p \in Nodes /\ p \in onStack /\ p # v /\ index[p] < index[v] /\ Last(frames').node = p
  <2>1. k - 1 \in DOMAIN frames' /\ k - 1 \in DOMAIN frames /\ k \in DOMAIN frames /\ k - 1 < k
    BY <1>3, <1>8
  <2>2. index[p] < index[v]
    BY <1>3, <2>1 DEF IInv, FramesSorted
  <2>3. Last(frames').node = p
    BY <1>3, <2>1 DEF Last, Node
  <2> QED BY <1>3, <1>4, <2>1, <2>2, <2>3
<1>10. /\ lowlink' \in [Nodes -> -1..(N - 1)]
       /\ lowlink'[p] <= lowlink[p] /\ lowlink'[p] <= lowlink[v] /\ lowlink'[p] \in {lowlink[p], lowlink[v]}
       /\ \A x \in Nodes : x # p => lowlink'[x] = lowlink[x]
  <2>1. lowlink' = [lowlink EXCEPT ![p] = Lower(lowlink[p], lowlink[v])]
    <3>1. frames' # <<>>
      BY <1>9, <1>3, EmptySeq
    <3> QED BY <1>2, <1>9, <3>1 DEF LowlinksPassed
  <2>2. lowlink \in [Nodes -> -1..(N - 1)]
    BY <1>1 DEF Types, TypeOK
  <2>3. LET c == Lower(lowlink[p], lowlink[v])
        IN c <= lowlink[p] /\ c <= lowlink[v] /\ c \in {lowlink[p], lowlink[v]}
    BY <1>4, <1>9 DEF Lower
  <2> QED BY <1>4, <1>9, <2>1, <2>2, <2>3
<1>11. \A x \in Nodes : lowlink'[x] \in Int /\ lowlink'[x] <= lowlink[x]
  BY <1>4, <1>9, <1>10
<1>12. StackSorted'
  BY <1>1, <1>2, <1>6 DEF StackSorted
<1>13. FramesSorted'
  <2>1. \A i \in DOMAIN frames' : Node(i)' \in onStack' /\ frames'[i].rest \subseteq deps[Node(i)']
    BY <1>1, <1>2, <1>3, <1>4 DEF FramesSorted
  <2>2. \A i, j \in DOMAIN frames' : i < j => index'[Node(i)'] < index'[Node(j)']
    BY <1>1, <1>2, <1>3 DEF FramesSorted
  <2>3. \A x \in Discovered' : Explored(x)' \subseteq Discovered'
    BY <1>1, <1>3, <1>6, Counted DEF FramesSorted
  <2> QED BY <1>2, <2>1, <2>2, <2>3 DEF FramesSorted
<1>14. Linked'
  <2>1. ASSUME NEW i \in DOMAIN frames', NEW x \in onStack, index[Node(i)] <= index[x]
        PROVE  x \in Reach(Node(i))
    BY <1>3, <2>1 DEF IInv, Linked
  <2>2. ASSUME NEW x \in onStack \ Gray'
        PROVE  \E i \in DOMAIN frames' : index[Node(i)] < index[x] /\ Node(i) \in Reach(x)
    <3>1. CASE x = v
      BY <1>8, <3>1
    <3>2. CASE x # v
      <4>1. x \in onStack \ Gray /\ x \in Nodes
        BY <1>1, <1>3, <2>2, <3>2
      <4>2. PICK i \in DOMAIN frames : index[Node(i)] < index[x] /\ Node(i) \in Reach(x)
        BY <4>1 DEF IInv, Linked
      <4>3. CASE i = k
        <5>1. Node(b) \in Reach(x) /\ index[Node(b)] < index[x]
          <6>1. v \in Reach(x) /\ index[v] < index[x]
            BY <1>3, <4>2, <4>3
          <6>2. Node(b) \in Reach(x)
            BY <1>1, <1>8, <4>1, <6>1, ReachTrans
          <6> QED BY <1>3, <1>4, <1>8, <4>1, <6>1, <6>2
        <5> QED BY <5>1
      <4>4. CASE i # k
        BY <1>3, <4>2, <4>4
      <4> QED BY <4>3, <4>4
    <3> QED BY <3>1, <3>2
  <2> QED BY <1>2, <1>3, <1>5, <2>1, <2>2 DEF Linked
<1>15. LowlinkSound'
  <2>1. SUFFICES ASSUME NEW i \in DOMAIN frames'
                 PROVE  /\ lowlink'[Node(i)] <= index[Node(i)]
                        /\ \E z \in onStack : index[z] = lowlink'[Node(i)] /\ z \in Reach(Node(i))
    BY <1>2, <1>3, <1>5 DEF LowlinkSound
  <2>2. /\ i \in DOMAIN frames /\ Node(i) \in Nodes /\ lowlink[Node(i)] <= index[Node(i)]
        /\ \E z \in onStack : index[z] = lowlink[Node(i)] /\ z \in Reach(Node(i))
    BY <1>3, <1>4 DEF IInv, LowlinkSound
  <2>3. lowlink'[Node(i)] <= index[Node(i)]
    BY <1>4, <1>11, <2>2
  <2>4. CASE lowlink'[Node(i)] = lowlink[Node(i)]
    BY <2>2, <2>3, <2>4
  <2>5. CASE lowlink'[Node(i)] # lowlink[Node(i)]
    <3>1. Node(i) = p /\ lowlink'[p] = lowlink[v]
      BY <1>10, <2>2, <2>5
    <3>2. v \in Reach(p)
      <4>1. index[p] <= index[v]
        BY <1>4, <1>9
      <4> QED BY <1>4, <2>2, <3>1, <4>1 DEF IInv, Linked
    <3>3. y \in Reach(p)
      BY <1>1, <1>7, <1>9, <3>2, ReachTrans
    <3> QED BY <1>7, <2>3, <3>1, <3>3
  <2> QED BY <2>4, <2>5
<1>16. LowlinkLowest'
  <2>1. SUFFICES ASSUME NEW i \in DOMAIN frames', NEW x \in Owned(i)', NEW z \in Explored(x)' \cap onStack
                 PROVE  lowlink'[Node(i)] <= index[z]
    BY <1>2, <1>3 DEF LowlinkLowest
  <2>2. /\ x \in onStack /\ x \in Nodes /\ index[Node(i)] <= index[x]
        /\ \A j \in DOMAIN frames' : i < j => index[x] < index[Node(j)]
        /\ Node(i) \in Nodes /\ i \in DOMAIN frames /\ z \in Explored(x) \cap onStack /\ z \in Nodes
    BY <1>1, <1>2, <1>3, <1>4, <2>1 DEF Owned
  <2>3. CASE index[x] < index[v]
    <3>1. x \in Owned(i)
      <4>1. ASSUME NEW j \in DOMAIN frames, i < j PROVE index[x] < index[Node(j)]
        <5>1. j = k \/ j \in DOMAIN frames'
          BY <1>3
        <5> QED BY <1>3, <2>2, <2>3, <4>1, <5>1
      <4> QED BY <2>2, <4>1 DEF Owned
    <3>2. lowlink[Node(i)] <= index[z]
      BY <2>2, <3>1 DEF IInv, LowlinkLowest
    <3> QED BY <1>4, <1>11, <2>2, <3>2
  <2>4. CASE ~(index[x] < index[v])
    <3>1. index[v] <= index[x]
      BY <1>4, <2>2, <2>4
    <3>2. x \in Owned(k) /\ k \in DOMAIN frames
      BY <1>3, <2>2, <3>1 DEF Owned
    <3>3. lowlink[v] <= index[z]
      BY <1>3, <2>2, <3>2 DEF IInv, LowlinkLowest
    <3>4. i = k - 1
      <4>1. ~(i < k - 1)
        <5>1. i < k - 1 => index[x] < index[p]
          BY <1>3, <1>9, <2>2
        <5> QED BY <1>4, <1>9, <2>2, <3>1, <5>1
      <4> QED BY <1>3, <4>1
    <3> QED BY <1>4, <1>9, <1>10, <1>11, <2>2, <3>3, <3>4
  <2> QED BY <2>3, <2>4
<1>17. Types'
  BY <1>1, <1>2, <1>3, <1>6, <1>10 DEF Types, TypeOK, Frame
<1> QED
  <2>1. pc' # "done"
    BY <1>2
  <2> QED BY <1>2, <1>6, <1>12, <1>13, <1>14, <1>15, <1>16, <1>17, <2>1, EmittedKept DEF IInv

(***************************************************************************)
(* The declarations.                                                       *)
(***************************************************************************)
\* What becomes a declaration without rec is a member nothing it needs needs.
LEMMA SingletonNeedsNot ==
    ASSUME Types, NEW n \in Nodes, NEW i, i \in Nodes, Connected(i) = {n}, n \notin deps[n]
    PROVE  \A m \in deps[n] : n \notin Reach(m)
<1>1. Typed
  BY DEF Types, TypeOK, Typed
<1>2. SUFFICES ASSUME NEW m \in deps[n], n \in Reach(m) PROVE FALSE
  OBVIOUS
<1>3. m \in Nodes /\ m \in Reach(n)
  BY <1>1, ReachEdge DEF Typed
<1>4. n \in Reach(i) /\ i \in Reach(n)
  BY DEF Connected
<1>5. m \in Connected(i)
  <2>1. m \in Reach(i)
    BY <1>1, <1>3, <1>4, ReachTrans
  <2>2. i \in Reach(m)
    BY <1>1, <1>2, <1>3, <1>4, ReachTrans
  <2> QED BY <2>1, <2>2 DEF Connected
<1> QED
  BY <1>5

\* A step that leaves the search alone.
LEMMA SearchKept ==
    ASSUME IInv, UNCHANGED <<deps, outside, index, lowlink, onStack, stack, frames, sccs, steps>>
    PROVE  /\ StackSorted' /\ FramesSorted' /\ StepsBounded' /\ (Discovered' = {} => steps' = 0)
           /\ Linked' /\ LowlinkSound' /\ LowlinkLowest' /\ Emission' /\ ComponentsExact'
           /\ \A x : Reach(x)' = Reach(x) /\ Connected(x)' = Connected(x)
<1>1. /\ Discovered' = Discovered /\ Done' = Done /\ Gray' = Gray
      /\ \A i : Node(i)' = Node(i)
      /\ \A x : Explored(x)' = Explored(x) /\ Reach(x)' = Reach(x) /\ Connected(x)' = Connected(x)
      /\ \A i : Owned(i)' = Owned(i)
  <2>1. \A i : Node(i)' = Node(i)
    BY DEF Node
  <2> QED BY <2>1, ReachFixed DEF Discovered, Done, Gray, Explored, Owned
<1>2. StackSorted' /\ FramesSorted' /\ StepsBounded' /\ (Discovered' = {} => steps' = 0)
  BY <1>1 DEF IInv, StackSorted, FramesSorted, StepsBounded
<1>3. Linked' /\ LowlinkSound' /\ LowlinkLowest' /\ Emission' /\ ComponentsExact'
  BY <1>1 DEF IInv, Linked, LowlinkSound, LowlinkLowest, Emission, ComponentsExact
<1> QED
  BY <1>1, <1>2, <1>3

LEMMA EndSearchOK == ASSUME IInv, EndSearch PROVE IInv'
<1>1. /\ UNCHANGED <<deps, outside, index, lowlink, onStack, stack, frames, sccs, steps>>
      /\ pc' = "done" /\ decls' = Declared(Reverse(sccs)) /\ Types /\ Typed
      /\ onStack = {} /\ Discovered = Nodes
  BY EmptyStack DEF EndSearch, Emitted, IInv, Types, TypeOK, Typed
<1> DEFINE l == Len(sccs)
<1>2. l \in Nat /\ DOMAIN sccs = 1..l /\ \A i \in 1..l : sccs[i] \in SUBSET Nodes
  BY <1>1 DEF Types, TypeOK
<1>3. DOMAIN Reverse(sccs) = 1..l /\ \A i \in 1..l : Reverse(sccs)[i] = sccs[l - i + 1] /\ l - i + 1 \in 1..l
  BY <1>2 DEF Reverse
<1>4. /\ DOMAIN decls' = 1..l
      /\ \A i \in 1..l : /\ decls'[i].members = sccs[l - i + 1] /\ l - i + 1 \in 1..l
                          /\ decls'[i].rec = ~NonRecursiveSingleton(sccs[l - i + 1])
                          /\ decls'[i] \in [rec : BOOLEAN, members : SUBSET Nodes]
  <2>1. DOMAIN decls' = 1..l
    BY <1>1, <1>3 DEF Declared
  <2>2. ASSUME NEW i \in 1..l
        PROVE  decls'[i] = [rec |-> ~NonRecursiveSingleton(sccs[l - i + 1]), members |-> sccs[l - i + 1]]
    BY <1>1, <1>3 DEF Declared
  <2>3. ASSUME NEW i \in 1..l
        PROVE  /\ decls'[i].members = sccs[l - i + 1] /\ l - i + 1 \in 1..l
               /\ decls'[i].rec = ~NonRecursiveSingleton(sccs[l - i + 1])
               /\ decls'[i] \in [rec : BOOLEAN, members : SUBSET Nodes]
    <3> DEFINE b == ~NonRecursiveSingleton(sccs[l - i + 1])
               m == sccs[l - i + 1]
    <3>1. b \in BOOLEAN
      BY DEF NonRecursiveSingleton
    <3>2. l - i + 1 \in 1..l /\ sccs[l - i + 1] \in SUBSET Nodes
      BY <1>2, <1>3
    <3>3. decls'[i] = [rec |-> b, members |-> m]
      BY <2>2
    <3>4. m \in SUBSET Nodes
      BY <3>2
    <3> HIDE DEF b, m
    <3>5. decls'[i].members = m /\ decls'[i].rec = b
      BY <3>3
    <3>6. decls'[i] \in [rec : BOOLEAN, members : SUBSET Nodes]
      BY <3>1, <3>3, <3>4
    <3> QED BY <3>2, <3>5, <3>6 DEF b, m
  <2> QED BY <2>1, <2>3
<1>5. decls' \in Seq([rec : BOOLEAN, members : SUBSET Nodes])
  <2> DEFINE D == [rec : BOOLEAN, members : SUBSET Nodes]
  <2>1. decls' = [i \in 1..l |-> decls'[i]]
    BY <1>1, <1>3 DEF Declared
  <2>2. \A i \in 1..l : decls'[i] \in D
    BY <1>4
  <2> HIDE DEF D
  <2>3. decls' \in [1..l -> D]
    BY <2>1, <2>2
  <2>4. decls' \in Seq(D)
    BY <1>2, <2>3
  <2> QED BY <2>4 DEF D
<1>6. Types'
  BY <1>1, <1>5 DEF Types, TypeOK
<1>7. /\ StackSorted' /\ FramesSorted' /\ StepsBounded' /\ (Discovered' = {} => steps' = 0)
      /\ Linked' /\ LowlinkSound' /\ LowlinkLowest' /\ Emission' /\ ComponentsExact'
      /\ \A x : Reach(x)' = Reach(x)
  BY <1>1, SearchKept
<1>8. Done = Nodes
  BY <1>1 DEF Done
<1>10. DeclaredOnce'
  <2>1. ASSUME NEW n \in Nodes
        PROVE  \E i \in DOMAIN decls' : \A j \in DOMAIN decls' : n \in decls'[j].members <=> j = i
    <3>1. PICK c \in 1..l : n \in sccs[c]
      BY <1>2, <1>8 DEF IInv, Emission
    <3>2. \A d \in 1..l : n \in sccs[d] <=> d = c
      BY <1>2, <3>1 DEF IInv, Emission
    <3> DEFINE i == l - c + 1
    <3>3. i \in 1..l /\ \A j \in 1..l : l - j + 1 = c <=> j = i
      BY <1>2
    <3>4. \A j \in DOMAIN decls' : n \in decls'[j].members <=> j = i
      BY <1>4, <3>2, <3>3
    <3>5. i \in DOMAIN decls'
      BY <1>4, <3>3
    <3> HIDE DEF i
    <3> QED BY <3>4, <3>5
  <2>2. ASSUME NEW i \in DOMAIN decls', ~decls'[i].rec, NEW n \in decls'[i].members
        PROVE  \A m \in deps[n] : n \notin Reach(m)
    <3> DEFINE c == l - i + 1
    <3>1. c \in DOMAIN sccs /\ NonRecursiveSingleton(sccs[c]) /\ n \in sccs[c] /\ n \in Nodes
      BY <1>2, <1>4, <2>2
    <3>2. sccs[c] = {n} /\ n \notin deps[n]
      BY <3>1 DEF NonRecursiveSingleton
    <3>3. PICK a \in Nodes : sccs[c] = Connected(a)
      BY <3>1 DEF IInv, ComponentsExact
    <3> QED BY <1>1, <3>1, <3>2, <3>3, SingletonNeedsNot
  <2> QED BY <1>1, <1>7, <2>1, <2>2 DEF DeclaredOnce
<1>11. DependentsFirst'
  <2>1. ASSUME NEW i \in DOMAIN decls', NEW j \in DOMAIN decls',
               NEW n \in decls'[i].members, deps[n] \cap decls'[j].members # {}
        PROVE  i <= j
    <3> DEFINE c == l - i + 1
               d == l - j + 1
    <3>1. c \in 1..l /\ d \in 1..l /\ n \in sccs[c] /\ i \in 1..l /\ j \in 1..l
      BY <1>4, <2>1
    <3>2. PICK m \in deps[n] : m \in sccs[d]
      BY <1>4, <2>1
    <3>3. PICK e \in 1..c : m \in sccs[e]
      BY <1>2, <3>1 DEF IInv, Emission
    <3>4. e \in 1..l /\ sccs[e] \cap sccs[d] # {}
      BY <1>2, <3>1, <3>2, <3>3
    <3>5. e = d
      <4>1. \A a, b \in DOMAIN sccs : sccs[a] \cap sccs[b] # {} => a = b
        BY DEF IInv, Emission
      <4> HIDE DEF d
      <4> QED BY <1>2, <3>1, <3>4, <4>1
    <3> QED BY <1>2, <3>1, <3>3, <3>5
  <2> QED BY <1>1, <2>1 DEF DependentsFirst, Needs
<1> QED
  BY <1>6, <1>7, <1>10, <1>11 DEF IInv
LEMMA KeepGroupOK == ASSUME IInv, KeepGroup PROVE IInv'
<1> DEFINE b == ~NonRecursiveSingleton(Nodes)
<1>1. /\ UNCHANGED <<deps, outside, index, lowlink, onStack, stack, frames, sccs, steps>>
      /\ pc' = "done" /\ decls' = Declared(<<Nodes>>) /\ Types
  BY DEF KeepGroup, IInv
<1>2. /\ StackSorted' /\ FramesSorted' /\ StepsBounded' /\ (Discovered' = {} => steps' = 0)
      /\ Linked' /\ LowlinkSound' /\ LowlinkLowest' /\ Emission' /\ ComponentsExact'
  BY <1>1, SearchKept
<1>3. decls' = [i \in {1} |-> [rec |-> b, members |-> Nodes]]
  <2>1. DOMAIN <<Nodes>> = {1} /\ <<Nodes>>[1] = Nodes
    OBVIOUS
  <2>2. decls' = [i \in DOMAIN <<Nodes>> |-> [rec |-> ~NonRecursiveSingleton(<<Nodes>>[i]), members |-> <<Nodes>>[i]]]
    BY <1>1 DEF Declared
  <2> QED BY <2>1, <2>2
<1>4. b \in BOOLEAN
  BY DEF NonRecursiveSingleton
<1>5. ~b => \A n \in Nodes : deps[n] = {}
  BY <1>1 DEF NonRecursiveSingleton, Types, TypeOK
<1> HIDE DEF b
<1>6. DOMAIN decls' = {1} /\ decls'[1].rec = b /\ decls'[1].members = Nodes
  BY <1>3
<1>7. decls' \in Seq([rec : BOOLEAN, members : SUBSET Nodes])
  <2> DEFINE D == [rec : BOOLEAN, members : SUBSET Nodes]
             d == [rec |-> b, members |-> Nodes]
  <2>1. d \in D
    BY <1>4
  <2>2. decls' = [i \in 1..1 |-> d] /\ 1 \in Nat
    BY <1>3
  <2> HIDE DEF D, d
  <2>3. decls' \in Seq(D)
    BY <2>1, <2>2
  <2> QED BY <2>3 DEF D
<1>8. Types'
  BY <1>1, <1>7 DEF Types, TypeOK
<1>9. DeclaredOnce' /\ DependentsFirst'
  <2>1. \A n \in Nodes : \E i \in DOMAIN decls' : \A j \in DOMAIN decls' : n \in decls'[j].members <=> j = i
    BY <1>6
  <2>2. \A i \in DOMAIN decls' : ~decls'[i].rec => \A n \in decls'[i].members : deps'[n] = {}
    BY <1>1, <1>5, <1>6
  <2>3. \A i, j \in DOMAIN decls' : i <= j
    BY <1>6
  <2> QED BY <2>1, <2>2, <2>3 DEF DeclaredOnce, DependentsFirst
<1> QED
  BY <1>2, <1>8, <1>9 DEF IInv

LEMMA BeginSearchOK == ASSUME IInv, BeginSearch PROVE IInv'
<1>1. /\ UNCHANGED <<deps, outside, index, lowlink, onStack, stack, frames, sccs, decls, steps>>
      /\ pc' = "search"
  BY DEF BeginSearch
<1>2. Types'
  BY <1>1 DEF IInv, Types, TypeOK
<1> QED
  BY <1>1, <1>2, SearchKept DEF IInv, DeclaredOnce, DependentsFirst

LEMMA StutterOK == ASSUME IInv, UNCHANGED vars PROVE IInv'
<1>1. /\ UNCHANGED <<deps, outside, index, lowlink, onStack, stack, frames, sccs, steps>>
      /\ UNCHANGED <<pc, decls>>
  BY DEF vars
<1>2. Types'
  BY <1>1 DEF IInv, Types, TypeOK
<1>3. DeclaredOnce' /\ DependentsFirst'
  <2>1. \A x : Reach(x)' = Reach(x)
    BY <1>1, ReachFixed
  <2> QED BY <1>1, <2>1 DEF IInv, DeclaredOnce, DependentsFirst, Needs
<1> QED
  BY <1>1, <1>2, <1>3, SearchKept DEF IInv

LEMMA InitOK ==
    ASSUME N \in Nat \ {0}, deps \in [Nodes -> SUBSET Nodes], outside \in SUBSET Nodes, Begin
    PROVE  IInv
<1>1. Types /\ Discovered = {} /\ Cardinality(Discovered) = 0
  <2>1. Discovered = {}
    BY DEF Begin, Discovered
  <2> QED BY <2>1, NodesFinite, FS_EmptySet DEF Begin, Types, TypeOK
<1>2. DOMAIN stack = {} /\ DOMAIN frames = {} /\ DOMAIN sccs = {} /\ onStack = {}
  BY DEF Begin
<1>3. StackSorted /\ FramesSorted /\ Linked /\ LowlinkSound /\ LowlinkLowest
  BY <1>1, <1>2 DEF Begin, StackSorted, FramesSorted, Linked, LowlinkSound, LowlinkLowest, Gray
<1>4. Emission /\ ComponentsExact
  BY <1>1, <1>2 DEF Emission, ComponentsExact, Done
<1>5. steps = 0 /\ pc = "start"
  BY DEF Begin
<1> QED
  BY <1>1, <1>3, <1>4, <1>5 DEF IInv, StepsBounded, DeclaredOnce, DependentsFirst

LEMMA StepOK == ASSUME IInv, [Next]_vars PROVE IInv'
<1>1. CASE Finish
  BY <1>1, RootOK, InnerOK
<1>2. CASE UNCHANGED vars
  BY <1>2, StutterOK
<1> QED
  BY <1>1, <1>2, KeepGroupOK, BeginSearchOK, StartNodeOK, TreeEdgeOK, BackEdgeOK, CrossEdgeOK,
     EndSearchOK DEF Next

-----------------------------------------------------------------------------
(***************************************************************************)
(* The search keeps its stacks sorted, its lowlinks sound and what it has  *)
(* emitted closed.                                                         *)
(***************************************************************************)
THEOREM Invariant == ASSUME N \in Nat \ {0} PROVE Spec => []IInv
<1>1. Init => IInv
  BY InitOK DEF Init
<1>2. IInv /\ [Next]_vars => IInv'
  BY StepOK
<1> QED
  BY <1>1, <1>2, PTL DEF Spec

(***************************************************************************)
(* The types, with no more rounds of the outer loop than twice the nodes:  *)
(* the budget of the loops is never used up (outer_step_budget).           *)
(***************************************************************************)
THEOREM TypeCorrect == ASSUME N \in Nat \ {0} PROVE Spec => []TypeOK
<1>1. IInv => TypeOK
  BY DEF IInv, Types
<1> QED
  BY <1>1, Invariant, PTL

(***************************************************************************)
(* What comes off the stack is a strongly connected component, whatever    *)
(* the group (tarjan).                                                     *)
(***************************************************************************)
THEOREM TarjanCorrect == ASSUME N \in Nat \ {0} PROVE Spec => []ComponentsExact
<1>1. IInv => ComponentsExact
  BY DEF IInv
<1> QED
  BY <1>1, Invariant, PTL

(***************************************************************************)
(* Every member is declared exactly once, without rec only if nothing it   *)
(* needs needs it, and before what it needs (split_val_rec_into_sccs).     *)
(***************************************************************************)
THEOREM GroupDeclared == ASSUME N \in Nat \ {0} PROVE Spec => [](DeclaredOnce /\ DependentsFirst)
<1>1. IInv => DeclaredOnce /\ DependentsFirst
  BY DEF IInv
<1> QED
  BY <1>1, Invariant, PTL
=============================================================================
