----------------------------- MODULE CoreProofs -----------------------------
(***************************************************************************)
(* Theorems about the passes over the core of a program: the effect        *)
(* analysis and dead code elimination on their own, for any program, and   *)
(* untangling and dead code elimination as they follow each other.         *)
(*                                                                         *)
(* Effects: what was found of a function cannot change once its            *)
(* declaration has been passed: all it refers to has been passed too, and  *)
(* a function that is met again adds nothing, because nothing was missed   *)
(* the first time.                                                         *)
(***************************************************************************)
EXTENDS CorePasses, FiniteSetTheorems, TLAPS

Settled(f) ==
    /\ HasWrite(f, writers) => f \in writers
    /\ HasReadCookie(f, readers) => f \in readers
    /\ HasPush(f, writers, readers, pushers) => f \in pushers

(* In a round that has added nothing the members seen are settled.         *)
RoundOK == At({"rec"}) /\ ~changed => \A k \in 1..(member - 1) : Settled(Decl.fns[k])

(* Only functions already declared are stamped, and the links among them   *)
(* that write are the ones reported.                                       *)
StampedBefore == InOrder => \A s \in stamped : s.fn \in DeclaredBefore(pos)
Linked(i) == {f \in writers \ Safe : \E k \in 1..(i - 1) : file[k].kind = "link" /\ file[k].fns[1] = f}
WarnedOK == InOrder => warned = Linked(pos)

IInv == TypeOK /\ NothingInvented /\ NothingMissed /\ RoundOK /\ StampedBefore /\ StampsTrue /\ WarnedOK

-----------------------------------------------------------------------------
(***************************************************************************)
(* The declarations of a well-formed file.                                 *)
(***************************************************************************)
LEMMA DeclTypes ==
    ASSUME TypeOK, NEW i \in 1..Len(file)
    PROVE  /\ file[i].kind \in {"val", "rec", "link", "action", "other"}
           /\ file[i].fns \in Seq(Fns)
           /\ file[i].kind \notin {"rec", "other"} => file[i].fns[1] \in Fns /\ DOMAIN file[i].fns = {1}
           /\ Len(file) \in Nat
<1>1. file \in Seq(DeclType) /\ Len(file) \in Nat /\ DOMAIN file = 1..Len(file)
  BY DEF TypeOK, WellFormed
<1>2. file[i] \in DeclType
  BY <1>1
<1>3. file[i].kind \in {"val", "rec", "link", "action", "other"} /\ file[i].fns \in Seq(Fns)
  BY <1>2 DEF DeclType
<1>4. file[i].kind \notin {"rec", "other"} => Len(file[i].fns) = 1
  BY <1>1 DEF TypeOK, WellFormed
<1> QED
  BY <1>1, <1>3, <1>4

LEMMA PosTypes ==
    ASSUME TypeOK
    PROVE  /\ pos \in Nat /\ Len(file) \in Nat
           /\ pos <= Len(file) => pos \in 1..Len(file)
           /\ member \in Nat
           /\ At({"rec"}) => Decl.kind = "rec" /\ pos \in 1..Len(file)
<1>1. Len(file) \in Nat
  BY DEF TypeOK, WellFormed
<1>2. At({"rec"}) => Len(Decl.fns) \in Nat /\ pos \in 1..Len(file)
  BY <1>1, DeclTypes DEF TypeOK, At, Decl
<1>3. member \in Nat
  BY <1>2 DEF TypeOK
<1> QED
  BY <1>1, <1>2, <1>3 DEF TypeOK, At

(***************************************************************************)
(* In a file in order, what a declared function refers to is declared.     *)
(***************************************************************************)
LEMMA RefsBefore ==
    ASSUME TypeOK, InOrder, NEW i \in 1..(Len(file) + 1), NEW g \in DeclaredBefore(i)
    PROVE  AllRefs(g) \subseteq DeclaredBefore(i)
<1>1. Len(file) \in Nat /\ DOMAIN file = 1..Len(file)
  BY DEF TypeOK, WellFormed
<1>2. PICK k \in 1..(i - 1) : g \in Members(k)
  BY DEF DeclaredBefore
<1>3. k \in DOMAIN file
  BY <1>1
<1>4. AllRefs(g) \subseteq DeclaredBefore(k) \cup Members(k)
  BY <1>2, <1>3 DEF InOrder
<1>5. Members(k) \subseteq DeclaredBefore(i)
  BY DEF DeclaredBefore
<1>6. DeclaredBefore(k) \subseteq DeclaredBefore(i)
  <2>1. \A m \in 1..(k - 1) : m \in 1..(i - 1)
    BY <1>1
  <2> QED
    BY <2>1 DEF DeclaredBefore
<1> QED
  BY <1>4, <1>5, <1>6

(***************************************************************************)
(* Passing a declaration adds its members to what is declared.             *)
(***************************************************************************)
LEMMA DeclaredNext ==
    ASSUME NEW i \in Nat, i >= 1
    PROVE  DeclaredBefore(i + 1) = DeclaredBefore(i) \cup Members(i)
<1>1. 1..((i + 1) - 1) = (1..(i - 1)) \cup {i}
  OBVIOUS
<1> QED
  BY <1>1 DEF DeclaredBefore

(***************************************************************************)
(* What looking at a function adds.                                        *)
(***************************************************************************)
LEMMA LookAdds ==
    ASSUME NEW f \in Fns, Look(f)
    PROVE  /\ writers' = writers \/ (writers' = writers \cup {f} /\ HasWrite(f, writers))
           /\ readers' = readers \/ (readers' = readers \cup {f} /\ HasReadCookie(f, readers))
           /\ pushers' = pushers \/ (pushers' = pushers \cup {f} /\ HasPush(f, writers', readers', pushers))
           /\ HasWrite(f, writers) => f \in writers'
           /\ HasReadCookie(f, readers) => f \in readers'
           /\ HasPush(f, writers', readers', pushers) => f \in pushers'
BY DEF Look, With

LEMMA LookSettles ==
    ASSUME NEW f \in Fns, Look(f), body' = body
    PROVE  Settled(f)'
<1>1. HasWrite(f, writers)' => f \in writers'
  <2>1. HasWrite(f, writers)' /\ writers' = writers => HasWrite(f, writers)
    BY DEF HasWrite
  <2> QED
    BY <2>1, LookAdds
<1>2. HasReadCookie(f, readers)' => f \in readers'
  <2>1. HasReadCookie(f, readers)' /\ readers' = readers => HasReadCookie(f, readers)
    BY DEF HasReadCookie
  <2> QED
    BY <2>1, LookAdds
<1>3. HasPush(f, writers, readers, pushers)' => f \in pushers'
  <2>1. HasPush(f, writers, readers, pushers)' /\ pushers' = pushers
            => HasPush(f, writers', readers', pushers)
    BY DEF HasPush
  <2> QED
    BY <2>1, LookAdds
<1> QED
  BY <1>1, <1>2, <1>3 DEF Settled

(***************************************************************************)
(* Looking at a function changes nothing about those already declared.     *)
(***************************************************************************)
LEMMA LookKeeps ==
    ASSUME TypeOK, InOrder, NothingMissed, NEW f \in Fns, Look(f),
           UNCHANGED <<body, file, pos>> \/ UNCHANGED <<body, file>>,
           NEW g \in DeclaredBefore(pos)
    PROVE  /\ g \in writers' <=> g \in writers
           /\ g \in readers' <=> g \in readers
           /\ g \in pushers' <=> g \in pushers
           /\ Settled(g)'
<1> DEFINE D == DeclaredBefore(pos)
<1>1. \A h \in D : Settled(h)
  BY DEF NothingMissed, Settled
<1>2. f \in D => writers' = writers /\ readers' = readers
  <2>1. SUFFICES ASSUME f \in D PROVE writers' = writers /\ readers' = readers
    OBVIOUS
  <2>2. Settled(f)
    BY <1>1, <2>1
  <2> QED
    BY <2>2, LookAdds DEF Settled
<1>3. f \in D => pushers' = pushers
  <2>1. SUFFICES ASSUME f \in D PROVE pushers' = pushers
    OBVIOUS
  <2>2. Settled(f) /\ writers' = writers /\ readers' = readers
    BY <1>1, <1>2, <2>1
  <2>3. HasPush(f, writers', readers', pushers) => f \in pushers
    BY <2>2 DEF Settled
  <2> QED
    BY <2>3, LookAdds
<1>4. \A h \in D : /\ h \in writers' <=> h \in writers
                   /\ h \in readers' <=> h \in readers
                   /\ h \in pushers' <=> h \in pushers
  BY <1>2, <1>3, LookAdds
<1>5. AllRefs(g) \subseteq D
  <2>1. pos \in 1..(Len(file) + 1)
    BY DEF TypeOK
  <2> QED
    BY <2>1, RefsBefore
<1>6. body' = body
  OBVIOUS
<1>7. HasWrite(g, writers)' => HasWrite(g, writers)
  BY <1>4, <1>5, <1>6 DEF HasWrite, AllRefs
<1>8. HasReadCookie(g, readers)' => HasReadCookie(g, readers)
  BY <1>4, <1>5, <1>6 DEF HasReadCookie, AllRefs
<1>9. HasPush(g, writers, readers, pushers)' => HasPush(g, writers, readers, pushers)
  BY <1>4, <1>5, <1>6 DEF HasPush, AllRefs
<1>10. Settled(g)
  BY <1>1
<1> QED
  BY <1>4, <1>7, <1>8, <1>9, <1>10 DEF Settled

(***************************************************************************)
(* Looking at a function keeps the sets within every closed set.           *)
(***************************************************************************)
LEMMA LookInvents ==
    ASSUME TypeOK, NothingInvented, NEW f \in Fns, Look(f), body' = body
    PROVE  NothingInvented'
<1>1. ASSUME NEW C \in SUBSET Fns, WriteClosed(C) PROVE writers' \subseteq C
  <2>1. writers \subseteq C
    BY <1>1 DEF NothingInvented
  <2>2. HasWrite(f, writers) => HasWrite(f, C)
    BY <2>1 DEF HasWrite
  <2>3. HasWrite(f, writers) => f \in C
    BY <1>1, <2>2 DEF WriteClosed
  <2> QED
    BY <2>1, <2>3, LookAdds
<1>2. ASSUME NEW C \in SUBSET Fns, CookieClosed(C) PROVE readers' \subseteq C
  <2>1. readers \subseteq C
    BY <1>2 DEF NothingInvented
  <2>2. HasReadCookie(f, readers) => HasReadCookie(f, C)
    BY <2>1 DEF HasReadCookie
  <2>3. HasReadCookie(f, readers) => f \in C
    BY <1>2, <2>2 DEF CookieClosed
  <2> QED
    BY <2>1, <2>3, LookAdds
<1>3. \A C : (WriteClosed(C)' <=> WriteClosed(C)) /\ (CookieClosed(C)' <=> CookieClosed(C))
  BY DEF WriteClosed, CookieClosed, HasWrite, HasReadCookie
<1> QED
  BY <1>1, <1>2, <1>3 DEF NothingInvented

(***************************************************************************)
(* Looking at a function keeps the stamps and the reports true.            *)
(***************************************************************************)
LEMMA LookKeepsStamps ==
    ASSUME TypeOK, NothingMissed, StampedBefore, StampsTrue, NEW f \in Fns, Look(f),
           UNCHANGED <<body, file, stamped>>
    PROVE  StampsTrue'
<1>1. InOrder' <=> InOrder
  BY DEF InOrder, AllRefs, DeclaredBefore, Members
<1>2. ASSUME InOrder, NEW s \in stamped
      PROVE  /\ s.fn \in writers' <=> s.fn \in writers
             /\ s.fn \in readers' <=> s.fn \in readers
             /\ s.fn \in pushers' <=> s.fn \in pushers
  <2>1. s.fn \in DeclaredBefore(pos)
    BY <1>2 DEF StampedBefore
  <2> QED
    BY <1>2, <2>1, LookKeeps
<1> QED
  BY <1>1, <1>2 DEF StampsTrue

LEMMA LookKeepsLinks ==
    ASSUME TypeOK, NothingMissed, InOrder, NEW f \in Fns, Look(f), UNCHANGED <<body, file>>
    PROVE  {g \in writers' \ Safe : \E k \in 1..(pos - 1) : file[k].kind = "link" /\ file[k].fns[1] = g}
               = Linked(pos)
<1>1. ASSUME NEW k \in 1..(pos - 1), file[k].kind = "link"
      PROVE  file[k].fns[1] \in DeclaredBefore(pos)
  <2>1. k \in DOMAIN file /\ k <= pos
    BY PosTypes DEF TypeOK, WellFormed
  <2>2. file[k].fns[1] \in DeclaredBefore(k)
    BY <1>1, <2>1 DEF InOrder
  <2>3. \A m \in 1..(k - 1) : m \in 1..(pos - 1)
    BY PosTypes
  <2> QED
    BY <2>2, <2>3 DEF DeclaredBefore
<1>2. \A g \in DeclaredBefore(pos) : g \in writers' <=> g \in writers
  BY LookKeeps
<1> QED
  BY <1>1, <1>2 DEF Linked

-----------------------------------------------------------------------------
LEMMA BeginOK == Begin /\ WellFormed(file) /\ body \in [Fns -> BodyType] => IInv
<1> SUFFICES ASSUME Begin, WellFormed(file), body \in [Fns -> BodyType] PROVE IInv
  OBVIOUS
<1>1. TypeOK
  <2>1. Len(file) \in Nat
    BY DEF WellFormed
  <2>2. At({"rec"}) => Len(Decl.fns) \in Nat
    BY <2>1 DEF Begin, At, Decl, WellFormed, DeclType
  <2>3. 1 \in 1..(IF At({"rec"}) THEN Len(Decl.fns) + 1 ELSE 1)
    BY <2>2
  <2>4. 1 \in 1..(Len(file) + 1)
    BY <2>1
  <2> QED
    BY <2>3, <2>4 DEF Begin, TypeOK
<1>2. DeclaredBefore(pos) = {}
  BY DEF Begin, DeclaredBefore
<1> QED
  BY <1>1, <1>2 DEF Begin, IInv, NothingInvented, NothingMissed, RoundOK, StampedBefore,
                    StampsTrue, WarnedOK, Linked

(***************************************************************************)
(* The steps keep the type invariant.                                      *)
(***************************************************************************)
LEMMA StepTypes == ASSUME TypeOK, Next PROVE TypeOK'
<1> USE PosTypes
<1>1. ASSUME NEW f \in Fns, Look(f)
      PROVE  writers' \subseteq Fns /\ readers' \subseteq Fns /\ pushers' \subseteq Fns
  BY <1>1, LookAdds DEF TypeOK
<1>2. CASE AnalyzeVal
  <2>1. pos \in 1..Len(file) /\ Decl.kind = "val" /\ Decl.fns[1] \in Fns
    BY <1>2, DeclTypes DEF AnalyzeVal, At, Decl
  <2>2. member = 1
    BY <2>1 DEF TypeOK, At
  <2>3. At({"rec"})' => Len(Decl.fns)' \in Nat
    BY <1>2, <2>1, DeclTypes DEF AnalyzeVal, At, Decl
  <2> QED
    BY <1>1, <1>2, <2>1, <2>2, <2>3 DEF AnalyzeVal, TypeOK
<1>3. CASE AnalyzeMember
  <2>1. pos \in 1..Len(file) /\ Decl.fns \in Seq(Fns) /\ member \in 1..Len(Decl.fns)
    BY <1>3, DeclTypes DEF AnalyzeMember, At, Decl, TypeOK
  <2>2. Decl.fns[member] \in Fns /\ Len(Decl.fns) \in Nat
    BY <2>1
  <2>3. (At({"rec"}) /\ Decl = Decl)' /\ Decl' = Decl
    BY <1>3 DEF AnalyzeMember, At, Decl
  <2> QED
    BY <1>1, <1>3, <2>1, <2>2, <2>3 DEF AnalyzeMember, TypeOK
<1>4. CASE EndRound
  <2>1. pos \in 1..Len(file) /\ Len(Decl.fns) \in Nat
    BY <1>4, DeclTypes DEF EndRound, At, Decl
  <2>2. pos' \in 1..(Len(file) + 1)
    BY <1>4, <2>1 DEF EndRound
  <2>3. At({"rec"})' => Len(Decl.fns)' \in Nat
    BY <1>4, <2>1, <2>2, DeclTypes DEF EndRound, At, Decl
  <2>4. member' \in (1..(IF At({"rec"}) THEN Len(Decl.fns) + 1 ELSE 1))'
    BY <1>4, <2>3 DEF EndRound
  <2>5. WellFormed(file)' /\ changed' \in BOOLEAN
    BY <1>4 DEF EndRound, TypeOK, WellFormed
  <2> QED
    BY <1>4, <2>2, <2>4, <2>5 DEF EndRound, TypeOK
<1>5. CASE AnalyzeExport
  <2>1. /\ pos \in 1..Len(file) /\ Decl.kind \in {"link", "action"}
        /\ Decl.fns[1] \in Fns
    BY <1>5, DeclTypes DEF AnalyzeExport, At, Decl
  <2>2. member = 1
    BY <2>1 DEF TypeOK, At
  <2>3. At({"rec"})' => Len(Decl.fns)' \in Nat
    BY <1>5, <2>1, DeclTypes DEF AnalyzeExport, At, Decl
  <2>4. ComputeEffect(Decl.fns[1]) \in {"ReadCookieWrite", "ReadWrite", "ReadOnly"}
    BY DEF ComputeEffect
  <2>5. stamped' \subseteq [fn : Fns, effect : {"ReadCookieWrite", "ReadWrite", "ReadOnly"},
                            state : BOOLEAN]
    <3> DEFINE f == Decl.fns[1]
               stamp == [fn |-> f, effect |-> ComputeEffect(f), state |-> f \in pushers]
    <3>1. (f \in pushers) \in BOOLEAN
      OBVIOUS
    <3>2. stamp \in [fn : Fns, effect : {"ReadCookieWrite", "ReadWrite", "ReadOnly"},
                     state : BOOLEAN]
      BY <2>1, <2>4, <3>1
    <3>3. stamped' = stamped \cup {stamp}
      BY <1>5 DEF AnalyzeExport
    <3> HIDE DEF stamp
    <3> QED
      BY <3>2, <3>3 DEF TypeOK
  <2>6. warned' \subseteq Fns
    BY <1>5, <2>1 DEF AnalyzeExport, With, TypeOK
  <2>7. member' \in (1..(IF At({"rec"}) THEN Len(Decl.fns) + 1 ELSE 1))'
    BY <1>5, <2>2, <2>3 DEF AnalyzeExport
  <2>8. pos' \in 1..(Len(file) + 1)
    BY <1>5, <2>1 DEF AnalyzeExport
  <2>9. WellFormed(file)'
    BY <1>5 DEF AnalyzeExport, TypeOK, WellFormed
  <2>10. /\ body' \in [Fns -> BodyType] /\ changed' \in BOOLEAN /\ file' = file
         /\ writers' \subseteq Fns /\ readers' \subseteq Fns /\ pushers' \subseteq Fns
    BY <1>5 DEF AnalyzeExport, TypeOK
  <2> QED
    BY <2>5, <2>6, <2>7, <2>8, <2>9, <2>10 DEF TypeOK
<1>6. CASE AnalyzeOther
  <2>1. pos \in 1..Len(file) /\ member = 1
    BY <1>6 DEF AnalyzeOther, At, TypeOK
  <2>2. At({"rec"})' => Len(Decl.fns)' \in Nat
    BY <1>6, <2>1, DeclTypes DEF AnalyzeOther, At, Decl
  <2> QED
    BY <1>6, <2>1, <2>2 DEF AnalyzeOther, TypeOK
<1> QED
  BY <1>2, <1>3, <1>4, <1>5, <1>6 DEF Next

(***************************************************************************)
(* The steps keep the rest of the invariant.                               *)
(***************************************************************************)
LEMMA LookingOK ==
    ASSUME IInv, AnalyzeVal \/ AnalyzeMember
    PROVE  /\ NothingInvented' /\ StampsTrue'
           /\ InOrder' <=> InOrder
           /\ Decl.kind \in {"val", "rec"} /\ pos \in 1..Len(file)
           /\ \E f \in Members(pos) : f \in Fns /\ Look(f) /\ UNCHANGED <<body, file>>
<1>1. /\ Decl.kind \in {"val", "rec"} /\ pos \in 1..Len(file)
      /\ AnalyzeVal => Decl.kind = "val"
      /\ AnalyzeMember => Decl.kind = "rec"
  BY PosTypes DEF IInv, AnalyzeVal, AnalyzeMember, At
<1>2. Decl.fns \in Seq(Fns) /\ (Decl.kind = "val" => DOMAIN Decl.fns = {1})
  BY <1>1, DeclTypes DEF IInv, Decl
<1>3. AnalyzeMember => member \in DOMAIN Decl.fns
  BY <1>1, <1>2 DEF AnalyzeMember, IInv, TypeOK, At
<1>4. PICK k \in DOMAIN Decl.fns : Look(Decl.fns[k]) /\ UNCHANGED <<body, file, stamped>>
  BY <1>1, <1>2, <1>3 DEF AnalyzeVal, AnalyzeMember
<1>5. Decl.fns[k] \in Members(pos) /\ Decl.fns[k] \in Fns
  BY <1>1, <1>2 DEF Members, Decl
<1>6. NothingInvented' /\ StampsTrue'
  BY <1>4, <1>5, LookInvents, LookKeepsStamps DEF IInv
<1>7. InOrder' <=> InOrder
  BY <1>4 DEF InOrder, AllRefs, DeclaredBefore, Members
<1> QED
  BY <1>1, <1>4, <1>5, <1>6, <1>7

(***************************************************************************)
(* The next declaration: what is declared before it, primed.               *)
(***************************************************************************)
LEMMA PassedDecl ==
    ASSUME TypeOK, file' = file, pos' = pos + 1
    PROVE  DeclaredBefore(pos)' = DeclaredBefore(pos) \cup Members(pos)
<1>1. DeclaredBefore(pos)' = DeclaredBefore(pos + 1)
  BY DEF DeclaredBefore, Members
<1>2. pos \in Nat /\ pos >= 1
  BY PosTypes DEF TypeOK
<1> QED
  BY <1>1, <1>2, DeclaredNext

LEMMA ValOK == ASSUME IInv, AnalyzeVal PROVE IInv'
<1> USE DEF IInv
<1>1. TypeOK'
  BY StepTypes DEF Next
<1>2. NothingInvented' /\ StampsTrue' /\ (InOrder' <=> InOrder) /\ pos \in 1..Len(file)
  BY LookingOK
<1>3. Decl.kind = "val" /\ UNCHANGED <<body, file, stamped, warned>> /\ pos' = pos + 1
  BY DEF AnalyzeVal, At
<1>4. PICK f \in Fns : Look(f) /\ Members(pos) = {f}
  BY <1>2, <1>3, DeclTypes DEF AnalyzeVal, Decl, Members
<1>5. Settled(f)'
  BY <1>3, <1>4, LookSettles
<1>6. DeclaredBefore(pos)' = DeclaredBefore(pos) \cup {f}
  BY <1>3, <1>4, PassedDecl
<1>7. ASSUME InOrder PROVE \A g \in DeclaredBefore(pos) : Settled(g)'
  BY <1>3, <1>4, <1>7, LookKeeps
<1>8. NothingMissed'
  <2>1. InOrder => \A g \in DeclaredBefore(pos)' : Settled(g)'
    BY <1>5, <1>6, <1>7
  <2> QED
    BY <1>2, <2>1 DEF NothingMissed, Settled
<1>9. RoundOK'
  <2>1. member' = 1
    BY <1>3 DEF AnalyzeVal, TypeOK, At
  <2> QED
    BY <2>1 DEF RoundOK
<1>10. StampedBefore'
  BY <1>2, <1>3, <1>6 DEF StampedBefore
<1>11. WarnedOK'
  <2>1. SUFFICES ASSUME InOrder PROVE warned = Linked(pos)'
    BY <1>2, <1>3 DEF WarnedOK
  <2>2. file[pos].kind # "link"
    BY <1>3 DEF Decl
  <2>3. 1..(pos' - 1) = (1..(pos - 1)) \cup {pos}
    BY <1>2, <1>3
  <2>4. Linked(pos)' = {g \in writers' \ Safe : \E k \in 1..(pos - 1) : file[k].kind = "link" /\ file[k].fns[1] = g}
    BY <1>3, <2>2, <2>3 DEF Linked
  <2> QED
    BY <1>3, <1>4, <2>1, <2>4, LookKeepsLinks DEF WarnedOK
<1> QED
  BY <1>1, <1>2, <1>8, <1>9, <1>10, <1>11

LEMMA MemberOK == ASSUME IInv, AnalyzeMember PROVE IInv'
<1> USE DEF IInv
<1>1. TypeOK'
  BY StepTypes DEF Next
<1>2. NothingInvented' /\ StampsTrue' /\ (InOrder' <=> InOrder) /\ pos \in 1..Len(file)
  BY LookingOK
<1>3. /\ Decl.kind = "rec" /\ UNCHANGED <<body, file, pos, stamped, warned>>
      /\ member' = member + 1
      /\ changed' = (changed \/ <<writers, readers, pushers>> # <<writers', readers', pushers'>>)
  BY DEF AnalyzeMember, At
<1> DEFINE f == Decl.fns[member]
<1>4. f \in Fns /\ Look(f) /\ member \in Nat
  BY <1>2, <1>3, DeclTypes DEF AnalyzeMember, Decl, TypeOK, At
<1>5. DeclaredBefore(pos)' = DeclaredBefore(pos) /\ Decl' = Decl
  BY <1>3 DEF DeclaredBefore, Members, Decl
<1>6. NothingMissed'
  <2>1. ASSUME InOrder PROVE \A g \in DeclaredBefore(pos) : Settled(g)'
    BY <1>3, <1>4, <2>1, LookKeeps
  <2> QED
    BY <1>2, <1>5, <2>1 DEF NothingMissed, Settled
<1>7. RoundOK'
  <2>1. SUFFICES ASSUME ~changed', NEW k \in 1..(member' - 1)
                 PROVE  Settled(Decl.fns[k])'
    BY DEF RoundOK
  <2>2. UNCHANGED <<writers, readers, pushers, body>> /\ ~changed
    BY <1>3, <2>1
  <2>3. CASE k = member
    BY <1>3, <1>4, <1>5, <2>3, LookSettles
  <2>4. CASE k \in 1..(member - 1)
    <3>1. Settled(Decl.fns[k])
      BY <1>2, <1>3, <2>2, <2>4 DEF RoundOK, AnalyzeMember
    <3> QED
      BY <1>5, <2>2, <3>1 DEF Settled, HasWrite, HasReadCookie, HasPush
  <2> QED
    BY <1>3, <1>4, <2>1, <2>3, <2>4
<1>8. StampedBefore'
  BY <1>2, <1>3, <1>5 DEF StampedBefore
<1>9. WarnedOK'
  <2>1. SUFFICES ASSUME InOrder PROVE warned = Linked(pos)'
    BY <1>2, <1>3 DEF WarnedOK
  <2>2. Linked(pos)' = {g \in writers' \ Safe : \E k \in 1..(pos - 1) : file[k].kind = "link" /\ file[k].fns[1] = g}
    BY <1>3 DEF Linked
  <2> QED
    BY <1>3, <1>4, <2>1, <2>2, LookKeepsLinks DEF WarnedOK
<1> QED
  BY <1>1, <1>2, <1>6, <1>7, <1>8, <1>9

LEMMA EndRoundOK == ASSUME IInv, EndRound PROVE IInv'
<1> USE DEF IInv
<1>1. TypeOK'
  BY StepTypes DEF Next
<1>2. /\ UNCHANGED <<body, file, writers, readers, pushers, stamped, warned>>
      /\ Decl.kind = "rec" /\ pos \in 1..Len(file)
      /\ pos' = (IF ~changed THEN pos + 1 ELSE pos) /\ member' = 1 /\ member > Len(Decl.fns)
  BY PosTypes DEF EndRound, RoundAddedNothing, At
<1>3. InOrder' <=> InOrder
  BY <1>2 DEF InOrder, AllRefs, DeclaredBefore, Members
<1>4. NothingInvented'
  BY <1>2 DEF NothingInvented, WriteClosed, CookieClosed, HasWrite, HasReadCookie
<1>5. \A g : Settled(g)' <=> Settled(g)
  BY <1>2 DEF Settled, HasWrite, HasReadCookie, HasPush
<1>6. DeclaredBefore(pos)' = DeclaredBefore(pos) \cup (IF ~changed THEN Members(pos) ELSE {})
  <2>1. CASE ~changed
    BY <1>2, <2>1, PassedDecl
  <2>2. CASE changed
    BY <1>2, <2>2 DEF DeclaredBefore, Members
  <2> QED
    BY <2>1, <2>2 DEF TypeOK
<1>7. ~changed => \A g \in Members(pos) : Settled(g)
  <2>1. SUFFICES ASSUME ~changed, NEW g \in Members(pos) PROVE Settled(g)
    OBVIOUS
  <2>2. PICK k \in DOMAIN Decl.fns : g = Decl.fns[k]
    BY <1>2 DEF Members, Decl
  <2>3. k \in 1..(member - 1)
    <3>1. Decl.fns \in Seq(Fns)
      BY <1>2, DeclTypes DEF Decl
    <3>2. k \in 1..Len(Decl.fns) /\ Len(Decl.fns) \in Nat
      BY <2>2, <3>1
    <3> QED
      BY <1>2, <3>2, PosTypes
  <2> QED
    BY <2>1, <2>2, <2>3 DEF RoundOK, EndRound
<1>8. NothingMissed'
  <2>1. ASSUME InOrder PROVE \A g \in DeclaredBefore(pos)' : Settled(g)'
    BY <1>5, <1>6, <1>7, <2>1 DEF NothingMissed, Settled
  <2> QED
    BY <1>3, <2>1 DEF NothingMissed, Settled
<1>9. RoundOK'
  BY <1>2 DEF RoundOK
<1>10. StampedBefore'
  BY <1>2, <1>3, <1>6 DEF StampedBefore
<1>11. StampsTrue'
  BY <1>2, <1>3 DEF StampsTrue
<1>12. WarnedOK'
  <2>1. file[pos].kind # "link"
    BY <1>2 DEF Decl
  <2>2. 1..(pos' - 1) = 1..(pos - 1) \/ 1..(pos' - 1) = (1..(pos - 1)) \cup {pos}
    BY <1>2
  <2>3. Linked(pos)' = Linked(pos)
    BY <1>2, <2>1, <2>2 DEF Linked
  <2> QED
    BY <1>2, <1>3, <2>3 DEF WarnedOK
<1> QED
  BY <1>1, <1>4, <1>8, <1>9, <1>10, <1>11, <1>12

LEMMA ExportOK == ASSUME IInv, AnalyzeExport PROVE IInv'
<1> USE DEF IInv
<1>1. TypeOK'
  BY StepTypes DEF Next
<1>2. /\ UNCHANGED <<body, file, writers, readers, pushers>> /\ pos' = pos + 1
      /\ Decl.kind \in {"link", "action"} /\ pos \in 1..Len(file)
  BY PosTypes DEF AnalyzeExport, At
<1>3. PICK f \in Fns : f = Decl.fns[1]
  BY <1>2, DeclTypes DEF Decl
<1>4. InOrder' <=> InOrder
  BY <1>2 DEF InOrder, AllRefs, DeclaredBefore, Members
<1>5. NothingInvented'
  BY <1>2 DEF NothingInvented, WriteClosed, CookieClosed, HasWrite, HasReadCookie
<1>6. DeclaredBefore(pos)' = DeclaredBefore(pos)
  <2>1. Members(pos) = {}
    BY <1>2 DEF Members, Decl
  <2> QED
    BY <1>2, <2>1, PassedDecl
<1>7. NothingMissed'
  BY <1>2, <1>4, <1>6 DEF NothingMissed, HasWrite, HasReadCookie, HasPush
<1>8. RoundOK'
  <2>1. member' = 1
    BY <1>2 DEF AnalyzeExport, TypeOK, At
  <2> QED
    BY <2>1 DEF RoundOK
<1>9. InOrder => f \in DeclaredBefore(pos)
  <2>1. pos \in DOMAIN file
    BY <1>2 DEF TypeOK, WellFormed
  <2> QED
    BY <1>2, <1>3, <2>1 DEF InOrder, Decl
<1> DEFINE stamp == [fn |-> f, effect |-> ComputeEffect(f), state |-> f \in pushers]
<1>10. /\ stamped' = stamped \cup {stamp}
       /\ stamp.fn = f /\ stamp.effect = ComputeEffect(f) /\ (stamp.state <=> f \in pushers)
  BY <1>3 DEF AnalyzeExport
<1> HIDE DEF stamp
<1>11. StampedBefore'
  BY <1>4, <1>6, <1>9, <1>10 DEF StampedBefore
<1>12. StampsTrue'
  <2>1. /\ stamp.effect = "ReadOnly" <=> f \notin writers
        /\ stamp.effect = "ReadCookieWrite" <=> f \in writers \cap readers
        /\ stamp.state <=> f \in pushers
    BY <1>10 DEF ComputeEffect
  <2> QED
    BY <1>2, <1>4, <1>10, <2>1 DEF StampsTrue
<1>13. WarnedOK'
  <2>1. SUFFICES ASSUME InOrder PROVE warned' = Linked(pos)'
    BY <1>4 DEF WarnedOK
  <2>2. warned' = IF Decl.kind = "link" /\ GetWithEffects(f) THEN warned \cup {f} ELSE warned
    BY <1>3 DEF AnalyzeExport, With
  <2>3. 1..(pos' - 1) = (1..(pos - 1)) \cup {pos}
    BY <1>2
  <2>4. Linked(pos)' = Linked(pos) \cup (IF Decl.kind = "link" THEN {f} \cap (writers \ Safe) ELSE {})
    BY <1>2, <1>3, <2>3 DEF Linked, Decl
  <2> QED
    BY <2>1, <2>2, <2>4 DEF WarnedOK, GetWithEffects
<1> QED
  BY <1>1, <1>5, <1>7, <1>8, <1>11, <1>12, <1>13

LEMMA OtherOK == ASSUME IInv, AnalyzeOther PROVE IInv'
<1> USE DEF IInv
<1>1. TypeOK'
  BY StepTypes DEF Next
<1>2. /\ UNCHANGED <<body, file, writers, readers, pushers, stamped, warned>> /\ pos' = pos + 1
      /\ Decl.kind = "other" /\ pos \in 1..Len(file)
  BY PosTypes DEF AnalyzeOther, At
<1>3. InOrder' <=> InOrder
  BY <1>2 DEF InOrder, AllRefs, DeclaredBefore, Members
<1>4. DeclaredBefore(pos)' = DeclaredBefore(pos)
  <2>1. Members(pos) = {}
    BY <1>2 DEF Members, Decl
  <2> QED
    BY <1>2, <2>1, PassedDecl
<1>5. NothingInvented'
  BY <1>2 DEF NothingInvented, WriteClosed, CookieClosed, HasWrite, HasReadCookie
<1>6. NothingMissed' /\ StampedBefore' /\ StampsTrue'
  BY <1>2, <1>3, <1>4 DEF NothingMissed, StampedBefore, StampsTrue, HasWrite, HasReadCookie, HasPush
<1>7. RoundOK'
  <2>1. member' = 1
    BY <1>2 DEF AnalyzeOther, TypeOK, At
  <2> QED
    BY <2>1 DEF RoundOK
<1>8. WarnedOK'
  <2>1. 1..(pos' - 1) = (1..(pos - 1)) \cup {pos} /\ file[pos].kind # "link"
    BY <1>2 DEF Decl
  <2>2. Linked(pos)' = Linked(pos)
    BY <1>2, <2>1 DEF Linked
  <2> QED
    BY <1>2, <1>3, <2>2 DEF WarnedOK
<1> QED
  BY <1>1, <1>5, <1>6, <1>7, <1>8

LEMMA EffectsStep == ASSUME IInv, [Next]_vars PROVE IInv'
<1>1. CASE UNCHANGED vars
  <2> USE <1>1 DEF vars
  <2>1. (InOrder' <=> InOrder) /\ DeclaredBefore(pos)' = DeclaredBefore(pos)
    BY DEF InOrder, AllRefs, DeclaredBefore, Members
  <2>2. \A g : Settled(g)' <=> Settled(g)
    BY DEF Settled, HasWrite, HasReadCookie, HasPush
  <2>3. Decl' = Decl /\ (At({"rec"})' <=> At({"rec"})) /\ (WellFormed(file)' <=> WellFormed(file))
    BY DEF Decl, At, WellFormed
  <2>4. TypeOK'
    BY <2>3 DEF IInv, TypeOK
  <2>5. NothingInvented'
    BY DEF IInv, NothingInvented, WriteClosed, CookieClosed, HasWrite, HasReadCookie
  <2>6. NothingMissed'
    BY <2>1, <2>2 DEF IInv, NothingMissed, Settled
  <2>7. RoundOK'
    BY <2>2, <2>3 DEF IInv, RoundOK
  <2>8. StampedBefore' /\ StampsTrue' /\ WarnedOK'
    BY <2>1 DEF IInv, StampedBefore, StampsTrue, WarnedOK, Linked
  <2> QED
    BY <2>4, <2>5, <2>6, <2>7, <2>8 DEF IInv
<1> QED
  BY <1>1, ValOK, MemberOK, EndRoundOK, ExportOK, OtherOK DEF Next

-----------------------------------------------------------------------------
(***************************************************************************)
(* The invariant of the analysis: what was found is in every closed set,   *)
(* what was passed or seen in a quiet round is settled, and stamps and     *)
(* reports are about functions already passed.                             *)
(***************************************************************************)
THEOREM Invariant == Spec => []IInv
<1>1. Init => IInv
  BY BeginOK, EffectsAssumption DEF Init
<1>2. IInv /\ [Next]_vars => IInv'
  BY EffectsStep
<1> QED
  BY <1>1, <1>2, PTL DEF Spec

(***************************************************************************)
(* Every variable keeps its type, for any functions, bodies and files; a   *)
(* member is never looked for outside its group (analyze_decl).            *)
(***************************************************************************)
THEOREM TypeCorrect == Spec => []TypeOK
<1>1. IInv => TypeOK
  BY DEF IInv
<1> QED
  BY <1>1, Invariant, PTL

(***************************************************************************)
(* No function is taken for a writer or a reader of cookies that is not    *)
(* one, whatever the references and the order of the declarations.         *)
(***************************************************************************)
THEOREM NoFalseAlarm == Spec => []NothingInvented
<1>1. IInv => NothingInvented
  BY DEF IInv
<1> QED
  BY <1>1, Invariant, PTL

(***************************************************************************)
(* At the end of a file in order the handlers reported as reachable by GET *)
(* are exactly the links that may write and are not listed as safe.        *)
(***************************************************************************)
THEOREM ReportsExact == Spec => []GetsReported
<1>1. IInv => GetsReported
  <2>1. SUFFICES ASSUME IInv, pos > Len(file), InOrder
                 PROVE  warned = {f \in writers \ Safe :
                           \E i \in DOMAIN file : file[i].kind = "link" /\ file[i].fns[1] = f}
    BY DEF GetsReported
  <2>2. pos - 1 = Len(file) /\ DOMAIN file = 1..Len(file)
    BY <2>1, PosTypes DEF IInv, TypeOK, WellFormed
  <2> QED
    BY <2>1, <2>2 DEF IInv, WarnedOK, Linked
<1> QED
  BY <1>1, Invariant, PTL
-----------------------------------------------------------------------------
(***************************************************************************)
(* Dead code elimination.  The worklist: what is marked lies in every      *)
(* closed set with the roots, and what a followed name brings is marked.   *)
(***************************************************************************)
Marked == used \cup todo
NothingExtra == \A M \in SUBSET S!Names : S!Seeds \subseteq M /\ S!Closed(M) => Marked \subseteq M
Followed ==
    /\ spc = "seed" => used = {}
    /\ spc # "seed" => S!Seeds \subseteq Marked
    /\ \A n \in used : S!Brings(n) \subseteq Marked
    /\ spc = "done" => todo = {}

ShakeInv == NothingExtra /\ Followed /\ S!WellFormed(program) /\ slice \in BOOLEAN

LEMMA FileFixed ==
    ASSUME UNCHANGED <<program, slice>>
    PROVE  /\ S!Seeds' = S!Seeds
           /\ \A n : S!Brings(n)' = S!Brings(n)
           /\ \A M : S!Closed(M)' <=> S!Closed(M)
           /\ S!WellFormed(program)' <=> S!WellFormed(program)
<1>1. S!Seeds' = S!Seeds
  BY DEF S!Seeds, S!IsRoot, S!Indices
<1>2. \A n : S!Brings(n)' = S!Brings(n)
  BY DEF S!Brings, S!Indices
<1> QED
  BY <1>1, <1>2 DEF S!Closed, S!WellFormed, S!WellDefined, S!Defined, S!Named

LEMMA MarkOK == ASSUME ShakeInv, S!Mark PROVE ShakeInv'
<1>1. PICK n \in todo : used' = used \cup {n} /\ todo' = S!Unmarked(n)
  BY DEF S!Mark
<1>2. Marked' = Marked \cup S!Brings(n)
  BY <1>1 DEF Marked, S!Unmarked
<1>3. UNCHANGED <<program, slice, spc>> /\ spc = "mark"
  BY DEF S!Mark
<1>4. NothingExtra'
  <2>1. ASSUME NEW M \in SUBSET S!Names, S!Seeds \subseteq M, S!Closed(M) PROVE Marked' \subseteq M
    <3>1. Marked \subseteq M /\ n \in M
      BY <2>1 DEF ShakeInv, NothingExtra, Marked
    <3> QED
      BY <1>2, <2>1, <3>1 DEF S!Closed
  <2> QED
    BY <1>3, <2>1, FileFixed DEF NothingExtra
<1>5. \A m \in used' : S!Brings(m) \subseteq Marked'
  BY <1>1, <1>2 DEF ShakeInv, Followed
<1> QED
  BY <1>2, <1>3, <1>4, <1>5, FileFixed DEF ShakeInv, Followed

LEMMA SeedOK == ASSUME ShakeInv, S!Seed PROVE ShakeInv'
<1>1. used' = {} /\ todo' = S!Seeds /\ spc' = "mark" /\ UNCHANGED <<program, slice>>
  BY DEF S!Seed, ShakeInv, Followed
<1>2. Marked' = S!Seeds
  BY <1>1 DEF Marked
<1> QED
  BY <1>1, <1>2, FileFixed DEF ShakeInv, NothingExtra, Followed

LEMMA FilterOK == ASSUME ShakeInv, S!Filter PROVE ShakeInv'
<1>1. UNCHANGED <<program, slice, used, todo>> /\ spc' = "done" /\ spc = "mark" /\ todo = {}
  BY DEF S!Filter
<1>2. Marked' = Marked
  BY <1>1 DEF Marked
<1> QED
  BY <1>1, <1>2, FileFixed DEF ShakeInv, NothingExtra, Followed

LEMMA ShakeStep == ASSUME ShakeInv, S!Next \/ UNCHANGED shaking PROVE ShakeInv'
<1>1. CASE UNCHANGED shaking
  <2>1. UNCHANGED <<program, slice, spc, used, todo>> /\ Marked' = Marked
    BY <1>1 DEF shaking, Marked
  <2> QED
    BY <2>1, FileFixed DEF ShakeInv, NothingExtra, Followed
<1> QED
  BY <1>1, MarkOK, SeedOK, FilterOK DEF S!Next

LEMMA ShakeInit ==
    ASSUME S!Begin, S!WellFormed(program), slice \in BOOLEAN PROVE ShakeInv
BY DEF S!Begin, ShakeInv, NothingExtra, Followed, Marked

LEMMA ShakeExact == ASSUME ShakeInv PROVE S!UsedExact
BY DEF ShakeInv, NothingExtra, Followed, S!UsedExact, Marked, S!Closed

(***************************************************************************)
(* Everything a kept declaration refers to has been marked, but for what   *)
(* was not followed: its own term as a root, its definitions because they, *)
(* or one of their group, are marked.                                      *)
(***************************************************************************)
LEMMA TermMarked ==
    ASSUME ShakeInv, spc = "done", NEW i \in S!Indices, S!Kept(program[i])
    PROVE  S!Named(program[i].term) \subseteq used
<1> DEFINE d == program[i]
<1>1. S!WellDefined(d)
  BY DEF ShakeInv, S!WellFormed, S!Indices
<1>2. CASE S!IsRoot(d)
  <2>1. S!Named(d.term) \subseteq S!Seeds
    BY <1>2 DEF S!Seeds
  <2> QED
    BY <2>1 DEF ShakeInv, Followed, Marked
<1>3. CASE ~S!IsRoot(d)
  <2>1. d.kind \in (S!Defining \ S!FromDatabase) \cup {"database"}
    BY <1>1, <1>3 DEF S!WellDefined, S!IsRoot, S!Kept, S!DbRoots, S!AppRoots, S!Defining,
                      S!FromDatabase, S!ByName, S!Always
  <2> QED
    BY <1>1, <2>1 DEF S!WellDefined
<1> QED
  BY <1>2, <1>3

LEMMA DefinitionMarked ==
    ASSUME ShakeInv, spc = "done", NEW i \in S!Indices, S!Kept(program[i]),
           NEW n \in S!Defined(program[i])
    PROVE  \/ S!Named(program[i].def[n]) \subseteq used
           \/ program[i].kind \in {"cookie", "datatype"} /\ n \notin used
<1> DEFINE d == program[i]
<1>1. S!WellDefined(d)
  BY DEF ShakeInv, S!WellFormed, S!Indices
<1>2. \A m \in used : S!Brings(m) \subseteq used
  BY DEF ShakeInv, Followed, Marked
<1>3. CASE n \in used
  BY <1>2, <1>3 DEF S!Brings
<1>4. CASE n \notin used /\ d.kind \in S!FromDatabase
  BY <1>1, <1>4, TermMarked DEF S!WellDefined
<1>5. CASE n \notin used /\ d.kind \in S!Plain
  BY <1>1, <1>5 DEF S!WellDefined
<1>6. CASE n \notin used /\ d.kind = "rec"
  <2>1. PICK m \in S!Defined(d) : m \in used
    BY <1>6 DEF S!Kept, S!ByName
  <2>2. n \in S!Brings(m)
    BY <1>6, <2>1 DEF S!Brings
  <2> QED
    BY <1>2, <1>6, <2>1, <2>2
<1>7. CASE n \notin used /\ d.kind \in {"constructor", "val"}
  <2>1. PICK m : S!Defined(d) = {m}
    BY <1>1, <1>7 DEF S!WellDefined, S!Defining
  <2>2. S!Defined(d) \cap used # {}
    BY <1>7 DEF S!Kept, S!ByName
  <2> QED
    BY <1>7, <2>1, <2>2
<1>8. d.kind \in S!Defining
  BY <1>1 DEF S!WellDefined
<1> QED
  BY <1>3, <1>4, <1>5, <1>6, <1>7, <1>8 DEF S!Defining, S!FromDatabase, S!Plain

LEMMA ShakeDangles == ASSUME ShakeInv PROVE S!NothingDangles
<1>1. SUFFICES ASSUME spc = "done", NEW i \in S!Indices, NEW j \in S!Indices,
                      S!Kept(program[i]), ~S!Kept(program[j]),
                      NEW n \in S!RefersTo(program[i]) \cap S!Defined(program[j])
               PROVE  n \in S!Unfollowed(program[i]) \/ S!Sliced(program[j])
  BY DEF S!NothingDangles
<1>2. n \in used \/ n \in S!Unfollowed(program[i])
  <2>1. CASE n \in S!Named(program[i].term)
    BY <1>1, <2>1, TermMarked
  <2>2. CASE \E m \in S!Defined(program[i]) : n \in S!Named(program[i].def[m])
    BY <1>1, <2>2, DefinitionMarked DEF S!Unfollowed
  <2> QED
    BY <2>1, <2>2 DEF S!RefersTo
<1>3. program[j].kind \in S!Defining
  BY <1>1 DEF ShakeInv, S!WellFormed, S!WellDefined, S!Indices
<1>4. CASE n \in used
  BY <1>1, <1>3, <1>4 DEF ShakeInv, S!Kept, S!ByName, S!Always, S!Defining, S!Sliced
<1> QED
  BY <1>2, <1>4

(***************************************************************************)
(* Dead code elimination on its own marks exactly what the roots need, in  *)
(* whatever order the names are followed (shake_with_options).  What it    *)
(* keeps refers to nothing that was dropped (should_keep_declaration), but *)
(* for the types of cookies and of unmarked members of a datatype group,   *)
(* and, slicing for the database, for cookies and styles.                  *)
(***************************************************************************)
THEOREM MarksExact == S!Spec => [](S!UsedExact /\ S!NothingDangles)
<1>1. S!Init => ShakeInv
  BY ShakeInit, PassesAssumption DEF S!Init
<1>2. ShakeInv /\ [S!Next]_S!vars => ShakeInv'
  BY ShakeStep DEF S!vars, shaking
<1>3. ShakeInv => S!UsedExact /\ S!NothingDangles
  BY ShakeExact, ShakeDangles
<1> QED
  BY <1>1, <1>2, <1>3, PTL DEF S!Spec

-----------------------------------------------------------------------------
(***************************************************************************)
(* Untangling as its own theorems see it.                                  *)
(***************************************************************************)
T == INSTANCE UntangleProofs WITH pc <- upc

LEMMA SameSteps == U!Next <=> T!Next
<1>1. U!KeepGroup <=> T!KeepGroup
  BY DEF U!KeepGroup, U!Declared, U!NonRecursiveSingleton, U!Nodes,
         T!KeepGroup, T!Declared, T!NonRecursiveSingleton, T!Nodes
<1>2. U!BeginSearch <=> T!BeginSearch
  BY DEF U!BeginSearch,
         T!BeginSearch
<1>a. U!Discovered = T!Discovered /\ U!Nodes = T!Nodes /\ U!Top = T!Top
  BY DEF U!Discovered, U!Nodes, U!Top, T!Discovered, T!Nodes, T!Top
<1>b. U!Cardinality(U!Discovered) = T!Cardinality(T!Discovered)
  BY <1>a DEF U!Cardinality, T!Cardinality
<1>c. \A n : U!Discover(n) <=> T!Discover(n)
  BY <1>b DEF U!Discover, T!Discover
<1>3. U!StartNode <=> T!StartNode
  <2>1. \A A : U!Least(A) = T!Least(A)
    BY DEF U!Least, T!Least
  <2> QED
    BY <1>a, <1>c, <2>1 DEF U!StartNode, T!StartNode
<1>4. U!TreeEdge <=> T!TreeEdge
  <2>1. U!Looking = T!Looking
    BY <1>a DEF U!Looking, T!Looking
  <2>2. U!NextSuccessor = T!NextSuccessor
    BY <1>a DEF U!NextSuccessor, U!Greatest, T!NextSuccessor, T!Greatest
  <2>3. U!Popped = T!Popped
    BY <2>2 DEF U!Popped, T!Popped
  <2> QED
    BY <1>c, <2>1, <2>2, <2>3 DEF U!TreeEdge, T!TreeEdge
<1>5. U!BackEdge <=> T!BackEdge
  BY DEF U!BackEdge, U!Looking, U!Top, U!NextSuccessor, U!Greatest, U!Popped, U!Lower,
         T!BackEdge, T!Looking, T!Top, T!NextSuccessor, T!Greatest, T!Popped, T!Lower
<1>6. U!CrossEdge <=> T!CrossEdge
  BY DEF U!CrossEdge, U!Looking, U!Top, U!NextSuccessor, U!Greatest, U!Popped,
         T!CrossEdge, T!Looking, T!Top, T!NextSuccessor, T!Greatest, T!Popped
<1>7. U!Finish <=> T!Finish
  <2>1. /\ U!Top = T!Top
        /\ \A n : U!Component(n) = T!Component(n) /\ U!Depth(n) = T!Depth(n)
        /\ \A c : U!OffStack(c) = T!OffStack(c)
    BY DEF U!Top, U!Component, U!Depth, U!OffStack, T!Top, T!Component, T!Depth, T!OffStack
  <2>2. U!Front(frames) = T!Front(frames)
    BY DEF U!Front, T!Front
  <2>3. \A fs : U!LowlinksPassed(fs) = T!LowlinksPassed(fs)
    BY DEF U!LowlinksPassed, U!Lower, U!Last, U!Top, T!LowlinksPassed, T!Lower, T!Last, T!Top
  <2> QED
    BY <2>1, <2>2, <2>3 DEF U!Finish, T!Finish
<1>8. U!EndSearch <=> T!EndSearch
  <2>1. U!Discovered = T!Discovered /\ U!Nodes = T!Nodes
    BY DEF U!Discovered, U!Nodes, T!Discovered, T!Nodes
  <2>2. \A c : U!Declared(c) = T!Declared(c)
    BY DEF U!Declared, U!NonRecursiveSingleton, T!Declared, T!NonRecursiveSingleton
  <2>3. U!Emitted = T!Emitted
    BY DEF U!Emitted, U!Reverse, T!Emitted, T!Reverse
  <2> QED
    BY <2>1, <2>2, <2>3 DEF U!EndSearch, T!EndSearch
<1> QED
  BY <1>1, <1>2, <1>3, <1>4, <1>5, <1>6, <1>7, <1>8 DEF U!Next, T!Next

LEMMA SameClaims ==
    /\ U!TypeOK <=> T!TypeOK
    /\ U!ComponentsExact <=> T!ComponentsExact
    /\ U!DeclaredOnce <=> T!DeclaredOnce
    /\ U!DependentsFirst <=> T!DependentsFirst
<1>1. U!TypeOK <=> T!TypeOK
  BY DEF U!TypeOK, U!Nodes, T!TypeOK, T!Nodes
<1>2. U!ComponentsExact <=> T!ComponentsExact
  BY DEF U!ComponentsExact, U!Nodes, U!Connected, U!Reach, U!Closed,
         T!ComponentsExact, T!Nodes, T!Connected, T!Reach, T!Closed
<1>3. U!DeclaredOnce <=> T!DeclaredOnce
  BY DEF U!DeclaredOnce, U!Nodes, U!Reach, U!Closed, T!DeclaredOnce, T!Nodes, T!Reach, T!Closed
<1>4. U!DependentsFirst <=> T!DependentsFirst
  BY DEF U!DependentsFirst, U!Needs, T!DependentsFirst, T!Needs
<1> QED
  BY <1>1, <1>2, <1>3, <1>4

LEMMA UntangleStep ==
    ASSUME T!IInv, U!Next \/ UNCHANGED untangling PROVE T!IInv'
<1>1. [T!Next]_T!vars
  BY SameSteps DEF T!vars, untangling
<1> QED
  BY <1>1, T!StepOK

-----------------------------------------------------------------------------
(***************************************************************************)
(* The passes composed: each enters its phase in a state its own invariant *)
(* allows, whether a program starts there or comes from the pass before.   *)
(***************************************************************************)
Singles == \A i \in DOMAIN decls : ~decls[i].rec => \E n \in Fns : decls[i].members = {n}

PassesInv ==
    /\ phase \in {"untangle", "shake", "effects"}
    /\ phase = "untangle" => T!IInv /\ Singles /\ S!Begin /\ slice = FALSE
    /\ phase = "shake" => ShakeInv /\ OfFunctions(program)
    /\ phase # "effects" => Begin /\ file = <<>> /\ body \in [Fns -> BodyType]
    /\ phase = "effects" => IInv

(***************************************************************************)
(* Of a declaration that is not recursive the untangling makes one of a    *)
(* single function.                                                        *)
(***************************************************************************)
LEMMA SinglesKept == ASSUME T!IInv, Singles, U!Next PROVE Singles'
<1> DEFINE Alone(ds) == \A i \in DOMAIN ds : ~ds[i].rec => \E n \in Fns : ds[i].members = {n}
<1>1. ASSUME NEW c \in Seq(SUBSET Fns) PROVE Alone(U!Declared(c))
  <2>1. SUFFICES ASSUME NEW i \in DOMAIN c, ~U!Declared(c)[i].rec
                 PROVE  \E n \in Fns : U!Declared(c)[i].members = {n}
    BY DEF U!Declared
  <2>2. U!Declared(c)[i].members = c[i] /\ U!NonRecursiveSingleton(c[i])
    BY <2>1 DEF U!Declared
  <2>3. c[i] \in SUBSET Fns
    BY <1>1, <2>1
  <2> QED
    BY <2>2, <2>3 DEF U!NonRecursiveSingleton
<1>2. Fns = U!Nodes /\ U!Nodes = T!Nodes
  BY PassesAssumption DEF U!Nodes, T!Nodes
<1>3. CASE U!KeepGroup
  <2>1. <<U!Nodes>> \in Seq(SUBSET Fns)
    BY <1>2
  <2> QED
    BY <1>1, <1>3, <2>1 DEF U!KeepGroup, Singles
<1>4. CASE U!EndSearch
  <2>1. sccs \in Seq(SUBSET Fns)
    BY <1>2 DEF T!IInv, T!Types, T!TypeOK
  <2>2. U!Emitted \in Seq(SUBSET Fns)
    BY <2>1 DEF U!Emitted, U!Reverse
  <2> QED
    BY <1>1, <1>4, <2>2 DEF U!EndSearch, Singles
<1>5. CASE decls' = decls
  BY <1>5 DEF Singles
<1> QED
  BY <1>3, <1>4, <1>5 DEF U!Next, U!BeginSearch, U!StartNode, U!TreeEdge, U!BackEdge, U!CrossEdge, U!Finish

LEMMA GroupBegins ==
    ASSUME PassesInit, phase = "untangle"
    PROVE  T!IInv /\ S!Begin /\ slice = FALSE /\ body \in [Fns -> BodyType]
<1>1. N \in Nat \ {0} /\ Fns = 1..N /\ T!Nodes = 1..N
  BY PassesAssumption DEF T!Nodes
<1>2. body \in [Fns -> BodyType]
  BY PassesAssumption DEF PassesInit
<1>3. \A f \in Fns : AllRefs(f) \subseteq Fns
  BY <1>2 DEF AllRefs, BodyType, Refs
<1>4. deps \in [T!Nodes -> SUBSET T!Nodes]
  BY <1>1, <1>3 DEF PassesInit
<1>5. outside \in SUBSET T!Nodes
  BY <1>1 DEF PassesInit
<1>6. T!Begin
  BY DEF PassesInit, U!Begin, U!Nodes, T!Begin, T!Nodes
<1>7. T!IInv
  BY <1>1, <1>4, <1>5, <1>6, T!InitOK
<1> QED
  BY <1>2, <1>7 DEF PassesInit

LEMMA PassesBegin == PassesInit => PassesInv
<1> SUFFICES ASSUME PassesInit PROVE PassesInv
  OBVIOUS
<1>1. Begin /\ S!Begin /\ phase \in {"untangle", "shake", "effects"}
  BY DEF PassesInit
<1>2. CASE phase = "untangle"
  <2>1. file = <<>> /\ decls = <<>>
    BY <1>2 DEF PassesInit, U!Begin
  <2>2. Singles
    BY <2>1 DEF Singles
  <2> QED
    BY <1>1, <1>2, <2>1, <2>2, GroupBegins DEF PassesInv
<1>3. CASE phase = "shake"
  <2>1. program \in Programs /\ slice \in BOOLEAN /\ file = <<>> /\ body = BodiesOf(program)
    BY <1>3 DEF PassesInit
  <2>2. ShakeInv /\ OfFunctions(program)
    BY <1>1, <2>1, ShakeInit, PassesAssumption
  <2>3. body \in [Fns -> BodyType]
    BY <2>1 DEF BodiesOf, BodyIn, BodyType, Refs
  <2> QED
    BY <1>1, <1>3, <2>1, <2>2, <2>3 DEF PassesInv
<1>4. CASE phase = "effects"
  <2>1. WellFormed(file) /\ body \in [Fns -> BodyType]
    BY <1>4, EffectsAssumption DEF PassesInit
  <2> QED
    BY <1>1, <1>4, <2>1, BeginOK DEF PassesInv
<1> QED
  BY <1>1, <1>2, <1>3, <1>4

(***************************************************************************)
(* What the untangling hands over is a program: the declarations of the    *)
(* group, which define functions, and the exports, which define nothing.   *)
(***************************************************************************)
LEMMA HandedOver ==
    ASSUME decls \in Seq([rec : BOOLEAN, members : SUBSET Fns]), Singles
    PROVE  LET p == [i \in DOMAIN decls |-> Function(decls[i])] \o <<Export(1), Export(N)>>
           IN S!WellFormed(p) /\ OfFunctions(p)
<1> DEFINE fs == [i \in DOMAIN decls |-> Function(decls[i])]
           es == <<Export(1), Export(N)>>
           p == fs \o es
<1>1. /\ Len(decls) \in Nat /\ DOMAIN fs = 1..Len(decls) /\ Len(fs) = Len(decls)
      /\ Len(es) = 2 /\ DOMAIN es = 1..2
  BY DEF fs, es
<1>2. Len(p) = Len(decls) + 2 /\ DOMAIN p = 1..Len(p)
  BY <1>1
<1>3. 1 \in Fns /\ N \in Fns
  BY PassesAssumption
<1> DEFINE Good(d) == /\ d.kind \in {"val", "rec", "export"}
                      /\ d.kind = "rec" => DOMAIN d.def \subseteq Fns
                      /\ d.kind = "val" => \E f \in Fns : DOMAIN d.def = {f}
                      /\ d.kind = "export" => DOMAIN d.def = {} /\ \E f \in Fns : d.term.exp = {f}
                      /\ d.kind # "export" => S!Named(d.term) \subseteq {}
<1>4. ASSUME NEW i \in DOMAIN decls PROVE Good(Function(decls[i]))
  <2>1. decls[i].rec \in BOOLEAN /\ decls[i].members \subseteq Fns
    <3> DEFINE D == [rec : BOOLEAN, members : SUBSET Fns]
    <3>1. decls[i] \in D
      <4>1. decls \in Seq(D)
        OBVIOUS
      <4> HIDE DEF D
      <4> QED
        BY <4>1
    <3> QED
      BY <3>1
  <2>2. ~decls[i].rec => \E n \in Fns : decls[i].members = {n}
    BY DEF Singles
  <2>3. /\ DOMAIN Function(decls[i]).def = decls[i].members
        /\ Function(decls[i]).kind = IF decls[i].rec THEN "rec" ELSE "val"
        /\ S!Named(Function(decls[i]).term) \subseteq {}
    BY DEF Function, NoTerm, S!Named
  <2> QED
    BY <2>1, <2>2, <2>3
<1>5. ASSUME NEW f \in Fns PROVE Good(Export(f))
  BY DEF Export, NoDef
<1>6. ASSUME NEW i \in DOMAIN p PROVE Good(p[i])
  <2>1. CASE i \in 1..Len(decls)
    <3>1. p[i] = Function(decls[i]) /\ i \in DOMAIN decls
      BY <1>1, <2>1
    <3> HIDE DEF p, Good
    <3> QED
      BY <1>4, <3>1
  <2>2. CASE i \in (Len(decls) + 1)..(Len(decls) + 2)
    <3>1. p[i] = es[i - Len(decls)] /\ i - Len(decls) \in {1, 2}
      BY <1>1, <2>2
    <3>2. \E f \in Fns : p[i] = Export(f)
      BY <1>3, <3>1
    <3> HIDE DEF p, Good
    <3> QED
      BY <1>5, <3>2
  <2>3. i \in 1..Len(decls) \/ i \in (Len(decls) + 1)..(Len(decls) + 2)
    <3>1. i \in 1..(Len(decls) + 2)
      BY <1>2
    <3> HIDE DEF p
    <3> QED
      BY <3>1, <1>1
  <2> HIDE DEF p, Good
  <2> QED
    BY <2>1, <2>2, <2>3
<1>7. Len(p) \in Nat
  BY <1>1, <1>2
<1> HIDE DEF p
<1>8. ASSUME NEW i \in DOMAIN p PROVE S!WellDefined(p[i])
  <2>1. Fns \subseteq S!Names
    BY DEF S!Names
  <2>2. Good(p[i])
    BY <1>6, <1>8
  <2> QED
    BY <2>1, <2>2 DEF S!WellDefined, S!Defining, S!Defined, S!FromDatabase, S!Plain
<1>9. S!WellFormed(p) /\ OfFunctions(p)
  BY <1>2, <1>6, <1>7, <1>8 DEF S!WellFormed, OfFunctions
<1> QED
  BY <1>9 DEF p

LEMMA ToShakeOK == ASSUME PassesInv, ToShake PROVE PassesInv'
<1>1. T!TypeOK /\ Singles /\ S!Begin /\ slice = FALSE
  BY DEF PassesInv, ToShake, T!IInv, T!Types
<1>2. decls \in Seq([rec : BOOLEAN, members : SUBSET Fns])
  <2>1. T!Nodes = Fns
    BY PassesAssumption DEF T!Nodes
  <2> QED
    BY <1>1, <2>1 DEF T!TypeOK, T!Types
<1>3. S!WellFormed(program') /\ OfFunctions(program')
  BY <1>1, <1>2, HandedOver DEF ToShake
<1>4. S!Begin' /\ slice' \in BOOLEAN
  BY <1>1 DEF ToShake, S!Begin
<1>5. ShakeInv'
  <2>1. used' = {} /\ todo' = {} /\ spc' = "seed"
    BY <1>4 DEF S!Begin
  <2>2. NothingExtra' /\ Followed'
    BY <2>1 DEF NothingExtra, Followed, Marked
  <2> QED
    BY <1>3, <1>4, <2>2 DEF ShakeInv
<1>6. Begin' /\ file' = <<>> /\ body' \in [Fns -> BodyType]
  BY DEF PassesInv, ToShake, vars, Begin
<1> QED
  BY <1>3, <1>5, <1>6 DEF PassesInv, ToShake

(***************************************************************************)
(* What is analysed of a declaration has the shape the analysis expects.   *)
(***************************************************************************)
LEMMA SeqOfSet ==
    ASSUME NEW A, IsFiniteSet(A)
    PROVE  SetToSeq(A) \in [1..Cardinality(A) -> A] /\ Cardinality(A) \in Nat
<1>1. Cardinality(A) \in Nat /\ ExistsBijection(1..Cardinality(A), A)
  BY FS_CardinalityType
<1>2. \E g \in [1..Cardinality(A) -> A] : IsInjective(g)
  BY <1>1 DEF ExistsBijection, Bijection, Injection
<1> QED
  BY <1>1, <1>2 DEF SetToSeq

LEMMA AnalysedTypes ==
    ASSUME OfFunctions(program), NEW i \in DOMAIN program
    PROVE  /\ Analysed(program[i]) \in DeclType
           /\ Analysed(program[i]).kind \notin {"rec", "other"} => Len(Analysed(program[i]).fns) = 1
<1> DEFINE d == program[i]
<1>1. CASE d.kind = "export"
  <2>1. PICK f \in Fns : d.term.exp = {f}
    BY <1>1 DEF OfFunctions
  <2>2. Analysed(d) = [kind |-> IF f = 1 THEN "link" ELSE "action", fns |-> <<f>>]
    BY <1>1, <2>1 DEF Analysed
  <2> HIDE DEF d
  <2> QED
    BY <2>2 DEF DeclType, d
<1>2. CASE d.kind \in {"val", "rec"}
  <2> DEFINE A == DOMAIN d.def
  <2>1. A \subseteq Fns /\ (d.kind = "val" => \E f \in Fns : A = {f})
    BY <1>2 DEF OfFunctions
  <2>2. IsFiniteSet(A)
    BY <2>1, FS_Interval, FS_Subset, PassesAssumption
  <2>3. d.kind = "val" => Cardinality(A) = 1
    BY <2>1, FS_Singleton
  <2>4. Analysed(d) = [kind |-> d.kind, fns |-> SetToSeq(A)]
    BY <1>2 DEF Analysed
  <2> HIDE DEF A, d
  <2>5. SetToSeq(A) \in Seq(Fns) /\ Len(SetToSeq(A)) = Cardinality(A)
    BY <2>1, <2>2, SeqOfSet
  <2> QED
    BY <1>2, <2>3, <2>4, <2>5 DEF DeclType, d
<1>3. CASE d.kind \notin {"val", "rec", "export"}
  BY <1>3 DEF Analysed, DeclType
<1> QED
  BY <1>1, <1>2, <1>3

LEMMA ToEffectsOK == ASSUME PassesInv, ToEffects PROVE PassesInv'
<1>1. OfFunctions(program) /\ Begin /\ body \in [Fns -> BodyType]
  BY DEF PassesInv, ToEffects
<1>2. WellFormed(file')
  <2>1. \A i \in DOMAIN program :
            /\ file'[i] \in DeclType
            /\ file'[i].kind \notin {"rec", "other"} => Len(file'[i].fns) = 1
    BY <1>1, AnalysedTypes DEF ToEffects, S!Indices, Dropped, DeclType
  <2>2. DOMAIN file' = 1..Len(program) /\ Len(program) \in Nat /\ DOMAIN file' = DOMAIN program
    BY <1>1 DEF ToEffects, S!Indices, OfFunctions
  <2>3. file' = [i \in 1..Len(program) |-> file'[i]]
    BY <2>2 DEF ToEffects, S!Indices
  <2>4. file' \in Seq(DeclType)
    BY <2>1, <2>2, <2>3
  <2> QED
    BY <2>1, <2>2, <2>4 DEF WellFormed
<1>3. Begin' /\ WellFormed(file)' /\ body' \in [Fns -> BodyType]
  BY <1>1, <1>2 DEF ToEffects, Begin, WellFormed
<1>4. (Begin /\ WellFormed(file) /\ body \in [Fns -> BodyType])' => IInv'
  BY BeginOK, PTL
<1> QED
  BY <1>3, <1>4 DEF PassesInv, ToEffects

LEMMA PassesStep == ASSUME PassesInv, [PassesNext]_passes PROVE PassesInv'
<1>1. CASE Untangling
  <2>1. T!IInv' /\ Singles'
    BY <1>1, UntangleStep, SinglesKept DEF Untangling, PassesInv
  <2> QED
    BY <1>1, <2>1 DEF Untangling, PassesInv, S!Begin, shaking, vars, Begin
<1>2. CASE Shaking
  <2>1. ShakeInv'
    BY <1>2, ShakeStep DEF Shaking, PassesInv
  <2>2. OfFunctions(program)'
    BY <1>2 DEF Shaking, PassesInv, OfFunctions, S!Next, S!Seed, S!Mark, S!Filter
  <2> QED
    BY <1>2, <2>1, <2>2 DEF Shaking, PassesInv, vars, Begin
<1>3. CASE Analysing
  BY <1>3, EffectsStep DEF Analysing, PassesInv
<1>4. CASE UNCHANGED passes
  <2>1. UNCHANGED <<phase, untangling, shaking, vars>>
    BY <1>4 DEF passes
  <2>2. (T!IInv => T!IInv') /\ (Singles => Singles')
    BY <2>1, UntangleStep DEF untangling, Singles
  <2>3. (ShakeInv => ShakeInv') /\ (OfFunctions(program) => OfFunctions(program)')
    BY <2>1, ShakeStep DEF shaking, OfFunctions
  <2>4. IInv => IInv'
    BY <2>1, EffectsStep
  <2> QED
    BY <2>1, <2>2, <2>3, <2>4 DEF PassesInv, S!Begin, shaking, vars, Begin
<1> QED
  BY <1>1, <1>2, <1>3, <1>4, ToShakeOK, ToEffectsOK DEF PassesNext

LEMMA BeforeAnalysis == ASSUME PassesInv, phase # "effects" PROVE IInv
<1>1. WellFormed(<<>>)
  BY DEF WellFormed
<1> QED
  BY <1>1, BeginOK DEF PassesInv

(***************************************************************************)
(* The invariant of the passes in their order (run_compile).               *)
(***************************************************************************)
THEOREM PassesInvariant == PassesSpec => []PassesInv
<1>1. PassesInv /\ [PassesNext]_passes => PassesInv'
  BY PassesStep
<1> QED
  BY <1>1, PassesBegin, PTL DEF PassesSpec

(***************************************************************************)
(* Whatever the group and however many its members, Tarjan's search finds  *)
(* its strongly connected components, and they are declared once each,     *)
(* with rec only where needed, dependents first (split_val_rec_into_sccs). *)
(***************************************************************************)
THEOREM GroupsSplitRight == PassesSpec => []GroupsSplit
<1>1. PassesInv => GroupsSplit
  BY SameClaims DEF PassesInv, GroupsSplit, T!IInv, T!Types
<1> QED
  BY <1>1, PassesInvariant, PTL

(***************************************************************************)
(* Of a program that starts there, and of one the untangling made, dead    *)
(* code elimination marks exactly what the roots need (shake_with_options).*)
(***************************************************************************)
THEOREM UsedExactly == PassesSpec => []UsedExact
<1>1. PassesInv => UsedExact
  BY ShakeExact DEF PassesInv, UsedExact
<1> QED
  BY <1>1, PassesInvariant, PTL

(***************************************************************************)
(* Of the same programs what it keeps refers to nothing that it drops, but *)
(* for the types of cookies and of unmarked members of a datatype group,   *)
(* and for cookies and styles in a slice for the database                  *)
(* (should_keep_declaration).                                              *)
(***************************************************************************)
THEOREM NothingLeftDangling == PassesSpec => []NothingDangles
<1>1. PassesInv => NothingDangles
  BY ShakeDangles DEF PassesInv, NothingDangles
<1> QED
  BY <1>1, PassesInvariant, PTL

(***************************************************************************)
(* In every file, one it starts from or one that dead code elimination     *)
(* left, the analysis misses nothing (analyze_decl).                       *)
(***************************************************************************)
THEOREM NoEffectMissed == PassesSpec => []NothingMissed
<1>1. PassesInv => NothingMissed
  BY BeforeAnalysis DEF PassesInv, IInv
<1> QED
  BY <1>1, PassesInvariant, PTL

(***************************************************************************)
(* Nor is an export stamped there with less or more than the analysis      *)
(* knows at its end (compute_effect).                                      *)
(***************************************************************************)
THEOREM StampsStayTrue == PassesSpec => []StampsTrue
<1>1. PassesInv => StampsTrue
  BY BeforeAnalysis DEF PassesInv, IInv
<1> QED
  BY <1>1, PassesInvariant, PTL
=============================================================================
