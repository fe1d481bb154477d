-------------------------- MODULE SqlCacheProofs --------------------------
(***************************************************************************)
(* Theorems about the cache of query results, for any number of threads,   *)
(* caches, parameters, keys, pages and transactions.                       *)
(*                                                                         *)
(* That a hit is current rests on the locks that pages hold to their end:  *)
(* who changes what a query finds is alone with its cache. What its flush  *)
(* covers is not found again before it commits, since values get into the  *)
(* cache at a commit only.                                                 *)
(***************************************************************************)
EXTENDS SqlCache, TLAPS, WellFoundedInduction

-----------------------------------------------------------------------------
(***************************************************************************)
(* The inductive invariant.                                                *)
(***************************************************************************)
\* A thread holds the locks of cacheUnlock, for writing where its page flushes.
Running == {"body", "hit", "miss", "flush", "commit"}
Unused(w) == ctx[w].cacheUpdate = <<>> /\ ctx[w].written = [q \in Queries |-> 0]
LockFit(w) ==
  /\ \A c \in Caches :
       lockOut[c][w] = IF c \notin ctx[w].cacheUnlock THEN "none"
                       ELSE IF c \in Flushed(ctx[w].page) THEN "w" ELSE "r"
  /\ pc[w] = "idle" => ctx[w].cacheUnlock = {}
  /\ pc[w] \in {"idle", "lock"} => Unused(w)
  /\ pc[w] = "lock" => ctx[w].locks \cup ctx[w].cacheUnlock = Locks(ctx[w].page)
  /\ pc[w] \in Running => ctx[w].cacheUnlock = Locks(ctx[w].page)

WritersAlone ==
  \A c \in Caches : \A v, w \in Workers :
    lockOut[c][v] = "w" /\ v # w => lockOut[c][w] = "none"

\* What a page has in hand is of its own queries and updates.
OwnPage(w) ==
  /\ pc[w] \in {"hit", "miss"} => ctx[w].query \in ctx[w].page.reads
  /\ \A n \in 1 .. Len(ctx[w].cacheUpdate) : ctx[w].cacheUpdate[n].query \in ctx[w].page.reads
  /\ ctx[w].handled <= Len(ctx[w].cacheUpdate)
  /\ pc[w] \notin {"commit", "free"} => ctx[w].handled = 0
  /\ pc[w] = "flush" => ctx[w].dml \in ctx[w].page.dmls /\ ctx[w].flushes \subseteq ctx[w].dml
  /\ \A q \in Queries : ctx[w].written[q] # 0 => q[1] \in Flushed(ctx[w].page)

\* The entry of a query has those of all beginnings of its keys before it.
WholePaths == \A q \in Queries : q \in DOMAIN table => Path(q) \subseteq DOMAIN table

\* No stored value is younger than the clock.
ClockAhead == \A s \in Filled : memory[table[s].value].timeValid <= timeNow[s[1]]

\* While it is in memory, the value of a hit is where it was found.
HitInPlace ==
  \A w \in Workers : pc[w] = "hit" /\ ctx[w].hit \in DOMAIN memory =>
    ctx[w].query \in Filled /\ table[ctx[w].query].value = ctx[w].hit

\* What is found in the cache is what the database holds.
Coherent ==
  \A q \in Queries : Valid(q) => memory[table[q].value].result = data[q]

\* What a page has changed is not found until it commits.
WrittenNotFound ==
  \A w \in Workers : \A q \in Queries : ctx[w].written[q] # 0 =>
    /\ pc[w] \in {"body", "hit", "miss", "flush"} => ~Valid(q)
    /\ pc[w] = "commit" => data[q] = ctx[w].written[q]

FlushedNotFound ==
  \A w \in Workers : pc[w] = "flush" =>
    \A f \in ctx[w].dml \ ctx[w].flushes : \A q \in Queries : Matches(q, f) => ~Valid(q)

\* Queued results are current, and the update in progress leaves them alone.
QueuedCurrent ==
  \A w \in Workers : \A n \in Waiting(w) :
    /\ pc[w] \in Running => memory[Queued(w, n)].result = Finds(w, ctx[w].cacheUpdate[n].query)
    /\ pc[w] = "flush" => \A f \in ctx[w].dml : ~Matches(ctx[w].cacheUpdate[n].query, f)

Locking == WritersAlone /\ \A w \in Workers : LockFit(w) /\ OwnPage(w)
Keeping == WholePaths /\ ClockAhead /\ ValuesOwned /\ HitInPlace
Current == Coherent /\ WrittenNotFound /\ FlushedNotFound /\ QueuedCurrent /\ HitIsCurrent

-----------------------------------------------------------------------------
(***************************************************************************)
(* Queries, flushes and their entries.                                     *)
(***************************************************************************)
LEMMA QueryFacts ==
    ASSUME NEW q \in Queries
    PROVE  /\ q[1] \in Caches /\ NumKeys[q[1]] \in Nat
           /\ q[2] \in [1 .. NumKeys[q[1]] -> Keys]
           /\ q = <<q[1], q[2]>>
           /\ Beginning(q[2], NumKeys[q[1]]) = q[2]
           /\ First(q[1]) \in 0 .. NumKeys[q[1]]
<1>1. PICK c \in Caches : q \in {c} \X [1 .. NumKeys[c] -> Keys]
  BY DEF Queries
<1>2. q[1] = c /\ q[2] \in [1 .. NumKeys[c] -> Keys] /\ q = <<q[1], q[2]>>
  BY <1>1
<1>3. NumKeys[c] \in Nat
  BY CachesAssumption
<1> QED
  BY <1>2, <1>3 DEF Beginning, First

LEMMA FlushFacts ==
    ASSUME NEW f \in Flushes
    PROVE  /\ f[1] \in Caches /\ NumKeys[f[1]] \in Nat
           /\ f[2] \in [1 .. NumKeys[f[1]] -> Keys \cup {Null}]
<1>1. PICK c \in Caches : f \in {c} \X [1 .. NumKeys[c] -> Keys \cup {Null}]
  BY DEF Flushes
<1>2. f[1] = c /\ f[2] \in [1 .. NumKeys[c] -> Keys \cup {Null}]
  BY <1>1
<1> QED
  BY <1>2, CachesAssumption

LEMMA PathFacts ==
    ASSUME NEW q \in Queries
    PROVE  /\ q \in Path(q)
           /\ Path(q) \subseteq Slots
           /\ \A s \in Path(q) : s[1] = q[1]
<1>1. /\ q[1] \in Caches /\ NumKeys[q[1]] \in Nat
      /\ q[2] \in [1 .. NumKeys[q[1]] -> Keys]
      /\ q = <<q[1], q[2]>>
      /\ Beginning(q[2], NumKeys[q[1]]) = q[2]
      /\ First(q[1]) \in 0 .. NumKeys[q[1]]
  BY QueryFacts
<1>2. q \in Path(q)
  <2>1. NumKeys[q[1]] \in First(q[1]) .. NumKeys[q[1]]
    BY <1>1
  <2> QED
    BY <1>1, <2>1 DEF Path
<1>3. ASSUME NEW s \in Path(q) PROVE s \in Slots /\ s[1] = q[1]
  <2>1. PICK n \in First(q[1]) .. NumKeys[q[1]] : s = <<q[1], Beginning(q[2], n)>>
    BY <1>3 DEF Path
  <2>2. Beginning(q[2], n) \in [1 .. n -> Keys]
    BY <1>1, <2>1 DEF Beginning
  <2>3. s \in {q[1]} \X [1 .. n -> Keys]
    BY <2>1, <2>2
  <2> QED
    BY <1>1, <2>1, <2>3 DEF Slots
<1> QED
  BY <1>2, <1>3

\* The locks of a page are numbers of caches.
LEMMA PageFacts ==
    ASSUME NEW page \in Pages \cup {NoPage}
    PROVE  /\ page.reads \subseteq Queries /\ page.dmls \subseteq SUBSET Flushes
           /\ Flushed(page) \subseteq Caches /\ Stored(page) \subseteq Caches
           /\ Locks(page) \subseteq Caches
           /\ \A q \in page.reads : q[1] \in Locks(page)
           /\ \A dml \in page.dmls : \A f \in dml : f[1] \in Flushed(page)
<1>1. page.reads \subseteq Queries /\ page.dmls \subseteq SUBSET Flushes
  BY CachesAssumption DEF NoPage
<1>2. \A q \in page.reads : q[1] \in Caches
  BY <1>1, QueryFacts
<1>3. \A f \in UNION page.dmls : f[1] \in Caches
  BY <1>1, FlushFacts
<1> QED
  BY <1>1, <1>2, <1>3 DEF Flushed, Stored, Locks

-----------------------------------------------------------------------------
(***************************************************************************)
(* Types. A flush and a store change the tables, all else a thread's own.  *)
(***************************************************************************)
LEMMA FlushTypes ==
    ASSUME TablesOK, NEW f \in Flushes, FlushOne(f)
    PROVE  TablesOK'
<1>1. PICK n \in 0 .. NumKeys[f[1]] :
        FlushOnly(<<f[1], Beginning(f[2], n)>>) \/ FlushBehind(<<f[1], Beginning(f[2], n)>>, n)
          \/ FlushEntry(<<f[1], Beginning(f[2], n)>>, n)
  BY DEF FlushOne
<1> DEFINE s == <<f[1], Beginning(f[2], n)>>
<1>2. s[1] = f[1] /\ s[1] \in Caches
  BY FlushFacts
<1> HIDE DEF s
<1>3. FlushOnly(s) \/ FlushBehind(s, n) \/ FlushEntry(s, n)
  BY <1>1 DEF s
<1>4. \A i : /\ Without(memory, i) \in [DOMAIN Without(memory, i) -> Values]
             /\ DOMAIN Without(memory, i) \subseteq Ids
  BY DEF TablesOK, Without
<1>5. Without(table, s) \in [DOMAIN Without(table, s) -> Entries]
      /\ DOMAIN Without(table, s) \subseteq Slots
  BY DEF TablesOK, Without
<1>6. CASE FlushOnly(s)
  <2>1. timeInvalid' = timeInvalid /\ timeNow' = timeNow
    BY <1>6 DEF FlushOnly
  <2>2. CASE s \in DOMAIN table
    <3>1. /\ memory' = Without(memory, table[s].value)
          /\ table' = [table EXCEPT ![s].value = NoValue]
      BY <1>6, <2>2 DEF FlushOnly
    <3>2. table' \in [DOMAIN table' -> Entries] /\ DOMAIN table' = DOMAIN table
      BY <3>1 DEF TablesOK, Entries
    <3> QED
      BY <1>4, <2>1, <3>1, <3>2 DEF TablesOK
  <2>3. CASE s \notin DOMAIN table
    BY <1>6, <2>1, <2>3 DEF FlushOnly, TablesOK
  <2> QED
    BY <2>2, <2>3
<1>7. CASE FlushBehind(s, n)
  <2>1. timeInvalid' \in [Caches -> Nat] /\ timeNow' \in [Caches -> Nat]
    BY <1>2, <1>7 DEF FlushBehind, TablesOK
  <2>2. table' \in [DOMAIN table' -> Entries] /\ DOMAIN table' = DOMAIN table
    <3>1. timeNow[s[1]] \in Nat
      BY <1>2 DEF TablesOK
    <3> QED
      BY <1>7, <3>1 DEF FlushBehind, TablesOK, Entries
  <2> QED
    BY <1>7, <2>1, <2>2 DEF FlushBehind, TablesOK
<1>8. CASE FlushEntry(s, n)
  <2>1. timeInvalid' \in [Caches -> Nat] /\ timeNow' \in [Caches -> Nat]
    BY <1>2, <1>8 DEF FlushEntry, TablesOK
  <2>2. CASE s \in DOMAIN table
    <3>1. memory' = Without(memory, table[s].value) /\ table' = Without(table, s)
      BY <1>8, <2>2 DEF FlushEntry
    <3> QED
      BY <1>4, <1>5, <2>1, <3>1 DEF TablesOK
  <2>3. CASE s \notin DOMAIN table
    BY <1>8, <2>1, <2>3 DEF FlushEntry, TablesOK
  <2> QED
    BY <2>2, <2>3
<1> QED
  BY <1>3, <1>6, <1>7, <1>8

\* The fields of a thread's context, one by one.
LEMMA FieldFacts ==
    ASSUME NEW r \in Contexts
    PROVE  /\ r.page \in Pages \cup {NoPage} /\ r.locks \subseteq Caches
           /\ r.cacheUnlock \subseteq Caches /\ r.cacheUpdate \in Seq(Update)
           /\ r.handled \in Nat /\ r.query \in Queries \cup {NoQuery}
           /\ r.hit \in Ids \cup {NoValue} /\ r.dml \subseteq Flushes
           /\ r.flushes \subseteq Flushes /\ r.written \in [Queries -> Nat] /\ r.ops \in Nat
BY DEF Contexts

LEMMA FieldStep ==
    ASSUME NEW r \in Contexts
    PROVE  /\ \A x \in Pages \cup {NoPage} : [r EXCEPT !.page = x] \in Contexts
           /\ \A x \in SUBSET Caches : /\ [r EXCEPT !.locks = x] \in Contexts
                                      /\ [r EXCEPT !.cacheUnlock = x] \in Contexts
           /\ \A x \in Seq(Update) : [r EXCEPT !.cacheUpdate = x] \in Contexts
           /\ \A x \in Nat : /\ [r EXCEPT !.handled = x] \in Contexts
                            /\ [r EXCEPT !.ops = x] \in Contexts
           /\ \A x \in Queries \cup {NoQuery} : [r EXCEPT !.query = x] \in Contexts
           /\ \A x \in Ids \cup {NoValue} : [r EXCEPT !.hit = x] \in Contexts
           /\ \A x \in SUBSET Flushes : /\ [r EXCEPT !.dml = x] \in Contexts
                                       /\ [r EXCEPT !.flushes = x] \in Contexts
           /\ \A x \in [Queries -> Nat] : [r EXCEPT !.written = x] \in Contexts
BY DEF Contexts

\* A place that is free, a query of the page and what it finds.
LEMMA StoreFacts ==
    ASSUME TypeOK, NEW w \in Workers, OwnPage(w), store(w)
    PROVE  /\ Place \in Ids \ DOMAIN memory
           /\ \A v \in Workers : ctx[v].hit # Place
           /\ ctx[w].query \in Queries
           /\ ctx[w].query \in ctx[w].page.reads
           /\ Finds(w, ctx[w].query) \in Nat
<1>1. Place \in Places
  BY DEF store, Place
<1>2. ctx[w].page \in Pages \cup {NoPage} /\ ctx[w].written \in [Queries -> Nat]
  BY DEF TypeOK, Contexts
<1>3. ctx[w].query \in ctx[w].page.reads /\ ctx[w].query \in Queries
  BY <1>2, PageFacts DEF OwnPage, store
<1> QED
  BY <1>1, <1>2, <1>3 DEF Places, Finds, TypeOK

\* The update that is next.
LEMMA UpdateFacts ==
    ASSUME TypeOK, NEW w \in Workers, NEW n \in 1 .. Len(ctx[w].cacheUpdate)
    PROVE  /\ ctx[w].cacheUpdate[n] \in Update
           /\ ctx[w].cacheUpdate[n].query \in Queries
           /\ Queued(w, n) \in Ids
<1>1. ctx[w].cacheUpdate \in Seq(Update)
  BY FieldFacts DEF TypeOK
<1>2. ctx[w].cacheUpdate[n] \in Update
  BY <1>1
<1> QED
  BY <1>2 DEF Update, Queued

LEMMA CommitTypes ==
    ASSUME TypeOK, NEW w \in Workers, storeCommitOne(w)
    PROVE  TablesOK'
<1> DEFINE u == ctx[w].cacheUpdate[ctx[w].handled + 1]
           q == u.query
           t == WithPath(q)
<1>1. ctx[w].handled + 1 \in 1 .. Len(ctx[w].cacheUpdate)
  <2>1. ctx[w].cacheUpdate \in Seq(Update) /\ ctx[w].handled \in Nat
    BY FieldFacts DEF TypeOK
  <2>2. ctx[w].handled < Len(ctx[w].cacheUpdate)
    BY DEF storeCommitOne
  <2> QED
    BY <2>1, <2>2
<1>2. u \in Update /\ q \in Queries /\ u.value \in Ids
  BY <1>1, UpdateFacts DEF Queued
<1>3. q[1] \in Caches /\ q \in Path(q) /\ Path(q) \subseteq Slots
  BY <1>2, QueryFacts, PathFacts
<1>4. timeNow' \in [Caches -> Nat] /\ timeInvalid' \in [Caches -> Nat] /\ timeNow[q[1]] \in Nat
  <2>1. timeNow' = [timeNow EXCEPT ![q[1]] = @ + 1] /\ timeInvalid' = timeInvalid
    BY DEF storeCommitOne
  <2>2. timeNow \in [Caches -> Nat] /\ timeInvalid \in [Caches -> Nat]
    BY DEF TypeOK, TablesOK
  <2> HIDE DEF q, t
  <2> QED
    BY <1>3, <2>1, <2>2
<1>5. t \in [DOMAIN t -> Entries] /\ DOMAIN t = DOMAIN table \cup Path(q)
  <2>1. table \in [DOMAIN table -> Entries]
    BY DEF TypeOK, TablesOK
  <2>2. NewEntry \in Entries
    BY DEF NewEntry, Entries
  <2> QED
    BY <2>1, <2>2 DEF WithPath
<1>6. DOMAIN t \subseteq Slots
  BY <1>3, <1>5 DEF TypeOK, TablesOK
<1>7. /\ Without(memory, t[q].value) \in [DOMAIN Without(memory, t[q].value) -> Values]
      /\ DOMAIN Without(memory, t[q].value) \subseteq Ids
  BY DEF Without, TypeOK, TablesOK
<1> HIDE DEF t, q
<1>8. CASE Newer(t[q], u)
  <2>1. /\ table' = [t EXCEPT ![q].value = u.value]
        /\ memory' = [Without(memory, t[q].value) EXCEPT ![u.value].timeValid = timeNow[q[1]]]
    BY <1>8 DEF storeCommitOne, t, q
  <2>2. table' \in [DOMAIN table' -> Entries] /\ DOMAIN table' = DOMAIN t
    BY <1>2, <1>5, <2>1 DEF Entries
  <2>3. memory' \in [DOMAIN memory' -> Values] /\ DOMAIN memory' \subseteq Ids
    BY <1>4, <1>7, <2>1 DEF Values
  <2> QED
    BY <1>4, <1>6, <2>2, <2>3 DEF TablesOK
<1>9. CASE ~Newer(t[q], u)
  <2>1. table' = t /\ memory' = memory
    BY <1>9 DEF storeCommitOne, t, q
  <2> QED
    BY <1>4, <1>5, <1>6, <2>1 DEF TypeOK, TablesOK
<1> QED
  BY <1>8, <1>9

LEMMA TypeStep ==
    ASSUME TypeOK, \A w \in Workers : OwnPage(w), [Next]_vars
    PROVE  TypeOK'
<1> USE DEF TypeOK
<1> DEFINE Lines == {"idle", "lock", "body", "hit", "miss", "flush", "commit", "free"}
<1>1. ASSUME NEW w \in Workers
      PROVE  ctx[w] \in Contexts
  OBVIOUS
<1>2. ASSUME NEW w \in Workers, Begin(w)
      PROVE  TypeOK'
  <2>1. PICK page \in Pages : ctx' = [ctx EXCEPT ![w].page = page, ![w].locks = Locks(page)]
    BY <1>2 DEF Begin
  <2> DEFINE r == [ctx[w] EXCEPT !.page = page]
  <2>2. r \in Contexts
    BY <1>1, FieldStep
  <2>3. [r EXCEPT !.locks = Locks(page)] \in Contexts
    BY <2>2, FieldStep, PageFacts
  <2>4. ctx' = [ctx EXCEPT ![w] = [r EXCEPT !.locks = Locks(page)]]
    BY <2>1
  <2> HIDE DEF r
  <2>5. ctx' \in [Workers -> Contexts]
    BY <2>3, <2>4
  <2> QED
    BY <1>2, <2>5 DEF Begin, Goto, tables, TablesOK
<1>3. ASSUME NEW w \in Workers, rlock(w) \/ wlock(w)
      PROVE  TypeOK'
  <2>1. PICK c \in Caches, mode \in {"r", "w"} : Locked(w, c, mode)
    BY <1>3 DEF rlock, wlock
  <2> DEFINE r == [ctx[w] EXCEPT !.locks = @ \ {c}]
             x == [r EXCEPT !.cacheUnlock = @ \cup {c}]
  <2>2. r \in Contexts
    BY <1>1, FieldFacts, FieldStep
  <2>3. x \in Contexts
    BY <2>2, FieldFacts, FieldStep
  <2>4. ctx' = [ctx EXCEPT ![w] = x]
    BY <2>1 DEF Locked
  <2> HIDE DEF x
  <2>5. ctx' \in [Workers -> Contexts]
    BY <2>3, <2>4
  <2> QED
    BY <2>1, <2>5 DEF Locked, tables, TablesOK
<1>4. ASSUME NEW w \in Workers, LocksTaken(w) \/ Committed(w) \/ GivesUp(w)
      PROVE  TypeOK'
  BY <1>4 DEF LocksTaken, Committed, GivesUp, Goto, tables, TablesOK
<1>5. ASSUME NEW w \in Workers, check(w)
      PROVE  TypeOK'
  <2>1. PICK q \in ctx[w].page.reads :
          /\ ctx' = [ctx EXCEPT ![w].query = q, ![w].ops = @ + 1,
                               ![w].hit = IF Valid(q) THEN table[q].value ELSE NoValue]
          /\ Goto(w, IF Valid(q) THEN "hit" ELSE "miss")
    BY <1>5 DEF check
  <2>2. q \in Queries
    BY <1>1, FieldFacts, PageFacts
  <2>3. Valid(q) => table[q].value \in Ids
    <3>1. q \in Path(q)
      BY <2>2, PathFacts
    <3> QED
      BY <3>1 DEF Valid, TablesOK, Entries
  <2> DEFINE h == IF Valid(q) THEN table[q].value ELSE NoValue
             r == [ctx[w] EXCEPT !.query = q]
             x == [r EXCEPT !.ops = @ + 1]
  <2>4. h \in Ids \cup {NoValue}
    BY <2>3
  <2>5. r \in Contexts
    BY <1>1, <2>2, FieldStep
  <2>6. x \in Contexts
    <3>1. r.ops + 1 \in Nat
      BY <2>5, FieldFacts
    <3> HIDE DEF r
    <3> QED
      BY <2>5, <3>1, FieldStep
  <2> HIDE DEF h
  <2>7. [x EXCEPT !.hit = h] \in Contexts
    BY <2>4, <2>6, FieldStep
  <2>8. ctx' = [ctx EXCEPT ![w] = [x EXCEPT !.hit = h]]
    <3>1. ctx' = [ctx EXCEPT ![w].query = q, ![w].ops = @ + 1, ![w].hit = h]
      BY <2>1 DEF h
    <3>2. ctx' = [ctx EXCEPT ![w] = [ctx[w] EXCEPT !.query = q, !.ops = @ + 1, !.hit = h]]
      BY <3>1, Zenon
    <3>3. [ctx[w] EXCEPT !.query = q, !.ops = @ + 1, !.hit = h] = [x EXCEPT !.hit = h]
      BY <1>1 DEF Contexts
    <3> QED
      BY <3>2, <3>3, Zenon
  <2> HIDE DEF x
  <2>9. ctx' \in [Workers -> Contexts]
    BY <2>7, <2>8
  <2>10. pc' \in [Workers -> Lines]
    BY <2>1 DEF Goto
  <2> QED
    BY <1>5, <2>9, <2>10 DEF check, tables, TablesOK
<1>6. ASSUME NEW w \in Workers, Hit(w)
      PROVE  TypeOK'
  <2> DEFINE r == [ctx[w] EXCEPT !.hit = NoValue]
  <2>1. r \in Contexts
    BY <1>1, FieldStep
  <2>2. [r EXCEPT !.query = NoQuery] \in Contexts
    BY <2>1, FieldStep
  <2>3. ctx' = [ctx EXCEPT ![w] = [r EXCEPT !.query = NoQuery]]
    BY <1>6 DEF Hit
  <2> HIDE DEF r
  <2>4. ctx' \in [Workers -> Contexts]
    BY <2>2, <2>3
  <2> QED
    BY <1>6, <2>4 DEF Hit, Goto, tables, TablesOK
<1>7. ASSUME NEW w \in Workers, store(w)
      PROVE  TypeOK'
  <2> DEFINE q == ctx[w].query
             u == [query |-> q, value |-> Place]
             l == Append(ctx[w].cacheUpdate, u)
             r == [ctx[w] EXCEPT !.cacheUpdate = l]
  <2>1. Place \in Ids /\ q \in Queries /\ Finds(w, q) \in Nat
    BY <1>7, StoreFacts
  <2>2. timeNow[q[1]] \in Nat
    BY <2>1, QueryFacts DEF TablesOK
  <2>3. l \in Seq(Update)
    <3>1. u \in Update
      BY <2>1 DEF Update
    <3>2. ctx[w].cacheUpdate \in Seq(Update)
      BY <1>1, FieldFacts
    <3> HIDE DEF u
    <3> QED
      BY <3>1, <3>2
  <2>4. /\ ctx' = [ctx EXCEPT ![w] = [r EXCEPT !.query = NoQuery]]
        /\ memory' = With(memory, Place, [result |-> Finds(w, q), timeValid |-> timeNow[q[1]]])
        /\ pc' = [pc EXCEPT ![w] = "body"]
        /\ UNCHANGED <<lockOut, table, timeInvalid, timeNow, data, version, started>>
    BY <1>7 DEF store, Goto
  <2> HIDE DEF l, q
  <2>5. r \in Contexts
    BY <1>1, <2>3, FieldStep
  <2>6. [r EXCEPT !.query = NoQuery] \in Contexts
    BY <2>5, FieldStep
  <2> HIDE DEF r
  <2>7. ctx' \in [Workers -> Contexts]
    BY <2>4, <2>6
  <2>8. memory' \in [DOMAIN memory' -> Values] /\ DOMAIN memory' \subseteq Ids
    BY <2>1, <2>2, <2>4 DEF With, Values, TablesOK
  <2> QED
    BY <2>4, <2>7, <2>8 DEF TablesOK
<1>8. ASSUME NEW w \in Workers, StartDml(w)
      PROVE  TypeOK'
  <2>1. PICK dml \in ctx[w].page.dmls :
          ctx' = [ctx EXCEPT ![w].dml = dml, ![w].flushes = dml, ![w].ops = @ + 1]
    BY <1>8 DEF StartDml
  <2>2. dml \subseteq Flushes
    BY <1>1, FieldFacts, PageFacts
  <2> DEFINE r == [ctx[w] EXCEPT !.dml = dml]
             x == [r EXCEPT !.flushes = dml]
             y == [x EXCEPT !.ops = @ + 1]
  <2>3. r \in Contexts
    BY <1>1, <2>2, FieldStep
  <2>4. x \in Contexts
    BY <2>2, <2>3, FieldStep
  <2>5. y \in Contexts
    <3>1. x.ops + 1 \in Nat
      BY <2>4, FieldFacts
    <3> HIDE DEF x
    <3> QED
      BY <2>4, <3>1, FieldStep
  <2>6. ctx' = [ctx EXCEPT ![w] = y]
    BY <2>1
  <2> HIDE DEF y
  <2>7. ctx' \in [Workers -> Contexts]
    BY <2>5, <2>6
  <2> QED
    BY <1>8, <2>7 DEF StartDml, Goto, tables, TablesOK
<1>9. ASSUME NEW w \in Workers, flush(w)
      PROVE  TypeOK'
  <2>1. PICK f \in ctx[w].flushes : FlushOne(f) /\ ctx' = [ctx EXCEPT ![w].flushes = @ \ {f}]
    BY <1>9 DEF flush
  <2>2. ctx[w].flushes \subseteq Flushes
    BY <1>1, FieldFacts
  <2>3. TablesOK'
    BY <2>1, <2>2, FlushTypes
  <2>4. [ctx[w] EXCEPT !.flushes = @ \ {f}] \in Contexts
    BY <1>1, <2>2, FieldStep
  <2>5. ctx' \in [Workers -> Contexts]
    BY <2>1, <2>4
  <2> QED
    BY <1>9, <2>3, <2>5 DEF flush
<1>10. ASSUME NEW w \in Workers, Dml(w)
       PROVE  TypeOK'
  <2> DEFINE x == [q \in Queries |-> IF Changed(ctx[w].dml, q) THEN version + 1 ELSE ctx[w].written[q]]
             r == [ctx[w] EXCEPT !.dml = {}]
  <2>1. x \in [Queries -> Nat]
    BY <1>1, FieldFacts
  <2>2. ctx' = [ctx EXCEPT ![w] = [r EXCEPT !.written = x]]
    BY <1>10 DEF Dml
  <2> HIDE DEF x
  <2>3. r \in Contexts
    BY <1>1, FieldStep
  <2>4. [r EXCEPT !.written = x] \in Contexts
    BY <2>1, <2>3, FieldStep
  <2> HIDE DEF r
  <2>5. ctx' \in [Workers -> Contexts]
    BY <2>2, <2>4
  <2> QED
    BY <1>10, <2>5 DEF Dml, Goto, tables, TablesOK
<1>11. ASSUME NEW w \in Workers, db_commit(w)
       PROVE  TypeOK'
  <2>1. \A q \in Queries : Finds(w, q) \in Nat
    BY <1>1, FieldFacts DEF Finds
  <2> QED
    BY <1>11, <2>1 DEF db_commit, Goto, tables, TablesOK
<1>12. ASSUME NEW w \in Workers, storeCommitOne(w)
       PROVE  TypeOK'
  <2>1. TablesOK'
    BY <1>12, CommitTypes
  <2>2. ctx' = [ctx EXCEPT ![w] = [ctx[w] EXCEPT !.handled = @ + 1]]
        /\ UNCHANGED <<lockOut, data, version, pc, started>>
    BY <1>12 DEF storeCommitOne
  <2>3. [ctx[w] EXCEPT !.handled = @ + 1] \in Contexts
    <3>1. ctx[w].handled + 1 \in Nat
      BY <1>1, FieldFacts
    <3> QED
      BY <1>1, <3>1, FieldStep
  <2>4. ctx' \in [Workers -> Contexts]
    BY <2>2, <2>3
  <2> QED
    BY <2>1, <2>2, <2>4
<1>13. ASSUME NEW w \in Workers, Unlock(w)
       PROVE  TypeOK'
  <2>1. PICK c \in ctx[w].cacheUnlock :
          /\ lockOut' = [lockOut EXCEPT ![c][w] = "none"]
          /\ ctx' = [ctx EXCEPT ![w].cacheUpdate = <<>>, ![w].handled = 0, ![w].cacheUnlock = @ \ {c}]
    BY <1>13 DEF Unlock
  <2> DEFINE r == [ctx[w] EXCEPT !.cacheUpdate = <<>>]
             x == [r EXCEPT !.handled = 0]
             y == [x EXCEPT !.cacheUnlock = @ \ {c}]
  <2>2. r \in Contexts
    <3>1. <<>> \in Seq(Update)
      OBVIOUS
    <3> QED
      BY <1>1, <3>1, FieldStep
  <2>3. x \in Contexts
    BY <2>2, FieldStep
  <2>4. y \in Contexts
    BY <2>3, FieldFacts, FieldStep
  <2>5. ctx' = [ctx EXCEPT ![w] = y]
    BY <2>1
  <2> HIDE DEF y
  <2>6. ctx' \in [Workers -> Contexts]
    BY <2>4, <2>5
  <2> QED
    BY <1>13, <2>1, <2>6 DEF Unlock, tables, TablesOK
<1>14. ASSUME NEW w \in Workers, Ended(w)
       PROVE  TypeOK'
  <2>1. Idle \in Contexts
    BY DEF Idle, Contexts
  <2> QED
    BY <1>14, <2>1 DEF Ended, Goto, tables, TablesOK
<1>15. CASE UNCHANGED vars
  BY <1>15 DEF vars, tables, TablesOK
<1> QED
  BY <1>2, <1>3, <1>4, <1>5, <1>6, <1>7, <1>8, <1>9, <1>10, <1>11, <1>12, <1>13, <1>14, <1>15
     DEF Next, Step

-----------------------------------------------------------------------------
(***************************************************************************)
(* What a step leaves alone.                                               *)
(***************************************************************************)
\* A step is of one thread.
LEMMA OthersStay ==
    ASSUME TypeOK, NEW w \in Workers, Begin(w) \/ Step(w), NEW v \in Workers, v # w
    PROVE  /\ ctx'[v] = ctx[v] /\ pc'[v] = pc[v]
           /\ \A c \in Caches : lockOut'[c][v] = lockOut[c][v]
<1> USE DEF TypeOK
<1>1. CASE Begin(w)
  BY <1>1 DEF Begin, Goto
<1>2. CASE rlock(w) \/ wlock(w)
  <2>1. PICK c \in Caches, mode \in {"r", "w"} : Locked(w, c, mode)
    BY <1>2 DEF rlock, wlock
  <2> QED
    BY <2>1 DEF Locked
<1>3. CASE LocksTaken(w) \/ Committed(w) \/ GivesUp(w) \/ Ended(w) \/ db_commit(w)
  BY <1>3 DEF LocksTaken, Committed, GivesUp, Ended, db_commit, Goto
<1>4. CASE check(w) \/ Hit(w) \/ store(w)
  BY <1>4 DEF check, Hit, store, Goto
<1>5. CASE StartDml(w) \/ Dml(w)
  BY <1>5 DEF StartDml, Dml, Goto
<1>6. CASE flush(w) \/ storeCommitOne(w)
  BY <1>6 DEF flush, storeCommitOne
<1>7. CASE Unlock(w)
  BY <1>7 DEF Unlock
<1> QED
  BY <1>1, <1>2, <1>3, <1>4, <1>5, <1>6, <1>7 DEF Step

\* Between its locks and its end a page keeps them.
Works(w) == \/ check(w) \/ Hit(w) \/ store(w) \/ StartDml(w) \/ flush(w) \/ Dml(w)
            \/ db_commit(w) \/ storeCommitOne(w)

LEMMA WorkKeepsLocks ==
    ASSUME TypeOK, NEW w \in Workers, Works(w)
    PROVE  /\ ctx'[w].page = ctx[w].page
           /\ ctx'[w].cacheUnlock = ctx[w].cacheUnlock
           /\ lockOut' = lockOut
           /\ pc[w] \in Running /\ pc'[w] \in Running
<1> USE DEF TypeOK, Contexts, Running
<1>1. CASE check(w)
  BY <1>1 DEF check, Goto
<1>2. CASE Hit(w)
  BY <1>2 DEF Hit, Goto
<1>3. CASE store(w)
  BY <1>3 DEF store, Goto
<1>4. CASE StartDml(w)
  BY <1>4 DEF StartDml, Goto
<1>5. CASE flush(w)
  BY <1>5 DEF flush
<1>6. CASE Dml(w)
  BY <1>6 DEF Dml, Goto
<1>7. CASE db_commit(w)
  BY <1>7 DEF db_commit, Goto
<1>8. CASE storeCommitOne(w)
  BY <1>8 DEF storeCommitOne
<1> QED
  BY <1>1, <1>2, <1>3, <1>4, <1>5, <1>6, <1>7, <1>8 DEF Works

-----------------------------------------------------------------------------
(***************************************************************************)
(* Locks.                                                                  *)
(***************************************************************************)
LEMMA LockStep ==
    ASSUME TypeOK, Locking, NEW w \in Workers, Begin(w) \/ Step(w)
    PROVE  LockFit(w)'
<1> USE DEF TypeOK
<1>1. ctx[w] \in Contexts /\ LockFit(w)
  BY DEF Locking
<1>2. \A c \in Caches :
         lockOut[c][w] = IF c \notin ctx[w].cacheUnlock THEN "none"
                         ELSE IF c \in Flushed(ctx[w].page) THEN "w" ELSE "r"
  BY <1>1 DEF LockFit
<1>3. CASE Begin(w)
  <2>1. PICK page \in Pages : ctx' = [ctx EXCEPT ![w].page = page, ![w].locks = Locks(page)]
    BY <1>3 DEF Begin
  <2>2. /\ ctx[w].cacheUnlock = {} /\ Unused(w)
        /\ lockOut' = lockOut /\ pc'[w] = "lock"
    BY <1>1, <1>3 DEF Begin, Goto, LockFit
  <2>3. /\ ctx'[w].cacheUnlock = ctx[w].cacheUnlock
        /\ ctx'[w].cacheUpdate = ctx[w].cacheUpdate /\ ctx'[w].written = ctx[w].written
        /\ ctx'[w].locks = Locks(page) /\ ctx'[w].page = page
    BY <1>1, <2>1 DEF Contexts
  <2>4. Unused(w)'
    BY <2>2, <2>3 DEF Unused
  <2> QED
    BY <1>2, <2>2, <2>3, <2>4 DEF LockFit, Running
<1>4. CASE rlock(w) \/ wlock(w)
  <2>1. PICK c \in Caches, mode \in {"r", "w"} :
          /\ Locked(w, c, mode) /\ pc[w] = "lock" /\ c \in ctx[w].locks
          /\ mode = IF c \in Flushed(ctx[w].page) THEN "w" ELSE "r"
    BY <1>4 DEF rlock, wlock, NextLock
  <2>2. /\ lockOut' = [lockOut EXCEPT ![c][w] = mode] /\ pc' = pc
        /\ ctx' = [ctx EXCEPT ![w].locks = @ \ {c}, ![w].cacheUnlock = @ \cup {c}]
    BY <2>1 DEF Locked
  <2>3. /\ ctx'[w].locks = ctx[w].locks \ {c} /\ ctx'[w].page = ctx[w].page
        /\ ctx'[w].cacheUnlock = ctx[w].cacheUnlock \cup {c}
        /\ ctx'[w].cacheUpdate = ctx[w].cacheUpdate /\ ctx'[w].written = ctx[w].written
    BY <1>1, <2>2 DEF Contexts
  <2>4. \A d \in Caches : lockOut'[d][w] = IF d = c THEN mode ELSE lockOut[d][w]
    BY <2>2
  <2>5. Unused(w) /\ ctx[w].locks \cup ctx[w].cacheUnlock = Locks(ctx[w].page)
    BY <1>1, <2>1 DEF LockFit
  <2>6. Unused(w)'
    BY <2>3, <2>5 DEF Unused
  <2>7. ctx'[w].locks \cup ctx'[w].cacheUnlock = Locks(ctx'[w].page)
    BY <2>1, <2>3, <2>5
  <2>8. \A d \in Caches :
          lockOut'[d][w] = IF d \notin ctx'[w].cacheUnlock THEN "none"
                           ELSE IF d \in Flushed(ctx'[w].page) THEN "w" ELSE "r"
    BY <1>2, <2>1, <2>3, <2>4
  <2> QED
    BY <2>1, <2>2, <2>6, <2>7, <2>8 DEF LockFit, Running
<1>5. CASE LocksTaken(w) \/ Committed(w) \/ GivesUp(w)
  <2>1. /\ lockOut' = lockOut /\ ctx' = ctx
        /\ pc'[w] = "free" \/ (pc[w] = "lock" /\ ctx[w].locks = {} /\ pc'[w] = "body")
    BY <1>5 DEF LocksTaken, Committed, GivesUp, Goto
  <2>2. pc'[w] = "body" => ctx[w].cacheUnlock = Locks(ctx[w].page)
    BY <1>1, <2>1 DEF LockFit
  <2> QED
    BY <1>2, <2>1, <2>2 DEF LockFit, Running
<1>6. CASE Works(w)
  <2>1. /\ ctx'[w].page = ctx[w].page /\ ctx'[w].cacheUnlock = ctx[w].cacheUnlock
        /\ lockOut' = lockOut /\ pc[w] \in Running /\ pc'[w] \in Running
    BY <1>6, WorkKeepsLocks
  <2>2. ctx[w].cacheUnlock = Locks(ctx[w].page)
    BY <1>1, <2>1 DEF LockFit
  <2> QED
    BY <1>2, <2>1, <2>2 DEF LockFit, Running
<1>7. CASE Unlock(w)
  <2>1. PICK c \in ctx[w].cacheUnlock :
          /\ lockOut' = [lockOut EXCEPT ![c][w] = "none"]
          /\ ctx' = [ctx EXCEPT ![w].cacheUpdate = <<>>, ![w].handled = 0, ![w].cacheUnlock = @ \ {c}]
    BY <1>7 DEF Unlock
  <2>2. pc[w] = "free" /\ pc'[w] = "free"
    BY <1>7 DEF Unlock
  <2>3. ctx'[w].page = ctx[w].page /\ ctx'[w].cacheUnlock = ctx[w].cacheUnlock \ {c}
    BY <1>1, <2>1 DEF Contexts
  <2>4. \A d \in Caches : lockOut'[d][w] = IF d = c THEN "none" ELSE lockOut[d][w]
    BY <2>1
  <2>5. \A d \in Caches :
          lockOut'[d][w] = IF d \notin ctx'[w].cacheUnlock THEN "none"
                           ELSE IF d \in Flushed(ctx'[w].page) THEN "w" ELSE "r"
    BY <1>2, <2>3, <2>4
  <2> QED
    BY <2>2, <2>5 DEF LockFit, Running
<1>8. CASE Ended(w)
  <2>1. ctx'[w] = Idle /\ lockOut' = lockOut /\ pc'[w] = "idle" /\ ctx[w].cacheUnlock = {}
    BY <1>8 DEF Ended, Goto
  <2>2. \A c \in Caches : lockOut[c][w] = "none"
    BY <1>2, <2>1
  <2> QED
    BY <2>1, <2>2 DEF LockFit, Unused, Running, Idle
<1> QED
  BY <1>3, <1>4, <1>5, <1>6, <1>7, <1>8 DEF Step, Works

\* A lock is taken for writing when nobody has it, for reading when no writer has it.
LEMMA WritersStep ==
    ASSUME TypeOK, Locking, NEW w \in Workers, Begin(w) \/ Step(w)
    PROVE  WritersAlone'
<1> USE DEF TypeOK
<1>1. WritersAlone
  BY DEF Locking
<1>2. CASE lockOut' = lockOut
  BY <1>1, <1>2 DEF WritersAlone
<1>3. CASE rlock(w)
  <2>1. PICK c \in Caches : /\ \A v \in Workers : lockOut[c][v] # "w"
                            /\ lockOut' = [lockOut EXCEPT ![c][w] = "r"]
    BY <1>3 DEF rlock, Locked
  <2> QED
    BY <1>1, <2>1 DEF WritersAlone
<1>4. CASE wlock(w)
  <2>1. PICK c \in Caches : /\ \A v \in Workers : lockOut[c][v] = "none"
                            /\ lockOut' = [lockOut EXCEPT ![c][w] = "w"]
    BY <1>4 DEF wlock, Locked
  <2> QED
    BY <1>1, <2>1 DEF WritersAlone
<1>5. CASE Unlock(w)
  <2>1. PICK c \in Caches : lockOut' = [lockOut EXCEPT ![c][w] = "none"]
    <3>1. ctx[w].cacheUnlock \subseteq Caches
      BY FieldFacts
    <3> QED
      BY <1>5, <3>1 DEF Unlock
  <2> QED
    BY <1>1, <2>1 DEF WritersAlone
<1>6. Works(w) => lockOut' = lockOut
  BY WorkKeepsLocks
<1>7. Begin(w) \/ LocksTaken(w) \/ Committed(w) \/ GivesUp(w) \/ Ended(w) => lockOut' = lockOut
  BY DEF Begin, LocksTaken, Committed, GivesUp, Ended
<1> QED
  BY <1>2, <1>3, <1>4, <1>5, <1>6, <1>7 DEF Step, Works

LEMMA OwnStep ==
    ASSUME TypeOK, Locking, NEW w \in Workers, Begin(w) \/ Step(w)
    PROVE  OwnPage(w)'
<1> USE DEF TypeOK
<1>1. /\ ctx[w] \in Contexts /\ LockFit(w)
      /\ ctx[w].cacheUpdate \in Seq(Update) /\ ctx[w].handled \in Nat
      /\ ctx[w].page \in Pages \cup {NoPage} /\ ctx[w].written \in [Queries -> Nat]
  BY FieldFacts DEF Locking
<1>2. /\ pc[w] \in {"hit", "miss"} => ctx[w].query \in ctx[w].page.reads
      /\ \A n \in 1 .. Len(ctx[w].cacheUpdate) : ctx[w].cacheUpdate[n].query \in ctx[w].page.reads
      /\ ctx[w].handled <= Len(ctx[w].cacheUpdate)
      /\ pc[w] \notin {"commit", "free"} => ctx[w].handled = 0
      /\ pc[w] = "flush" => ctx[w].dml \in ctx[w].page.dmls /\ ctx[w].flushes \subseteq ctx[w].dml
      /\ \A q \in Queries : ctx[w].written[q] # 0 => q[1] \in Flushed(ctx[w].page)
  BY DEF Locking, OwnPage
<1>3. CASE Begin(w)
  <2>1. PICK page \in Pages : ctx' = [ctx EXCEPT ![w].page = page, ![w].locks = Locks(page)]
    BY <1>3 DEF Begin
  <2>2. pc[w] = "idle" /\ Unused(w) /\ pc'[w] = "lock"
    BY <1>1, <1>3 DEF Begin, Goto, LockFit
  <2>3. /\ ctx'[w].cacheUpdate = ctx[w].cacheUpdate /\ ctx'[w].written = ctx[w].written
        /\ ctx'[w].handled = ctx[w].handled
    BY <1>1, <2>1 DEF Contexts
  <2>4. ctx'[w].cacheUpdate = <<>> /\ \A q \in Queries : ctx'[w].written[q] = 0
    BY <2>2, <2>3 DEF Unused
  <2> QED
    BY <1>2, <2>2, <2>3, <2>4 DEF OwnPage
<1>4. CASE rlock(w) \/ wlock(w)
  <2>1. PICK c \in Caches, mode \in {"r", "w"} : Locked(w, c, mode)
    BY <1>4 DEF rlock, wlock
  <2>2. pc'[w] = "lock" /\ pc[w] = "lock"
    BY <1>4, <2>1 DEF rlock, wlock, Locked
  <2>3. /\ ctx'[w].page = ctx[w].page /\ ctx'[w].handled = ctx[w].handled
        /\ ctx'[w].cacheUpdate = ctx[w].cacheUpdate /\ ctx'[w].written = ctx[w].written
    BY <1>1, <2>1 DEF Contexts, Locked
  <2> QED
    BY <1>2, <2>2, <2>3 DEF OwnPage
<1>5. CASE LocksTaken(w) \/ Committed(w) \/ GivesUp(w)
  BY <1>2, <1>5 DEF LocksTaken, Committed, GivesUp, Goto, OwnPage
<1>6. CASE check(w) \/ Hit(w)
  <2>1. CASE check(w)
    <3>1. PICK q \in ctx[w].page.reads :
            /\ ctx' = [ctx EXCEPT ![w].query = q, ![w].ops = @ + 1,
                                 ![w].hit = IF Valid(q) THEN table[q].value ELSE NoValue]
            /\ pc'[w] \in {"hit", "miss"} /\ pc[w] = "body"
      BY <2>1 DEF check, Goto
    <3> DEFINE h == IF Valid(q) THEN table[q].value ELSE NoValue
    <3> HIDE DEF h
    <3>2. ctx' = [ctx EXCEPT ![w].query = q, ![w].ops = @ + 1, ![w].hit = h]
      BY <3>1 DEF h
    <3>3. /\ ctx'[w].page = ctx[w].page /\ ctx'[w].handled = ctx[w].handled
          /\ ctx'[w].cacheUpdate = ctx[w].cacheUpdate /\ ctx'[w].written = ctx[w].written
          /\ ctx'[w].query = q
      BY <1>1, <3>2 DEF Contexts
    <3> QED
      BY <1>2, <3>1, <3>3 DEF OwnPage
  <2>2. CASE Hit(w)
    <3>1. /\ ctx'[w].page = ctx[w].page /\ ctx'[w].handled = ctx[w].handled
          /\ ctx'[w].cacheUpdate = ctx[w].cacheUpdate /\ ctx'[w].written = ctx[w].written
          /\ pc[w] = "hit" /\ pc'[w] = "body"
      BY <1>1, <2>2 DEF Hit, Goto, Contexts
    <3> QED
      BY <1>2, <3>1 DEF OwnPage
  <2> QED
    BY <1>6, <2>1, <2>2
<1>7. CASE store(w)
  <2> DEFINE u == [query |-> ctx[w].query, value |-> Place]
  <2>1. /\ ctx'[w].page = ctx[w].page /\ ctx'[w].handled = ctx[w].handled
        /\ ctx'[w].cacheUpdate = Append(ctx[w].cacheUpdate, u) /\ ctx'[w].written = ctx[w].written
        /\ pc[w] = "miss" /\ pc'[w] = "body"
    BY <1>1, <1>7 DEF store, Goto, Contexts
  <2>2. u.query \in ctx[w].page.reads
    BY <1>2, <2>1
  <2>3. /\ Len(Append(ctx[w].cacheUpdate, u)) = Len(ctx[w].cacheUpdate) + 1
        /\ Len(ctx[w].cacheUpdate) \in Nat
        /\ \A n \in 1 .. Len(ctx[w].cacheUpdate) + 1 :
             Append(ctx[w].cacheUpdate, u)[n]
               = IF n \in 1 .. Len(ctx[w].cacheUpdate) THEN ctx[w].cacheUpdate[n] ELSE u
    BY <1>1
  <2> HIDE DEF u
  <2>4. \A n \in 1 .. Len(ctx'[w].cacheUpdate) : ctx'[w].cacheUpdate[n].query \in ctx'[w].page.reads
    BY <1>2, <2>1, <2>2, <2>3
  <2> QED
    BY <1>1, <1>2, <2>1, <2>3, <2>4 DEF OwnPage
<1>8. CASE StartDml(w)
  <2>1. /\ ctx'[w].page = ctx[w].page /\ ctx'[w].handled = ctx[w].handled
        /\ ctx'[w].cacheUpdate = ctx[w].cacheUpdate /\ ctx'[w].written = ctx[w].written
        /\ ctx'[w].dml \in ctx[w].page.dmls /\ ctx'[w].flushes = ctx'[w].dml
        /\ pc[w] = "body" /\ pc'[w] = "flush"
    BY <1>1, <1>8 DEF StartDml, Goto, Contexts
  <2> QED
    BY <1>2, <2>1 DEF OwnPage
<1>9. CASE flush(w)
  <2>1. /\ ctx'[w].page = ctx[w].page /\ ctx'[w].handled = ctx[w].handled
        /\ ctx'[w].cacheUpdate = ctx[w].cacheUpdate /\ ctx'[w].written = ctx[w].written
        /\ ctx'[w].dml = ctx[w].dml /\ ctx'[w].flushes \subseteq ctx[w].flushes
        /\ pc[w] = "flush" /\ pc'[w] = "flush"
    BY <1>1, <1>9 DEF flush, Contexts
  <2> QED
    BY <1>2, <2>1 DEF OwnPage
<1>10. CASE Dml(w)
  <2>1. /\ ctx'[w].page = ctx[w].page /\ ctx'[w].handled = ctx[w].handled
        /\ ctx'[w].cacheUpdate = ctx[w].cacheUpdate
        /\ ctx'[w].written = [q \in Queries |-> IF Changed(ctx[w].dml, q) THEN version + 1
                                                ELSE ctx[w].written[q]]
        /\ pc[w] = "flush" /\ pc'[w] = "body"
    BY <1>1, <1>10 DEF Dml, Goto, Contexts
  <2>2. ASSUME NEW q \in Queries, Changed(ctx[w].dml, q)
        PROVE  q[1] \in Flushed(ctx[w].page)
    BY <1>1, <1>2, <2>1, <2>2, PageFacts DEF Changed, Matches
  <2> QED
    BY <1>2, <2>1, <2>2 DEF OwnPage
<1>11. CASE db_commit(w)
  <2>1. ctx' = ctx /\ pc[w] = "body" /\ pc'[w] = "commit"
    BY <1>11 DEF db_commit, Goto
  <2> QED
    BY <1>2, <2>1 DEF OwnPage
<1>12. CASE storeCommitOne(w)
  <2>1. /\ ctx'[w].page = ctx[w].page /\ ctx'[w].handled = ctx[w].handled + 1
        /\ ctx'[w].cacheUpdate = ctx[w].cacheUpdate /\ ctx'[w].written = ctx[w].written
        /\ ctx[w].handled < Len(ctx[w].cacheUpdate)
        /\ pc[w] = "commit" /\ pc'[w] = "commit"
    BY <1>1, <1>12 DEF storeCommitOne, Contexts
  <2>2. ctx[w].handled + 1 <= Len(ctx[w].cacheUpdate)
    BY <1>1, <2>1
  <2> QED
    BY <1>2, <2>1, <2>2 DEF OwnPage
<1>13. CASE Unlock(w)
  <2>1. /\ ctx'[w].page = ctx[w].page /\ ctx'[w].handled = 0
        /\ ctx'[w].cacheUpdate = <<>> /\ ctx'[w].written = ctx[w].written
        /\ pc[w] = "free" /\ pc'[w] = "free"
    BY <1>1, <1>13 DEF Unlock, Contexts
  <2> QED
    BY <1>2, <2>1 DEF OwnPage
<1>14. CASE Ended(w)
  <2>1. ctx'[w] = Idle /\ pc'[w] = "idle"
    BY <1>14 DEF Ended, Goto
  <2> QED
    BY <2>1 DEF OwnPage, Idle
<1> QED
  BY <1>3, <1>4, <1>5, <1>6, <1>7, <1>8, <1>9, <1>10, <1>11, <1>12, <1>13, <1>14 DEF Step

LEMMA LockingStep ==
    ASSUME TypeOK, Locking, [Next]_vars
    PROVE  Locking'
<1>1. ASSUME NEW w \in Workers, Begin(w) \/ Step(w)
      PROVE  Locking'
  <2>1. ASSUME NEW v \in Workers
        PROVE  LockFit(v)' /\ OwnPage(v)'
    <3>1. CASE v = w
      BY <1>1, <3>1, LockStep, OwnStep
    <3>2. CASE v # w
      <4>1. /\ ctx'[v] = ctx[v] /\ pc'[v] = pc[v]
            /\ \A c \in Caches : lockOut'[c][v] = lockOut[c][v]
        BY <1>1, <3>2, OthersStay
      <4>2. LockFit(v) /\ OwnPage(v)
        BY DEF Locking
      <4> QED
        BY <4>1, <4>2 DEF LockFit, OwnPage, Unused
    <3> QED
      BY <3>1, <3>2
  <2> QED
    BY <1>1, <2>1, WritersStep DEF Locking
<1>2. CASE UNCHANGED vars
  BY <1>2 DEF vars, Locking, LockFit, OwnPage, Unused, WritersAlone
<1> QED
  BY <1>1, <1>2 DEF Next

-----------------------------------------------------------------------------
(***************************************************************************)
(* What a flush does to values and to what is found.                       *)
(***************************************************************************)
LEMMA SameLength ==
    ASSUME NEW m \in Nat, NEW n \in Nat, 1 .. m = 1 .. n
    PROVE  m = n
<1>1. CASE m < n
  <2>1. n \in 1 .. n /\ n \notin 1 .. m
    BY <1>1
  <2> QED
    BY <2>1
<1>2. CASE n < m
  <2>1. m \in 1 .. m /\ m \notin 1 .. n
    BY <1>2
  <2> QED
    BY <2>1
<1> QED
  BY <1>1, <1>2

\* On the way to a query, the entry of all keys is its own.
LEMMA LeafPath ==
    ASSUME NEW q \in Queries, NEW k, <<q[1], Beginning(k, NumKeys[q[1]])>> \in Path(q)
    PROVE  <<q[1], Beginning(k, NumKeys[q[1]])>> = q
<1> DEFINE N == NumKeys[q[1]]
<1>1. PICK m \in First(q[1]) .. N : <<q[1], Beginning(k, N)>> = <<q[1], Beginning(q[2], m)>>
  BY DEF Path
<1>2. N \in Nat /\ m \in Nat
  BY <1>1, QueryFacts
<1>3. DOMAIN Beginning(k, N) = 1 .. N /\ DOMAIN Beginning(q[2], m) = 1 .. m
  BY DEF Beginning
<1>4. 1 .. N = 1 .. m
  BY <1>1, <1>3
<1>5. N = m
  BY <1>2, <1>4, SameLength
<1> QED
  BY <1>1, <1>5, QueryFacts

LEMMA LeafIsOwn ==
    ASSUME NEW q \in Queries, NEW r \in Queries, r \in Path(q)
    PROVE  r = q
<1>1. r[1] = q[1]
  BY PathFacts
<1>2. r = <<q[1], Beginning(r[2], NumKeys[q[1]])>>
  BY <1>1, QueryFacts
<1> QED
  BY <1>2, LeafPath

\* On the way to a query that a flush matches are the keys the flush gives.
LEMMA FlushedPath ==
    ASSUME NEW q \in Queries, NEW f \in Flushes, Matches(q, f),
           NEW n \in First(q[1]) .. NumKeys[q[1]], \A i \in 1 .. n : f[2][i] # Null
    PROVE  <<f[1], Beginning(f[2], n)>> \in Path(q)
<1>1. q[1] = f[1] /\ NumKeys[q[1]] \in Nat /\ First(q[1]) \in Nat
  BY QueryFacts DEF Matches
<1>2. \A i \in 1 .. n : f[2][i] = q[2][i]
  BY <1>1 DEF Matches
<1>3. Beginning(f[2], n) = Beginning(q[2], n)
  BY <1>2 DEF Beginning
<1> QED
  BY <1>1, <1>3 DEF Path

\* What is found needs entries, a value and times that are as before.
LEMMA FoundBefore ==
    ASSUME NEW q \in Queries, Valid(q)',
           q \in Filled, table'[q].value = table[q].value,
           memory'[table[q].value].timeValid = memory[table[q].value].timeValid,
           timeInvalid'[q[1]] = timeInvalid[q[1]],
           \A s \in Path(q) : s \in DOMAIN table /\ table'[s].timeInvalid = table[s].timeInvalid
    PROVE  Valid(q)
BY DEF Valid, Filled

LEMMA FlushMemory ==
    ASSUME TablesOK, ValuesOwned, NEW f \in Flushes, FlushOne(f)
    PROVE  /\ \A s \in Filled' : s \in Filled /\ table'[s].value = table[s].value
           /\ DOMAIN table' \subseteq DOMAIN table
           /\ DOMAIN memory' \subseteq DOMAIN memory
           /\ \A i \in DOMAIN memory' : memory'[i] = memory[i]
           /\ \A i \in DOMAIN memory \ DOMAIN memory' :
                \E s \in Filled \ Filled' : s[1] = f[1] /\ table[s].value = i
           /\ \A s \in Filled \ Filled' : table[s].value \notin DOMAIN memory'
           /\ \A c \in Caches : timeNow[c] <= timeNow'[c]
           /\ \A q \in Queries : q \in DOMAIN table' /\ Path(q) \subseteq DOMAIN table
                                   => Path(q) \subseteq DOMAIN table'
<1>1. PICK n \in 0 .. NumKeys[f[1]] :
        FlushOnly(<<f[1], Beginning(f[2], n)>>) \/ FlushBehind(<<f[1], Beginning(f[2], n)>>, n)
          \/ FlushEntry(<<f[1], Beginning(f[2], n)>>, n)
  BY DEF FlushOne
<1> DEFINE s == <<f[1], Beginning(f[2], n)>>
<1>2. s[1] = f[1] /\ s[1] \in Caches
  BY FlushFacts
<1>3. ASSUME NEW q \in Queries, n = NumKeys[f[1]], s \in Path(q)
      PROVE  s = q
  <2>1. q[1] = f[1]
    BY <1>2, <1>3, PathFacts
  <2> QED
    BY <1>3, <2>1, LeafPath
<1> HIDE DEF s
<1>4. FlushOnly(s) \/ FlushBehind(s, n) \/ FlushEntry(s, n)
  BY <1>1 DEF s
<1>5. /\ table \in [DOMAIN table -> Entries] /\ memory \in [DOMAIN memory -> Values]
      /\ timeNow \in [Caches -> Nat] /\ NoValue \notin DOMAIN memory
  BY CachesAssumption DEF TablesOK
<1>6. \A c \in Caches : timeNow[c] <= timeNow[c] /\ timeNow[c] <= timeNow[c] + 1
  BY <1>5
<1>7. CASE UNCHANGED <<table, memory>> /\ timeNow' \in {timeNow, [timeNow EXCEPT ![s[1]] = @ + 1]}
  BY <1>2, <1>5, <1>6, <1>7 DEF Filled
<1>8. CASE FlushOnly(s)
  <2>1. CASE s \in DOMAIN table
    <3>1. /\ memory' = Without(memory, table[s].value)
          /\ table' = [table EXCEPT ![s].value = NoValue] /\ timeNow' = timeNow
      BY <1>8, <2>1 DEF FlushOnly
    <3>2. /\ DOMAIN memory' = DOMAIN memory \ {table[s].value}
          /\ \A i \in DOMAIN memory' : memory'[i] = memory[i]
      BY <3>1 DEF Without
    <3>3. /\ DOMAIN table' = DOMAIN table /\ table'[s].value = NoValue
          /\ \A t \in DOMAIN table \ {s} : table'[t] = table[t]
      BY <1>5, <2>1, <3>1 DEF Entries
    <3>4. Filled' = Filled \ {s}
      BY <2>1, <3>3 DEF Filled
    <3>5. table[s].value \in DOMAIN memory => s \in Filled \ Filled'
      BY <1>5, <2>1, <3>4 DEF Filled
    <3>6. \A i \in DOMAIN memory \ DOMAIN memory' : s \in Filled \ Filled' /\ table[s].value = i
      BY <3>2, <3>5
    <3>7. \A r \in Filled' : r \in Filled /\ table'[r].value = table[r].value
      BY <3>3, <3>4 DEF Filled
    <3>8. \A r \in Filled \ Filled' : table[r].value \notin DOMAIN memory'
      BY <3>2, <3>4
    <3> QED
      BY <1>2, <1>6, <3>1, <3>2, <3>3, <3>6, <3>7, <3>8
  <2>2. CASE s \notin DOMAIN table
    BY <1>7, <1>8, <2>2 DEF FlushOnly
  <2> QED
    BY <2>1, <2>2
<1>9. CASE FlushBehind(s, n)
  <2>1. /\ memory' = memory /\ timeNow' = [timeNow EXCEPT ![s[1]] = @ + 1]
        /\ table' = table \/ (s \in DOMAIN table /\ table' = [table EXCEPT ![s].timeInvalid = timeNow[s[1]]])
    BY <1>9 DEF FlushBehind
  <2>2. CASE s \in DOMAIN table /\ table' = [table EXCEPT ![s].timeInvalid = timeNow[s[1]]]
    <3>1. DOMAIN table' = DOMAIN table /\ \A t \in DOMAIN table : table'[t].value = table[t].value
      BY <1>5, <2>2 DEF Entries
    <3>2. Filled' = Filled
      BY <3>1 DEF Filled
    <3>3. \A r \in Filled' : r \in Filled /\ table'[r].value = table[r].value
      BY <3>1, <3>2 DEF Filled
    <3> QED
      BY <1>2, <1>5, <1>6, <2>1, <3>1, <3>2, <3>3
  <2> QED
    BY <1>7, <2>1, <2>2
<1>10. CASE FlushEntry(s, n)
  <2>1. CASE s \in DOMAIN table
    <3>1. /\ memory' = Without(memory, table[s].value) /\ table' = Without(table, s)
          /\ timeNow' = [timeNow EXCEPT ![s[1]] = @ + 1] /\ n = NumKeys[f[1]]
      BY <1>2, <1>10, <2>1 DEF FlushEntry
    <3>2. /\ DOMAIN memory' = DOMAIN memory \ {table[s].value}
          /\ \A i \in DOMAIN memory' : memory'[i] = memory[i]
          /\ DOMAIN table' = DOMAIN table \ {s}
          /\ \A t \in DOMAIN table' : table'[t] = table[t]
      BY <3>1 DEF Without
    <3>3. Filled' = Filled \ {s}
      BY <3>2 DEF Filled
    <3>4. table[s].value \in DOMAIN memory => s \in Filled \ Filled'
      BY <1>5, <2>1, <3>3 DEF Filled
    <3>5. \A i \in DOMAIN memory \ DOMAIN memory' : s \in Filled \ Filled' /\ table[s].value = i
      BY <3>2, <3>4
    <3>6. \A r \in Filled' : r \in Filled /\ table'[r].value = table[r].value
      BY <3>2, <3>3 DEF Filled
    <3>7. \A q \in Queries : q \in DOMAIN table' /\ Path(q) \subseteq DOMAIN table
                               => Path(q) \subseteq DOMAIN table'
      BY <1>3, <3>1, <3>2
    <3>8. \A c \in Caches : timeNow[c] <= timeNow'[c]
      BY <1>2, <1>5, <1>6, <3>1
    <3>9. \A r \in Filled \ Filled' : table[r].value \notin DOMAIN memory'
      BY <3>2, <3>3
    <3> QED
      BY <1>2, <3>2, <3>5, <3>6, <3>7, <3>8, <3>9
  <2>2. CASE s \notin DOMAIN table
    BY <1>7, <1>10, <2>2 DEF FlushEntry
  <2> QED
    BY <2>1, <2>2
<1> QED
  BY <1>4, <1>8, <1>9, <1>10

\* A flush makes nothing found, and nothing it matches stays found.
LEMMA FlushFound ==
    ASSUME TablesOK, Keeping, NEW f \in Flushes, FlushOne(f), NEW q \in Queries, Valid(q)'
    PROVE  Valid(q) /\ ~Matches(q, f)
<1>1. PICK n \in 0 .. NumKeys[f[1]] :
        /\ Given(f, n)
        /\ FlushOnly(<<f[1], Beginning(f[2], n)>>) \/ FlushBehind(<<f[1], Beginning(f[2], n)>>, n)
             \/ FlushEntry(<<f[1], Beginning(f[2], n)>>, n)
  BY DEF FlushOne
<1> DEFINE s == <<f[1], Beginning(f[2], n)>>
<1>2. /\ s[1] = f[1] /\ s[1] \in Caches
      /\ q[1] \in Caches /\ q \in Path(q) /\ \A t \in Path(q) : t[1] = q[1]
      /\ NumKeys[q[1]] \in Nat /\ NumKeys[f[1]] \in Nat /\ n \in Nat
  BY <1>1, FlushFacts, QueryFacts, PathFacts
<1>3. Matches(q, f) /\ n >= First(q[1]) => s \in Path(q)
  <2>1. Matches(q, f) => q[1] = f[1]
    BY DEF Matches
  <2> QED
    BY <1>1, <1>2, <2>1, FlushedPath DEF Given, First
<1>4. ASSUME n = NumKeys[f[1]], s \in Path(q)
      PROVE  s = q
  BY <1>2, <1>4, LeafPath
<1> HIDE DEF s
<1>5. FlushOnly(s) \/ FlushBehind(s, n) \/ FlushEntry(s, n)
  BY <1>1 DEF s
\* The value was there before, and is not younger than the clock.
<1>6. /\ q \in Filled' /\ q \in Filled /\ table'[q].value = table[q].value
      /\ Path(q) \subseteq DOMAIN table' /\ Path(q) \subseteq DOMAIN table
  <2>1. ValuesOwned /\ q \in Filled' /\ Path(q) \subseteq DOMAIN table'
    BY <1>2 DEF Valid, Filled, Keeping
  <2> QED
    BY <2>1, FlushMemory
<1>7. table[q].value \in DOMAIN memory'
  <2>1. table[q].value \in DOMAIN memory /\ ValuesOwned
    BY <1>6 DEF Keeping, ValuesOwned
  <2>2. \A t \in Filled \ Filled' : table[t].value # table[q].value
    BY <1>6 DEF Keeping, ValuesOwned
  <2> QED
    BY <2>1, <2>2, FlushMemory
<1>8. /\ memory'[table[q].value] = memory[table[q].value]
      /\ memory[table[q].value].timeValid <= timeNow[q[1]]
      /\ memory[table[q].value].timeValid \in Nat /\ timeNow[q[1]] \in Nat
  <2>1. ValuesOwned /\ ClockAhead
    BY DEF Keeping
  <2>2. memory'[table[q].value] = memory[table[q].value] /\ table[q].value \in DOMAIN memory
    BY <1>7, <2>1, FlushMemory
  <2> QED
    BY <1>2, <1>6, <2>1, <2>2 DEF ClockAhead, TablesOK, Values
<1>9. /\ timeInvalid'[q[1]] < memory[table[q].value].timeValid
      /\ \A t \in Path(q) : table'[t].timeInvalid < memory[table[q].value].timeValid
  BY <1>6, <1>8 DEF Valid
<1>10. CASE FlushOnly(s)
  <2>1. /\ timeInvalid' = timeInvalid /\ NumKeys[f[1]] = 0 /\ DOMAIN table' = DOMAIN table
        /\ s \in DOMAIN table => table' = [table EXCEPT ![s].value = NoValue]
        /\ s \notin DOMAIN table => table' = table
    BY <1>2, <1>10 DEF FlushOnly
  <2>2. s # q
    <3>1. s = q => table'[q].value = NoValue
      <4>1. q \in DOMAIN table /\ table[q] \in Entries
        BY <1>2, <1>6 DEF TablesOK
      <4> QED
        BY <2>1, <4>1 DEF Entries
    <3> QED
      BY <1>6, <3>1 DEF Filled
  <2>3. \A t \in Path(q) : table'[t].timeInvalid = table[t].timeInvalid
    BY <1>6, <2>1 DEF TablesOK, Entries
  <2>4. Valid(q)
    BY <1>6, <1>8, <2>1, <2>3, FoundBefore
  <2>5. ~Matches(q, f)
    <3>1. n = 0 /\ n = NumKeys[f[1]]
      BY <1>2, <2>1, <1>1
    <3>2. Matches(q, f) => First(q[1]) = 0
      BY <2>1 DEF Matches, First
    <3> QED
      BY <1>3, <1>4, <2>2, <3>1, <3>2
  <2> QED
    BY <2>4, <2>5
<1>11. CASE FlushBehind(s, n)
  <2>1. /\ n < NumKeys[s[1]]
        /\ timeInvalid' = IF n = 0 THEN [timeInvalid EXCEPT ![s[1]] = timeNow[s[1]]] ELSE timeInvalid
        /\ table' = IF n # 0 /\ s \in DOMAIN table
                    THEN [table EXCEPT ![s].timeInvalid = timeNow[s[1]]] ELSE table
    BY <1>11 DEF FlushBehind
  <2>2. timeInvalid'[q[1]] = timeInvalid[q[1]] /\ (n = 0 => q[1] # f[1])
    <3>1. n = 0 /\ q[1] = f[1] => timeInvalid'[q[1]] = timeNow[q[1]]
      BY <1>2, <2>1 DEF TablesOK
    <3>2. ~(n = 0 /\ q[1] = f[1])
      BY <1>8, <1>9, <3>1
    <3> QED
      BY <1>2, <2>1, <3>2 DEF TablesOK
  <2>3. s \in Path(q) => n = 0
    <3>1. s \in Path(q) /\ n # 0 => table'[s].timeInvalid = timeNow[q[1]]
      BY <1>2, <1>6, <2>1 DEF TablesOK, Entries
    <3> QED
      BY <1>8, <1>9, <3>1
  <2>4. \A t \in Path(q) : table'[t].timeInvalid = table[t].timeInvalid
    BY <1>6, <2>1, <2>3 DEF TablesOK, Entries
  <2>5. Valid(q)
    BY <1>6, <1>8, <2>2, <2>4, FoundBefore
  <2>6. ~Matches(q, f)
    <3>1. Matches(q, f) => q[1] = f[1] /\ First(q[1]) \in 0 .. 1
      BY DEF Matches, First
    <3> QED
      BY <1>2, <1>3, <2>2, <2>3, <3>1
  <2> QED
    BY <2>5, <2>6
<1>12. CASE FlushEntry(s, n)
  <2>1. /\ timeInvalid' = timeInvalid /\ n = NumKeys[f[1]] /\ n # 0
        /\ s \in DOMAIN table => table' = Without(table, s)
        /\ s \notin DOMAIN table => table' = table
    BY <1>2, <1>12 DEF FlushEntry
  <2>2. s \notin DOMAIN table' /\ \A t \in DOMAIN table' : table'[t] = table[t]
    BY <2>1 DEF Without
  <2>3. s # q
    BY <1>2, <1>6, <2>2
  <2>4. Valid(q)
    BY <1>6, <1>8, <2>1, <2>2, FoundBefore
  <2>5. ~Matches(q, f)
    <3>1. Matches(q, f) => q[1] = f[1] /\ First(q[1]) \in 0 .. 1
      BY DEF Matches, First
    <3> QED
      BY <1>2, <1>3, <1>4, <2>1, <2>3, <3>1
  <2> QED
    BY <2>4, <2>5
<1> QED
  BY <1>5, <1>10, <1>11, <1>12

-----------------------------------------------------------------------------
(***************************************************************************)
(* What a store, the commit of a store and all else do to values.          *)
(***************************************************************************)
LEMMA StoreMemory ==
    ASSUME TypeOK, NEW w \in Workers, OwnPage(w), store(w)
    PROVE  LET u == [query |-> ctx[w].query, value |-> Place]
               L == Len(ctx[w].cacheUpdate)
           IN /\ UNCHANGED <<table, timeInvalid, timeNow>>
              /\ DOMAIN memory' = DOMAIN memory \cup {Place}
              /\ \A i \in DOMAIN memory : memory'[i] = memory[i]
              /\ memory'[Place].result = Finds(w, u.query)
              /\ Waiting(w)' = Waiting(w) \cup {L + 1} /\ L + 1 \notin Waiting(w)
              /\ \A n \in Waiting(w) : ctx'[w].cacheUpdate[n] = ctx[w].cacheUpdate[n]
              /\ ctx'[w].cacheUpdate[L + 1] = u
              /\ ctx'[w].written = ctx[w].written /\ ctx'[w].page = ctx[w].page
              /\ pc[w] = "miss" /\ pc'[w] = "body"
<1> DEFINE u == [query |-> ctx[w].query, value |-> Place]
           L == Len(ctx[w].cacheUpdate)
<1>1. /\ ctx[w] \in Contexts /\ ctx[w].cacheUpdate \in Seq(Update)
      /\ ctx[w].handled \in Nat /\ ctx[w].handled <= L
  BY FieldFacts DEF TypeOK, OwnPage
<1>2. Place \notin DOMAIN memory
  BY StoreFacts
<1>3. /\ ctx' = [ctx EXCEPT ![w].cacheUpdate = Append(@, u), ![w].query = NoQuery]
      /\ memory' = With(memory, Place, [result |-> Finds(w, u.query), timeValid |-> timeNow[ctx[w].query[1]]])
      /\ UNCHANGED <<table, timeInvalid, timeNow>>
      /\ pc' = [pc EXCEPT ![w] = "body"] /\ pc[w] = "miss"
  BY DEF store, Goto
<1> HIDE DEF u
<1>4. /\ ctx'[w].cacheUpdate = Append(ctx[w].cacheUpdate, u) /\ ctx'[w].handled = ctx[w].handled
      /\ ctx'[w].written = ctx[w].written /\ ctx'[w].page = ctx[w].page
      /\ pc'[w] = "body"
  BY <1>1, <1>3 DEF TypeOK, Contexts
<1>5. /\ L \in Nat /\ Len(ctx'[w].cacheUpdate) = L + 1
      /\ \A n \in 1 .. L : ctx'[w].cacheUpdate[n] = ctx[w].cacheUpdate[n]
      /\ ctx'[w].cacheUpdate[L + 1] = u
  BY <1>1, <1>4
<1>6. /\ Waiting(w) = ctx[w].handled + 1 .. L /\ Waiting(w) \subseteq 1 .. L
      /\ Waiting(w)' = ctx[w].handled + 1 .. L + 1
  BY <1>1, <1>4, <1>5 DEF Waiting
<1>7. Waiting(w)' = Waiting(w) \cup {L + 1} /\ L + 1 \notin Waiting(w)
  BY <1>1, <1>5, <1>6
<1>8. /\ DOMAIN memory' = DOMAIN memory \cup {Place}
      /\ \A i \in DOMAIN memory : memory'[i] = memory[i]
      /\ memory'[Place].result = Finds(w, u.query)
  BY <1>2, <1>3 DEF With
<1> QED
  BY <1>3, <1>4, <1>5, <1>6, <1>7, <1>8 DEF u

\* The update that is committed next.
Next1(w) == ctx[w].handled + 1

LEMMA NextUpdate ==
    ASSUME TypeOK, NEW w \in Workers, OwnPage(w), storeCommitOne(w)
    PROVE  /\ Next1(w) \in Waiting(w)
           /\ Waiting(w) \subseteq 1 .. Len(ctx[w].cacheUpdate)
           /\ Waiting(w)' = Waiting(w) \ {Next1(w)}
           /\ ctx'[w].cacheUpdate = ctx[w].cacheUpdate
           /\ ctx'[w].written = ctx[w].written /\ ctx'[w].page = ctx[w].page
           /\ ctx[w].cacheUpdate[Next1(w)].query \in Queries
           /\ ctx[w].cacheUpdate[Next1(w)].query \in ctx[w].page.reads
           /\ Queued(w, Next1(w)) \in Ids
           /\ pc[w] = "commit" /\ pc' = pc
<1> DEFINE L == Len(ctx[w].cacheUpdate)
<1>1. /\ ctx[w] \in Contexts /\ ctx[w].cacheUpdate \in Seq(Update)
      /\ ctx[w].handled \in Nat /\ L \in Nat
  BY FieldFacts DEF TypeOK
<1>2. /\ ctx[w].handled < L /\ pc[w] = "commit" /\ pc' = pc
      /\ ctx' = [ctx EXCEPT ![w].handled = @ + 1]
  BY DEF storeCommitOne
<1>3. /\ ctx'[w].cacheUpdate = ctx[w].cacheUpdate /\ ctx'[w].handled = ctx[w].handled + 1
      /\ ctx'[w].written = ctx[w].written /\ ctx'[w].page = ctx[w].page
  BY <1>1, <1>2 DEF TypeOK, Contexts
<1>4. /\ Waiting(w) = ctx[w].handled + 1 .. L
      /\ Waiting(w)' = (ctx[w].handled + 1) + 1 .. L
  BY <1>3 DEF Waiting
<1>5. /\ Next1(w) \in 1 .. L /\ Next1(w) \in Waiting(w) /\ Waiting(w) \subseteq 1 .. L
      /\ Waiting(w)' = Waiting(w) \ {Next1(w)}
  BY <1>1, <1>2, <1>4 DEF Next1
<1> QED
  BY <1>2, <1>3, <1>5, UpdateFacts DEF OwnPage

LEMMA CommitMemory ==
    ASSUME TypeOK, ValuesOwned, NEW w \in Workers, OwnPage(w), storeCommitOne(w)
    PROVE  LET q == ctx[w].cacheUpdate[Next1(w)].query
               i == Queued(w, Next1(w))
           IN /\ DOMAIN table' = DOMAIN table \cup Path(q)
              /\ \A s \in DOMAIN table : table'[s].timeInvalid = table[s].timeInvalid
              /\ \A s \in DOMAIN table \ {q} : table'[s] = table[s]
              /\ \A s \in Path(q) \ (DOMAIN table \cup {q}) : s \notin Filled'
              /\ timeInvalid' = timeInvalid
              /\ \A c \in Caches : timeNow[c] <= timeNow'[c]
              /\ \A j \in DOMAIN memory' : j # i => memory'[j] = memory[j]
              /\ i \in DOMAIN memory' /\ memory'[i].result = memory[i].result
              /\ DOMAIN memory' \subseteq DOMAIN memory
              /\ \/ /\ q \in Filled' /\ table'[q].value = i
                    /\ memory'[i].timeValid <= timeNow'[q[1]]
                    /\ \A j \in DOMAIN memory \ DOMAIN memory' : q \in Filled /\ table[q].value = j
                    /\ q \in Filled => table[q].value \notin DOMAIN memory'
                 \/ /\ Filled' = Filled /\ \A s \in Filled : table'[s] = table[s]
                    /\ memory' = memory
<1> DEFINE q == ctx[w].cacheUpdate[Next1(w)].query
           i == Queued(w, Next1(w))
           u == ctx[w].cacheUpdate[Next1(w)]
           t == WithPath(q)
<1>1. /\ q \in Queries /\ i \in Ids /\ i \in DOMAIN memory
      /\ \A s \in Filled : table[s].value # i
  BY NextUpdate DEF ValuesOwned
<1>2. q \in Path(q) /\ q[1] \in Caches /\ i # NoValue
  BY <1>1, PathFacts, QueryFacts, CachesAssumption
<1>3. /\ table \in [DOMAIN table -> Entries] /\ memory \in [DOMAIN memory -> Values]
      /\ timeNow \in [Caches -> Nat] /\ NoValue \notin DOMAIN memory
  BY CachesAssumption DEF TypeOK, TablesOK
<1>4. /\ timeNow' = [timeNow EXCEPT ![q[1]] = @ + 1] /\ timeInvalid' = timeInvalid
      /\ IF Newer(t[q], u)
         THEN /\ table' = [t EXCEPT ![q].value = i]
              /\ memory' = [Without(memory, t[q].value) EXCEPT ![i].timeValid = timeNow[q[1]]]
         ELSE table' = t /\ memory' = memory
  BY DEF storeCommitOne, Next1, Queued
<1>5. /\ DOMAIN t = DOMAIN table \cup Path(q)
      /\ \A s \in DOMAIN table : t[s] = table[s]
      /\ \A s \in Path(q) \ DOMAIN table : t[s] = [value |-> NoValue, timeInvalid |-> 0]
      /\ t \in [DOMAIN t -> Entries]
  BY <1>3 DEF WithPath, NewEntry, Entries
<1> HIDE DEF t, q, i, u
<1>6. timeNow'[q[1]] = timeNow[q[1]] + 1 /\ \A c \in Caches : timeNow[c] <= timeNow'[c]
  BY <1>2, <1>3, <1>4
<1>7. t[q].value \in DOMAIN memory => q \in Filled /\ table[q].value = t[q].value
  BY <1>2, <1>3, <1>5 DEF Filled
<1>8. CASE Newer(t[q], u)
  <2>1. /\ table' = [t EXCEPT ![q].value = i]
        /\ memory' = [Without(memory, t[q].value) EXCEPT ![i].timeValid = timeNow[q[1]]]
    BY <1>4, <1>8
  <2>2. /\ DOMAIN table' = DOMAIN t /\ table'[q].value = i
        /\ table'[q].timeInvalid = t[q].timeInvalid
        /\ \A s \in DOMAIN t \ {q} : table'[s] = t[s]
    BY <1>2, <1>5, <2>1 DEF Entries
  <2>3. i # t[q].value
    <3>1. i = t[q].value => q \in Filled /\ table[q].value = i
      BY <1>1, <1>7
    <3> QED
      BY <1>1, <3>1
  <2>4. /\ DOMAIN Without(memory, t[q].value) = DOMAIN memory \ {t[q].value}
        /\ \A j \in DOMAIN memory \ {t[q].value} : Without(memory, t[q].value)[j] = memory[j]
    BY DEF Without
  <2>5. /\ DOMAIN memory' = DOMAIN memory \ {t[q].value}
        /\ \A j \in DOMAIN memory' : j # i => memory'[j] = memory[j]
        /\ memory'[i] = [memory[i] EXCEPT !.timeValid = timeNow[q[1]]]
    BY <1>1, <2>1, <2>3, <2>4
  <2>6. /\ memory'[i].result = memory[i].result /\ memory'[i].timeValid = timeNow[q[1]]
        /\ i \in DOMAIN memory'
    BY <1>1, <1>3, <2>3, <2>5 DEF Values
  <2>7. memory'[i].timeValid <= timeNow'[q[1]]
    BY <1>2, <1>3, <1>6, <2>6
  <2>8. q \in Filled' /\ \A s \in Path(q) \ (DOMAIN table \cup {q}) : s \notin Filled'
    BY <1>2, <1>5, <2>2 DEF Filled
  <2>9. \A s \in DOMAIN table : table'[s].timeInvalid = table[s].timeInvalid
    BY <1>5, <2>2
  <2>10. \A j \in DOMAIN memory \ DOMAIN memory' : q \in Filled /\ table[q].value = j
    BY <1>7, <2>5
  <2>11. /\ DOMAIN table' = DOMAIN table \cup Path(q)
         /\ \A s \in DOMAIN table \ {q} : table'[s] = table[s]
    BY <1>5, <2>2
  <2>12. q \in Filled => table[q].value \notin DOMAIN memory'
    BY <1>5, <2>5 DEF Filled
  <2> QED
    BY <1>4, <1>6, <2>2, <2>5, <2>6, <2>7, <2>8, <2>9, <2>10, <2>11, <2>12 DEF q, i
<1>9. CASE ~Newer(t[q], u)
  <2>1. table' = t /\ memory' = memory
    BY <1>4, <1>9
  <2>2. Filled' = Filled /\ \A s \in Filled : table'[s] = table[s]
    BY <1>5, <2>1 DEF Filled
  <2>3. \A s \in Path(q) \ (DOMAIN table \cup {q}) : s \notin Filled'
    BY <2>2 DEF Filled
  <2>4. /\ DOMAIN table' = DOMAIN table \cup Path(q)
        /\ \A s \in DOMAIN table : table'[s] = table[s]
    BY <1>5, <2>1
  <2> QED
    BY <1>1, <1>4, <1>6, <2>1, <2>2, <2>3, <2>4 DEF q, i
<1> QED
  BY <1>8, <1>9

\* All other steps leave the tables alone and queue nothing.
LEMMA QuietStep ==
    ASSUME TypeOK, NEW w \in Workers, Begin(w) \/ Step(w),
           ~store(w), ~flush(w), ~storeCommitOne(w)
    PROVE  /\ UNCHANGED <<table, timeInvalid, timeNow, memory>>
           /\ \A v \in Workers :
                /\ Waiting(v)' \subseteq Waiting(v)
                /\ \A n \in Waiting(v)' : ctx'[v].cacheUpdate[n] = ctx[v].cacheUpdate[n]
<1> USE DEF TypeOK
<1>1. ctx[w] \in Contexts
  OBVIOUS
<1>2. UNCHANGED <<table, timeInvalid, timeNow, memory>>
  BY DEF Step, Begin, rlock, wlock, Locked, LocksTaken, check, Hit, StartDml, Dml, db_commit,
         GivesUp, Committed, Unlock, Ended, tables
<1>3. \/ ctx'[w].cacheUpdate = ctx[w].cacheUpdate /\ ctx'[w].handled = ctx[w].handled
      \/ ctx'[w].cacheUpdate = <<>> /\ ctx'[w].handled = 0
  <2>1. CASE Begin(w)
    <3>1. PICK page \in Pages : ctx' = [ctx EXCEPT ![w].page = page, ![w].locks = Locks(page)]
      BY <2>1 DEF Begin
    <3> QED
      BY <1>1, <3>1 DEF Contexts
  <2>2. CASE rlock(w) \/ wlock(w)
    <3>1. PICK c \in Caches, mode \in {"r", "w"} : Locked(w, c, mode)
      BY <2>2 DEF rlock, wlock
    <3> QED
      BY <1>1, <3>1 DEF Locked, Contexts
  <2>3. CASE LocksTaken(w) \/ Committed(w) \/ GivesUp(w) \/ db_commit(w)
    BY <2>3 DEF LocksTaken, Committed, GivesUp, db_commit
  <2>4. CASE check(w)
    <3>1. PICK q \in ctx[w].page.reads :
            ctx' = [ctx EXCEPT ![w].query = q, ![w].ops = @ + 1,
                               ![w].hit = IF Valid(q) THEN table[q].value ELSE NoValue]
      BY <2>4 DEF check
    <3> DEFINE h == IF Valid(q) THEN table[q].value ELSE NoValue
    <3> HIDE DEF h
    <3>2. ctx' = [ctx EXCEPT ![w].query = q, ![w].ops = @ + 1, ![w].hit = h]
      BY <3>1 DEF h
    <3> QED
      BY <1>1, <3>2 DEF Contexts
  <2>5. CASE Hit(w)
    BY <1>1, <2>5 DEF Hit, Contexts
  <2>6. CASE StartDml(w)
    BY <1>1, <2>6 DEF StartDml, Contexts
  <2>7. CASE Dml(w)
    BY <1>1, <2>7 DEF Dml, Contexts
  <2>8. CASE Unlock(w)
    BY <1>1, <2>8 DEF Unlock, Contexts
  <2>9. CASE Ended(w)
    BY <1>1, <2>9 DEF Ended, Idle
  <2> QED
    BY <2>1, <2>2, <2>3, <2>4, <2>5, <2>6, <2>7, <2>8, <2>9 DEF Step
<1>4. ASSUME NEW v \in Workers
      PROVE  /\ Waiting(v)' \subseteq Waiting(v)
             /\ \A n \in Waiting(v)' : ctx'[v].cacheUpdate[n] = ctx[v].cacheUpdate[n]
  <2>1. \/ ctx'[v].cacheUpdate = ctx[v].cacheUpdate /\ ctx'[v].handled = ctx[v].handled
        \/ ctx'[v].cacheUpdate = <<>> /\ ctx'[v].handled = 0
    BY <1>3, OthersStay
  <2>2. CASE ctx'[v].cacheUpdate = <<>> /\ ctx'[v].handled = 0
    <3>1. Waiting(v)' = 0 + 1 .. 0
      BY <2>2 DEF Waiting
    <3> QED
      BY <3>1
  <2> QED
    BY <2>1, <2>2 DEF Waiting
<1> QED
  BY <1>2, <1>4

\* A hit begins with a check and ends with its use.
LEMMA HitStep ==
    ASSUME TypeOK, NEW w \in Workers, Begin(w) \/ Step(w), NEW v \in Workers, pc'[v] = "hit"
    PROVE  \/ /\ pc[v] = "hit" /\ ctx'[v] = ctx[v] /\ v # w
           \/ /\ v = w /\ check(w) /\ Valid(ctx'[v].query)
              /\ ctx'[v].hit = table[ctx'[v].query].value
              /\ ctx'[v].query \in ctx[v].page.reads
              /\ ctx'[v].page = ctx[v].page /\ ctx'[v].written = ctx[v].written
              /\ pc[v] = "body"
<1> USE DEF TypeOK
<1>1. CASE v # w
  BY <1>1, OthersStay
<1>2. CASE v = w
  <2>1. check(w)
    <3>1. pc[w] # "hit" \/ Hit(w)
      BY DEF Begin, Step, rlock, wlock, LocksTaken, check, Hit, store, StartDml, flush, Dml,
             db_commit, GivesUp, storeCommitOne, Committed, Unlock, Ended
    <3>2. ~Hit(w)
      BY <1>2 DEF Hit, Goto
    <3>3. ~rlock(w) /\ ~wlock(w) /\ ~flush(w) /\ ~storeCommitOne(w) /\ ~Unlock(w)
      BY <1>2, <3>1, <3>2 DEF rlock, wlock, Locked, flush, storeCommitOne, Unlock
    <3>4. /\ ~Begin(w) /\ ~LocksTaken(w) /\ ~store(w) /\ ~StartDml(w) /\ ~Dml(w)
          /\ ~db_commit(w) /\ ~GivesUp(w) /\ ~Committed(w) /\ ~Ended(w)
      BY <1>2 DEF Begin, LocksTaken, store, StartDml, Dml, db_commit, GivesUp, Committed, Ended, Goto
    <3> QED
      BY <3>2, <3>3, <3>4 DEF Step
  <2>2. PICK q \in ctx[w].page.reads :
          /\ ctx' = [ctx EXCEPT ![w].query = q, ![w].ops = @ + 1,
                               ![w].hit = IF Valid(q) THEN table[q].value ELSE NoValue]
          /\ pc' = [pc EXCEPT ![w] = IF Valid(q) THEN "hit" ELSE "miss"]
          /\ pc[w] = "body"
    BY <2>1 DEF check, Goto
  <2>3. Valid(q)
    BY <1>2, <2>2
  <2>4. ctx' = [ctx EXCEPT ![w].query = q, ![w].ops = @ + 1, ![w].hit = table[q].value]
    BY <2>2, <2>3
  <2>5. /\ ctx'[w].query = q /\ ctx'[w].hit = table[q].value
        /\ ctx'[w].page = ctx[w].page /\ ctx'[w].written = ctx[w].written
    BY <2>4 DEF Contexts
  <2> QED
    BY <1>2, <2>1, <2>2, <2>3, <2>5
<1> QED
  BY <1>1, <1>2

-----------------------------------------------------------------------------
(***************************************************************************)
(* Values keep their owners.                                               *)
(***************************************************************************)
LEMMA OwnedStep ==
    ASSUME TypeOK, Locking, Keeping, NEW w \in Workers, Begin(w) \/ Step(w)
    PROVE  ValuesOwned'
<1>1. ValuesOwned /\ TablesOK /\ OwnPage(w)
  BY DEF Keeping, Locking, TypeOK
<1>2. \A v \in Workers : v # w => ctx'[v] = ctx[v]
  BY OthersStay
<1>3. CASE ~store(w) /\ ~flush(w) /\ ~storeCommitOne(w)
  <2>1. table' = table /\ memory' = memory
    BY <1>3, QuietStep
  <2>2. \A v \in Workers : /\ Waiting(v)' \subseteq Waiting(v)
                           /\ \A n \in Waiting(v)' : Queued(v, n)' = Queued(v, n)
    BY <1>3, QuietStep DEF Queued
  <2> QED
    BY <1>1, <2>1, <2>2 DEF ValuesOwned, Filled
<1>4. CASE store(w)
  <2> DEFINE u == [query |-> ctx[w].query, value |-> Place]
             L == Len(ctx[w].cacheUpdate)
  <2>1. /\ table' = table /\ DOMAIN memory' = DOMAIN memory \cup {Place}
        /\ Waiting(w)' = Waiting(w) \cup {L + 1} /\ L + 1 \notin Waiting(w)
        /\ \A n \in Waiting(w) : ctx'[w].cacheUpdate[n] = ctx[w].cacheUpdate[n]
        /\ ctx'[w].cacheUpdate[L + 1] = u
    BY <1>1, <1>4, StoreMemory
  <2>2. Place \notin DOMAIN memory
    BY <1>1, <1>4, StoreFacts
  <2>3. /\ \A n \in Waiting(w) : Queued(w, n)' = Queued(w, n)
        /\ \A n : n = L + 1 => Queued(w, n)' = Place
    BY <2>1 DEF Queued
  <2>4. \A v \in Workers : v # w => /\ Waiting(v)' = Waiting(v)
                                    /\ \A n \in Waiting(v) : Queued(v, n)' = Queued(v, n)
    BY <1>2 DEF Waiting, Queued
  <2> HIDE DEF u, L
  <2>5. ASSUME NEW v \in Workers, NEW n \in Waiting(v)'
        PROVE  \/ n \in Waiting(v) /\ Queued(v, n)' = Queued(v, n) /\ Queued(v, n) \in DOMAIN memory
               \/ v = w /\ n = L + 1 /\ Queued(v, n)' = Place
    BY <1>1, <2>1, <2>3, <2>4 DEF ValuesOwned
  <2>6. /\ \A s \in Filled' : table'[s].value \in DOMAIN memory'
        /\ \A s, t \in Filled' : s # t => table'[s].value # table'[t].value
    BY <1>1, <2>1 DEF ValuesOwned, Filled
  <2>7. ASSUME NEW v \in Workers, NEW n \in Waiting(v)'
        PROVE  /\ Queued(v, n)' \in DOMAIN memory'
               /\ \A s \in Filled' : table'[s].value # Queued(v, n)'
    BY <1>1, <2>1, <2>2, <2>5 DEF ValuesOwned, Filled
  <2>8. ASSUME NEW v \in Workers, NEW n \in Waiting(v)', NEW x \in Workers, NEW m \in Waiting(x)',
               x # v \/ m # n
        PROVE  Queued(x, m)' # Queued(v, n)'
    BY <1>1, <2>2, <2>5, <2>8 DEF ValuesOwned
  <2> QED
    BY <2>6, <2>7, <2>8 DEF ValuesOwned
<1>5. CASE flush(w)
  <2>1. PICK f \in Flushes : FlushOne(f) /\ ctx' = [ctx EXCEPT ![w].flushes = @ \ {f}]
    BY <1>5, FieldFacts DEF flush, TypeOK
  <2>2. \A v \in Workers : /\ Waiting(v)' = Waiting(v)
                           /\ \A n \in Waiting(v) : Queued(v, n)' = Queued(v, n)
    <3>1. \A v \in Workers : /\ ctx'[v].cacheUpdate = ctx[v].cacheUpdate
                             /\ ctx'[v].handled = ctx[v].handled
      BY <2>1 DEF TypeOK, Contexts
    <3> QED
      BY <3>1 DEF Waiting, Queued
  <2>3. /\ \A s \in Filled' : s \in Filled /\ table'[s].value = table[s].value
        /\ \A i \in DOMAIN memory \ DOMAIN memory' :
             \E s \in Filled \ Filled' : s[1] = f[1] /\ table[s].value = i
    BY <1>1, <2>1, FlushMemory
  <2>4. \A s \in Filled' : table'[s].value \in DOMAIN memory'
    BY <1>1, <2>3 DEF ValuesOwned
  <2>5. \A v \in Workers : \A n \in Waiting(v) : Queued(v, n) \in DOMAIN memory'
    BY <1>1, <2>3 DEF ValuesOwned
  <2> QED
    BY <1>1, <2>2, <2>3, <2>4, <2>5 DEF ValuesOwned
<1>6. CASE storeCommitOne(w)
  <2> DEFINE k == Next1(w)
             q == ctx[w].cacheUpdate[k].query
             i == Queued(w, k)
  <2>1. k \in Waiting(w) /\ Waiting(w)' = Waiting(w) \ {k} /\ ctx'[w].cacheUpdate = ctx[w].cacheUpdate
    BY <1>1, <1>6, NextUpdate
  <2>2. \A v \in Workers : /\ Waiting(v)' = Waiting(v) \ (IF v = w THEN {k} ELSE {})
                           /\ \A n \in Waiting(v) : Queued(v, n)' = Queued(v, n)
    BY <1>2, <2>1 DEF Waiting, Queued
  <2>3. /\ DOMAIN table' = DOMAIN table \cup Path(q)
        /\ \A s \in DOMAIN table \ {q} : table'[s] = table[s]
        /\ \A s \in Path(q) \ (DOMAIN table \cup {q}) : s \notin Filled'
        /\ DOMAIN memory' \subseteq DOMAIN memory /\ i \in DOMAIN memory'
        /\ \/ /\ q \in Filled' /\ table'[q].value = i
              /\ \A j \in DOMAIN memory \ DOMAIN memory' : q \in Filled /\ table[q].value = j
           \/ /\ Filled' = Filled /\ \A s \in Filled : table'[s] = table[s]
              /\ memory' = memory
    BY <1>1, <1>6, CommitMemory
  <2> HIDE DEF k, q, i
  <2>4. /\ \A s \in Filled : table[s].value # i /\ table[s].value \in DOMAIN memory
        /\ \A v \in Workers : \A n \in Waiting(v)' :
             Queued(v, n)' = Queued(v, n) /\ Queued(v, n) # i /\ Queued(v, n) \in DOMAIN memory
    BY <1>1, <2>1, <2>2 DEF ValuesOwned, i
  <2>5. CASE /\ q \in Filled' /\ table'[q].value = i
             /\ \A j \in DOMAIN memory \ DOMAIN memory' : q \in Filled /\ table[q].value = j
    <3>1. \A s \in Filled' \ {q} : s \in Filled /\ table'[s].value = table[s].value
      BY <2>3 DEF Filled
    <3>2. \A s \in Filled' \ {q} : table[s].value \in DOMAIN memory'
      BY <1>1, <2>5, <3>1 DEF ValuesOwned
    <3>3. \A v \in Workers : \A n \in Waiting(v)' : Queued(v, n) \in DOMAIN memory'
      BY <1>1, <2>2, <2>5 DEF ValuesOwned
    <3>4. /\ \A s \in Filled' : table'[s].value \in DOMAIN memory'
          /\ \A s, t \in Filled' : s # t => table'[s].value # table'[t].value
      BY <1>1, <2>3, <2>4, <2>5, <3>1, <3>2 DEF ValuesOwned
    <3>5. ASSUME NEW v \in Workers, NEW n \in Waiting(v)', NEW s \in Filled'
          PROVE  table'[s].value # Queued(v, n)'
      BY <1>1, <2>2, <2>4, <2>5, <3>1 DEF ValuesOwned
    <3>6. ASSUME NEW v \in Workers, NEW n \in Waiting(v)', NEW x \in Workers, NEW m \in Waiting(x)',
                 x # v \/ m # n
          PROVE  Queued(x, m)' # Queued(v, n)'
      BY <1>1, <2>2, <2>4, <3>6 DEF ValuesOwned
    <3> QED
      BY <2>4, <3>3, <3>4, <3>5, <3>6 DEF ValuesOwned
  <2>6. CASE Filled' = Filled /\ (\A s \in Filled : table'[s] = table[s]) /\ memory' = memory
    BY <1>1, <2>2, <2>6 DEF ValuesOwned
  <2> QED
    BY <2>3, <2>5, <2>6
<1> QED
  BY <1>3, <1>4, <1>5, <1>6

LEMMA KeepingStep ==
    ASSUME TypeOK, Locking, Keeping, NEW w \in Workers, Begin(w) \/ Step(w)
    PROVE  Keeping'
<1>1. /\ TablesOK /\ OwnPage(w) /\ WholePaths /\ ClockAhead /\ ValuesOwned /\ HitInPlace
  BY DEF Keeping, Locking, TypeOK
<1>2. \A v \in Workers : pc'[v] = "hit" =>
        \/ pc[v] = "hit" /\ ctx'[v] = ctx[v] /\ v # w
        \/ /\ check(w) /\ Valid(ctx'[v].query) /\ ctx'[v].hit = table[ctx'[v].query].value
           /\ ctx'[v].query \in Queries
  <2>1. \A v \in Workers : ctx[v].page.reads \subseteq Queries
    BY FieldFacts, PageFacts DEF TypeOK
  <2> QED
    BY <2>1, HitStep
<1>3. CASE ~store(w) /\ ~flush(w) /\ ~storeCommitOne(w)
  <2>1. table' = table /\ memory' = memory /\ timeNow' = timeNow
    BY <1>3, QuietStep
  <2>2. \A q \in Queries : Valid(q) => q \in Filled
    BY PathFacts DEF Valid, Filled
  <2>3. HitInPlace'
    BY <1>1, <1>2, <2>1, <2>2 DEF HitInPlace, Filled
  <2>4. WholePaths' /\ ClockAhead'
    BY <1>1, <2>1 DEF WholePaths, ClockAhead, Filled
  <2> QED
    BY <2>3, <2>4, OwnedStep DEF Keeping
<1>4. CASE store(w) \/ flush(w) \/ storeCommitOne(w)
  <2>1. \A v \in Workers : pc'[v] = "hit" => pc[v] = "hit" /\ ctx'[v] = ctx[v]
    <3>1. check(w) => pc[w] = "body" /\ pc'[w] \in {"hit", "miss"}
      BY DEF check, Goto, TypeOK
    <3>2. store(w) => pc[w] = "miss"
      BY DEF store
    <3>3. flush(w) => pc[w] = "flush"
      BY DEF flush
    <3>4. storeCommitOne(w) => pc[w] = "commit"
      BY DEF storeCommitOne
    <3> QED
      BY <1>2, <1>4, <3>1, <3>2, <3>3, <3>4
  <2>2. CASE store(w)
    <3>1. /\ table' = table /\ timeNow' = timeNow /\ DOMAIN memory' = DOMAIN memory \cup {Place}
          /\ \A i \in DOMAIN memory : memory'[i] = memory[i]
      BY <1>1, <2>2, StoreMemory
    <3>2. \A v \in Workers : ctx[v].hit # Place
      BY <1>1, <2>2, StoreFacts
    <3>3. HitInPlace'
      BY <1>1, <2>1, <3>1, <3>2 DEF HitInPlace, Filled
    <3>4. WholePaths' /\ ClockAhead'
      BY <1>1, <3>1 DEF WholePaths, ClockAhead, Filled, ValuesOwned
    <3> QED
      BY <3>3, <3>4, OwnedStep DEF Keeping
  <2>3. CASE flush(w)
    <3>1. PICK f \in Flushes : FlushOne(f)
      BY <2>3, FieldFacts DEF flush, TypeOK
    <3>2. /\ \A s \in Filled' : s \in Filled /\ table'[s].value = table[s].value
          /\ DOMAIN table' \subseteq DOMAIN table
          /\ DOMAIN memory' \subseteq DOMAIN memory
          /\ \A i \in DOMAIN memory' : memory'[i] = memory[i]
          /\ \A i \in DOMAIN memory \ DOMAIN memory' :
               \E s \in Filled \ Filled' : s[1] = f[1] /\ table[s].value = i
          /\ \A s \in Filled \ Filled' : table[s].value \notin DOMAIN memory'
          /\ \A c \in Caches : timeNow[c] <= timeNow'[c]
          /\ \A q \in Queries : q \in DOMAIN table' /\ Path(q) \subseteq DOMAIN table
                                  => Path(q) \subseteq DOMAIN table'
      BY <1>1, <3>1, FlushMemory
    <3>3. WholePaths'
      BY <1>1, <3>2 DEF WholePaths
    <3>4. ClockAhead'
      <4>1. ASSUME NEW s \in Filled'
            PROVE  memory'[table'[s].value].timeValid <= timeNow'[s[1]]
        <5>1. /\ s \in Filled /\ table'[s].value = table[s].value
              /\ memory'[table[s].value] = memory[table[s].value]
              /\ table[s].value \in DOMAIN memory
          BY <1>1, <3>2, OwnedStep DEF ValuesOwned
        <5>2. s[1] \in Caches
          <6>1. s \in Slots
            BY <1>1, <5>1 DEF Filled, TablesOK
          <6> QED
            BY <6>1 DEF Slots
        <5>3. /\ memory[table[s].value].timeValid \in Nat
              /\ timeNow[s[1]] \in Nat /\ timeNow'[s[1]] \in Nat
          <6>1. TablesOK'
            BY <1>1, <3>1, FlushTypes
          <6> QED
            BY <1>1, <5>1, <5>2, <6>1 DEF TablesOK, Values
        <5>4. memory[table[s].value].timeValid <= timeNow[s[1]] /\ timeNow[s[1]] <= timeNow'[s[1]]
          BY <1>1, <3>2, <5>1, <5>2 DEF ClockAhead
        <5> QED
          BY <5>1, <5>3, <5>4
      <4> QED
        BY <4>1 DEF ClockAhead
    <3>5. HitInPlace'
      <4>1. ASSUME NEW v \in Workers, pc'[v] = "hit", ctx'[v].hit \in DOMAIN memory'
            PROVE  ctx'[v].query \in Filled' /\ table'[ctx'[v].query].value = ctx'[v].hit
        <5>1. /\ ctx[v].hit \in DOMAIN memory' /\ ctx'[v] = ctx[v]
              /\ ctx[v].query \in Filled /\ table[ctx[v].query].value = ctx[v].hit
          BY <1>1, <2>1, <3>2, <4>1 DEF HitInPlace
        <5>2. ctx[v].query \in Filled'
          BY <3>2, <5>1
        <5> QED
          BY <3>2, <5>1, <5>2
      <4> QED
        BY <4>1 DEF HitInPlace
    <3> QED
      BY <3>3, <3>4, <3>5, OwnedStep DEF Keeping
  <2>4. CASE storeCommitOne(w)
    <3> DEFINE q == ctx[w].cacheUpdate[Next1(w)].query
               i == Queued(w, Next1(w))
    <3>1. /\ DOMAIN table' = DOMAIN table \cup Path(q)
          /\ \A s \in DOMAIN table \ {q} : table'[s] = table[s]
          /\ \A s \in Path(q) \ (DOMAIN table \cup {q}) : s \notin Filled'
          /\ \A c \in Caches : timeNow[c] <= timeNow'[c]
          /\ \A j \in DOMAIN memory' : j # i => memory'[j] = memory[j]
          /\ DOMAIN memory' \subseteq DOMAIN memory /\ i \in DOMAIN memory'
          /\ \/ /\ q \in Filled' /\ table'[q].value = i
                /\ memory'[i].timeValid <= timeNow'[q[1]]
                /\ q \in Filled => table[q].value \notin DOMAIN memory'
             \/ /\ Filled' = Filled /\ \A s \in Filled : table'[s] = table[s]
                /\ memory' = memory
      BY <1>1, <2>4, CommitMemory
    <3>2. /\ q \in Queries /\ \A s \in Filled : table[s].value # i
      BY <1>1, <2>4, NextUpdate DEF ValuesOwned
    <3> HIDE DEF q, i
    <3>3. WholePaths'
      BY <1>1, <3>1, <3>2, LeafIsOwn DEF WholePaths
    <3>4. ClockAhead'
      <4>1. ASSUME NEW s \in Filled'
            PROVE  memory'[table'[s].value].timeValid <= timeNow'[s[1]]
        <5>1. CASE s = q /\ table'[q].value = i /\ memory'[i].timeValid <= timeNow'[q[1]]
          BY <5>1
        <5>2. CASE s \in Filled /\ table'[s].value = table[s].value
          <6>1. s \in Slots /\ table[s].value \in DOMAIN memory'
            BY <1>1, <4>1, <5>2, OwnedStep DEF Filled, TablesOK, ValuesOwned
          <6>2. s[1] \in Caches
            BY <6>1 DEF Slots
          <6>3. memory'[table[s].value] = memory[table[s].value] /\ table[s].value \in DOMAIN memory
            BY <3>1, <3>2, <5>2, <6>1
          <6>4. /\ memory[table[s].value].timeValid \in Nat
                /\ timeNow[s[1]] \in Nat /\ timeNow'[s[1]] \in Nat
            <7>1. TablesOK'
              BY <2>4, CommitTypes
            <7> QED
              BY <1>1, <6>2, <6>3, <7>1 DEF TablesOK, Values
          <6>5. memory[table[s].value].timeValid <= timeNow[s[1]] /\ timeNow[s[1]] <= timeNow'[s[1]]
            BY <1>1, <3>1, <5>2, <6>2 DEF ClockAhead
          <6> QED
            BY <5>2, <6>3, <6>4, <6>5
        <5> QED
          BY <3>1, <4>1, <5>1, <5>2 DEF Filled
      <4> QED
        BY <4>1 DEF ClockAhead
    <3>5. HitInPlace'
      <4>1. ASSUME NEW v \in Workers, pc'[v] = "hit", ctx'[v].hit \in DOMAIN memory'
            PROVE  ctx'[v].query \in Filled' /\ table'[ctx'[v].query].value = ctx'[v].hit
        <5> DEFINE r == ctx[v].query
        <5>1. /\ ctx[v].hit \in DOMAIN memory' /\ ctx'[v] = ctx[v]
              /\ r \in Filled /\ table[r].value = ctx[v].hit
          BY <1>1, <2>1, <3>1, <4>1 DEF HitInPlace
        <5> HIDE DEF r
        <5>2. CASE Filled' = Filled /\ \A s \in Filled : table'[s] = table[s]
          BY <5>1, <5>2 DEF r
        <5>3. CASE q \in Filled => table[q].value \notin DOMAIN memory'
          <6>1. r # q
            BY <5>1, <5>3 DEF r
          <6> QED
            BY <3>1, <5>1, <6>1 DEF r, Filled
        <5> QED
          BY <3>1, <5>1, <5>2, <5>3
      <4> QED
        BY <4>1 DEF HitInPlace
    <3> QED
      BY <3>3, <3>4, <3>5, OwnedStep DEF Keeping
  <2> QED
    BY <1>4, <2>2, <2>3, <2>4
<1> QED
  BY <1>3, <1>4

-----------------------------------------------------------------------------
(***************************************************************************)
(* What is found is current, if pages do not change what they have read.   *)
(***************************************************************************)
\* While a page that flushes a cache runs, no other page has its lock.
LEMMA Apart ==
    ASSUME TypeOK, Locking, NEW v \in Workers, NEW w \in Workers, v # w,
           pc[v] \in Running, pc[w] \in Running, NEW c \in Flushed(ctx[v].page)
    PROVE  c \notin Locks(ctx[w].page)
<1>1. ctx[v].page \in Pages \cup {NoPage}
  BY FieldFacts DEF TypeOK
<1>2. c \in Caches /\ c \in Locks(ctx[v].page)
  BY <1>1, PageFacts DEF Locks
<1>3. LockFit(v) /\ LockFit(w) /\ WritersAlone
  BY DEF Locking
<1>4. lockOut[c][v] = "w"
  BY <1>2, <1>3 DEF LockFit
<1>5. lockOut[c][w] = "none"
  BY <1>2, <1>3, <1>4 DEF WritersAlone
<1> QED
  BY <1>2, <1>3, <1>5 DEF LockFit

\* A query of a page is under its locks.
LEMMA OwnLocked ==
    ASSUME TypeOK, NEW v \in Workers, NEW q \in ctx[v].page.reads
    PROVE  q \in Queries /\ q[1] \in Locks(ctx[v].page)
<1>1. ctx[v].page \in Pages \cup {NoPage}
  BY FieldFacts DEF TypeOK
<1> QED
  BY <1>1, PageFacts

\* A result is not altered, and a new value is at a place of its own.
LEMMA ResultsStay ==
    ASSUME TypeOK, Locking, Keeping, NEW w \in Workers, Begin(w) \/ Step(w)
    PROVE  /\ \A j \in DOMAIN memory : j \in DOMAIN memory' => memory'[j].result = memory[j].result
           /\ \A j \in DOMAIN memory' : j \in DOMAIN memory \/ (store(w) /\ j = Place)
<1>1. TablesOK /\ ValuesOwned /\ OwnPage(w)
  BY DEF TypeOK, Keeping, Locking
<1>2. CASE ~store(w) /\ ~flush(w) /\ ~storeCommitOne(w)
  BY <1>2, QuietStep
<1>3. CASE store(w)
  <2>1. /\ DOMAIN memory' = DOMAIN memory \cup {Place}
        /\ \A i \in DOMAIN memory : memory'[i] = memory[i]
    BY <1>1, <1>3, StoreMemory
  <2> QED
    BY <1>3, <2>1
<1>4. CASE flush(w)
  <2>1. PICK f \in Flushes : FlushOne(f)
    BY <1>4, FieldFacts DEF flush, TypeOK
  <2> QED
    BY <1>1, <2>1, FlushMemory
<1>5. CASE storeCommitOne(w)
  <2> DEFINE i == Queued(w, Next1(w))
  <2>1. /\ DOMAIN memory' \subseteq DOMAIN memory
        /\ \A j \in DOMAIN memory' : j # i => memory'[j] = memory[j]
        /\ memory'[i].result = memory[i].result
    BY <1>1, <1>5, CommitMemory
  <2> HIDE DEF i
  <2> QED
    BY <2>1
<1> QED
  BY <1>2, <1>3, <1>4, <1>5

\* What is found was found before, or its update is committed now.
LEMMA FoundStep ==
    ASSUME TypeOK, Locking, Keeping, NEW w \in Workers, Begin(w) \/ Step(w),
           NEW q \in Queries, Valid(q)'
    PROVE  \/ /\ Valid(q) /\ table'[q].value = table[q].value
              /\ table[q].value \in DOMAIN memory
              /\ memory'[table[q].value].result = memory[table[q].value].result
              /\ flush(w) => \A f \in ctx[w].flushes : f \notin ctx'[w].flushes => ~Matches(q, f)
           \/ /\ storeCommitOne(w) /\ q = ctx[w].cacheUpdate[Next1(w)].query
              /\ table'[q].value = Queued(w, Next1(w))
              /\ memory'[Queued(w, Next1(w))].result = memory[Queued(w, Next1(w))].result
<1>1. TablesOK /\ ValuesOwned /\ OwnPage(w) /\ WholePaths /\ ValuesOwned'
  BY OwnedStep DEF TypeOK, Keeping, Locking
<1>2. q \in Path(q) /\ q \in Filled' /\ Path(q) \subseteq DOMAIN table'
  BY PathFacts DEF Valid, Filled
<1>3. table'[q].value \in DOMAIN memory'
  BY <1>1, <1>2 DEF ValuesOwned
<1>4. CASE ~store(w) /\ ~flush(w) /\ ~storeCommitOne(w)
  <2>1. UNCHANGED <<table, timeInvalid, memory>>
    BY <1>4, QuietStep
  <2> QED
    BY <1>3, <1>4, <2>1 DEF Valid
<1>5. CASE store(w)
  <2>1. /\ table' = table /\ timeInvalid' = timeInvalid
        /\ \A i \in DOMAIN memory : memory'[i] = memory[i]
    BY <1>1, <1>5, StoreMemory
  <2>2. q \in Filled /\ table[q].value \in DOMAIN memory
    BY <1>1, <1>2, <2>1 DEF Filled, ValuesOwned
  <2>3. ~flush(w)
    BY <1>5 DEF store, flush
  <2> QED
    BY <2>1, <2>2, <2>3 DEF Valid
<1>6. CASE flush(w)
  <2>1. PICK f \in Flushes : FlushOne(f) /\ ctx' = [ctx EXCEPT ![w].flushes = @ \ {f}]
    BY <1>6, FieldFacts DEF flush, TypeOK
  <2>2. Valid(q) /\ ~Matches(q, f)
    BY <1>1, <2>1, FlushFound
  <2>3. /\ q \in Filled /\ table'[q].value = table[q].value
        /\ DOMAIN memory' \subseteq DOMAIN memory
        /\ \A i \in DOMAIN memory' : memory'[i] = memory[i]
    BY <1>1, <1>2, <2>1, FlushMemory
  <2>4. ctx'[w].flushes = ctx[w].flushes \ {f}
    BY <2>1 DEF TypeOK, Contexts
  <2> QED
    BY <1>3, <2>2, <2>3, <2>4
<1>7. CASE storeCommitOne(w)
  <2> DEFINE r == ctx[w].cacheUpdate[Next1(w)].query
             i == Queued(w, Next1(w))
  <2>1. /\ DOMAIN table' = DOMAIN table \cup Path(r)
        /\ \A s \in DOMAIN table : table'[s].timeInvalid = table[s].timeInvalid
        /\ \A s \in DOMAIN table \ {r} : table'[s] = table[s]
        /\ \A s \in Path(r) \ (DOMAIN table \cup {r}) : s \notin Filled'
        /\ timeInvalid' = timeInvalid
        /\ \A j \in DOMAIN memory' : j # i => memory'[j] = memory[j]
        /\ memory'[i].result = memory[i].result
        /\ DOMAIN memory' \subseteq DOMAIN memory
        /\ \/ table'[r].value = i
           \/ /\ Filled' = Filled /\ \A s \in Filled : table'[s] = table[s]
              /\ memory' = memory
    BY <1>1, <1>2, <1>7, CommitMemory
  <2>2. \A s \in Filled : table[s].value # i
    BY <1>1, <1>7, NextUpdate DEF ValuesOwned
  <2>3. ~flush(w)
    BY <1>7 DEF flush, storeCommitOne
  <2> HIDE DEF r, i
  <2>4. CASE q \in Filled /\ table'[q] = table[q]
    <3>1. /\ table[q].value # i /\ table[q].value \in DOMAIN memory'
          /\ memory'[table[q].value] = memory[table[q].value]
      BY <1>3, <2>1, <2>2, <2>4
    <3>2. Path(q) \subseteq DOMAIN table
      BY <1>1, <2>4 DEF WholePaths, Filled
    <3>3. Valid(q)
      BY <2>1, <2>4, <3>1, <3>2, FoundBefore
    <3> QED
      BY <2>1, <2>3, <2>4, <3>1, <3>3
  <2>5. CASE q = r /\ table'[r].value = i
    BY <1>7, <2>1, <2>5 DEF r, i
  <2> QED
    BY <1>2, <2>1, <2>4, <2>5 DEF Filled
<1> QED
  BY <1>4, <1>5, <1>6, <1>7

\* The database changes at a COMMIT, by what the page has written.
LEMMA DataStep ==
    ASSUME TypeOK, NEW w \in Workers, Begin(w) \/ Step(w), NEW q \in Queries
    PROVE  \/ data'[q] = data[q]
           \/ /\ db_commit(w) /\ pc[w] = "body"
              /\ ctx[w].written[q] # 0 /\ data'[q] = ctx[w].written[q]
<1>1. CASE db_commit(w)
  BY <1>1 DEF db_commit, Finds
<1>2. CASE ~db_commit(w)
  BY <1>2 DEF Begin, Step, rlock, wlock, Locked, LocksTaken, check, Hit, store, StartDml, flush,
              Dml, GivesUp, storeCommitOne, Committed, Unlock, Ended
<1> QED
  BY <1>1, <1>2

\* What another page finds stays as it is.
LEMMA FindsStay ==
    ASSUME TypeOK, Locking, NEW w \in Workers, Begin(w) \/ Step(w),
           NEW v \in Workers, v # w, pc[v] \in Running, NEW q \in ctx[v].page.reads
    PROVE  Finds(v, q)' = Finds(v, q)
<1>1. q \in Queries /\ q[1] \in Locks(ctx[v].page)
  BY OwnLocked
<1>2. ctx'[v] = ctx[v]
  BY OthersStay
<1>3. data'[q] = data[q]
  <2>1. ASSUME pc[w] = "body", ctx[w].written[q] # 0
        PROVE  FALSE
    <3>1. q[1] \in Flushed(ctx[w].page) /\ pc[w] \in Running
      BY <1>1, <2>1 DEF Locking, OwnPage, Running
    <3> QED
      BY <1>1, <3>1, Apart
  <2> QED
    BY <1>1, <2>1, DataStep
<1> QED
  BY <1>2, <1>3 DEF Finds

\* A page writes in an update only, and what it has written goes with its context.
LEMMA WrittenStep ==
    ASSUME TypeOK, NEW w \in Workers, Begin(w) \/ Step(w)
    PROVE  \/ ctx'[w].written = ctx[w].written /\ ~Dml(w)
           \/ /\ Dml(w) /\ pc[w] = "flush" /\ pc'[w] = "body" /\ ctx[w].flushes = {}
              /\ \A q \in Queries : ~Changed(ctx[w].dml, q) => ctx'[w].written[q] = ctx[w].written[q]
           \/ ctx'[w].written = [q \in Queries |-> 0] /\ pc'[w] = "idle"
<1> USE DEF TypeOK
<1>1. ctx[w] \in Contexts
  OBVIOUS
<1>2. CASE Begin(w)
  <2>1. PICK page \in Pages : ctx' = [ctx EXCEPT ![w].page = page, ![w].locks = Locks(page)]
    BY <1>2 DEF Begin
  <2>2. ~Dml(w)
    BY <1>2 DEF Begin, Dml
  <2> QED
    BY <1>1, <2>1, <2>2 DEF Contexts
<1>3. CASE rlock(w) \/ wlock(w)
  <2>1. PICK c \in Caches, mode \in {"r", "w"} : Locked(w, c, mode)
    BY <1>3 DEF rlock, wlock
  <2>2. ~Dml(w)
    BY <1>3 DEF rlock, wlock, Dml
  <2> QED
    BY <1>1, <2>1, <2>2 DEF Locked, Contexts
<1>4. CASE LocksTaken(w) \/ Committed(w) \/ GivesUp(w) \/ db_commit(w)
  <2>1. ctx' = ctx /\ pc'[w] \in {"body", "free", "commit"}
    BY <1>4 DEF LocksTaken, Committed, GivesUp, db_commit, Goto
  <2>2. ~Dml(w) \/ ctx'[w].written = ctx[w].written
    BY <2>1
  <2>3. Dml(w) => /\ pc[w] = "flush" /\ pc'[w] = "body" /\ ctx[w].flushes = {}
    BY DEF Dml, Goto
  <2> QED
    BY <2>1, <2>2, <2>3
<1>5. CASE check(w)
  <2>1. PICK q \in ctx[w].page.reads :
          ctx' = [ctx EXCEPT ![w].query = q, ![w].ops = @ + 1,
                             ![w].hit = IF Valid(q) THEN table[q].value ELSE NoValue]
    BY <1>5 DEF check
  <2> DEFINE h == IF Valid(q) THEN table[q].value ELSE NoValue
  <2> HIDE DEF h
  <2>2. ctx' = [ctx EXCEPT ![w].query = q, ![w].ops = @ + 1, ![w].hit = h]
    BY <2>1 DEF h
  <2>3. ~Dml(w)
    BY <1>5 DEF check, Dml
  <2> QED
    BY <1>1, <2>2, <2>3 DEF Contexts
<1>6. CASE Hit(w)
  BY <1>1, <1>6 DEF Hit, Dml, Contexts
<1>7. CASE store(w)
  BY <1>1, <1>7 DEF store, Dml, Contexts
<1>8. CASE StartDml(w)
  BY <1>1, <1>8 DEF StartDml, Dml, Contexts
<1>9. CASE flush(w)
  <2>1. ctx'[w].written = ctx[w].written
    BY <1>1, <1>9 DEF flush, Contexts
  <2>2. ~Dml(w)
    BY <1>9 DEF flush, Dml, Goto
  <2> QED
    BY <2>1, <2>2
<1>10. CASE Dml(w)
  <2>1. ctx'[w].written = [q \in Queries |-> IF Changed(ctx[w].dml, q) THEN version + 1
                                             ELSE ctx[w].written[q]]
    BY <1>1, <1>10 DEF Dml, Contexts
  <2> QED
    BY <1>10, <2>1 DEF Dml, Goto
<1>11. CASE storeCommitOne(w)
  <2>1. ctx'[w].written = ctx[w].written
    BY <1>1, <1>11 DEF storeCommitOne, Contexts
  <2> QED
    BY <1>11, <2>1 DEF storeCommitOne, Dml
<1>12. CASE Unlock(w)
  BY <1>1, <1>12 DEF Unlock, Dml, Contexts
<1>13. CASE Ended(w)
  BY <1>1, <1>13 DEF Ended, Goto, Idle
<1> QED
  BY <1>2, <1>3, <1>4, <1>5, <1>6, <1>7, <1>8, <1>9, <1>10, <1>11, <1>12, <1>13 DEF Step

\* Where a thread comes from.
LEMMA LineStep ==
    ASSUME TypeOK, NEW w \in Workers, Begin(w) \/ Step(w)
    PROVE  /\ pc'[w] \in {"body", "hit", "miss", "flush"}
                => pc[w] \in {"lock", "body", "hit", "miss", "flush"} /\ ~storeCommitOne(w) /\ ~db_commit(w)
           /\ pc'[w] = "commit" => db_commit(w) \/ storeCommitOne(w)
           /\ pc'[w] = "flush" => StartDml(w) \/ flush(w)
           /\ pc'[w] \in Running => pc[w] \in Running \cup {"lock"}
           /\ pc[w] = "lock" /\ pc'[w] \in Running => LocksTaken(w)
<1> USE DEF TypeOK, Running
<1>1. CASE Begin(w)
  BY <1>1 DEF Begin, Goto
<1>2. CASE rlock(w) \/ wlock(w)
  BY <1>2 DEF rlock, wlock, Locked
<1>3. CASE LocksTaken(w)
  BY <1>3 DEF LocksTaken, Goto, storeCommitOne, db_commit
<1>4. CASE check(w)
  BY <1>4 DEF check, Goto, storeCommitOne, db_commit
<1>5. CASE Hit(w) \/ store(w) \/ Dml(w)
  BY <1>5 DEF Hit, store, Dml, Goto, storeCommitOne, db_commit
<1>6. CASE StartDml(w)
  BY <1>6 DEF StartDml, Goto, storeCommitOne, db_commit
<1>7. CASE flush(w)
  BY <1>7 DEF flush, storeCommitOne, db_commit
<1>8. CASE db_commit(w)
  BY <1>8 DEF db_commit, Goto
<1>9. CASE GivesUp(w) \/ Committed(w) \/ Ended(w)
  BY <1>9 DEF GivesUp, Committed, Ended, Goto
<1>10. CASE storeCommitOne(w)
  BY <1>10 DEF storeCommitOne
<1>11. CASE Unlock(w)
  BY <1>11 DEF Unlock
<1> QED
  BY <1>1, <1>2, <1>3, <1>4, <1>5, <1>6, <1>7, <1>8, <1>9, <1>10, <1>11 DEF Step

\* What a page commits to the cache is what the database holds.
LEMMA CommittedCurrent ==
    ASSUME TypeOK, Locking, Keeping, Current, NEW w \in Workers, storeCommitOne(w)
    PROVE  memory[Queued(w, Next1(w))].result = data[ctx[w].cacheUpdate[Next1(w)].query]
<1> DEFINE q == ctx[w].cacheUpdate[Next1(w)].query
<1>1. Next1(w) \in Waiting(w) /\ q \in Queries /\ pc[w] = "commit"
  BY NextUpdate DEF Locking
<1>2. memory[Queued(w, Next1(w))].result = Finds(w, q)
  BY <1>1 DEF Current, QueuedCurrent, Running
<1>3. Finds(w, q) = data[q]
  BY <1>1 DEF Current, WrittenNotFound, Finds
<1> QED
  BY <1>2, <1>3

LEMMA CoherentStep ==
    ASSUME TypeOK, Locking, Keeping, Current, NEW w \in Workers, Begin(w) \/ Step(w)
    PROVE  Coherent'
<1>1. ASSUME NEW q \in Queries, Valid(q)'
      PROVE  memory'[table'[q].value].result = data'[q]
  <2>1. CASE /\ Valid(q) /\ table'[q].value = table[q].value
             /\ memory'[table[q].value].result = memory[table[q].value].result
    <3>1. memory[table[q].value].result = data[q]
      BY <2>1 DEF Current, Coherent
    <3>2. data'[q] = data[q]
      <4>1. ctx[w].written[q] # 0 => pc[w] # "body"
        BY <2>1 DEF Current, WrittenNotFound
      <4> QED
        BY <4>1, DataStep
    <3> QED
      BY <2>1, <3>1, <3>2
  <2>2. CASE /\ storeCommitOne(w) /\ q = ctx[w].cacheUpdate[Next1(w)].query
             /\ table'[q].value = Queued(w, Next1(w))
             /\ memory'[Queued(w, Next1(w))].result = memory[Queued(w, Next1(w))].result
    <3>1. data' = data
      BY <2>2 DEF storeCommitOne
    <3> QED
      BY <2>2, <3>1, CommittedCurrent
  <2> QED
    BY <1>1, <2>1, <2>2, FoundStep
<1> QED
  BY <1>1 DEF Coherent

\* A commit of w puts nothing into a cache that another page flushes.
LEMMA FoundByOthers ==
    ASSUME TypeOK, Locking, Keeping, NEW w \in Workers, Begin(w) \/ Step(w),
           NEW v \in Workers, v # w, pc[v] \in Running,
           NEW q \in Queries, q[1] \in Flushed(ctx[v].page), Valid(q)'
    PROVE  Valid(q)
<1>1. ASSUME storeCommitOne(w), q = ctx[w].cacheUpdate[Next1(w)].query
      PROVE  FALSE
  <2>1. q \in ctx[w].page.reads /\ pc[w] \in Running
    BY <1>1, NextUpdate DEF Locking, Running
  <2>2. q[1] \in Locks(ctx[w].page)
    BY <2>1, OwnLocked
  <2> QED
    BY <2>1, <2>2, Apart
<1> QED
  BY <1>1, FoundStep

LEMMA WrittenNotFoundStep ==
    ASSUME TypeOK, Locking, Keeping, Current, NEW w \in Workers, Begin(w) \/ Step(w)
    PROVE  WrittenNotFound'
<1>1. ASSUME NEW v \in Workers, NEW q \in Queries, ctx'[v].written[q] # 0, v # w
      PROVE  /\ pc'[v] \in {"body", "hit", "miss", "flush"} => ~Valid(q)'
             /\ pc'[v] = "commit" => data'[q] = ctx'[v].written[q]
  <2>1. ctx'[v] = ctx[v] /\ pc'[v] = pc[v]
    BY <1>1, OthersStay
  <2>2. q[1] \in Flushed(ctx[v].page)
    BY <1>1, <2>1 DEF Locking, OwnPage
  <2>3. /\ pc[v] \in {"body", "hit", "miss", "flush"} => ~Valid(q)
        /\ pc[v] = "commit" => data[q] = ctx[v].written[q]
    BY <1>1, <2>1 DEF Current, WrittenNotFound
  <2>4. pc[v] \in {"body", "hit", "miss", "flush"} => ~Valid(q)'
    BY <1>1, <2>2, <2>3, FoundByOthers DEF Running
  <2>5. pc[v] = "commit" => data'[q] = data[q]
    <3>1. ASSUME pc[v] = "commit", pc[w] = "body", ctx[w].written[q] # 0
          PROVE  FALSE
      <4>1. q[1] \in Flushed(ctx[w].page)
        BY <3>1 DEF Locking, OwnPage
      <4>2. q[1] \in Locks(ctx[v].page)
        BY <2>2 DEF Locks
      <4> QED
        BY <1>1, <3>1, <4>1, <4>2, Apart DEF Running
    <3> QED
      BY <3>1, DataStep
  <2> QED
    BY <2>1, <2>3, <2>4, <2>5
<1>2. ASSUME NEW q \in Queries, ctx'[w].written[q] # 0, pc'[w] \in {"body", "hit", "miss", "flush"}
      PROVE  ~Valid(q)'
  <2>1. pc[w] \in {"lock", "body", "hit", "miss", "flush"} /\ ~storeCommitOne(w)
    BY <1>2, LineStep
  <2>2. Valid(q)' => Valid(q)
    BY <2>1, FoundStep
  <2>3. CASE ctx[w].written[q] # 0
    <3>1. pc[w] # "lock"
      BY <2>3 DEF Locking, LockFit, Unused
    <3> QED
      BY <2>1, <2>2, <2>3, <3>1 DEF Current, WrittenNotFound
  <2>4. CASE ctx[w].written[q] = 0
    <3>1. pc[w] = "flush" /\ ctx[w].flushes = {} /\ Changed(ctx[w].dml, q)
      BY <1>2, <2>4, WrittenStep
    <3>2. ~Valid(q)
      BY <3>1 DEF Changed, Current, FlushedNotFound
    <3> QED
      BY <2>2, <3>2
  <2> QED
    BY <2>3, <2>4
<1>3. ASSUME NEW q \in Queries, ctx'[w].written[q] # 0, pc'[w] = "commit"
      PROVE  data'[q] = ctx'[w].written[q]
  <2>1. CASE db_commit(w)
    BY <1>3, <2>1 DEF db_commit, Finds
  <2>2. CASE storeCommitOne(w)
    <3>1. data' = data /\ pc[w] = "commit"
      BY <2>2 DEF storeCommitOne
    <3>2. ctx'[w].written = ctx[w].written
      BY <2>2, NextUpdate DEF Locking
    <3> QED
      BY <1>3, <3>1, <3>2 DEF Current, WrittenNotFound
  <2> QED
    BY <1>3, <2>1, <2>2, LineStep
<1> QED
  BY <1>1, <1>2, <1>3 DEF WrittenNotFound

LEMMA FlushedNotFoundStep ==
    ASSUME TypeOK, Locking, Keeping, Current, NEW w \in Workers, Begin(w) \/ Step(w)
    PROVE  FlushedNotFound'
<1>1. ASSUME NEW v \in Workers, pc'[v] = "flush", NEW f \in ctx'[v].dml \ ctx'[v].flushes,
             NEW q \in Queries, Matches(q, f), Valid(q)'
      PROVE  FALSE
  <2>1. CASE v # w
    <3>1. ctx'[v] = ctx[v] /\ pc[v] = "flush"
      BY <1>1, <2>1, OthersStay
    <3>2. f[1] \in Flushed(ctx[v].page) /\ f[1] = q[1]
      <4>1. ctx[v].page \in Pages \cup {NoPage} /\ ctx[v].dml \in ctx[v].page.dmls
        BY <3>1, FieldFacts DEF TypeOK, Locking, OwnPage
      <4> QED
        BY <1>1, <3>1, <4>1, PageFacts DEF Matches
    <3>3. Valid(q)
      BY <1>1, <2>1, <3>1, <3>2, FoundByOthers DEF Running
    <3> QED
      BY <1>1, <3>1, <3>3 DEF Current, FlushedNotFound
  <2>2. CASE v = w /\ StartDml(w)
    <3>1. ctx'[w].dml = ctx'[w].flushes
      BY <2>2 DEF StartDml, TypeOK, Contexts
    <3> QED
      BY <1>1, <2>2, <3>1
  <2>3. CASE v = w /\ flush(w)
    <3>1. ctx'[w].dml = ctx[w].dml /\ pc[w] = "flush"
      BY <2>3 DEF flush, TypeOK, Contexts
    <3>2. ~storeCommitOne(w)
      BY <2>3 DEF flush, storeCommitOne
    <3>3. Valid(q) /\ (f \in ctx[w].flushes /\ f \notin ctx'[w].flushes => ~Matches(q, f))
      BY <1>1, <2>3, <3>2, FoundStep
    <3> QED
      BY <1>1, <2>3, <3>1, <3>3 DEF Current, FlushedNotFound
  <2> QED
    BY <1>1, <2>1, <2>2, <2>3, LineStep
<1> QED
  BY <1>1 DEF FlushedNotFound

\* A page that does not change what it has read leaves its queued results current.
LEMMA QueuedCurrentStep ==
    ASSUME TypeOK, Locking, Keeping, Current, ~Overwrites, NEW w \in Workers, Begin(w) \/ Step(w)
    PROVE  QueuedCurrent'
<1>1. OwnPage(w) /\ ValuesOwned /\ ValuesOwned'
  BY OwnedStep DEF Locking, Keeping
\* A value that stays queued keeps its result.
<1>2. ASSUME NEW v \in Workers, NEW n \in Waiting(v)', n \in Waiting(v),
             ctx'[v].cacheUpdate[n] = ctx[v].cacheUpdate[n]
      PROVE  /\ Queued(v, n)' = Queued(v, n)
             /\ memory'[Queued(v, n)].result = memory[Queued(v, n)].result
  <2>1. Queued(v, n)' = Queued(v, n) /\ Queued(v, n)' \in DOMAIN memory' /\ Queued(v, n) \in DOMAIN memory
    BY <1>1, <1>2 DEF ValuesOwned, Queued
  <2> QED
    BY <2>1, ResultsStay
<1>3. ASSUME NEW v \in Workers, NEW n \in Waiting(v)', v # w
      PROVE  /\ pc'[v] \in Running => memory'[Queued(v, n)'].result = Finds(v, ctx[v].cacheUpdate[n].query)'
             /\ pc'[v] = "flush" => \A f \in ctx'[v].dml : ~Matches(ctx'[v].cacheUpdate[n].query, f)
  <2>1. ctx'[v] = ctx[v] /\ pc'[v] = pc[v]
    BY <1>3, OthersStay
  <2>2. n \in Waiting(v) /\ n \in 1 .. Len(ctx[v].cacheUpdate)
    BY <1>3, <2>1, FieldFacts DEF Waiting, TypeOK
  <2>3. ctx[v].cacheUpdate[n].query \in ctx[v].page.reads
    BY <2>2 DEF Locking, OwnPage
  <2>4. PICK q \in ctx[v].page.reads : q = ctx[v].cacheUpdate[n].query
    BY <2>3
  <2>5. pc[v] \in Running => Finds(v, ctx[v].cacheUpdate[n].query)' = Finds(v, q)
    <3>1. pc[v] \in Running => Finds(v, q)' = Finds(v, q)
      BY <1>3, FindsStay
    <3> QED
      BY <2>1, <2>4, <3>1 DEF Finds
  <2>6. /\ pc[v] \in Running => memory[Queued(v, n)].result = Finds(v, q)
        /\ pc[v] = "flush" => \A f \in ctx[v].dml : ~Matches(q, f)
    BY <2>2, <2>4 DEF Current, QueuedCurrent
  <2>7. Queued(v, n)' = Queued(v, n) /\ memory'[Queued(v, n)].result = memory[Queued(v, n)].result
    BY <1>2, <1>3, <2>1, <2>2
  <2> QED
    BY <2>1, <2>4, <2>5, <2>6, <2>7
<1>4. ASSUME NEW n \in Waiting(w)', pc'[w] \in Running
      PROVE  /\ memory'[Queued(w, n)'].result = Finds(w, ctx[w].cacheUpdate[n].query)'
             /\ pc'[w] = "flush" => \A f \in ctx'[w].dml : ~Matches(ctx'[w].cacheUpdate[n].query, f)
  <2>1. CASE store(w)
    <3> DEFINE u == [query |-> ctx[w].query, value |-> Place]
               L == Len(ctx[w].cacheUpdate)
    <3>1. /\ memory'[Place].result = Finds(w, u.query)
          /\ Waiting(w)' = Waiting(w) \cup {L + 1} /\ L + 1 \notin Waiting(w)
          /\ \A m \in Waiting(w) : ctx'[w].cacheUpdate[m] = ctx[w].cacheUpdate[m]
          /\ ctx'[w].cacheUpdate[L + 1] = u
          /\ ctx'[w].written = ctx[w].written
          /\ pc[w] = "miss" /\ pc'[w] = "body"
      BY <1>1, <2>1, StoreMemory
    <3>2. data' = data
      BY <2>1 DEF store
    <3> HIDE DEF L
    <3>3. CASE n = L + 1
      <4>1. ctx'[w].cacheUpdate[n] = u /\ u.value = Place
        BY <3>1, <3>3
      <4>2. Queued(w, n)' = Place
        BY <4>1 DEF Queued
      <4>3. Finds(w, ctx[w].cacheUpdate[n].query)' = Finds(w, u.query)
        BY <3>1, <3>2, <4>1 DEF Finds
      <4> QED
        BY <3>1, <4>2, <4>3
    <3>4. CASE n \in Waiting(w)
      <4>1. ctx'[w].cacheUpdate[n] = ctx[w].cacheUpdate[n]
        BY <3>1, <3>4
      <4>2. memory[Queued(w, n)].result = Finds(w, ctx[w].cacheUpdate[n].query)
        BY <3>1, <3>4 DEF Current, QueuedCurrent, Running
      <4>3. Finds(w, ctx[w].cacheUpdate[n].query)' = Finds(w, ctx[w].cacheUpdate[n].query)
        BY <3>1, <3>2, <4>1 DEF Finds
      <4> QED
        BY <1>2, <1>4, <3>1, <3>4, <4>1, <4>2, <4>3
    <3> QED
      BY <1>4, <3>1, <3>3, <3>4
  <2>2. CASE ~store(w)
    <3>1. /\ n \in Waiting(w) /\ n \in 1 .. Len(ctx[w].cacheUpdate)
          /\ ctx'[w].cacheUpdate[n] = ctx[w].cacheUpdate[n]
      <4>1. flush(w) => /\ Waiting(w)' = Waiting(w) /\ ctx'[w].cacheUpdate = ctx[w].cacheUpdate
        BY DEF flush, TypeOK, Contexts, Waiting
      <4>2. storeCommitOne(w) => /\ Waiting(w)' \subseteq Waiting(w)
                                 /\ ctx'[w].cacheUpdate = ctx[w].cacheUpdate
        BY <1>1, NextUpdate
      <4>3. n \in Waiting(w) /\ ctx'[w].cacheUpdate[n] = ctx[w].cacheUpdate[n]
        BY <1>4, <2>2, <4>1, <4>2, QuietStep
      <4> QED
        BY <4>3, FieldFacts DEF Waiting, TypeOK
    <3>2. PICK q \in Queries : q = ctx[w].cacheUpdate[n].query
      BY <3>1, UpdateFacts
    <3>3. pc[w] # "lock"
      <4>1. pc[w] = "lock" => ctx[w].cacheUpdate = <<>>
        BY DEF Locking, LockFit, Unused
      <4>2. pc[w] = "lock" => FALSE
        BY <3>1, <4>1
      <4> QED
        BY <4>2
    <3>4. pc[w] \in Running /\ memory[Queued(w, n)].result = Finds(w, q)
      BY <1>4, <3>1, <3>2, <3>3, LineStep DEF Current, QueuedCurrent
    <3>5. ctx'[w].written[q] = ctx[w].written[q]
      <4>1. Dml(w) /\ pc[w] = "flush" => ~Changed(ctx[w].dml, q)
        BY <3>1, <3>2 DEF Current, QueuedCurrent, Changed
      <4>2. pc'[w] # "idle"
        BY <1>4 DEF Running
      <4> QED
        BY <3>2, <4>1, <4>2, WrittenStep
    <3>6. Finds(w, ctx[w].cacheUpdate[n].query)' = Finds(w, q)
      <4>1. (data'[q] = data[q]) \/ (data'[q] = ctx[w].written[q] /\ ctx[w].written[q] # 0)
        BY <3>2, DataStep
      <4> QED
        BY <3>1, <3>2, <3>5, <4>1 DEF Finds
    <3>7. Queued(w, n)' = Queued(w, n) /\ memory'[Queued(w, n)].result = memory[Queued(w, n)].result
      BY <1>2, <1>4, <3>1
    <3>8. ASSUME pc'[w] = "flush", NEW f \in ctx'[w].dml
          PROVE  ~Matches(q, f)
      <4>1. CASE StartDml(w)
        <5>1. ~Clobbers(w, ctx'[w].dml)
          <6>1. PICK dml \in ctx[w].page.dmls :
                  /\ Overwrites \/ ~Clobbers(w, dml)
                  /\ ctx' = [ctx EXCEPT ![w].dml = dml, ![w].flushes = dml, ![w].ops = @ + 1]
            BY <4>1 DEF StartDml
          <6>2. ctx'[w].dml = dml
            BY <6>1 DEF TypeOK, Contexts
          <6> QED
            BY <6>1, <6>2
        <5> QED
          BY <3>1, <3>2, <3>8, <5>1 DEF Clobbers
      <4>2. CASE flush(w)
        <5>1. ctx'[w].dml = ctx[w].dml /\ pc[w] = "flush"
          BY <4>2 DEF flush, TypeOK, Contexts
        <5> QED
          BY <3>1, <3>2, <3>8, <5>1 DEF Current, QueuedCurrent
      <4> QED
        BY <3>8, <4>1, <4>2, LineStep
    <3> QED
      BY <3>1, <3>2, <3>4, <3>6, <3>7, <3>8
  <2> QED
    BY <2>1, <2>2
<1>5. \A v \in Workers : \A n \in Waiting(v)' :
        /\ pc'[v] \in Running => memory'[Queued(v, n)'].result = Finds(v, ctx[v].cacheUpdate[n].query)'
        /\ pc'[v] = "flush" => \A f \in ctx'[v].dml : ~Matches(ctx'[v].cacheUpdate[n].query, f)
  BY <1>3, <1>4 DEF Running
<1> QED
  BY <1>5 DEF QueuedCurrent

LEMMA HitIsCurrentStep ==
    ASSUME TypeOK, Locking, Keeping, Current, NEW w \in Workers, Begin(w) \/ Step(w)
    PROVE  HitIsCurrent'
<1>1. ASSUME NEW v \in Workers, pc'[v] = "hit", ctx'[v].hit \in DOMAIN memory'
      PROVE  memory'[ctx'[v].hit].result = Finds(v, ctx[v].query)'
  <2>1. CASE pc[v] = "hit" /\ ctx'[v] = ctx[v] /\ v # w
    <3>1. ctx[v].query \in ctx[v].page.reads
      BY <2>1 DEF Locking, OwnPage
    <3>2. Finds(v, ctx[v].query)' = Finds(v, ctx[v].query)
      <4>1. PICK q \in ctx[v].page.reads : q = ctx[v].query
        BY <3>1
      <4>2. Finds(v, q)' = Finds(v, q)
        BY <2>1, FindsStay DEF Running
      <4> QED
        BY <2>1, <4>1, <4>2 DEF Finds
    <3>3. ctx[v].hit \in DOMAIN memory
      <4>1. store(w) => ctx[v].hit # Place
        BY StoreFacts DEF Locking
      <4> QED
        BY <1>1, <2>1, <4>1, ResultsStay
    <3>4. memory'[ctx[v].hit].result = memory[ctx[v].hit].result
      BY <1>1, <2>1, <3>3, ResultsStay
    <3>5. memory[ctx[v].hit].result = Finds(v, ctx[v].query)
      BY <2>1, <3>3 DEF Current, HitIsCurrent
    <3> QED
      BY <2>1, <3>2, <3>4, <3>5
  <2>2. CASE /\ v = w /\ check(w) /\ Valid(ctx'[v].query)
             /\ ctx'[v].hit = table[ctx'[v].query].value
             /\ ctx'[v].query \in ctx[v].page.reads
             /\ ctx'[v].written = ctx[v].written /\ pc[v] = "body"
    <3>1. PICK q \in Queries : q = ctx'[v].query
      BY <2>2, OwnLocked
    <3>2. memory' = memory /\ data' = data
      BY <2>2 DEF check, tables
    <3>3. memory[table[q].value].result = data[q] /\ ctx[v].written[q] = 0
      BY <2>2, <3>1 DEF Current, Coherent, WrittenNotFound
    <3> QED
      BY <2>2, <3>1, <3>2, <3>3 DEF Finds
  <2> QED
    BY <1>1, <2>1, <2>2, HitStep
<1> QED
  BY <1>1 DEF HitIsCurrent

-----------------------------------------------------------------------------
(***************************************************************************)
(* The theorems.                                                           *)
(***************************************************************************)
Inv == TypeOK /\ Locking /\ Keeping

LEMMA InitInv == Init => Inv /\ Current
<1> SUFFICES ASSUME Init PROVE Inv /\ Current
  OBVIOUS
<1> USE DEF Init
<1>1. \A w \in Workers : ctx[w] = Idle /\ pc[w] = "idle"
  OBVIOUS
<1>2. table = [s \in {} |-> 0] /\ memory = [i \in {} |-> 0] /\ DOMAIN table = {} /\ DOMAIN memory = {}
  OBVIOUS
<1>3. TypeOK
  <2>1. TablesOK
    BY <1>2 DEF TablesOK
  <2>2. Idle \in Contexts
    BY DEF Idle, Contexts
  <2> QED
    BY <2>1, <2>2 DEF TypeOK
<1>4. /\ Idle.cacheUpdate = <<>> /\ Idle.handled = 0 /\ Idle.cacheUnlock = {}
      /\ Idle.written = [q \in Queries |-> 0]
  BY DEF Idle
<1>5. Locking
  BY <1>1, <1>4 DEF Locking, LockFit, OwnPage, WritersAlone, Unused, Running
<1>6. Filled = {} /\ \A w \in Workers : Waiting(w) = {}
  BY <1>1, <1>2, <1>4 DEF Filled, Waiting
<1>7. Keeping
  BY <1>1, <1>2, <1>6 DEF Keeping, WholePaths, ClockAhead, ValuesOwned, HitInPlace
<1>8. \A q \in Queries : ~Valid(q)
  BY <1>2, PathFacts DEF Valid
<1>9. Current
  BY <1>1, <1>4, <1>6, <1>8
     DEF Current, Coherent, WrittenNotFound, FlushedNotFound, QueuedCurrent, HitIsCurrent
<1> QED
  BY <1>3, <1>5, <1>7, <1>9 DEF Inv

LEMMA InvStep ==
    ASSUME Inv, [Next]_vars
    PROVE  Inv'
<1> USE DEF Inv
<1>1. TypeOK'
  BY TypeStep DEF Locking
<1>2. Locking'
  BY LockingStep
<1>3. CASE \E w \in Workers : Begin(w) \/ Step(w)
  BY <1>1, <1>2, <1>3, KeepingStep
<1>4. CASE UNCHANGED vars
  <2>1. Keeping'
    BY <1>4 DEF vars, tables, Keeping, WholePaths, ClockAhead, ValuesOwned, HitInPlace, Filled,
               Waiting, Queued
  <2> QED
    BY <1>1, <1>2, <2>1
<1> QED
  BY <1>3, <1>4 DEF Next

LEMMA CurrentStep ==
    ASSUME Inv, Current, ~Overwrites, [Next]_vars
    PROVE  Current'
<1> USE DEF Inv
<1>1. CASE \E w \in Workers : Begin(w) \/ Step(w)
  BY <1>1, CoherentStep, WrittenNotFoundStep, FlushedNotFoundStep, QueuedCurrentStep,
     HitIsCurrentStep DEF Current
<1>2. CASE UNCHANGED vars
  BY <1>2 DEF vars, tables, Current, Coherent, WrittenNotFound, FlushedNotFound, QueuedCurrent,
              HitIsCurrent, Valid, Waiting, Queued, Finds
<1> QED
  BY <1>1, <1>2 DEF Next

\* A hit is in the table of a cache that its page holds the lock of, so that what another
\* page flushes is elsewhere.
LEMMA FlushSparesStep ==
    ASSUME Inv, NEW w \in Workers, NEW v \in Workers,
           flush(w), pc[v] = "hit", ctx[v].hit \in DOMAIN memory
    PROVE  ctx[v].hit \in DOMAIN memory'
<1> USE DEF Inv
<1>1. PICK f \in ctx[w].flushes : FlushOne(f)
  BY DEF flush
<1>2. f \in Flushes
  BY FieldFacts DEF TypeOK
<1>3. ctx[v].query \in Filled /\ table[ctx[v].query].value = ctx[v].hit
  BY DEF Keeping, HitInPlace
<1>4. v # w /\ pc[w] \in Running /\ pc[v] \in Running
  BY DEF flush, Running
<1>5. f[1] \in Flushed(ctx[w].page)
  <2>1. pc[w] = "flush" /\ ctx[w].page \in Pages \cup {NoPage}
    BY FieldFacts DEF flush, TypeOK
  <2> QED
    BY <1>1, <2>1, PageFacts DEF Locking, OwnPage
<1>6. ctx[v].query[1] \in Locks(ctx[v].page)
  BY OwnLocked DEF Locking, OwnPage
<1>7. ASSUME ctx[v].hit \notin DOMAIN memory'
      PROVE  FALSE
  <2>1. TablesOK /\ ValuesOwned
    BY DEF TypeOK, Keeping
  <2>2. PICK s \in Filled \ Filled' : s[1] = f[1] /\ table[s].value = ctx[v].hit
    BY <1>1, <1>2, <1>7, <2>1, FlushMemory
  <2>3. s = ctx[v].query
    BY <1>3, <2>1, <2>2 DEF ValuesOwned
  <2> QED
    BY <1>4, <1>5, <1>6, <2>2, <2>3, Apart
<1> QED
  BY <1>7

LEMMA SpecInv == Spec => []Inv
<1>1. Init => Inv
  BY InitInv
<1>2. Inv /\ [Next]_vars => Inv'
  BY InvStep
<1> QED
  BY <1>1, <1>2, PTL DEF Spec

-----------------------------------------------------------------------------
(***************************************************************************)
(* Waiting. Locks are taken in the order of their numbers, so of the locks *)
(* that are waited for the one with the greatest number is held by a page  *)
(* that waits for none.                                                    *)
(***************************************************************************)
\* A set of numbers has a least one, and a greatest one if it is bounded.
LEMMA Least ==
    ASSUME NEW T, T \subseteq Nat, T # {}
    PROVE  \E x \in T : \A y \in T : x <= y
<1> DEFINE R == OpToRel(<, Nat)
<1>1. IsWellFoundedOn(R, Nat)
  BY NatLessThanWellFounded
<1>2. \A x, y \in Nat : y < x => <<y, x>> \in R
  BY DEF OpToRel
<1> HIDE DEF R
<1>3. PICK x \in T : \A y \in T : ~ (<<y, x>> \in R)
  BY <1>1, WFMin
<1>4. \A y \in T : ~(y < x)
  BY <1>2, <1>3
<1>5. x \in Nat /\ \A y \in T : y \in Nat
  OBVIOUS
<1>6. \A y \in T : x <= y
  BY <1>4, <1>5
<1> QED
  BY <1>6

LEMMA Greatest ==
    ASSUME NEW S, S # {}, NEW m \in Nat, S \subseteq 0 .. m
    PROVE  \E c \in S : \A d \in S : d <= c
<1> DEFINE T == {n \in 0 .. m : m - n \in S}
<1>1. \A c \in S : m - c \in T /\ c \in Nat
  OBVIOUS
<1>2. PICK x \in T : \A y \in T : x <= y
  <2> T # {}
    BY <1>1
  <2> T \subseteq Nat
    OBVIOUS
  <2> QED
    BY Least
<1>3. \A d \in S : x <= m - d
  BY <1>1, <1>2
<1> QED
  BY <1>1, <1>2, <1>3

InOrder(w) ==
  pc[w] = "lock" => \A c \in ctx[w].cacheUnlock, d \in ctx[w].locks : c < d
Ordered == \A w \in Workers : InOrder(w)

LEMMA InOrderStep ==
    ASSUME TypeOK, Locking, NEW w \in Workers, InOrder(w), Begin(w) \/ Step(w)
    PROVE  InOrder(w)'
<1> USE DEF TypeOK
<1>1. ctx[w] \in Contexts /\ LockFit(w)
  BY DEF Locking
<1>2. CASE Begin(w)
  <2>1. pc[w] = "idle"
    BY <1>2 DEF Begin
  <2>2. PICK page \in Pages : ctx' = [ctx EXCEPT ![w].page = page, ![w].locks = Locks(page)]
    BY <1>2 DEF Begin
  <2>3. ctx'[w].cacheUnlock = ctx[w].cacheUnlock
    BY <1>1, <2>2 DEF Contexts
  <2> QED
    BY <1>1, <2>1, <2>3 DEF LockFit, InOrder
<1>3. CASE rlock(w) \/ wlock(w)
  <2>1. PICK c \in Caches, mode \in {"r", "w"} :
          Locked(w, c, mode) /\ pc[w] = "lock" /\ NextLock(w, c)
    BY <1>3 DEF rlock, wlock
  <2>2. /\ ctx'[w].locks = ctx[w].locks \ {c}
        /\ ctx'[w].cacheUnlock = ctx[w].cacheUnlock \cup {c}
    BY <1>1, <2>1 DEF Locked, Contexts
  <2>3. \A d \in ctx[w].locks : d \in Nat /\ c \in Nat /\ c <= d
    BY <1>1, <2>1, CachesAssumption DEF NextLock, Contexts
  <2> QED
    BY <2>1, <2>2, <2>3 DEF InOrder
<1>4. CASE Works(w)
  BY <1>4, WorkKeepsLocks DEF Running, InOrder
<1>5. CASE LocksTaken(w) \/ Committed(w) \/ GivesUp(w) \/ Unlock(w) \/ Ended(w)
  <2>1. pc'[w] # "lock"
    BY <1>5 DEF LocksTaken, Committed, GivesUp, Unlock, Ended, Goto
  <2> QED
    BY <2>1 DEF InOrder
<1> QED
  BY <1>2, <1>3, <1>4, <1>5 DEF Step, Works

LEMMA OrderedStep ==
    ASSUME Inv, Ordered, [Next]_vars
    PROVE  Ordered'
<1> USE DEF Inv
<1>1. CASE \E w \in Workers : Begin(w) \/ Step(w)
  <2>1. PICK w \in Workers : Begin(w) \/ Step(w)
    BY <1>1
  <2>2. InOrder(w)'
    BY <2>1, InOrderStep DEF Ordered
  <2>3. ASSUME NEW v \in Workers, v # w PROVE InOrder(v)'
    BY <2>1, <2>3, OthersStay DEF Ordered, InOrder
  <2> QED
    BY <2>2, <2>3 DEF Ordered
<1>2. CASE UNCHANGED vars
  BY <1>2 DEF vars, Ordered, InOrder
<1> QED
  BY <1>1, <1>2 DEF Next

LEMMA OrderBreaksCircles ==
    ASSUME NEW Most \in Nat, \A c \in Caches : c <= Most, Inv, Ordered
    PROVE  NoCircle
<1> USE DEF Inv
<1> SUFFICES ASSUME NEW w \in Workers, pc[w] # "idle",
                    \A u \in Workers : pc[u] # "idle" =>
                      \E v \in Workers, c \in Caches : WaitsFor(u, v, c)
             PROVE  FALSE
  BY DEF NoCircle
<1> DEFINE Wanted == {c \in Caches : \E u, v \in Workers : WaitsFor(u, v, c)}
<1>1. Wanted # {} /\ Wanted \subseteq 0 .. Most
  <2>1. \A c \in Wanted : c \in Nat /\ c <= Most
    BY CachesAssumption
  <2>2. PICK v \in Workers, c \in Caches : WaitsFor(w, v, c)
    OBVIOUS
  <2>3. c \in Wanted
    BY <2>2
  <2> HIDE DEF Wanted
  <2> QED
    BY <2>1, <2>3
<1>2. PICK c \in Wanted : \A d \in Wanted : d <= c
  <2> HIDE DEF Wanted
  <2> QED
    BY <1>1, Greatest
<1>3. PICK u \in Workers, v \in Workers : WaitsFor(u, v, c)
  BY <1>2
<1>4. c \in ctx[v].cacheUnlock /\ pc[v] # "idle"
  <2>1. LockFit(v) /\ lockOut[c][v] # "none"
    BY <1>3 DEF Locking, WaitsFor
  <2> QED
    BY <2>1 DEF LockFit
<1>5. PICK t \in Workers, d \in Caches : WaitsFor(v, t, d)
  BY <1>4
<1>6. pc[v] = "lock" /\ d \in ctx[v].locks
  BY <1>5 DEF WaitsFor, NextLock
<1>7. c < d
  BY <1>4, <1>6 DEF Ordered, InOrder
<1>8. d <= c /\ c \in Nat /\ d \in Nat
  BY <1>2, <1>5, CachesAssumption
<1> QED
  BY <1>7, <1>8

-----------------------------------------------------------------------------
\* The tables and the contexts have their types: keys lie in the range of their query, and
\* memory holds values only.
THEOREM TypesHold == Spec => []TypeOK
<1>1. Inv => TypeOK
  BY DEF Inv
<1> QED
  BY <1>1, SpecInv, PTL

\* A thread that has ended its transaction holds no lock of a cache: what uw_Sqlcache_free
\* gives back is all that rlock and wlock took.
THEOREM LocksGivenBack == Spec => []LocksReturned
<1>1. Inv => LocksReturned
  BY DEF Inv, Locking, LockFit, LocksReturned
<1> QED
  BY <1>1, SpecInv, PTL

\* Every value in a table or in a list of updates has one owner, so that
\* uw_Sqlcache_freeValue never frees what is still referred to from there.
THEOREM ValuesHaveOwners == Spec => []ValuesOwned
<1>1. Inv => ValuesOwned
  BY DEF Inv, Keeping
<1> QED
  BY <1>1, SpecInv, PTL

\* No flush frees the value that another page has been given by uw_Sqlcache_check.
THEOREM FlushSparesHits == Spec => FlushSpares
<1>1. Inv /\ [Next]_vars
        => [\A w, v \in Workers :
              (flush(w) /\ pc[v] = "hit" /\ ctx[v].hit \in DOMAIN memory)
                => ctx[v].hit \in DOMAIN memory']_vars
  BY FlushSparesStep
<1> QED
  BY <1>1, SpecInv, PTL DEF Spec, FlushSpares

\* If pages do not change what they have read, what uw_Sqlcache_check returns is what the
\* query would find.
THEOREM CacheIsCurrent ==
    ASSUME ~Overwrites
    PROVE  Spec => []HitIsCurrent
<1>1. Init => Inv /\ Current
  BY InitInv
<1>2. (Inv /\ Current) /\ [Next]_vars => (Inv /\ Current)'
  BY InvStep, CurrentStep
<1>3. Inv /\ Current => HitIsCurrent
  BY DEF Current
<1> QED
  BY <1>1, <1>2, <1>3, PTL DEF Spec

\* If there are finitely many caches, pages that hold and take locks as wrapLocks orders them
\* never wait for each other in a circle.
THEOREM PagesNeverCircle ==
    ASSUME NEW Most \in Nat, \A c \in Caches : c <= Most
    PROVE  Spec => []NoCircle
<1>1. Init => Inv /\ Ordered
  BY InitInv DEF Init, Ordered, InOrder
<1>2. (Inv /\ Ordered) /\ [Next]_vars => (Inv /\ Ordered)'
  BY InvStep, OrderedStep
<1>3. Inv /\ Ordered => NoCircle
  BY OrderBreaksCircles
<1> QED
  BY <1>1, <1>2, <1>3, PTL DEF Spec

=============================================================================
