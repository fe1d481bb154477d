------------------------------ MODULE SqlCache ------------------------------
(***************************************************************************)
(* The cache of query results (src/src/c/urweb.c, uw_Sqlcache_...) as the  *)
(* generated code uses it (src/src/lru_cache.sml, src/src/sqlcache.sml).   *)
(*                                                                         *)
(* Every cached query has a cache of its own, whose keys are the values of *)
(* the query's parameters. A page first takes lockOut of every cache it    *)
(* fills or flushes, then checks, queries and stores, or flushes before it *)
(* updates the database; stores take effect after the COMMIT, flushes at   *)
(* once; the locks are given back at the end of the transaction.           *)
(*                                                                         *)
(* Each function holds lockIn of its cache from its first to its last look *)
(* at the table, so it is one step. Rows are abstracted to the version a   *)
(* query with given parameters finds; a new version comes with every       *)
(* update. The limit of 1234567890 entries is not reached: eviction, and   *)
(* the order of entries that serves it, are left out.                      *)
(***************************************************************************)
EXTENDS Naturals, Sequences, FiniteSets

CONSTANTS
  Workers,       \* threads that run transactions
  Caches,        \* numbers of the cached queries
  NumKeys,       \* NumKeys[c]: the number of parameters of query c
  Keys,          \* values of a parameter
  Null,          \* in a flush: any value of the parameter
  Pages,         \* [reads: queries the page runs, dmls: its updates]
  Overwrites,    \* may a page change what it has queried before?
  Ids,           \* places for values in memory
  NoValue,       \* no place
  TxMax,         \* bound: transactions
  OpsMax         \* bound: queries and updates in a transaction

\* A query is a cache and the values of its parameters; a flush leaves some open;
\* entries are made for all beginnings of a list of parameters.
Queries == UNION {{c} \X [1 .. NumKeys[c] -> Keys] : c \in Caches}
Flushes == UNION {{c} \X [1 .. NumKeys[c] -> Keys \cup {Null}] : c \in Caches}
First(c) == IF NumKeys[c] = 0 THEN 0 ELSE 1
Slots == UNION {UNION {{c} \X [1 .. n -> Keys] : n \in First(c) .. NumKeys[c]} : c \in Caches}

ASSUME CachesAssumption ==
  /\ Caches \subseteq Nat
  /\ NumKeys \in [Caches -> Nat]
  /\ Null \notin Keys
  /\ NoValue \notin Ids
  /\ Pages \subseteq [reads : SUBSET Queries, dmls : SUBSET SUBSET Flushes]
  /\ Overwrites \in BOOLEAN

VARIABLES
  lockOut,       \* lockOut[c][w]: how w holds the lock, "none", "r" or "w"
  table,         \* the entries of all caches, by cache and beginning of keys
  timeInvalid,   \* timeInvalid[c]: when everything in c was flushed
  timeNow,       \* timeNow[c]: the clock of c
  memory,        \* values that were allocated and not freed, by place
  data,          \* data[q]: what query q finds
  version,       \* updates so far
  pc,            \* where a thread is
  ctx,           \* the uw_context of a thread
  started        \* transactions so far

vars == <<lockOut, table, timeInvalid, timeNow, memory, data, version, pc, ctx, started>>
tables == <<table, timeInvalid, timeNow, memory>>
-----------------------------------------------------------------------------
NoPage == [reads |-> {}, dmls |-> {}]
NoQuery == <<0, <<>>>>

\* What a page flushes and what it fills: the sets of locksNeeded.
Flushed(page) == {f[1] : f \in UNION page.dmls}
Stored(page) == {q[1] : q \in page.reads}
Locks(page) == Flushed(page) \cup Stored(page)

Idle == [page |-> NoPage, locks |-> {}, cacheUnlock |-> {}, cacheUpdate |-> <<>>,
         handled |-> 0, query |-> NoQuery, hit |-> NoValue, dml |-> {}, flushes |-> {},
         written |-> [q \in Queries |-> 0], ops |-> 0]

Init ==
  /\ lockOut = [c \in Caches |-> [w \in Workers |-> "none"]]
  /\ table = [s \in {} |-> 0]
  /\ timeInvalid = [c \in Caches |-> 0]
  /\ timeNow = [c \in Caches |-> 0]
  /\ memory = [i \in {} |-> 0]
  /\ data = [q \in Queries |-> 0]
  /\ version = 0
  /\ pc = [w \in Workers |-> "idle"]
  /\ ctx = [w \in Workers |-> Idle]
  /\ started = 0

Goto(w, l) == pc' = [pc EXCEPT ![w] = l]
\* What a query of w finds: its own writes over the committed rows.
Finds(w, q) == IF ctx[w].written[q] # 0 THEN ctx[w].written[q] ELSE data[q]
-----------------------------------------------------------------------------
(* Entries. On the way to the entry of a query are those of all beginnings *)
(* of its keys; a cache without parameters has a single entry.             *)

Beginning(k, n) == [i \in 1 .. n |-> k[i]]
Path(q) == {<<q[1], Beginning(q[2], n)>> : n \in First(q[1]) .. NumKeys[q[1]]}
NewEntry == [value |-> NoValue, timeInvalid |-> 0]
With(f, x, y) == [z \in DOMAIN f \cup {x} |-> IF z = x THEN y ELSE f[z]]
Without(f, x) == [z \in DOMAIN f \ {x} |-> f[z]]
Matches(q, f) == q[1] = f[1] /\ \A i \in 1 .. NumKeys[q[1]] : f[2][i] \in {Null, q[2][i]}
\* A value is found unless an entry on the way was flushed after it was stored.
Valid(q) ==
  /\ Path(q) \subseteq DOMAIN table
  /\ table[q].value # NoValue
  /\ timeInvalid[q[1]] < memory[table[q].value].timeValid
  /\ \A s \in Path(q) : table[s].timeInvalid < memory[table[q].value].timeValid
-----------------------------------------------------------------------------
(* A page begins: db_begin, then the locks in the order of their numbers.  *)

Begin(w) ==
  /\ pc[w] = "idle" /\ started < TxMax
  /\ \E page \in Pages : ctx' = [ctx EXCEPT ![w].page = page, ![w].locks = Locks(page)]
  /\ started' = started + 1
  /\ Goto(w, "lock")
  /\ UNCHANGED <<lockOut, tables, data, version>>

\* wrapLocks takes the locks of a page in their order.
\* Mutant: not sorted, the reading locks come first.
NextLockUnsorted(w, c) ==
  LET reading == ctx[w].locks \ Flushed(ctx[w].page)
  IN IF reading # {} THEN c \in reading ELSE c \in ctx[w].locks /\ \A d \in ctx[w].locks : c <= d
NextLock(w, c) == c \in ctx[w].locks /\ \A d \in ctx[w].locks : c <= d

\* pushUnlock: the first lock registers the transactional.
Locked(w, c, mode) ==
  /\ lockOut' = [lockOut EXCEPT ![c][w] = mode]
  /\ ctx' = [ctx EXCEPT ![w].locks = @ \ {c}, ![w].cacheUnlock = @ \cup {c}]
  /\ UNCHANGED <<tables, data, version, pc, started>>

rlock(w) ==
  /\ pc[w] = "lock"
  /\ \E c \in Caches :
       /\ NextLock(w, c) /\ c \notin Flushed(ctx[w].page)
       /\ \A v \in Workers : lockOut[c][v] # "w"
       /\ Locked(w, c, "r")

\* Mutant: a writer does not wait for readers.
wlockShared(w) ==
  /\ pc[w] = "lock"
  /\ \E c \in Caches :
       /\ NextLock(w, c) /\ c \in Flushed(ctx[w].page)
       /\ \A v \in Workers : lockOut[c][v] # "w"
       /\ Locked(w, c, "w")

wlock(w) ==
  /\ pc[w] = "lock"
  /\ \E c \in Caches :
       /\ NextLock(w, c) /\ c \in Flushed(ctx[w].page)
       /\ \A v \in Workers : lockOut[c][v] = "none"
       /\ Locked(w, c, "w")

LocksTaken(w) ==
  /\ pc[w] = "lock" /\ ctx[w].locks = {}
  /\ Goto(w, "body")
  /\ UNCHANGED <<lockOut, tables, data, version, ctx, started>>
-----------------------------------------------------------------------------
(* A query: ask the cache, use the value that was found outside of its     *)
(* lock, or run the query and queue its result.                            *)

check(w) ==
  /\ pc[w] = "body" /\ ctx[w].ops < OpsMax
  /\ \E q \in ctx[w].page.reads :
       /\ ctx' = [ctx EXCEPT ![w].query = q, ![w].ops = @ + 1,
                             ![w].hit = IF Valid(q) THEN table[q].value ELSE NoValue]
       /\ Goto(w, IF Valid(q) THEN "hit" ELSE "miss")
  /\ UNCHANGED <<lockOut, tables, data, version, started>>

\* The generated check writes the output and its caller decodes the result.
Hit(w) ==
  /\ pc[w] = "hit"
  /\ ctx' = [ctx EXCEPT ![w].hit = NoValue, ![w].query = NoQuery]
  /\ Goto(w, "body")
  /\ UNCHANGED <<lockOut, tables, data, version, started>>

\* malloc, which in this model uses a place again when nobody points to it.
Places == {i \in Ids : i \notin DOMAIN memory /\ \A v \in Workers : ctx[v].hit # i}
Place == CHOOSE i \in Places : TRUE

store(w) ==
  LET q == ctx[w].query
  IN /\ pc[w] = "miss" /\ Places # {}
     /\ memory' = With(memory, Place, [result |-> Finds(w, q), timeValid |-> timeNow[q[1]]])
     /\ ctx' = [ctx EXCEPT ![w].cacheUpdate = Append(@, [query |-> q, value |-> Place]),
                           ![w].query = NoQuery]
     /\ Goto(w, "body")
     /\ UNCHANGED <<lockOut, table, timeInvalid, timeNow, data, version, started>>
-----------------------------------------------------------------------------
(* An update of the database comes with its flushes, which are made first. *)

Clobbers(w, dml) ==
  \E n \in 1 .. Len(ctx[w].cacheUpdate) : \E f \in dml :
    Matches(ctx[w].cacheUpdate[n].query, f)

StartDml(w) ==
  /\ pc[w] = "body" /\ ctx[w].ops < OpsMax
  /\ \E dml \in ctx[w].page.dmls :
       /\ Overwrites \/ ~Clobbers(w, dml)
       /\ ctx' = [ctx EXCEPT ![w].dml = dml, ![w].flushes = dml, ![w].ops = @ + 1]
  /\ Goto(w, "flush")
  /\ UNCHANGED <<lockOut, tables, data, version, started>>

\* A cache without parameters: its value goes.
FlushOnly(s) ==
  /\ NumKeys[s[1]] = 0
  /\ IF s \in DOMAIN table
     THEN /\ memory' = Without(memory, table[s].value)
          /\ table' = [table EXCEPT ![s].value = NoValue]
     ELSE UNCHANGED <<memory, table>>
  /\ UNCHANGED <<timeInvalid, timeNow>>

\* Mutant: only flushes of everything are remembered.
FlushBehindNothing(s, n) ==
  /\ n < NumKeys[s[1]]
  /\ timeNow' = [timeNow EXCEPT ![s[1]] = @ + 1]
  /\ timeInvalid' = IF n = 0 THEN [timeInvalid EXCEPT ![s[1]] = timeNow[s[1]]] ELSE timeInvalid
  /\ UNCHANGED <<table, memory>>

\* From parameter n + 1 on anything: what lies behind the beginning is marked as old.
FlushBehind(s, n) ==
  /\ n < NumKeys[s[1]]
  /\ timeNow' = [timeNow EXCEPT ![s[1]] = @ + 1]
  /\ timeInvalid' = IF n = 0 THEN [timeInvalid EXCEPT ![s[1]] = timeNow[s[1]]] ELSE timeInvalid
  /\ table' = IF n # 0 /\ s \in DOMAIN table
              THEN [table EXCEPT ![s].timeInvalid = timeNow[s[1]]] ELSE table
  /\ UNCHANGED memory

\* Mutant: the value is freed and the entry stays.
FlushEntryKeeps(s, n) ==
  /\ n = NumKeys[s[1]] /\ n # 0
  /\ timeNow' = [timeNow EXCEPT ![s[1]] = @ + 1]
  /\ memory' = IF s \in DOMAIN table THEN Without(memory, table[s].value) ELSE memory
  /\ UNCHANGED <<timeInvalid, table>>

\* All parameters given: the entry is deleted.
FlushEntry(s, n) ==
  /\ n = NumKeys[s[1]] /\ n # 0
  /\ timeNow' = [timeNow EXCEPT ![s[1]] = @ + 1]
  /\ IF s \in DOMAIN table
     THEN /\ memory' = Without(memory, table[s].value)
          /\ table' = Without(table, s)
     ELSE UNCHANGED <<memory, table>>
  /\ UNCHANGED timeInvalid

\* n parameters are given before the first NULL.
Given(f, n) ==
  /\ \A i \in 1 .. n : f[2][i] # Null
  /\ n < NumKeys[f[1]] => f[2][n + 1] = Null

FlushOne(f) ==
  \E n \in 0 .. NumKeys[f[1]] :
    /\ Given(f, n)
    /\ LET s == <<f[1], Beginning(f[2], n)>>
       IN FlushOnly(s) \/ FlushBehind(s, n) \/ FlushEntry(s, n)

flush(w) ==
  /\ pc[w] = "flush"
  /\ \E f \in ctx[w].flushes :
       FlushOne(f) /\ ctx' = [ctx EXCEPT ![w].flushes = @ \ {f}]
  /\ UNCHANGED <<lockOut, data, version, pc, started>>

Changed(dml, q) == \E f \in dml : Matches(q, f)

Dml(w) ==
  /\ pc[w] = "flush" /\ ctx[w].flushes = {}
  /\ version' = version + 1
  /\ ctx' = [ctx EXCEPT ![w].dml = {},
       ![w].written = [q \in Queries |-> IF Changed(ctx[w].dml, q) THEN version + 1 ELSE @[q]]]
  /\ Goto(w, "body")
  /\ UNCHANGED <<lockOut, tables, data, started>>
-----------------------------------------------------------------------------
(* The end of a transaction: uw_commit commits in the database, then calls *)
(* uw_Sqlcache_commit; uw_rollback and a COMMIT that fails go to           *)
(* uw_Sqlcache_free at once, as does an error of another transactional     *)
(* that is committed between the two.                                      *)

db_commit(w) ==
  /\ pc[w] = "body"
  /\ data' = [q \in Queries |-> Finds(w, q)]
  /\ Goto(w, "commit")
  /\ UNCHANGED <<lockOut, tables, version, ctx, started>>

GivesUp(w) ==
  /\ \/ pc[w] \in {"body", "miss", "flush"}
     \/ pc[w] = "commit" /\ ctx[w].handled = 0
  /\ Goto(w, "free")
  /\ UNCHANGED <<lockOut, tables, data, version, ctx, started>>

\* The value replaces one that was stored before this one was queued.
Newer(e, u) == e.value = NoValue \/ memory[e.value].timeValid < memory[u.value].timeValid

\* Missing entries on the way to the query's are made.
WithPath(q) == [s \in DOMAIN table \cup Path(q) |-> IF s \in DOMAIN table THEN table[s] ELSE NewEntry]

storeCommitOne(w) ==
  LET u == ctx[w].cacheUpdate[ctx[w].handled + 1]
      q == u.query
      t == WithPath(q)
  IN /\ pc[w] = "commit" /\ ctx[w].handled < Len(ctx[w].cacheUpdate)
     /\ timeNow' = [timeNow EXCEPT ![q[1]] = @ + 1]
     /\ IF Newer(t[q], u)
        THEN /\ table' = [t EXCEPT ![q].value = u.value]
             /\ memory' = [Without(memory, t[q].value) EXCEPT ![u.value].timeValid = timeNow[q[1]]]
        ELSE table' = t /\ UNCHANGED memory
     /\ ctx' = [ctx EXCEPT ![w].handled = @ + 1]
     /\ UNCHANGED <<lockOut, timeInvalid, data, version, pc, started>>

Committed(w) ==
  /\ pc[w] = "commit" /\ ctx[w].handled = Len(ctx[w].cacheUpdate)
  /\ Goto(w, "free")
  /\ UNCHANGED <<lockOut, tables, data, version, ctx, started>>

\* uw_Sqlcache_free: the list of updates goes, not their values, then the locks.
Unlock(w) ==
  /\ pc[w] = "free"
  /\ \E c \in ctx[w].cacheUnlock :
       /\ \A d \in ctx[w].cacheUnlock : d <= c
       /\ lockOut' = [lockOut EXCEPT ![c][w] = "none"]
       /\ ctx' = [ctx EXCEPT ![w].cacheUpdate = <<>>, ![w].handled = 0,
                             ![w].cacheUnlock = @ \ {c}]
  /\ UNCHANGED <<tables, data, version, pc, started>>

Ended(w) ==
  /\ pc[w] = "free" /\ ctx[w].cacheUnlock = {}
  /\ ctx' = [ctx EXCEPT ![w] = Idle]
  /\ Goto(w, "idle")
  /\ UNCHANGED <<lockOut, tables, data, version, started>>

Step(w) ==
  \/ rlock(w) \/ wlock(w) \/ LocksTaken(w)
  \/ check(w) \/ Hit(w) \/ store(w)
  \/ StartDml(w) \/ flush(w) \/ Dml(w)
  \/ db_commit(w) \/ GivesUp(w) \/ storeCommitOne(w) \/ Committed(w)
  \/ Unlock(w) \/ Ended(w)

Next == \E w \in Workers : Begin(w) \/ Step(w)

Spec == Init /\ [][Next]_vars
-----------------------------------------------------------------------------
Update == [query : Queries, value : Ids]
Contexts ==
  [page : Pages \cup {NoPage}, locks : SUBSET Caches, cacheUnlock : SUBSET Caches,
   cacheUpdate : Seq(Update), handled : Nat, query : Queries \cup {NoQuery},
   hit : Ids \cup {NoValue}, dml : SUBSET Flushes, flushes : SUBSET Flushes,
   written : [Queries -> Nat], ops : Nat]

Entries == [value : Ids \cup {NoValue}, timeInvalid : Nat]
Values == [result : Nat, timeValid : Nat]
TablesOK ==
  /\ DOMAIN table \subseteq Slots /\ table \in [DOMAIN table -> Entries]
  /\ timeInvalid \in [Caches -> Nat] /\ timeNow \in [Caches -> Nat]
  /\ DOMAIN memory \subseteq Ids /\ memory \in [DOMAIN memory -> Values]

TypeOK ==
  /\ lockOut \in [Caches -> [Workers -> {"none", "r", "w"}]]
  /\ TablesOK
  /\ data \in [Queries -> Nat] /\ version \in Nat
  /\ pc \in [Workers -> {"idle", "lock", "body", "hit", "miss", "flush", "commit", "free"}]
  /\ ctx \in [Workers -> Contexts] /\ started \in Nat

\* What the cache answers is what the query would find now: the committed rows with
\* the page's own changes, whatever other pages stored, flushed or rolled back.
HitIsCurrent ==
  \A w \in Workers :
    (pc[w] = "hit" /\ ctx[w].hit \in DOMAIN memory) =>
      memory[ctx[w].hit].result = Finds(w, ctx[w].query)

\* The values of entries and of queued updates are in memory, each referred to once:
\* replacing, flushing and dropping an update never free the value of another.
Filled == {s \in DOMAIN table : table[s].value # NoValue}
Waiting(w) == ctx[w].handled + 1 .. Len(ctx[w].cacheUpdate)
Queued(w, n) == ctx[w].cacheUpdate[n].value
ValuesOwned ==
  /\ \A s \in Filled : table[s].value \in DOMAIN memory
  /\ \A s, t \in Filled : s # t => table[s].value # table[t].value
  /\ \A w \in Workers : \A n \in Waiting(w) :
       /\ Queued(w, n) \in DOMAIN memory
       /\ \A s \in Filled : table[s].value # Queued(w, n)
       /\ \A v \in Workers : \A m \in Waiting(v) :
            (v # w \/ m # n) => Queued(v, m) # Queued(w, n)

\* A flush frees values at once, but none that another page is using.
FlushSpares ==
  [][\A w, v \in Workers :
       (flush(w) /\ pc[v] = "hit" /\ ctx[v].hit \in DOMAIN memory)
         => ctx[v].hit \in DOMAIN memory']_vars

\* Between transactions a thread holds no lock, however the last one ended.
LocksReturned ==
  \A w \in Workers : pc[w] = "idle" => \A c \in Caches : lockOut[c][w] = "none"

\* Pages never wait for each other's locks in a circle: while transactions run, one of
\* them waits for nobody.
WaitsFor(w, v, c) ==
  /\ pc[w] = "lock" /\ NextLock(w, c)
  /\ lockOut[c][v] # "none"
  /\ c \in Flushed(ctx[w].page) \/ lockOut[c][v] = "w"
NoCircle ==
  \A w \in Workers : pc[w] # "idle" =>
    \E u \in Workers : pc[u] # "idle" /\ ~ \E v \in Workers, c \in Caches : WaitsFor(u, v, c)

\* The value that check returns stays in memory while the page uses it, since
\* "updates happen at commit time" (urweb.c:5702).
HitInMemory == \A w \in Workers : pc[w] = "hit" => ctx[w].hit \in DOMAIN memory

\* The values of a list of updates are not freed with it, for they are "in the cache
\* now" (urweb.c:5779): no value is in memory that nothing refers to.
NothingLeaks ==
  DOMAIN memory \subseteq {table[s].value : s \in Filled}
    \cup UNION {{Queued(w, n) : n \in 1 .. Len(ctx[w].cacheUpdate)} : w \in Workers}
=============================================================================
