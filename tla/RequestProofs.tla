--------------------------- MODULE RequestProofs ---------------------------
(***************************************************************************)
(* Theorems about the life of a transaction, for any number of threads,    *)
(* retries, requests and transactionals: expunge_lock keeps its count, no  *)
(* SQL transaction is left open on an idle thread, what a handler          *)
(* registered and took is settled once however its run ends, handlers run  *)
(* no more often than retries allow, and requests are atomic.              *)
(***************************************************************************)
EXTENDS Request, TLAPS, FiniteSetTheorems

-----------------------------------------------------------------------------
(***************************************************************************)
(* expunge_lock. Where a thread is says whether it holds the lock. The     *)
(* path that gives it back twice (pc "departed") is entered only when      *)
(* there is an onError handler.                                            *)
(***************************************************************************)
InsidePcs == {"handler", "failed", "commit", "sql", "final", "done", "retry"}
LockInv == /\ pc \in [Threads -> Pcs \ {"departed"}]
           /\ pruning \in BOOLEAN
           /\ LockDiscipline

\* The three things a step can do to the lock.
Stays(t) == /\ pc[t] \in InsidePcs /\ pc'[t] \in InsidePcs
            /\ UNCHANGED <<readers, pruning>>
Outside(t) == /\ pc[t] \notin InsidePcs /\ pc'[t] \in Pcs \ (InsidePcs \cup {"departed"})
              /\ UNCHANGED <<readers, pruning>>
Arrives(t) == /\ pc[t] \notin InsidePcs /\ pc'[t] \in InsidePcs
              /\ ~pruning /\ readers' = readers + 1 /\ UNCHANGED pruning
Departs(t) == /\ pc[t] \in InsidePcs /\ pc'[t] \in Pcs \ (InsidePcs \cup {"departed"})
              /\ uw_transaction_departs /\ UNCHANGED pruning
MovesAlone(t) == pc' = [pc EXCEPT ![t] = pc'[t]]

LEMMA Insides == Inside = {t \in Threads : pc[t] \in InsidePcs}
  BY DEF Inside, InsidePcs

LEMMA InsideFinite == IsFiniteSet(Inside) /\ Cardinality(Inside) \in Nat
<1>1. Inside \subseteq Threads
  BY DEF Inside
<1>2. IsFiniteSet(Inside)
  BY <1>1, ThreadsAssumption, FS_Subset
<1> QED
  BY <1>2, FS_CardinalityType

LEMMA LockKept ==
    ASSUME LockInv, NEW t \in Threads, MovesAlone(t),
           Stays(t) \/ Outside(t) \/ Arrives(t) \/ Departs(t)
    PROVE  LockInv'
<1>1. /\ pc \in [Threads -> Pcs \ {"departed"}] /\ pruning \in BOOLEAN
      /\ readers = Cardinality(Inside) /\ (pruning => Inside = {})
  BY DEF LockInv, LockDiscipline, ReadersExact, ExpungerAlone
<1>2. pc' \in [Threads -> Pcs \ {"departed"}] /\ pruning' = pruning
  BY <1>1 DEF MovesAlone, Stays, Outside, Arrives, Departs, InsidePcs, Pcs
<1>3. \A u \in Threads \ {t} : pc'[u] = pc[u]
  BY <1>1 DEF MovesAlone
<1>4. Inside' = {u \in Threads : pc'[u] \in InsidePcs}
  BY DEF Inside, InsidePcs
<1>5. CASE Stays(t) \/ Outside(t)
  <2>1. Inside' = Inside /\ readers' = readers
    BY <1>3, <1>4, <1>5, Insides DEF Stays, Outside
  <2> QED
    BY <1>1, <1>2, <2>1 DEF LockInv, LockDiscipline, ReadersExact, ExpungerAlone
<1>6. CASE Arrives(t)
  <2>1. Inside' = Inside \cup {t} /\ t \notin Inside
    BY <1>3, <1>4, <1>6, Insides DEF Arrives
  <2>2. Cardinality(Inside') = Cardinality(Inside) + 1
    BY <2>1, InsideFinite, FS_AddElement
  <2> QED
    BY <1>1, <1>2, <1>6, <2>2 DEF Arrives, LockInv, LockDiscipline, ReadersExact, ExpungerAlone
<1>7. CASE Departs(t)
  <2>1. Inside' = Inside \ {t} /\ t \in Inside
    BY <1>3, <1>4, <1>7, Insides DEF Departs
  <2>2. Cardinality(Inside') = Cardinality(Inside) - 1
    BY <2>1, InsideFinite, FS_RemoveElement
  <2>3. Cardinality(Inside) # 0
    BY <2>1, InsideFinite, FS_EmptySet
  <2>4. readers' = readers - 1
    BY <1>1, <1>7, <2>3, InsideFinite DEF Departs, uw_transaction_departs
  <2> QED
    BY <1>1, <1>2, <2>1, <2>2, <2>4 DEF LockInv, LockDiscipline, ReadersExact, ExpungerAlone
<1> QED
  BY <1>5, <1>6, <1>7

LEMMA LockStep ==
    ASSUME LockInv, ~OnError, [Next]_vars
    PROVE  LockInv'
<1>1. pc \in [Threads -> Pcs \ {"departed"}]
  BY DEF LockInv
<1> USE DEF InsidePcs, Pcs, Goto
<1>2. ASSUME NEW t \in Threads, RequestArrives(t) \/ PeriodicWakes(t)
      PROVE  LockInv'
  <2>1. Outside(t) /\ MovesAlone(t)
    BY <1>1, <1>2 DEF RequestArrives, PeriodicWakes, Outside, MovesAlone
  <2> QED
    BY <2>1, LockKept
<1>3. ASSUME NEW t \in Threads, uw_transaction_arrives(t)
      PROVE  LockInv'
  <2>1. Arrives(t) /\ MovesAlone(t)
    BY <1>1, <1>3 DEF uw_transaction_arrives, Arrives, MovesAlone
  <2> QED
    BY <2>1, LockKept
<1>4. ASSUME NEW t \in Threads, Handler(t) PROVE LockInv'
  <2>1. Stays(t) /\ MovesAlone(t)
    <3>1. CASE uw_ensure_transaction(t) \/ uw_login(t) \/ uw_set_error_message(t) \/ HandlerReturns(t)
      BY <1>1, <3>1 DEF uw_ensure_transaction, uw_login, uw_set_error_message, HandlerReturns,
                        Running, Stays, MovesAlone
    <3>2. CASE BeginFails(t) \/ \E fk \in HandlerFails : HandlerRaises(t, fk)
      BY <1>1, <3>2 DEF BeginFails, HandlerRaises, Raise, Running, Stays, MovesAlone
    <3>3. CASE \E kind \in Kinds : uw_register_transactional(t, kind)
      BY <1>1, <3>3 DEF uw_register_transactional, Running, Stays, MovesAlone
    <3> QED
      BY <1>4, <3>1, <3>2, <3>3 DEF Handler
  <2> QED
    BY <2>1, LockKept
<1>5. ASSUME NEW t \in Threads, uw_commit(t) PROVE LockInv'
  <2>1. /\ pc[t] \in {"commit", "sql", "final"} /\ UNCHANGED <<readers, pruning>>
        /\ \E l \in {"done", "sql", "final"} : Goto(t, l)
    <3>1. CASE CommitUndoables(t)
      <4>1. /\ pc[t] = "commit" /\ UNCHANGED <<readers, pruning>>
            /\ Goto(t, "done") \/ Goto(t, "sql")
        BY <3>1 DEF CommitUndoables
      <4> QED
        BY <4>1
    <3>2. CASE db_commit(t) \/ no_db_commit(t)
      BY <3>2 DEF db_commit, no_db_commit
    <3>3. CASE db_commit_conflict(t) \/ db_commit_error(t) \/ CommitFinals(t)
      BY <3>3 DEF db_commit_conflict, db_commit_error, CommitFinals
    <3> QED
      BY <1>5, <3>1, <3>2, <3>3 DEF uw_commit
  <2>2. Stays(t) /\ MovesAlone(t)
    BY <1>1, <2>1 DEF Stays, MovesAlone
  <2> QED
    BY <2>2, LockKept
<1>6. ASSUME NEW t \in Threads, uw_request(t) PROVE LockInv'
  <2>1. MovesAlone(t) /\ (Stays(t) \/ Departs(t))
    <3>1. CASE Answered(t)
      BY <1>1, <3>1 DEF Answered, Answer, Departs, MovesAlone
    <3>2. CASE CommitFailedForGood(t) \/ HandlerFailedForGood(t)
      <4>1. /\ pc[t] \in {"done", "failed"} /\ Goto(t, "idle")
            /\ uw_transaction_departs /\ UNCHANGED pruning
        BY <3>2 DEF CommitFailedForGood, HandlerFailedForGood, CommitFailed, OutOfRetries, Failed,
                    GivesUp, Answer
      <4> QED
        BY <1>1, <4>1 DEF Departs, MovesAlone
    <3>3. CASE BoundedRetry(t) \/ UnlimitedRetry(t) \/ HandlerFailedOnError(t)
      <4>1. /\ pc[t] = "failed" /\ Goto(t, "retry") /\ UNCHANGED <<readers, pruning>>
        BY <3>3 DEF BoundedRetry, UnlimitedRetry, HandlerFailedOnError, OutOfRetries, Failed
      <4> QED
        BY <1>1, <4>1 DEF Stays, MovesAlone
    <3>4. CASE Restarts(t)
      <4>1. /\ pc[t] = "retry" /\ uw_transaction_departs /\ UNCHANGED pruning
            /\ Goto(t, "arrive") \/ Goto(t, "idle")
        BY <1>1, <3>4 DEF Restarts, Answer
      <4> QED
        BY <1>1, <4>1 DEF Departs, MovesAlone
    <3>5. ~CommitFailedOnError(t)
      BY DEF CommitFailedOnError
    <3> QED
      BY <1>6, <3>1, <3>2, <3>3, <3>4, <3>5 DEF uw_request
  <2> QED
    BY <2>1, LockKept
<1>7. ASSUME NEW t \in Threads, periodic_loop(t) PROVE LockInv'
  <2>1. MovesAlone(t) /\ (Stays(t) \/ Departs(t))
    <3>1. CASE PeriodicEnds(t)
      BY <1>1, <3>1 DEF PeriodicEnds, Departs, MovesAlone
    <3>2. CASE PeriodicFails(t)
      <4>1. /\ pc[t] = "failed" /\ UNCHANGED pruning
            /\ \/ Goto(t, "handler") /\ UNCHANGED readers
               \/ (Goto(t, "idle") \/ Goto(t, "dead")) /\ uw_transaction_departs
        BY <3>2 DEF PeriodicFails
      <4> QED
        BY <1>1, <4>1 DEF Stays, Departs, MovesAlone
    <3> QED
      BY <1>7, <3>1, <3>2 DEF periodic_loop
  <2> QED
    BY <2>1, LockKept
<1>8. CASE uw_expunger_arrives
  <2>1. Inside = {}
    BY <1>8, InsideFinite, FS_EmptySet
       DEF uw_expunger_arrives, NoTransaction, LockInv, LockDiscipline, ReadersExact
  <2>2. Inside' = Inside /\ readers' = readers /\ pc' = pc /\ pruning' \in BOOLEAN
    BY <1>8 DEF uw_expunger_arrives, Inside
  <2> QED
    BY <2>1, <2>2 DEF LockInv, LockDiscipline, ReadersExact, ExpungerAlone
<1>9. CASE uw_expunger_departs \/ UNCHANGED vars
  <2>1. Inside' = Inside /\ readers' = readers /\ pc' = pc
    BY <1>9 DEF uw_expunger_departs, vars, Inside
  <2>2. pruning' \in BOOLEAN /\ (pruning' => pruning)
    <3>1. pruning \in BOOLEAN
      BY DEF LockInv
    <3>2. CASE uw_expunger_departs
      BY <3>2 DEF uw_expunger_departs
    <3>3. CASE UNCHANGED vars
      <4>1. pruning' = pruning
        BY <3>3 DEF vars
      <4> QED
        BY <3>1, <4>1
    <3> QED
      BY <1>9, <3>2, <3>3
  <2>3. (readers' = Cardinality(Inside)') /\ (pruning' => Inside' = {})
    BY <2>1, <2>2 DEF LockInv, LockDiscipline, ReadersExact, ExpungerAlone
  <2> QED
    BY <2>1, <2>2, <2>3 DEF LockInv, LockDiscipline, ReadersExact, ExpungerAlone
<1> QED
  BY <1>2, <1>3, <1>4, <1>5, <1>6, <1>7, <1>8, <1>9 DEF Next, Step

\* Unless there is an onError handler, expunge_lock counts exactly the transactions that are
\* under way, however they end, and the expunger runs alone.
THEOREM LockDisciplined ==
    ASSUME ~OnError
    PROVE  Spec => []LockDiscipline
<1>1. Init => LockInv
  <2> SUFFICES ASSUME Init PROVE LockInv
    OBVIOUS
  <2>1. Inside = {}
    BY DEF Init, Inside
  <2>2. Cardinality(Inside) = 0
    BY <2>1, FS_EmptySet
  <2> QED
    BY <2>1, <2>2 DEF Init, LockInv, LockDiscipline, ReadersExact, ExpungerAlone, Pcs
<1>2. LockInv /\ [Next]_vars => LockInv'
  BY LockStep
<1>3. LockInv => LockDiscipline
  BY DEF LockInv
<1> QED
  BY <1>1, <1>2, <1>3, PTL DEF Spec

-----------------------------------------------------------------------------
(***************************************************************************)
(* The SQL transaction. transaction_started is what the code goes by, and  *)
(* uw_reset clears it without a look at the connection: an open            *)
(* transaction would be forgotten if a thread got that far with one. No    *)
(* thread does, where ROLLBACK succeeds and COMMIT answers yes or          *)
(* "conflict".                                                             *)
(***************************************************************************)
QuietPcs == {"idle", "arrive", "final", "done", "departed", "dead"}

\* What is known of one thread: the shapes of its records and its connection.
IsContext(c) == c = [transactionals |-> c.transactionals, client |-> c.client,
                     transaction_started |-> c.transaction_started,
                     error_message |-> c.error_message]
IsState(s) == s = [ctx |-> s.ctx, try |-> s.try, conn |-> s.conn] /\ IsContext(s.ctx)
Known(c, d) == d \in {"idle", "open"} /\ (d = "open" => c.transaction_started = TRUE)

ConnInv == /\ pc \in [Threads -> Pcs]
           /\ ctx = [t \in Threads |-> ctx[t]] /\ conn = [t \in Threads |-> conn[t]]
           /\ \A t \in Threads : /\ IsContext(ctx[t]) /\ Known(ctx[t], conn[t])
                                 /\ pc[t] \in QuietPcs => conn[t] = "idle"

\* Calling handlers and releasing the client touch neither context nor connection.
Keeps(s, r) == IsState(r) /\ r.ctx = s.ctx /\ r.conn = s.conn

LEMMA CalledKeeps ==
    ASSUME NEW s, IsState(s), NEW what, NEW kinds, NEW lo
    PROVE  Keeps(s, Called(s, what, kinds, lo))
<1> DEFINE y == Called(s, what, kinds, lo).try
<1>1. Called(s, what, kinds, lo) = [s EXCEPT !.try = y]
  BY DEF Called, IsState
<1> HIDE DEF y
<1>2. [s EXCEPT !.try = y] = [ctx |-> s.ctx, try |-> y, conn |-> s.conn]
  BY DEF IsState
<1> HIDE DEF Called
<1> QED
  BY <1>1, <1>2 DEF Keeps, IsState

LEMMA ReleasedKeeps == ASSUME NEW s, IsState(s) PROVE Keeps(s, Released(s))
  BY DEF Keeps, Released, IsState

LEMMA UndoneAndFreedKeeps == ASSUME NEW s, IsState(s) PROVE Keeps(s, UndoneAndFreed(s))
<1>1. Keeps(s, Undone(s))
  BY CalledKeeps DEF Undone
<1>2. Keeps(Undone(s), Freed(Undone(s)))
  BY <1>1, CalledKeeps DEF Freed, Keeps
<1> QED
  BY <1>1, <1>2 DEF UndoneAndFreed, Keeps

\* The state s with another context.
WithCtx(s, c) == [ctx |-> c, try |-> s.try, conn |-> s.conn]

LEMMA WithCtxState ==
    ASSUME NEW s, NEW c, IsContext(c)
    PROVE  IsState(WithCtx(s, c)) /\ WithCtx(s, c).ctx = c /\ WithCtx(s, c).conn = s.conn
  BY DEF WithCtx, IsState

LEMMA CtxUpdated ==
    ASSUME NEW s, IsState(s), NEW c
    PROVE  [s EXCEPT !.ctx = c] = WithCtx(s, c)
  BY DEF WithCtx, IsState

LEMMA CtxFields ==
    ASSUME NEW s, IsState(s), NEW x
    PROVE  /\ [s EXCEPT !.ctx.transactionals = x]
                = WithCtx(s, [s.ctx EXCEPT !.transactionals = x])
           /\ [s EXCEPT !.ctx.client = x] = WithCtx(s, [s.ctx EXCEPT !.client = x])
           /\ [s EXCEPT !.ctx.error_message = x]
                = WithCtx(s, [s.ctx EXCEPT !.error_message = x])
           /\ [s EXCEPT !.ctx.transaction_started = x]
                = WithCtx(s, [s.ctx EXCEPT !.transaction_started = x])
<1> DEFINE c1 == [s.ctx EXCEPT !.transactionals = x]
           c2 == [s.ctx EXCEPT !.client = x]
           c3 == [s.ctx EXCEPT !.error_message = x]
           c4 == [s.ctx EXCEPT !.transaction_started = x]
<1>1. /\ [s EXCEPT !.ctx.transactionals = x] = [s EXCEPT !.ctx = c1]
      /\ [s EXCEPT !.ctx.client = x] = [s EXCEPT !.ctx = c2]
      /\ [s EXCEPT !.ctx.error_message = x] = [s EXCEPT !.ctx = c3]
      /\ [s EXCEPT !.ctx.transaction_started = x] = [s EXCEPT !.ctx = c4]
  OBVIOUS
<1> HIDE DEF c1, c2, c3, c4
<1>2. /\ [s EXCEPT !.ctx = c1] = WithCtx(s, c1) /\ [s EXCEPT !.ctx = c2] = WithCtx(s, c2)
      /\ [s EXCEPT !.ctx = c3] = WithCtx(s, c3) /\ [s EXCEPT !.ctx = c4] = WithCtx(s, c4)
  BY CtxUpdated, Zenon
<1> QED
  BY <1>1, <1>2, Zenon DEF c1, c2, c3, c4

LEMMA Contexts ==
    ASSUME NEW c, IsContext(c), NEW x
    PROVE  /\ IsContext([c EXCEPT !.transactionals = x])
           /\ IsContext([c EXCEPT !.client = x]) /\ IsContext([c EXCEPT !.error_message = x])
           /\ IsContext([c EXCEPT !.transaction_started = x])
           /\ [c EXCEPT !.transactionals = x].transaction_started = c.transaction_started
           /\ [c EXCEPT !.client = x].transaction_started = c.transaction_started
           /\ [c EXCEPT !.error_message = x].transaction_started = c.transaction_started
           /\ [c EXCEPT !.transaction_started = x].transaction_started = x
  BY DEF IsContext

\* A rollback that succeeds leaves no transaction open.
LEMMA RollbackCloses ==
    ASSUME NEW s, IsState(s), Known(s.ctx, s.conn)
    PROVE  IsState(AfterRollback(s, TRUE)) /\ AfterRollback(s, TRUE).conn = "idle"
<1> DEFINE u == UndoneAndFreed(Released(s))
<1>1. Keeps(s, u)
  BY ReleasedKeeps, UndoneAndFreedKeeps DEF Keeps
<1>2. IsState(RolledBack(s)) /\ RolledBack(s).conn = s.conn
  <2>1. IsState(u) /\ u.conn = s.conn
    BY <1>1 DEF Keeps
  <2> HIDE DEF u
  <2> DEFINE y == [u.try EXCEPT !.sql = IF s.ctx.transaction_started THEN "aborted" ELSE @]
              d == [u.ctx EXCEPT !.transaction_started = FALSE]
              w == [u EXCEPT !.ctx = d]
  <2>2. RolledBack(s) = [ctx |-> d, try |-> y, conn |-> u.conn]
    <3>1. RolledBack(s) = [w EXCEPT !.try = y]
      <4>1. u.try = w.try
        BY <2>1 DEF IsState
      <4> QED
        BY <4>1 DEF RolledBack, u
    <3>2. w = [ctx |-> d, try |-> u.try, conn |-> u.conn]
      BY <2>1, CtxUpdated, Zenon DEF WithCtx
    <3> HIDE DEF y, d, w
    <3>3. [w EXCEPT !.try = y] = [ctx |-> d, try |-> y, conn |-> u.conn]
      BY <3>2
    <3> QED
      BY <3>1, <3>3
  <2>3. IsContext([u.ctx EXCEPT !.transaction_started = FALSE])
    BY <2>1, Contexts DEF IsState
  <2> QED
    BY <2>1, <2>2, <2>3 DEF IsState
<1>3. CASE s.ctx.transaction_started
  BY <1>2, <1>3 DEF AfterRollback, IsState
<1>4. CASE ~s.ctx.transaction_started
  BY <1>2, <1>4 DEF AfterRollback, Known
<1> QED
  BY <1>3, <1>4

LEMMA ResetKeeps ==
    ASSUME NEW s, IsState(s)
    PROVE  /\ IsState(uw_reset_keep_error_message(s)) /\ IsState(uw_reset_keep_request(s))
           /\ IsState(uw_reset(s))
           /\ uw_reset_keep_error_message(s).conn = s.conn
           /\ uw_reset_keep_error_message(s).ctx.transaction_started = s.ctx.transaction_started
           /\ uw_reset_keep_request(s).conn = s.conn /\ uw_reset(s).conn = s.conn
<1> DEFINE a == [s EXCEPT !.ctx.transactionals = <<>>]
           b == uw_reset_keep_error_message(s)
           c == uw_reset_keep_request(s)
           ctxA == [s.ctx EXCEPT !.transactionals = <<>>]
           ctxB == [a.ctx EXCEPT !.client = FALSE]
           ctxC == [b.ctx EXCEPT !.error_message = FALSE]
           ctxD == [c.ctx EXCEPT !.transaction_started = FALSE]
<1>1. /\ IsState(a) /\ a.conn = s.conn
      /\ a.ctx.transaction_started = s.ctx.transaction_started
  <2>1. IsContext(ctxA) /\ ctxA.transaction_started = s.ctx.transaction_started
    BY Contexts DEF IsState
  <2>2. a = WithCtx(s, ctxA)
    BY CtxFields, Zenon
  <2> HIDE DEF a, ctxA
  <2>3. IsState(WithCtx(s, ctxA)) /\ WithCtx(s, ctxA).ctx = ctxA /\ WithCtx(s, ctxA).conn = s.conn
    BY <2>1, WithCtxState
  <2> QED
    BY <2>1, <2>2, <2>3
<1>2. /\ IsState(b) /\ b.conn = s.conn
      /\ b.ctx.transaction_started = s.ctx.transaction_started
  <2>1. b = [a EXCEPT !.ctx.client = FALSE]
    BY DEF uw_reset_keep_error_message
  <2> HIDE DEF a, b
  <2>2. IsContext(ctxB) /\ ctxB.transaction_started = a.ctx.transaction_started
    BY <1>1, Contexts DEF IsState
  <2>3. b = WithCtx(a, ctxB)
    BY <1>1, <2>1, CtxFields, Zenon
  <2> HIDE DEF ctxB
  <2>4. IsState(WithCtx(a, ctxB)) /\ WithCtx(a, ctxB).ctx = ctxB /\ WithCtx(a, ctxB).conn = a.conn
    BY <2>2, WithCtxState
  <2> QED
    BY <1>1, <2>2, <2>3, <2>4
<1>3. IsState(c) /\ c.conn = s.conn
  <2>1. c = [b EXCEPT !.ctx.error_message = FALSE]
    BY DEF uw_reset_keep_request
  <2> HIDE DEF b, c
  <2>2. IsContext(ctxC)
    BY <1>2, Contexts DEF IsState
  <2>3. c = WithCtx(b, ctxC)
    BY <1>2, <2>1, CtxFields, Zenon
  <2> HIDE DEF ctxC
  <2>4. IsState(WithCtx(b, ctxC)) /\ WithCtx(b, ctxC).conn = b.conn
    BY <2>2, WithCtxState
  <2> QED
    BY <1>2, <2>3, <2>4
<1>4. IsState(uw_reset(s)) /\ uw_reset(s).conn = s.conn
  <2>1. uw_reset(s) = [c EXCEPT !.ctx.transaction_started = FALSE]
    BY DEF uw_reset
  <2> HIDE DEF c
  <2>2. IsContext(ctxD)
    BY <1>3, Contexts DEF IsState
  <2>3. uw_reset(s) = WithCtx(c, ctxD)
    BY <1>3, <2>1, CtxFields, Zenon
  <2> HIDE DEF ctxD
  <2>4. IsState(WithCtx(c, ctxD)) /\ WithCtx(c, ctxD).conn = c.conn
    BY <2>2, WithCtxState
  <2> QED
    BY <1>3, <2>3, <2>4
<1> QED
  BY <1>2, <1>3, <1>4

LEMMA StateKnown ==
    ASSUME ConnInv, NEW t \in Threads
    PROVE  /\ IsState(State(t)) /\ Known(State(t).ctx, State(t).conn)
           /\ State(t).ctx = ctx[t] /\ State(t).conn = conn[t]
  BY DEF ConnInv, State, IsState

\* A step of one thread, by what it makes of its context and connection.
LEMMA ConnKept ==
    ASSUME ConnInv, NEW t \in Threads, NEW l \in Pcs, Goto(t, l), NEW c, NEW d,
           ctx' = [ctx EXCEPT ![t] = c], conn' = [conn EXCEPT ![t] = d],
           IsContext(c), Known(c, d), l \in QuietPcs => d = "idle"
    PROVE  ConnInv'
<1>1. /\ pc' \in [Threads -> Pcs]
      /\ ctx' = [u \in Threads |-> ctx'[u]] /\ conn' = [u \in Threads |-> conn'[u]]
  BY DEF ConnInv, Goto
<1>2. pc'[t] = l /\ ctx'[t] = c /\ conn'[t] = d
  BY DEF ConnInv, Goto
<1>3. \A u \in Threads \ {t} : pc'[u] = pc[u] /\ ctx'[u] = ctx[u] /\ conn'[u] = conn[u]
  BY DEF ConnInv, Goto
<1> QED
  BY <1>1, <1>2, <1>3 DEF ConnInv

LEMMA MoveKept ==
    ASSUME ConnInv, NEW t \in Threads, NEW l \in Pcs, Goto(t, l), UNCHANGED <<ctx, conn>>,
           l \in QuietPcs => conn[t] = "idle"
    PROVE  ConnInv'
<1>1. /\ ctx' = [ctx EXCEPT ![t] = ctx[t]] /\ conn' = [conn EXCEPT ![t] = conn[t]]
      /\ IsContext(ctx[t]) /\ Known(ctx[t], conn[t])
  BY DEF ConnInv
<1> QED
  BY <1>1, ConnKept

LEMMA BecomesKept ==
    ASSUME ConnInv, NEW t \in Threads, NEW l \in Pcs, Goto(t, l), NEW s, Becomes(t, s),
           IsState(s), Known(s.ctx, s.conn), l \in QuietPcs => s.conn = "idle"
    PROVE  ConnInv'
  BY ConnKept DEF Becomes, IsState

\* The handlers that commit may set the error message, nothing else.
LEMMA CommittedKeeps ==
    ASSUME NEW s, IsState(s), NEW kind, NEW stop
    PROVE  LET r == Committed(s, kind, stop)
           IN  /\ IsState(r) /\ r.conn = s.conn
               /\ r.ctx.transaction_started = s.ctx.transaction_started
<1> DEFINE u == Called(s, "commit", {kind}, stop)
           r == Committed(s, kind, stop)
           x == u.ctx.error_message \/ stop # 0
           c == [u.ctx EXCEPT !.error_message = x]
<1>1. Keeps(s, u)
  BY CalledKeeps, Zenon
<1>2. r = [u EXCEPT !.ctx.error_message = x]
  BY DEF Committed
<1> HIDE DEF u, r, x
<1>3. IsContext(c) /\ c.transaction_started = u.ctx.transaction_started
  BY <1>1, Contexts DEF Keeps, IsState
<1>4. r = WithCtx(u, c)
  BY <1>1, <1>2, CtxFields, Zenon DEF Keeps
<1> HIDE DEF c
<1>5. IsState(r) /\ r.ctx = c /\ r.conn = u.conn
  BY <1>3, <1>4, WithCtxState
<1> QED
  BY <1>1, <1>3, <1>5 DEF Keeps, r

LEMMA CommitConn ==
    ASSUME ConnInv, "error" \notin CommitAnswers, ~RollbackFails,
           NEW t \in Threads, uw_commit(t)
    PROVE  ConnInv'
<1>1. /\ IsState(State(t)) /\ Known(State(t).ctx, State(t).conn)
      /\ State(t).ctx = ctx[t] /\ State(t).conn = conn[t]
  BY StateKnown
<1>2. CASE CommitUndoables(t)
  <2>1. PICK s : /\ s = State(t) \/ \E stop : s = Committed(State(t), "undo", stop)
                 /\ \/ /\ \E ok \in RollbackAnswers(s) : Becomes(t, AfterRollback(s, ok))
                       /\ Goto(t, "done")
                    \/ Becomes(t, s) /\ Goto(t, "sql")
    BY <1>2 DEF CommitUndoables
  <2>2. IsState(s) /\ Known(s.ctx, s.conn)
    BY <1>1, <2>1, CommittedKeeps DEF Known
  <2>3. CASE Becomes(t, AfterRollback(s, TRUE)) /\ Goto(t, "done")
    <3>1. /\ IsState(AfterRollback(s, TRUE)) /\ AfterRollback(s, TRUE).conn = "idle"
      BY <2>2, RollbackCloses
    <3> QED
      BY <2>3, <3>1, BecomesKept DEF Known, Pcs
  <2>4. CASE Becomes(t, s) /\ Goto(t, "sql")
    BY <2>2, <2>4, BecomesKept DEF Pcs, QuietPcs
  <2>5. RollbackAnswers(s) = {TRUE}
    BY DEF RollbackAnswers
  <2> QED
    BY <2>1, <2>3, <2>4, <2>5
<1>3. CASE db_commit(t)
  <2> DEFINE c == [ctx[t] EXCEPT !.transaction_started = FALSE]
  <2>1. /\ ctx' = [ctx EXCEPT ![t] = c] /\ conn' = [conn EXCEPT ![t] = "idle"]
        /\ Goto(t, "final")
    BY <1>3 DEF db_commit, Becomes, State
  <2>2. IsContext(c)
    BY <1>1, Contexts DEF IsState
  <2> QED
    BY <2>1, <2>2, ConnKept DEF Known, Pcs
<1>4. CASE no_db_commit(t)
  <2>1. conn[t] = "idle" /\ Goto(t, "final") /\ UNCHANGED <<ctx, conn>>
    BY <1>1, <1>4 DEF no_db_commit, Known
  <2> QED
    BY <2>1, MoveKept DEF Pcs
<1>5. CASE db_commit_conflict(t)
  <2> DEFINE u == UndoneAndFreed(Released(State(t)))
  <2>1. Keeps(State(t), u)
    BY <1>1, ReleasedKeeps, UndoneAndFreedKeeps DEF Keeps
  <2>2. PICK r : Becomes(t, r) /\ r = [u EXCEPT !.conn = "idle", !.try.sql = "aborted"]
    BY <1>5 DEF db_commit_conflict
  <2> HIDE DEF u
  <2>3. r.ctx = ctx[t] /\ r.conn = "idle"
    BY <1>1, <2>1, <2>2 DEF Keeps, IsState
  <2>4. ctx' = [ctx EXCEPT ![t] = ctx[t]] /\ conn' = [conn EXCEPT ![t] = "idle"]
    BY <2>2, <2>3 DEF Becomes
  <2>5. IsContext(ctx[t]) /\ Goto(t, "done")
    BY <1>1, <1>5 DEF db_commit_conflict, IsState
  <2> QED
    BY <2>4, <2>5, ConnKept DEF Known, Pcs
<1>6. CASE CommitFinals(t)
  <2>1. conn[t] = "idle" /\ Goto(t, "done")
    BY <1>6 DEF CommitFinals, ConnInv, QuietPcs
  <2>2. PICK stop, s : /\ s = Released(Committed(State(t), "final", stop))
                       /\ Becomes(t, IF stop = 0 THEN Freed(s) ELSE UndoneAndFreed(s))
    BY <1>6 DEF CommitFinals
  <2>3. IsState(s) /\ s.conn = "idle"
    BY <1>1, <2>1, <2>2, CommittedKeeps, ReleasedKeeps DEF Keeps
  <2>4. Keeps(s, Freed(s)) /\ Keeps(s, UndoneAndFreed(s))
    BY <2>3, CalledKeeps, UndoneAndFreedKeeps DEF Freed
  <2>5. PICK r : Becomes(t, r) /\ IsState(r) /\ r.conn = "idle"
    BY <2>2, <2>3, <2>4 DEF Keeps
  <2> QED
    BY <2>1, <2>5, BecomesKept DEF Known, Pcs
<1>7. ~db_commit_error(t)
  BY DEF db_commit_error
<1> QED
  BY <1>2, <1>3, <1>4, <1>5, <1>6, <1>7 DEF uw_commit

LEMMA RequestConn ==
    ASSUME ConnInv, ~RollbackFails, NEW t \in Threads, uw_request(t)
    PROVE  ConnInv'
<1> DEFINE s == State(t)
           e == uw_reset_keep_error_message(s)
<1>1. /\ IsState(s) /\ Known(s.ctx, s.conn) /\ s.conn = conn[t]
      /\ IsState(e) /\ Known(e.ctx, e.conn) /\ e.conn = conn[t]
  BY StateKnown, ResetKeeps DEF Known
<1>2. ASSUME NEW r, IsState(r), Known(r.ctx, r.conn), GivesUp(t, r) PROVE ConnInv'
  <2> DEFINE q == uw_reset_keep_error_message(AfterRollback(r, TRUE))
  <2>1. Becomes(t, q) /\ Goto(t, "idle")
    BY <1>2 DEF GivesUp, RollbackAnswers, Answer
  <2>2. IsState(q) /\ q.conn = "idle"
    BY <1>2, RollbackCloses, ResetKeeps
  <2> QED
    BY <2>1, <2>2, BecomesKept DEF Known, Pcs
<1>3. CASE Answered(t)
  <2>1. Goto(t, "idle") /\ UNCHANGED <<ctx, conn>> /\ conn[t] = "idle"
    BY <1>3 DEF Answered, Answer, ConnInv, QuietPcs
  <2> QED
    BY <2>1, MoveKept DEF Pcs
<1>4. CASE CommitFailedForGood(t)
  BY <1>1, <1>2, <1>4 DEF CommitFailedForGood
<1>5. CASE CommitFailedOnError(t)
  <2>1. Becomes(t, e) /\ Goto(t, "departed") /\ conn[t] = "idle"
    BY <1>5 DEF CommitFailedOnError, CommitFailed, ConnInv, QuietPcs
  <2> QED
    BY <1>1, <2>1, BecomesKept DEF Pcs
<1>6. CASE BoundedRetry(t) \/ UnlimitedRetry(t) \/ HandlerFailedOnError(t)
  <2>1. Goto(t, "retry") /\ UNCHANGED <<ctx, conn>>
    BY <1>6 DEF BoundedRetry, UnlimitedRetry, HandlerFailedOnError
  <2> QED
    BY <2>1, MoveKept DEF Pcs, QuietPcs
<1>7. CASE HandlerFailedForGood(t)
  BY <1>1, <1>2, <1>7 DEF HandlerFailedForGood
<1>8. CASE Restarts(t)
  <2> DEFINE q == uw_reset_keep_request(AfterRollback(s, TRUE))
  <2>1. Becomes(t, q) /\ Goto(t, "arrive")
    BY <1>8 DEF Restarts, RollbackAnswers
  <2>2. IsState(q) /\ q.conn = "idle"
    BY <1>1, RollbackCloses, ResetKeeps
  <2> QED
    BY <2>1, <2>2, BecomesKept DEF Known, Pcs
<1> QED
  BY <1>3, <1>4, <1>5, <1>6, <1>7, <1>8 DEF uw_request

LEMMA HandlerConn ==
    ASSUME ConnInv, NEW t \in Threads, Handler(t)
    PROVE  ConnInv'
<1>1. pc[t] = "handler" /\ IsContext(ctx[t]) /\ Known(ctx[t], conn[t])
  <2>1. IsContext(ctx[t]) /\ Known(ctx[t], conn[t])
    BY DEF ConnInv
  <2>2. Running(t)
    BY DEF Handler, uw_ensure_transaction, BeginFails, uw_login, HandlerRaises,
           uw_register_transactional, uw_set_error_message, HandlerReturns
  <2> QED
    BY <2>1, <2>2 DEF Running
<1>2. Goto(t, "handler") <=> pc' = pc
  BY <1>1 DEF Goto, ConnInv
<1>3. conn = [conn EXCEPT ![t] = conn[t]]
  BY DEF ConnInv
<1>4. CASE uw_ensure_transaction(t)
  <2> DEFINE c == [ctx[t] EXCEPT !.transaction_started = TRUE]
  <2>1. /\ ctx' = [ctx EXCEPT ![t] = c] /\ conn' = [conn EXCEPT ![t] = "open"]
        /\ Goto(t, "handler")
    BY <1>2, <1>4 DEF uw_ensure_transaction
  <2>2. IsContext(c) /\ c.transaction_started = TRUE
    BY <1>1, Contexts
  <2> QED
    BY <2>1, <2>2, ConnKept DEF Known, Pcs, QuietPcs
<1>5. ASSUME NEW d, Known(ctx[t], d), conn' = [conn EXCEPT ![t] = d],
             ctx' = [ctx EXCEPT ![t].error_message = TRUE],
             Goto(t, "failed") \/ Goto(t, "handler")
      PROVE  ConnInv'
  <2> DEFINE c == [ctx[t] EXCEPT !.error_message = TRUE]
  <2>1. ctx' = [ctx EXCEPT ![t] = c]
    BY <1>5
  <2>2. IsContext(c) /\ c.transaction_started = ctx[t].transaction_started
    BY <1>1, Contexts
  <2> HIDE DEF c
  <2>3. Known(c, d)
    BY <1>5, <2>2 DEF Known
  <2> QED
    BY <1>5, <2>1, <2>2, <2>3, ConnKept DEF Pcs, QuietPcs
<1>6. CASE BeginFails(t)
  BY <1>5, <1>6 DEF BeginFails, Raise, Known
<1>7. CASE \E fk \in HandlerFails : HandlerRaises(t, fk)
  BY <1>1, <1>3, <1>5, <1>7 DEF HandlerRaises, Raise
<1>8. CASE uw_set_error_message(t)
  BY <1>1, <1>2, <1>3, <1>5, <1>8 DEF uw_set_error_message
<1>9. CASE uw_login(t)
  <2> DEFINE c == [ctx[t] EXCEPT !.client = TRUE]
  <2>1. ctx' = [ctx EXCEPT ![t] = c] /\ conn' = conn /\ Goto(t, "handler")
    BY <1>2, <1>9 DEF uw_login
  <2>2. IsContext(c) /\ c.transaction_started = ctx[t].transaction_started
    BY <1>1, Contexts
  <2> HIDE DEF c
  <2> QED
    BY <1>1, <1>3, <2>1, <2>2, ConnKept DEF Known, Pcs, QuietPcs
<1>10. CASE \E kind \in Kinds : uw_register_transactional(t, kind)
  <2>1. PICK x : /\ ctx' = [ctx EXCEPT ![t] = [ctx[t] EXCEPT !.transactionals = x]]
                 /\ conn' = conn /\ Goto(t, "handler")
    BY <1>2, <1>10 DEF uw_register_transactional
  <2> DEFINE c == [ctx[t] EXCEPT !.transactionals = x]
  <2>2. IsContext(c) /\ c.transaction_started = ctx[t].transaction_started
    BY <1>1, Contexts
  <2>3. ctx' = [ctx EXCEPT ![t] = c]
    BY <2>1
  <2> HIDE DEF c
  <2> QED
    BY <1>1, <1>3, <2>1, <2>2, <2>3, ConnKept DEF Known, Pcs, QuietPcs
<1>11. CASE HandlerReturns(t)
  BY <1>11, MoveKept DEF HandlerReturns, Pcs, QuietPcs
<1> QED
  BY <1>4, <1>6, <1>7, <1>8, <1>9, <1>10, <1>11 DEF Handler

LEMMA ConnStep ==
    ASSUME ConnInv, "error" \notin CommitAnswers, ~RollbackFails, [Next]_vars
    PROVE  ConnInv'
<1>1. ASSUME NEW t \in Threads, RequestArrives(t) \/ PeriodicWakes(t)
      PROVE  ConnInv'
  <2> DEFINE c == uw_reset(State(t)).ctx
  <2>1. conn[t] = "idle" /\ Goto(t, "arrive") /\ ctx' = [ctx EXCEPT ![t] = c]
    BY <1>1 DEF RequestArrives, PeriodicWakes, ConnInv, QuietPcs
  <2>2. conn' = [conn EXCEPT ![t] = "idle"]
    BY <1>1, <2>1 DEF RequestArrives, PeriodicWakes, ConnInv
  <2>3. IsContext(c)
    BY StateKnown, ResetKeeps DEF IsState
  <2> HIDE DEF c
  <2> QED
    BY <2>1, <2>2, <2>3, ConnKept DEF Known, Pcs
<1>2. ASSUME NEW t \in Threads, uw_transaction_arrives(t)
      PROVE  ConnInv'
  BY <1>2, MoveKept DEF uw_transaction_arrives, Pcs, QuietPcs
<1>3. ASSUME NEW t \in Threads, periodic_loop(t)
      PROVE  ConnInv'
  <2>1. CASE PeriodicEnds(t)
    <3>1. Goto(t, "idle") /\ UNCHANGED <<ctx, conn>> /\ conn[t] = "idle"
      BY <2>1 DEF PeriodicEnds, ConnInv, QuietPcs
    <3> QED
      BY <3>1, MoveKept DEF Pcs
  <2>2. CASE PeriodicFails(t)
    <3> DEFINE s == uw_reset(AfterRollback(State(t), TRUE))
    <3>1. PICK l \in Pcs : /\ ctx' = [ctx EXCEPT ![t] = s.ctx]
                           /\ conn' = [conn EXCEPT ![t] = s.conn] /\ Goto(t, l)
      BY <2>2 DEF PeriodicFails, RollbackAnswers, Becomes, Pcs
    <3>2. IsState(s) /\ s.conn = "idle"
      BY StateKnown, RollbackCloses, ResetKeeps
    <3> HIDE DEF s
    <3>3. IsContext(s.ctx) /\ Known(s.ctx, s.conn)
      BY <3>2 DEF IsState, Known
    <3> QED
      BY <3>1, <3>2, <3>3, ConnKept
  <2> QED
    BY <1>3, <2>1, <2>2 DEF periodic_loop
<1>4. CASE uw_expunger_arrives \/ uw_expunger_departs \/ UNCHANGED vars
  <2>1. UNCHANGED <<pc, ctx, conn>>
    BY <1>4 DEF uw_expunger_arrives, uw_expunger_departs, vars
  <2> QED
    BY <2>1 DEF ConnInv
<1> QED
  BY <1>1, <1>2, <1>3, <1>4, HandlerConn, CommitConn, RequestConn DEF Next, Step

\* Where COMMIT answers yes or "conflict" and ROLLBACK succeeds, no thread keeps an SQL
\* transaction open while it has nothing to do, though uw_reset forgets one unseen.
THEOREM NoneIdle ==
    ASSUME "error" \notin CommitAnswers, ~RollbackFails
    PROVE  Spec => []NoIdleTransaction
<1>1. Init => ConnInv
  BY DEF Init, ConnInv, IsContext, ResetContext, Known, Pcs
<1>2. ConnInv /\ [Next]_vars => ConnInv'
  BY ConnStep
<1>3. ConnInv => NoIdleTransaction
  BY DEF ConnInv, NoIdleTransaction, QuietPcs
<1> QED
  BY <1>1, <1>2, <1>3, PTL DEF Spec

-----------------------------------------------------------------------------
(***************************************************************************)
(* What a run of a handler leaves behind.  First what the operators on one *)
(* context do to the history of its transactionals, then the invariant     *)
(* RunInv, then one lemma for each group of actions, and the theorems.     *)
(***************************************************************************)
\* The histories and states that the model builds, and what is compared of two of them.
IsTry(y) == y = [calls |-> y.calls, registered |-> y.registered, sql |-> y.sql,
                 clients |-> y.clients]
Shaped(s) == IsState(s) /\ IsTry(s.try)
Context(s) == <<s.ctx.transactionals, s.ctx.client, s.ctx.transaction_started,
                s.ctx.error_message>>
History(s) == <<s.try.calls, s.try.registered, s.try.sql, s.try.clients>>

\* One field of a state at a time.
LEMMA TransactionalsSet ==
    ASSUME NEW s, Shaped(s), NEW x
    PROVE  LET r == [s EXCEPT !.ctx.transactionals = x]
           IN  /\ Shaped(r) /\ History(r) = History(s) /\ r.conn = s.conn
               /\ Context(r) = <<x, s.ctx.client, s.ctx.transaction_started,
                                 s.ctx.error_message>>
  BY DEF Shaped, IsState, IsTry, IsContext, Context, History

LEMMA ClientSet ==
    ASSUME NEW s, Shaped(s), NEW x
    PROVE  LET r == [s EXCEPT !.ctx.client = x]
           IN  /\ Shaped(r) /\ History(r) = History(s) /\ r.conn = s.conn
               /\ Context(r) = <<s.ctx.transactionals, x, s.ctx.transaction_started,
                                 s.ctx.error_message>>
  BY DEF Shaped, IsState, IsTry, IsContext, Context, History

LEMMA StartedSet ==
    ASSUME NEW s, Shaped(s), NEW x
    PROVE  LET r == [s EXCEPT !.ctx.transaction_started = x]
           IN  /\ Shaped(r) /\ History(r) = History(s) /\ r.conn = s.conn
               /\ Context(r) = <<s.ctx.transactionals, s.ctx.client, x,
                                 s.ctx.error_message>>
  BY DEF Shaped, IsState, IsTry, IsContext, Context, History

LEMMA ErrorSet ==
    ASSUME NEW s, Shaped(s), NEW x
    PROVE  LET r == [s EXCEPT !.ctx.error_message = x]
           IN  /\ Shaped(r) /\ History(r) = History(s) /\ r.conn = s.conn
               /\ Context(r) = <<s.ctx.transactionals, s.ctx.client,
                                 s.ctx.transaction_started, x>>
  BY DEF Shaped, IsState, IsTry, IsContext, Context, History

LEMMA CallsSet ==
    ASSUME NEW s, Shaped(s), NEW x
    PROVE  LET r == [s EXCEPT !.try.calls = x]
           IN  /\ Shaped(r) /\ Context(r) = Context(s) /\ r.conn = s.conn
               /\ History(r) = <<x, s.try.registered, s.try.sql, s.try.clients>>
  BY DEF Shaped, IsState, IsTry, IsContext, Context, History

LEMMA SqlSet ==
    ASSUME NEW s, Shaped(s), NEW x
    PROVE  LET r == [s EXCEPT !.try.sql = x]
           IN  /\ Shaped(r) /\ Context(r) = Context(s) /\ r.conn = s.conn
               /\ History(r) = <<s.try.calls, s.try.registered, x, s.try.clients>>
  BY DEF Shaped, IsState, IsTry, IsContext, Context, History

LEMMA ClientsSet ==
    ASSUME NEW s, Shaped(s), NEW x
    PROVE  LET r == [s EXCEPT !.try.clients = x]
           IN  /\ Shaped(r) /\ Context(r) = Context(s) /\ r.conn = s.conn
               /\ History(r) = <<s.try.calls, s.try.registered, s.try.sql, x>>
  BY DEF Shaped, IsState, IsTry, IsContext, Context, History

LEMMA ConnSet ==
    ASSUME NEW s, Shaped(s), NEW x
    PROVE  LET r == [s EXCEPT !.conn = x]
           IN  Shaped(r) /\ Context(r) = Context(s) /\ History(r) = History(s) /\ r.conn = x
  BY DEF Shaped, IsState, IsTry, IsContext, Context, History

\* The three resets: what they clear, and that the history stays.
LEMMA ResetState ==
    ASSUME NEW s, Shaped(s)
    PROVE  /\ LET r == uw_reset_keep_error_message(s)
              IN  /\ Shaped(r) /\ History(r) = History(s) /\ r.conn = s.conn
                  /\ Context(r) = <<<<>>, FALSE, s.ctx.transaction_started,
                                    s.ctx.error_message>>
           /\ LET r == uw_reset_keep_request(s)
              IN  /\ Shaped(r) /\ History(r) = History(s) /\ r.conn = s.conn
                  /\ Context(r) = <<<<>>, FALSE, s.ctx.transaction_started, FALSE>>
           /\ LET r == uw_reset(s)
              IN  /\ Shaped(r) /\ History(r) = History(s) /\ r.conn = s.conn
                  /\ Context(r) = <<<<>>, FALSE, FALSE, FALSE>>
<1> DEFINE a == [s EXCEPT !.ctx.transactionals = <<>>]
           b == uw_reset_keep_error_message(s)
           c == uw_reset_keep_request(s)
           d == uw_reset(s)
<1>1. b = [a EXCEPT !.ctx.client = FALSE]
  BY DEF uw_reset_keep_error_message
<1>2. c = [b EXCEPT !.ctx.error_message = FALSE]
  BY DEF uw_reset_keep_request
<1>3. d = [c EXCEPT !.ctx.transaction_started = FALSE]
  BY DEF uw_reset
<1>4. /\ Shaped(a) /\ History(a) = History(s) /\ a.conn = s.conn
      /\ Context(a) = <<<<>>, s.ctx.client, s.ctx.transaction_started, s.ctx.error_message>>
  BY TransactionalsSet
<1> HIDE DEF a, b, c, d
<1>5. /\ Shaped(b) /\ History(b) = History(a) /\ b.conn = a.conn
      /\ Context(b) = <<a.ctx.transactionals, FALSE, a.ctx.transaction_started,
                        a.ctx.error_message>>
  BY <1>1, <1>4, ClientSet
<1>6. /\ Shaped(c) /\ History(c) = History(b) /\ c.conn = b.conn
      /\ Context(c) = <<b.ctx.transactionals, b.ctx.client, b.ctx.transaction_started, FALSE>>
  BY <1>2, <1>5, ErrorSet
<1>7. /\ Shaped(d) /\ History(d) = History(c) /\ d.conn = c.conn
      /\ Context(d) = <<c.ctx.transactionals, c.ctx.client, FALSE, c.ctx.error_message>>
  BY <1>3, <1>6, StartedSet
<1>8. /\ Context(b) = <<<<>>, FALSE, s.ctx.transaction_started, s.ctx.error_message>>
      /\ Context(c) = <<<<>>, FALSE, s.ctx.transaction_started, FALSE>>
      /\ Context(d) = <<<<>>, FALSE, FALSE, FALSE>>
  BY <1>4, <1>5, <1>6, <1>7 DEF Context
<1>9. History(b) = History(s) /\ History(c) = History(s) /\ History(d) = History(s)
      /\ b.conn = s.conn /\ c.conn = s.conn /\ d.conn = s.conn
  BY <1>4, <1>5, <1>6, <1>7
<1> QED
  BY <1>5, <1>6, <1>7, <1>8, <1>9 DEF b, c, d

\* The types of one thread: it has one list of calls for each transactional registered,
\* and the context has all of these or none.
What == {"commit", "rollback", "free"}
Typed(s) == /\ Shaped(s) /\ s.conn \in {"idle", "open"}
            /\ s.ctx.client \in BOOLEAN /\ s.ctx.transaction_started \in BOOLEAN
            /\ s.ctx.error_message \in BOOLEAN
            /\ s.try.calls \in Seq(Seq(What)) /\ s.try.registered \in Seq(Kinds)
            /\ Len(s.try.calls) = Len(s.try.registered)
            /\ s.try.clients \in Int /\ s.try.sql \in {"none", "open", "committed", "aborted"}
            /\ s.ctx.transactionals \in {<<>>, s.try.registered}

\* One more of the handlers is called of some transactionals.
LEMMA CalledState ==
    ASSUME NEW s, Typed(s), NEW what \in What, NEW kinds, NEW lo
    PROVE  LET r == Called(s, what, kinds, lo)
           IN  /\ Typed(r) /\ Context(r) = Context(s) /\ r.conn = s.conn
               /\ r.try.registered = s.try.registered /\ r.try.sql = s.try.sql
               /\ r.try.clients = s.try.clients
               /\ DOMAIN r.try.calls = DOMAIN s.try.calls
               /\ \A k \in DOMAIN s.try.calls :
                    r.try.calls[k] = IF /\ s.ctx.transactionals # <<>> /\ k >= lo
                                        /\ s.try.registered[k] \in kinds
                                     THEN Append(s.try.calls[k], what) ELSE s.try.calls[k]
<1> DEFINE those == {k \in 1 .. Len(s.ctx.transactionals) :
                       k >= lo /\ s.ctx.transactionals[k] \in kinds}
           x == [k \in DOMAIN s.try.calls |-> IF k \in those THEN Append(s.try.calls[k], what)
                                              ELSE s.try.calls[k]]
           r == Called(s, what, kinds, lo)
<1>1. r = [s EXCEPT !.try.calls = x]
  BY DEF Called
<1>2. s.try.calls \in Seq(Seq(What)) /\ DOMAIN s.try.calls = 1 .. Len(s.try.registered)
  BY DEF Typed
<1>3. x \in Seq(Seq(What)) /\ DOMAIN x = DOMAIN s.try.calls /\ Len(x) = Len(s.try.calls)
  BY <1>2
<1>4. \A k \in DOMAIN s.try.calls :
         k \in those <=> /\ s.ctx.transactionals # <<>> /\ k >= lo
                         /\ s.try.registered[k] \in kinds
  BY <1>2 DEF Typed
<1>5. \A k \in DOMAIN s.try.calls :
         x[k] = IF /\ s.ctx.transactionals # <<>> /\ k >= lo
                   /\ s.try.registered[k] \in kinds
                THEN Append(s.try.calls[k], what) ELSE s.try.calls[k]
  BY <1>4, Zenon
<1> HIDE DEF x, r
<1>6. /\ Shaped(r) /\ Context(r) = Context(s) /\ r.conn = s.conn
      /\ History(r) = <<x, s.try.registered, s.try.sql, s.try.clients>>
  BY <1>1, CallsSet DEF Typed
<1>7. /\ r.try.calls = x /\ r.try.registered = s.try.registered /\ r.try.sql = s.try.sql
      /\ r.try.clients = s.try.clients
  BY <1>6 DEF History
<1>8. Typed(r)
  BY <1>3, <1>6, <1>7 DEF Typed, Context
<1> QED
  BY <1>3, <1>5, <1>6, <1>7, <1>8 DEF r

\* Nothing is called of transactionals that are forgotten (a second rollback after
\* uw_reset_keep_error_message).
LEMMA NothingCalled ==
    ASSUME NEW s, Typed(s), s.ctx.transactionals = <<>>, NEW what \in What, NEW kinds, NEW lo
    PROVE  History(Called(s, what, kinds, lo)) = History(s)
<1> DEFINE r == Called(s, what, kinds, lo)
<1>1. /\ Typed(r) /\ DOMAIN r.try.calls = DOMAIN s.try.calls
      /\ \A k \in DOMAIN s.try.calls : r.try.calls[k] = s.try.calls[k]
      /\ r.try.registered = s.try.registered /\ r.try.sql = s.try.sql
      /\ r.try.clients = s.try.clients
  BY CalledState
<1> HIDE DEF r
<1>2. r.try.calls = s.try.calls
  BY <1>1 DEF Typed
<1> QED
  BY <1>1, <1>2 DEF History, r

\* release_client gives back one reference, if there is one.
LEMMA ReleasedState ==
    ASSUME NEW s, Typed(s)
    PROVE  LET r == Released(s)
           IN  /\ Typed(r) /\ Context(r) = Context(s) /\ r.conn = s.conn
               /\ History(r) = <<s.try.calls, s.try.registered, s.try.sql,
                                 IF s.ctx.client THEN s.try.clients - 1 ELSE s.try.clients>>
<1> DEFINE r == Released(s)
           x == s.try.clients - 1
<1>1. CASE s.ctx.client
  <2>1. r = [s EXCEPT !.try.clients = x] /\ x \in Int
    BY <1>1 DEF Released, Typed
  <2> HIDE DEF x, r
  <2>2. /\ Shaped(r) /\ Context(r) = Context(s) /\ r.conn = s.conn
        /\ History(r) = <<s.try.calls, s.try.registered, s.try.sql, x>>
    BY <2>1, ClientsSet DEF Typed
  <2>3. Typed(r)
    BY <2>1, <2>2 DEF Typed, Context, History
  <2> QED
    BY <1>1, <2>2, <2>3 DEF r, x
<1>2. CASE ~s.ctx.client
  BY <1>2 DEF Released, History
<1> QED
  BY <1>1, <1>2

\* uw_rollback calls rollback of those that have one, then free of all.
LEMMA UndoneAndFreedState ==
    ASSUME NEW s, Typed(s)
    PROVE  LET r == UndoneAndFreed(s)
           IN  /\ Typed(r) /\ Context(r) = Context(s) /\ r.conn = s.conn
               /\ r.try.registered = s.try.registered /\ r.try.sql = s.try.sql
               /\ r.try.clients = s.try.clients
               /\ DOMAIN r.try.calls = DOMAIN s.try.calls
               /\ s.ctx.transactionals = <<>> => History(r) = History(s)
               /\ s.ctx.transactionals # <<>> => \A k \in DOMAIN s.try.calls :
                    r.try.calls[k] =
                      Append(IF s.try.registered[k] = "undo"
                             THEN Append(s.try.calls[k], "rollback") ELSE s.try.calls[k], "free")
<1> DEFINE u == Undone(s)
           r == UndoneAndFreed(s)
<1>1. u = Called(s, "rollback", {"undo"}, 1) /\ r = Called(u, "free", Kinds, 1)
  BY DEF Undone, UndoneAndFreed, Freed
<1> HIDE DEF u, r
<1>2. /\ Typed(u) /\ Context(u) = Context(s) /\ u.conn = s.conn
      /\ u.try.registered = s.try.registered /\ u.try.sql = s.try.sql
      /\ u.try.clients = s.try.clients
      /\ DOMAIN u.try.calls = DOMAIN s.try.calls
      /\ \A k \in DOMAIN s.try.calls :
            u.try.calls[k] = IF /\ s.ctx.transactionals # <<>> /\ k >= 1
                                /\ s.try.registered[k] \in {"undo"}
                             THEN Append(s.try.calls[k], "rollback") ELSE s.try.calls[k]
  BY <1>1, CalledState DEF What
<1>3. /\ Typed(r) /\ Context(r) = Context(u) /\ r.conn = u.conn
      /\ r.try.registered = u.try.registered /\ r.try.sql = u.try.sql
      /\ r.try.clients = u.try.clients
      /\ DOMAIN r.try.calls = DOMAIN u.try.calls
      /\ \A k \in DOMAIN u.try.calls :
            r.try.calls[k] = IF /\ u.ctx.transactionals # <<>> /\ k >= 1
                                /\ u.try.registered[k] \in Kinds
                             THEN Append(u.try.calls[k], "free") ELSE u.try.calls[k]
  BY <1>1, <1>2, CalledState DEF What
<1>4. \A k \in DOMAIN s.try.calls : k >= 1 /\ s.try.registered[k] \in Kinds
  BY DEF Typed
<1>5. u.ctx.transactionals = s.ctx.transactionals
  BY <1>2 DEF Context
<1>6. ASSUME s.ctx.transactionals = <<>> PROVE History(r) = History(s)
  BY <1>1, <1>2, <1>5, <1>6, NothingCalled DEF What
<1>7. ASSUME s.ctx.transactionals # <<>>, NEW k \in DOMAIN s.try.calls
      PROVE  r.try.calls[k] =
               Append(IF s.try.registered[k] = "undo"
                      THEN Append(s.try.calls[k], "rollback") ELSE s.try.calls[k], "free")
  BY <1>2, <1>3, <1>4, <1>5, <1>7
<1> QED
  BY <1>2, <1>3, <1>6, <1>7 DEF r

\* uw_rollback without the SQL ROLLBACK.
LEMMA RolledBackState ==
    ASSUME NEW s, Typed(s)
    PROVE  LET r == RolledBack(s)
               u == UndoneAndFreed(Released(s))
           IN  /\ Typed(r) /\ r.conn = s.conn
               /\ Context(r) = <<s.ctx.transactionals, s.ctx.client, FALSE, s.ctx.error_message>>
               /\ History(r) = <<u.try.calls, s.try.registered,
                                 IF s.ctx.transaction_started THEN "aborted" ELSE s.try.sql,
                                 u.try.clients>>
<1> DEFINE u == UndoneAndFreed(Released(s))
           v == [u EXCEPT !.ctx.transaction_started = FALSE]
           x == IF s.ctx.transaction_started THEN "aborted" ELSE u.try.sql
           r == RolledBack(s)
<1>1. /\ Typed(Released(s)) /\ Context(Released(s)) = Context(s) /\ Released(s).conn = s.conn
      /\ Released(s).try.registered = s.try.registered /\ Released(s).try.sql = s.try.sql
  BY ReleasedState DEF History
<1>2. /\ Typed(u) /\ Context(u) = Context(s) /\ u.conn = s.conn
      /\ u.try.registered = s.try.registered /\ u.try.sql = s.try.sql
  BY <1>1, UndoneAndFreedState
<1>3. v.try = u.try
  BY <1>2 DEF Typed, Shaped, IsState
<1>4. r = [v EXCEPT !.try.sql = x]
  BY <1>3 DEF RolledBack
<1> HIDE DEF u, r, x
<1>5. /\ Shaped(v) /\ History(v) = History(u) /\ v.conn = u.conn
      /\ Context(v) = <<u.ctx.transactionals, u.ctx.client, FALSE, u.ctx.error_message>>
  BY <1>2, StartedSet DEF Typed
<1> HIDE DEF v
<1>6. /\ Shaped(r) /\ Context(r) = Context(v) /\ r.conn = v.conn
      /\ History(r) = <<v.try.calls, v.try.registered, x, v.try.clients>>
  BY <1>4, <1>5, SqlSet
<1>7. x \in {"none", "open", "committed", "aborted"}
      /\ x = IF s.ctx.transaction_started THEN "aborted" ELSE s.try.sql
  BY <1>2 DEF x, Typed
<1>8. /\ Context(r) = <<s.ctx.transactionals, s.ctx.client, FALSE, s.ctx.error_message>>
      /\ History(r) = <<u.try.calls, s.try.registered, x, u.try.clients>>
  BY <1>2, <1>5, <1>6 DEF Context, History
<1>9. Typed(r)
  <2>1. r.ctx.transaction_started = FALSE /\ r.ctx.client = s.ctx.client
        /\ r.ctx.error_message = s.ctx.error_message
        /\ r.ctx.transactionals = s.ctx.transactionals
    BY <1>8 DEF Context
  <2>2. r.try.calls = u.try.calls /\ r.try.registered = s.try.registered
        /\ r.try.clients = u.try.clients /\ r.try.sql = x /\ r.conn = u.conn
    BY <1>5, <1>6, <1>8 DEF History
  <2> QED
    BY <1>2, <1>6, <1>7, <2>1, <2>2 DEF Typed
<1> QED
  BY <1>2, <1>5, <1>6, <1>7, <1>8, <1>9 DEF r, u
-----------------------------------------------------------------------------
(* The invariant: what is known of a thread, by where it is.               *)

\* The handler runs, or has run, and its transaction is under way.
Begun(s) == /\ s.ctx.transactionals = s.try.registered
            /\ s.try.clients = IF s.ctx.client THEN 1 ELSE 0
            /\ s.try.sql = IF s.ctx.transaction_started THEN "open" ELSE "none"
Partly(s) == \A k \in DOMAIN s.try.calls :
               s.try.calls[k] = <<>> \/ (s.try.registered[k] = "undo" /\ s.try.calls[k] = <<"commit">>)
Untouched(s) == \A k \in DOMAIN s.try.calls : s.try.calls[k] = <<>>

\* Past the undoable actions, and past the SQL COMMIT.
Promised(s) == /\ s.ctx.error_message = FALSE
               /\ \A k \in DOMAIN s.try.calls :
                    s.try.calls[k] = IF s.try.registered[k] = "undo" THEN <<"commit">> ELSE <<>>
Durable(s) == /\ s.ctx.transactionals = s.try.registered
              /\ s.try.clients = IF s.ctx.client THEN 1 ELSE 0
              /\ s.try.sql \in {"none", "committed"} /\ s.ctx.transaction_started = FALSE

\* Settled: what may have been called of a transactional in the end.
Endings == [undo |-> {<<"rollback", "free">>, <<"commit", "rollback", "free">>,
                      <<"commit", "free">>},
            final |-> {<<"free">>, <<"commit", "free">>}]
Ended(s) ==
  /\ s.try.clients = 0
  /\ \A k \in DOMAIN s.try.calls :
       /\ s.try.calls[k] \in Endings[s.try.registered[k]]
       /\ s.try.calls[k] = <<"commit", "free">> =>
            /\ s.try.registered[k] = "final" => s.try.sql \in {"none", "committed"}
            /\ "error" \notin CommitAnswers => s.try.sql # "aborted"
\* A transaction that is still marked as started has been aborted.
Closed(s) == s.ctx.transaction_started => s.try.sql = "aborted"
Emptied(s) == s.ctx.transactionals = <<>> /\ s.ctx.client = FALSE
Success(s) == /\ s.try.sql \in {"none", "committed"}
              /\ \A k \in DOMAIN s.try.calls : s.try.calls[k] = <<"commit", "free">>
NoConflict == "serialization" \notin CommitAnswers

Stage(l, s) ==
  /\ l \in {"handler", "failed", "retry", "commit"} => Begun(s) /\ Untouched(s)
  /\ l = "sql" => Begun(s) /\ Promised(s)
  /\ l = "final" => Durable(s) /\ Promised(s)
  /\ l = "done" => Ended(s) /\ Closed(s)
                   /\ (NoConflict /\ s.ctx.error_message = FALSE => Success(s))
  /\ l = "departed" => Ended(s) /\ Closed(s) /\ Emptied(s)
  /\ l \in {"idle", "arrive", "dead"} => Ended(s)
  /\ l = "arrive" => Context(s) = <<<<>>, FALSE, FALSE, FALSE>>

\* How often handlers have run for the request.
Spent(p, q) == (MaxRetries - p.retries_left) + q.unlimited + (IF p.had_error THEN 1 ELSE 0)
Retries(l, p, q) ==
  /\ l \in {"arrive", "retry", "departed"} => q.tries <= Spent(p, q)
  /\ l = "failed" /\ p.fk = "UNLIMITED_RETRY" => q.tries <= Spent(p, q)
  /\ q.tries <= Spent(p, q) + 1

\* Whether the request's effects are there; SERVED says so.
Sound == NoConflict /\ "final" \notin Signals
Effect(l, s, p, q) ==
  /\ NoConflict /\ q.answer = "SERVED" => l = "idle" /\ Success(s)
  /\ Sound =>
       /\ p.had_error \/ l \in {"arrive", "handler", "failed", "retry", "departed", "commit", "sql"}
            => q.applied = 0
       /\ ~p.had_error /\ l = "final" => q.applied = 1
       /\ ~p.had_error /\ l = "done" => q.applied = IF s.ctx.error_message THEN 0 ELSE 1

Fks == {"SUCCESS", "FATAL", "BOUNDED_RETRY", "UNLIMITED_RETRY"}
LoopType == [retries_left : 0 .. MaxRetries, had_error : BOOLEAN, fk : Fks]
ReqType == [nr : 0 .. RequestsMax, answer : {"none", "SERVED", "FAILED"},
            applied : Nat, tries : Nat, unlimited : Nat]
\* A periodic task that is to run again has a retry left.
At(t, l, s, p, q) ==
  /\ Typed(s) /\ p \in LoopType /\ q \in ReqType
  /\ t \in Periodics /\ l \notin {"idle", "dead"} => p.retries_left > 0
  /\ Stage(l, s) /\ Retries(l, p, q) /\ Effect(l, s, p, q)

RunInv == /\ pc \in [Threads -> Pcs] /\ readers \in Int /\ pruning \in BOOLEAN
          /\ ctx = [t \in Threads |-> ctx[t]] /\ try = [t \in Threads |-> try[t]]
          /\ conn = [t \in Threads |-> conn[t]]
          /\ loop \in [Threads -> LoopType] /\ req \in [Threads -> ReqType]
          /\ \A t \in Threads : At(t, pc[t], State(t), loop[t], req[t])

\* What Append makes of the short histories.
LEMMA AppendTwo ==
    ASSUME NEW S, NEW x \in S, NEW y \in S PROVE Append(<<x>>, y) = <<x, y>>
<1> DEFINE a == Append(<<x>>, y)
           b == <<x, y>>
<1>1. a \in Seq(S) /\ Len(a) = 2 /\ a[1] = x /\ a[2] = y
  OBVIOUS
<1>2. b \in Seq(S) /\ Len(b) = 2 /\ b[1] = x /\ b[2] = y
  OBVIOUS
<1> HIDE DEF a, b
<1>3. a = b
  BY <1>1, <1>2
<1> QED
  BY <1>3 DEF a, b

LEMMA AppendThree ==
    ASSUME NEW S, NEW x \in S, NEW y \in S, NEW z \in S
    PROVE  Append(<<x, y>>, z) = <<x, y, z>>
<1> DEFINE a == Append(<<x, y>>, z)
           b == <<x, y, z>>
<1>1. a \in Seq(S) /\ Len(a) = 3 /\ a[1] = x /\ a[2] = y /\ a[3] = z
  OBVIOUS
<1>2. b \in Seq(S) /\ Len(b) = 3 /\ b[1] = x /\ b[2] = y /\ b[3] = z
  OBVIOUS
<1> HIDE DEF a, b
<1>3. a = b
  BY <1>1, <1>2
<1> QED
  BY <1>3 DEF a, b

LEMMA Appends ==
    /\ Append(<<>>, "free") = <<"free">> /\ Append(<<>>, "commit") = <<"commit">>
    /\ Append(<<>>, "rollback") = <<"rollback">>
    /\ Append(<<"rollback">>, "free") = <<"rollback", "free">>
    /\ Append(<<"commit">>, "free") = <<"commit", "free">>
    /\ Append(<<"commit">>, "rollback") = <<"commit", "rollback">>
    /\ Append(<<"commit", "rollback">>, "free") = <<"commit", "rollback", "free">>
<1>1. /\ Append(<<>>, "free") = <<"free">> /\ Append(<<>>, "commit") = <<"commit">>
      /\ Append(<<>>, "rollback") = <<"rollback">>
  OBVIOUS
<1>2. "free" \in What /\ "commit" \in What /\ "rollback" \in What
  BY DEF What
<1> QED
  BY <1>1, <1>2, AppendTwo, AppendThree

\* The SQL ROLLBACK changes the connection only.
LEMMA AfterRollbackState ==
    ASSUME NEW s, Typed(s), NEW ok \in BOOLEAN
    PROVE  LET r == AfterRollback(s, ok)
           IN  /\ Typed(r) /\ Context(r) = Context(RolledBack(s))
               /\ History(r) = History(RolledBack(s))
<1> DEFINE b == RolledBack(s)
           r == AfterRollback(s, ok)
<1>1. Typed(b)
  BY RolledBackState
<1>2. CASE ok /\ s.ctx.transaction_started
  <2>1. r = [b EXCEPT !.conn = "idle"]
    BY <1>2 DEF AfterRollback
  <2> HIDE DEF b, r
  <2>2. Shaped(r) /\ Context(r) = Context(b) /\ History(r) = History(b) /\ r.conn = "idle"
    BY <1>1, <2>1, ConnSet DEF Typed
  <2>3. Typed(r)
    BY <1>1, <2>2 DEF Typed, Context, History
  <2> QED
    BY <2>2, <2>3 DEF b, r
<1>3. CASE ~(ok /\ s.ctx.transaction_started)
  <2>1. r = b
    BY <1>3 DEF AfterRollback
  <2> QED
    BY <1>1, <2>1
<1> QED
  BY <1>2, <1>3

\* Rolling back settles a transaction that is under way, and leaves a settled one alone.
LEMMA RollbackEnds ==
    ASSUME NEW s, Typed(s), NEW ok \in BOOLEAN,
           (Begun(s) /\ Partly(s)) \/ (Ended(s) /\ Closed(s) /\ Emptied(s))
    PROVE  LET r == AfterRollback(s, ok)
           IN  /\ Typed(r) /\ Ended(r) /\ r.ctx.transaction_started = FALSE
               /\ r.ctx.error_message = s.ctx.error_message
<1> DEFINE q == Released(s)
           u == UndoneAndFreed(q)
           r == AfterRollback(s, ok)
<1>1. /\ Typed(r)
      /\ Context(r) = <<s.ctx.transactionals, s.ctx.client, FALSE, s.ctx.error_message>>
      /\ History(r) = <<u.try.calls, s.try.registered,
                        IF s.ctx.transaction_started THEN "aborted" ELSE s.try.sql,
                        u.try.clients>>
  BY AfterRollbackState, RolledBackState
<1>2. /\ Typed(q) /\ Context(q) = Context(s)
      /\ History(q) = <<s.try.calls, s.try.registered, s.try.sql,
                        IF s.ctx.client THEN s.try.clients - 1 ELSE s.try.clients>>
  BY ReleasedState
<1> HIDE DEF q, r
<1>3. /\ u.try.registered = q.try.registered /\ u.try.clients = q.try.clients
      /\ DOMAIN u.try.calls = DOMAIN q.try.calls
      /\ q.ctx.transactionals = <<>> => History(u) = History(q)
      /\ q.ctx.transactionals # <<>> => \A k \in DOMAIN q.try.calls :
            u.try.calls[k] =
              Append(IF q.try.registered[k] = "undo"
                     THEN Append(q.try.calls[k], "rollback") ELSE q.try.calls[k], "free")
  BY <1>2, UndoneAndFreedState
<1> HIDE DEF u
<1>4. /\ q.ctx.transactionals = s.ctx.transactionals /\ q.try.calls = s.try.calls
      /\ q.try.registered = s.try.registered
      /\ q.try.clients = IF s.ctx.client THEN s.try.clients - 1 ELSE s.try.clients
  BY <1>2 DEF Context, History
<1>5. /\ r.try.calls = u.try.calls /\ r.try.registered = s.try.registered
      /\ r.try.clients = q.try.clients
      /\ r.try.sql = IF s.ctx.transaction_started THEN "aborted" ELSE s.try.sql
      /\ r.ctx.transaction_started = FALSE /\ r.ctx.error_message = s.ctx.error_message
  BY <1>1, <1>3 DEF Context, History
<1>6. CASE Begun(s) /\ Partly(s)
  <2>1. r.try.clients = 0
    BY <1>4, <1>5, <1>6 DEF Begun, Typed
  <2>2. ASSUME NEW k \in DOMAIN r.try.calls
        PROVE  r.try.calls[k] \in Endings[r.try.registered[k]]
               /\ r.try.calls[k] # <<"commit", "free">>
    <3>1. k \in DOMAIN s.try.calls /\ s.try.registered[k] \in Kinds /\ s.try.registered # <<>>
      BY <1>3, <1>4, <1>5 DEF Typed
    <3>2. r.try.calls[k] = Append(IF s.try.registered[k] = "undo"
                     THEN Append(s.try.calls[k], "rollback") ELSE s.try.calls[k], "free")
      BY <1>3, <1>4, <1>5, <1>6, <3>1 DEF Begun
    <3>3. CASE s.try.registered[k] = "undo"
      <4>1. CASE s.try.calls[k] = <<>>
        <5>1. r.try.calls[k] = <<"rollback", "free">>
          BY <3>2, <3>3, <4>1, Appends
        <5> QED
          BY <1>5, <3>3, <5>1 DEF Endings
      <4>2. CASE s.try.calls[k] = <<"commit">>
        <5>1. r.try.calls[k] = <<"commit", "rollback", "free">>
          BY <3>2, <3>3, <4>2, Appends
        <5> QED
          BY <1>5, <3>3, <5>1 DEF Endings
      <4> QED
        BY <1>6, <3>1, <4>1, <4>2 DEF Partly
    <3>4. CASE s.try.registered[k] = "final"
      <4>1. s.try.calls[k] = <<>>
        BY <1>6, <3>1, <3>4 DEF Partly
      <4>2. r.try.calls[k] = <<"free">>
        BY <3>2, <3>4, <4>1, Appends
      <4>3. <<"free">> # <<"commit", "free">>
        OBVIOUS
      <4> QED
        BY <1>5, <3>4, <4>2, <4>3 DEF Endings
    <3> QED
      BY <3>1, <3>3, <3>4 DEF Kinds
  <2> QED
    BY <1>1, <1>5, <2>1, <2>2 DEF Ended, r
<1>7. CASE Ended(s) /\ Closed(s) /\ Emptied(s)
  <2>1. r.try.calls = s.try.calls /\ r.try.clients = s.try.clients /\ r.try.sql = s.try.sql
    BY <1>3, <1>4, <1>5, <1>7 DEF History, Closed, Emptied
  <2>2. Ended(r)
    BY <1>5, <1>7, <2>1 DEF Ended
  <2> QED
    BY <1>1, <1>5, <2>2 DEF r
<1> QED
  BY <1>6, <1>7

\* The commit loop: those of one kind, from the last down to the one that signals.
LEMMA CommittedState ==
    ASSUME NEW s, Typed(s), s.ctx.transactionals = s.try.registered,
           NEW kind \in Kinds, NEW stop \in Nat
    PROVE  LET r == Committed(s, kind, stop)
           IN  /\ Typed(r) /\ r.conn = s.conn
               /\ Context(r) = <<s.try.registered, s.ctx.client, s.ctx.transaction_started,
                                 s.ctx.error_message \/ stop # 0>>
               /\ r.try.registered = s.try.registered /\ r.try.sql = s.try.sql
               /\ r.try.clients = s.try.clients
               /\ DOMAIN r.try.calls = DOMAIN s.try.calls
               /\ \A k \in DOMAIN s.try.calls :
                    r.try.calls[k] = IF k >= stop /\ s.try.registered[k] = kind
                                     THEN Append(s.try.calls[k], "commit") ELSE s.try.calls[k]
<1> DEFINE u == Called(s, "commit", {kind}, stop)
           x == u.ctx.error_message \/ stop # 0
           r == Committed(s, kind, stop)
<1>1. /\ Typed(u) /\ Context(u) = Context(s) /\ u.conn = s.conn
      /\ u.try.registered = s.try.registered /\ u.try.sql = s.try.sql
      /\ u.try.clients = s.try.clients
      /\ DOMAIN u.try.calls = DOMAIN s.try.calls
      /\ \A k \in DOMAIN s.try.calls :
           u.try.calls[k] = IF /\ s.ctx.transactionals # <<>> /\ k >= stop
                               /\ s.try.registered[k] \in {kind}
                            THEN Append(s.try.calls[k], "commit") ELSE s.try.calls[k]
  BY CalledState DEF What
<1>2. r = [u EXCEPT !.ctx.error_message = x]
  BY DEF Committed
<1> HIDE DEF u
<1>3. x \in BOOLEAN
  OBVIOUS
<1>4. x = (s.ctx.error_message \/ stop # 0)
  BY <1>1 DEF Context
<1> HIDE DEF r, x
<1>5. /\ Shaped(r) /\ History(r) = History(u) /\ r.conn = u.conn
      /\ Context(r) = <<u.ctx.transactionals, u.ctx.client, u.ctx.transaction_started, x>>
  BY <1>1, <1>2, ErrorSet DEF Typed
<1>6. /\ r.try.calls = u.try.calls /\ r.try.registered = s.try.registered
      /\ r.try.sql = s.try.sql /\ r.try.clients = s.try.clients
      /\ r.ctx.transactionals = u.ctx.transactionals /\ r.ctx.client = u.ctx.client
      /\ r.ctx.transaction_started = u.ctx.transaction_started /\ r.ctx.error_message = x
  BY <1>1, <1>5 DEF History, Context
<1>7. Typed(r)
  BY <1>1, <1>3, <1>5, <1>6 DEF Typed
<1>8. Context(r) = <<s.try.registered, s.ctx.client, s.ctx.transaction_started, x>>
  BY <1>1, <1>5 DEF Context
<1>9. ASSUME NEW k \in DOMAIN s.try.calls
      PROVE  r.try.calls[k] = IF k >= stop /\ s.try.registered[k] = kind
                              THEN Append(s.try.calls[k], "commit") ELSE s.try.calls[k]
  <2>1. s.ctx.transactionals # <<>>
    BY DEF Typed
  <2> QED
    BY <1>1, <1>6, <2>1
<1> QED
  BY <1>1, <1>4, <1>5, <1>6, <1>7, <1>8, <1>9 DEF r

\* A state put together of its parts.
LEMMA Built ==
    ASSUME NEW c, IsContext(c), NEW y, IsTry(y), NEW d
    PROVE  LET s == [ctx |-> c, try |-> y, conn |-> d]
           IN Shaped(s) /\ s.ctx = c /\ s.try = y /\ s.conn = d
  BY DEF Shaped, IsState

\* What the invariant says of one thread.
LEMMA AtThread ==
    ASSUME RunInv, NEW t \in Threads
    PROVE  /\ At(t, pc[t], State(t), loop[t], req[t])
           /\ State(t).ctx = ctx[t] /\ State(t).try = try[t] /\ State(t).conn = conn[t]
           /\ IsContext(ctx[t]) /\ IsTry(try[t])
           /\ ctx = [ctx EXCEPT ![t] = ctx[t]] /\ try = [try EXCEPT ![t] = try[t]]
           /\ conn = [conn EXCEPT ![t] = conn[t]] /\ loop = [loop EXCEPT ![t] = loop[t]]
           /\ req = [req EXCEPT ![t] = req[t]] /\ pc = [pc EXCEPT ![t] = pc[t]]
           /\ readers \in Int /\ pruning \in BOOLEAN
<1>1. At(t, pc[t], State(t), loop[t], req[t])
  BY DEF RunInv
<1>2. State(t).ctx = ctx[t] /\ State(t).try = try[t] /\ State(t).conn = conn[t]
  BY DEF State
<1>3. IsContext(ctx[t]) /\ IsTry(try[t])
  BY <1>1, <1>2 DEF At, Typed, Shaped, IsState
<1> QED
  BY <1>1, <1>2, <1>3 DEF RunInv

\* A step of one thread, by what it makes of the thread.
LEMMA RunKept ==
    ASSUME RunInv, NEW t \in Threads, NEW l \in Pcs, Goto(t, l),
           NEW s, Becomes(t, s), NEW p, loop' = [loop EXCEPT ![t] = p],
           NEW q, req' = [req EXCEPT ![t] = q], readers' \in Int, pruning' \in BOOLEAN,
           At(t, l, s, p, q)
    PROVE  RunInv'
<1>1. /\ pc' \in [Threads -> Pcs]
      /\ ctx' = [u \in Threads |-> ctx'[u]] /\ try' = [u \in Threads |-> try'[u]]
      /\ conn' = [u \in Threads |-> conn'[u]]
  BY DEF RunInv, Goto, Becomes
<1>2. loop' \in [Threads -> LoopType] /\ req' \in [Threads -> ReqType]
  BY DEF RunInv, At
<1>3. ASSUME NEW u \in Threads, u # t PROVE At(u, pc'[u], State(u)', loop'[u], req'[u])
  <2>1. pc'[u] = pc[u] /\ loop'[u] = loop[u] /\ req'[u] = req[u] /\ State(u)' = State(u)
    BY <1>3 DEF RunInv, Goto, Becomes, State
  <2>2. At(u, pc[u], State(u), loop[u], req[u])
    BY DEF RunInv
  <2> QED
    BY <2>1, <2>2
<1>4. At(t, pc'[t], State(t)', loop'[t], req'[t])
  <2>1. pc'[t] = l /\ loop'[t] = p /\ req'[t] = q
    BY DEF RunInv, Goto
  <2>2. State(t)' = [ctx |-> s.ctx, try |-> s.try, conn |-> s.conn]
    BY DEF RunInv, Becomes, State
  <2>3. State(t)' = s
    BY <2>2 DEF At, Typed, Shaped, IsState
  <2> QED
    BY <2>1, <2>3
<1> QED
  BY <1>1, <1>2, <1>3, <1>4 DEF RunInv

\* Nothing but the thread's own part of the state changes.
Only(t) == /\ pc' = [pc EXCEPT ![t] = pc'[t]] /\ ctx' = [ctx EXCEPT ![t] = ctx'[t]]
           /\ try' = [try EXCEPT ![t] = try'[t]] /\ conn' = [conn EXCEPT ![t] = conn'[t]]
           /\ loop' = [loop EXCEPT ![t] = loop'[t]] /\ req' = [req EXCEPT ![t] = req'[t]]

\* Before the point of no return nothing has taken effect.
Early == {"arrive", "handler", "failed", "retry", "departed", "commit", "sql"}
LEMMA EffectKept ==
    ASSUME NEW l0 \in Early, NEW s0, NEW p0, NEW q0, Effect(l0, s0, p0, q0),
           NEW l \in Early, NEW s, NEW p, NEW q,
           q.applied = q0.applied, q.answer = q0.answer
    PROVE  Effect(l, s, p, q)
  BY DEF Effect, Early

\* uw_request and periodic_loop begin.
LEMMA ArrivingRun ==
    ASSUME RunInv, NEW t \in Threads, RequestArrives(t) \/ PeriodicWakes(t)
    PROVE  RunInv'
<1> DEFINE e == uw_reset(State(t))
           q == [NewReq EXCEPT !.nr = req[t].nr + 1]
<1>1. /\ pc[t] = "idle" /\ req[t].nr < RequestsMax /\ Goto(t, "arrive")
      /\ ctx' = [ctx EXCEPT ![t] = e.ctx] /\ loop' = [loop EXCEPT ![t] = NewLoop]
      /\ req' = [req EXCEPT ![t] = q] /\ UNCHANGED <<readers, pruning, try>>
      /\ conn' \in {conn, [conn EXCEPT ![t] = "idle"]}
  BY DEF RequestArrives, PeriodicWakes
<1>2. PICK d \in {conn[t], "idle"} : conn' = [conn EXCEPT ![t] = d]
  BY <1>1, AtThread
<1> DEFINE s == [ctx |-> e.ctx, try |-> try[t], conn |-> d]
<1>3. Typed(State(t)) /\ req[t] \in ReqType /\ Stage("idle", State(t))
  BY <1>1, AtThread DEF At
<1>4. Shaped(e) /\ Context(e) = <<<<>>, FALSE, FALSE, FALSE>>
  BY <1>3, ResetState DEF Typed
<1> HIDE DEF e
<1>5. IsContext(e.ctx)
  BY <1>4 DEF Shaped, IsState
<1>6. Shaped(s) /\ s.ctx = e.ctx /\ s.try = try[t] /\ s.conn = d
  BY <1>5, AtThread, Built
<1> HIDE DEF s
<1>7. Context(s) = <<<<>>, FALSE, FALSE, FALSE>> /\ s.try = State(t).try
  BY <1>4, <1>6, AtThread DEF Context
<1>8. Typed(s)
  <2>1. /\ s.ctx.transactionals = <<>> /\ s.ctx.client = FALSE
        /\ s.ctx.transaction_started = FALSE /\ s.ctx.error_message = FALSE
    BY <1>7 DEF Context
  <2>2. s.conn \in {"idle", "open"}
    BY <1>2, <1>3, <1>6, AtThread DEF Typed
  <2> QED
    BY <1>3, <1>6, <1>7, <2>1, <2>2 DEF Typed
<1>9. Stage("arrive", s)
  BY <1>3, <1>7 DEF Stage, Ended
<1>10. NewLoop \in LoopType /\ q \in ReqType
  BY <1>1, <1>3, BoundsAssumption DEF NewLoop, LoopType, Fks, NewReq, ReqType
<1>11. Retries("arrive", NewLoop, q)
  BY BoundsAssumption DEF Retries, Spent, NewLoop, NewReq
<1>12. Effect("arrive", s, NewLoop, q)
  BY DEF Effect, NewReq
<1>13. NewLoop.retries_left > 0
  BY BoundsAssumption DEF NewLoop
<1>14. At(t, "arrive", s, NewLoop, q)
  BY <1>8, <1>9, <1>10, <1>11, <1>12, <1>13 DEF At
<1>15. Becomes(t, s) /\ readers' \in Int /\ pruning' \in BOOLEAN
  BY <1>1, <1>2, <1>6, AtThread DEF Becomes
<1> HIDE DEF q
<1> QED
  BY <1>1, <1>14, <1>15, RunKept DEF Pcs

\* A handler begins, with nothing registered and no client.
LEMMA BegunAnew ==
    ASSUME NEW s, Shaped(s), s.try = NewTry,
           Context(s) = <<<<>>, FALSE, FALSE, FALSE>>, s.conn \in {"idle", "open"}
    PROVE  Typed(s) /\ Stage("handler", s)
<1>1. /\ s.ctx.transactionals = <<>> /\ s.ctx.client = FALSE
      /\ s.ctx.transaction_started = FALSE /\ s.ctx.error_message = FALSE
  BY DEF Context
<1>2. /\ s.try.calls = <<>> /\ s.try.registered = <<>> /\ s.try.sql = "none"
      /\ s.try.clients = 0
  BY DEF NewTry
<1>3. <<>> \in Seq(Seq(What)) /\ <<>> \in Seq(Kinds) /\ 0 \in Int
  OBVIOUS
<1>4. Typed(s)
  BY <1>1, <1>2, <1>3 DEF Typed
<1> QED
  BY <1>1, <1>2, <1>4 DEF Stage, Begun, Untouched

\* Begins(t), on the history of the request: one try more, and a retry has paid for it.
OnceMore(q) == [q EXCEPT !.tries = IF @ < TriesCap THEN @ + 1 ELSE @]
LEMMA TriedOnceMore ==
    ASSUME NEW l \in {"arrive", "failed"}, NEW p0 \in LoopType, NEW p \in LoopType,
           NEW q \in ReqType, Retries(l, p0, q), p.had_error = p0.had_error,
           p.retries_left <= p0.retries_left,
           l = "failed" /\ p0.fk # "UNLIMITED_RETRY" => p.retries_left < p0.retries_left
    PROVE  /\ OnceMore(q) \in ReqType /\ Retries("handler", p, OnceMore(q))
           /\ OnceMore(q).applied = q.applied /\ OnceMore(q).answer = q.answer
<1>1. /\ OnceMore(q) \in ReqType /\ OnceMore(q).applied = q.applied
      /\ OnceMore(q).answer = q.answer /\ OnceMore(q).unlimited = q.unlimited
      /\ OnceMore(q).tries <= q.tries + 1
  BY DEF OnceMore, ReqType
<1>2. q.tries <= Spent(p, q)
  BY BoundsAssumption DEF Retries, Spent, LoopType, ReqType
<1>3. OnceMore(q).tries <= Spent(p, OnceMore(q)) + 1
  BY <1>1, <1>2, BoundsAssumption DEF Spent, LoopType, ReqType
<1> QED
  BY <1>1, <1>3 DEF Retries

\* The handler begins.
LEMMA TransactionRun ==
    ASSUME RunInv, NEW t \in Threads, uw_transaction_arrives(t)
    PROVE  RunInv'
<1> DEFINE s == [ctx |-> ctx[t], try |-> NewTry, conn |-> conn[t]]
           q == OnceMore(req[t])
<1>1. /\ pc[t] = "arrive" /\ readers' = readers + 1 /\ Goto(t, "handler")
      /\ try' = [try EXCEPT ![t] = NewTry] /\ req' = [req EXCEPT ![t] = q]
      /\ UNCHANGED <<ctx, loop, conn, pruning>>
  BY DEF uw_transaction_arrives, Begins, OnceMore
<1>2. /\ Typed(State(t)) /\ loop[t] \in LoopType /\ req[t] \in ReqType
      /\ Stage("arrive", State(t)) /\ Retries("arrive", loop[t], req[t])
      /\ Effect("arrive", State(t), loop[t], req[t])
      /\ (t \in Periodics => loop[t].retries_left > 0)
  BY <1>1, AtThread DEF At
<1>3. IsTry(NewTry)
  BY DEF IsTry, NewTry
<1>4. Shaped(s) /\ s.ctx = ctx[t] /\ s.try = NewTry /\ s.conn = conn[t]
  BY <1>3, AtThread, Built
<1> HIDE DEF s
<1>5. Context(s) = <<<<>>, FALSE, FALSE, FALSE>> /\ s.conn \in {"idle", "open"}
  BY <1>2, <1>4, AtThread DEF Context, Stage, Typed
<1>6. Typed(s) /\ Stage("handler", s)
  BY <1>4, <1>5, BegunAnew
<1>7. /\ q \in ReqType /\ Retries("handler", loop[t], q)
      /\ q.applied = req[t].applied /\ q.answer = req[t].answer
  BY <1>2, TriedOnceMore DEF LoopType
<1> HIDE DEF q
<1>8. Effect("handler", s, loop[t], q)
  BY <1>2, <1>7, EffectKept DEF Early
<1>9. At(t, "handler", s, loop[t], q)
  BY <1>2, <1>6, <1>7, <1>8 DEF At
<1>10. Becomes(t, s) /\ readers' \in Int /\ pruning' \in BOOLEAN
       /\ loop' = [loop EXCEPT ![t] = loop[t]]
  BY <1>1, <1>4, AtThread DEF Becomes
<1> QED
  BY <1>1, <1>9, <1>10, RunKept DEF Pcs

\* One field of a context or of a history at a time.
LEMMA CtxSet ==
    ASSUME NEW c, IsContext(c), NEW x, NEW d
    PROVE  /\ d = [c EXCEPT !.transactionals = x] =>
                 /\ IsContext(d) /\ d.transactionals = x /\ d.client = c.client
                 /\ d.transaction_started = c.transaction_started
                 /\ d.error_message = c.error_message
           /\ d = [c EXCEPT !.client = x] =>
                 /\ IsContext(d) /\ d.transactionals = c.transactionals /\ d.client = x
                 /\ d.transaction_started = c.transaction_started
                 /\ d.error_message = c.error_message
           /\ d = [c EXCEPT !.transaction_started = x] =>
                 /\ IsContext(d) /\ d.transactionals = c.transactionals
                 /\ d.client = c.client /\ d.transaction_started = x
                 /\ d.error_message = c.error_message
           /\ d = [c EXCEPT !.error_message = x] =>
                 /\ IsContext(d) /\ d.transactionals = c.transactionals
                 /\ d.client = c.client /\ d.error_message = x
                 /\ d.transaction_started = c.transaction_started
  BY DEF IsContext

LEMMA TryAppended ==
    ASSUME NEW y, IsTry(y), NEW x, NEW z
    PROVE  /\ z = [y EXCEPT !.registered = x] =>
                 /\ IsTry(z) /\ z.calls = y.calls /\ z.registered = x
                 /\ z.sql = y.sql /\ z.clients = y.clients
           /\ z = [y EXCEPT !.calls = x] =>
                 /\ IsTry(z) /\ z.calls = x /\ z.registered = y.registered
                 /\ z.sql = y.sql /\ z.clients = y.clients
  BY DEF IsTry

\* uw_register_transactional: one transactional more, and nothing called of it.
LEMMA OneMoreRegistered ==
    ASSUME NEW s \in Seq(Seq(What)), \A k \in DOMAIN s : s[k] = <<>>,
           NEW r \in Seq(Kinds), Len(r) = Len(s), NEW k \in Kinds
    PROVE  /\ Append(s, <<>>) \in Seq(Seq(What)) /\ Append(r, k) \in Seq(Kinds)
           /\ Len(Append(s, <<>>)) = Len(Append(r, k))
      /\ \A i \in DOMAIN Append(s, <<>>) : Append(s, <<>>)[i] = <<>>
<1>1. <<>> \in Seq(What)
  OBVIOUS
<1>2. Append(s, <<>>) \in Seq(Seq(What)) /\ Append(r, k) \in Seq(Kinds)
      /\ Len(Append(s, <<>>)) = Len(Append(r, k))
  BY <1>1
<1>3.  \A i \in DOMAIN Append(s, <<>>) : Append(s, <<>>)[i] = <<>>
  BY <1>1
<1> QED
  BY <1>2, <1>3

\* A step of one thread, by the values it leaves.
MovesTo(t, l, c, y, d, p, q) ==
  /\ Goto(t, l) /\ ctx' = [ctx EXCEPT ![t] = c] /\ try' = [try EXCEPT ![t] = y]
  /\ conn' = [conn EXCEPT ![t] = d] /\ loop' = [loop EXCEPT ![t] = p]
  /\ req' = [req EXCEPT ![t] = q]
LEMMA Moved ==
    ASSUME RunInv, NEW t \in Threads, NEW l, NEW c, NEW y, NEW d, NEW p, NEW q,
           MovesTo(t, l, c, y, d, p, q)
    PROVE  /\ Only(t) /\ pc'[t] = l /\ ctx'[t] = c /\ try'[t] = y /\ conn'[t] = d
           /\ loop'[t] = p /\ req'[t] = q
  BY DEF RunInv, Goto, Only, MovesTo

\* While the handler runs, what it registers and takes agrees with the history.
LEMMA HandlerRun ==
    ASSUME RunInv, NEW t \in Threads, Handler(t)
    PROVE  RunInv'
<1>1. pc[t] = "handler"
  BY DEF Handler, uw_ensure_transaction, BeginFails, uw_login, HandlerRaises,
         uw_register_transactional, uw_set_error_message, HandlerReturns, Running
<1>2. /\ Typed(State(t)) /\ loop[t] \in LoopType /\ req[t] \in ReqType
      /\ Begun(State(t)) /\ Untouched(State(t)) /\ Retries("handler", loop[t], req[t])
      /\ Effect("handler", State(t), loop[t], req[t])
      /\ (t \in Periodics => loop[t].retries_left > 0)
  BY <1>1, AtThread DEF At, Stage
<1>3. /\ IsContext(ctx[t]) /\ IsTry(try[t]) /\ conn[t] \in {"idle", "open"}
      /\ ctx[t].client \in BOOLEAN /\ ctx[t].transaction_started \in BOOLEAN
      /\ ctx[t].error_message \in BOOLEAN
      /\ try[t].calls \in Seq(Seq(What)) /\ try[t].registered \in Seq(Kinds)
      /\ Len(try[t].calls) = Len(try[t].registered)
      /\ ctx[t].transactionals = try[t].registered
      /\ try[t].clients = IF ctx[t].client THEN 1 ELSE 0
      /\ try[t].sql = IF ctx[t].transaction_started THEN "open" ELSE "none"
      /\ \A k \in DOMAIN try[t].calls : try[t].calls[k] = <<>>
  BY <1>2, AtThread DEF Typed, Begun, Untouched
<1>4. UNCHANGED <<readers, pruning>>
  BY DEF Handler, uw_ensure_transaction, BeginFails, uw_login, HandlerRaises, Raise,
         uw_register_transactional, uw_set_error_message, HandlerReturns
\* What is left to show of each of them.
<1>5. ASSUME Only(t), pc'[t] \in {"handler", "failed", "commit"},
             loop'[t] \in LoopType, req'[t] \in ReqType, conn'[t] \in {"idle", "open"},
             IsContext(ctx'[t]), ctx'[t].client \in BOOLEAN,
             ctx'[t].transaction_started \in BOOLEAN, ctx'[t].error_message \in BOOLEAN,
             IsTry(try'[t]),
             try'[t].calls \in Seq(Seq(What)), try'[t].registered \in Seq(Kinds),
             Len(try'[t].calls) = Len(try'[t].registered),
             ctx'[t].transactionals = try'[t].registered,
             try'[t].clients = IF ctx'[t].client THEN 1 ELSE 0,
             try'[t].sql = IF ctx'[t].transaction_started THEN "open" ELSE "none",
             \A k \in DOMAIN try'[t].calls : try'[t].calls[k] = <<>>,
             loop'[t].retries_left = loop[t].retries_left,
             loop'[t].had_error = loop[t].had_error,
             req'[t].applied = req[t].applied, req'[t].answer = req[t].answer,
             req'[t].tries = req[t].tries,
             req'[t].unlimited = IF pc'[t] = "failed" /\ loop'[t].fk = "UNLIMITED_RETRY"
                                 THEN req[t].unlimited + 1 ELSE req[t].unlimited
      PROVE  RunInv'
  <2> DEFINE s == [ctx |-> ctx'[t], try |-> try'[t], conn |-> conn'[t]]
             l == pc'[t]
             p == loop'[t]
             q == req'[t]
  <2>1. Shaped(s) /\ s.ctx = ctx'[t] /\ s.try = try'[t] /\ s.conn = conn'[t]
    BY <1>5, Built
  <2> HIDE DEF s
  <2>2. Typed(s)
    BY <1>5, <2>1 DEF Typed
  <2>3. Stage(l, s)
    BY <1>5, <2>1 DEF Stage, Begun, Untouched
  <2>4. Retries(l, p, q)
    <3>1. q.tries <= Spent(loop[t], req[t]) + 1
      BY <1>2, <1>5 DEF Retries
    <3>2. /\ Spent(loop[t], req[t]) \in Int /\ q.tries \in Int
          /\ Spent(p, q) = Spent(loop[t], req[t])
                + (IF l = "failed" /\ p.fk = "UNLIMITED_RETRY" THEN 1 ELSE 0)
      <4> DEFINE e == IF l = "failed" /\ p.fk = "UNLIMITED_RETRY" THEN 1 ELSE 0
                 h == IF loop[t].had_error THEN 1 ELSE 0
      <4>1. /\ loop[t].retries_left \in Int /\ req[t].unlimited \in Int /\ MaxRetries \in Int
            /\ q.tries \in Int /\ q.unlimited = req[t].unlimited + e /\ e \in Int /\ h \in Int
        <5>1. loop[t].retries_left \in Int /\ req[t].unlimited \in Int /\ MaxRetries \in Int
          BY <1>2, BoundsAssumption DEF LoopType, ReqType
        <5>2. q.tries \in Int
          BY <1>5 DEF ReqType
        <5>3. q.unlimited = req[t].unlimited + e
          BY <1>5, <5>1
        <5> QED
          BY <5>1, <5>2, <5>3
      <4>2. /\ Spent(loop[t], req[t]) = (MaxRetries - loop[t].retries_left) + req[t].unlimited + h
            /\ Spent(p, q) = (MaxRetries - loop[t].retries_left) + q.unlimited + h
        BY <1>5 DEF Spent
      <4> HIDE DEF e, h, q, p
      <4> QED
        BY <4>1, <4>2 DEF e
    <3> HIDE DEF p, q
    <3> QED
      BY <1>5, <3>1, <3>2 DEF Retries
  <2>5. Effect(l, s, p, q)
    <3>1. "handler" \in Early /\ l \in Early
      BY <1>5 DEF Early
    <3> HIDE DEF l
    <3> QED
      BY <1>2, <1>5, <3>1, EffectKept
  <2>6. At(t, l, s, p, q)
    BY <1>2, <1>5, <2>2, <2>3, <2>4, <2>5 DEF At
  <2>7. Becomes(t, s) /\ readers' \in Int /\ pruning' \in BOOLEAN /\ l \in Pcs
    BY <1>4, <1>5, <2>1, AtThread DEF Becomes, Pcs, Only
  <2>8. Goto(t, l) /\ loop' = [loop EXCEPT ![t] = p] /\ req' = [req EXCEPT ![t] = q]
    BY <1>5 DEF Only, Goto
  <2> HIDE DEF l, p, q
  <2> QED
    BY <2>6, <2>7, <2>8, RunKept
\* The parts that a step leaves alone.
<1>6. Goto(t, "handler") <=> pc' = pc
  BY <1>1, AtThread DEF Goto
<1>7. IsContext(ctx[t]) /\ IsTry(try[t])
  BY <1>3
<1>8. CASE uw_ensure_transaction(t)
  <2> DEFINE c == [ctx[t] EXCEPT !.transaction_started = TRUE]
             y == [try[t] EXCEPT !.sql = "open"]
  <2>1. /\ ctx' = [ctx EXCEPT ![t] = c] /\ try' = [try EXCEPT ![t] = y]
        /\ conn' = [conn EXCEPT ![t] = "open"] /\ Goto(t, "handler")
        /\ loop' = [loop EXCEPT ![t] = loop[t]] /\ req' = [req EXCEPT ![t] = req[t]]
    BY <1>6, <1>8, AtThread DEF uw_ensure_transaction
  <2>2. c = [ctx[t] EXCEPT !.transaction_started = TRUE]
    OBVIOUS
  <2> HIDE DEF c
  <2>3. /\ IsContext(c) /\ c.client = ctx[t].client /\ c.transaction_started = TRUE
        /\ c.error_message = ctx[t].error_message
        /\ c.transactionals = ctx[t].transactionals
    BY <1>7, <2>2, CtxSet
  <2>4. /\ IsTry(y) /\ y.calls = try[t].calls /\ y.registered = try[t].registered
        /\ y.clients = try[t].clients /\ y.sql = "open"
    BY <1>7 DEF IsTry
  <2> HIDE DEF y
  <2>5. /\ Only(t) /\ pc'[t] = "handler" /\ ctx'[t] = c /\ try'[t] = y /\ conn'[t] = "open"
        /\ loop'[t] = loop[t] /\ req'[t] = req[t]
    <3>1. MovesTo(t, "handler", c, y, "open", loop[t], req[t])
      BY <2>1 DEF MovesTo
    <3> QED
      BY <3>1, Moved
  <2> QED
    BY <1>2, <1>3, <1>5, <2>5, <2>3, <2>4
<1>9. ASSUME NEW fk \in HandlerFails, Raise(t, fk), NEW d \in {"idle", "open"},
             conn' = [conn EXCEPT ![t] = d],
             req' = [req EXCEPT ![t] = [req[t] EXCEPT !.unlimited =
               IF fk = "UNLIMITED_RETRY" THEN req[t].unlimited + 1 ELSE req[t].unlimited]]
      PROVE  RunInv'
  <2> DEFINE n == IF fk = "UNLIMITED_RETRY" THEN req[t].unlimited + 1 ELSE req[t].unlimited
             c == [ctx[t] EXCEPT !.error_message = TRUE]
             p == [loop[t] EXCEPT !.fk = fk]
             q == [req[t] EXCEPT !.unlimited = n]
  <2>1. /\ ctx' = [ctx EXCEPT ![t] = c] /\ loop' = [loop EXCEPT ![t] = p]
        /\ req' = [req EXCEPT ![t] = q] /\ try' = [try EXCEPT ![t] = try[t]]
        /\ Goto(t, "failed")
    BY <1>9, AtThread DEF Raise
  <2>2. c = [ctx[t] EXCEPT !.error_message = TRUE]
    OBVIOUS
  <2> HIDE DEF c
  <2>3. /\ IsContext(c) /\ c.client = ctx[t].client /\ c.error_message = TRUE
        /\ c.transaction_started = ctx[t].transaction_started
        /\ c.transactionals = ctx[t].transactionals
    BY <1>7, <2>2, CtxSet
  <2>4. /\ p \in LoopType /\ p.retries_left = loop[t].retries_left
        /\ p.had_error = loop[t].had_error /\ p.fk = fk
    BY <1>2, EnvironmentAssumption DEF LoopType, Fks
  <2>5. /\ q \in ReqType /\ q.applied = req[t].applied /\ q.answer = req[t].answer
        /\ q.tries = req[t].tries
        /\ q.unlimited = IF fk = "UNLIMITED_RETRY" THEN req[t].unlimited + 1 ELSE req[t].unlimited
    BY <1>2 DEF ReqType
  <2> HIDE DEF n, p, q
  <2>6. /\ Only(t) /\ pc'[t] = "failed" /\ ctx'[t] = c /\ try'[t] = try[t] /\ conn'[t] = d
        /\ loop'[t] = p /\ req'[t] = q
    <3>1. MovesTo(t, "failed", c, try[t], d, p, q)
      BY <1>9, <2>1 DEF MovesTo
    <3> QED
      BY <3>1, Moved
  <2> QED
    <3>1. /\ IsContext(ctx'[t]) /\ ctx'[t].client \in BOOLEAN
          /\ ctx'[t].transaction_started \in BOOLEAN /\ ctx'[t].error_message \in BOOLEAN
          /\ ctx'[t].transactionals = try'[t].registered
          /\ ctx'[t].client = ctx[t].client
          /\ ctx'[t].transaction_started = ctx[t].transaction_started
      BY <1>3, <2>3, <2>6
    <3>2. /\ loop'[t] \in LoopType /\ loop'[t].retries_left = loop[t].retries_left
          /\ loop'[t].had_error = loop[t].had_error
          /\ req'[t] \in ReqType /\ req'[t].applied = req[t].applied
          /\ req'[t].answer = req[t].answer /\ req'[t].tries = req[t].tries
          /\ req'[t].unlimited = IF pc'[t] = "failed" /\ loop'[t].fk = "UNLIMITED_RETRY"
                                  THEN req[t].unlimited + 1 ELSE req[t].unlimited
      BY <2>4, <2>5, <2>6
    <3>3. pc'[t] \in {"handler", "failed", "commit"} /\ conn'[t] \in {"idle", "open"} /\ Only(t)
      BY <1>9, <2>6
    <3> QED
      BY <1>3, <1>5, <2>6, <3>1, <3>2, <3>3
<1>10. CASE BeginFails(t)
  <2>1. req' = [req EXCEPT ![t] = [req[t] EXCEPT !.unlimited = req[t].unlimited]]
    <3>1. [req[t] EXCEPT !.unlimited = req[t].unlimited] = req[t]
      BY <1>2 DEF ReqType
    <3> QED
      BY <1>10, <3>1, AtThread DEF BeginFails
  <2> QED
    BY <1>9, <1>10, <2>1 DEF BeginFails
<1>11. CASE \E fk \in HandlerFails : HandlerRaises(t, fk)
  <2>1. PICK fk \in HandlerFails : HandlerRaises(t, fk)
    BY <1>11
  <2>2. conn' = [conn EXCEPT ![t] = conn[t]] /\ Raise(t, fk)
    BY <2>1, AtThread DEF HandlerRaises
  <2>3. req' = [req EXCEPT ![t] = [req[t] EXCEPT !.unlimited =
                  IF fk = "UNLIMITED_RETRY" THEN req[t].unlimited + 1 ELSE req[t].unlimited]]
    <3>1. CASE fk = "UNLIMITED_RETRY"
      BY <2>1, <3>1 DEF HandlerRaises
    <3>2. CASE fk # "UNLIMITED_RETRY"
      BY <1>2, <2>1, <3>2, AtThread DEF HandlerRaises, ReqType
    <3> QED
      BY <3>1, <3>2
  <2> QED
    BY <1>3, <1>9, <2>2, <2>3
<1>12. CASE uw_login(t)
  <2> DEFINE c == [ctx[t] EXCEPT !.client = TRUE]
             y == [try[t] EXCEPT !.clients = 1]
  <2>1. /\ ctx' = [ctx EXCEPT ![t] = c] /\ try' = [try EXCEPT ![t] = y]
        /\ Goto(t, "handler")
        /\ conn' = [conn EXCEPT ![t] = conn[t]] /\ loop' = [loop EXCEPT ![t] = loop[t]]
        /\ req' = [req EXCEPT ![t] = req[t]]
    BY <1>6, <1>12, AtThread DEF uw_login
  <2>2. c = [ctx[t] EXCEPT !.client = TRUE]
    OBVIOUS
  <2> HIDE DEF c
  <2>3. /\ IsContext(c) /\ c.client = TRUE /\ c.error_message = ctx[t].error_message
        /\ c.transaction_started = ctx[t].transaction_started
        /\ c.transactionals = ctx[t].transactionals
    BY <1>7, <2>2, CtxSet
  <2>4. /\ IsTry(y) /\ y.calls = try[t].calls /\ y.registered = try[t].registered
        /\ y.clients = 1 /\ y.sql = try[t].sql
    BY <1>7 DEF IsTry
  <2> HIDE DEF y
  <2>5. /\ Only(t) /\ pc'[t] = "handler" /\ ctx'[t] = c /\ try'[t] = y /\ conn'[t] = conn[t]
        /\ loop'[t] = loop[t] /\ req'[t] = req[t]
    <3>1. MovesTo(t, "handler", c, y, conn[t], loop[t], req[t])
      BY <2>1 DEF MovesTo
    <3> QED
      BY <3>1, Moved
  <2> QED
    BY <1>2, <1>3, <1>5, <2>5, <2>3, <2>4
<1>13. CASE \E kind \in Kinds : uw_register_transactional(t, kind)
  <2>1. PICK kind \in Kinds : uw_register_transactional(t, kind)
    BY <1>13
  <2> DEFINE v == Append(ctx[t].transactionals, kind)
             w == Append(try[t].registered, kind)
             x == Append(try[t].calls, <<>>)
             c == [ctx[t] EXCEPT !.transactionals = v]
             z == [try[t] EXCEPT !.registered = w]
             y == [z EXCEPT !.calls = x]
  <2>2. /\ ctx' = [ctx EXCEPT ![t] = c] /\ try' = [try EXCEPT ![t] = y]
        /\ Goto(t, "handler")
        /\ conn' = [conn EXCEPT ![t] = conn[t]] /\ loop' = [loop EXCEPT ![t] = loop[t]]
        /\ req' = [req EXCEPT ![t] = req[t]]
    BY <1>6, <2>1, AtThread DEF uw_register_transactional
  <2>3. /\ c = [ctx[t] EXCEPT !.transactionals = v]
        /\ z = [try[t] EXCEPT !.registered = w] /\ y = [z EXCEPT !.calls = x]
    OBVIOUS
  <2>4. /\ x \in Seq(Seq(What)) /\ w \in Seq(Kinds) /\ Len(x) = Len(w) /\ v = w
        /\ \A k \in DOMAIN x : x[k] = <<>>
    BY <1>3, OneMoreRegistered
  <2> HIDE DEF c, y, z, v, w, x
  <2>5. /\ IsContext(c) /\ c.client = ctx[t].client /\ c.error_message = ctx[t].error_message
        /\ c.transaction_started = ctx[t].transaction_started
        /\ c.transactionals = v
    BY <1>7, <2>3, CtxSet
  <2>6. /\ IsTry(y) /\ y.calls = x
        /\ y.registered = w
        /\ y.clients = try[t].clients /\ y.sql = try[t].sql
    <3>1. /\ IsTry(z) /\ z.calls = try[t].calls /\ z.registered = w
          /\ z.clients = try[t].clients /\ z.sql = try[t].sql
      BY <1>7, <2>3, TryAppended
    <3>2. y = [z EXCEPT !.calls = x] /\ IsTry(z)
      BY <2>3, <3>1
    <3>3. /\ IsTry(y) /\ y.calls = x /\ y.registered = z.registered
          /\ y.clients = z.clients /\ y.sql = z.sql
      BY <3>2, TryAppended
    <3> QED
      BY <3>1, <3>3
  <2>7. /\ y.calls \in Seq(Seq(What)) /\ y.registered \in Seq(Kinds)
        /\ Len(y.calls) = Len(y.registered)
        /\ \A k \in DOMAIN y.calls : y.calls[k] = <<>>
    BY <2>6, <2>4
  <2>8. /\ Only(t) /\ pc'[t] = "handler" /\ ctx'[t] = c /\ try'[t] = y /\ conn'[t] = conn[t]
        /\ loop'[t] = loop[t] /\ req'[t] = req[t]
    <3>1. MovesTo(t, "handler", c, y, conn[t], loop[t], req[t])
      BY <2>2 DEF MovesTo
    <3> QED
      BY <3>1, Moved
  <2> QED
    BY <1>2, <1>3, <1>5, <2>5, <2>6, <2>4, <2>8
<1>14. CASE uw_set_error_message(t)
  <2> DEFINE c == [ctx[t] EXCEPT !.error_message = TRUE]
  <2>1. /\ ctx' = [ctx EXCEPT ![t] = c] /\ Goto(t, "handler")
        /\ try' = [try EXCEPT ![t] = try[t]] /\ conn' = [conn EXCEPT ![t] = conn[t]]
        /\ loop' = [loop EXCEPT ![t] = loop[t]] /\ req' = [req EXCEPT ![t] = req[t]]
    BY <1>6, <1>14, AtThread DEF uw_set_error_message
  <2>2. c = [ctx[t] EXCEPT !.error_message = TRUE]
    OBVIOUS
  <2> HIDE DEF c
  <2>3. /\ IsContext(c) /\ c.client = ctx[t].client /\ c.error_message = TRUE
        /\ c.transaction_started = ctx[t].transaction_started
        /\ c.transactionals = ctx[t].transactionals
    BY <1>7, <2>2, CtxSet
  <2>4. /\ Only(t) /\ pc'[t] = "handler" /\ ctx'[t] = c /\ try'[t] = try[t] /\ conn'[t] = conn[t]
        /\ loop'[t] = loop[t] /\ req'[t] = req[t]
    <3>1. MovesTo(t, "handler", c, try[t], conn[t], loop[t], req[t])
      BY <2>1 DEF MovesTo
    <3> QED
      BY <3>1, Moved
  <2> QED
    BY <1>2, <1>3, <1>5, <2>4, <2>3
<1>15. CASE HandlerReturns(t)
  <2>1. /\ ctx' = [ctx EXCEPT ![t] = ctx[t]] /\ try' = [try EXCEPT ![t] = try[t]]
        /\ conn' = [conn EXCEPT ![t] = conn[t]] /\ loop' = [loop EXCEPT ![t] = loop[t]]
        /\ req' = [req EXCEPT ![t] = req[t]] /\ Goto(t, "commit")
    BY <1>15, AtThread DEF HandlerReturns
  <2>2. /\ Only(t) /\ pc'[t] = "commit" /\ ctx'[t] = ctx[t] /\ try'[t] = try[t]
        /\ conn'[t] = conn[t] /\ loop'[t] = loop[t] /\ req'[t] = req[t]
    BY <1>15, <2>1 DEF HandlerReturns, Only, Goto, RunInv
  <2> QED
    BY <1>2, <1>3, <1>5, <2>2
<1> QED
  BY <1>8, <1>10, <1>11, <1>12, <1>13, <1>14, <1>15 DEF Handler

\* A thread that goes on without a change to its loop.
LEMMA Advanced ==
    ASSUME RunInv, NEW t \in Threads, NEW l \in Pcs, NEW s, Typed(s), Stage(l, s),
           Becomes(t, s), Goto(t, l), UNCHANGED <<loop, readers, pruning>>,
           NEW q \in ReqType, req' = [req EXCEPT ![t] = q],
           q.tries = req[t].tries, q.unlimited = req[t].unlimited,
           pc[t] \notin {"idle", "dead"}, l \notin {"arrive", "retry", "departed", "failed"},
           Effect(l, s, loop[t], q)
    PROVE  RunInv'
<1>1. /\ loop[t] \in LoopType /\ req[t] \in ReqType
      /\ Retries(pc[t], loop[t], req[t])
      /\ (t \in Periodics => loop[t].retries_left > 0)
  BY AtThread DEF At
<1>2. Retries(l, loop[t], q)
  BY <1>1 DEF Retries, Spent
<1>3. At(t, l, s, loop[t], q)
  BY <1>1, <1>2 DEF At
<1>4. /\ readers' \in Int /\ pruning' \in BOOLEAN /\ loop' = [loop EXCEPT ![t] = loop[t]]
  BY AtThread
<1> QED
  BY <1>3, <1>4, RunKept

\* A thread that is done without having taken effect.
LEMMA DoneUnapplied ==
    ASSUME RunInv, NEW t \in Threads, pc[t] \in {"commit", "sql"}, NEW s, Typed(s), Ended(s),
           Closed(s), Becomes(t, s), Goto(t, "done"),
           UNCHANGED <<loop, readers, pruning, req>>,
           NoConflict => s.ctx.error_message = TRUE
    PROVE  RunInv'
<1>1. /\ req[t] \in ReqType /\ req' = [req EXCEPT ![t] = req[t]]
      /\ Effect(pc[t], State(t), loop[t], req[t])
  BY AtThread DEF At
<1>2. Stage("done", s)
  BY DEF Stage
<1>3. Effect("done", s, loop[t], req[t])
  BY <1>1 DEF Effect, Sound
<1> QED
  BY <1>1, <1>2, <1>3, Advanced DEF Pcs

\* Undoable actions commit; a message, old or new, rolls all of them back.
LEMMA UndoablesRun ==
    ASSUME RunInv, NEW t \in Threads, CommitUndoables(t)
    PROVE  RunInv'
<1> DEFINE s0 == State(t)
<1>1. /\ pc[t] = "commit" /\ UNCHANGED <<loop, readers, pruning, req>>
  BY DEF CommitUndoables
<1>2. /\ Typed(s0) /\ Begun(s0) /\ Untouched(s0) /\ s0.ctx = ctx[t] /\ req[t] \in ReqType
      /\ Effect("commit", s0, loop[t], req[t]) /\ req' = [req EXCEPT ![t] = req[t]]
  BY <1>1, AtThread DEF At, Stage
<1>3. PICK stop \in Nat :
        \E s :
          /\ \/ ctx[t].error_message /\ s = s0
             \/ ~ctx[t].error_message /\ s = Committed(s0, "undo", stop)
          /\ IF s.ctx.error_message
             THEN /\ \E ok \in RollbackAnswers(s) : Becomes(t, AfterRollback(s, ok))
                  /\ Goto(t, "done")
             ELSE Becomes(t, s) /\ Goto(t, "sql")
  BY DEF CommitUndoables, Stops
<1>4. PICK s :
        /\ \/ ctx[t].error_message /\ s = s0
           \/ ~ctx[t].error_message /\ s = Committed(s0, "undo", stop)
        /\ IF s.ctx.error_message
           THEN /\ \E ok \in RollbackAnswers(s) : Becomes(t, AfterRollback(s, ok))
                /\ Goto(t, "done")
           ELSE Becomes(t, s) /\ Goto(t, "sql")
  BY <1>3
<1> HIDE DEF s0
<1>5. Typed(s) /\ Begun(s) /\ Partly(s) /\ (~s.ctx.error_message => Promised(s))
  <2>1. CASE ctx[t].error_message /\ s = s0
    BY <1>2, <2>1 DEF Untouched, Partly
  <2>2. CASE ~ctx[t].error_message /\ s = Committed(s0, "undo", stop)
    <3>1. s0.ctx.transactionals = s0.try.registered /\ "undo" \in Kinds
      BY <1>2 DEF Begun, Kinds
    <3>2. /\ Typed(s) /\ s.conn = s0.conn
          /\ Context(s) = <<s0.try.registered, s0.ctx.client, s0.ctx.transaction_started,
                            s0.ctx.error_message \/ stop # 0>>
          /\ s.try.registered = s0.try.registered /\ s.try.sql = s0.try.sql
          /\ s.try.clients = s0.try.clients
          /\ DOMAIN s.try.calls = DOMAIN s0.try.calls
          /\ \A k \in DOMAIN s0.try.calls :
               s.try.calls[k] = IF k >= stop /\ s0.try.registered[k] = "undo"
                                THEN Append(s0.try.calls[k], "commit") ELSE s0.try.calls[k]
      BY <1>2, <2>2, <3>1, CommittedState
    <3>3. /\ s.ctx.transactionals = s0.ctx.transactionals /\ s.ctx.client = s0.ctx.client
          /\ s.ctx.transaction_started = s0.ctx.transaction_started
          /\ s.ctx.error_message = (stop # 0)
      BY <1>2, <2>2, <3>1, <3>2 DEF Context
    <3>4. Begun(s)
      BY <1>2, <3>2, <3>3 DEF Begun
    <3>5. \A k \in DOMAIN s.try.calls :
            s.try.calls[k] = IF k >= stop /\ s.try.registered[k] = "undo"
                             THEN <<"commit">> ELSE <<>>
      BY <1>2, <3>2, Appends DEF Untouched
    <3>6. Partly(s)
      BY <3>5 DEF Partly
    <3>7. ASSUME ~s.ctx.error_message PROVE Promised(s)
      <4>1. stop = 0
        BY <3>3, <3>7
      <4>2. \A k \in DOMAIN s.try.calls : k >= 0
        BY <3>2 DEF Typed
      <4> QED
        BY <3>2, <3>5, <3>7, <4>1, <4>2 DEF Promised, Typed
    <3> QED
      BY <3>2, <3>4, <3>6, <3>7
  <2> QED
    BY <1>4, <2>1, <2>2
<1>6. CASE s.ctx.error_message
  <2>1. PICK ok \in BOOLEAN : Becomes(t, AfterRollback(s, ok))
    BY <1>4, <1>6 DEF RollbackAnswers
  <2> DEFINE r == AfterRollback(s, ok)
  <2>2. /\ Typed(r) /\ Ended(r) /\ r.ctx.transaction_started = FALSE
        /\ r.ctx.error_message = s.ctx.error_message
    BY <1>5, RollbackEnds
  <2>3. r.ctx.error_message = TRUE
    BY <1>5, <1>6, <2>2 DEF Typed
  <2> HIDE DEF r
  <2> QED
    BY <1>1, <1>4, <1>6, <2>1, <2>2, <2>3, DoneUnapplied DEF Closed, r
<1>7. CASE ~s.ctx.error_message
  <2>1. Stage("sql", s)
    BY <1>5, <1>7 DEF Stage
  <2>2. Effect("sql", s, loop[t], req[t])
    BY <1>2, EffectKept DEF Early
  <2> QED
    BY <1>1, <1>2, <1>4, <1>5, <1>7, <2>1, <2>2, Advanced DEF Pcs
<1> QED
  BY <1>6, <1>7

\* The point of no return: the request's effects are there.
LEMMA AppliedRun ==
    ASSUME RunInv, NEW t \in Threads, pc[t] = "sql", NEW s, Typed(s), Durable(s), Promised(s),
           Becomes(t, s), Applies(t), Goto(t, "final"), UNCHANGED <<loop, readers, pruning>>
    PROVE  RunInv'
<1> DEFINE q == IF loop[t].had_error THEN req[t]
                ELSE [req[t] EXCEPT !.applied = req[t].applied + 1]
<1>1. /\ req[t] \in ReqType /\ loop[t] \in LoopType /\ Effect("sql", State(t), loop[t], req[t])
  BY AtThread DEF At
<1>2. req' = [req EXCEPT ![t] = q]
  BY AtThread DEF Applies
<1>3. /\ q \in ReqType /\ q.tries = req[t].tries /\ q.unlimited = req[t].unlimited
      /\ q.answer = req[t].answer
      /\ q.applied = IF loop[t].had_error THEN req[t].applied ELSE req[t].applied + 1
  BY <1>1 DEF ReqType
<1> HIDE DEF q
<1>4. Effect("final", s, loop[t], q)
  BY <1>1, <1>3 DEF Effect
<1>5. Stage("final", s)
  BY DEF Stage
<1> QED
  BY <1>2, <1>3, <1>4, <1>5, Advanced DEF Pcs

\* COMMIT succeeds, or there is nothing to commit.
LEMMA SqlRun ==
    ASSUME RunInv, NEW t \in Threads, db_commit(t) \/ no_db_commit(t)
    PROVE  RunInv'
<1> DEFINE s0 == State(t)
<1>1. /\ pc[t] = "sql" /\ Applies(t) /\ Goto(t, "final") /\ UNCHANGED <<loop, readers, pruning>>
  BY DEF db_commit, no_db_commit
<1>2. /\ Typed(s0) /\ Begun(s0) /\ Promised(s0) /\ s0.ctx = ctx[t] /\ s0.try = try[t]
      /\ s0.conn = conn[t]
  BY <1>1, AtThread DEF At, Stage
<1> HIDE DEF s0
<1>3. CASE db_commit(t)
  <2> DEFINE a == [s0 EXCEPT !.ctx.transaction_started = FALSE]
             e == [a EXCEPT !.conn = "idle"]
             r == [e EXCEPT !.try.sql = "committed"]
  <2>1. Becomes(t, r)
    BY <1>3 DEF db_commit, s0
  <2>2. /\ Shaped(a) /\ History(a) = History(s0) /\ a.conn = s0.conn
        /\ Context(a) = <<s0.ctx.transactionals, s0.ctx.client, FALSE, s0.ctx.error_message>>
    BY <1>2, StartedSet DEF Typed
  <2> HIDE DEF a
  <2>3. Shaped(e) /\ Context(e) = Context(a) /\ History(e) = History(a) /\ e.conn = "idle"
    BY <2>2, ConnSet
  <2> HIDE DEF e
  <2>4. /\ Shaped(r) /\ Context(r) = Context(e) /\ r.conn = e.conn
        /\ History(r) = <<e.try.calls, e.try.registered, "committed", e.try.clients>>
    BY <2>3, SqlSet
  <2> HIDE DEF r
  <2>5. /\ r.ctx.transactionals = s0.ctx.transactionals /\ r.ctx.client = s0.ctx.client
        /\ r.ctx.transaction_started = FALSE /\ r.ctx.error_message = s0.ctx.error_message
        /\ r.try.calls = s0.try.calls /\ r.try.registered = s0.try.registered
        /\ r.try.sql = "committed" /\ r.try.clients = s0.try.clients /\ r.conn = "idle"
    BY <2>2, <2>3, <2>4 DEF Context, History
  <2>6. Typed(r) /\ Durable(r) /\ Promised(r)
    BY <1>2, <2>4, <2>5 DEF Typed, Durable, Promised, Begun
  <2> QED
    BY <1>1, <2>1, <2>6, AppliedRun
<1>4. CASE no_db_commit(t)
  <2>1. Becomes(t, s0)
    BY <1>2, <1>4, AtThread DEF no_db_commit, Becomes
  <2>2. Durable(s0)
    BY <1>2, <1>4 DEF no_db_commit, Durable, Begun, Typed
  <2> QED
    BY <1>1, <1>2, <2>1, <2>2, AppliedRun
<1> QED
  BY <1>3, <1>4

\* A COMMIT that fails: all is freed, and where it was a conflict undone before.
LEMMA NotCommittedRun ==
    ASSUME RunInv, NEW t \in Threads, db_commit_conflict(t) \/ db_commit_error(t)
    PROVE  RunInv'
<1> DEFINE s0 == State(t)
           q == Released(s0)
<1>1. /\ pc[t] = "sql" /\ ctx[t].transaction_started /\ Goto(t, "done")
      /\ UNCHANGED <<loop, readers, pruning, req>>
  BY DEF db_commit_conflict, db_commit_error
<1>2. /\ Typed(s0) /\ Begun(s0) /\ Promised(s0) /\ s0.ctx = ctx[t]
  BY <1>1, AtThread DEF At, Stage
<1>3. /\ Typed(q) /\ Context(q) = Context(s0)
      /\ History(q) = <<s0.try.calls, s0.try.registered, s0.try.sql,
                        IF s0.ctx.client THEN s0.try.clients - 1 ELSE s0.try.clients>>
  BY <1>2, ReleasedState
<1>4. CASE db_commit_conflict(t)
  <2> DEFINE u == UndoneAndFreed(q)
             e == [u EXCEPT !.conn = "idle"]
             r == [e EXCEPT !.try.sql = "aborted"]
  <2>1. Becomes(t, r) /\ ~NoConflict
    BY <1>4 DEF db_commit_conflict, NoConflict
  <2> HIDE DEF s0, q
  <2>2. /\ Typed(u) /\ Context(u) = Context(q) /\ u.conn = q.conn
        /\ u.try.registered = q.try.registered /\ u.try.clients = q.try.clients
        /\ DOMAIN u.try.calls = DOMAIN q.try.calls
        /\ q.ctx.transactionals # <<>> => \A k \in DOMAIN q.try.calls :
             u.try.calls[k] =
               Append(IF q.try.registered[k] = "undo"
                      THEN Append(q.try.calls[k], "rollback") ELSE q.try.calls[k], "free")
    BY <1>3, UndoneAndFreedState
  <2> HIDE DEF u
  <2>3. Shaped(e) /\ Context(e) = Context(u) /\ History(e) = History(u) /\ e.conn = "idle"
    <3>1. Shaped(u)
      BY <2>2 DEF Typed
    <3> QED
      BY <3>1, ConnSet
  <2> HIDE DEF e
  <2>4. /\ Shaped(r) /\ Context(r) = Context(e) /\ r.conn = e.conn
        /\ History(r) = <<e.try.calls, e.try.registered, "aborted", e.try.clients>>
    BY <2>3, SqlSet
  <2> HIDE DEF r
  <2>5. /\ r.try.calls = u.try.calls /\ r.try.registered = s0.try.registered
        /\ r.try.clients = (IF s0.ctx.client THEN s0.try.clients - 1 ELSE s0.try.clients)
        /\ r.try.sql = "aborted" /\ r.ctx.transaction_started = s0.ctx.transaction_started
        /\ r.ctx.transactionals = s0.ctx.transactionals /\ r.ctx.client = s0.ctx.client
        /\ r.ctx.error_message = s0.ctx.error_message
    <3>1. /\ r.try.calls = u.try.calls /\ r.try.registered = u.try.registered
          /\ r.try.clients = u.try.clients /\ r.try.sql = "aborted"
      BY <2>3, <2>4 DEF History
    <3>2. /\ r.ctx.transactionals = q.ctx.transactionals /\ r.ctx.client = q.ctx.client
          /\ r.ctx.transaction_started = q.ctx.transaction_started
          /\ r.ctx.error_message = q.ctx.error_message
      BY <2>2, <2>3, <2>4 DEF Context
    <3>3. /\ q.try.registered = s0.try.registered
          /\ q.try.clients = (IF s0.ctx.client THEN s0.try.clients - 1 ELSE s0.try.clients)
          /\ q.ctx.transactionals = s0.ctx.transactionals /\ q.ctx.client = s0.ctx.client
          /\ q.ctx.transaction_started = s0.ctx.transaction_started
          /\ q.ctx.error_message = s0.ctx.error_message
      BY <1>3 DEF Context, History
    <3> QED
      BY <2>2, <3>1, <3>2, <3>3
  <2>6. Typed(r)
    <3>1. u.try.registered = s0.try.registered
      BY <1>3, <2>2 DEF History
    <3>2. /\ u.try.calls \in Seq(Seq(What)) /\ u.try.clients \in Int
          /\ Len(u.try.calls) = Len(u.try.registered)
      BY <2>2 DEF Typed
    <3>3. r.try.clients = u.try.clients /\ r.conn = "idle" /\ Shaped(r)
      BY <2>3, <2>4 DEF History
    <3> QED
      BY <1>2, <2>5, <3>1, <3>2, <3>3 DEF Typed
  <2>7. ASSUME NEW k \in DOMAIN r.try.calls
        PROVE  r.try.calls[k] = IF r.try.registered[k] = "undo"
                                THEN <<"commit", "rollback", "free">> ELSE <<"free">>
    <3>1. q.try.calls = s0.try.calls /\ q.try.registered = s0.try.registered
          /\ q.ctx.transactionals = s0.try.registered
      BY <1>2, <1>3 DEF Begun, Context, History
    <3>2. k \in DOMAIN s0.try.calls /\ s0.try.registered # <<>>
      <4>1. DOMAIN r.try.calls = DOMAIN s0.try.calls
        BY <2>2, <2>5, <3>1
      <4>2. k \in DOMAIN s0.try.calls
        BY <4>1
      <4>3. DOMAIN s0.try.calls = 1 .. Len(s0.try.registered) /\ s0.try.registered \in Seq(Kinds)
        BY <1>2 DEF Typed
      <4> QED
        BY <4>2, <4>3
    <3>3. s0.try.calls[k] = IF s0.try.registered[k] = "undo" THEN <<"commit">> ELSE <<>>
      BY <1>2, <3>2 DEF Promised
    <3>4. r.try.calls[k] =
            Append(IF s0.try.registered[k] = "undo"
                   THEN Append(s0.try.calls[k], "rollback") ELSE s0.try.calls[k], "free")
      BY <2>2, <2>5, <3>1, <3>2
    <3>5. CASE s0.try.registered[k] = "undo"
      BY <2>5, <3>3, <3>4, <3>5, Appends
    <3>6. CASE s0.try.registered[k] # "undo"
      BY <2>5, <3>3, <3>4, <3>6, Appends
    <3> QED
      BY <3>5, <3>6
  <2>8. Ended(r) /\ Closed(r)
    <3>1. r.try.clients = 0
      BY <1>2, <2>5 DEF Begun, Typed
    <3>2. \A k \in DOMAIN r.try.calls : r.try.registered[k] \in Kinds
      BY <2>6 DEF Typed
    <3>3. /\ <<"commit", "rollback", "free">> # <<"commit", "free">>
          /\ <<"free">> # <<"commit", "free">>
      OBVIOUS
    <3>4. ASSUME NEW k \in DOMAIN r.try.calls
          PROVE  /\ r.try.calls[k] \in Endings[r.try.registered[k]]
                 /\ r.try.calls[k] # <<"commit", "free">>
      <4>1. CASE r.try.registered[k] = "undo"
        BY <2>7, <3>3, <4>1 DEF Endings
      <4>2. CASE r.try.registered[k] = "final"
        BY <2>7, <3>3, <4>2 DEF Endings
      <4> QED
        BY <3>2, <4>1, <4>2 DEF Kinds
    <3> QED
      BY <2>5, <3>1, <3>4 DEF Ended, Closed
  <2> QED
    BY <1>1, <2>1, <2>6, <2>8, DoneUnapplied
<1>5. CASE db_commit_error(t)
  <2>1. PICK d \in {"idle", "open"} :
          Becomes(t, [Freed(q) EXCEPT !.conn = d, !.try.sql = "aborted", !.ctx.error_message = TRUE])
    BY <1>5 DEF db_commit_error
  <2> DEFINE u == Freed(q)
             e == [u EXCEPT !.conn = d]
             g == [e EXCEPT !.try.sql = "aborted"]
             r == [g EXCEPT !.ctx.error_message = TRUE]
  <2>2. Becomes(t, r) /\ "error" \in CommitAnswers
    BY <1>5, <2>1 DEF db_commit_error
  <2> HIDE DEF s0, q
  <2>3. /\ Typed(u) /\ Context(u) = Context(q) /\ u.conn = q.conn
        /\ u.try.registered = q.try.registered /\ u.try.clients = q.try.clients
        /\ DOMAIN u.try.calls = DOMAIN q.try.calls
        /\ \A k \in DOMAIN q.try.calls :
             u.try.calls[k] = IF /\ q.ctx.transactionals # <<>> /\ k >= 1
                                 /\ q.try.registered[k] \in Kinds
                              THEN Append(q.try.calls[k], "free") ELSE q.try.calls[k]
    BY <1>3, CalledState DEF Freed, What
  <2> HIDE DEF u
  <2>4. Shaped(e) /\ Context(e) = Context(u) /\ History(e) = History(u) /\ e.conn = d
    <3>1. Shaped(u)
      BY <2>3 DEF Typed
    <3> QED
      BY <3>1, ConnSet
  <2> HIDE DEF e
  <2>5. /\ Shaped(g) /\ Context(g) = Context(e) /\ g.conn = e.conn
        /\ History(g) = <<e.try.calls, e.try.registered, "aborted", e.try.clients>>
    BY <2>4, SqlSet
  <2> HIDE DEF g
  <2>6. /\ Shaped(r) /\ History(r) = History(g) /\ r.conn = g.conn
        /\ Context(r) = <<g.ctx.transactionals, g.ctx.client, g.ctx.transaction_started, TRUE>>
    BY <2>5, ErrorSet
  <2> HIDE DEF r
  <2>7. /\ r.try.calls = u.try.calls /\ r.try.registered = s0.try.registered
        /\ r.try.clients = (IF s0.ctx.client THEN s0.try.clients - 1 ELSE s0.try.clients)
        /\ r.try.sql = "aborted" /\ r.ctx.transaction_started = s0.ctx.transaction_started
        /\ r.ctx.transactionals = s0.ctx.transactionals /\ r.ctx.client = s0.ctx.client
        /\ r.ctx.error_message = TRUE /\ r.conn = d
    <3>1. /\ r.try.calls = u.try.calls /\ r.try.registered = u.try.registered
          /\ r.try.clients = u.try.clients /\ r.try.sql = "aborted" /\ r.conn = d
      BY <2>4, <2>5, <2>6 DEF History
    <3>2. /\ r.ctx.transactionals = q.ctx.transactionals /\ r.ctx.client = q.ctx.client
          /\ r.ctx.transaction_started = q.ctx.transaction_started
          /\ r.ctx.error_message = TRUE
      BY <2>3, <2>4, <2>5, <2>6 DEF Context
    <3>3. /\ q.try.registered = s0.try.registered
          /\ q.try.clients = (IF s0.ctx.client THEN s0.try.clients - 1 ELSE s0.try.clients)
          /\ q.ctx.transactionals = s0.ctx.transactionals /\ q.ctx.client = s0.ctx.client
          /\ q.ctx.transaction_started = s0.ctx.transaction_started
      BY <1>3 DEF Context, History
    <3> QED
      BY <2>3, <3>1, <3>2, <3>3
  <2>8. Typed(r)
    <3>1. /\ r.try.calls \in Seq(Seq(What)) /\ r.try.clients \in Int
          /\ Len(r.try.calls) = Len(s0.try.registered)
      <4>1. u.try.registered = s0.try.registered
        BY <1>3, <2>3 DEF History
      <4>2. /\ u.try.calls \in Seq(Seq(What)) /\ u.try.clients \in Int
            /\ Len(u.try.calls) = Len(u.try.registered)
        BY <2>3 DEF Typed
      <4>3. r.try.clients = u.try.clients
        BY <2>4, <2>5, <2>6 DEF History
      <4> QED
        BY <2>7, <4>1, <4>2, <4>3
    <3>2. r.conn \in {"idle", "open"} /\ Shaped(r)
      BY <2>6, <2>7
    <3> QED
      BY <1>2, <2>7, <3>1, <3>2 DEF Typed
  <2>9. ASSUME NEW k \in DOMAIN r.try.calls
        PROVE  /\ r.try.registered[k] \in Kinds
               /\ r.try.calls[k] = IF r.try.registered[k] = "undo"
                                   THEN <<"commit", "free">> ELSE <<"free">>
    <3>1. q.try.calls = s0.try.calls /\ q.try.registered = s0.try.registered
          /\ q.ctx.transactionals = s0.try.registered
      BY <1>2, <1>3 DEF Begun, Context, History
    <3>2. k \in DOMAIN s0.try.calls /\ s0.try.registered # <<>> /\ k >= 1
          /\ s0.try.registered[k] \in Kinds
      <4>1. DOMAIN r.try.calls = DOMAIN s0.try.calls
        BY <2>3, <2>7, <3>1
      <4>2. k \in DOMAIN s0.try.calls
        BY <4>1
      <4>3. DOMAIN s0.try.calls = 1 .. Len(s0.try.registered) /\ s0.try.registered \in Seq(Kinds)
        BY <1>2 DEF Typed
      <4> QED
        BY <4>2, <4>3
    <3>3. s0.try.calls[k] = IF s0.try.registered[k] = "undo" THEN <<"commit">> ELSE <<>>
      BY <1>2, <3>2 DEF Promised
    <3>4. r.try.calls[k] = Append(s0.try.calls[k], "free")
      BY <2>3, <2>7, <3>1, <3>2
    <3> QED
      BY <2>7, <3>2, <3>3, <3>4, Appends
  <2>10. Ended(r) /\ Closed(r)
    <3>1. r.try.clients = 0
      BY <1>2, <2>7 DEF Begun, Typed
    <3>2. <<"free">> # <<"commit", "free">>
      OBVIOUS
    <3>3. ASSUME NEW k \in DOMAIN r.try.calls
          PROVE  /\ r.try.calls[k] \in Endings[r.try.registered[k]]
                 /\ r.try.calls[k] = <<"commit", "free">> => r.try.registered[k] # "final"
      <4>1. CASE r.try.registered[k] = "undo"
        BY <2>9, <3>2, <4>1 DEF Endings
      <4>2. CASE r.try.registered[k] = "final"
        BY <2>9, <3>2, <4>2 DEF Endings
      <4> QED
        BY <2>9, <4>1, <4>2 DEF Kinds
    <3> QED
      BY <2>2, <2>7, <3>1, <3>3 DEF Ended, Closed
  <2> QED
    BY <1>1, <2>2, <2>7, <2>8, <2>10, DoneUnapplied
<1> QED
  BY <1>4, <1>5

\* The final actions commit, and all are freed.
LEMMA FinalsRun ==
    ASSUME RunInv, NEW t \in Threads, CommitFinals(t)
    PROVE  RunInv'
<1> DEFINE s0 == State(t)
<1>1. pc[t] = "final" /\ Goto(t, "done") /\ UNCHANGED <<loop, readers, pruning, req>>
  BY DEF CommitFinals
<1>2. /\ Typed(s0) /\ Durable(s0) /\ Promised(s0) /\ req[t] \in ReqType
      /\ Effect("final", s0, loop[t], req[t]) /\ req' = [req EXCEPT ![t] = req[t]]
  BY <1>1, AtThread DEF At, Stage
<1>3. PICK stop \in Nat : /\ Becomes(t, IF stop = 0
                                        THEN Freed(Released(Committed(s0, "final", stop)))
                                        ELSE UndoneAndFreed(Released(Committed(s0, "final", stop))))
                          /\ stop # 0 => "final" \in Signals
  BY DEF CommitFinals, Stops
<1> DEFINE v == Committed(s0, "final", stop)
           q == Released(v)
           r == IF stop = 0 THEN Freed(q) ELSE UndoneAndFreed(q)
<1>4. Becomes(t, r)
  BY <1>3
<1> HIDE DEF s0
<1>5. /\ Typed(v)
      /\ Context(v) = <<s0.try.registered, s0.ctx.client, s0.ctx.transaction_started,
                        s0.ctx.error_message \/ stop # 0>>
      /\ v.try.registered = s0.try.registered /\ v.try.sql = s0.try.sql
      /\ v.try.clients = s0.try.clients
      /\ DOMAIN v.try.calls = DOMAIN s0.try.calls
      /\ \A k \in DOMAIN s0.try.calls :
           v.try.calls[k] = IF k >= stop /\ s0.try.registered[k] = "final"
                            THEN Append(s0.try.calls[k], "commit") ELSE s0.try.calls[k]
  <2>1. s0.ctx.transactionals = s0.try.registered /\ "final" \in Kinds
    BY <1>2 DEF Durable, Kinds
  <2> QED
    BY <1>2, <2>1, CommittedState
<1> HIDE DEF v
<1>6. /\ Typed(q) /\ Context(q) = Context(v)
      /\ History(q) = <<v.try.calls, v.try.registered, v.try.sql,
                        IF v.ctx.client THEN v.try.clients - 1 ELSE v.try.clients>>
  BY <1>5, ReleasedState
<1> HIDE DEF q
<1>7. /\ Typed(r) /\ Context(r) = Context(q)
      /\ r.try.registered = q.try.registered /\ r.try.sql = q.try.sql
      /\ r.try.clients = q.try.clients /\ DOMAIN r.try.calls = DOMAIN q.try.calls
      /\ q.ctx.transactionals # <<>> => \A k \in DOMAIN q.try.calls :
           r.try.calls[k] = Append(IF stop # 0 /\ q.try.registered[k] = "undo"
                                   THEN Append(q.try.calls[k], "rollback")
                                   ELSE q.try.calls[k], "free")
  <2>1. CASE stop = 0
    <3>1. \A k \in DOMAIN q.try.calls : k >= 1 /\ q.try.registered[k] \in Kinds
      BY <1>6 DEF Typed
    <3>2. r = Called(q, "free", Kinds, 1)
      BY <2>1 DEF Freed
    <3> HIDE DEF r
    <3>3. /\ Typed(r) /\ Context(r) = Context(q)
          /\ r.try.registered = q.try.registered /\ r.try.sql = q.try.sql
          /\ r.try.clients = q.try.clients /\ DOMAIN r.try.calls = DOMAIN q.try.calls
          /\ \A k \in DOMAIN q.try.calls :
               r.try.calls[k] = IF /\ q.ctx.transactionals # <<>> /\ k >= 1
                                   /\ q.try.registered[k] \in Kinds
                                THEN Append(q.try.calls[k], "free") ELSE q.try.calls[k]
      BY <1>6, <3>2, CalledState DEF What
    <3> QED
      BY <2>1, <3>1, <3>3
  <2>2. CASE stop # 0
    <3>1. r = UndoneAndFreed(q)
      BY <2>2
    <3> HIDE DEF r
    <3>2. /\ Typed(r) /\ Context(r) = Context(q)
          /\ r.try.registered = q.try.registered /\ r.try.sql = q.try.sql
          /\ r.try.clients = q.try.clients /\ DOMAIN r.try.calls = DOMAIN q.try.calls
          /\ q.ctx.transactionals # <<>> => \A k \in DOMAIN q.try.calls :
               r.try.calls[k] = Append(IF q.try.registered[k] = "undo"
                                       THEN Append(q.try.calls[k], "rollback")
                                       ELSE q.try.calls[k], "free")
      BY <1>6, <3>1, UndoneAndFreedState
    <3> QED
      BY <2>2, <3>2
  <2> QED
    BY <2>1, <2>2
<1> HIDE DEF r
<1>8. /\ r.try.registered = s0.try.registered /\ r.try.sql = s0.try.sql /\ r.try.clients = 0
      /\ r.ctx.transaction_started = FALSE /\ r.ctx.error_message = (stop # 0)
      /\ q.ctx.transactionals = s0.try.registered /\ q.try.registered = s0.try.registered
      /\ q.try.calls = v.try.calls
  <2>1. /\ v.ctx.client = s0.ctx.client /\ v.ctx.transaction_started = FALSE
        /\ v.ctx.error_message = (stop # 0) /\ v.ctx.transactionals = s0.try.registered
    BY <1>2, <1>5 DEF Context, Durable, Promised
  <2>2. s0.try.clients = IF s0.ctx.client THEN 1 ELSE 0
    BY <1>2 DEF Durable
  <2>3. /\ q.ctx.transactionals = s0.try.registered /\ q.ctx.transaction_started = FALSE
        /\ q.ctx.error_message = (stop # 0)
    BY <1>6, <2>1 DEF Context
  <2>4. /\ q.try.registered = s0.try.registered /\ q.try.sql = s0.try.sql
        /\ q.try.calls = v.try.calls /\ q.try.clients = 0
    BY <1>5, <1>6, <2>1, <2>2 DEF History
  <2>5. r.ctx.transaction_started = FALSE /\ r.ctx.error_message = (stop # 0)
    BY <1>7, <2>3 DEF Context
  <2> QED
    BY <1>7, <2>3, <2>4, <2>5
<1>9. ASSUME NEW k \in DOMAIN r.try.calls
      PROVE  /\ r.try.calls[k] \in Endings[r.try.registered[k]]
             /\ stop = 0 => r.try.calls[k] = <<"commit", "free">>
  <2>1. k \in DOMAIN s0.try.calls /\ s0.try.registered # <<>> /\ k >= 0
        /\ s0.try.registered[k] \in Kinds
    <3>1. DOMAIN r.try.calls = DOMAIN s0.try.calls
      BY <1>5, <1>7, <1>8
    <3>2. k \in DOMAIN s0.try.calls
      BY <3>1
    <3> QED
      BY <1>2, <3>2 DEF Typed
  <2>2. s0.try.calls[k] = IF s0.try.registered[k] = "undo" THEN <<"commit">> ELSE <<>>
    BY <1>2, <2>1 DEF Promised
  <2>3. v.try.calls[k] = IF k >= stop /\ s0.try.registered[k] = "final"
                         THEN Append(s0.try.calls[k], "commit") ELSE s0.try.calls[k]
    BY <1>5, <2>1
  <2>4. r.try.calls[k] = Append(IF stop # 0 /\ s0.try.registered[k] = "undo"
                                THEN Append(v.try.calls[k], "rollback")
                                ELSE v.try.calls[k], "free")
    BY <1>7, <1>8, <2>1
  <2>5. CASE s0.try.registered[k] = "undo"
    <3>1. v.try.calls[k] = <<"commit">>
      BY <2>2, <2>3, <2>5
    <3>2. r.try.calls[k] = IF stop = 0 THEN <<"commit", "free">>
                           ELSE <<"commit", "rollback", "free">>
      BY <2>4, <2>5, <3>1, Appends
    <3> QED
      BY <1>8, <2>5, <3>2 DEF Endings
  <2>6. CASE s0.try.registered[k] = "final"
    <3>1. v.try.calls[k] = IF k >= stop THEN <<"commit">> ELSE <<>>
      BY <2>2, <2>3, <2>6, Appends
    <3>2. r.try.calls[k] = IF k >= stop THEN <<"commit", "free">> ELSE <<"free">>
      BY <2>4, <2>6, <3>1, Appends
    <3> QED
      BY <1>8, <2>1, <2>6, <3>2 DEF Endings
  <2> QED
    BY <2>1, <2>5, <2>6 DEF Kinds
<1>10. s0.try.sql \in {"none", "committed"}
  BY <1>2 DEF Durable
<1>11. Stage("done", r)
  BY <1>8, <1>9, <1>10 DEF Stage, Ended, Closed, Success
<1>12. Effect("done", r, loop[t], req[t])
  BY <1>2, <1>3, <1>8 DEF Effect, Sound
<1>13. "done" \in Pcs /\ req[t].tries = req[t].tries /\ req[t].unlimited = req[t].unlimited
       /\ pc[t] \notin {"idle", "dead"} /\ Typed(r)
       /\ "done" \notin {"arrive", "retry", "departed", "failed"}
  BY <1>1, <1>7 DEF Pcs
<1> HIDE DEF r
<1> QED
  BY <1>1, <1>2, <1>4, <1>11, <1>12, <1>13, Advanced

\* Giving back a lock that is not held leaves a count, if a wrong one.
LEMMA ReadersInt ==
    ASSUME RunInv, uw_transaction_departs
    PROVE  readers' \in Int
<1>1. readers \in Int
  BY DEF RunInv
<1> QED
  BY <1>1 DEF uw_transaction_departs

\* Forgetting what is registered, and the client, leaves the history alone.
LEMMA ResetEnds ==
    ASSUME NEW s, Typed(s), Ended(s),
           NEW r \in {uw_reset_keep_error_message(s), uw_reset_keep_request(s), uw_reset(s)}
    PROVE  Typed(r) /\ Ended(r) /\ Emptied(r)
<1>1. Shaped(s)
  BY DEF Typed
<1>2. /\ Shaped(r) /\ History(r) = History(s) /\ r.conn = s.conn
      /\ r.ctx.transactionals = <<>> /\ r.ctx.client = FALSE
      /\ r.ctx.transaction_started \in {s.ctx.transaction_started, FALSE}
      /\ r.ctx.error_message \in {s.ctx.error_message, FALSE}
  <2>1. CASE r = uw_reset_keep_error_message(s)
    BY <1>1, <2>1, ResetState DEF Context
  <2>2. CASE r = uw_reset_keep_request(s)
    BY <1>1, <2>2, ResetState DEF Context
  <2>3. CASE r = uw_reset(s)
    BY <1>1, <2>3, ResetState DEF Context
  <2> QED
    BY <2>1, <2>2, <2>3
<1>3. /\ r.try.calls = s.try.calls /\ r.try.registered = s.try.registered
      /\ r.try.sql = s.try.sql /\ r.try.clients = s.try.clients
  BY <1>2 DEF History
<1>4. Typed(r)
  BY <1>2, <1>3 DEF Typed
<1>5. Ended(r)
  BY <1>3 DEF Ended
<1> QED
  BY <1>2, <1>4, <1>5 DEF Emptied

\* A thread that is finished with its request or period.
LEMMA Finished ==
    ASSUME RunInv, NEW t \in Threads, NEW l \in {"idle", "dead"}, Goto(t, l),
           NEW s, Typed(s), Ended(s), Becomes(t, s),
           NEW p \in LoopType, loop' = [loop EXCEPT ![t] = p],
           NEW q \in ReqType, req' = [req EXCEPT ![t] = q], q.tries <= Spent(p, q) + 1,
           Effect(l, s, p, q), readers' \in Int, UNCHANGED pruning
    PROVE  RunInv'
<1>1. Stage(l, s)
  BY DEF Stage
<1>2. Retries(l, p, q)
  BY DEF Retries
<1>3. At(t, l, s, p, q)
  BY <1>1, <1>2 DEF At
<1>4. pruning' \in BOOLEAN /\ l \in Pcs
  BY DEF RunInv, Pcs
<1> QED
  BY <1>3, <1>4, RunKept

\* The history of a request that gets its answer.
Answering(q, a) == [q EXCEPT !.answer = a]
LEMMA AnsweringReq ==
    ASSUME NEW q \in ReqType, NEW a \in {"SERVED", "FAILED"}
    PROVE  /\ Answering(q, a) \in ReqType /\ Answering(q, a).answer = a
           /\ Answering(q, a).applied = q.applied /\ Answering(q, a).tries = q.tries
           /\ Answering(q, a).unlimited = q.unlimited
  BY DEF Answering, ReqType

\* A request that is answered, by a thread whose loop is as it was.
LEMMA AnsweredRun ==
    ASSUME RunInv, NEW t \in Threads, pc[t] # "idle", NEW a \in {"SERVED", "FAILED"}, Answer(t, a),
           NEW s, Typed(s), Ended(s), Becomes(t, s),
           a = "SERVED" /\ NoConflict => Success(s),
           UNCHANGED <<loop, pruning>>, uw_transaction_departs
    PROVE  RunInv'
<1> DEFINE q == Answering(req[t], a)
<1>1. /\ loop[t] \in LoopType /\ req[t] \in ReqType /\ loop' = [loop EXCEPT ![t] = loop[t]]
      /\ Effect(pc[t], State(t), loop[t], req[t]) /\ req[t].tries <= Spent(loop[t], req[t]) + 1
  BY AtThread DEF At, Retries
<1>2. Goto(t, "idle") /\ req' = [req EXCEPT ![t] = q]
  BY DEF Answer, Answering
<1>3. /\ q \in ReqType /\ q.answer = a /\ q.applied = req[t].applied
      /\ q.tries = req[t].tries /\ q.unlimited = req[t].unlimited
  BY <1>1, AnsweringReq
<1> HIDE DEF q
<1>4. q.tries <= Spent(loop[t], q) + 1
  BY <1>1, <1>3 DEF Spent
<1>5. Effect("idle", s, loop[t], q)
  BY <1>1, <1>3 DEF Effect
<1>6. readers' \in Int
  BY ReadersInt
<1> QED
  BY <1>1, <1>2, <1>3, <1>4, <1>5, <1>6, Finished

\* try_rollback and the end of the request.
LEMMA GivesUpRun ==
    ASSUME RunInv, NEW t \in Threads, pc[t] # "idle", NEW s, Typed(s),
           (Begun(s) /\ Partly(s)) \/ (Ended(s) /\ Closed(s) /\ Emptied(s)), GivesUp(t, s)
    PROVE  RunInv'
<1>1. PICK ok \in BOOLEAN : Becomes(t, uw_reset_keep_error_message(AfterRollback(s, ok)))
  BY DEF GivesUp, RollbackAnswers
<1> DEFINE e == AfterRollback(s, ok)
           r == uw_reset_keep_error_message(e)
<1>2. Typed(e) /\ Ended(e)
  BY RollbackEnds
<1> HIDE DEF e
<1>3. Typed(r) /\ Ended(r)
  BY <1>2, ResetEnds
<1>4. Becomes(t, r)
  BY <1>1 DEF e
<1> HIDE DEF r
<1>5. Answer(t, "FAILED") /\ uw_transaction_departs /\ UNCHANGED <<loop, pruning>>
  BY DEF GivesUp
<1> QED
  BY <1>3, <1>4, <1>5, AnsweredRun

\* A thread that will run a handler once more.
LEMMA OnceMoreRun ==
    ASSUME RunInv, NEW t \in Threads, NEW l \in {"arrive", "retry", "departed"}, Goto(t, l),
           NEW s, Typed(s), Stage(l, s), Becomes(t, s),
           NEW p \in LoopType, loop' = [loop EXCEPT ![t] = p],
           t \in Periodics => p.retries_left > 0,
           UNCHANGED <<req, pruning>>, req[t].tries <= Spent(p, req[t]),
           Effect(l, s, p, req[t]), readers' \in Int
    PROVE  RunInv'
<1>1. req[t] \in ReqType /\ req' = [req EXCEPT ![t] = req[t]] /\ pruning' \in BOOLEAN
  BY AtThread DEF At
<1>2. Retries(l, p, req[t])
  <2>1. Spent(p, req[t]) \in Int /\ req[t].tries \in Int
    BY <1>1, BoundsAssumption DEF Spent, LoopType, ReqType
  <2> HIDE DEF Spent
  <2> QED
    BY <2>1 DEF Retries
<1>3. At(t, l, s, p, req[t])
  BY <1>1, <1>2 DEF At
<1>4. l \in Pcs
  BY DEF Pcs
<1> QED
  BY <1>1, <1>3, <1>4, RunKept

\* A step that leaves context, history and connection alone.
LEMMA Unmoved ==
    ASSUME RunInv, NEW t \in Threads, UNCHANGED <<ctx, try, conn>>
    PROVE  Becomes(t, State(t))
  BY AtThread DEF Becomes

\* Server threads are not periodic tasks.
LEMMA NoPeriodic == ASSUME NEW t \in Workers PROVE t \in Threads /\ t \notin Periodics
  BY ThreadsAssumption DEF Threads

\* Trying again costs a retry, the turn to onError, or was asked for by the handler.
LEMMA RetryRun ==
    ASSUME RunInv, NEW t \in Workers, pc[t] = "failed", Goto(t, "retry"),
           NEW p \in LoopType, loop' = [loop EXCEPT ![t] = p],
           \/ p = loop[t] /\ p.fk = "UNLIMITED_RETRY"
           \/ p.retries_left = loop[t].retries_left - 1 /\ p.had_error = loop[t].had_error
           \/ /\ p.retries_left = loop[t].retries_left
              /\ loop[t].had_error = FALSE /\ p.had_error = TRUE,
           UNCHANGED <<ctx, try, conn, readers, pruning, req>>
    PROVE  RunInv'
<1> DEFINE s == State(t)
           q == req[t]
<1>1. t \in Threads /\ t \notin Periodics
  BY NoPeriodic
<1>2. /\ Typed(s) /\ Begun(s) /\ Untouched(s) /\ loop[t] \in LoopType /\ q \in ReqType
      /\ Effect("failed", s, loop[t], q) /\ Retries("failed", loop[t], q) /\ readers \in Int
  BY <1>1, AtThread DEF At, Stage
<1>3. Becomes(t, s)
  BY <1>1, Unmoved
<1> HIDE DEF s, q
<1>4. Stage("retry", s)
  BY <1>2 DEF Stage
<1>5. Effect("retry", s, p, q)
  BY <1>2, EffectKept DEF Early
<1>6. q.tries <= Spent(p, q)
  <2>1. CASE p = loop[t] /\ p.fk = "UNLIMITED_RETRY"
    BY <1>2, <2>1 DEF Retries
  <2>2. CASE p.retries_left = loop[t].retries_left - 1 /\ p.had_error = loop[t].had_error
    <3> DEFINE h == IF p.had_error THEN 1 ELSE 0
    <3>1. /\ Spent(p, q) = (MaxRetries - p.retries_left) + q.unlimited + h
          /\ Spent(loop[t], q) = (MaxRetries - loop[t].retries_left) + q.unlimited + h
          /\ h \in Int /\ q.tries \in Int /\ q.unlimited \in Int /\ MaxRetries \in Int
          /\ loop[t].retries_left \in Int /\ q.tries <= Spent(loop[t], q) + 1
      BY <1>2, <2>2, BoundsAssumption DEF Spent, Retries, LoopType, ReqType
    <3> HIDE DEF h
    <3> QED
      BY <2>2, <3>1
  <2>3. CASE /\ p.retries_left = loop[t].retries_left
             /\ loop[t].had_error = FALSE /\ p.had_error = TRUE
    <3>1. /\ Spent(p, q) = (MaxRetries - loop[t].retries_left) + q.unlimited + 1
          /\ Spent(loop[t], q) = (MaxRetries - loop[t].retries_left) + q.unlimited + 0
          /\ q.tries \in Int /\ q.unlimited \in Int /\ MaxRetries \in Int
          /\ loop[t].retries_left \in Int /\ q.tries <= Spent(loop[t], q) + 1
      BY <1>2, <2>3, BoundsAssumption DEF Spent, Retries, LoopType, ReqType
    <3> QED
      BY <3>1
  <2> QED
    BY <2>1, <2>2, <2>3
<1>7. readers' \in Int /\ UNCHANGED <<req, pruning>>
  BY <1>2
<1> QED
  BY <1>1, <1>2, <1>3, <1>4, <1>5, <1>6, <1>7, OnceMoreRun DEF q

\* After a handler that failed: once more, onError, or the end.
LEMMA FailedRun ==
    ASSUME RunInv, NEW t \in Threads,
           \/ BoundedRetry(t) \/ UnlimitedRetry(t) \/ HandlerFailedOnError(t)
           \/ HandlerFailedForGood(t)
    PROVE  RunInv'
<1>1. t \in Workers /\ pc[t] = "failed"
  BY DEF BoundedRetry, UnlimitedRetry, HandlerFailedOnError, HandlerFailedForGood,
         OutOfRetries, Failed
<1>2. /\ Typed(State(t)) /\ Begun(State(t)) /\ Untouched(State(t)) /\ loop[t] \in LoopType
      /\ loop = [loop EXCEPT ![t] = loop[t]]
  BY <1>1, AtThread DEF At, Stage
<1>3. CASE BoundedRetry(t)
  <2> DEFINE p == RetryCounted(loop[t])
  <2>1. /\ Goto(t, "retry") /\ loop' = [loop EXCEPT ![t] = p] /\ loop[t].retries_left > 0
        /\ UNCHANGED <<ctx, try, conn, readers, pruning, req>>
    BY <1>3 DEF BoundedRetry, MayRetry
  <2>2. /\ p \in LoopType /\ p.retries_left = loop[t].retries_left - 1
        /\ p.had_error = loop[t].had_error
    BY <1>2, <2>1, BoundsAssumption DEF RetryCounted, LoopType
  <2> HIDE DEF p
  <2> QED
    BY <1>1, <2>1, <2>2, RetryRun
<1>4. CASE UnlimitedRetry(t)
  BY <1>1, <1>2, <1>4, RetryRun DEF UnlimitedRetry, Failed
<1>5. CASE HandlerFailedOnError(t)
  <2> DEFINE p == [loop[t] EXCEPT !.had_error = TRUE]
  <2>1. /\ Goto(t, "retry") /\ loop' = [loop EXCEPT ![t] = p] /\ loop[t].had_error = FALSE
        /\ UNCHANGED <<ctx, try, conn, readers, pruning, req>>
    BY <1>2, <1>5 DEF HandlerFailedOnError, TurnsToOnError, LoopType
  <2>2. /\ p \in LoopType /\ p.retries_left = loop[t].retries_left /\ p.had_error = TRUE
    BY <1>2 DEF LoopType
  <2> HIDE DEF p
  <2> QED
    BY <1>1, <2>1, <2>2, RetryRun
<1>6. CASE HandlerFailedForGood(t)
  BY <1>1, <1>2, <1>6, GivesUpRun DEF HandlerFailedForGood, Untouched, Partly
<1> QED
  BY <1>3, <1>4, <1>5, <1>6

\* After uw_commit.
LEMMA DoneRun ==
    ASSUME RunInv, NEW t \in Threads,
           Answered(t) \/ CommitFailedForGood(t) \/ CommitFailedOnError(t)
    PROVE  RunInv'
<1> DEFINE s0 == State(t)
           r == uw_reset_keep_error_message(s0)
<1>1. pc[t] = "done" /\ t \in Workers /\ t \notin Periodics
  BY NoPeriodic DEF Answered, CommitFailedForGood, CommitFailedOnError, CommitFailed
<1>2. /\ Typed(s0) /\ Ended(s0) /\ Closed(s0) /\ s0.ctx = ctx[t]
      /\ (NoConflict /\ s0.ctx.error_message = FALSE => Success(s0))
      /\ Effect("done", s0, loop[t], req[t]) /\ req[t] \in ReqType /\ loop[t] \in LoopType
      /\ Retries("done", loop[t], req[t])
  BY <1>1, AtThread DEF At, Stage
<1>3. Typed(r) /\ Ended(r) /\ Emptied(r) /\ Closed(r)
  <2>1. Shaped(s0)
    BY <1>2 DEF Typed
  <2>2. /\ r.try.sql = s0.try.sql /\ r.ctx.transaction_started = s0.ctx.transaction_started
    BY <2>1, ResetState DEF Context, History
  <2>3. Closed(r)
    BY <1>2, <2>2 DEF Closed
  <2> QED
    BY <1>2, <2>3, ResetEnds
<1>4. CASE Answered(t)
  <2>1. UNCHANGED <<ctx, try, conn, loop, pruning>> /\ uw_transaction_departs
        /\ (ctx[t].error_message => loop[t].had_error)
    BY <1>4 DEF Answered
  <2>2. Becomes(t, s0)
    BY <2>1, Unmoved
  <2>3. PICK a \in {"SERVED", "FAILED"} :
          Answer(t, a) /\ (a = "SERVED" => loop[t].had_error = FALSE)
    BY <1>2, <1>4 DEF Answered, AnswerAfter, LoopType
  <2>4. ASSUME a = "SERVED", NoConflict PROVE Success(s0)
    <3>1. ctx[t].error_message = FALSE
      BY <1>2, <2>1, <2>3, <2>4 DEF Typed
    <3> QED
      BY <1>2, <2>4, <3>1
  <2> HIDE DEF s0
  <2> QED
    BY <1>1, <1>2, <2>1, <2>2, <2>3, <2>4, AnsweredRun
<1>5. CASE CommitFailedForGood(t)
  <2>1. GivesUp(t, r)
    BY <1>5 DEF CommitFailedForGood
  <2> HIDE DEF r
  <2> QED
    BY <1>1, <1>3, <2>1, GivesUpRun
<1>6. CASE CommitFailedOnError(t)
  <2> DEFINE p == [loop[t] EXCEPT !.had_error = TRUE]
  <2>1. /\ Becomes(t, r) /\ Goto(t, "departed") /\ UNCHANGED <<req, pruning>>
        /\ loop' = [loop EXCEPT ![t] = p] /\ uw_transaction_departs
        /\ ctx[t].error_message = TRUE /\ loop[t].had_error = FALSE
    BY <1>2, <1>6 DEF CommitFailedOnError, CommitFailed, Typed, LoopType
  <2>2. p \in LoopType /\ p.retries_left = loop[t].retries_left /\ p.had_error = TRUE
    BY <1>2 DEF LoopType
  <2> HIDE DEF p, r
  <2>3. Stage("departed", r)
    BY <1>3 DEF Stage
  <2>4. Effect("departed", r, p, req[t])
    BY <1>2, <2>1, <2>2 DEF Effect
  <2>5. req[t].tries <= Spent(p, req[t])
    <3>1. /\ Spent(p, req[t]) = (MaxRetries - loop[t].retries_left) + req[t].unlimited + 1
          /\ Spent(loop[t], req[t]) = (MaxRetries - loop[t].retries_left) + req[t].unlimited + 0
          /\ req[t].tries \in Int /\ req[t].unlimited \in Int /\ MaxRetries \in Int
          /\ loop[t].retries_left \in Int /\ req[t].tries <= Spent(loop[t], req[t]) + 1
      BY <1>2, <2>1, <2>2, BoundsAssumption DEF Spent, Retries, LoopType, ReqType
    <3> QED
      BY <3>1
  <2>6. readers' \in Int
    BY <2>1, ReadersInt
  <2> QED
    BY <1>1, <1>3, <2>1, <2>2, <2>3, <2>4, <2>5, <2>6, OnceMoreRun
<1> QED
  BY <1>4, <1>5, <1>6

\* try_rollback at the end of the body of the loop.
LEMMA RestartsRun ==
    ASSUME RunInv, NEW t \in Threads, Restarts(t)
    PROVE  RunInv'
<1> DEFINE s0 == State(t)
<1>1. pc[t] \in {"retry", "departed"} /\ uw_transaction_departs /\ UNCHANGED <<loop, pruning>>
  BY DEF Restarts
<1>2. /\ Typed(s0) /\ ((Begun(s0) /\ Partly(s0)) \/ (Ended(s0) /\ Closed(s0) /\ Emptied(s0)))
      /\ Effect(pc[t], s0, loop[t], req[t]) /\ Retries(pc[t], loop[t], req[t])
      /\ loop[t] \in LoopType /\ loop' = [loop EXCEPT ![t] = loop[t]]
      /\ (t \in Periodics => loop[t].retries_left > 0)
  <2>1. At(t, pc[t], s0, loop[t], req[t]) /\ loop' = [loop EXCEPT ![t] = loop[t]]
    BY <1>1, AtThread
  <2>2. Untouched(s0) => Partly(s0)
    BY DEF Untouched, Partly
  <2> HIDE DEF s0
  <2> QED
    BY <1>1, <2>1, <2>2 DEF At, Stage
<1>3. PICK ok \in BOOLEAN :
        IF ok THEN /\ Becomes(t, uw_reset_keep_request(AfterRollback(s0, ok)))
                   /\ Goto(t, "arrive") /\ UNCHANGED req
              ELSE Becomes(t, uw_reset(AfterRollback(s0, ok))) /\ Answer(t, "FAILED")
  BY DEF Restarts, RollbackAnswers
<1> DEFINE e == AfterRollback(s0, ok)
<1>4. Typed(e) /\ Ended(e) /\ e.ctx.transaction_started = FALSE
  BY <1>2, RollbackEnds
<1>5. CASE ok
  <2> DEFINE r == uw_reset_keep_request(e)
  <2>1. Becomes(t, r) /\ Goto(t, "arrive") /\ UNCHANGED req
    BY <1>3, <1>5
  <2> HIDE DEF e, s0
  <2>2. Typed(r) /\ Ended(r)
    BY <1>4, ResetEnds
  <2>3. Context(r) = <<<<>>, FALSE, FALSE, FALSE>>
    <3>1. Shaped(e)
      BY <1>4 DEF Typed
    <3> QED
      BY <1>4, <3>1, ResetState
  <2> HIDE DEF r
  <2>4. Stage("arrive", r)
    BY <2>2, <2>3 DEF Stage
  <2>5. Effect("arrive", r, loop[t], req[t])
    BY <1>1, <1>2, EffectKept DEF Early
  <2>6. req[t].tries <= Spent(loop[t], req[t])
    BY <1>1, <1>2 DEF Retries
  <2>7. readers' \in Int
    BY <1>1, ReadersInt
  <2> QED
    BY <1>1, <1>2, <2>1, <2>2, <2>4, <2>5, <2>6, <2>7, OnceMoreRun
<1>6. CASE ~ok
  <2> DEFINE r == uw_reset(e)
  <2>1. Becomes(t, r) /\ Answer(t, "FAILED")
    BY <1>3, <1>6
  <2> HIDE DEF e, s0
  <2>2. Typed(r) /\ Ended(r)
    BY <1>4, ResetEnds
  <2> HIDE DEF r
  <2> QED
    BY <1>1, <2>1, <2>2, AnsweredRun
<1> QED
  BY <1>5, <1>6

\* periodic_loop: the end of a period, or the task once more.
LEMMA PeriodicRun ==
    ASSUME RunInv, NEW t \in Threads, periodic_loop(t)
    PROVE  RunInv'
<1> DEFINE s0 == State(t)
<1>1. CASE PeriodicEnds(t)
  <2>1. /\ pc[t] = "done" /\ uw_transaction_departs /\ Goto(t, "idle")
        /\ UNCHANGED <<ctx, try, conn, loop, pruning, req>>
    BY <1>1 DEF PeriodicEnds
  <2>2. /\ Typed(s0) /\ Ended(s0) /\ loop[t] \in LoopType /\ req[t] \in ReqType
        /\ Effect("done", s0, loop[t], req[t]) /\ req[t].tries <= Spent(loop[t], req[t]) + 1
        /\ loop' = [loop EXCEPT ![t] = loop[t]] /\ req' = [req EXCEPT ![t] = req[t]]
    BY <2>1, AtThread DEF At, Stage, Retries
  <2>3. Becomes(t, s0) /\ readers' \in Int
    BY <2>1, Unmoved, ReadersInt
  <2> HIDE DEF s0
  <2>4. Effect("idle", s0, loop[t], req[t])
    BY <2>2 DEF Effect
  <2> QED
    BY <2>1, <2>2, <2>3, <2>4, Finished
<1>2. CASE PeriodicFails(t)
  <2> DEFINE fk == loop[t].fk
             left == IF fk = "BOUNDED_RETRY" THEN RetryCounted(loop[t]) ELSE loop[t]
             again == fk = "UNLIMITED_RETRY" \/ (fk = "BOUNDED_RETRY" /\ left.retries_left > 0)
  <2>1. /\ t \in Periodics /\ pc[t] = "failed"
        /\ loop' = [loop EXCEPT ![t] = left] /\ UNCHANGED pruning
    BY <1>2 DEF PeriodicFails
  <2>2. PICK ok \in BOOLEAN :
          LET s == uw_reset(AfterRollback(s0, ok)) IN
          IF ok /\ again
          THEN /\ ctx' = [ctx EXCEPT ![t] = s.ctx] /\ conn' = [conn EXCEPT ![t] = s.conn]
               /\ Goto(t, "handler") /\ Begins(t) /\ UNCHANGED readers
          ELSE /\ Becomes(t, s) /\ Goto(t, IF ok THEN "idle" ELSE "dead")
               /\ uw_transaction_departs /\ UNCHANGED req
    BY <1>2 DEF PeriodicFails, RollbackAnswers
  <2>3. /\ Typed(s0) /\ Begun(s0) /\ Untouched(s0) /\ loop[t] \in LoopType /\ req[t] \in ReqType
        /\ Effect("failed", s0, loop[t], req[t]) /\ Retries("failed", loop[t], req[t])
        /\ loop[t].retries_left > 0 /\ req = [req EXCEPT ![t] = req[t]]
        /\ readers \in Int /\ pruning \in BOOLEAN
    BY <2>1, AtThread DEF At, Stage
  <2>4. /\ left \in LoopType /\ left.had_error = loop[t].had_error /\ left.fk = loop[t].fk
        /\ left.retries_left = IF fk = "BOUNDED_RETRY" THEN loop[t].retries_left - 1
                               ELSE loop[t].retries_left
    BY <2>3, BoundsAssumption DEF RetryCounted, LoopType
  <2>5. again => /\ left.retries_left > 0
                 /\ (fk # "UNLIMITED_RETRY" => left.retries_left < loop[t].retries_left)
    BY <2>3, <2>4, BoundsAssumption DEF LoopType
  <2>6. left.retries_left <= loop[t].retries_left
    BY <2>3, <2>4, BoundsAssumption DEF LoopType
  <2> DEFINE e == AfterRollback(s0, ok)
             r == uw_reset(e)
  <2>7. IF ok /\ again
        THEN /\ ctx' = [ctx EXCEPT ![t] = r.ctx] /\ conn' = [conn EXCEPT ![t] = r.conn]
             /\ Goto(t, "handler") /\ Begins(t) /\ UNCHANGED readers
        ELSE /\ Becomes(t, r) /\ Goto(t, IF ok THEN "idle" ELSE "dead")
             /\ uw_transaction_departs /\ UNCHANGED req
    BY <2>2
  <2> HIDE DEF s0, again, left
  <2>8. Typed(e) /\ Ended(e)
    <3>1. Partly(s0)
      BY <2>3 DEF Untouched, Partly
    <3> QED
      BY <2>3, <3>1, RollbackEnds
  <2> HIDE DEF e
  <2>9. Typed(r) /\ Ended(r) /\ Context(r) = <<<<>>, FALSE, FALSE, FALSE>>
    <3>1. Shaped(e)
      BY <2>8 DEF Typed
    <3> QED
      BY <2>8, <3>1, ResetEnds, ResetState
  <2> HIDE DEF r
  <2>10. CASE ok /\ again
    <3> DEFINE s == [ctx |-> r.ctx, try |-> NewTry, conn |-> r.conn]
               q == OnceMore(req[t])
    <3>1. IsContext(r.ctx) /\ IsTry(NewTry) /\ r.conn \in {"idle", "open"}
      BY <2>9 DEF Typed, Shaped, IsState, IsTry, NewTry
    <3>2. Shaped(s) /\ s.ctx = r.ctx /\ s.try = NewTry /\ s.conn = r.conn
      BY <3>1, Built
    <3>3. /\ Goto(t, "handler") /\ try' = [try EXCEPT ![t] = NewTry]
          /\ req' = [req EXCEPT ![t] = q] /\ readers' \in Int /\ pruning' \in BOOLEAN
      BY <2>1, <2>3, <2>7, <2>10 DEF Begins, OnceMore
    <3> HIDE DEF s
    <3>4. Becomes(t, s)
      BY <2>7, <2>10, <3>2, <3>3 DEF Becomes
    <3>5. Typed(s) /\ Stage("handler", s)
      <4>1. Context(s) = <<<<>>, FALSE, FALSE, FALSE>>
        BY <2>9, <3>2 DEF Context
      <4> QED
        BY <3>1, <3>2, <4>1, BegunAnew
    <3>6. /\ q \in ReqType /\ Retries("handler", left, q)
          /\ q.applied = req[t].applied /\ q.answer = req[t].answer
      BY <2>3, <2>4, <2>5, <2>6, <2>10, TriedOnceMore
    <3> HIDE DEF q
    <3>7. Effect("handler", s, left, q)
      BY <2>3, <3>6, EffectKept DEF Early
    <3>8. At(t, "handler", s, left, q)
      BY <2>4, <2>5, <2>10, <3>5, <3>6, <3>7 DEF At
    <3>9. "handler" \in Pcs
      BY DEF Pcs
    <3> QED
      BY <2>1, <3>3, <3>4, <3>8, <3>9, RunKept
  <2>11. CASE ~(ok /\ again)
    <3> DEFINE q == req[t]
    <3>1. /\ Becomes(t, r) /\ Goto(t, IF ok THEN "idle" ELSE "dead") /\ UNCHANGED req
          /\ readers' \in Int
      BY <2>7, <2>11, ReadersInt
    <3>2. req' = [req EXCEPT ![t] = q]
      BY <2>3, <3>1
    <3>3. q.tries <= Spent(left, q) + 1
      <4> DEFINE h == IF loop[t].had_error THEN 1 ELSE 0
      <4>1. /\ Spent(left, q) = (MaxRetries - left.retries_left) + q.unlimited + h
            /\ Spent(loop[t], q) = (MaxRetries - loop[t].retries_left) + q.unlimited + h
            /\ h \in Int /\ q.tries \in Int /\ q.unlimited \in Int /\ MaxRetries \in Int
            /\ loop[t].retries_left \in Int /\ left.retries_left \in Int
            /\ q.tries <= Spent(loop[t], q) + 1
        BY <2>3, <2>4, BoundsAssumption DEF Spent, Retries, LoopType, ReqType
      <4> HIDE DEF h, q
      <4> QED
        BY <2>6, <4>1
    <3>4. ASSUME NEW l \in {"idle", "dead"} PROVE Effect(l, r, left, q)
      BY <2>3, <2>4 DEF Effect
    <3> HIDE DEF q
    <3>5. (IF ok THEN "idle" ELSE "dead") \in {"idle", "dead"}
      OBVIOUS
    <3> QED
      BY <2>1, <2>3, <2>4, <2>9, <3>1, <3>2, <3>3, <3>4, <3>5, Finished DEF q
  <2> QED
    BY <2>10, <2>11
<1> QED
  BY <1>1, <1>2 DEF periodic_loop

\* The invariant holds at the start and is kept by every step.
LEMMA RunStart ==
    ASSUME Init
    PROVE  RunInv
<1>1. /\ pc \in [Threads -> Pcs] /\ readers \in Int /\ pruning \in BOOLEAN
      /\ ctx = [t \in Threads |-> ctx[t]] /\ try = [t \in Threads |-> try[t]]
      /\ conn = [t \in Threads |-> conn[t]]
  <2>1. pc \in [Threads -> Pcs] /\ readers \in Int /\ pruning \in BOOLEAN
    <3>1. "idle" \in Pcs
      BY DEF Pcs
    <3>2. pc = [t \in Threads |-> "idle"]
      BY DEF Init
    <3>3. pc \in [Threads -> Pcs]
      BY <3>1, <3>2
    <3>4. readers \in Int
      BY DEF Init
    <3>5. pruning \in BOOLEAN
      BY DEF Init
    <3> QED
      BY <3>3, <3>4, <3>5
  <2>2. ctx = [t \in Threads |-> ctx[t]]
    BY DEF Init
  <2>3. try = [t \in Threads |-> try[t]]
    BY DEF Init
  <2>4. conn = [t \in Threads |-> conn[t]]
    BY DEF Init
  <2> QED
    BY <2>1, <2>2, <2>3, <2>4
<1>2. NewLoop \in LoopType /\ NewReq \in ReqType
  BY BoundsAssumption DEF NewLoop, NewReq, LoopType, ReqType, Fks
<1>3. loop \in [Threads -> LoopType] /\ req \in [Threads -> ReqType]
  BY <1>2 DEF Init
<1>4. ASSUME NEW t \in Threads PROVE At(t, pc[t], State(t), loop[t], req[t])
  <2> DEFINE s == State(t)
  <2>1. /\ pc[t] = "idle" /\ loop[t] = NewLoop /\ req[t] = NewReq
        /\ s = [ctx |-> ResetContext, try |-> NewTry, conn |-> "idle"]
    BY DEF Init, State
  <2>2. IsContext(ResetContext) /\ IsTry(NewTry)
    BY DEF IsContext, IsTry, ResetContext, NewTry
  <2>3. Shaped(s) /\ s.ctx = ResetContext /\ s.try = NewTry /\ s.conn = "idle"
    BY <2>1, <2>2, Built
  <2> HIDE DEF s
  <2>4. Context(s) = <<<<>>, FALSE, FALSE, FALSE>>
    BY <2>3 DEF Context, ResetContext
  <2>5. Typed(s)
    BY <2>3, <2>4, BegunAnew
  <2>6. Stage("idle", s)
    BY <2>3 DEF Stage, Ended, NewTry
  <2>7. Retries("idle", NewLoop, NewReq)
    BY BoundsAssumption DEF Retries, Spent, NewLoop, NewReq
  <2>8. Effect("idle", s, NewLoop, NewReq)
    BY DEF Effect, NewReq, NewLoop
  <2> QED
    BY <1>2, <2>1, <2>5, <2>6, <2>7, <2>8 DEF At, s
<1> QED
  BY <1>1, <1>3, <1>4 DEF RunInv

LEMMA RunStep ==
    ASSUME RunInv, [Next]_vars
    PROVE  RunInv'
<1>1. ASSUME NEW t \in Threads, RequestArrives(t) \/ PeriodicWakes(t) \/ Step(t)
      PROVE  RunInv'
  <2>1. CASE RequestArrives(t) \/ PeriodicWakes(t)
    BY <2>1, ArrivingRun
  <2>2. CASE uw_transaction_arrives(t)
    BY <2>2, TransactionRun
  <2>3. CASE Handler(t)
    BY <2>3, HandlerRun
  <2>4. CASE uw_commit(t)
    BY <2>4, UndoablesRun, SqlRun, NotCommittedRun, FinalsRun DEF uw_commit
  <2>5. CASE uw_request(t)
    BY <2>5, DoneRun, FailedRun, RestartsRun DEF uw_request
  <2>6. CASE periodic_loop(t)
    BY <2>6, PeriodicRun
  <2> QED
    BY <1>1, <2>1, <2>2, <2>3, <2>4, <2>5, <2>6 DEF Step
<1>2. ASSUME UNCHANGED <<pc, ctx, loop, conn, readers, try, req>>, pruning' \in BOOLEAN
      PROVE  RunInv'
  BY <1>2 DEF RunInv, State
<1>3. CASE uw_expunger_arrives \/ uw_expunger_departs
  BY <1>2, <1>3 DEF uw_expunger_arrives, uw_expunger_departs
<1>4. CASE UNCHANGED vars
  BY <1>2, <1>4 DEF vars, RunInv
<1> QED
  BY <1>1, <1>3, <1>4 DEF Next

\* The invariant RunInv holds in every reachable state of uw_request and periodic_loop.
THEOREM Invariant == Spec => []RunInv
<1>1. Init => RunInv
  BY RunStart
<1>2. RunInv /\ [Next]_vars => RunInv'
  BY RunStep
<1> QED
  BY <1>1, <1>2, PTL DEF Spec

\* The invariant gives the types, and the bound on tries as MAX_RETRIES, the turn to
\* onError, the first run and the retries that the handler asked for.
LEMMA RunType == ASSUME RunInv PROVE TypeOK
<1>1. ASSUME NEW t \in Threads
      PROVE  /\ req[t].tries <= MaxRetries + 2 + req[t].unlimited
             /\ ctx[t] \in [transactionals : Seq(Kinds), client : BOOLEAN,
                            transaction_started : BOOLEAN, error_message : BOOLEAN]
             /\ conn[t] \in {"idle", "open"}
             /\ try[t] \in [calls : Seq(Seq({"commit", "rollback", "free"})),
                            registered : Seq(Kinds), clients : Int,
                            sql : {"none", "open", "committed", "aborted"}]
  <2>1. /\ Typed(State(t)) /\ loop[t] \in LoopType /\ req[t] \in ReqType
        /\ State(t).ctx = ctx[t] /\ State(t).try = try[t] /\ State(t).conn = conn[t]
        /\ IsContext(ctx[t]) /\ IsTry(try[t]) /\ req[t].tries <= Spent(loop[t], req[t]) + 1
    BY AtThread DEF At, Retries
  <2>2. req[t].tries <= MaxRetries + 2 + req[t].unlimited
    <3> DEFINE h == IF loop[t].had_error THEN 1 ELSE 0
    <3>1. /\ Spent(loop[t], req[t]) = (MaxRetries - loop[t].retries_left) + req[t].unlimited + h
          /\ h \in 0 .. 1 /\ loop[t].retries_left \in Nat /\ MaxRetries \in Nat
          /\ req[t].tries \in Nat /\ req[t].unlimited \in Nat
      BY <2>1, BoundsAssumption DEF Spent, LoopType, ReqType
    <3> HIDE DEF h
    <3> QED
      BY <2>1, <3>1
  <2>3. <<>> \in Seq(Kinds)
    OBVIOUS
  <2>4. /\ ctx[t].transactionals \in Seq(Kinds) /\ ctx[t].client \in BOOLEAN
        /\ ctx[t].transaction_started \in BOOLEAN /\ ctx[t].error_message \in BOOLEAN
        /\ conn[t] \in {"idle", "open"}
    BY <2>1, <2>3 DEF Typed
  <2>5. /\ try[t].calls \in Seq(Seq({"commit", "rollback", "free"}))
        /\ try[t].registered \in Seq(Kinds) /\ try[t].clients \in Int
        /\ try[t].sql \in {"none", "open", "committed", "aborted"}
    BY <2>1 DEF Typed, What
  <2>6. ctx[t] \in [transactionals : Seq(Kinds), client : BOOLEAN,
                    transaction_started : BOOLEAN, error_message : BOOLEAN]
    BY <2>1, <2>4 DEF IsContext
  <2>7. try[t] \in [calls : Seq(Seq({"commit", "rollback", "free"})),
                    registered : Seq(Kinds), clients : Int,
                    sql : {"none", "open", "committed", "aborted"}]
    BY <2>1, <2>5 DEF IsTry
  <2> QED
    BY <2>2, <2>4, <2>6, <2>7
<1>2. /\ ctx \in [Threads -> [transactionals : Seq(Kinds), client : BOOLEAN,
                               transaction_started : BOOLEAN, error_message : BOOLEAN]]
      /\ conn \in [Threads -> {"idle", "open"}]
      /\ try \in [Threads -> [calls : Seq(Seq({"commit", "rollback", "free"})),
                              registered : Seq(Kinds), clients : Int,
                              sql : {"none", "open", "committed", "aborted"}]]
  <2> DEFINE C == [transactionals : Seq(Kinds), client : BOOLEAN,
                   transaction_started : BOOLEAN, error_message : BOOLEAN]
             Y == [calls : Seq(Seq({"commit", "rollback", "free"})),
                   registered : Seq(Kinds), clients : Int,
                   sql : {"none", "open", "committed", "aborted"}]
  <2>1. \A t \in Threads : ctx[t] \in C /\ conn[t] \in {"idle", "open"} /\ try[t] \in Y
    BY <1>1
  <2> HIDE DEF C, Y
  <2>2. /\ ctx = [t \in Threads |-> ctx[t]] /\ try = [t \in Threads |-> try[t]]
        /\ conn = [t \in Threads |-> conn[t]]
    BY DEF RunInv
  <2>3. ctx \in [Threads -> C]
    BY <2>1, <2>2
  <2>4. try \in [Threads -> Y]
    BY <2>1, <2>2
  <2>5. conn \in [Threads -> {"idle", "open"}]
    BY <2>1, <2>2
  <2> QED
    BY <2>3, <2>4, <2>5 DEF C, Y
<1>3. /\ pc \in [Threads -> Pcs] /\ readers \in Int /\ pruning \in BOOLEAN
      /\ loop \in [Threads -> LoopType] /\ req \in [Threads -> ReqType]
  BY DEF RunInv
<1> QED
  BY <1>1, <1>2, <1>3 DEF TypeOK, LoopType, ReqType, Fks

\* Every variable has its type for any number of threads, handlers and transactionals, and
\* the handlers of a request run at most MAX_RETRIES + 2 times, retries they ask for with
\* UNLIMITED_RETRY not counted.
THEOREM TypeCorrect == Spec => []TypeOK
<1>1. RunInv => TypeOK
  BY RunType
<1> QED
  BY <1>1, Invariant, PTL

\* What an ending tells of the handlers that were called.
LEMMA EndingsSettled ==
    ASSUME NEW kind \in Kinds, NEW calls \in Endings[kind]
    PROVE  /\ calls # <<>>
           /\ \A i \in DOMAIN calls : calls[i] = "free" <=> i = Len(calls)
           /\ \/ calls = <<"commit", "free">>
              \/ \A i \in DOMAIN calls :
                   calls[i] = "commit" => \E j \in DOMAIN calls : i < j /\ calls[j] = "rollback"
<1>1. calls \in {<<"free">>, <<"rollback", "free">>, <<"commit", "free">>,
                 <<"commit", "rollback", "free">>}
  <2>1. CASE kind = "undo"
    BY <2>1 DEF Endings
  <2>2. CASE kind = "final"
    BY <2>2 DEF Endings
  <2> QED
    BY <2>1, <2>2 DEF Kinds
<1>2. CASE calls = <<"free">>
  <2>1. DOMAIN calls = 1 .. 1 /\ Len(calls) = 1 /\ calls[1] = "free" /\ calls # <<>>
    BY <1>2
  <2> QED
    BY <2>1
<1>3. CASE calls = <<"rollback", "free">>
  <2>1. /\ DOMAIN calls = 1 .. 2 /\ Len(calls) = 2 /\ calls # <<>>
        /\ calls[1] = "rollback" /\ calls[2] = "free"
    BY <1>3
  <2> QED
    BY <2>1
<1>4. CASE calls = <<"commit", "free">>
  <2>1. /\ DOMAIN calls = 1 .. 2 /\ Len(calls) = 2 /\ calls # <<>>
        /\ calls[1] = "commit" /\ calls[2] = "free"
    BY <1>4
  <2> QED
    BY <1>4, <2>1
<1>5. CASE calls = <<"commit", "rollback", "free">>
  <2>1. /\ DOMAIN calls = 1 .. 3 /\ Len(calls) = 3 /\ calls # <<>>
        /\ calls[1] = "commit" /\ calls[2] = "rollback" /\ calls[3] = "free"
    BY <1>5
  <2> QED
    BY <2>1
<1> QED
  BY <1>1, <1>2, <1>3, <1>4, <1>5

\* A final action that has committed has been freed after it.
LEMMA EndingsCommitted ==
    ASSUME NEW calls \in Endings["final"], "commit" \in Range(calls)
    PROVE  calls = <<"commit", "free">>
<1>1. calls \in {<<"free">>, <<"commit", "free">>}
  BY DEF Endings
<1>2. "commit" \notin Range(<<"free">>)
  BY DEF Range
<1> QED
  BY <1>1, <1>2

\* What a thread that is between two runs leaves behind.
LEMMA OverEnded ==
    ASSUME RunInv, NEW t \in Threads, Over(t)
    PROVE  /\ Ended(State(t)) /\ try[t].clients = 0
           /\ \A k \in Registered(t) :
                /\ try[t].registered[k] \in Kinds
                /\ try[t].calls[k] \in Endings[try[t].registered[k]]
                /\ try[t].calls[k] = <<"commit", "free">> /\ "error" \notin CommitAnswers
                     => try[t].sql # "aborted"
<1>1. Typed(State(t)) /\ Ended(State(t)) /\ State(t).try = try[t]
  BY AtThread DEF At, Stage, Over
<1>2. \A k \in DOMAIN try[t].calls : try[t].registered[k] \in Kinds
  BY <1>1 DEF Typed
<1> QED
  BY <1>1, <1>2 DEF Ended, Registered

\* The parts of SettledOnce, from the invariant.
LEMMA RunSettles == ASSUME RunInv PROVE TransactionalsSettled /\ ClientReleased
  BY OverEnded, EndingsSettled DEF TransactionalsSettled, ClientReleased

LEMMA RunFinals == ASSUME RunInv PROVE FinalAfterCommit
<1> SUFFICES ASSUME NEW t \in Threads, NEW k \in Registered(t), try[t].registered[k] = "final",
                    "commit" \in Range(try[t].calls[k])
             PROVE  try[t].sql \in {"committed", "none"}
  BY DEF FinalAfterCommit
<1>1. /\ Typed(State(t)) /\ Stage(pc[t], State(t)) /\ State(t).try = try[t] /\ pc[t] \in Pcs
  BY AtThread DEF At, RunInv
<1>2. k \in DOMAIN try[t].calls /\ "commit" \notin Range(<<>>)
  BY DEF Registered, Range
<1>3. CASE pc[t] \in {"handler", "failed", "retry", "commit"}
  BY <1>1, <1>2, <1>3 DEF Stage, Untouched
<1>4. CASE pc[t] \in {"sql", "final"}
  BY <1>1, <1>2, <1>4 DEF Stage, Promised
<1>5. CASE pc[t] \in {"done", "departed", "idle", "arrive", "dead"}
  <2>1. Ended(State(t))
    BY <1>1, <1>5 DEF Stage
  <2>2. try[t].calls[k] = <<"commit", "free">>
    BY <1>1, <1>2, <2>1, EndingsCommitted DEF Ended
  <2> QED
    BY <1>1, <1>2, <2>1, <2>2 DEF Ended
<1> QED
  BY <1>1, <1>3, <1>4, <1>5 DEF Pcs

\* However a run of a handler ends - uw_commit through to the end, an error message before or
\* during it, a COMMIT refused for either reason, a rollback, one after the other - every
\* transactional is freed once and not touched afterwards, a final one commits only where the SQL
\* transaction has, and the reference to the client is given back exactly once.
THEOREM Settled == Spec => [](TransactionalsSettled /\ FinalAfterCommit /\ ClientReleased)
<1>1. RunInv => TransactionalsSettled /\ FinalAfterCommit /\ ClientReleased
  BY RunSettles, RunFinals
<1> QED
  BY <1>1, Invariant, PTL

LEMMA RunUndoes ==
    ASSUME RunInv, "error" \notin CommitAnswers
    PROVE  UndoneUnlessCommitted
<1> SUFFICES ASSUME NEW t \in Threads, Over(t), try[t].sql = "aborted",
                    NEW k \in Registered(t)
             PROVE  LET calls == try[t].calls[k] IN
                    \A i \in DOMAIN calls : calls[i] = "commit" =>
                      \E j \in DOMAIN calls : i < j /\ calls[j] = "rollback"
  BY DEF UndoneUnlessCommitted
<1>1. /\ try[t].registered[k] \in Kinds
      /\ try[t].calls[k] \in Endings[try[t].registered[k]]
      /\ try[t].calls[k] # <<"commit", "free">>
  BY OverEnded
<1> QED
  BY <1>1, EndingsSettled

LEMMA RunServes ==
    ASSUME RunInv, "serialization" \notin CommitAnswers
    PROVE  ServedMeansDone
<1> SUFFICES ASSUME NEW t \in Workers, pc[t] = "idle", req[t].answer = "SERVED"
             PROVE  /\ try[t].sql \in {"none", "committed"}
                    /\ \A k \in Registered(t) :
                         /\ "commit" \in Range(try[t].calls[k])
                         /\ "rollback" \notin Range(try[t].calls[k])
  BY DEF ServedMeansDone
<1>1. Success(State(t)) /\ State(t).try = try[t]
  BY AtThread DEF At, Effect, NoConflict, Threads
<1>2. "commit" \in Range(<<"commit", "free">>) /\ "rollback" \notin Range(<<"commit", "free">>)
  BY DEF Range
<1> QED
  BY <1>1, <1>2 DEF Success, Registered

\* Where COMMIT is not refused for a conflict (uw_request answers SERVED then, as it does not look
\* at what uw_commit returns), an answer SERVED means besides that all has been committed.
THEOREM OnceSettled ==
    ASSUME "serialization" \notin CommitAnswers
    PROVE  Spec => []SettledOnce
<1>1. RunInv => SettledOnce
  BY RunSettles, RunFinals, RunServes DEF SettledOnce
<1> QED
  BY <1>1, Invariant, PTL

\* Where COMMIT does not fail for good (uw_commit frees without rolling back then), undoable actions
\* that committed under an SQL transaction that did not are rolled back.
THEOREM AbortedUndone ==
    ASSUME "error" \notin CommitAnswers
    PROVE  Spec => []UndoneUnlessCommitted
<1>1. RunInv => UndoneUnlessCommitted
  BY RunUndoes
<1> QED
  BY <1>1, Invariant, PTL

\* status of AtomicRequests, for one thread.
Status(t) == IF pc[t] = "idle" THEN "idle"
             ELSE IF req[t].applied = 0 THEN "running"
             ELSE IF req[t].applied = 1 THEN "applied" ELSE "twice"

\* What a worker's step may be in the abstract specification.
Keeping(t) == Status(t)' = Status(t) /\ req'[t].answer = req[t].answer
Arriving(t) == /\ Status(t) = "idle" /\ Status(t)' = "running"
               /\ req'[t].answer = "none"
Applying(t) == /\ Status(t) = "running" /\ Status(t)' = "applied"
               /\ req'[t].answer = req[t].answer
Serving(t) == /\ Status(t) = "applied" /\ Status(t)' = "idle"
              /\ req'[t].answer = "SERVED"
Failing(t) == /\ Status(t) = "running" /\ Status(t)' = "idle"
              /\ req'[t].answer = "FAILED"

\* A step of one thread that is one of these is a step of AtomicRequests, or none.
LEMMA AtomicMove ==
    ASSUME RunInv, NEW t \in Threads,
           pc' = [pc EXCEPT ![t] = pc'[t]], req' = [req EXCEPT ![t] = req'[t]],
           t \in Workers => \/ Keeping(t) \/ Arriving(t) \/ Applying(t)
                            \/ Serving(t) \/ Failing(t)
    PROVE  [Atomic!Next]_Atomic!vars
<1> DEFINE status == [u \in Workers |-> Status(u)]
           answer == [u \in Workers |-> req[u].answer]
<1>1. \A u \in Workers : u # t => Status(u)' = Status(u) /\ req'[u].answer = req[u].answer
  BY DEF RunInv, Threads, Status
<1>2. CASE t \notin Workers \/ Keeping(t)
  <2>1. \A u \in Workers : Status(u)' = Status(u) /\ req'[u].answer = req[u].answer
    BY <1>1, <1>2 DEF Keeping
  <2>2. UNCHANGED Atomic!vars
    BY <2>1 DEF Atomic!vars, Status
  <2> QED
    BY <2>2
<1>3. ASSUME t \in Workers, NEW x, NEW y, Status(t)' = x, req'[t].answer = y
      PROVE  status' = [status EXCEPT ![t] = x] /\ answer' = [answer EXCEPT ![t] = y]
  BY <1>1, <1>3
<1>4. CASE t \in Workers /\ Arriving(t)
  <2>1. /\ status[t] = "idle" /\ status' = [status EXCEPT ![t] = "running"]
        /\ answer' = [answer EXCEPT ![t] = "none"]
    BY <1>3, <1>4 DEF Arriving
  <2>2. Atomic!Arrive(t)
    BY <2>1 DEF Atomic!Arrive, Status
  <2> QED
    BY <1>4, <2>2 DEF Atomic!Next
<1>5. CASE t \in Workers /\ Applying(t)
  <2>1. /\ status[t] = "running" /\ status' = [status EXCEPT ![t] = "applied"]
        /\ answer' = [answer EXCEPT ![t] = req[t].answer]
    BY <1>3, <1>5 DEF Applying
  <2>2. answer' = answer
    BY <2>1
  <2>3. Atomic!Apply(t)
    BY <2>1, <2>2 DEF Atomic!Apply, Status
  <2> QED
    BY <1>5, <2>3 DEF Atomic!Next
<1>6. CASE t \in Workers /\ Serving(t)
  <2>1. /\ status[t] = "applied" /\ status' = [status EXCEPT ![t] = "idle"]
        /\ answer' = [answer EXCEPT ![t] = "SERVED"]
    BY <1>3, <1>6 DEF Serving
  <2>2. Atomic!Serve(t)
    BY <2>1 DEF Atomic!Serve, Status
  <2> QED
    BY <1>6, <2>2 DEF Atomic!Next
<1>7. CASE t \in Workers /\ Failing(t)
  <2>1. /\ status[t] = "running" /\ status' = [status EXCEPT ![t] = "idle"]
        /\ answer' = [answer EXCEPT ![t] = "FAILED"]
    BY <1>3, <1>7 DEF Failing
  <2>2. Atomic!Fail(t)
    BY <2>1 DEF Atomic!Fail, Status
  <2> QED
    BY <1>7, <2>2 DEF Atomic!Next
<1> QED
  BY <1>2, <1>4, <1>5, <1>6, <1>7

\* At the start every server is idle.
LEMMA AtomicInit == ASSUME Init PROVE Atomic!Init
  BY DEF Init, Atomic!Init, NewReq, Threads

\* A step that neither begins nor ends a request, nor passes the point of no return.
LEMMA AtomicStays ==
    ASSUME RunInv, NEW t \in Threads, pc[t] # "idle", NEW l, l # "idle",
           Goto(t, l), NEW q, req' = [req EXCEPT ![t] = q],
           q.applied = req[t].applied, q.answer = req[t].answer
    PROVE  [Atomic!Next]_Atomic!vars
<1>1. /\ pc' = [pc EXCEPT ![t] = pc'[t]] /\ req' = [req EXCEPT ![t] = req'[t]]
      /\ pc'[t] = l /\ req'[t] = q
  BY DEF RunInv, Goto
<1>2. Keeping(t)
  BY <1>1 DEF Keeping, Status
<1> QED
  BY <1>1, <1>2, AtomicMove

\* An answer fits what has been applied.
LEMMA AtomicAnswer ==
    ASSUME RunInv, NEW t \in Threads, pc[t] # "idle", NEW a \in {"SERVED", "FAILED"},
           Answer(t, a), req[t].applied = IF a = "SERVED" THEN 1 ELSE 0
    PROVE  [Atomic!Next]_Atomic!vars
<1>1. /\ pc' = [pc EXCEPT ![t] = pc'[t]] /\ req' = [req EXCEPT ![t] = req'[t]]
      /\ pc'[t] = "idle" /\ req'[t] = Answering(req[t], a)
  BY DEF RunInv, Goto, Answer, Answering
<1>2. req'[t].answer = a
  BY <1>1, AtThread, AnsweringReq DEF At
<1>3. Serving(t) \/ Failing(t)
  BY <1>1, <1>2 DEF Serving, Failing, Status
<1> QED
  BY <1>1, <1>3, AtomicMove

\* The loop of a periodic task is nobody's request.
LEMMA AtomicPeriodic ==
    ASSUME RunInv, NEW t \in Periodics, NEW l, Goto(t, l),
           NEW q, req' = [req EXCEPT ![t] = q]
    PROVE  [Atomic!Next]_Atomic!vars
<1>1. t \in Threads /\ t \notin Workers
  BY ThreadsAssumption DEF Threads
<1>2. /\ pc' = [pc EXCEPT ![t] = pc'[t]] /\ req' = [req EXCEPT ![t] = req'[t]]
  BY <1>1 DEF RunInv, Goto
<1> QED
  BY <1>1, <1>2, AtomicMove

\* A request arrives.
LEMMA AtomicArrives ==
    ASSUME RunInv, NEW t \in Threads, RequestArrives(t) \/ PeriodicWakes(t)
    PROVE  [Atomic!Next]_Atomic!vars
<1> DEFINE q == [NewReq EXCEPT !.nr = req[t].nr + 1]
<1>1. pc[t] = "idle" /\ Goto(t, "arrive") /\ req' = [req EXCEPT ![t] = q]
  BY DEF RequestArrives, PeriodicWakes
<1>2. q.applied = 0 /\ q.answer = "none"
  BY DEF NewReq
<1> HIDE DEF q
<1>3. /\ pc' = [pc EXCEPT ![t] = pc'[t]] /\ req' = [req EXCEPT ![t] = req'[t]]
      /\ pc'[t] = "arrive" /\ req'[t] = q
  BY <1>1 DEF RunInv, Goto
<1>4. Arriving(t)
  BY <1>1, <1>2, <1>3 DEF Arriving, Status
<1> QED
  BY <1>3, <1>4, AtomicMove

\* Running a handler is invisible.
LEMMA AtomicHandler ==
    ASSUME RunInv, NEW t \in Threads, uw_transaction_arrives(t) \/ Handler(t)
    PROVE  [Atomic!Next]_Atomic!vars
<1>1. /\ req[t] \in ReqType /\ req = [req EXCEPT ![t] = req[t]]
      /\ pc = [pc EXCEPT ![t] = pc[t]]
  BY AtThread DEF At
<1>2. CASE uw_transaction_arrives(t)
  <2>1. /\ pc[t] = "arrive" /\ Goto(t, "handler")
        /\ req' = [req EXCEPT ![t] = OnceMore(req[t])]
    BY <1>2 DEF uw_transaction_arrives, Begins, OnceMore
  <2>2. OnceMore(req[t]).applied = req[t].applied /\ OnceMore(req[t]).answer = req[t].answer
    BY <1>1 DEF OnceMore, ReqType
  <2> QED
    BY <2>1, <2>2, AtomicStays
<1>3. CASE Handler(t)
  <2>1. pc[t] = "handler"
    BY <1>3 DEF Handler, uw_ensure_transaction, BeginFails, uw_login, HandlerRaises,
           uw_register_transactional, uw_set_error_message, HandlerReturns, Running
  <2>2. \E l \in {"handler", "failed", "commit"} : Goto(t, l)
    BY <1>1, <1>3, <2>1 DEF Handler, uw_ensure_transaction, BeginFails, uw_login,
           HandlerRaises, Raise, uw_register_transactional, uw_set_error_message,
           HandlerReturns, Goto
  <2>3. CASE req' = req
    BY <1>1, <2>1, <2>2, <2>3, AtomicStays
  <2>4. CASE req' = [req EXCEPT ![t].unlimited = @ + 1]
    <3> DEFINE q == [req[t] EXCEPT !.unlimited = @ + 1]
    <3>1. req' = [req EXCEPT ![t] = q]
      BY <2>4
    <3>2. q.applied = req[t].applied /\ q.answer = req[t].answer
      BY <1>1 DEF ReqType
    <3> HIDE DEF q
    <3> QED
      BY <2>1, <2>2, <3>1, <3>2, AtomicStays
  <2> QED
    BY <1>3, <2>3, <2>4 DEF Handler, uw_ensure_transaction, BeginFails, uw_login,
           HandlerRaises, uw_register_transactional, uw_set_error_message,
           HandlerReturns
<1> QED
  BY <1>2, <1>3

\* uw_commit shows when COMMIT succeeds under the page handler, and not otherwise.
LEMMA AtomicCommit ==
    ASSUME RunInv, Sound, NEW t \in Threads, uw_commit(t)
    PROVE  [Atomic!Next]_Atomic!vars
<1>1. /\ req[t] \in ReqType /\ req = [req EXCEPT ![t] = req[t]]
      /\ Effect(pc[t], State(t), loop[t], req[t])
  BY AtThread DEF At
<1>2. CASE db_commit(t) \/ no_db_commit(t)
  <2>1. pc[t] = "sql" /\ Applies(t) /\ Goto(t, "final")
    BY <1>2 DEF db_commit, no_db_commit
  <2>2. CASE loop[t].had_error
    BY <1>1, <2>1, <2>2, AtomicStays DEF Applies
  <2>3. CASE ~loop[t].had_error
    <3> DEFINE q == [req[t] EXCEPT !.applied = @ + 1]
    <3>1. req' = [req EXCEPT ![t] = q]
      BY <2>1, <2>3 DEF Applies
    <3>2. req[t].applied = 0
      BY <1>1, <2>1 DEF Effect
    <3>3. q.applied = 1 /\ q.answer = req[t].answer
      BY <1>1, <3>2 DEF ReqType
    <3> HIDE DEF q
    <3>4. /\ pc' = [pc EXCEPT ![t] = pc'[t]] /\ req' = [req EXCEPT ![t] = req'[t]]
          /\ pc'[t] = "final" /\ req'[t] = q
      BY <2>1, <3>1 DEF RunInv, Goto
    <3>5. Applying(t)
      BY <2>1, <3>2, <3>3, <3>4 DEF Applying, Status
    <3> QED
      BY <3>4, <3>5, AtomicMove
  <2> QED
    BY <2>2, <2>3
<1>3. CASE CommitUndoables(t) \/ db_commit_conflict(t) \/ db_commit_error(t) \/ CommitFinals(t)
  <2>1. /\ pc[t] \in {"commit", "sql", "final"} /\ req' = req
        /\ \E l \in {"done", "sql"} : Goto(t, l)
    BY <1>3 DEF CommitUndoables, db_commit_conflict, db_commit_error, CommitFinals
  <2> QED
    BY <1>1, <2>1, AtomicStays
<1> QED
  BY <1>2, <1>3 DEF uw_commit

\* After uw_commit or a failed handler the answer is SERVED only if the effects are there.
LEMMA AtomicRequest ==
    ASSUME RunInv, Sound, NEW t \in Threads, uw_request(t)
    PROVE  [Atomic!Next]_Atomic!vars
<1>1. /\ req[t] \in ReqType /\ req = [req EXCEPT ![t] = req[t]] /\ loop[t] \in LoopType
      /\ Effect(pc[t], State(t), loop[t], req[t]) /\ Typed(State(t)) /\ State(t).ctx = ctx[t]
  BY AtThread DEF At
<1>2. CASE Answered(t)
  <2>1. /\ pc[t] = "done" /\ (ctx[t].error_message => loop[t].had_error)
        /\ Answer(t, AnswerAfter(loop[t].had_error))
    BY <1>2 DEF Answered
  <2>2. CASE loop[t].had_error
    <3>1. req[t].applied = 0 /\ Answer(t, "FAILED")
      BY <1>1, <2>1, <2>2 DEF Effect, AnswerAfter
    <3> QED
      BY <2>1, <3>1, AtomicAnswer
  <2>3. CASE ~loop[t].had_error
    <3>1. req[t].applied = 1 /\ Answer(t, "SERVED")
      BY <1>1, <2>1, <2>3 DEF Effect, AnswerAfter
    <3> QED
      BY <2>1, <3>1, AtomicAnswer
  <2> QED
    BY <2>2, <2>3
<1>3. CASE CommitFailedForGood(t) \/ HandlerFailedForGood(t)
  <2>1. /\ Answer(t, "FAILED")
        /\ \/ pc[t] = "done" /\ ctx[t].error_message /\ ~loop[t].had_error
           \/ pc[t] = "failed"
    BY <1>3 DEF CommitFailedForGood, HandlerFailedForGood, GivesUp, CommitFailed,
                OutOfRetries, Failed
  <2>2. req[t].applied = 0
    BY <1>1, <2>1 DEF Effect
  <2> QED
    BY <2>1, <2>2, AtomicAnswer
<1>4. CASE CommitFailedOnError(t) \/ BoundedRetry(t) \/ UnlimitedRetry(t)
           \/ HandlerFailedOnError(t)
  <2>1. /\ pc[t] \in {"done", "failed"} /\ req' = req
        /\ \E l \in {"departed", "retry"} : Goto(t, l)
    BY <1>4 DEF CommitFailedOnError, CommitFailed, BoundedRetry, UnlimitedRetry,
                HandlerFailedOnError, OutOfRetries, Failed
  <2> QED
    BY <1>1, <2>1, AtomicStays
<1>5. CASE Restarts(t)
  <2>1. /\ pc[t] \in {"retry", "departed"}
        /\ (Goto(t, "arrive") /\ req' = req) \/ Answer(t, "FAILED")
    BY <1>5 DEF Restarts
  <2>2. req[t].applied = 0
    BY <1>1, <2>1 DEF Effect
  <2>3. CASE Goto(t, "arrive") /\ req' = req
    BY <1>1, <2>1, <2>3, AtomicStays
  <2>4. CASE Answer(t, "FAILED")
    BY <2>1, <2>2, <2>4, AtomicAnswer
  <2> QED
    BY <2>1, <2>3, <2>4
<1> QED
  BY <1>2, <1>3, <1>4, <1>5 DEF uw_request

LEMMA AtomicLoop ==
    ASSUME RunInv, NEW t \in Threads, periodic_loop(t)
    PROVE  [Atomic!Next]_Atomic!vars
<1>1. req = [req EXCEPT ![t] = req[t]]
  BY AtThread
<1>2. CASE PeriodicEnds(t)
  BY <1>1, <1>2, AtomicPeriodic DEF PeriodicEnds
<1>3. CASE PeriodicFails(t)
  <2>1. /\ t \in Periodics
        /\ \E l \in {"handler", "idle", "dead"} : Goto(t, l)
        /\ Begins(t) \/ req' = req
    BY <1>3 DEF PeriodicFails
  <2>2. CASE req' = req
    BY <1>1, <2>1, <2>2, AtomicPeriodic
  <2>3. CASE Begins(t)
    BY <2>1, <2>3, AtomicPeriodic DEF Begins
  <2> QED
    BY <2>1, <2>2, <2>3
<1> QED
  BY <1>2, <1>3 DEF periodic_loop

\* Every step implements a step of AtomicRequests, or leaves its state alone.
LEMMA AtomicStep ==
    ASSUME RunInv, Sound, [Next]_vars
    PROVE  [Atomic!Next]_Atomic!vars
<1>1. ASSUME NEW t \in Threads, RequestArrives(t) \/ PeriodicWakes(t) \/ Step(t)
      PROVE  [Atomic!Next]_Atomic!vars
  BY <1>1, AtomicArrives, AtomicHandler, AtomicCommit, AtomicRequest, AtomicLoop DEF Step
<1>2. CASE uw_expunger_arrives \/ uw_expunger_departs \/ UNCHANGED vars
  <2>1. UNCHANGED <<pc, req>>
    BY <1>2 DEF uw_expunger_arrives, uw_expunger_departs, vars
  <2> QED
    BY <2>1 DEF Atomic!vars
<1> QED
  BY <1>1, <1>2 DEF Next

\* Requests are atomic: the loop of uw_request implements AtomicRequests, whatever fails and however
\* often it retries, where COMMIT is not refused for a conflict (answered SERVED) and final
\* actions do not signal an error (after COMMIT, and answered FAILED).
THEOREM RequestsAtomic ==
    ASSUME "serialization" \notin CommitAnswers, "final" \notin Signals
    PROVE  Spec => AtomicSpec
<1>1. Init => Atomic!Init
  BY AtomicInit
<1>2. RunInv /\ [Next]_vars => [Atomic!Next]_Atomic!vars
  BY AtomicStep DEF Sound, NoConflict
<1> QED
  BY <1>1, <1>2, Invariant, PTL DEF Spec, AtomicSpec, Atomic!Spec
=============================================================================
