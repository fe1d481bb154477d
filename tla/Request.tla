------------------------------ MODULE Request ------------------------------
(***************************************************************************)
(* The life of a transaction (src/c/request.c, src/c/urweb.c): uw_request  *)
(* and periodic_loop run a handler, uw_commit or uw_rollback settle what   *)
(* it did - the SQL transaction and the registered transactional actions - *)
(* and the loop answers, tries again or turns to the application's onError *)
(* handler.  Threads meet at expunge_lock, which every transaction holds   *)
(* for reading and the pruner for writing; the rest is a thread's own.     *)
(*                                                                         *)
(* A transactional with a rollback handler is of kind "undo", one without  *)
(* of kind "final" (the code runs it after the SQL COMMIT).  All of them   *)
(* have commit and free handlers here; a NULL one would be skipped.  What  *)
(* free handlers are told (will_retry) is left out.                        *)
(***************************************************************************)
EXTENDS Integers, Sequences, FiniteSets, Functions

CONSTANTS
  Workers,        \* server threads
  Periodics,      \* one thread per periodic task of the application
  MaxRetries,     \* MAX_RETRIES: bounded retries of a request
  OnError,        \* does the application have an onError handler?
  CommitAnswers,  \* how the database may answer COMMIT
  RollbackFails,  \* may ROLLBACK fail?
  HandlerFails,   \* failure_kinds a handler may end with
  Signals,        \* who may set the error message: "body", "undo", "final"
  RequestsMax,    \* bound: requests served, and periods run, by a thread
  AttemptsMax,    \* bound: times one request's handlers are run
  TransMax        \* bound: transactionals registered by one handler

Threads == Workers \cup Periodics
Kinds == {"undo", "final"}

ASSUME ThreadsAssumption == IsFiniteSet(Threads) /\ Workers \cap Periodics = {}
ASSUME BoundsAssumption == /\ MaxRetries \in Nat \ {0} /\ RequestsMax \in Nat
                           /\ AttemptsMax \in Nat /\ TransMax \in Nat
ASSUME EnvironmentAssumption ==
  /\ OnError \in BOOLEAN /\ RollbackFails \in BOOLEAN
  /\ CommitAnswers \subseteq {"ok", "serialization", "error"}
  /\ HandlerFails \subseteq {"FATAL", "BOUNDED_RETRY", "UNLIMITED_RETRY"}
  /\ Signals \subseteq Kinds \cup {"body"}

VARIABLES
  pc,            \* pc[t]: where thread t is
  ctx,           \* ctx[t]: the fields of its uw_context that matter here
  loop,          \* loop[t]: uw_request's retries_left, had_error and fk
  conn,          \* conn[t]: has its connection an open SQL transaction?
  readers,       \* transactions that hold expunge_lock
  pruning,       \* does the pruner hold it?
  try,           \* try[t]: what the current run of a handler did (history)
  req            \* req[t]: what became of the current request (history)

vars == <<pc, ctx, loop, conn, readers, pruning, try, req>>

\* What uw_reset leaves behind.
ResetContext == [transactionals |-> <<>>, client |-> FALSE,
                 transaction_started |-> FALSE, error_message |-> FALSE]
NewLoop == [retries_left |-> MaxRetries, had_error |-> FALSE, fk |-> "SUCCESS"]

\* calls[k]: the handlers of the k-th registered transactional that were called,
\* in order; sql: what became of the SQL transaction; clients: references to a
\* client still held.
NewTry == [calls |-> <<>>, registered |-> <<>>, sql |-> "none", clients |-> 0]

\* nr: requests of the thread so far; applied: page handlers of the current one
\* that got past COMMIT; tries and unlimited: handlers run for it, and how many
\* of them ended in UNLIMITED_RETRY.
NewReq == [nr |-> 0, answer |-> "none", applied |-> 0, tries |-> 0, unlimited |-> 0]

Init ==
  /\ pc = [t \in Threads |-> "idle"] /\ ctx = [t \in Threads |-> ResetContext]
  /\ loop = [t \in Threads |-> NewLoop] /\ conn = [t \in Threads |-> "idle"]
  /\ readers = 0 /\ pruning = FALSE
  /\ try = [t \in Threads |-> NewTry] /\ req = [t \in Threads |-> NewReq]
-----------------------------------------------------------------------------
(* What the code does to one context.  An operator takes and gives a record *)
(* of the three parts it changes: [ctx, try, conn].                         *)

State(t) == [ctx |-> ctx[t], try |-> try[t], conn |-> conn[t]]
Becomes(t, s) == /\ ctx' = [ctx EXCEPT ![t] = s.ctx]
                 /\ try' = [try EXCEPT ![t] = s.try]
                 /\ conn' = [conn EXCEPT ![t] = s.conn]

\* for (i = used_transactionals-1; i >= lo; --i): the handlers `what` of the
\* transactionals of the given kinds.  The history is one of each transactional:
\* which of two transactionals goes first is not recorded.
Called(s, what, kinds, lo) ==
  LET registered == s.ctx.transactionals
      those == {k \in 1 .. Len(registered) : k >= lo /\ registered[k] \in kinds}
  IN [s EXCEPT !.try.calls = [k \in DOMAIN @ |-> IF k \in those THEN Append(@[k], what)
                                                  ELSE @[k]]]

\* release_client(ctx->client); the pointer is not cleared.
Released(s) == IF s.ctx.client THEN [s EXCEPT !.try.clients = @ - 1] ELSE s

\* Mutant: rollback handlers are not called.
UndoneNothing(s) == s
Freed(s) == Called(s, "free", Kinds, 1)
Undone(s) == Called(s, "rollback", {"undo"}, 1)
UndoneAndFreed(s) == Freed(Undone(s))

\* uw_rollback's own part: everything but the SQL ROLLBACK.
RolledBack(s) ==
  LET u == UndoneAndFreed(Released(s))
  IN [u EXCEPT !.ctx.transaction_started = FALSE,
               !.try.sql = IF s.ctx.transaction_started THEN "aborted" ELSE @]

\* The SQL ROLLBACK: it is sent if a transaction was started, and may fail.
RollbackAnswers(s) ==
  IF s.ctx.transaction_started /\ RollbackFails THEN {TRUE, FALSE} ELSE {TRUE}

\* Mutant: transaction_started is cleared before it is looked at.
AfterNoRollback(s, ok) == RolledBack(s)
AfterRollback(s, ok) ==
  LET r == RolledBack(s)
  IN IF ok /\ s.ctx.transaction_started THEN [r EXCEPT !.conn = "idle"] ELSE r

\* Mutant: the transactionals are not forgotten.
ResetKeepsTransactionals(s) == [s EXCEPT !.ctx.client = FALSE]
uw_reset_keep_error_message(s) ==
  [s EXCEPT !.ctx.transactionals = <<>>, !.ctx.client = FALSE]
uw_reset_keep_request(s) ==
  [uw_reset_keep_error_message(s) EXCEPT !.ctx.error_message = FALSE]
uw_reset(s) == [uw_reset_keep_request(s) EXCEPT !.ctx.transaction_started = FALSE]

\* Giving expunge_lock back (mutant: or not).  A thread that does not hold it takes away the hold
\* of another one; when there is none, what happens is undefined: nothing, or a
\* count that lets no writer in any more.
DepartsForgotten == UNCHANGED readers
uw_transaction_departs == readers' \in IF readers > 0 THEN {readers - 1} ELSE {0, -1}

Goto(t, where) == pc' = [pc EXCEPT ![t] = where]
-----------------------------------------------------------------------------
(* Starting *)

\* uw_request, up to its loop.
RequestArrives(t) ==
  /\ t \in Workers /\ pc[t] = "idle" /\ req[t].nr < RequestsMax
  /\ Goto(t, "arrive")
  /\ ctx' = [ctx EXCEPT ![t] = uw_reset(State(t)).ctx]
  /\ loop' = [loop EXCEPT ![t] = NewLoop]
  /\ req' = [req EXCEPT ![t] = [NewReq EXCEPT !.nr = req[t].nr + 1]]
  /\ UNCHANGED <<conn, readers, pruning, try>>

\* periodic_loop wakes up; the connection is a new one unless the period is short.
PeriodicWakes(t) ==
  /\ t \in Periodics /\ pc[t] = "idle" /\ req[t].nr < RequestsMax
  /\ Goto(t, "arrive")
  /\ ctx' = [ctx EXCEPT ![t] = uw_reset(State(t)).ctx]
  /\ loop' = [loop EXCEPT ![t] = NewLoop]
  /\ req' = [req EXCEPT ![t] = [NewReq EXCEPT !.nr = req[t].nr + 1]]
  /\ conn' \in {conn, [conn EXCEPT ![t] = "idle"]}
  /\ UNCHANGED <<readers, pruning, try>>

\* A handler is about to run: the page's, onError's or the periodic task's.
\* tries stops counting just above the most there may be.
TriesCap == MaxRetries + AttemptsMax + 3
Begins(t) ==
  /\ try' = [try EXCEPT ![t] = NewTry]
  /\ req' = [req EXCEPT ![t].tries = IF @ < TriesCap THEN @ + 1 ELSE @]

uw_transaction_arrives(t) ==
  /\ pc[t] = "arrive" /\ ~pruning /\ readers >= 0
  /\ readers' = readers + 1
  /\ Goto(t, "handler") /\ Begins(t)
  /\ UNCHANGED <<ctx, loop, conn, pruning>>

-----------------------------------------------------------------------------
(* What a handler does *)

Running(t) == pc[t] = "handler"

\* uw_runCallback and uw_begin_onError start the SQL transaction first.
Ready(t) == (t \in Workers /\ ~loop[t].had_error) \/ ctx[t].transaction_started

\* BEGIN; a connection that still has a transaction open refuses it and is
\* replaced by a new one, on which it succeeds.
uw_ensure_transaction(t) ==
  /\ Running(t) /\ ~ctx[t].transaction_started
  /\ ctx' = [ctx EXCEPT ![t].transaction_started = TRUE]
  /\ conn' = [conn EXCEPT ![t] = "open"]
  /\ try' = [try EXCEPT ![t].sql = "open"]
  /\ UNCHANGED <<pc, loop, readers, pruning, req>>

\* uw_error: longjmp to the loop.
Raise(t, fk) == /\ Goto(t, "failed")
                /\ ctx' = [ctx EXCEPT ![t].error_message = TRUE]
                /\ loop' = [loop EXCEPT ![t].fk = fk]
                /\ UNCHANGED <<readers, pruning, try>>

\* BEGIN fails on the new connection too.
BeginFails(t) ==
  /\ Running(t) /\ ~ctx[t].transaction_started /\ "FATAL" \in HandlerFails
  /\ Raise(t, "FATAL") /\ conn' = [conn EXCEPT ![t] = "idle"]
  /\ UNCHANGED req

HandlerRaises(t, fk) ==
  /\ Running(t) /\ Ready(t) /\ fk \in HandlerFails
  /\ fk = "UNLIMITED_RETRY" => req[t].unlimited < AttemptsMax
  /\ Raise(t, fk)
  /\ req' = IF fk = "UNLIMITED_RETRY" THEN [req EXCEPT ![t].unlimited = @ + 1] ELSE req
  /\ UNCHANGED conn

\* uw_login, for a page or an RPC that needs a client.
uw_login(t) ==
  /\ Running(t) /\ t \in Workers /\ ~loop[t].had_error /\ ~ctx[t].client
  /\ ctx' = [ctx EXCEPT ![t].client = TRUE]
  /\ try' = [try EXCEPT ![t].clients = 1]
  /\ UNCHANGED <<pc, loop, conn, readers, pruning, req>>

uw_register_transactional(t, kind) ==
  /\ Running(t) /\ Ready(t) /\ Len(ctx[t].transactionals) < TransMax
  /\ ctx' = [ctx EXCEPT ![t].transactionals = Append(@, kind)]
  /\ try' = [try EXCEPT ![t].registered = Append(@, kind), ![t].calls = Append(@, <<>>)]
  /\ UNCHANGED <<pc, loop, conn, readers, pruning, req>>

\* FFI code sets the message and returns normally.
uw_set_error_message(t) ==
  /\ Running(t) /\ Ready(t) /\ "body" \in Signals /\ ~ctx[t].error_message
  /\ ctx' = [ctx EXCEPT ![t].error_message = TRUE]
  /\ UNCHANGED <<pc, loop, conn, readers, pruning, try, req>>

HandlerReturns(t) ==
  /\ Running(t) /\ Ready(t) /\ Goto(t, "commit")
  /\ UNCHANGED <<ctx, loop, conn, readers, pruning, try, req>>

-----------------------------------------------------------------------------
(* uw_commit *)

\* The transactionals of one kind commit, last one first; the one at `stop`
\* signals an error (nobody does if it is 0).
Stops(t, kind) ==
  {0} \cup {k \in 1 .. Len(ctx[t].transactionals) :
              kind \in Signals /\ ctx[t].transactionals[k] = kind}

Committed(s, kind, stop) ==
  [Called(s, "commit", {kind}, stop) EXCEPT !.ctx.error_message = @ \/ stop # 0]

\* An error message, old or signalled just now, means rollback.
CommitUndoables(t) ==
  /\ pc[t] = "commit"
  /\ \E stop \in IF ctx[t].error_message THEN {0} ELSE Stops(t, "undo") :
       LET s == IF ctx[t].error_message THEN State(t)
                ELSE Committed(State(t), "undo", stop)
       IN IF s.ctx.error_message
          THEN /\ \E ok \in RollbackAnswers(s) : Becomes(t, AfterRollback(s, ok))
               /\ Goto(t, "done")
          ELSE Becomes(t, s) /\ Goto(t, "sql")
  /\ UNCHANGED <<loop, readers, pruning, req>>

\* The point of no return of a request whose page handler has run.
Applies(t) == req' = IF loop[t].had_error THEN req ELSE [req EXCEPT ![t].applied = @ + 1]

db_commit(t) ==
  /\ pc[t] = "sql" /\ ctx[t].transaction_started /\ "ok" \in CommitAnswers
  /\ Becomes(t, [State(t) EXCEPT !.ctx.transaction_started = FALSE, !.conn = "idle",
                                 !.try.sql = "committed"])
  /\ Applies(t) /\ Goto(t, "final")
  /\ UNCHANGED <<loop, readers, pruning>>

no_db_commit(t) ==
  /\ pc[t] = "sql" /\ ~ctx[t].transaction_started
  /\ Applies(t) /\ Goto(t, "final")
  /\ UNCHANGED <<ctx, try, conn, loop, readers, pruning>>

\* code == -1: a serialization failure or a deadlock.  uw_commit returns 1.
db_commit_conflict(t) ==
  /\ pc[t] = "sql" /\ ctx[t].transaction_started /\ "serialization" \in CommitAnswers
  /\ Becomes(t, [UndoneAndFreed(Released(State(t)))
                   EXCEPT !.conn = "idle", !.try.sql = "aborted"])
  /\ Goto(t, "done")
  /\ UNCHANGED <<loop, readers, pruning, req>>

\* Any other code; whether the transaction is still open depends on the database.
db_commit_error(t) ==
  /\ pc[t] = "sql" /\ ctx[t].transaction_started /\ "error" \in CommitAnswers
  /\ \E c \in {"idle", "open"} :
       Becomes(t, [Freed(Released(State(t)))
                    EXCEPT !.conn = c, !.try.sql = "aborted", !.ctx.error_message = TRUE])
  /\ Goto(t, "done")
  /\ UNCHANGED <<loop, readers, pruning, req>>

\* The others commit, messages go out (Clients.tla), and all are freed.
CommitFinals(t) ==
  /\ pc[t] = "final"
  /\ \E stop \in Stops(t, "final") :
       LET s == Released(Committed(State(t), "final", stop)) IN
       Becomes(t, IF stop = 0 THEN Freed(s) ELSE UndoneAndFreed(s))
  /\ Goto(t, "done")
  /\ UNCHANGED <<loop, readers, pruning, req>>

-----------------------------------------------------------------------------
(* After uw_commit *)

Answer(t, a) == /\ Goto(t, "idle") /\ req' = [req EXCEPT ![t].answer = a]

\* Mutant: onError's page counts as an answer to the request.
ServedAnyway(had_error) == "SERVED"
AnswerAfter(had_error) == IF had_error THEN "FAILED" ELSE "SERVED"

\* What uw_commit returns is not looked at: only the error message is.
Answered(t) ==
  /\ t \in Workers /\ pc[t] = "done"
  /\ ctx[t].error_message => loop[t].had_error
  /\ uw_transaction_departs
  /\ Answer(t, AnswerAfter(loop[t].had_error))
  /\ UNCHANGED <<ctx, try, conn, loop, pruning>>

\* try_rollback(ctx, 0), uw_transaction_departs, return FAILED.
GivesUp(t, s) ==
  /\ \E ok \in RollbackAnswers(s) :
       Becomes(t, uw_reset_keep_error_message(AfterRollback(s, ok)))
  /\ uw_transaction_departs /\ Answer(t, "FAILED")
  /\ UNCHANGED <<loop, pruning>>

CommitFailed(t) == /\ t \in Workers /\ pc[t] = "done"
                   /\ ctx[t].error_message /\ ~loop[t].had_error

CommitFailedForGood(t) ==
  /\ CommitFailed(t) /\ ~OnError
  /\ GivesUp(t, uw_reset_keep_error_message(State(t)))

\* expunge_lock is given back here, and again after try_rollback.
CommitFailedOnError(t) ==
  /\ CommitFailed(t) /\ OnError
  /\ Becomes(t, uw_reset_keep_error_message(State(t)))
  /\ loop' = [loop EXCEPT ![t].had_error = TRUE]
  /\ uw_transaction_departs /\ Goto(t, "departed")
  /\ UNCHANGED <<pruning, req>>

-----------------------------------------------------------------------------
(* After a handler that failed *)

Failed(t, fk) == t \in Workers /\ pc[t] = "failed" /\ loop[t].fk = fk
\* Mutants: retries are not counted; one more than counted is allowed.
RetriesUncounted(l) == l
MayRetryAtZero(l) == l.retries_left >= 0
MayRetry(l) == l.retries_left > 0
RetryCounted(l) == [l EXCEPT !.retries_left = @ - 1]

BoundedRetry(t) ==
  /\ Failed(t, "BOUNDED_RETRY") /\ MayRetry(loop[t])
  /\ loop' = [loop EXCEPT ![t] = RetryCounted(@)]
  /\ Goto(t, "retry")
  /\ UNCHANGED <<ctx, try, conn, readers, pruning, req>>

UnlimitedRetry(t) ==
  /\ Failed(t, "UNLIMITED_RETRY") /\ Goto(t, "retry")
  /\ UNCHANGED <<ctx, try, conn, loop, readers, pruning, req>>

OutOfRetries(t) == \/ Failed(t, "FATAL")
                   \/ Failed(t, "BOUNDED_RETRY") /\ ~MayRetry(loop[t])

TurnsToOnError(t) == OnError /\ ~loop[t].had_error

HandlerFailedOnError(t) ==
  /\ OutOfRetries(t) /\ TurnsToOnError(t)
  /\ loop' = [loop EXCEPT ![t].had_error = TRUE]
  /\ Goto(t, "retry")
  /\ UNCHANGED <<ctx, try, conn, readers, pruning, req>>

HandlerFailedForGood(t) ==
  /\ OutOfRetries(t) /\ ~TurnsToOnError(t) /\ GivesUp(t, State(t))

\* try_rollback(ctx, 1) at the end of the loop's body.
Restarts(t) ==
  /\ pc[t] \in {"retry", "departed"}
  /\ \E ok \in RollbackAnswers(State(t)) :
       LET s == AfterRollback(State(t), ok) IN
       IF ok THEN /\ Becomes(t, uw_reset_keep_request(s))
                  /\ Goto(t, "arrive") /\ UNCHANGED req
             ELSE Becomes(t, uw_reset(s)) /\ Answer(t, "FAILED")
  /\ uw_transaction_departs
  /\ UNCHANGED <<loop, pruning>>

-----------------------------------------------------------------------------
(* periodic_loop *)

\* Whatever uw_commit said: r is set, but the loop it would repeat is over.
PeriodicEnds(t) ==
  /\ t \in Periodics /\ pc[t] = "done"
  /\ uw_transaction_departs /\ Goto(t, "idle")
  /\ UNCHANGED <<ctx, try, conn, loop, pruning, req>>

\* try_rollback, then the handler once more or sleep; a ROLLBACK that fails
\* ends the thread.
PeriodicFails(t) ==
  LET fk == loop[t].fk
      left == IF fk = "BOUNDED_RETRY" THEN RetryCounted(loop[t]) ELSE loop[t]
      again == fk = "UNLIMITED_RETRY" \/ (fk = "BOUNDED_RETRY" /\ left.retries_left > 0)
  IN
  /\ t \in Periodics /\ pc[t] = "failed"
  /\ \E ok \in RollbackAnswers(State(t)) :
       LET s == uw_reset(AfterRollback(State(t), ok)) IN
       IF ok /\ again
       THEN /\ ctx' = [ctx EXCEPT ![t] = s.ctx] /\ conn' = [conn EXCEPT ![t] = s.conn]
            /\ Goto(t, "handler") /\ Begins(t) /\ UNCHANGED readers
       ELSE /\ Becomes(t, s) /\ Goto(t, IF ok THEN "idle" ELSE "dead")
            /\ uw_transaction_departs /\ UNCHANGED req
  /\ loop' = [loop EXCEPT ![t] = left]
  /\ UNCHANGED pruning

-----------------------------------------------------------------------------
(* client_pruner *)

\* Mutant: the expunger takes the lock for reading.
NoWriter == ~pruning
NoTransaction == ~pruning /\ readers = 0

uw_expunger_arrives == /\ NoTransaction
                       /\ pruning' = TRUE
                       /\ UNCHANGED <<pc, ctx, loop, conn, readers, try, req>>

uw_expunger_departs == /\ pruning /\ pruning' = FALSE
                       /\ UNCHANGED <<pc, ctx, loop, conn, readers, try, req>>

-----------------------------------------------------------------------------
Handler(t) == \/ uw_ensure_transaction(t) \/ BeginFails(t) \/ uw_login(t)
              \/ \E fk \in HandlerFails : HandlerRaises(t, fk)
              \/ \E kind \in Kinds : uw_register_transactional(t, kind)
              \/ uw_set_error_message(t) \/ HandlerReturns(t)
uw_commit(t) == \/ CommitUndoables(t) \/ db_commit(t) \/ no_db_commit(t)
                \/ db_commit_conflict(t) \/ db_commit_error(t) \/ CommitFinals(t)
uw_request(t) == \/ Answered(t) \/ CommitFailedForGood(t) \/ CommitFailedOnError(t)
                 \/ BoundedRetry(t) \/ UnlimitedRetry(t) \/ HandlerFailedOnError(t)
                 \/ HandlerFailedForGood(t) \/ Restarts(t)
periodic_loop(t) == PeriodicEnds(t) \/ PeriodicFails(t)

Step(t) == \/ uw_transaction_arrives(t) \/ Handler(t) \/ uw_commit(t)
           \/ uw_request(t) \/ periodic_loop(t)

Next == \/ \E t \in Threads : RequestArrives(t) \/ PeriodicWakes(t) \/ Step(t)
        \/ uw_expunger_arrives \/ uw_expunger_departs

Spec == Init /\ [][Next]_vars

\* Threads run; a thread that waits for expunge_lock gets it if it is free for
\* readers again and again (the pruner sleeps between two sweeps).  A handler
\* asks for at most AttemptsMax unlimited retries: nothing else bounds them.
Fairness == /\ \A t \in Threads : SF_vars(Step(t))
            /\ WF_vars(uw_expunger_departs)
FairSpec == Spec /\ Fairness
-----------------------------------------------------------------------------
(* Properties *)

Pcs == {"idle", "arrive", "handler", "failed", "commit", "sql", "final", "done",
        "departed", "retry", "dead"}

\* Every variable has its type, and MAX_RETRIES bounds how often bounded retries
\* run a handler, onError included.
TypeOK ==
  /\ \A t \in Threads : req[t].tries <= MaxRetries + 2 + req[t].unlimited
  /\ pc \in [Threads -> Pcs]
  /\ ctx \in [Threads -> [transactionals : Seq(Kinds), client : BOOLEAN,
                          transaction_started : BOOLEAN, error_message : BOOLEAN]]
  /\ loop \in [Threads -> [retries_left : 0 .. MaxRetries, had_error : BOOLEAN,
                           fk : {"SUCCESS", "FATAL", "BOUNDED_RETRY", "UNLIMITED_RETRY"}]]
  /\ conn \in [Threads -> {"idle", "open"}]
  /\ readers \in Int /\ pruning \in BOOLEAN
  /\ try \in [Threads -> [calls : Seq(Seq({"commit", "rollback", "free"})),
                          registered : Seq(Kinds), clients : Int,
                          sql : {"none", "open", "committed", "aborted"}]]
  /\ req \in [Threads -> [nr : 0 .. RequestsMax, answer : {"none", "SERVED", "FAILED"},
                          applied : Nat, tries : Nat, unlimited : Nat]]

\* Threads between uw_transaction_arrives and uw_transaction_departs, and those
\* between two runs of a handler, or past the last.
Inside == {t \in Threads : pc[t] \in
             {"handler", "failed", "commit", "sql", "final", "done", "retry"}}
Over(t) == pc[t] \in {"idle", "arrive", "dead"}

Registered(t) == DOMAIN try[t].calls

\* Whatever way a handler's run ends, each transactional it registered is freed
\* once, and nothing is called on it afterwards (uw_commit and uw_rollback free
\* on seven paths, and uw_request may roll back what uw_commit has settled).
TransactionalsSettled ==
  \A t \in Threads : Over(t) => \A k \in Registered(t) :
    LET calls == try[t].calls[k] IN
    calls # <<>> /\ \A i \in DOMAIN calls : calls[i] = "free" <=> i = Len(calls)

\* doc/manual.tex: "A truly non-undoable action should only be run after we are
\* sure the database transaction will commit."
FinalAfterCommit ==
  \A t \in Threads : \A k \in Registered(t) :
    try[t].registered[k] = "final" /\ "commit" \in Range(try[t].calls[k])
      => try[t].sql \in {"committed", "none"}

\* An undoable action that was committed is rolled back when the SQL transaction
\* it belongs to turns out not to commit.
UndoneUnlessCommitted ==
  \A t \in Threads : Over(t) /\ try[t].sql = "aborted" => \A k \in Registered(t) :
    LET calls == try[t].calls[k] IN
    \A i \in DOMAIN calls :
      calls[i] = "commit" => \E j \in DOMAIN calls : i < j /\ calls[j] = "rollback"

\* The reference to the client that uw_login took is given back exactly once.
ClientReleased == \A t \in Threads : Over(t) => try[t].clients = 0

\* An answer SERVED means that the last run of the page handler took effect.
ServedMeansDone ==
  \A t \in Workers : pc[t] = "idle" /\ req[t].answer = "SERVED" =>
    /\ try[t].sql \in {"none", "committed"}
    /\ \A k \in Registered(t) : /\ "commit" \in Range(try[t].calls[k])
                                 /\ "rollback" \notin Range(try[t].calls[k])

\* However a run of a handler ends, what it registered and took is settled: on
\* seven paths through uw_commit and uw_rollback, one after the other on some.
SettledOnce == /\ TransactionalsSettled /\ FinalAfterCommit
               /\ ClientReleased /\ ServedMeansDone

\* expunge_lock counts exactly the threads that have a transaction under way.
ReadersExact == readers = Cardinality(Inside)

\* "we enforce that the expunger never runs simultaneously with other
\* transactions" (src/c/urweb.c, above expunge_lock).
ExpungerAlone == pruning => Inside = {}

\* expunge_lock, taken and given back by hand on eleven paths, keeps its count
\* and keeps the expunger apart from transactions.
LockDiscipline == ReadersExact /\ ExpungerAlone

\* No thread keeps an SQL transaction open while it has nothing to do.
NoIdleTransaction == \A t \in Threads : pc[t] = "idle" => conn[t] = "idle"

\* Requests are atomic: served ones took effect once, failed ones never.
Atomic == INSTANCE AtomicRequests WITH
  Servers <- Workers,
  status <- [t \in Workers |-> IF pc[t] = "idle" THEN "idle"
                               ELSE IF req[t].applied = 0 THEN "running"
                               ELSE IF req[t].applied = 1 THEN "applied" ELSE "twice"],
  answer <- [t \in Workers |-> req[t].answer]
AtomicSpec == Atomic!Spec

\* Every request is answered, unless its handler asks for retries for ever.
RequestAnswered == \A t \in Workers : pc[t] = "arrive" ~> pc[t] = "idle"
=============================================================================
