# TLA+ models of the Ur/Web run-time system and of parts of its compiler

Ur/Web is a compiler for a functional language of database-backed web
applications. It exists twice in this repository: in Standard ML and as a port to
Rust, which prints the same C code. The program that runs in production is that
generated C, linked with the run-time system in `src/src/c`. All concurrency, all
failure handling and all state that outlives a request are in that run-time
system, which was therefore modelled first. In the Rust compiler the hard parts
are algorithms whose results depend on an order of steps: the solver of the type
checker, the passes over recursive groups, the reduction that moves effects, and
the language server, which is concurrent. (`src/` below is the root of the
repository; files are named by their last part and line, as `urweb.c:4043` for
`src/src/c/urweb.c`.)

Contents: inventory; modules and how they correspond to the code; runs; fairness;
where code and documents part; proofs; what is not modelled; plan.

## 1. Inventory

### The run-time system in C

| Component | State | Operations | Hard behaviour | What makes it correct |
|---|---|---|---|---|
| **Connection queue and worker threads** (`queue.c`, `http.c`) | a list of sockets under `queue_mutex` and `queue_cond`; per worker a socket and a buffer that survives from one connection to the next | `uw_enqueue`, `uw_dequeue`, the accept loop, the reading and serving loop of `worker` | wakeups; connections that move between threads with keep-alive; requests sent ahead; partial reads, silent clients, the limit of the buffer; ten ways to leave the reading loop | one thread per socket, no connection lost, answers in order and to the right client, nobody starves behind silent clients |
| **Request and transaction life cycle** (`request.c`, `urweb.c`) | per thread a `uw_context` (`transaction_started`, error message, transactionals, client), `retries_left`, `had_error`; shared: `expunge_lock` | `uw_request`, `periodic_loop`, `uw_begin`, `uw_commit`, `uw_rollback`, `try_rollback`, the three resets, `uw_register_transactional`, `uw_set_error_message` | COMMIT, ROLLBACK and each transactional may fail; bounded and unlimited retries; an error handler that may fail itself; a lock given back by hand on eleven paths | requests are atomic, transactionals are settled once, SERVED means done, the expunger runs alone, retries end |
| **Clients and messaging** (`urweb.c`) | the table `clients`, the lists `clients_free` and `clients_used`, a message buffer and a waiting socket per slot, reference counts; five kinds of locks | `uw_login`, `new_client`, `find_client`, `use_client`, `release_client`, `new_channel`, `uw_Basis_send`, `client_send`, `uw_client_connect`, `uw_prune_clients`, `free_client` | slots and channel numbers that are reused; long polls racing sends, polls and expunging; expunge transactions that fail; lock order | each page view gets exactly what was committed for it, in commit order; nobody gets another's messages; abandoned clients are reclaimed; no request hangs |
| **SQL result cache** (`urweb.c:5581`, `sqlcache.sml`) | a hash table per query with one lock for its tree and one for its recency list; per transaction the queued stores and flushes | check, store, flush, LRU eviction, commit of the queued updates, locks of a page | a value used after unlocking, a store queued before somebody else's flush, a flush with parameters left open, locks of several caches held to the end | a hit equals what the query would return; values are freed once and not in use; pages do not deadlock |
| **Form inputs, file cache** (`urweb.c`) | a cursor over nested inputs; files named by hash | `uw_enter_subform` and relatives; check and store | sequential; two processes writing one file | the value found is the one the form sent; whole files |
| **FastCGI, CGI, static front ends; crypto.c, memmem.c** | as http.c; none | | partial reads | as http.c |

How they interact: the main thread puts accepted sockets on the connection queue;
a worker takes one off, reads a request and calls `uw_request`, which runs the
generated handler between `uw_begin` and `uw_commit`; the handler logs in as a
client, makes channels and queues messages; `uw_commit` runs transactionals,
commits the SQL transaction and delivers the messages to client slots, whose
waiting sockets were handed over by workers that served `.msgs` polls. One more
thread per periodic task runs transactions of its own, and the pruner thread
expunges clients. With the SQL cache, a handler takes the locks of the caches it
fills or flushes before anything else, and registers a transactional that applies
its stores at the COMMIT and gives the locks back. All transactions hold `expunge_lock` for reading, the pruner
holds it for writing.

### The compiler in Rust

| Component | State | Operations | Hard behaviour | What makes it correct |
|---|---|---|---|---|
| **Elaboration** (`elaborated/elaborate.rs`, `disjointness_analysis.rs`) | unification cells, deferred constraints, `may_delay`, a disjointness environment per scope | `unify_rows`, `prove`, `elab` of declarations and guarded expressions, `solve_constraints_internal` and its three callers | constraints deferred until something is known, taken out of the context and put back while more are made, solved in at most 8 passes; names that differ only in case | every demand of the program holds at the end, stands or is reported; cells are solved once; what is reported is unsolvable |
| **Core passes** (`core/untangling.rs`, `dead_code_elimination.rs`, `effect_analysis.rs`) | explicit stacks of Tarjan's search; marks and a worklist; sets of writers, readers and pushers | `untangle`, `shake`, `effectize` | recursion turned into loops; a group judged while its members are not known yet; three tables that must agree on what is kept | groups fall into components; kept is what the roots need; no write is missed |
| **Monomorphic reduction** (`monomorphized/mono_reduce.rs`, `environment.rs`) | the expressions, whose variables are numbers of binders | beta and let reduction, copying of functions, cases of known values, case pushed into functions, repeated passes in two modes | effects moved past each other on the strength of a list; variables renumbered by every rule | the page, the writes and the reads of a request stay what they were |
| Other passes, monoize, code generation, drivers, settings, diagnostics, parser | trees | | translations node by node, data-heavy | |

The compiler runs elaboration, `explicit` and `core` passes (untangling, dead code
elimination, later the effect analysis), monoize, and the monomorphic passes, among
which `mono_reduce` runs again and again, before it prints C. `settings` and the
database driver decide names and SQL.

### Tools

| Component | State | Hard behaviour | What makes it correct |
|---|---|---|---|
| **Language server** (`bin/ur_lsp.rs`, `lsp_*.rs`) | open documents with generations, snapshots, a channel of finished analyses, one thread per analysis | results that end in any order, for texts that were edited, closed or opened again | what is shown is of the present text; nothing is shown for a closed one; results arrive |
| Debugger adapter (`debugger/`) | a session between a DAP client and gdb/MI | two streams of events | |
| Module database (`elaborated/module_database.rs`) | elaborated modules, dependents, a snapshot | partial rechecking, roll back | |
| Browser run-time (`lib/js/urweb.js`), storage back ends, command line, Standard ML compiler, Coq semantics | | sequential | |

`PROJECT.json` lists every component with its sources and status, and under
`hazards` what is hard to test in the code, at the line where it bites, with the
properties that watch it or a note that says why none does.

## 2. Modules

| Module | What it is |
|---|---|
| `Mailboxes` | abstract: what messaging promises. A transaction appends messages nobody has sent before to all mailboxes it writes to in one step, or forfeits them all, a view receives a prefix, a full mailbox loses all that its last transaction sent to it |
| `Clients` | slots, lists, locks, log-in, channels, sends, delivery, polls, the pruner. `MailSpec` is the refinement of `Mailboxes` |
| `ClientsProofs` | its inductive invariants and theorems |
| `AtomicRequests` | abstract: a request that is SERVED took effect once, one that FAILED never did |
| `Request` | the loop of `uw_request`, `periodic_loop`, `uw_commit`, `uw_rollback`, `expunge_lock`. `AtomicSpec` is the refinement of `AtomicRequests` |
| `RequestProofs` | its invariants and theorems |
| `Connections`, `ConnectionsProofs` | the queue, the accept loop and the worker loop; invariant and theorems |
| `LspSession`, `LspProofs` | the main loop and the analysis threads of the language server; invariant and theorems |
| `SqlCache`, `SqlCacheProofs` | the caches of query results and the pages that use them; invariant and theorems |
| `Rows` | rows of record types, `unify_rows`, `prove`: operators on sequences of pieces |
| `Elaboration`, `ElaborationProofs` | the program's demands, deferral and the solver, with `Rows`; invariants and theorems, about both |
| `Untangle`, `UntangleProofs` | Tarjan's search with explicit stacks; invariant and theorems |
| `Shake` | marking and filtering |
| `Effects` | the effect analysis |
| `CorePasses`, `CoreProofs` | the three one after the other: what one leaves, the next gets; the invariants of `Shake` and `Effects` and of the composition, and theorems |
| `MonoExp` | expressions as trees of nodes, and the arithmetic of their variables |
| `Inlining` | the rules of `mono_reduce.rs`, passes over a file, and an evaluator the passes are held against |
| `MC...` | instances for TLC |

Definitions have the names of the functions they translate where those exist;
`map` in `PROJECT.json` names the lines. Definitions that a comment calls a
mutant (`NewSlotKeepsSock`, `VerifyReadsPass` ...) are not part of any
specification: each is a plausible bug, and putting it in the place of the
definition below it makes TLC find the property named in `mutants` violated.

**Grain of steps.** In C, a critical section of a mutex is one step, and so is all
that a thread does between two of them when nobody else can see it. A lock is a
variable when somebody holds it across steps (`pull_lock`,
`message_send_mutex`, `expunge_lock`, and `clients_mutex` and `c->lock` in the
hands of the pruner); a lock that is only ever taken and given back within one
step appears as a guard that it be free. Where the code touches shared state under
no lock, a read and a write are two steps: `n_channels++`
(`new_channel_read`, `new_channel`). In the compiler a step is one turn of the loop
in question: one constraint looked at, one frame of the search, one name marked,
one member of a group judged, one pass over a file.

**Clients.** `client[id]` is `clients[id]` with the struct it points to;
`n_clients`, `clients_free` and `clients_used` are the code's. `pc[w]` is where a
worker is: `login`, `use` and `pull` (the two halves of `use_client`), `check`
(mode and password), `body` (the handler), `channel` (in `n_channels++`), `commit`
(it has `message_send_mutex` and sends COMMIT), `send` (the loop of
`client_send`), `unpull` and `unuse` (the halves of `release_client`), `depart`;
`find` and `connect` for a poll. Passwords are serial numbers of page views: the
code draws 31 random bits, and equal draws are not modelled. A page view is thereby
identified for ever, while its slot number and channel numbers are reused as in
the code; channels and messages carry their view as history. `owed[p]`, history too, is what
committed transactions sent to view `p` without what its slot had no room for. COMMIT has three
outcomes: the messages are sent (`db_commit`), it fails (`db_commit_fails`), or it succeeds and a
final action then signals an error, whereupon `uw_commit` returns without its send loop
(`db_commit_unsent`; `unsent` is the history of such transactions). When `uw_request`
retries, `Clients` sees another transaction; the loop itself is in `Request`.

**Request.** `ctx`, `loop` and `conn` are the `uw_context`, the locals of
`uw_request` and the state of the SQL connection; `readers` and `pruning` are
`expunge_lock`. `try` and `req` are history; `try.calls` has, for each transactional, the handlers
called of it in their order. A transactional is of kind `undo` if it has
a rollback handler, else `final`. Unlocking a read-write lock one does not hold is
undefined: it takes away somebody else's hold or, if there is none, does nothing
or leaves a count that lets no writer in. What free handlers are told
(`will_retry`) and the clean-up stack are left out.

**Connections.** What clients send is cut into pieces; one piece is a head, or
the content of a small request; `BufMax` pieces fill the buffer. Kinds of request:
`get`, `query` (a GET with a query string), `post` (a form, with content), `cut` (announces content
and never sends it),
`poll` (becomes a client's waiting socket), `close` (asks for the connection to be
closed), `malformed`, `longhead` and `longbody` (exceed the buffer). `recv` returns any
non-empty part of what has been sent, or fails when there is nothing. `uw_request` is given the
content and whatever was sent ahead behind it, as one string; the parser of forms ends names and
values with zero bytes up to the end of that string, so a `query` behind a `post` in the buffer has
a zero byte in its head (`Overwritten`, remembered in `nuls`) and `HeadIn` no longer sees that
the head is complete. The number of a connection is never reused, whereas the kernel reuses descriptors
once they are closed.

**LspSession.** A text is a version number, `docs[u]` the version and the generation
of the entry in `Global.docs`, `snaps` the snapshots, `threads` the analyses that
run and `ready` the channel of their results. The main loop receives one message or
times out (`recv`), then takes at most `MaxDrain` results (`drain`). The edit is
modelled where the loop receives it. An analysis may panic (`Crashing`), and sending
to the editor may fail, which ends the loop.

**SqlCache.** A query is the number of its cache and the values of its parameters, the first of
them being the code's last (`keys[numKeys - 1]`, from which the tree grows). `table` has the
entries of all trees by the beginning of the keys that leads to them; `timeInvalid` and `timeNow`
are the cache's, `memory` the values that were allocated and not freed. `lockOut` is a
variable, `lockIn` is held from a function's first to its last look at the table, so each
function is one step: `check`, `store`, `flush`, `storeCommitOne`, and `Unlock` for
`uw_Sqlcache_free`. A page runs some of its queries and updates in any order (`Pages`), and
its locks are those that `locksNeeded` finds for it. What a query finds is a version number:
`data` holds the committed ones, `written` a transaction's own. The database is serializable:
after its locks are taken, a page sees no change of what it reads from a cache. A place in
memory is used again only when nobody points to it, so that a dangling pointer is seen as
one. That a page may change what it has queried is a constant, `Overwrites`. Eviction is left out:
the limit is 1234567890 entries.

**Rows and Elaboration.** A row is the sequence of pieces its concatenations join:
fields, unknown tails, rigid rows. `known` maps solved cells to rows, `constraints`
and `may_delay` are the context's, `pending`, `next`, `progress` and `pass` the
locals of `solve_constraints_internal`, `older` and `report` those of its callers.
A program is what it demands: equations, rows to be disjoint, folders, in every order,
with a guarded expression around them or not. `demands` is history. Kinds, `map`
(and with it `guess_map`), field names that are variables, scopes of cells and class
instances other than folders are left out.

**Untangle, Shake, Effects, CorePasses.** Functions are numbers with the sets of what
their bodies refer to (in `Effects` by kind of reference: named, called by `rpc`,
within `onload` and event handlers). A program enters at any of the three passes and
goes through those after it. `Untangle` says that a member is reached if it is in every set that
holds the start and is closed under references, so that its definitions are not recursive and can be
proved about. In the place of a declaration that `Shake` drops the analysis gets one of a kind it
passes over: the properties do not tell positions apart.

**MonoExp and Inlining.** The code walks expressions with one clause per constructor;
here a node has an operator, data and the expressions inside, and `Binds` says how
many variables it binds in each, so that lifting, substitution, exchange and counting
are one definition each over trees. A file is a helper function and the body of a
handler with two parameters. `reduce_node` and what it calls are the rules of the code
for applications, lets, cases and names; records, signals and JavaScript are left out,
and with them the rules for fields and those that repair types. `Eval` is the reference:
a call-by-value evaluator that keeps the page, the writes, how many writes each read
saw, and whether the transaction was given up.

## 3. Runs

Constants not mentioned are in the `.cfg` files, each with its bound. The types of `Clients`,
`LspSession`, `Effects` and `SqlCache` are theorems (section 6) and not part of the runs.

| Run | Instance | What it shows |
|---|---|---|
| `clients_reuse` | 2 workers, the pruner, 1 slot, 2 views, 3 transactions, buffer of 1 message, pages, RPCs, polls and requests without a client, final actions that fail after COMMIT, expunging succeeds, conflicts or fails, headers of an earlier server | `StreamExact` (inbox + buffer + what is in the send loop = `owed`, what was committed and sent and did not overflow); `NobodyWaitsInVain` (no poll waits while messages lie there); `NoStaleChannels`; `SessionStable`; `ChannelsFresh`; `ReferencesKept` (counts of references, RPCs included); `MailSpec` (refines `Mailboxes`) |
| `clients_live` | 2 workers, the pruner, 1 slot, 1 view, 3 transactions (its page, RPCs to it, requests without a client, which contend for `pull_lock` and `message_send_mutex`), fairness, final actions that fail, the expunger's COMMIT conflicts or fails for good | `RequestsFinish` (no deadlock among the five locks); `GoneReclaimed` |
| `request_atomic` | 1 worker, onError, COMMIT succeeds or fails for good, ROLLBACK may fail, every failure kind | `TypeOK` (which bounds the runs of a handler); `SettledOnce` (transactionals freed once and last, final ones after COMMIT, the client released once, SERVED means done); `AtomicSpec` (refines `AtomicRequests`) |
| `request_settle` | 1 worker, 1 periodic task, the pruner, COMMIT is refused for conflicts only | `UndoneUnlessCommitted`; `LockDiscipline` (`expunge_lock` counts exactly the transactions, the expunger runs alone); `NoIdleTransaction`; `RequestAnswered` |
| `conn_serve` | 2 workers, 2 connections, 3 requests of all 9 kinds, buffer of 3 pieces, keep-alive | `TypeOK` (buffers do not overflow); `SingleOwner`; `AnswersInOrder`; `NoLostWakeup`; `RequestsAnswered` (but for requests over whose heads a form was parsed: section 5) |
| `lsp_edit` | 2 documents, 3 texts each, opened up to twice, one analysis that panics, drain of 1 | `ClosedShowsNothing`; `NoResultLost`; `StaleDiscardedFirst`; `DiagnosticsArrive` |
| `core_passes` | 3 functions that refer to each other in every way, 2 datatypes in one group and a type, a table, a cookie, exports, a task | `GroupsSplit` (strongly connected components, each declared once, callers first, in the steps of a search); `UsedExact` (marked is exactly what the roots of the code need); `NothingDangles` (with two exceptions: section 5); `NothingMissed`; `StampsTrue`; `PassesEnd` |
| `elab_rows` | up to 4 demands out of 11 equations, 3 pairs to be disjoint, 1 assumption, 2 folders, in every order | `WellFormed` (types, no cyclic rows); `DemandsMet`; `ReportsJustified`; `SolvingEnds` |
| `inline_effects` | 328,116 states: handlers of two or three bindings with steps, cases, loops, chosen and applied functions after them, a helper; two passes in either mode | `EffectsKept`: the page, the writes, what every read sees and the failure of a request stay as they were |
| `cache_pages` | 2 threads, 3 transactions of 2 operations; a query with 2 parameters and one with none; two pages of which each changes what the other reads, and readers | `HitIsCurrent`; `ValuesOwned`; `NoCircle` (no deadlock among the locks of pages); `FlushSpares` |
| `clients_noexpunger`, `cache_dangling` | | violated: section 5 |

**Why these bounds.** Every hazard of the run-time system needs at most two actors
besides the pruner: a holder and an intruder, a sender and a poll, two senders. A slot
must be used, freed and used again, which two views and one slot do; a third
transaction is needed for somebody who holds an old number while the slot changes
hands. `clients_live` has one view, since it asks about waiting: a page, an RPC to the same client
and a third transaction wait for each other and for the pruner there; what a reused slot
does to `GoneReclaimed` is in section 5. A buffer of one message overflows within the run. Retries: with `MAX_RETRIES`
at 1 or 2 (5 in the code) all of first, middle and last retry occur, with and without
unlimited retries in between (`AttemptsMax`). In `Connections`, three requests in a
buffer of three pieces give all the ways in which a request can end at, before or
beyond the end of a read, and one client can send ahead while another one takes over
the worker. `RefMod` is 8 where the code has 2^32: far more than the threads of an
instance, so that only a decrement of zero wraps, as in the code. In `LspSession` three
texts of one document can overtake each other, and a drain of one leaves results in
the channel (the code takes more per poll, and meets the bound the same way). Three
functions have all the components a graph can have that differ for the search (single
with and without a loop, pair, triple, chain into a component). In `Elaboration` the
equations reach every rule of `unify_rows` from both sides; a rule is set off at the
earliest by one demand and upset by a second, a third is needed for what was deferred
meanwhile, and the fourth lets a program come back to solving; the code's limit of 8 passes is
kept. In `SqlCache` a value becomes wrong by a fill, an update and a second look; three
transactions are those, and two operations let a page update between its own query and
its commit. Two parameters give all flushes there are: of a value, behind a beginning of
keys, of everything. In `Inlining` a binding has to pass one effect to reach its use, at the end of a
step, in an arm, in a loop or under a function, with a second binding between; two
passes let the second meet what the first made.

Worker threads are interchangeable in `clients_reuse` and `cache_pages`, which check no liveness
and therefore use symmetry.

**CHECK_DEADLOCK** is off where systems stop: `Clients`, `Request`, `LspSession`, `SqlCache` and
`Elaboration` stop when their bounds are used up, the passes when they are done;
`RequestsFinish`, `RequestAnswered`, `DiagnosticsArrive`, `SolvingEnds`, `PassesEnd`
and `NoCircle` say what must not get stuck. In `Connections` it stays on: a worker may always wake up
spuriously, and the only state without a step is that of a dead process, which has a
stuttering step of its own (`Dead`).

## 4. Fairness

* `Clients`: a worker that can go on again and again does (`SF Step(w)`): mutexes
  of the code are not fair in the letter, but the threads that compete sleep or
  wait between two turns (the pruner sleeps five seconds, a poll comes back after
  an answer). The pruner's loop has weak fairness; its transaction does not meet
  conflicts for ever (strong fairness of its ending, well or with an error); time
  passes; pages that are open poll (`listener` in `urweb.js` opens a new poll
  after every answer). No request is obliged to arrive and no handler to commit.
  Transactions are bounded (`TxMax`), so the starvation of the pruner by a
  never-ending stream of readers, which a reader-preferring lock permits, is
  outside of the runs.
* `Request`: `SF Step(t)` for every thread (one that waits for `expunge_lock` gets
  it if it is free for readers again and again) and `WF` for the pruner leaving;
  handlers that ask for unlimited retries do so at most `AttemptsMax` times,
  because nothing is promised about those that never stop.
* `Connections`: weak fairness of every worker's step and of the accept loop. A
  `recv` that would block ends by the timeout of `SO_RCVTIMEO`, five seconds unless
  `-T` says otherwise; with `-T 0` a silent client holds a worker for ever and
  `RequestsAnswered` is not claimed. `RequestsMax` hides that a client that sends
  ahead for ever keeps its worker for ever.
* `LspSession`: weak fairness of the loop's timeout and drain, and of the end of every
  analysis. The editor owes nothing.
* `Elaboration`: sequential code that runs on once `solve_constraints_internal` was
  entered: weak fairness of its steps, written out as
  `[]<>(phase # "solve") \/ []<><<SolverStep>>_vars` because one of the steps is enabled
  exactly while it has the constraints. `CorePasses`: weak fairness of the passes.

## 5. Where the code and its documents part

Findings, each with the run that shows it; run TLC with that configuration to see the
trace.

1. `clients_noexpunger` / `NoMisdelivery`: the generated expunger is empty
   (`monoize.rs:8791`), so channels outlive their client and the next owner of the slot
   receives their messages; `doc/manual.tex:2304` says "no other client may receive the
   channel's messages".
2. `cache_dangling` / `HitInMemory`: the value of a hit is used after `lockIn` was given back
   "because updates happen at commit time" (`urweb.c:5702`); at the commit of another page,
   which holds `lockOut` for reading as well, `storeCommitOne` frees it (`:5742`).

Seven more disagreements need no run of their own, since a change of one line in a configuration
above shows them:

* `clients_reuse` with the `PROPERTY` `CommittedIsSent` in the place of its own: after COMMIT has
  succeeded the `commit` of a final transactional may signal an error, and `uw_commit` returns
  without its send loop (`urweb.c:4084`, `:4099`). What the transaction wrote stays, its
  messages are lost. "[A]ll messages from one transaction are sent as an atomic unit" says
  the comment (`urweb.c:4039`); `doc/manual.tex:2588` lets an error in a commit handler
  switch "to aborting the transaction", which is no longer possible.
* `conn_serve` with `QueuedAnswered` in the place of `RequestsAnswered`: `uw_request` gets the content
  with all that was sent ahead (`http.c:297`) and cuts a form up to the end of that string
  (`request.c:474`, `:490`), so zero bytes are written into a request that waits behind; `strstr` then
  never finds the end of its head, and it is not answered, although "[i]n case any other
  requests are queued up" the rest is kept (`http.c:324`).
* `core_passes` with `KeptClosed` in the place of `NothingDangles`: `dead_code_elimination.rs` calls
  cookies roots (lines 5 and 567), but nothing is marked from them in any mode (the comment at line
  626 says so). In normal mode all cookies are kept (`:672`) and what only their types name is dropped: a cookie whose datatype is
  gone. A kept group of datatypes likewise loses what only an unmarked member of it names, and
  slicing for the database drops cookies and styles themselves, though something kept may refer to
  them. `NothingDangles` excepts these cases by name (`Unfollowed`, `Sliced`) and no other.
* `elab_rows` with `NoFieldTwice` in the place of its properties: `prove` returns no goal for two
  rows of which nothing is known, so the demand is dropped and both may end up with a
  field in common (`disjointness_analysis.rs:483`, against its comment at line 454 and
  `disjoint.sml:264`).
* `lsp_edit` with `StaleDiscarded` in the place of `StaleDiscardedFirst`: generations start again
  at 1 when a document is closed and opened (`ur_lsp.rs:426`), so the result of the old text
  may be shown for the new one, although "stale background work is discarded" (line 79).
* `cache_pages` with `Overwrites = TRUE`, where `HitIsCurrent` fails: a page that runs a query, changes
  its rows and commits leaves the result from before the change in the cache. The comment on
  flushing says that it happens at once "so that subsequent stores in the same transaction
  fail" (`urweb.c:5846`), but stores take effect at the commit, where the deleted entry is made
  anew (`:5731`) and the value gets the present time, later than any mark (`:5744`).
* `cache_pages` with `NothingLeaks`: `uw_Sqlcache_free` does not free the values of its updates since
  each is "in the cache now" (`urweb.c:5779`); after a rollback, a failed COMMIT, or a store
  that found a value of the same time, it is not.

Known behaviour of the code that the runs above keep out by their instances. The models
contain it; each shows up when the named constant or instance is changed:

* `uw_login` counts a reference on a slot before checking whose it is (`urweb.c:836`),
  `new_client` zeroes the count on reuse (`:224`), and the late release takes it below
  zero: `ReferencesKept` without `~TakenHeld(i)` fails in `clients_reuse`, and with
  `PassMax = 2` in `clients_live` the pruner never expunges that client again (`GoneReclaimed`).
* A client whose expunge transaction ends in an error was unlinked first
  (`urweb.c:4274`) and is on no list afterwards (`fatal` among `ExpungeResults`).
* `uw_request` ignores the result of `uw_commit` (`request.c:538`): a serialization failure
  at COMMIT rolls back and answers SERVED (`serialization` in `request_atomic`), where
  `doc/manual.tex:2582` and `urweb.c:4055` speak of a restart.
* A final action that signals an error runs after COMMIT; `uw_request` then answers FAILED
  although the transaction took effect (`request.c:539`; `final` among the `Signals` of
  `request_atomic`).
* With an onError handler a failing COMMIT gives `expunge_lock` back twice
  (`request.c:547` and `:634`; `OnError` in `request_settle`).
* When COMMIT fails for good, transactionals that have committed are freed and not rolled
  back (`urweb.c:4069`; `error` among the `CommitAnswers` of `request_settle`).
* A row that names one unknown tail twice and meets a single rigid row: the first tail is
  assigned the rigid row and, as one of the others, emptied in the same step (`elaborate.rs:6775`).
  No cycle and no wrong cell comes of it, but the equation counts as solved and does not hold:
  `DemandsMet` fails if `MCEquations` also equates its first two tails. `TailsApart` names
  the case; it holds in every state of `MCElab` (TLC checks it when it is added to `elab_rows.cfg`).
* Untangled components come out callers first, as the unit test `untangling.rs:718`
  asserts and the comments at lines 6 and 325 deny. The effect analysis goes over
  declarations once and needs callees first: `NothingMissed` and `StampsTrue` are stated
  for files in order.
* After a ROLLBACK that fails, or a COMMIT that fails for good, the thread goes idle with its
  transaction open (`request.c:634`; `RollbackFails = TRUE`, or `error` among the `CommitAnswers`
  of `request_settle`, where `NoIdleTransaction` then fails).

What the reduction of monomorphic programs does not preserve, kept out of `MCInlining`
(most of it the original shares; each was seen in a trace):

* `summarize` lets the arms of a case follow each other ("conservative approximation",
  `mono_reduce.rs:345`), so an arm that fails hides the effects of the next: in
  `let r = query in case o of none => error | some => (dml; write r)` the read moves behind
  the write. Variables are not counted up for what patterns bind there, which the original
  does (`mono_reduce.sml:497`).
* An arm of a case of a known value is reduced in the environment of its pattern after its
  variable was substituted away (`:2572`), so `strip_spurious_unit_app_in_env` (`:2151`,
  only in Rust) looks up another variable's type and may drop the call of an action.
* A foreign function is judged without its arguments (`:137`), so a pure function of an
  effect may be copied in full mode.
* An effect that is used in one arm only is lost in the others, and a read used in the
  body of a loop is repeated for each row; an error that is bound and not used is dropped.
* `free_in_abs` looks for a variable under a function by the number it has outside (`:517`).

Of the cache, not in the way of any property: the first value stored in a new cache is never found,
as its time 0 is not later than the 0 of the cache (`urweb.c:5705`); the eviction of the entry of a
beginning of keys would forget when it was flushed; the Rust instrumentation
(`monomorphized/sqlcache.rs`) takes no locks, so that no transactional is registered and no store
takes effect. The model is of handlers as the original compiler prints them.

Noticed on the way and not checked by a run: the break at an oversized content
leaves only the inner loop (`http.c:195`), so the request is served on
descriptor 0, and with keep-alive the length passed to `memmove` is negative
(`http.c:336`; the model lets the process die there, `down`); the help text gives
1 MB as the default of `-m` (`http.c:360`) where the code has 300 MB (`:102`); a comment
in `urweb.c` says that a flush is safe "because we will always call
[uw_Sqlcache_wlock] earlier" (`urweb.c:5847`), a call the Rust instrumentation does not
emit; a
poll still waiting when its client is expunged is never closed (`urweb.c:337`).

## 6. Proofs

The theorems hold for every value of the constants that satisfies the `ASSUME`s of
the modules: any number of workers, slots, views, messages, connections, any buffer, any
number of documents, edits and threads, any program.

| Theorem | States |
|---|---|
| `ClientsProofs!TypeCorrect` | `Spec => []TypeOK` |
| `ClientsProofs!SessionSafe` | `Spec => []SessionStable` |
| `ClientsProofs!ReferencesSafe` | `Spec => ReferencesKept` (an action property), whatever the requests, if there are fewer threads than `RefMod` (2^32 in the code) |
| `ClientsProofs!StaleFree` | `Spec => []NoStaleChannels`, if the expunger deletes and its COMMIT does not fail for good |
| `ClientsProofs!ListsSafe` | `Spec => []ListsPartition` |
| `ClientsProofs!ChannelsNew` | `Spec => ChannelsFresh` (an action property) |
| `ClientsProofs!StreamsExact` | `Spec => []StreamExact`, under the assumptions of `StaleFree` |
| `ClientsProofs!NobodyWaits` | `Spec => []NobodyWaitsInVain`, under the same |
| `ClientsProofs!NeverMisdelivered` | `Spec => []NoMisdelivery`, under the same |
| `ClientsProofs!MailboxesImplemented` | `Spec => MailSpec` (the refinement of `Mailboxes`), under the same |
| `RequestProofs!LockDisciplined` | `Spec => []LockDiscipline`, if there is no onError handler |
| `RequestProofs!NoneIdle` | `Spec => []NoIdleTransaction`, if COMMIT answers yes or "conflict" and ROLLBACK succeeds |
| `RequestProofs!TypeCorrect` | `Spec => []TypeOK` (with it the bound on the runs of a handler) |
| `RequestProofs!Settled` | `Spec => [](TransactionalsSettled /\ FinalAfterCommit /\ ClientReleased)` |
| `RequestProofs!OnceSettled` | `Spec => []SettledOnce`, if COMMIT is not refused for a conflict |
| `RequestProofs!AbortedUndone` | `Spec => []UndoneUnlessCommitted`, if COMMIT does not fail for good |
| `RequestProofs!RequestsAtomic` | `Spec => AtomicSpec` (the refinement of `AtomicRequests`), if COMMIT is not refused for a conflict and final actions signal no error |
| `ConnectionsProofs!TypeCorrect` | `Spec => []TypeOK` |
| `ConnectionsProofs!SingleOwnerSafe` | `Spec => []SingleOwner` |
| `ConnectionsProofs!AnsweredInOrder` | `Spec => []AnswersInOrder` |
| `ConnectionsProofs!WakeupsKept` | `Spec => []NoLostWakeup`, if there is a worker |
| `LspProofs!TypeCorrect` | `Spec => []TypeOK` |
| `LspProofs!ClosedStaysClear` | `Spec => []ClosedShowsNothing` |
| `LspProofs!ResultsKept` | `Spec => []NoResultLost` |
| `LspProofs!AnswersCoherent` | `Spec => []AnswersBehindText` |
| `LspProofs!StaleDiscardedOnce` | `Spec => StaleDiscardedFirst` (an action property) |
| `SqlCacheProofs!TypesHold` | `Spec => []TypeOK` |
| `SqlCacheProofs!LocksGivenBack` | `Spec => []LocksReturned` |
| `SqlCacheProofs!ValuesHaveOwners` | `Spec => []ValuesOwned` |
| `SqlCacheProofs!FlushSparesHits` | `Spec => FlushSpares` (an action property) |
| `SqlCacheProofs!CacheIsCurrent` | `Spec => []HitIsCurrent`, if pages do not change what they have queried |
| `SqlCacheProofs!PagesNeverCircle` | `Spec => []NoCircle`, if there are finitely many caches |
| `ElaborationProofs!WellFormedRows` | `Elaboration!Spec => []WellFormed` |
| `ElaborationProofs!CellsSolvedOnce` | `Elaboration!Spec => SolvedOnce` (an action property) |
| `ElaborationProofs!FoldersAndGuards` | `Elaboration!Spec => []FoldersAndGuardsMet`: `DemandsMet` for folders and disjointness |
| `ElaborationProofs!AcceptedProgram` | `Elaboration!Spec => []GuardsProved`: without an error, what was to be disjoint is, and every folder was built |
| `ElaborationProofs!DemandsKept` | `Elaboration!Spec => []DemandsMet`, if `TailsApart` always holds |
| `ElaborationProofs!AcceptedEquations` | `Elaboration!Spec => []EquationsHold`: without an error, rows that were equated are equal; likewise |
| `UntangleProofs!TypeCorrect` | `Untangle!Spec => []TypeOK`, with the bound on the rounds of the search, if `N` is a number above 0 |
| `UntangleProofs!TarjanCorrect` | `Untangle!Spec => []ComponentsExact`, likewise |
| `UntangleProofs!GroupDeclared` | `Untangle!Spec => [](DeclaredOnce /\ DependentsFirst)`, likewise |
| `CoreProofs!GroupsSplitRight` | `PassesSpec => []GroupsSplit` |
| `CoreProofs!MarksExact` | `Shake!Spec => [](UsedExact /\ NothingDangles)`: the marks are what the code's roots need; what is kept refers to nothing dropped but for `Unfollowed` and `Sliced` |
| `CoreProofs!UsedExactly` | `PassesSpec => []UsedExact` |
| `CoreProofs!NothingLeftDangling` | `PassesSpec => []NothingDangles`, with the same exceptions |
| `CoreProofs!NoEffectMissed` | `PassesSpec => []NothingMissed` |
| `CoreProofs!StampsStayTrue` | `PassesSpec => []StampsTrue` |
| `CoreProofs!TypeCorrect` | `Effects!Spec => []TypeOK` |
| `CoreProofs!NoFalseAlarm` | `Effects!Spec => []NothingInvented` |
| `CoreProofs!ReportsExact` | `Effects!Spec => []GetsReported` |

**Clients.** None of the properties is inductive. What is (`IInv` in
`ClientsProofs`) adds to the types: every transaction is among the readers of
`expunge_lock`, the writer excludes readers, and the pruner is the writer while it
sweeps (`LockInv`); what a context holds at each point, above all that its slot
number is one of the table when it is used (`ContextInv`); that the two lists have no
repetitions and agree with the modes of the slots, and that slots past `n_clients` are
unused (`TableInv`); that what the pruner has yet to look at is on `clients_used` and
what it expunges is not (`PruneInv`); and that a transaction whose client was made for
it or has been checked has that slot (`OwnerInv`). `SessionSafe` is a part of
`OwnerInv`: such a transaction is a reader, so the pruner cannot free its slot, and
`new_client` takes only slots that are free. `StaleFree` needs in addition
that the channels a running transaction has made are those of its own client
(`MadeInv`), so that they are good when COMMIT stores them. Its two assumptions are
necessary: without the first, `clients_noexpunger` has a stale channel; without
the second, a slot is freed while its channels stay. `ListsSafe` adds that an allocated
slot that is not on the free list is in use (`PartitionInv`), and that a
sequence without repetitions has as many elements as its length.

`ReferencesSafe` compares, for each slot, `refcount` with the transactions between `use_client` and
`release_client` (`Holders`). Every step changes the two together, with one exception, which the
property names: `new_client` sets the count to zero, and an RPC may hold the slot by then,
because it counts a reference on whatever slot it names before it looks whose it is (`TakenHeld`). So
a count that is right stays right through log-ins, refused ones too, and through every
ending; only a slot taken over from under a reference upsets it. `RefInv` adds that whoever is
counted has a way to `release_client`: past log-in the context of a holder is attached to the client it
names, which is what `Leave` looks at, and before it a context that is no RPC's names none
(`AttachedOf`).

`ChannelsNew` rests on `FreshInv`: only the worker that has a client's `pull_lock` is
between the read and the write of `n_channels`, what it has read is still there, and all
channels of that view, stored or about to be, have smaller numbers.

The last four share one invariant, `DeliveryInv`, that adds six parts to the above.
`ViewInv`: used slots and live views belong to each other one to one, a waiting poll is the
view's own, and while one waits nothing is buffered (which is `NobodyWaits`). `SendInv`: what a transaction has sent is in
one delta per slot, each for a slot in use, and a delta holds exactly what was sent to the
view whose slot it is; it needs `NoStaleChannels`, for a channel taken from the database could
otherwise belong to a former owner of its slot. `MutexInv`: whoever has deltas from before COMMIT to the end
of the send loop has `message_send_mutex`. `TagInv`: messages committed are tagged with their
view and with a transaction that runs no more or is past COMMIT. `UnsentInv`: no message that is owed
is tagged with a transaction that skipped its send loop. `StreamInv`: for a live view, inbox and
buffer together are `owed`, except for the one delta that may still be on its way to it,
which is the end of `owed` and all that carries its transaction's tag. By `MutexInv` a second
delta for the same view cannot be on its way, so a commit appends to a stream that is complete;
a buffer without room drops the end of `owed`, and nothing else. `StreamsExact` is `StreamInv` with
the delta that `Pending` picks. `NeverMisdelivered`: an inbox changes only while its view is
live, and is then a beginning of `owed`. `MailboxesImplemented` maps `new_client` to `Open`,
`db_commit` to `Commit`, `db_commit_unsent` to `Forfeit`, `client_send` to `Receive` (a poll waits), to nothing (the
buffer takes it) or to `Lose`, `uw_client_connect` to `Receive`, `free_client` to `Retire`.
The assumptions are those of `StaleFree`, and as necessary: with a stale channel a message committed for
nobody goes to the next owner of the slot, as `clients_noexpunger` shows.

**Request.** Where a thread is says whether it holds `expunge_lock`: each of the actions leaves a
thread on its side of the lock, takes it in (and the count up) or lets it out (and the count down),
which is `LockInv`. The one place that does neither is `departed`, entered on the way to onError
after a failed commit: there the lock is given back a second time
(section 5), hence the assumption. `NoneIdle` rests on `ConnInv`: an open SQL transaction is
one `transaction_started` knows of, so that a successful ROLLBACK closes it, and at the points
where that flag may be cleared unseen (`idle`, `arrive`, `final`, `done`, `departed`, `dead`) none is open.
Both assumptions are needed: after a ROLLBACK that fails, or a COMMIT that fails for good and leaves
the transaction open, the thread goes idle with it.

The other theorems follow from `RunInv`, one invariant for each thread by the point it is at.
`Stage` says what has been called of every transactional: nothing while the handler runs (`Begun`,
`Untouched`); `commit` for those of kind `undo` that uw_commit has passed (`Promised`); past COMMIT,
`commit` for those of kind `final` as well (`Durable`); afterwards one of the few sequences a run
may end with (`Ended`, `Closed`; `Endings` lists them). `Retries` bounds what
was spent of `MAX_RETRIES`, and `Effect` ties the answer and the count of
transactions that took effect to the state of the SQL transaction. The refinement classifies each
step of a thread as `Arriving`, `Applying`, `Serving`, `Failing` or `Keeping`. Each assumption
is needed: a COMMIT refused for a conflict is rolled back and answered SERVED (`request.c:538`), one that fails
for good frees what it does not roll back (`urweb.c:4069`), and a final action that signals an
error after COMMIT makes a request FAILED that took effect.

**Connections.** `IInv` consists of the types; what a worker has at each point of
its loop (`WorkerInv`: no connection while it is between two of them, one while it
reads or puts it back, a complete head while it serves, and a served request
without connection only when its content did not fit), and where open connections are
(`PlaceInv`: the queue has no repetitions and no connection of a worker; two
workers never have the same; each open one is somewhere). `SingleOwner` counts places and
follows from `PlaceInv`. `NoLostWakeup` is inductive relative to the types: whoever
puts a connection on the queue leaves no sleeper, and a worker goes to sleep only
over an empty queue. `AnsweredInOrder` rests on `LineInv`: the buffer of a connection's
worker followed by what is still in the stream is a sequence of whole requests, numbered from the
first unanswered one to the last that was sent; a request that never ends (`cut`) can only be
the last; a worker that serves has all of its request in the buffer, and one that puts its
connection back has nothing in it. Dropping the served request from the buffer then leaves
the next one at its beginning.

**LspSession.** The argument rests on one fact: for a document that was opened once the
generation counts its texts, in its entry as in every job in flight, so equal stamps mean
equal texts (`GenMax > MaxEdits`: the stamp never saturates). What is drained for such a
document is therefore of its present text, which gives `StaleDiscardedFirst`, and no
result of the present text is skipped, which gives `NoResultLost`. The fact fails with the
second opening, and with it `StaleDiscarded`.

**SqlCache.** `Inv` has two parts besides the types. `Locking`: a thread holds exactly the locks of
`cacheUnlock`, for writing where its page flushes, a writer is alone, and what a page has in hand
is of its own queries and updates. `Keeping`: the entry of a query has those of all beginnings of
its keys, no value is younger than the clock, values have one owner, and a hit that is still in
memory is where it was found. It follows that a page that flushes a cache is alone with it (lemma
`Apart`), which is `FlushSpares`. `Current` is inductive relative to `Inv` and needs
`~Overwrites`: what is found is what the database holds; what a page has flushed or changed is not
found until it commits; and the results that wait for a commit are those the database holds.
The last of these is what an update of something queried before destroys. `NoCircle`: a page that
waits holds only locks with smaller numbers (`Ordered`), so the holder of the greatest lock
that is waited for waits for none.

**Effects.** What was found of a function cannot change once its declaration was passed,
because all it refers to was passed too: `IInv` says that functions passed are settled, that
in a round that has added nothing the members seen so far are (`RoundOK`), and that stamps and
reports concern functions passed. The quiet round is what makes leaving a group sound.
`NoFalseAlarm` needs no order: what is added is in every closed set that holds what was
found before.

**Elaboration.** Programs are any sets of equations, guards and folders over rows of fields, rigid
rows and the cells there are at the beginning (`ProgramAssumption`). `unify_rows` looks for a cell
only in the row it is about to assign; that no cycle goes through several cells needs more. `IInv`
has the types and what each phase leaves in the lists (`ListsSound`, `PhaseInv`, `KindsInv`) and
`KnownSound`: cells can be ranked, each below those in the row it was solved to (`Ranked`).
The rules keep a ranking because they work on normal rows, which after `EatMatching` have
no cell in common. A ranking also makes normalisation end: expanding as often as there are solved cells
leaves none (`Clean`), which is `WellFormed`. A rule that would assign a cell again finds it
nowhere, since the row it has was normalised before: `CellsSolvedOnce`.

`DemandInv` follows each demand through the lists. A guard is covered (`GuardsInv`): each pair
of pieces of its two rows is apart, in the environment it was made in, or some standing constraint asks
for that pair. When a cell is solved, pieces turn into rows, and normal forms compose (lemma
`NormalTwice`: what is known later makes of a row what it makes of its earlier normal form), so a
pair that was apart stays apart; when the solver takes a constraint, the goals that `prove` returns cover
what it covered. Constraints wait only where `prove` found something to look at (`ExaminedInv`), so
none is dropped silently. A folder is built only for a closed record, which later
solutions leave alone (`FoldersInv`).

For equations (`EqualInv`) the question is when two rows are the same up to order. Rows are weighed: a
measure adds up over concatenations, and respects what is known if a solved cell weighs what it was
solved to (`Respects`). What `EatMatching` takes away weighs the same on both sides; the measure that counts
one piece (up to case, for names) shows that rows which weigh the same for all measures leave nothing
(`Balanced` is `Eaten`). So it suffices that each rule of `unify_rows` leaves its
two rows the same weight for every measure that respects what it leaves known, and that solving more
only takes measures away. The rule of section 5 does not; `TailsApart`, the premise of
`DemandsKept` and `AcceptedEquations`, says that no equation of the program comes to it.

**Untangle.** The theorems are about every group that is not empty (`N \in Nat \ {0}`, which
`Types` keeps in the invariant). A stack alone does not say why what is popped is a component. `IInv` in
`UntangleProofs` adds: `tarjan_stack` and `dfs_stack` hold their nodes in the order of discovery
(`StackSorted`, `FramesSorted`); a node with a frame reaches all above it on the stack, and any other
node of the stack reaches one with a frame below it (`Linked`); the lowlink of a frame is the index of
a node on the stack that it reaches (`LowlinkSound`), and no edge explored from the nodes it owns, those
up to the next frame, leads below it (`LowlinkLowest`); and what has left the stack is closed under
references and lies in one component each (`Emission`). If the lowlink of a finished frame is its
own index, the nodes from it upward reach each other by `Linked`, and by `LowlinkLowest`
together with what has left the stack they are closed, so nothing else reaches
back: they are a component. If it is smaller, `LowlinkSound` links the node to one below it,
which is what `Linked` needs when its frame goes. `StepsBounded` counts two rounds for a
node with a frame or behind it and one still to come for each frame, hence no budget of the loops is used up.

**Shake.** `ShakeInv` says that what is marked lies in every closed set with the roots, and what a
followed name brings is marked; at the end the worklist is empty, so the marks are the least
such set. Whatever a body or initial value names is then marked if its declaration is kept (lemma
`TermMarked`), and whatever a definition names is marked if its own name is (`DefinitionMarked`). A kept
declaration has an unmarked name only if it is a cookie or a datatype of a group kept for another,
which is `Unfollowed`, and a marked name is dropped only by slicing, which is `Sliced`.

**CorePasses.** `PassesInv` says that each phase is in a state its own invariant allows and that
the passes still to come have not begun. The handing over is what has to be proved: the
declarations of a group are a well-formed program (a `val` has one function: `Singles`), and
what is kept of a program is a file the analysis can read. `OfFunctions` assumes that of the programs
that enter at dead code elimination; TLC evaluates it on `MCPrograms`. As the theorems are about `PassesSpec`
they hold for what one pass leaves to the next as well as for programs that start there.

**Model-checked only.** Liveness and everything else under fairness, `SolvingEnds` among it.
`EffectsKept`: it speaks of what the recursive operators of `MonoExp` and `Inlining` compute, and needs an
induction over expressions. `ReportsJustified`: it is no theorem, because the solver gives up after
`MaxPasses` passes, and because the occurs check refuses an equation such as `t = t ++ u`, which `u` empty
would solve; it holds of the programs of `MCElab`.

## 7. Not modelled

* Texts: the contents of messages, pages, headers, inputs and SQL; scripts that
  are sent along with messages (and when: `client_send` sends them only to a poll that
  waits, `urweb.c:357`); `client_data`; parsing and multipart bodies.
* What a form's own fields become when the string it is cut from goes on with requests sent ahead
  (the values of its last field), and what is parsed of a head that was cut in two by zero bytes: only
  that the request behind is lost.
* `uw_request_init`, option parsing, logging, loading of the application.
* The database, except for what it may answer, and user code, except for what
  it may do to the run-time system.
* Resets of a connection with data pending (a read that fails although bytes are
  there), descriptors that the kernel gives out again, `malloc` and `realloc` that
  fail (they end as the buffer limit does).
* Long jumps out of `uw_commit` past its frame (`urweb.c:4122`) and the expunger that rolls back by itself
  (`urweb.c:4250`).
* Of the SQL result cache: eviction, the output of pages that is recorded with a result, and cached
  expressions within cached ones. Which update flushes which query is a question of SQL
  expressions; the models take for granted that an update flushes what it changes. The Rust
  instrumentation, which decides it, has no state.
* The larger part of the compiler by lines, translations node by node of the size of the
  language (parser, corify, monoize, cjrize, cjr_print, kinds, modules and signatures in
  elaborate.rs): pure functions over trees, whose correctness is a relation between two
  languages, not a property of a state. The map covers a few percent of the Rust lines for that
  reason.
* Of `mono_reduce.rs`: records, signals, JavaScript, and the folding of concatenated string
  constants (`Strcat`, `mono_reduce.rs:1955`), which touches no effect and no variable.
* The module database, which the compiler does not use outside of its tests, and the
  debugger adapter, whose other end (gdb) is outside of the repository.

## 8. Plan

Done, in this order: `Connections`, `Clients`, `Request` with their abstract
specifications; `LspSession`; `Untangle`, `Shake`, `Effects` and their composition; `Rows` and
`Elaboration`; `MonoExp` and `Inlining`; `SqlCache`; proofs for all but `Inlining`. What would come next:

1. Proofs: when `ReportsJustified` holds (which programs are solved in `MaxPasses` passes).
2. `mono_opt` and `fuse` against the evaluator of `Inlining`, then the rules for records.
3. `Listener`: the channels of `urweb.js` between the poll and the waiting threads, composed
   with `Mailboxes` as its source.
