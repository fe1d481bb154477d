------------------------------ MODULE Clients ------------------------------
(***************************************************************************)
(* Persistent clients and server push (src/c/urweb.c): the table of client *)
(* slots, the transactions that log in as a client, create channels, queue *)
(* messages and deliver them at commit, the ".msgs" long polls that fetch  *)
(* messages, and the pruner thread that expunges slots nobody has polled   *)
(* for and hands their numbers out again.                                  *)
(*                                                                         *)
(* A client slot is reused, so a slot number does not identify a page      *)
(* view; the password drawn by new_client does.  A password is a serial    *)
(* number here (the code draws 31 random bits; two draws that collide are  *)
(* not modelled) and 0 stands for the code's -1.  Channels and messages    *)
(* carry, as history, the view they were made for.                         *)
(***************************************************************************)
EXTENDS Integers, Sequences, FiniteSets

CONSTANTS
  Workers,         \* server threads that run uw_request
  Pruner,          \* the client_pruner thread
  NoOne,           \* the owner of a free lock
  ClientsMax,      \* uw_clients_max: how many slots the table may grow to
  MessagesMax,     \* uw_messages_max: what a slot's or a delta's buffer holds
  RefMod,          \* refcount is unsigned: it counts modulo RefMod
  Requests,        \* the kinds of request of this instance
  ExpungeResults,  \* how the database may answer an expunge transaction
  ExpungerDeletes, \* does the application's expunger delete the client's rows?
  FinalErrors,     \* may an action that runs after COMMIT signal an error?
  Foreign,         \* headers that browsers keep from an earlier server process
  PassMax,         \* bound: page views created in a behaviour
  TxMax,           \* bound: transactions started in a behaviour
  ChannelsMax,     \* bound: channels of one client
  SendsMax         \* bound: messages sent by one transaction

Ids == 0 .. ClientsMax - 1
Passes == 1 .. PassMax
NoPass == 0                 \* the password of a free slot (-1 in the code)
NoId == -1                  \* ctx->client is NULL before a client is found
NoSock == 0                 \* sock = -1

ASSUME ClientsMaxAssumption == ClientsMax \in Nat \ {0}
ASSUME RefModAssumption == RefMod \in Nat /\ RefMod > 1
ASSUME BoundsAssumption == /\ PassMax \in Nat \ {0} /\ TxMax \in Nat
                           /\ ChannelsMax \in Nat   /\ SendsMax \in Nat
                           /\ MessagesMax \in Nat
ASSUME EnvironmentAssumption ==
  /\ Requests \subseteq {"plain", "page", "rpc", "pull"}
  /\ ExpungeResults \subseteq {"ok", "serialization", "commit_error", "fatal"}
  /\ ExpungerDeletes \in BOOLEAN /\ FinalErrors \in BOOLEAN
  /\ Foreign \subseteq [id : Nat, pass : Nat \ (0 .. PassMax)]
ASSUME ThreadsAssumption ==
  /\ IsFiniteSet(Workers) /\ Pruner # NoOne
  /\ Pruner \notin Workers /\ NoOne \notin Workers

VARIABLES
  client,             \* client[id]: the slots, clients[] and the structs in it
  n_clients,          \* slots allocated so far; client[n_clients ..] is unused
  clients_free,       \* free slots, most recently freed first
  clients_used,       \* slots the pruner looks at, most recent first
  clients_mutex,      \* who holds it: NoOne or Pruner (else held in one step)
  lock,               \* lock[id]: who holds c->lock across steps
  pull_lock,          \* pull_lock[id]: the worker that holds c->pull_lock
  expunge_lock,       \* [readers, writer] of the read-write lock
  message_send_mutex, \* the worker that holds it, or NoOne
  pc, ctx,            \* pc[w] and ctx[w]: where worker w is, and its uw_context
  prune,              \* [pc, rest, c]: where the pruner is in its loop
  db,                 \* channels stored by committed transactions
  view,               \* view[p]: "unborn", "making", "open" or "gone" (history)
  home,               \* home[p]: the slot view p was given (history)
  expunged,           \* passwords whose slot was freed (history)
  owed,               \* owed[p]: messages committed for view p, without those
                      \* that did not fit into its slot's buffer (history)
  unsent,             \* transactions that committed and then sent none of
                      \* their messages (history)
  inbox,              \* inbox[p]: messages written to sockets view p opened
  txs                 \* transactions started (history; also a message's tag)

locks == <<clients_mutex, lock, pull_lock, expunge_lock, message_send_mutex>>
table == <<client, n_clients, clients_free, clients_used>>
history == <<view, home, expunged, owed, unsent, inbox, txs>>
vars == <<table, locks, pc, ctx, prune, db, history>>

Message == [view : Passes, chn : Nat, tx : 1 .. TxMax]
Channel == [cli : Ids, chn : Nat, view : Passes]

\* struct client; sock is the view whose poll waits there.
Slots == [mode : {"UNUSED", "USED"}, pass : Passes \cup {NoPass},
          sock : Passes \cup {NoSock}, msgs : Seq(Message),
          recent : BOOLEAN,        \* last_contact is not before the cutoff
          n_channels : Nat, refcount : 0 .. RefMod - 1]

Unallocated == [mode |-> "UNUSED", pass |-> NoPass, sock |-> NoSock,
                msgs |-> <<>>, recent |-> FALSE, n_channels |-> 0, refcount |-> 0]

\* The fields of a uw_context that matter here, and, as history, the channels
\* made, the messages sent to each view (sent: how many) and the outcome
\* (served: the browser will get the page and not an error).
Contexts == [kind : {"none", "plain", "page", "rpc", "pull"}, id : Int, pass : Nat,
             attached : BOOLEAN,            \* ctx->client is not NULL
             made : SUBSET Channel, sends : [Passes -> Seq(Message)], sent : Nat,
             deltas : Seq([client : Ids, msgs : Seq(Message)]),
             chn : Nat, served : BOOLEAN, tx : 0 .. TxMax]

\* A context between requests: uw_reset has run.
ResetContext == [kind |-> "none", id |-> NoId, pass |-> NoPass,
                 attached |-> FALSE, made |-> {}, sends |-> [p \in Passes |-> <<>>],
                 sent |-> 0, deltas |-> <<>>,
                 chn |-> 0, served |-> FALSE, tx |-> 0]

Init ==
  /\ client = [i \in Ids |-> Unallocated] /\ n_clients = 0
  /\ clients_free = <<>> /\ clients_used = <<>>
  /\ clients_mutex = NoOne /\ lock = [i \in Ids |-> NoOne]
  /\ pull_lock = [i \in Ids |-> NoOne]
  /\ expunge_lock = [readers |-> {}, writer |-> FALSE]
  /\ message_send_mutex = NoOne
  /\ pc = [w \in Workers |-> "idle"] /\ ctx = [w \in Workers |-> ResetContext]
  /\ prune = [pc |-> "sleep", rest |-> <<>>, c |-> NoId]
  /\ db = {}
  /\ view = [p \in Passes |-> "unborn"]
  /\ home = [p \in Passes |-> NoId] /\ expunged = {}
  /\ owed = [p \in Passes |-> <<>>] /\ unsent = {}
  /\ inbox = [p \in Passes |-> <<>>]
  /\ txs = 0
-----------------------------------------------------------------------------
(* Requests *)

Goto(w, where) == pc' = [pc EXCEPT ![w] = where]

\* What a browser may put in UrWeb-Client and UrWeb-Pass: what the page it
\* shows was served with, or what it kept from before the server restarted.
Headers ==
  Foreign \cup {[id |-> home[p], pass |-> p] : p \in {q \in Passes : view[q] = "open"}}

\* The page or RPC part of uw_request up to uw_begin, which runs the handler.
uw_transaction_arrives(w, kind, id, pass) ==
  /\ pc[w] = "idle" /\ txs < TxMax
  /\ ~expunge_lock.writer
  /\ expunge_lock' = [expunge_lock EXCEPT !.readers = @ \cup {w}]
  /\ ctx' = [ctx EXCEPT ![w] = [ResetContext EXCEPT !.kind = kind, !.id = id,
                                                  !.pass = pass, !.tx = txs + 1]]
  /\ txs' = txs + 1 /\ Goto(w, "login")
  /\ UNCHANGED <<table, clients_mutex, lock, pull_lock, message_send_mutex,
                 prune, db, view, home, expunged, owed, unsent, inbox>>

PlainArrives(w) == "plain" \in Requests /\ uw_transaction_arrives(w, "plain", NoId, NoPass)
PageArrives(w) ==
  /\ "page" \in Requests
  /\ Cardinality({v \in Workers : pc[v] = "login" /\ ctx[v].kind = "page"})
       < Cardinality({p \in Passes : view[p] = "unborn"})      \* PassMax
  /\ uw_transaction_arrives(w, "page", NoId, NoPass)
RpcArrives(w) == /\ "rpc" \in Requests
                 /\ \E h \in Headers : uw_transaction_arrives(w, "rpc", h.id, h.pass)

\* Mutant: uw_rollback and uw_commit forget release_client.
LeaveKeepsClient(w) == Goto(w, "depart")

\* The request is over, well or badly: ctx->client, if set, is released.
Leave(w) == Goto(w, IF ctx[w].attached THEN "unpull" ELSE "depart")

-----------------------------------------------------------------------------
(* uw_login *)

\* No headers and no needs_push: the handler runs for no client.
no_client(w) ==
  /\ pc[w] = "login" /\ ctx[w].kind = "plain"
  /\ Goto(w, "body")
  /\ UNCHANGED <<table, locks, ctx, prune, db, history>>

\* The request names a client: find_client looks the number up.
find_client(w) ==
  /\ pc[w] = "login" /\ ctx[w].kind = "rpc"
  /\ clients_mutex = NoOne
  /\ Goto(w, IF ctx[w].id < n_clients THEN "use" ELSE "depart")
  /\ UNCHANGED <<table, locks, ctx, prune, db, history>>

\* Mutant: the reset of the socket is forgotten.
NewSlotKeepsSock(i, pass) == [client[i] EXCEPT !.mode = "USED", !.pass = pass,
                                !.recent = TRUE, !.msgs = <<>>,
                                !.n_channels = 0, !.refcount = 0]

NewSlot(i, pass) == [client[i] EXCEPT !.mode = "USED", !.pass = pass,
                       !.sock = NoSock, !.recent = TRUE, !.msgs = <<>>,
                       !.n_channels = 0, !.refcount = 0]

\* The page needs a client: new_client takes a free slot or grows the table.
new_client(w) ==
  /\ pc[w] = "login" /\ ctx[w].kind = "page"
  /\ clients_mutex = NoOne
  /\ \E p \in {q \in Passes : view[q] = "unborn" /\ \A r \in 1 .. q - 1 : view[r] # "unborn"} :
      \E i \in Ids :
        /\ lock[i] = NoOne
        /\ \/ /\ clients_free # <<>> /\ i = Head(clients_free)
              /\ clients_free' = Tail(clients_free) /\ UNCHANGED n_clients
           \/ /\ clients_free = <<>> /\ n_clients < ClientsMax /\ i = n_clients
              /\ n_clients' = n_clients + 1 /\ UNCHANGED clients_free
        /\ client' = [client EXCEPT ![i] = NewSlot(i, p)]
        /\ clients_used' = <<i>> \o clients_used
        /\ ctx' = [ctx EXCEPT ![w].id = i, ![w].pass = p]
        /\ view' = [view EXCEPT ![p] = "making"] /\ home' = [home EXCEPT ![p] = i]
  /\ Goto(w, "use")
  /\ UNCHANGED <<locks, prune, db, expunged, owed, unsent, inbox, txs>>

NoClientLeft(w) ==
  /\ pc[w] = "login" /\ ctx[w].kind = "page"
  /\ clients_mutex = NoOne
  /\ clients_free = <<>> /\ n_clients >= ClientsMax
  /\ Goto(w, "depart")
  /\ UNCHANGED <<table, locks, ctx, prune, db, history>>

\* use_client: count the reference under c->lock ...
use_client(w) ==
  LET i == ctx[w].id IN
  /\ pc[w] = "use" /\ lock[i] = NoOne
  /\ client' = [client EXCEPT ![i].refcount = (@ + 1) % RefMod]
  /\ Goto(w, "pull")
  /\ UNCHANGED <<n_clients, clients_free, clients_used, locks, ctx, prune, db, history>>

\* Mutant: nobody waits for c->pull_lock.
PullTurnIgnored(i) == TRUE
PullTurn(i) == pull_lock[i] = NoOne

\* ... then wait for c->pull_lock; uw_login stores c in ctx->client.
pull_client(w) ==
  LET i == ctx[w].id IN
  /\ pc[w] = "pull" /\ PullTurn(i)
  /\ pull_lock' = [pull_lock EXCEPT ![i] = w]
  /\ ctx' = [ctx EXCEPT ![w].attached = TRUE]
  /\ Goto(w, IF ctx[w].kind = "rpc" THEN "check" ELSE "body")
  /\ UNCHANGED <<table, clients_mutex, lock, expunge_lock, message_send_mutex,
                 prune, db, history>>

\* Mutant: the password is not compared.
AcceptedAnyPass(c, pass) == c.mode = "USED"
Accepted(c, pass) == c.mode = "USED" /\ c.pass = pass

\* Only now are mode and password compared, without c->lock.
check_client(w) ==
  LET c == client[ctx[w].id] IN
  /\ pc[w] = "check"
  /\ IF Accepted(c, ctx[w].pass) THEN Goto(w, "body") ELSE Leave(w)
  /\ UNCHANGED <<table, locks, ctx, prune, db, history>>

-----------------------------------------------------------------------------
(* What a handler does with channels *)

\* new_channel's c->n_channels++ is a read and a write that only c->pull_lock
\* keeps together.
new_channel_read(w) ==
  /\ pc[w] = "body" /\ ctx[w].attached
  /\ client[ctx[w].id].n_channels < ChannelsMax
  /\ ctx' = [ctx EXCEPT ![w].chn = client[ctx[w].id].n_channels]
  /\ Goto(w, "channel")
  /\ UNCHANGED <<table, locks, prune, db, history>>

\* The new channel's slot and number; the handler stores it in the database.
new_channel(w) ==
  LET i == ctx[w].id IN
  /\ pc[w] = "channel"
  /\ client' = [client EXCEPT ![i].n_channels = ctx[w].chn + 1]
  /\ ctx' = [ctx EXCEPT ![w].made =
                @ \cup {[cli |-> i, chn |-> ctx[w].chn, view |-> ctx[w].pass]}]
  /\ Goto(w, "body")
  /\ UNCHANGED <<n_clients, clients_free, clients_used, locks, prune, db, history>>

\* allocate_delta and the appends of uw_Basis_send: one buffer per slot, in
\* the order in which the transaction first wrote to them.
Enqueue(deltas, cli, m) ==
  IF \E k \in 1 .. Len(deltas) : deltas[k].client = cli
  THEN [k \in 1 .. Len(deltas) |->
          IF deltas[k].client = cli THEN [deltas[k] EXCEPT !.msgs = Append(@, m)]
                                    ELSE deltas[k]]
  ELSE Append(deltas, [client |-> cli, msgs |-> <<m>>])

Queued(deltas, cli) ==
  LET k == {j \in 1 .. Len(deltas) : deltas[j].client = cli}
  IN IF k = {} THEN 0 ELSE Len(deltas[CHOOSE j \in k : TRUE].msgs)

\* A channel comes from the database or was made by this very transaction.  A
\* delta that is full makes uw_Basis_send raise an error, which Abort covers.
uw_Basis_send(w) ==
  /\ pc[w] = "body" /\ ctx[w].sent < SendsMax
  /\ \E ch \in db \cup ctx[w].made :
       /\ Queued(ctx[w].deltas, ch.cli) < MessagesMax
       /\ LET m == [view |-> ch.view, chn |-> ch.chn, tx |-> ctx[w].tx] IN
          ctx' = [ctx EXCEPT ![w].sends[ch.view] = Append(@, m),
                             ![w].sent = @ + 1,
                             ![w].deltas = Enqueue(@, ch.cli, m)]
  /\ UNCHANGED <<table, locks, pc, prune, db, history>>

\* The handler ends in any failure_kind but SUCCESS: uw_error, try_rollback.
Abort(w) ==
  /\ pc[w] = "body" /\ Leave(w)
  /\ UNCHANGED <<table, locks, ctx, prune, db, history>>

-----------------------------------------------------------------------------
(* uw_commit and uw_rollback *)

\* Mutant: message_send_mutex is not waited for.
MessageTurnIgnored == TRUE
MessageTurn == message_send_mutex = NoOne

\* The mutex is taken before the database commits, so that the order in which
\* messages go out is the order in which the transactions committed.
LockMessages(w) ==
  /\ pc[w] = "body"
  /\ IF ctx[w].deltas = <<>>
     THEN UNCHANGED message_send_mutex
     ELSE MessageTurn /\ message_send_mutex' = w
  /\ Goto(w, "commit")
  /\ UNCHANGED <<table, clients_mutex, lock, pull_lock, expunge_lock, ctx, prune,
                 db, history>>

UnlockMessages(w) ==
  message_send_mutex' = IF ctx[w].deltas = <<>> THEN message_send_mutex ELSE NoOne

\* COMMIT succeeds and so does every action that was to run after it.
db_commit(w) ==
  /\ pc[w] = "commit"
  /\ db' = db \cup ctx[w].made
  /\ owed' = [p \in Passes |-> IF p \in expunged THEN owed[p]
                                ELSE owed[p] \o ctx[w].sends[p]]
  /\ ctx' = [ctx EXCEPT ![w].served = TRUE]
  /\ Goto(w, "send")
  /\ UNCHANGED <<table, locks, prune, view, home, expunged, unsent, inbox, txs>>

\* COMMIT succeeds, and then an action that runs after it signals an error:
\* uw_commit returns without its send loop.  What the transaction wrote stays,
\* its messages are lost, and the browser is answered with an error.
db_commit_unsent(w) ==
  /\ pc[w] = "commit" /\ FinalErrors
  /\ db' = db \cup ctx[w].made
  /\ unsent' = unsent \cup {ctx[w].tx}
  /\ UnlockMessages(w) /\ Leave(w)
  /\ UNCHANGED <<table, clients_mutex, lock, pull_lock, expunge_lock, ctx, prune,
                 view, home, expunged, owed, inbox, txs>>

\* db_commit reports a failure of either kind: nothing is sent.
db_commit_fails(w) ==
  /\ pc[w] = "commit"
  /\ UnlockMessages(w) /\ Leave(w)
  /\ UNCHANGED <<table, clients_mutex, lock, pull_lock, expunge_lock, ctx, prune,
                 db, history>>

\* uw_buffer_append: all of it, or nothing.
Overflows(c, msgs) == Len(c.msgs) + Len(msgs) > MessagesMax
Buffered(c, msgs) == IF Overflows(c, msgs) THEN c.msgs ELSE c.msgs \o msgs

\* client_send: a waiting poll gets the messages and is closed; otherwise they
\* wait in the slot's buffer, or are dropped when it would overflow.
client_send(w) ==
  LET d == Head(ctx[w].deltas)
      c == client[d.client]
  IN
  /\ pc[w] = "send" /\ ctx[w].deltas # <<>>
  /\ clients_mutex = NoOne /\ lock[d.client] = NoOne
  /\ client' = [client EXCEPT ![d.client] =
       IF c.mode = "USED" /\ c.sock # NoSock THEN [c EXCEPT !.sock = NoSock]
       ELSE IF c.mode = "USED" THEN [c EXCEPT !.msgs = Buffered(c, d.msgs)]
       ELSE c]
  /\ inbox' = [p \in Passes |-> IF c.mode = "USED" /\ c.sock = p
                                 THEN inbox[p] \o d.msgs ELSE inbox[p]]
  /\ owed' = IF c.mode = "USED" /\ c.sock = NoSock /\ Overflows(c, d.msgs)
             THEN [owed EXCEPT ![c.pass] = SubSeq(@, 1, Len(@) - Len(d.msgs))]
             ELSE owed
  /\ ctx' = [ctx EXCEPT ![w].deltas = Tail(@)]
  /\ IF Len(ctx[w].deltas) > 1
     THEN UNCHANGED <<pc, message_send_mutex>>
     ELSE message_send_mutex' = NoOne /\ Leave(w)
  /\ UNCHANGED <<n_clients, clients_free, clients_used, clients_mutex, lock, pull_lock,
                 expunge_lock, prune, db, view, home, expunged, unsent, txs>>

NothingToSend(w) ==
  /\ pc[w] = "send" /\ ctx[w].deltas = <<>> /\ Leave(w)
  /\ UNCHANGED <<table, locks, ctx, prune, db, history>>

\* Mutant: a transaction that failed keeps c->pull_lock.
UnpulledIfServed(w) ==
  IF ctx[w].served THEN [pull_lock EXCEPT ![ctx[w].id] = NoOne] ELSE pull_lock
Unpulled(w) == [pull_lock EXCEPT ![ctx[w].id] = NoOne]

\* release_client, in the two steps of use_client undone.
unpull_client(w) ==
  /\ pc[w] = "unpull"
  /\ pull_lock' = Unpulled(w)
  /\ Goto(w, "unuse")
  /\ UNCHANGED <<table, clients_mutex, lock, expunge_lock, message_send_mutex, ctx,
                 prune, db, history>>

Released(n) == (n - 1) % RefMod
release_client(w) ==
  LET i == ctx[w].id IN
  /\ pc[w] = "unuse" /\ lock[i] = NoOne
  /\ client' = [client EXCEPT ![i].refcount = Released(@)]
  /\ Goto(w, "depart")
  /\ UNCHANGED <<n_clients, clients_free, clients_used, locks, ctx, prune, db, history>>

\* The answer goes out.  A page that succeeded tells its browser the new
\* client's headers; a page that failed has made a client nobody knows of.
uw_transaction_departs(w) ==
  LET p == ctx[w].pass IN
  /\ pc[w] = "depart"
  /\ expunge_lock' = [expunge_lock EXCEPT !.readers = @ \ {w}]
  /\ view' = IF ctx[w].kind = "page" /\ p # NoPass
             THEN [view EXCEPT ![p] = IF ctx[w].served THEN "open" ELSE "gone"]
             ELSE view
  /\ ctx' = [ctx EXCEPT ![w] = ResetContext]
  /\ Goto(w, "idle")
  /\ UNCHANGED <<table, clients_mutex, lock, pull_lock, message_send_mutex, prune, db,
                 home, expunged, owed, unsent, inbox, txs>>
-----------------------------------------------------------------------------
(* The long polls: uw_request's ".msgs" path, outside of expunge_lock *)

PollArrives(w, h) ==
  /\ "pull" \in Requests /\ pc[w] = "idle"
  /\ ctx' = [ctx EXCEPT ![w] = [ResetContext EXCEPT !.kind = "pull", !.id = h.id,
                                                    !.pass = h.pass]]
  /\ Goto(w, "find")
  /\ UNCHANGED <<table, locks, prune, db, history>>

\* An unknown slot is answered with chastise (reload the page).
PollFinds(w) ==
  /\ pc[w] = "find" /\ clients_mutex = NoOne
  /\ IF ctx[w].id < n_clients
     THEN Goto(w, "connect") /\ UNCHANGED ctx
     ELSE Goto(w, "idle") /\ ctx' = [ctx EXCEPT ![w] = ResetContext]
  /\ UNCHANGED <<table, locks, prune, db, history>>

\* Mutant: the poll is kept without a look at the buffer.
ConnectedUnlooked(c, p) == [c EXCEPT !.recent = TRUE, !.sock = p]

\* The slot after the poll of view p has been admitted, and what it is answered.
Connected(c, p) == [c EXCEPT !.recent = TRUE, !.msgs = <<>>,
                      !.sock = IF c.msgs = <<>> THEN p ELSE NoSock]
Answer(c) == c.msgs

\* The rest is one critical section of c->lock: a free slot or a wrong password
\* is chastised, a poll already waiting is closed, buffered messages answer
\* this one at once, and otherwise it is kept until client_send.
uw_client_connect(w) ==
  LET i == ctx[w].id
      c == client[i]
      p == ctx[w].pass
      known == Accepted(c, p)
  IN
  /\ pc[w] = "connect" /\ lock[i] = NoOne
  /\ client' = IF known THEN [client EXCEPT ![i] = Connected(c, p)] ELSE client
  /\ inbox' = IF known THEN [inbox EXCEPT ![p] = @ \o Answer(c)] ELSE inbox
  /\ ctx' = [ctx EXCEPT ![w] = ResetContext]
  /\ Goto(w, "idle")
  /\ UNCHANGED <<n_clients, clients_free, clients_used, locks, prune, db, view, home,
                 expunged, owed, unsent, txs>>

-----------------------------------------------------------------------------
(* uw_prune_clients *)

\* Mutant: transactions do not hold the lock for reading.
NoTransactionIgnored == TRUE
NoTransaction == expunge_lock.readers = {} /\ ~expunge_lock.writer

\* The write lock shuts every transaction out; clients_mutex keeps polls and
\* find_client waiting.
PrunerStarts ==
  /\ prune.pc = "sleep"
  /\ NoTransaction
  /\ expunge_lock' = [expunge_lock EXCEPT !.writer = TRUE]
  /\ clients_mutex = NoOne /\ clients_mutex' = Pruner
  /\ prune' = [pc |-> "scan", rest |-> clients_used, c |-> NoId]
  /\ UNCHANGED <<table, lock, pull_lock, message_send_mutex, pc, ctx, db, history>>

Without(s, i) ==
  LET k == CHOOSE j \in 1 .. Len(s) : s[j] = i
  IN [j \in 1 .. Len(s) - 1 |-> IF j < k THEN s[j] ELSE s[j + 1]]

\* The next used client: one that is stale and unreferenced is unlinked and
\* stays locked while its expunge transaction runs.
PrunerScans ==
  LET i == Head(prune.rest)
      rest == Tail(prune.rest)
      expunging == ~client[i].recent /\ client[i].refcount = 0
  IN
  /\ prune.pc = "scan" /\ prune.rest # <<>> /\ lock[i] = NoOne
  /\ IF expunging
     THEN /\ lock' = [lock EXCEPT ![i] = Pruner]
          /\ clients_used' = Without(clients_used, i)
          /\ prune' = [pc |-> "expunge", rest |-> rest, c |-> i]
     ELSE /\ prune' = [prune EXCEPT !.rest = rest]
          /\ UNCHANGED <<lock, clients_used>>
  /\ UNCHANGED <<client, n_clients, clients_free, clients_mutex, pull_lock, expunge_lock,
                 message_send_mutex, pc, ctx, db, history>>

UnlockClient == /\ lock' = [lock EXCEPT ![prune.c] = NoOne]
                /\ prune' = [prune EXCEPT !.pc = "scan", !.c = NoId]

\* COMMIT reports a serialization failure: uw_do_expunge asks to be run again.
uw_expunge_again ==
  /\ prune.pc = "expunge" /\ "serialization" \in ExpungeResults
  /\ UNCHANGED vars

\* uw_do_expunge returns: free_client.  It returns as well when COMMIT failed
\* for good, for uw_commit then returns 0 and only sets the error message.
free_client(result) ==
  LET i == prune.c IN
  /\ prune.pc = "expunge" /\ result \in ExpungeResults
  /\ client' = [client EXCEPT ![i].mode = "UNUSED", ![i].pass = NoPass]
  /\ clients_free' = <<i>> \o clients_free
  /\ db' = IF result = "ok" /\ ExpungerDeletes THEN {ch \in db : ch.cli # i} ELSE db
  /\ expunged' = expunged \cup {client[i].pass}
  /\ UnlockClient
  /\ UNCHANGED <<n_clients, clients_used, clients_mutex, pull_lock, expunge_lock,
                 message_send_mutex, pc, ctx, view, home, owed, unsent, inbox, txs>>

uw_expunge_ok == free_client("ok")
uw_expunge_commit_error == free_client("commit_error")

\* The expunger raised an error: "Expunge blocked by error".
uw_expunge_fatal ==
  /\ prune.pc = "expunge" /\ "fatal" \in ExpungeResults
  /\ UnlockClient
  /\ UNCHANGED <<table, clients_mutex, pull_lock, expunge_lock, message_send_mutex,
                 pc, ctx, db, history>>

PrunerEnds ==
  /\ prune.pc = "scan" /\ prune.rest = <<>>
  /\ clients_mutex' = NoOne
  /\ expunge_lock' = [expunge_lock EXCEPT !.writer = FALSE]
  /\ prune' = [prune EXCEPT !.pc = "sleep"]
  /\ UNCHANGED <<table, lock, pull_lock, message_send_mutex, pc, ctx, db, history>>

-----------------------------------------------------------------------------
(* The world outside *)

\* app->timeout seconds pass without a poll for slot i.
TimeoutPasses(i) ==
  /\ client[i].recent
  /\ client' = [client EXCEPT ![i].recent = FALSE]
  /\ UNCHANGED <<n_clients, clients_free, clients_used, locks, pc, ctx, prune, db, history>>

\* The user surfs away: no more requests from that page.
ViewLeaves(p) ==
  /\ view[p] = "open"
  /\ view' = [view EXCEPT ![p] = "gone"]
  /\ UNCHANGED <<table, locks, pc, ctx, prune, db, home, expunged, owed, unsent,
                 inbox, txs>>

-----------------------------------------------------------------------------
Login(w) == \/ no_client(w) \/ find_client(w) \/ new_client(w) \/ NoClientLeft(w)
            \/ use_client(w) \/ pull_client(w) \/ check_client(w)
Finish(w) == \/ LockMessages(w) \/ db_commit(w) \/ db_commit_unsent(w)
             \/ db_commit_fails(w) \/ client_send(w) \/ NothingToSend(w)
             \/ unpull_client(w) \/ release_client(w) \/ uw_transaction_departs(w)
Body(w) == new_channel_read(w) \/ new_channel(w) \/ uw_Basis_send(w) \/ Abort(w)
Poll(w) == PollFinds(w) \/ uw_client_connect(w)
Arrival(w) == \/ PlainArrives(w) \/ PageArrives(w) \/ RpcArrives(w)
              \/ \E h \in Headers : PollArrives(w, h)

uw_expunge == \/ uw_expunge_again \/ uw_expunge_ok
              \/ uw_expunge_commit_error \/ uw_expunge_fatal
uw_prune_clients == PrunerStarts \/ PrunerScans \/ uw_expunge \/ PrunerEnds

Step(w) == Login(w) \/ Body(w) \/ Finish(w) \/ Poll(w)

Next == \/ \E w \in Workers : Step(w) \/ Arrival(w)
        \/ uw_prune_clients
        \/ \E i \in Ids : TimeoutPasses(i)
        \/ \E p \in Passes : ViewLeaves(p)

Spec == Init /\ [][Next]_vars

\* An open page polls again and again (lib/js/urweb.js, listener).
ViewPolls(p) == \E w \in Workers, h \in Headers : h.pass = p /\ PollArrives(w, h)

\* Threads run, and get a lock that is free again and again (the pruner sleeps
\* five seconds between two sweeps); the database does not refuse an expunge for
\* ever, time passes and pages that are open poll.  Nothing makes any other
\* request arrive, and nothing makes a handler commit rather than abort.
Fairness ==
  /\ \A w \in Workers : SF_vars(Step(w))
  /\ WF_vars(uw_prune_clients) /\ SF_vars(uw_expunge_ok \/ uw_expunge_commit_error)
  /\ \A i \in Ids : WF_vars(TimeoutPasses(i))
  /\ \A p \in Passes : SF_vars(ViewPolls(p))

FairSpec == Spec /\ Fairness
-----------------------------------------------------------------------------
(* Properties *)

WorkerPcs == {"idle", "login", "use", "pull", "check", "body", "channel", "commit",
              "send", "unpull", "unuse", "depart", "find", "connect"}

\* Every variable has its type.
TypeOK ==
  /\ client \in [Ids -> Slots]
  /\ n_clients \in 0 .. ClientsMax
  /\ clients_free \in Seq(Ids) /\ clients_used \in Seq(Ids)
  /\ clients_mutex \in {NoOne, Pruner} /\ lock \in [Ids -> {NoOne, Pruner}]
  /\ pull_lock \in [Ids -> Workers \cup {NoOne}]
  /\ expunge_lock \in [readers : SUBSET Workers, writer : BOOLEAN]
  /\ message_send_mutex \in Workers \cup {NoOne}
  /\ pc \in [Workers -> WorkerPcs]
  /\ ctx \in [Workers -> Contexts]
  /\ prune \in [pc : {"sleep", "scan", "expunge"}, rest : Seq(Ids), c : Ids \cup {NoId}]
  /\ db \subseteq Channel
  /\ view \in [Passes -> {"unborn", "making", "open", "gone"}]
  /\ home \in [Passes -> Ids \cup {NoId}] /\ expunged \subseteq Passes
  /\ owed \in [Passes -> Seq(Message)] /\ inbox \in [Passes -> Seq(Message)]
  /\ unsent \subseteq 1 .. TxMax
  /\ txs \in 0 .. TxMax

Live(p) == view[p] # "unborn" /\ p \notin expunged
Elements(s) == {s[k] : k \in 1 .. Len(s)}

\* The messages for p that a committed transaction has yet to hand over.
Pending(p) ==
  LET waiting == {w \in Workers : pc[w] = "send"
                    /\ \E d \in Elements(ctx[w].deltas) : d.client = home[p]}
  IN IF waiting = {} THEN <<>>
     ELSE LET ds == ctx[CHOOSE w \in waiting : TRUE].deltas
          IN ds[CHOOSE k \in 1 .. Len(ds) : ds[k].client = home[p]].msgs

\* What a live view has been sent, what waits in its slot and what the
\* transaction now in its send loop still holds are together exactly what
\* transactions committed for it and did not overflow its buffer, in commit
\* order: nothing torn, repeated, reordered or delivered to somebody else
\* (client_send, uw_client_connect, message_send_mutex, new_client's resets).  A
\* transaction that skipped its send loop has sent nothing to anybody.
StreamExact ==
  \A p \in Passes : Live(p) =>
    /\ inbox[p] \o client[home[p]].msgs \o Pending(p) = owed[p]
    /\ \A m \in Elements(owed[p]) : m.tx \notin unsent

\* A transaction whose rows are stored hands its messages over, "as an atomic
\* unit" (comment in uw_commit).  It does not hold of the code: db_commit_unsent.
CommittedIsSent ==
  [][\A w \in Workers :
       (/\ pc[w] = "commit" /\ ctx[w].deltas # <<>>
        /\ ctx[w].made \subseteq db' /\ ~(ctx[w].made \subseteq db))
       => pc'[w] = "send"]_vars

\* No browser is ever given a message of a channel that is not its own, even
\* after its slot number has been given to another view.
NoMisdelivery == \A p \in Passes : \A m \in Elements(inbox[p]) : m.view = p

\* The poll that a slot keeps is one of its present owner, and nobody is left
\* waiting while messages lie in the buffer: a poll and a send that meet, in either
\* order and also across a reuse of the slot, leave no message behind.
NobodyWaitsInVain ==
  \A i \in Ids : client[i].mode = "USED" /\ client[i].sock # NoSock =>
    client[i].sock = client[i].pass /\ client[i].msgs = <<>>

\* The database holds no channel of a view whose slot was freed or reused: what
\* the expunge transaction and expunge_lock are for.
NoStaleChannels ==
  \A ch \in db : client[ch.cli].mode = "USED" /\ client[ch.cli].pass = ch.view

\* uw_login compares mode and password once, without c->lock; they stay true
\* until the transaction has delivered its messages.
SessionStable ==
  \A w \in Workers : pc[w] \in {"body", "channel", "commit", "send"} /\ ctx[w].attached
    => client[ctx[w].id].mode = "USED" /\ client[ctx[w].id].pass = ctx[w].pass

\* A slot is on one list or none: free slots are UNUSED, the pruner's list is
\* USED, and an allocated slot on neither is the one the pruner unlinked and
\* works on, or one whose expunge transaction failed; it is never an UNUSED one.
ListsPartition ==
  LET free == Elements(clients_free)
      used == Elements(clients_used)
  IN /\ Len(clients_free) = Cardinality(free) /\ Len(clients_used) = Cardinality(used)
     /\ free \cap used = {}
     /\ free \cup used \subseteq 0 .. n_clients - 1
     /\ \A i \in free : client[i].mode = "UNUSED"
     /\ \A i \in (0 .. n_clients - 1) \ free : client[i].mode = "USED"
     /\ \A i \in free \cup used : lock[i] = NoOne

\* The transactions that hold a reference to slot i, and that refcount is their
\* number.
Holding == {"pull", "check", "body", "channel", "commit", "send", "unpull", "unuse"}
Holds(w, i) == ctx[w].id = i /\ pc[w] \in Holding
Holders(i) == {w \in Workers : Holds(w, i)}
Counted(i) == client[i].refcount = Cardinality(Holders(i))

\* new_client takes slot i, and sets its refcount to zero, while somebody who
\* named the slot's former owner still holds a reference.
TakenHeld(i) ==
  client[i].mode = "UNUSED" /\ client'[i].mode = "USED" /\ Holders(i) # {}

\* refcount stays the number of references through whatever log-ins, admitted or
\* refused, and endings of transactions do to it, also of RPCs, which count one
\* before they look whose slot it is.  Only new_client can upset it, and only
\* on a slot that is still held (use_client, release_client, uw_rollback).
ReferencesKept ==
  [][\A i \in Ids : Counted(i) /\ ~TakenHeld(i) => Counted(i)']_vars

\* Two channels of one client never get the same number, though n_channels++
\* runs under no lock but the client's pull_lock.
ChannelsFresh ==
  [][\A w \in Workers : pc[w] = "channel" /\ pc'[w] = "body" =>
       /\ ctx'[w].made # ctx[w].made
       /\ \A ch \in ctx'[w].made \ ctx[w].made :
            ch \notin db \cup UNION {ctx[v].made : v \in Workers}]_vars

\* The table, its buffers, sockets and locks implement mailboxes.
Mail == INSTANCE Mailboxes WITH
  Views <- Passes, Messages <- Message,
  status <- [p \in Passes |-> IF view[p] = "unborn" THEN "unborn"
                              ELSE IF p \in expunged THEN "retired" ELSE "live"],
  sent <- owed, received <- inbox, Transactions <- 1 .. TxMax
MailSpec == Mail!Spec

\* Every request is answered: the locks never make threads wait for each other
\* in a circle, and the pruner gives way.
RequestsFinish == \A w \in Workers : pc[w] # "idle" ~> pc[w] = "idle"

\* A client whose page was never served, or whose user surfed away, is
\* eventually passed to the expunger.
GoneReclaimed == \A p \in Passes : view[p] = "gone" ~> p \in expunged
=============================================================================
