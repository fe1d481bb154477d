--------------------------- MODULE ClientsProofs ---------------------------
(***************************************************************************)
(* Proofs about Clients.tla, for any number of threads, slots, views,      *)
(* channels and messages: first the inductive invariant of the table and   *)
(* the locks and what follows from it, then the properties of channels,    *)
(* lists and messages and the refinement, which rest on it.                *)
(***************************************************************************)
EXTENDS Clients, SequenceTheorems, FiniteSetTheorems, TLAPS
-----------------------------------------------------------------------------
(* The inductive invariant *)

Distinct(s) == \A j, k \in 1 .. Len(s) : s[j] = s[k] => j = k
On(s, i) == \E k \in 1 .. Len(s) : s[k] = i

\* The program counters between uw_transaction_arrives and its departure.
Inside == {"login", "use", "pull", "check", "body", "channel", "commit", "send",
           "unpull", "unuse", "depart"}

\* Transactions hold expunge_lock for reading, a sweep of the pruner for writing.
LockInv ==
  /\ \A w \in Workers : pc[w] \in Inside => w \in expunge_lock.readers
  /\ expunge_lock.writer => expunge_lock.readers = {}
  /\ prune.pc # "sleep" => expunge_lock.writer

\* What a context is known to hold at each point.
ContextOf(w) ==
  /\ pc[w] \in {"find", "connect"} \/ (pc[w] = "login" /\ ctx[w].kind = "rpc")
       => ctx[w].id \in Nat
  /\ pc[w] \in {"use", "pull", "check", "channel", "unpull", "unuse", "connect"}
       \/ ctx[w].attached => ctx[w].id \in Ids
  /\ pc[w] \in Inside => ctx[w].tx \in 1 .. TxMax
  /\ pc[w] = "login" => ~ctx[w].attached
  /\ pc[w] \in {"check", "channel"} => ctx[w].attached
  /\ pc[w] \in Inside /\ ctx[w].kind = "page" /\ ctx[w].pass # NoPass
       => ctx[w].pass \in Passes /\ view[ctx[w].pass] # "unborn"
ContextInv == \A w \in Workers : ContextOf(w)

\* The table and its two lists.
TableInv ==
  /\ \A i \in Ids : client[i].mode = "USED" => client[i].pass \in Passes
  /\ \A i \in Ids : i >= n_clients => client[i].mode = "UNUSED"
  /\ Distinct(clients_free) /\ Distinct(clients_used)
  /\ \A k \in 1 .. Len(clients_free) : /\ client[clients_free[k]].mode = "UNUSED"
                                       /\ clients_free[k] < n_clients
  /\ \A k \in 1 .. Len(clients_used) : client[clients_used[k]].mode = "USED"
  /\ \A p \in Passes : view[p] # "unborn" => home[p] \in Ids

\* The pruner walks down clients_used; what it expunges is off that list.
PruneInv ==
  /\ Distinct(prune.rest)
  /\ \A k \in 1 .. Len(prune.rest) : On(clients_used, prune.rest[k])
  /\ prune.pc = "expunge" => /\ prune.c \in Ids /\ client[prune.c].mode = "USED"
                             /\ ~On(clients_used, prune.c)

\* A transaction whose client was made for it, or has been checked, has it.
Owns(w) == client[ctx[w].id].mode = "USED" /\ client[ctx[w].id].pass = ctx[w].pass
OwnerOf(w) ==
  /\ pc[w] \in {"use", "pull"} /\ ctx[w].kind # "rpc" => Owns(w)
  /\ pc[w] \in {"body", "channel", "commit", "send"} /\ ctx[w].attached => Owns(w)
OwnerInv == \A w \in Workers : OwnerOf(w)

IInv == TypeOK /\ LockInv /\ ContextInv /\ TableInv /\ PruneInv /\ OwnerInv
-----------------------------------------------------------------------------
(* The records of a slot and of a context, field by field *)

Sendings == Seq([client : Ids, msgs : Seq(Message)])

LEMMA SlotFields ==
  ASSUME NEW c \in Slots, NEW p \in Passes \cup {NoPass}, NEW m \in Seq(Message),
         NEW s \in Passes \cup {NoSock}, NEW n \in Nat, NEW r \in 0 .. RefMod - 1,
         NEW mode \in {"UNUSED", "USED"}, NEW b \in BOOLEAN
  PROVE  /\ [c EXCEPT !.mode = mode, !.pass = p, !.sock = s, !.recent = b,
                      !.msgs = m, !.n_channels = n, !.refcount = r] \in Slots
         /\ [c EXCEPT !.mode = mode, !.pass = p] \in Slots
         /\ [c EXCEPT !.recent = b, !.msgs = m, !.sock = s] \in Slots
         /\ [c EXCEPT !.recent = b] \in Slots
         /\ [c EXCEPT !.sock = s] \in Slots
         /\ [c EXCEPT !.msgs = m] \in Slots
         /\ [c EXCEPT !.n_channels = n] \in Slots
         /\ [c EXCEPT !.refcount = r] \in Slots
  BY DEF Slots

LEMMA ContextFields ==
  ASSUME NEW c \in Contexts, NEW kind \in {"none", "plain", "page", "rpc", "pull"},
         NEW i \in Int, NEW p \in Nat, NEW b \in BOOLEAN, NEW made \in SUBSET Channel,
         NEW sends \in [Passes -> Seq(Message)], NEW n \in Nat, NEW ds \in Sendings,
         NEW t \in 0 .. TxMax
  PROVE  /\ [c EXCEPT !.kind = kind, !.id = i, !.pass = p, !.tx = t] \in Contexts
         /\ [c EXCEPT !.kind = kind, !.id = i, !.pass = p] \in Contexts
         /\ [c EXCEPT !.id = i, !.pass = p] \in Contexts
         /\ [c EXCEPT !.attached = b] \in Contexts
         /\ [c EXCEPT !.served = b] \in Contexts
         /\ [c EXCEPT !.made = made] \in Contexts
         /\ [c EXCEPT !.chn = n] \in Contexts
         /\ [c EXCEPT !.sends = sends, !.sent = n, !.deltas = ds] \in Contexts
         /\ [c EXCEPT !.deltas = ds] \in Contexts
  BY DEF Contexts, Sendings

LEMMA ResetContextType == ResetContext \in Contexts
<1>1. <<>> \in Seq(Message) /\ <<>> \in Sendings
  BY EmptySeq DEF Sendings
<1>2. 0 \in 0 .. TxMax
  BY BoundsAssumption
<1> QED BY <1>1, <1>2 DEF ResetContext, Contexts, Sendings, NoId, NoPass

LEMMA ZeroCount == 0 \in 0 .. RefMod - 1 /\ \A n \in 0 .. RefMod - 1 :
                       (n + 1) % RefMod \in 0 .. RefMod - 1 /\ (n - 1) % RefMod \in 0 .. RefMod - 1
  BY RefModAssumption
-----------------------------------------------------------------------------
(* Type correctness *)

USE DEF table, locks, history

LEMMA LoginType == ASSUME TypeOK, ContextInv, NEW w \in Workers, Login(w) PROVE TypeOK'
<1> DEFINE i == ctx[w].id
<1>1. client \in [Ids -> Slots] /\ ctx \in [Workers -> Contexts]
  BY DEF TypeOK
<1>2. CASE no_client(w) \/ find_client(w) \/ NoClientLeft(w)
  BY <1>2 DEF no_client, find_client, NoClientLeft, Goto, TypeOK, WorkerPcs
<1>3. CASE check_client(w)
  BY <1>3 DEF check_client, Leave, Goto, TypeOK, WorkerPcs
<1>4. CASE new_client(w)
  <2>1. PICK p \in Passes, j \in Ids :
          /\ \/ clients_free # <<>> /\ j = Head(clients_free)
                /\ clients_free' = Tail(clients_free) /\ UNCHANGED n_clients
             \/ clients_free = <<>> /\ n_clients < ClientsMax /\ j = n_clients
                /\ n_clients' = n_clients + 1 /\ UNCHANGED clients_free
          /\ client' = [client EXCEPT ![j] = NewSlot(j, p)]
          /\ clients_used' = <<j>> \o clients_used
          /\ ctx' = [ctx EXCEPT ![w].id = j, ![w].pass = p]
          /\ view' = [view EXCEPT ![p] = "making"] /\ home' = [home EXCEPT ![p] = j]
    BY <1>4, Zenon DEF new_client
  <2>2. n_clients' \in 0 .. ClientsMax
    BY <2>1, ClientsMaxAssumption DEF TypeOK
  <2>3. clients_free' \in Seq(Ids) /\ clients_used' \in Seq(Ids)
    <3>1. clients_free \in Seq(Ids) /\ clients_used \in Seq(Ids)
      BY DEF TypeOK
    <3>2. <<j>> \o clients_used \in Seq(Ids)
      BY <3>1
    <3>3. clients_free # <<>> => Tail(clients_free) \in Seq(Ids)
      BY <3>1
    <3> QED BY <3>1, <3>2, <3>3, <2>1
  <2>4. client' \in [Ids -> Slots]
    <3>1. NewSlot(j, p) \in Slots
      <4> DEFINE c == client[j]
      <4>1. c \in Slots /\ <<>> \in Seq(Message)
        BY <1>1, EmptySeq, SMTT(40)
      <4> HIDE DEF c
      <4>2. [c EXCEPT !.mode = "USED", !.pass = p, !.sock = NoSock, !.recent = TRUE,
                      !.msgs = <<>>, !.n_channels = 0, !.refcount = 0] \in Slots
        BY <4>1, ZeroCount, SlotFields, ZenonT(60)
      <4> QED BY <4>2 DEF NewSlot, c
    <3> QED BY <3>1, <2>1, <1>1
  <2>5. ctx' \in [Workers -> Contexts]
    <3>1. [ctx[w] EXCEPT !.id = j, !.pass = p] \in Contexts
      <4>1. ctx[w] \in Contexts /\ j \in Int /\ p \in Nat
        BY <1>1 DEF Passes, Ids
      <4> QED BY <4>1 DEF Contexts
    <3> QED BY <3>1, <2>1, <1>1
  <2>6. /\ view' \in [Passes -> {"unborn", "making", "open", "gone"}]
        /\ home' \in [Passes -> Ids \cup {NoId}]
    BY <2>1 DEF TypeOK
  <2> QED BY <1>4, <2>2, <2>3, <2>4, <2>5, <2>6 DEF new_client, Goto, TypeOK, WorkerPcs
<1>5. CASE use_client(w)
  <2>1. i \in Ids
    BY <1>5 DEF use_client, ContextInv, ContextOf
  <2>2. [client[i] EXCEPT !.refcount = (@ + 1) % RefMod] \in Slots
    BY <1>1, <2>1, ZeroCount, ZenonT(60) DEF Slots
  <2>3. client' \in [Ids -> Slots]
    BY <1>5, <1>1, <2>1, <2>2 DEF use_client
  <2> QED BY <1>5, <2>3 DEF use_client, Goto, TypeOK, WorkerPcs
<1>6. CASE pull_client(w)
  <2>1. ctx' \in [Workers -> Contexts]
    <3>1. [ctx[w] EXCEPT !.attached = TRUE] \in Contexts
      BY <1>1 DEF Contexts
    <3>2. ctx' = [ctx EXCEPT ![w] = [ctx[w] EXCEPT !.attached = TRUE]]
      BY <1>6 DEF pull_client
    <3> QED BY <1>1, <3>1, <3>2
  <2>2. pull_lock' \in [Ids -> Workers \cup {NoOne}]
    BY <1>6 DEF pull_client, TypeOK
  <2> QED BY <1>6, <2>1, <2>2 DEF pull_client, Goto, TypeOK, WorkerPcs
<1> QED BY <1>2, <1>3, <1>4, <1>5, <1>6 DEF Login

LEMMA HeaderType == ASSUME TypeOK, TableInv, NEW h \in Headers PROVE h.id \in Nat /\ h.pass \in Nat
<1>1. CASE h \in Foreign
  BY <1>1, EnvironmentAssumption
<1>2. CASE h \in {[id |-> home[p], pass |-> p] : p \in {q \in Passes : view[q] = "open"}}
  BY <1>2 DEF TableInv, Passes, Ids
<1> QED BY <1>1, <1>2 DEF Headers

LEMMA ArrivesType ==
  ASSUME TypeOK, NEW w \in Workers, NEW kind \in {"plain", "page", "rpc"},
         NEW id \in Int, NEW pass \in Nat, uw_transaction_arrives(w, kind, id, pass)
  PROVE  TypeOK'
<1>1. txs + 1 \in 0 .. TxMax /\ ctx \in [Workers -> Contexts]
  BY BoundsAssumption DEF uw_transaction_arrives, TypeOK
<1>2. [ResetContext EXCEPT !.kind = kind, !.id = id, !.pass = pass, !.tx = txs + 1] \in Contexts
  BY <1>1, ResetContextType DEF Contexts
<1>3. ctx' \in [Workers -> Contexts]
  BY <1>1, <1>2 DEF uw_transaction_arrives
<1>4. txs' \in 0 .. TxMax /\ expunge_lock' \in [readers : SUBSET Workers, writer : BOOLEAN]
  BY <1>1 DEF uw_transaction_arrives, TypeOK
<1> QED BY <1>3, <1>4 DEF uw_transaction_arrives, Goto, TypeOK, WorkerPcs

LEMMA ArrivalType ==
  ASSUME TypeOK, TableInv, NEW w \in Workers, Arrival(w) PROVE TypeOK'
<1>1. CASE PlainArrives(w)
  BY <1>1, ArrivesType DEF PlainArrives, NoId, NoPass
<1>2. CASE PageArrives(w)
  BY <1>2, ArrivesType DEF PageArrives, NoId, NoPass
<1>3. CASE RpcArrives(w)
  BY <1>3, ArrivesType, HeaderType DEF RpcArrives
<1>4. ASSUME NEW h \in Headers, PollArrives(w, h) PROVE TypeOK'
  <2>1. h.id \in Int /\ h.pass \in Nat
    BY HeaderType
  <2>2. [ResetContext EXCEPT !.kind = "pull", !.id = h.id, !.pass = h.pass] \in Contexts
    BY <2>1, ResetContextType DEF Contexts
  <2>3. ctx' \in [Workers -> Contexts]
    BY <1>4, <2>2 DEF PollArrives, TypeOK
  <2> QED BY <1>4, <2>3 DEF PollArrives, Goto, TypeOK, WorkerPcs
<1> QED BY <1>1, <1>2, <1>3, <1>4 DEF Arrival

\* allocate_delta keeps the list of deltas well formed.
LEMMA EnqueueType ==
  ASSUME NEW ds \in Sendings, NEW cli \in Ids, NEW m \in Message
  PROVE  Enqueue(ds, cli, m) \in Sendings
<1> DEFINE e(k) == IF ds[k].client = cli THEN [ds[k] EXCEPT !.msgs = Append(@, m)] ELSE ds[k]
<1>1. Len(ds) \in Nat /\ \A k \in 1 .. Len(ds) : ds[k] \in [client : Ids, msgs : Seq(Message)]
  BY LenProperties, ElementOfSeq DEF Sendings
<1>2. \A k \in 1 .. Len(ds) : e(k) \in [client : Ids, msgs : Seq(Message)]
  <2> TAKE k \in 1 .. Len(ds)
  <2>1. ds[k].msgs \in Seq(Message)
    BY <1>1
  <2>2. Append(ds[k].msgs, m) \in Seq(Message)
    BY <2>1
  <2> QED BY <1>1, <2>2
<1>3. [k \in 1 .. Len(ds) |-> e(k)] \in Sendings
  <2>1. [k \in 1 .. Len(ds) |-> e(k)] \in [1 .. Len(ds) -> [client : Ids, msgs : Seq(Message)]]
    BY <1>2
  <2> HIDE DEF e
  <2> QED BY <1>1, <2>1, SeqDef DEF Sendings
<1>4. Append(ds, [client |-> cli, msgs |-> <<m>>]) \in Sendings
  <2>1. [client |-> cli, msgs |-> <<m>>] \in [client : Ids, msgs : Seq(Message)]
    OBVIOUS
  <2> QED BY <2>1 DEF Sendings
<1> QED BY <1>3, <1>4 DEF Enqueue

LEMMA BodyType ==
  ASSUME TypeOK, ContextInv, TableInv, OwnerInv, NEW w \in Workers, Body(w) PROVE TypeOK'
<1> DEFINE i == ctx[w].id
<1>1. client \in [Ids -> Slots] /\ ctx \in [Workers -> Contexts] /\ ctx[w] \in Contexts
  BY DEF TypeOK
<1>2. CASE Abort(w)
  BY <1>2 DEF Abort, Leave, Goto, TypeOK, WorkerPcs
<1>3. CASE new_channel_read(w)
  <2>1. i \in Ids
    BY <1>3 DEF new_channel_read, ContextInv, ContextOf
  <2>2. client[i].n_channels \in Nat
    BY <1>1, <2>1 DEF Slots
  <2>3. [ctx[w] EXCEPT !.chn = client[i].n_channels] \in Contexts
    BY <1>1, <2>2 DEF Contexts
  <2>4. ctx' \in [Workers -> Contexts]
    BY <1>1, <1>3, <2>3 DEF new_channel_read
  <2> QED BY <1>3, <2>4 DEF new_channel_read, Goto, TypeOK, WorkerPcs
<1>4. CASE new_channel(w)
  <2>1. i \in Ids /\ ctx[w].pass \in Passes /\ ctx[w].chn \in Nat
    BY <1>1, <1>4 DEF new_channel, ContextInv, ContextOf, OwnerInv, OwnerOf, Owns, TableInv, Contexts
  <2> DEFINE ch == [cli |-> i, chn |-> ctx[w].chn, view |-> ctx[w].pass]
  <2>2. ctx[w].made \cup {ch} \in SUBSET Channel
    BY <1>1, <2>1 DEF Contexts, Channel
  <2>3. [ctx[w] EXCEPT !.made = @ \cup {ch}] \in Contexts
    BY <1>1, <2>2 DEF Contexts
  <2>4. ctx' \in [Workers -> Contexts]
    BY <1>1, <1>4, <2>3 DEF new_channel
  <2>5. [client[i] EXCEPT !.n_channels = ctx[w].chn + 1] \in Slots
    <3>1. client[i] \in Slots /\ ctx[w].chn + 1 \in Nat
      BY <1>1, <2>1
    <3> QED BY <3>1 DEF Slots
  <2>6. client' \in [Ids -> Slots]
    BY <1>1, <1>4, <2>1, <2>5 DEF new_channel
  <2> QED BY <1>4, <2>4, <2>6 DEF new_channel, Goto, TypeOK, WorkerPcs
<1>5. CASE uw_Basis_send(w)
  <2>1. PICK ch \in db \cup ctx[w].made :
          LET m == [view |-> ch.view, chn |-> ch.chn, tx |-> ctx[w].tx] IN
          ctx' = [ctx EXCEPT ![w].sends[ch.view] = Append(@, m),
                             ![w].sent = @ + 1,
                             ![w].deltas = Enqueue(@, ch.cli, m)]
    BY <1>5, ZenonT(40) DEF uw_Basis_send
  <2> DEFINE m == [view |-> ch.view, chn |-> ch.chn, tx |-> ctx[w].tx]
             sends == [ctx[w].sends EXCEPT ![ch.view] = Append(@, m)]
             deltas == Enqueue(ctx[w].deltas, ch.cli, m)
  <2>2. ch \in Channel
    BY <1>1 DEF TypeOK, Contexts
  <2>3. m \in Message
    BY <1>5, <2>2 DEF uw_Basis_send, ContextInv, ContextOf, Inside, Channel, Message
  <2>4. sends \in [Passes -> Seq(Message)]
    <3>1. ctx[w].sends \in [Passes -> Seq(Message)] /\ ch.view \in Passes
      BY <1>1, <2>2 DEF Contexts, Channel
    <3>2. Append(ctx[w].sends[ch.view], m) \in Seq(Message)
      BY <2>3, <3>1
    <3> QED BY <3>1, <3>2
  <2>5. deltas \in Sendings
    BY <1>1, <2>2, <2>3, EnqueueType DEF Contexts, Sendings, Channel
  <2> HIDE DEF m, sends, deltas
  <2>6. ctx[w].sent + 1 \in Nat
    BY <1>1 DEF Contexts
  <2>7. [ctx[w] EXCEPT !.sends = sends, !.sent = ctx[w].sent + 1, !.deltas = deltas] \in Contexts
    BY <1>1, <2>4, <2>5, <2>6 DEF Contexts, Sendings
  <2>8. ctx' = [ctx EXCEPT ![w] = [ctx[w] EXCEPT !.sends = sends, !.sent = ctx[w].sent + 1,
                                                 !.deltas = deltas]]
    BY <1>1, <2>1 DEF m, sends, deltas
  <2>9. ctx' \in [Workers -> Contexts]
    BY <1>1, <2>7, <2>8
  <2> QED BY <1>5, <2>9, SMTT(40) DEF uw_Basis_send, TypeOK
<1> QED BY <1>2, <1>3, <1>4, <1>5 DEF Body

LEMMA CommitType ==
  ASSUME TypeOK, ContextInv, NEW w \in Workers,
         LockMessages(w) \/ db_commit(w) \/ db_commit_unsent(w) \/ db_commit_fails(w)
  PROVE  TypeOK'
<1>1. ctx \in [Workers -> Contexts] /\ ctx[w] \in Contexts
  BY DEF TypeOK
<1>2. CASE LockMessages(w)
  BY <1>2 DEF LockMessages, Goto, TypeOK, WorkerPcs
<1>3. CASE db_commit(w)
  <2>1. db' \subseteq Channel
    BY <1>1, <1>3 DEF db_commit, TypeOK, Contexts
  <2>2. owed' \in [Passes -> Seq(Message)]
    <3>1. owed \in [Passes -> Seq(Message)] /\ ctx[w].sends \in [Passes -> Seq(Message)]
      BY <1>1 DEF TypeOK, Contexts
    <3>2. \A p \in Passes : owed[p] \o ctx[w].sends[p] \in Seq(Message)
      BY <3>1
    <3> QED BY <1>3, <3>1, <3>2 DEF db_commit
  <2>3. [ctx[w] EXCEPT !.served = TRUE] \in Contexts
    BY <1>1 DEF Contexts
  <2>4. ctx' \in [Workers -> Contexts]
    BY <1>1, <1>3, <2>3 DEF db_commit
  <2> QED BY <1>3, <2>1, <2>2, <2>4 DEF db_commit, Goto, TypeOK, WorkerPcs
<1>4. CASE db_commit_unsent(w)
  <2>1. ctx[w].tx \in 1 .. TxMax
    BY <1>4 DEF db_commit_unsent, ContextInv, ContextOf, Inside
  <2>2. db' \subseteq Channel /\ unsent' \subseteq 1 .. TxMax
    BY <1>1, <1>4, <2>1 DEF db_commit_unsent, TypeOK, Contexts
  <2>3. pc' \in [Workers -> WorkerPcs] /\ message_send_mutex' \in Workers \cup {NoOne}
    BY <1>4 DEF db_commit_unsent, UnlockMessages, Leave, Goto, TypeOK, WorkerPcs
  <2> QED BY <1>4, <2>2, <2>3 DEF db_commit_unsent, TypeOK
<1>5. CASE db_commit_fails(w)
  BY <1>5, SMTT(40) DEF db_commit_fails, UnlockMessages, Leave, Goto, TypeOK, WorkerPcs
<1> QED BY <1>2, <1>3, <1>4, <1>5

LEMMA SendType ==
  ASSUME TypeOK, ContextInv, NEW w \in Workers, client_send(w) PROVE TypeOK'
<1> DEFINE d == Head(ctx[w].deltas)
           c == client[d.client]
<1>1. /\ client \in [Ids -> Slots] /\ ctx \in [Workers -> Contexts] /\ ctx[w] \in Contexts
      /\ inbox \in [Passes -> Seq(Message)]
  BY DEF TypeOK
<1>2. ctx[w].deltas \in Sendings /\ ctx[w].deltas # <<>>
  BY <1>1 DEF client_send, Contexts, Sendings
<1>3. d \in [client : Ids, msgs : Seq(Message)] /\ Tail(ctx[w].deltas) \in Sendings
  BY <1>2, HeadTailProperties DEF Sendings
<1>4. d.client \in Ids /\ d.msgs \in Seq(Message) /\ c \in Slots
  BY <1>1, <1>3
<1>5. client' \in [Ids -> Slots]
  <2> DEFINE s == IF c.mode = "USED" /\ c.sock # NoSock THEN [c EXCEPT !.sock = NoSock]
                  ELSE IF c.mode = "USED" THEN [c EXCEPT !.msgs = Buffered(c, d.msgs)] ELSE c
  <2>1. Buffered(c, d.msgs) \in Seq(Message)
    <3>1. c.msgs \in Seq(Message)
      BY <1>4 DEF Slots
    <3>2. c.msgs \o d.msgs \in Seq(Message)
      BY <1>4, <3>1, ConcatProperties
    <3> QED BY <3>1, <3>2 DEF Buffered
  <2>2. [c EXCEPT !.sock = NoSock] \in Slots /\ [c EXCEPT !.msgs = Buffered(c, d.msgs)] \in Slots
    BY <1>4, <2>1 DEF Slots
  <2>3. s \in Slots
    BY <1>4, <2>2
  <2>4. client' = [client EXCEPT ![d.client] = s]
    BY ZenonT(40) DEF client_send
  <2> QED BY <1>1, <1>4, <2>3, <2>4
<1>6. inbox' \in [Passes -> Seq(Message)]
  <2>1. \A p \in Passes : inbox[p] \o d.msgs \in Seq(Message)
    BY <1>1, <1>4, ConcatProperties
  <2> QED BY <1>1, <2>1, ZenonT(40) DEF client_send
<1>7. ctx' \in [Workers -> Contexts]
  <2>1. [ctx[w] EXCEPT !.deltas = Tail(@)] \in Contexts
    BY <1>1, <1>3, ZenonT(40) DEF Contexts, Sendings
  <2> QED BY <1>1, <2>1, ZenonT(40) DEF client_send
<1>8. owed' \in [Passes -> Seq(Message)]
  <2>1. owed \in [Passes -> Seq(Message)]
    BY DEF TypeOK
  <2>2. ASSUME NEW p \in Passes PROVE SubSeq(owed[p], 1, Len(owed[p]) - Len(d.msgs)) \in Seq(Message)
    <3>1. owed[p] \in Seq(Message) /\ Len(owed[p]) \in Nat /\ Len(d.msgs) \in Nat
      BY <1>4, <2>1, LenProperties
    <3>2. \A k \in 1 .. Len(owed[p]) - Len(d.msgs) : k \in 1 .. Len(owed[p])
      BY <3>1
    <3> QED BY <3>1, <3>2, SubSeqProperties, ElementOfSeq
  <2> QED BY <2>1, <2>2, ZenonT(40) DEF client_send
<1>9. message_send_mutex' \in Workers \cup {NoOne} /\ pc' \in [Workers -> WorkerPcs]
  BY ZenonT(40) DEF client_send, Leave, Goto, TypeOK, WorkerPcs
<1> QED BY <1>5, <1>6, <1>7, <1>8, <1>9, ZenonT(40) DEF client_send, TypeOK

LEMMA LeaveType ==
  ASSUME TypeOK, ContextInv, NEW w \in Workers,
         \/ NothingToSend(w) \/ unpull_client(w)
         \/ release_client(w) \/ uw_transaction_departs(w)
  PROVE  TypeOK'
<1>1. client \in [Ids -> Slots] /\ ctx \in [Workers -> Contexts]
  BY DEF TypeOK
<1>2. CASE NothingToSend(w)
  BY <1>2 DEF NothingToSend, Leave, Goto, TypeOK, WorkerPcs
<1>3. CASE unpull_client(w)
  BY <1>3 DEF unpull_client, Unpulled, Goto, TypeOK, WorkerPcs
<1>4. CASE release_client(w)
  <2> DEFINE i == ctx[w].id
  <2>1. i \in Ids
    BY <1>4 DEF release_client, ContextInv, ContextOf
  <2>2. client[i].refcount \in 0 .. RefMod - 1 /\ client[i] \in Slots
    BY <1>1, <2>1 DEF Slots
  <2>3. [client[i] EXCEPT !.refcount = Released(@)] \in Slots
    BY <2>2, ZeroCount DEF Slots, Released
  <2>4. client' \in [Ids -> Slots]
    BY <1>1, <1>4, <2>1, <2>3 DEF release_client
  <2> QED BY <1>4, <2>4 DEF release_client, Goto, TypeOK, WorkerPcs
<1>5. CASE uw_transaction_departs(w)
  <2>1. ctx' \in [Workers -> Contexts]
    BY <1>1, <1>5, ResetContextType DEF uw_transaction_departs
  <2>2. view' \in [Passes -> {"unborn", "making", "open", "gone"}]
    BY <1>5 DEF uw_transaction_departs, TypeOK
  <2>3. expunge_lock' \in [readers : SUBSET Workers, writer : BOOLEAN]
    BY <1>5 DEF uw_transaction_departs, TypeOK
  <2> QED BY <1>5, <2>1, <2>2, <2>3 DEF uw_transaction_departs, Goto, TypeOK, WorkerPcs
<1> QED BY <1>2, <1>3, <1>4, <1>5

LEMMA PollType ==
  ASSUME TypeOK, ContextInv, TableInv, NEW w \in Workers, Poll(w) PROVE TypeOK'
<1> DEFINE i == ctx[w].id
           c == client[i]
           p == ctx[w].pass
<1>1. /\ client \in [Ids -> Slots] /\ ctx \in [Workers -> Contexts]
      /\ inbox \in [Passes -> Seq(Message)]
  BY DEF TypeOK
<1>2. CASE PollFinds(w)
  <2>1. ctx' \in [Workers -> Contexts]
    BY <1>1, <1>2, ResetContextType DEF PollFinds
  <2> QED BY <1>2, <2>1 DEF PollFinds, Goto, TypeOK, WorkerPcs
<1>3. CASE uw_client_connect(w)
  <2>1. i \in Ids /\ c \in Slots
    BY <1>1, <1>3 DEF uw_client_connect, ContextInv, ContextOf
  <2>2. ctx' \in [Workers -> Contexts]
    BY <1>1, <1>3, ResetContextType DEF uw_client_connect
  <2>3. client' \in [Ids -> Slots] /\ inbox' \in [Passes -> Seq(Message)]
    <3>1. CASE Accepted(c, p)
      <4>1. p \in Passes
        BY <2>1, <3>1 DEF Accepted, TableInv
      <4>2. <<>> \in Seq(Message) /\ c.msgs \in Seq(Message)
        BY <2>1, EmptySeq DEF Slots
      <4>3. Connected(c, p) \in Slots
        BY <2>1, <4>1, <4>2 DEF Connected, Slots
      <4>4. inbox[p] \o Answer(c) \in Seq(Message)
        BY <1>1, <4>1, <4>2, ConcatProperties DEF Answer
      <4> QED BY <1>1, <1>3, <2>1, <3>1, <4>1, <4>3, <4>4 DEF uw_client_connect
    <3>2. CASE ~Accepted(c, p)
      BY <1>1, <1>3, <3>2 DEF uw_client_connect
    <3> QED BY <3>1, <3>2
  <2> QED BY <1>3, <2>2, <2>3 DEF uw_client_connect, Goto, TypeOK, WorkerPcs
<1> QED BY <1>2, <1>3 DEF Poll

\* Unlinking i from a list on which it is once.
LEMMA WithoutProperties ==
  ASSUME NEW s \in Seq(Ids), NEW i, On(s, i), Distinct(s)
  PROVE  /\ Without(s, i) \in Seq(Ids) /\ Distinct(Without(s, i))
         /\ ~On(Without(s, i), i)
         /\ \A j : j # i /\ On(s, j) => On(Without(s, i), j)
         /\ \A k \in 1 .. Len(Without(s, i)) : On(s, Without(s, i)[k])
<1> DEFINE n == CHOOSE k \in 1 .. Len(s) : s[k] = i
           t == [k \in 1 .. Len(s) - 1 |-> IF k < n THEN s[k] ELSE s[k + 1]]
<1>1. n \in 1 .. Len(s) /\ s[n] = i
  BY DEF On
<1>2. Without(s, i) = t
  BY DEF Without
<1> HIDE DEF n
<1>3. t \in Seq(Ids) /\ Len(t) = Len(s) - 1
  <2>1. Len(s) \in Nat /\ \A k \in 1 .. Len(s) : s[k] \in Ids
    BY LenProperties, ElementOfSeq
  <2>2. Len(s) - 1 \in Nat /\ t \in [1 .. Len(s) - 1 -> Ids]
    BY <1>1, <2>1
  <2>3. t \in Seq(Ids)
    BY <2>2, SeqDef
  <2> QED BY <2>2, <2>3, LenProperties
<1>4. \A k \in 1 .. Len(t) : t[k] = IF k < n THEN s[k] ELSE s[k + 1]
  BY <1>3
<1> HIDE DEF t
<1>5. \A j : j # i /\ On(s, j) => On(t, j)
  <2> SUFFICES ASSUME NEW j, j # i, NEW k \in 1 .. Len(s), s[k] = j
               PROVE  \E m \in 1 .. Len(t) : t[m] = j
    BY DEF On
  <2>1. CASE k < n
    <3>1. k \in 1 .. Len(t) /\ t[k] = j
      BY <1>1, <1>3, <1>4, <2>1
    <3> QED BY <3>1
  <2>2. CASE k > n
    <3>1. k - 1 \in 1 .. Len(t) /\ t[k - 1] = j
      BY <1>1, <1>3, <1>4, <2>2
    <3> QED BY <3>1
  <2>3. k # n /\ k \in Int /\ n \in Int
    BY <1>1
  <2>4. k < n \/ k > n
    BY <2>3
  <2> QED BY <2>1, <2>2, <2>4
<1>6. Len(s) \in Nat /\ \A k \in 1 .. Len(t) : k \in 1 .. Len(s) /\ k + 1 \in 1 .. Len(s)
  BY <1>3, LenProperties
<1>7. Distinct(t)
  <2> SUFFICES ASSUME NEW j \in 1 .. Len(t), NEW k \in 1 .. Len(t), t[j] = t[k] PROVE j = k
    BY DEF Distinct
  <2> DEFINE at(m) == IF m < n THEN m ELSE m + 1
  <2>1. at(j) \in 1 .. Len(s) /\ at(k) \in 1 .. Len(s) /\ s[at(j)] = s[at(k)]
    BY <1>4, <1>6
  <2>2. at(j) = at(k)
    BY <2>1 DEF Distinct
  <2> QED BY <1>1, <1>3, <1>6, <2>2
<1>8. ~On(t, i)
  BY <1>1, <1>3, <1>4, <1>6 DEF Distinct, On
<1>9. \A k \in 1 .. Len(t) : On(s, t[k])
  BY <1>4, <1>6 DEF On
<1> QED BY <1>2, <1>3, <1>5, <1>7, <1>8, <1>9

LEMMA PrunerType ==
  ASSUME TypeOK, TableInv, PruneInv, uw_prune_clients PROVE TypeOK'
<1>1. CASE PrunerStarts
  BY <1>1 DEF PrunerStarts, TypeOK, NoId
<1>2. CASE PrunerScans
  <2> DEFINE i == Head(prune.rest)
  <2>1. prune.rest \in Seq(Ids) /\ prune.rest # <<>> /\ prune.c \in Ids \cup {NoId}
    BY <1>2 DEF PrunerScans, TypeOK
  <2>2. i \in Ids /\ Tail(prune.rest) \in Seq(Ids) /\ On(clients_used, i)
    BY <2>1, HeadTailProperties DEF PruneInv
  <2>3. Without(clients_used, i) \in Seq(Ids)
    <3> HIDE DEF i
    <3>1. clients_used \in Seq(Ids) /\ Distinct(clients_used)
      BY DEF TableInv, TypeOK
    <3> QED BY <2>2, <3>1, WithoutProperties
  <2>4. prune' \in [pc : {"sleep", "scan", "expunge"}, rest : Seq(Ids), c : Ids \cup {NoId}]
    <3>1. prune \in [pc : {"sleep", "scan", "expunge"}, rest : Seq(Ids), c : Ids \cup {NoId}]
      BY DEF TypeOK
    <3>2. \/ prune' = [pc |-> "expunge", rest |-> Tail(prune.rest), c |-> i]
          \/ prune' = [prune EXCEPT !.rest = Tail(prune.rest)]
      BY <1>2 DEF PrunerScans
    <3> HIDE DEF i
    <3> QED BY <2>2, <3>1, <3>2
  <2>5. clients_used' \in Seq(Ids) /\ lock' \in [Ids -> {NoOne, Pruner}]
    BY <1>2, <2>3 DEF PrunerScans, TypeOK
  <2> QED BY <1>2, <2>4, <2>5 DEF PrunerScans, TypeOK
<1>3. ASSUME NEW result, free_client(result) PROVE TypeOK'
  <2> DEFINE i == prune.c
  <2>1. i \in Ids /\ client[i] \in Slots /\ client[i].mode = "USED"
    BY <1>3 DEF free_client, PruneInv, TypeOK
  <2>2. [client[i] EXCEPT !.mode = "UNUSED", !.pass = NoPass] \in Slots
    BY <2>1 DEF Slots
  <2>3. client' \in [Ids -> Slots]
    <3>1. client \in [Ids -> Slots]
      BY DEF TypeOK
    <3>2. client' = [client EXCEPT ![i] = [client[i] EXCEPT !.mode = "UNUSED", !.pass = NoPass]]
      BY <1>3, <3>1 DEF free_client
    <3> QED BY <2>1, <2>2, <3>1, <3>2
  <2>4. clients_free' \in Seq(Ids)
    <3>1. <<i>> \in Seq(Ids) /\ clients_free \in Seq(Ids)
      BY <2>1 DEF TypeOK
    <3> QED BY <1>3, <3>1, ConcatProperties DEF free_client
  <2>5. db' \subseteq Channel
    BY <1>3 DEF free_client, TypeOK
  <2>6. expunged' \subseteq Passes
    BY <1>3, <2>1 DEF free_client, TableInv, TypeOK
  <2>7. /\ lock' \in [Ids -> {NoOne, Pruner}]
        /\ prune' \in [pc : {"sleep", "scan", "expunge"}, rest : Seq(Ids), c : Ids \cup {NoId}]
    BY <1>3 DEF free_client, UnlockClient, TypeOK
  <2> QED BY <1>3, <2>3, <2>4, <2>5, <2>6, <2>7 DEF free_client, TypeOK
<1>4. CASE uw_expunge_fatal
  BY <1>4 DEF uw_expunge_fatal, UnlockClient, TypeOK
<1>5. CASE uw_expunge_again
  BY <1>5 DEF uw_expunge_again, vars, TypeOK
<1>6. CASE PrunerEnds
  BY <1>6 DEF PrunerEnds, TypeOK
<1> QED BY <1>1, <1>2, <1>3, <1>4, <1>5, <1>6
        DEF uw_prune_clients, uw_expunge, uw_expunge_ok, uw_expunge_commit_error

LEMMA WorldType ==
  ASSUME TypeOK, (\E i \in Ids : TimeoutPasses(i)) \/ (\E p \in Passes : ViewLeaves(p))
  PROVE  TypeOK'
<1>1. ASSUME NEW i \in Ids, TimeoutPasses(i) PROVE TypeOK'
  <2>1. client \in [Ids -> Slots] /\ client[i] \in Slots
    BY DEF TypeOK
  <2>2. [client[i] EXCEPT !.recent = FALSE] \in Slots
    BY <2>1 DEF Slots
  <2>3. client' \in [Ids -> Slots]
    BY <1>1, <2>1, <2>2 DEF TimeoutPasses
  <2> QED BY <1>1, <2>3 DEF TimeoutPasses, TypeOK
<1>2. ASSUME NEW p \in Passes, ViewLeaves(p) PROVE TypeOK'
  BY <1>2 DEF ViewLeaves, TypeOK
<1> QED BY <1>1, <1>2

LEMMA TypeStep == ASSUME IInv, [Next]_vars PROVE TypeOK'
<1> USE DEF IInv
<1>1. ASSUME NEW w \in Workers, Step(w) \/ Arrival(w) PROVE TypeOK'
  BY <1>1, LoginType, BodyType, CommitType, SendType, LeaveType, PollType, ArrivalType
     DEF Step, Finish
<1>2. CASE uw_prune_clients
  BY <1>2, PrunerType
<1>3. CASE (\E i \in Ids : TimeoutPasses(i)) \/ (\E p \in Passes : ViewLeaves(p))
  BY <1>3, WorldType
<1>4. CASE UNCHANGED vars
  BY <1>4 DEF vars, TypeOK
<1> QED BY <1>1, <1>2, <1>3, <1>4 DEF Next
-----------------------------------------------------------------------------
(* expunge_lock *)

\* A worker moves within a transaction, or outside of one.
Moves(w) == /\ UNCHANGED <<expunge_lock, prune>>
            /\ \A v \in Workers : v # w => pc'[v] = pc[v]
            /\ pc'[w] \in Inside => pc[w] \in Inside

LEMMA MovesKeepLock ==
  ASSUME LockInv, NEW w \in Workers, Moves(w) PROVE LockInv'
  BY DEF LockInv, Moves

LEMMA StepMoves ==
  ASSUME TypeOK, NEW w \in Workers, Step(w), ~uw_transaction_departs(w) PROVE Moves(w)
<1>1. pc \in [Workers -> WorkerPcs]
  BY DEF TypeOK
<1>2. CASE Login(w)
  BY <1>1, <1>2 DEF Login, no_client, find_client, new_client, NoClientLeft, use_client,
     pull_client, check_client, Leave, Goto, Moves, Inside
<1>3. CASE Body(w)
  BY <1>1, <1>3, ZenonT(60) DEF Body, new_channel_read, new_channel, uw_Basis_send, Abort, Leave, Goto,
     Moves, Inside
<1>4. CASE Poll(w)
  BY <1>1, <1>4, ZenonT(40) DEF Poll, PollFinds, uw_client_connect, Goto, Moves, Inside
<1>5. CASE LockMessages(w) \/ db_commit(w) \/ db_commit_unsent(w) \/ db_commit_fails(w) \/ client_send(w)
  BY <1>1, <1>5, ZenonT(40) DEF LockMessages, db_commit, db_commit_unsent, db_commit_fails, client_send, Leave, Goto,
     Moves, Inside
<1>6. CASE NothingToSend(w) \/ unpull_client(w) \/ release_client(w)
  BY <1>1, <1>6 DEF NothingToSend, unpull_client, release_client, Leave, Goto, Moves, Inside
<1> QED BY <1>2, <1>3, <1>4, <1>5, <1>6 DEF Step, Finish

LEMMA LockStep == ASSUME IInv, [Next]_vars PROVE LockInv'
<1> USE DEF IInv
<1>1. /\ pc \in [Workers -> WorkerPcs]
      /\ expunge_lock \in [readers : SUBSET Workers, writer : BOOLEAN]
      /\ prune \in [pc : {"sleep", "scan", "expunge"}, rest : Seq(Ids), c : Ids \cup {NoId}]
  BY DEF TypeOK
<1>2. ASSUME NEW w \in Workers, Step(w), ~uw_transaction_departs(w) PROVE LockInv'
  BY <1>2, StepMoves, MovesKeepLock
<1>3. ASSUME NEW w \in Workers, uw_transaction_departs(w) PROVE LockInv'
  BY <1>1, <1>3 DEF uw_transaction_departs, Goto, LockInv, Inside
<1>4. ASSUME NEW w \in Workers, Arrival(w) PROVE LockInv'
  <2>1. ASSUME NEW h \in Headers, PollArrives(w, h) PROVE LockInv'
    BY <1>1, <2>1 DEF PollArrives, Goto, LockInv, Inside
  <2>2. ASSUME NEW kind, NEW id, NEW pass, uw_transaction_arrives(w, kind, id, pass)
        PROVE  LockInv'
    BY <1>1, <2>2 DEF uw_transaction_arrives, Goto, LockInv, Inside
  <2> QED BY <1>4, <2>1, <2>2 DEF Arrival, PlainArrives, PageArrives, RpcArrives
<1>5. CASE uw_prune_clients
  <2>1. CASE PrunerStarts
    BY <1>1, <2>1 DEF PrunerStarts, NoTransaction, LockInv, Inside
  <2>2. CASE PrunerScans
    BY <1>1, <2>2 DEF PrunerScans, LockInv
  <2>3. CASE uw_expunge_again
    BY <2>3 DEF uw_expunge_again, vars, LockInv
  <2>4. ASSUME NEW result, free_client(result) PROVE LockInv'
    BY <1>1, <2>4 DEF free_client, UnlockClient, LockInv
  <2>5. CASE uw_expunge_fatal
    BY <1>1, <2>5 DEF uw_expunge_fatal, UnlockClient, LockInv
  <2>6. CASE PrunerEnds
    BY <1>1, <2>6 DEF PrunerEnds, LockInv
  <2> QED BY <1>5, <2>1, <2>2, <2>3, <2>4, <2>5, <2>6
          DEF uw_prune_clients, uw_expunge, uw_expunge_ok, uw_expunge_commit_error
<1>6. CASE (\E i \in Ids : TimeoutPasses(i)) \/ (\E p \in Passes : ViewLeaves(p))
  BY <1>6 DEF TimeoutPasses, ViewLeaves, LockInv
<1>7. CASE UNCHANGED vars
  BY <1>7 DEF vars, LockInv
<1> QED BY <1>2, <1>3, <1>4, <1>5, <1>6, <1>7 DEF Next
-----------------------------------------------------------------------------
(* The table, its lists and the contexts *)

\* Nobody gets or loses a slot, and the lists stay as they are.
Keeps == /\ \A i \in Ids : client'[i].mode = client[i].mode /\ client'[i].pass = client[i].pass
         /\ UNCHANGED <<n_clients, clients_free, clients_used, home>>
         /\ \A p \in Passes : view'[p] = "unborn" <=> view[p] = "unborn"

Alone(w) == \A v \in Workers : v # w => pc'[v] = pc[v] /\ ctx'[v] = ctx[v]

LEMMA KeepsTable == ASSUME TypeOK, TableInv, Keeps PROVE TableInv'
<1>1. /\ \A k \in 1 .. Len(clients_free) : clients_free[k] \in Ids
      /\ \A k \in 1 .. Len(clients_used) : clients_used[k] \in Ids
  BY ElementOfSeq DEF TypeOK
<1> QED BY <1>1 DEF TableInv, Keeps

LEMMA StepKeeps ==
  ASSUME TypeOK, ContextInv, NEW w \in Workers, Step(w), ~new_client(w)
  PROVE  Keeps /\ Alone(w) /\ UNCHANGED prune
<1>1. /\ client \in [Ids -> Slots] /\ ctx \in [Workers -> Contexts] /\ pc \in [Workers -> WorkerPcs]
      /\ view \in [Passes -> {"unborn", "making", "open", "gone"}]
      /\ \A i \in Ids : client[i] \in Slots
  BY DEF TypeOK
<1>2. CASE Login(w)
  <2>1. CASE use_client(w)
    BY <1>1, <2>1 DEF use_client, Goto, Keeps, Alone, Slots
  <2>2. CASE pull_client(w)
    BY <1>1, <2>2 DEF pull_client, Goto, Keeps, Alone
  <2>3. CASE no_client(w) \/ find_client(w) \/ NoClientLeft(w) \/ check_client(w)
    BY <1>1, <2>3 DEF no_client, find_client, NoClientLeft, check_client, Leave, Goto, Keeps, Alone
  <2> QED BY <1>2, <2>1, <2>2, <2>3 DEF Login
<1>3. CASE Body(w)
  <2>1. CASE new_channel(w)
    BY <1>1, <2>1, SMTT(40) DEF new_channel, Goto, Keeps, Alone, Slots
  <2>2. CASE new_channel_read(w) \/ uw_Basis_send(w) \/ Abort(w)
    BY <1>1, <2>2, ZenonT(60) DEF new_channel_read, uw_Basis_send, Abort, Leave, Goto, Keeps, Alone
  <2> QED BY <1>3, <2>1, <2>2 DEF Body
<1>4. CASE Poll(w)
  <2>1. CASE PollFinds(w)
    BY <1>1, <2>1 DEF PollFinds, Goto, Keeps, Alone
  <2>2. CASE uw_client_connect(w)
    BY <1>1, <2>2, SMTT(40) DEF uw_client_connect, Connected, Goto, Keeps, Alone, Slots
  <2> QED BY <1>4, <2>1, <2>2 DEF Poll
<1>5. CASE client_send(w)
  <2> DEFINE d == Head(ctx[w].deltas)
             c == client[d.client]
             s == IF c.mode = "USED" /\ c.sock # NoSock THEN [c EXCEPT !.sock = NoSock]
                  ELSE IF c.mode = "USED" THEN [c EXCEPT !.msgs = Buffered(c, d.msgs)] ELSE c
  <2>1. client' = [client EXCEPT ![d.client] = s]
    BY <1>5, ZenonT(40) DEF client_send
  <2>2. ASSUME NEW i \in Ids PROVE client'[i].mode = client[i].mode /\ client'[i].pass = client[i].pass
    BY <1>1, <2>1, <2>2 DEF Slots
  <2>3. Alone(w) /\ UNCHANGED <<n_clients, clients_free, clients_used, home, view, prune>>
    BY <1>1, <1>5, ZenonT(40) DEF client_send, Leave, Goto, Alone
  <2> QED BY <2>2, <2>3 DEF Keeps
<1>6. CASE release_client(w)
  BY <1>1, <1>6 DEF release_client, Goto, Keeps, Alone, Slots
<1>7. CASE uw_transaction_departs(w)
  <2>1. \A p \in Passes : view'[p] = "unborn" <=> view[p] = "unborn"
    BY <1>1, <1>7 DEF uw_transaction_departs, ContextInv, ContextOf, Inside
  <2> QED BY <1>1, <1>7, <2>1 DEF uw_transaction_departs, Goto, Keeps, Alone
<1>8. CASE LockMessages(w) \/ db_commit(w) \/ db_commit_unsent(w) \/ db_commit_fails(w) \/ NothingToSend(w) \/ unpull_client(w)
  BY <1>1, <1>8 DEF LockMessages, db_commit, db_commit_unsent, db_commit_fails, NothingToSend, unpull_client,
     Leave, Goto, Keeps, Alone
<1> QED BY <1>2, <1>3, <1>4, <1>5, <1>6, <1>7, <1>8 DEF Step, Finish

LEMMA ArrivalKeeps ==
  ASSUME TypeOK, NEW w \in Workers, Arrival(w) PROVE Keeps /\ Alone(w) /\ UNCHANGED prune
<1>1. ctx \in [Workers -> Contexts] /\ pc \in [Workers -> WorkerPcs]
  BY DEF TypeOK
<1>2. ASSUME NEW h \in Headers, PollArrives(w, h) PROVE Keeps /\ Alone(w) /\ UNCHANGED prune
  BY <1>1, <1>2 DEF PollArrives, Goto, Keeps, Alone
<1>3. ASSUME NEW kind, NEW id, NEW pass, uw_transaction_arrives(w, kind, id, pass)
      PROVE  Keeps /\ Alone(w) /\ UNCHANGED prune
  BY <1>1, <1>3 DEF uw_transaction_arrives, Goto, Keeps, Alone
<1> QED BY <1>2, <1>3 DEF Arrival, PlainArrives, PageArrives, RpcArrives

LEMMA WorldKeeps ==
  ASSUME TypeOK,
         (\E i \in Ids : TimeoutPasses(i)) \/ (\E p \in Passes : ViewLeaves(p)) \/ UNCHANGED vars
  PROVE  Keeps /\ UNCHANGED <<pc, ctx, prune>>
<1>1. /\ client \in [Ids -> Slots] /\ \A i \in Ids : client[i] \in Slots
      /\ view \in [Passes -> {"unborn", "making", "open", "gone"}]
  BY DEF TypeOK
<1>2. ASSUME NEW i \in Ids, TimeoutPasses(i) PROVE Keeps /\ UNCHANGED <<pc, ctx, prune>>
  BY <1>1, <1>2 DEF TimeoutPasses, Keeps, Slots
<1>3. ASSUME NEW p \in Passes, ViewLeaves(p) PROVE Keeps /\ UNCHANGED <<pc, ctx, prune>>
  BY <1>1, <1>3 DEF ViewLeaves, Keeps
<1>4. CASE UNCHANGED vars
  BY <1>4 DEF vars, Keeps
<1> QED BY <1>2, <1>3, <1>4

LEMMA NewClient ==
  ASSUME TypeOK, TableInv, NEW w \in Workers, new_client(w)
  PROVE  \E p \in Passes, j \in Ids :
           /\ client[j].mode = "UNUSED" /\ view[p] = "unborn"
           /\ client' = [client EXCEPT ![j] = NewSlot(j, p)]
           /\ ctx' = [ctx EXCEPT ![w].id = j, ![w].pass = p]
           /\ view' = [view EXCEPT ![p] = "making"] /\ home' = [home EXCEPT ![p] = j]
           /\ clients_used' = <<j>> \o clients_used
           /\ \/ clients_free # <<>> /\ j = Head(clients_free)
                 /\ clients_free' = Tail(clients_free) /\ n_clients' = n_clients
              \/ j = n_clients /\ n_clients' = n_clients + 1
                 /\ clients_free = <<>> /\ clients_free' = <<>>
<1>1. PICK p \in {q \in Passes : view[q] = "unborn" /\ \A r \in 1 .. q - 1 : view[r] # "unborn"},
           j \in Ids :
        /\ lock[j] = NoOne
        /\ \/ clients_free # <<>> /\ j = Head(clients_free)
              /\ clients_free' = Tail(clients_free) /\ UNCHANGED n_clients
           \/ clients_free = <<>> /\ n_clients < ClientsMax /\ j = n_clients
              /\ n_clients' = n_clients + 1 /\ UNCHANGED clients_free
        /\ client' = [client EXCEPT ![j] = NewSlot(j, p)]
        /\ clients_used' = <<j>> \o clients_used
        /\ ctx' = [ctx EXCEPT ![w].id = j, ![w].pass = p]
        /\ view' = [view EXCEPT ![p] = "making"] /\ home' = [home EXCEPT ![p] = j]
  BY Zenon DEF new_client
<1>2. client[j].mode = "UNUSED"
  <2>1. CASE clients_free # <<>> /\ j = Head(clients_free)
    <3>1. 1 \in 1 .. Len(clients_free) /\ Head(clients_free) = clients_free[1]
      BY <2>1, EmptySeq DEF TypeOK
    <3> QED BY <2>1, <3>1 DEF TableInv
  <2>2. CASE j = n_clients
    BY <2>2 DEF TableInv, TypeOK
  <2> QED BY <1>1, <2>1, <2>2
<1> QED BY <1>1, <1>2

LEMMA PushProperties ==
  ASSUME NEW s \in Seq(Ids), NEW i \in Ids, ~On(s, i), Distinct(s)
  PROVE  /\ <<i>> \o s \in Seq(Ids) /\ Distinct(<<i>> \o s)
         /\ Len(<<i>> \o s) = Len(s) + 1 /\ (<<i>> \o s)[1] = i
         /\ \A k \in 2 .. Len(s) + 1 : (<<i>> \o s)[k] = s[k - 1]
         /\ \A j : On(s, j) => On(<<i>> \o s, j)
<1> DEFINE t == <<i>> \o s
<1>1. <<i>> \in Seq(Ids) /\ Len(<<i>>) = 1 /\ Len(s) \in Nat
  OBVIOUS
<1>2. /\ t \in Seq(Ids) /\ Len(t) = Len(s) + 1 /\ t[1] = i
      /\ \A k \in 2 .. Len(s) + 1 : t[k] = s[k - 1]
  BY <1>1, ConcatProperties
<1> HIDE DEF t
<1>3. \A k \in 2 .. Len(s) + 1 : k - 1 \in 1 .. Len(s)
  BY <1>1
<1>4. Distinct(t)
  <2> SUFFICES ASSUME NEW j \in 1 .. Len(t), NEW k \in 1 .. Len(t), t[j] = t[k] PROVE j = k
    BY DEF Distinct
  <2>1. j = 1 \/ j \in 2 .. Len(s) + 1
    BY <1>1, <1>2
  <2>2. k = 1 \/ k \in 2 .. Len(s) + 1
    BY <1>1, <1>2
  <2>3. CASE j \in 2 .. Len(s) + 1 /\ k \in 2 .. Len(s) + 1
    <3>1. j - 1 = k - 1
      BY <1>2, <1>3, <2>3 DEF Distinct
    <3> QED BY <3>1
  <2>4. j = 1 <=> k = 1
    BY <1>2, <1>3, <2>1, <2>2 DEF On
  <2> QED BY <2>1, <2>2, <2>3, <2>4
<1>5. ASSUME NEW j, On(s, j) PROVE On(t, j)
  <2>1. PICK k \in 1 .. Len(s) : s[k] = j
    BY <1>5 DEF On
  <2>2. k + 1 \in 2 .. Len(s) + 1 /\ k + 1 \in 1 .. Len(t) /\ t[k + 1] = s[k]
    BY <1>1, <1>2
  <2> QED BY <2>1, <2>2 DEF On
<1> QED BY <1>2, <1>4, <1>5 DEF t

LEMMA TailProperties ==
  ASSUME NEW s \in Seq(Ids), s # <<>>, Distinct(s)
  PROVE  /\ Tail(s) \in Seq(Ids) /\ Distinct(Tail(s)) /\ ~On(Tail(s), Head(s))
         /\ Head(s) = s[1] /\ 1 \in 1 .. Len(s)
         /\ Len(Tail(s)) = Len(s) - 1
         /\ \A k \in 1 .. Len(Tail(s)) : k + 1 \in 1 .. Len(s) /\ Tail(s)[k] = s[k + 1]
<1>1. /\ Tail(s) \in Seq(Ids) /\ Len(Tail(s)) = Len(s) - 1 /\ Len(s) \in Nat \ {0}
      /\ \A k \in 1 .. Len(Tail(s)) : Tail(s)[k] = s[k + 1]
  BY HeadTailProperties, EmptySeq
<1>2. Head(s) = s[1] /\ 1 \in 1 .. Len(s)
  BY <1>1
<1>3. \A k \in 1 .. Len(Tail(s)) : k + 1 \in 1 .. Len(s)
  BY <1>1
<1>4. Distinct(Tail(s))
  <2> SUFFICES ASSUME NEW j \in 1 .. Len(Tail(s)), NEW k \in 1 .. Len(Tail(s)),
                      Tail(s)[j] = Tail(s)[k]
               PROVE  j = k
    BY DEF Distinct
  <2>1. j + 1 = k + 1
    BY <1>1, <1>3 DEF Distinct
  <2> QED BY <2>1
<1>5. ~On(Tail(s), Head(s))
  <2> SUFFICES ASSUME NEW k \in 1 .. Len(Tail(s)), Tail(s)[k] = Head(s) PROVE FALSE
    BY DEF On
  <2>1. k + 1 = 1
    BY <1>1, <1>2, <1>3 DEF Distinct
  <2> QED BY <2>1
<1> QED BY <1>1, <1>2, <1>3, <1>4, <1>5

\* free_client with its inputs spelled out.
LEMMA FreeClient ==
  ASSUME TypeOK, TableInv, PruneInv, NEW result, free_client(result)
  PROVE  /\ prune.c \in Ids /\ client[prune.c].mode = "USED" /\ ~On(clients_used, prune.c)
         /\ client' = [client EXCEPT ![prune.c] = [client[prune.c] EXCEPT
                                                     !.mode = "UNUSED", !.pass = NoPass]]
         /\ ~On(clients_free, prune.c) /\ clients_free' = <<prune.c>> \o clients_free
         /\ UNCHANGED <<n_clients, clients_used, view, home, pc, ctx>>
         /\ prune' = [prune EXCEPT !.pc = "scan", !.c = NoId]
<1>1. /\ prune.c \in Ids /\ client[prune.c].mode = "USED" /\ ~On(clients_used, prune.c)
      /\ ~On(clients_free, prune.c)
  BY DEF free_client, PruneInv, TableInv, On
<1>2. client \in [Ids -> Slots]
  BY DEF TypeOK
<1> QED BY <1>1, <1>2 DEF free_client, UnlockClient

LEMMA TableStep == ASSUME IInv, [Next]_vars PROVE TableInv'
<1> USE DEF IInv
<1>1. /\ client \in [Ids -> Slots] /\ \A i \in Ids : client[i] \in Slots
      /\ home \in [Passes -> Ids \cup {NoId}] /\ n_clients \in 0 .. ClientsMax
      /\ view \in [Passes -> {"unborn", "making", "open", "gone"}]
      /\ clients_free \in Seq(Ids) /\ clients_used \in Seq(Ids)
      /\ \A k \in 1 .. Len(clients_free) : clients_free[k] \in Ids
      /\ \A k \in 1 .. Len(clients_used) : clients_used[k] \in Ids
      /\ Len(clients_free) \in Nat /\ Len(clients_used) \in Nat
  BY ElementOfSeq, LenProperties DEF TypeOK
<1>2. ASSUME NEW w \in Workers, new_client(w) PROVE TableInv'
  <2>1. PICK p \in Passes, j \in Ids :
           /\ client[j].mode = "UNUSED" /\ view[p] = "unborn"
           /\ client' = [client EXCEPT ![j] = NewSlot(j, p)]
           /\ ctx' = [ctx EXCEPT ![w].id = j, ![w].pass = p]
           /\ view' = [view EXCEPT ![p] = "making"] /\ home' = [home EXCEPT ![p] = j]
           /\ clients_used' = <<j>> \o clients_used
           /\ \/ clients_free # <<>> /\ j = Head(clients_free)
                 /\ clients_free' = Tail(clients_free) /\ n_clients' = n_clients
              \/ j = n_clients /\ n_clients' = n_clients + 1
                 /\ clients_free = <<>> /\ clients_free' = <<>>
    BY <1>2, NewClient
  <2>2. client'[j].mode = "USED" /\ client'[j].pass = p /\ \A i \in Ids : i # j => client'[i] = client[i]
    BY <1>1, <2>1 DEF NewSlot, Slots
  <2>3. ~On(clients_used, j)
    BY <2>1 DEF TableInv, On
  <2>4. Distinct(clients_used')
        /\ \A k \in 1 .. Len(clients_used') : client'[clients_used'[k]].mode = "USED"
    <3>1. /\ Distinct(clients_used') /\ Len(clients_used') = Len(clients_used) + 1
          /\ clients_used'[1] = j
          /\ \A k \in 2 .. Len(clients_used) + 1 : clients_used'[k] = clients_used[k - 1]
      BY <1>1, <2>1, <2>3, PushProperties DEF TableInv
    <3>2. ASSUME NEW k \in 1 .. Len(clients_used') PROVE client'[clients_used'[k]].mode = "USED"
      <4>1. CASE k = 1
        BY <2>2, <3>1, <4>1
      <4>2. CASE k # 1
        <5>1. k - 1 \in 1 .. Len(clients_used) /\ clients_used'[k] = clients_used[k - 1]
          BY <1>1, <3>1, <4>2
        <5> QED BY <1>1, <2>2, <2>3, <5>1 DEF TableInv, On
      <4> QED BY <4>1, <4>2
    <3> QED BY <3>1, <3>2
  <2>5. /\ Distinct(clients_free')
        /\ \A k \in 1 .. Len(clients_free') : /\ client'[clients_free'[k]].mode = "UNUSED"
                                              /\ clients_free'[k] < n_clients'
    <3>1. CASE /\ clients_free # <<>> /\ j = Head(clients_free)
               /\ clients_free' = Tail(clients_free) /\ n_clients' = n_clients
      <4>1. /\ Distinct(clients_free') /\ ~On(clients_free', j)
            /\ \A k \in 1 .. Len(clients_free') :
                 k + 1 \in 1 .. Len(clients_free) /\ clients_free'[k] = clients_free[k + 1]
        BY <1>1, <3>1, TailProperties DEF TableInv
      <4> QED BY <1>1, <2>2, <3>1, <4>1 DEF TableInv, On
    <3>2. CASE clients_free' = <<>>
      BY <3>2 DEF Distinct
    <3> QED BY <2>1, <3>1, <3>2
  <2>6. \A i \in Ids : i >= n_clients' => client'[i].mode = "UNUSED"
    <3>1. CASE /\ clients_free # <<>> /\ j = Head(clients_free) /\ n_clients' = n_clients
      <4>1. j < n_clients
        BY <1>1, <3>1, TailProperties DEF TableInv
      <4>2. ASSUME NEW i \in Ids, i >= n_clients PROVE client'[i].mode = "UNUSED"
        <5>1. i # j
          BY <1>1, <4>1, <4>2 DEF Ids
        <5> QED BY <2>2, <4>2, <5>1 DEF TableInv
      <4> QED BY <3>1, <4>2
    <3>2. CASE j = n_clients /\ n_clients' = n_clients + 1
      BY <1>1, <2>2, <3>2 DEF TableInv, Ids
    <3> QED BY <2>1, <3>1, <3>2
  <2>7. \A i \in Ids : client'[i].mode = "USED" => client'[i].pass \in Passes
    BY <2>2 DEF TableInv
  <2>8. \A q \in Passes : view'[q] # "unborn" => home'[q] \in Ids
    BY <1>1, <2>1 DEF TableInv
  <2> QED BY <2>4, <2>5, <2>6, <2>7, <2>8 DEF TableInv
<1>3. ASSUME NEW w \in Workers, Step(w) \/ Arrival(w), ~new_client(w) PROVE TableInv'
  BY <1>3, StepKeeps, ArrivalKeeps, KeepsTable
<1>4. CASE uw_prune_clients
  <2>1. CASE PrunerStarts \/ uw_expunge_again \/ uw_expunge_fatal \/ PrunerEnds
    BY <2>1 DEF PrunerStarts, uw_expunge_again, uw_expunge_fatal, PrunerEnds, vars, TableInv
  <2>2. CASE PrunerScans
    <3>1. clients_used' = clients_used
          \/ clients_used' = Without(clients_used, Head(prune.rest))
      BY <2>2 DEF PrunerScans
    <3>2. On(clients_used, Head(prune.rest)) /\ Distinct(clients_used)
      BY <2>2, TailProperties DEF PrunerScans, PruneInv, TableInv, TypeOK
    <3>3. /\ Distinct(clients_used')
          /\ \A k \in 1 .. Len(clients_used') : On(clients_used, clients_used'[k])
      <4>1. CASE clients_used' = clients_used
        BY <3>2, <4>1 DEF On
      <4>2. CASE clients_used' = Without(clients_used, Head(prune.rest))
        BY <1>1, <3>2, <4>2, WithoutProperties
      <4> QED BY <3>1, <4>1, <4>2
    <3>4. UNCHANGED <<client, n_clients, clients_free, view, home>>
      BY <2>2 DEF PrunerScans
    <3> QED BY <3>3, <3>4 DEF TableInv, On
  <2>3. ASSUME NEW result, free_client(result) PROVE TableInv'
    <3> DEFINE c == prune.c
    <3>1. /\ c \in Ids /\ client[c].mode = "USED" /\ ~On(clients_used, c) /\ ~On(clients_free, c)
          /\ clients_free' = <<c>> \o clients_free
          /\ UNCHANGED <<n_clients, clients_used, view, home>>
      BY <2>3, FreeClient
    <3>2. client'[c].mode = "UNUSED" /\ \A i \in Ids : i # c => client'[i] = client[i]
      <4>1. client' = [client EXCEPT ![c] = [client[c] EXCEPT !.mode = "UNUSED", !.pass = NoPass]]
        BY <2>3, FreeClient
      <4>2. client'[c] = [client[c] EXCEPT !.mode = "UNUSED", !.pass = NoPass]
        BY <1>1, <3>1, <4>1
      <4>3. client[c] \in Slots
        BY <1>1, <3>1
      <4>4. client'[c].mode = "UNUSED"
        BY <4>2, <4>3 DEF Slots
      <4> QED BY <1>1, <4>1, <4>4
    <3> HIDE DEF c
    <3>3. c < n_clients
      BY <1>1, <3>1 DEF TableInv, Ids
    <3>4. /\ Distinct(clients_free') /\ Len(clients_free') = Len(clients_free) + 1
          /\ clients_free'[1] = c
          /\ \A k \in 2 .. Len(clients_free) + 1 : clients_free'[k] = clients_free[k - 1]
      BY <1>1, <3>1, PushProperties DEF TableInv
    <3>5. ASSUME NEW k \in 1 .. Len(clients_free')
          PROVE  client'[clients_free'[k]].mode = "UNUSED" /\ clients_free'[k] < n_clients'
      <4>1. CASE k = 1
        BY <3>1, <3>2, <3>3, <3>4, <4>1
      <4>2. CASE k # 1
        <5>1. k - 1 \in 1 .. Len(clients_free) /\ clients_free'[k] = clients_free[k - 1]
          BY <1>1, <3>4, <4>2
        <5> QED BY <1>1, <3>1, <3>2, <5>1 DEF TableInv, On
      <4> QED BY <4>1, <4>2
    <3>6. \A k \in 1 .. Len(clients_used') : client'[clients_used'[k]].mode = "USED"
      BY <1>1, <3>1, <3>2 DEF TableInv, On
    <3>7. /\ \A i \in Ids : client'[i].mode = "USED" => client'[i].pass \in Passes
          /\ \A i \in Ids : i >= n_clients' => client'[i].mode = "UNUSED"
      <4> SUFFICES ASSUME NEW i \in Ids
                   PROVE  /\ client'[i].mode = "USED" => client'[i].pass \in Passes
                          /\ i >= n_clients => client'[i].mode = "UNUSED"
        BY <3>1
      <4>1. CASE i = c
        BY <3>2, <4>1
      <4>2. CASE i # c
        BY <3>2, <4>2 DEF TableInv
      <4> QED BY <4>1, <4>2
    <3> QED BY <3>1, <3>4, <3>5, <3>6, <3>7 DEF TableInv
  <2> QED BY <1>4, <2>1, <2>2, <2>3
          DEF uw_prune_clients, uw_expunge, uw_expunge_ok, uw_expunge_commit_error
<1>5. CASE (\E i \in Ids : TimeoutPasses(i)) \/ (\E p \in Passes : ViewLeaves(p)) \/ UNCHANGED vars
  BY <1>5, WorldKeeps, KeepsTable
<1> QED BY <1>2, <1>3, <1>4, <1>5 DEF Next

LEMMA KeepsPrune == ASSUME PruneInv, Keeps, UNCHANGED prune PROVE PruneInv'
  BY DEF PruneInv, Keeps

LEMMA PruneStep == ASSUME IInv, [Next]_vars PROVE PruneInv'
<1> USE DEF IInv
<1>1. /\ clients_used \in Seq(Ids) /\ prune.rest \in Seq(Ids)
      /\ prune \in [pc : {"sleep", "scan", "expunge"}, rest : Seq(Ids), c : Ids \cup {NoId}]
      /\ Distinct(clients_used) /\ Distinct(prune.rest)
      /\ \A k \in 1 .. Len(clients_used) : clients_used[k] \in Ids
  BY ElementOfSeq DEF TypeOK, TableInv, PruneInv
<1>2. ASSUME NEW w \in Workers, new_client(w) PROVE PruneInv'
  <2>1. PICK j \in Ids : client[j].mode = "UNUSED" /\ clients_used' = <<j>> \o clients_used
    BY <1>2, NewClient
  <2>2. prune.pc # "expunge" /\ prune' = prune
    BY <1>2 DEF new_client, LockInv, Inside
  <2>3. ~On(clients_used, j)
    BY <2>1 DEF TableInv, On
  <2>4. \A k \in 1 .. Len(prune.rest) : On(clients_used', prune.rest[k])
    BY <1>1, <2>1, <2>3, PushProperties DEF PruneInv
  <2> QED BY <1>1, <2>2, <2>4 DEF PruneInv
<1>3. ASSUME NEW w \in Workers, Step(w) \/ Arrival(w), ~new_client(w) PROVE PruneInv'
  BY <1>3, StepKeeps, ArrivalKeeps, KeepsPrune
<1>4. CASE uw_prune_clients
  <2>1. CASE PrunerStarts
    BY <1>1, <2>1 DEF PrunerStarts, PruneInv, On
  <2>2. CASE PrunerScans
    <3> DEFINE i == Head(prune.rest)
               rest == Tail(prune.rest)
    <3>1. /\ rest \in Seq(Ids) /\ Distinct(rest) /\ ~On(rest, i)
          /\ \A k \in 1 .. Len(rest) : On(clients_used, rest[k])
          /\ i \in Ids /\ On(clients_used, i)
      <4>1. prune.rest # <<>>
        BY <2>2 DEF PrunerScans
      <4> QED BY <1>1, <4>1, TailProperties, ElementOfSeq, SMTT(40) DEF PruneInv
    <3>2. client[i].mode = "USED"
      BY <3>1 DEF TableInv, On
    <3>3. CASE ~client[i].recent /\ client[i].refcount = 0
      <4>1. /\ clients_used' = Without(clients_used, i) /\ client' = client
            /\ prune' = [pc |-> "expunge", rest |-> rest, c |-> i]
        BY <2>2, <3>3 DEF PrunerScans
      <4> HIDE DEF i, rest
      <4>2. ~On(clients_used', i) /\ \A j : j # i /\ On(clients_used, j) => On(clients_used', j)
        BY <1>1, <3>1, <4>1, WithoutProperties
      <4>3. \A k \in 1 .. Len(rest) : On(clients_used', rest[k])
        BY <3>1, <4>2 DEF On
      <4> QED BY <3>1, <3>2, <4>1, <4>2, <4>3 DEF PruneInv
    <3>4. CASE ~(~client[i].recent /\ client[i].refcount = 0)
      <4>1. UNCHANGED <<clients_used, client>> /\ prune' = [prune EXCEPT !.rest = rest]
        BY <2>2, <3>4 DEF PrunerScans
      <4>2. prune.pc = "scan"
        BY <2>2 DEF PrunerScans
      <4> HIDE DEF i, rest
      <4> QED BY <1>1, <3>1, <4>1, <4>2 DEF PruneInv
    <3> QED BY <3>3, <3>4
  <2>3. ASSUME NEW result, free_client(result) PROVE PruneInv'
    <3>1. clients_used' = clients_used /\ prune' = [prune EXCEPT !.pc = "scan", !.c = NoId]
      BY <2>3, FreeClient
    <3>2. prune'.rest = prune.rest /\ prune'.pc = "scan"
      BY <1>1, <3>1
    <3> QED BY <3>1, <3>2 DEF PruneInv, On
  <2>4. CASE uw_expunge_again \/ uw_expunge_fatal \/ PrunerEnds
    BY <1>1, <2>4 DEF uw_expunge_again, uw_expunge_fatal, UnlockClient, PrunerEnds, vars, PruneInv
  <2> QED BY <1>4, <2>1, <2>2, <2>3, <2>4
          DEF uw_prune_clients, uw_expunge, uw_expunge_ok, uw_expunge_commit_error
<1>5. CASE (\E i \in Ids : TimeoutPasses(i)) \/ (\E p \in Passes : ViewLeaves(p)) \/ UNCHANGED vars
  BY <1>5, WorldKeeps, KeepsPrune
<1> QED BY <1>2, <1>3, <1>4, <1>5 DEF Next
-----------------------------------------------------------------------------
(* The contexts *)

LEMMA ContextOthers ==
  ASSUME ContextInv, NEW w \in Workers, Alone(w),
         \A p \in Passes : view[p] # "unborn" => view'[p] # "unborn", ContextOf(w)'
  PROVE  ContextInv'
<1>1. ASSUME NEW v \in Workers, v # w PROVE ContextOf(v)'
  BY <1>1 DEF ContextInv, ContextOf, Alone
<1> QED BY <1>1 DEF ContextInv

LEMMA StepContext ==
  ASSUME TypeOK, TableInv, ContextInv, NEW w \in Workers, Step(w) \/ Arrival(w), ~new_client(w)
  PROVE  ContextOf(w)'
<1>1. /\ ctx \in [Workers -> Contexts] /\ pc \in [Workers -> WorkerPcs] /\ ctx[w] \in Contexts
      /\ view \in [Passes -> {"unborn", "making", "open", "gone"}]
      /\ n_clients \in 0 .. ClientsMax
  BY DEF TypeOK
<1>2. ContextOf(w)
  BY DEF ContextInv
<1>3. CASE Login(w)
  <2>1. CASE find_client(w)
    <3>1. ctx[w].id \in Nat
      BY <1>2, <2>1 DEF find_client, ContextOf
    <3>2. ctx[w].id < n_clients => ctx[w].id \in Ids
      BY <1>1, <3>1, ClientsMaxAssumption DEF Ids
    <3> QED BY <1>1, <1>2, <2>1, <3>2 DEF find_client, Goto, ContextOf, Inside
  <2>2. CASE pull_client(w)
    BY <1>1, <1>2, <2>2 DEF pull_client, Goto, ContextOf, Inside, Contexts
  <2>3. CASE no_client(w) \/ NoClientLeft(w) \/ check_client(w) \/ use_client(w)
    BY <1>1, <1>2, <2>3 DEF no_client, NoClientLeft, check_client, use_client, Leave, Goto,
       ContextOf, Inside
  <2> QED BY <1>3, <2>1, <2>2, <2>3 DEF Login
<1>4. CASE Body(w)
  <2>1. CASE new_channel_read(w)
    BY <1>1, <1>2, <2>1 DEF new_channel_read, Goto, ContextOf, Inside, Contexts
  <2>2. CASE new_channel(w)
    BY <1>1, <1>2, <2>2 DEF new_channel, Goto, ContextOf, Inside, Contexts
  <2>3. CASE uw_Basis_send(w)
    <3>1. /\ ctx'[w].id = ctx[w].id /\ ctx'[w].kind = ctx[w].kind /\ ctx'[w].pass = ctx[w].pass
          /\ ctx'[w].attached = ctx[w].attached /\ ctx'[w].tx = ctx[w].tx
      BY <1>1, <2>3 DEF uw_Basis_send, Contexts
    <3>2. UNCHANGED <<pc, view>>
      BY <2>3 DEF uw_Basis_send
    <3> QED BY <1>2, <3>1, <3>2 DEF ContextOf
  <2>4. CASE Abort(w)
    BY <1>1, <1>2, <2>4 DEF Abort, Leave, Goto, ContextOf, Inside
  <2> QED BY <1>4, <2>1, <2>2, <2>3, <2>4 DEF Body
<1>5. CASE LockMessages(w) \/ db_commit(w) \/ db_commit_unsent(w) \/ db_commit_fails(w) \/ NothingToSend(w)
  <2>1. CASE db_commit(w)
    BY <1>1, <1>2, <2>1 DEF db_commit, Goto, ContextOf, Inside, Contexts
  <2>2. CASE LockMessages(w) \/ db_commit_unsent(w) \/ db_commit_fails(w) \/ NothingToSend(w)
    BY <1>1, <1>2, <2>2 DEF LockMessages, db_commit_unsent, db_commit_fails, NothingToSend, Leave, Goto,
       ContextOf, Inside
  <2> QED BY <1>5, <2>1, <2>2
<1>6. CASE client_send(w)
  BY <1>1, <1>2, <1>6, ZenonT(40) DEF client_send, Leave, Goto, ContextOf, Inside, Contexts
<1>7. CASE unpull_client(w) \/ release_client(w)
  BY <1>1, <1>2, <1>7 DEF unpull_client, release_client, Goto, ContextOf, Inside
<1>8. CASE uw_transaction_departs(w)
  BY <1>1, <1>8 DEF uw_transaction_departs, Goto, ContextOf, Inside, ResetContext
<1>9. CASE Poll(w)
  <2>1. CASE PollFinds(w)
    <3>1. ctx[w].id \in Nat
      BY <1>2, <2>1 DEF PollFinds, ContextOf
    <3>2. ctx[w].id < n_clients => ctx[w].id \in Ids
      BY <1>1, <3>1, ClientsMaxAssumption DEF Ids
    <3> QED BY <1>1, <1>2, <2>1, <3>1, <3>2 DEF PollFinds, Goto, ContextOf, Inside, ResetContext
  <2>2. CASE uw_client_connect(w)
    BY <1>1, <2>2 DEF uw_client_connect, Goto, ContextOf, Inside, ResetContext
  <2> QED BY <1>9, <2>1, <2>2 DEF Poll
<1>10. CASE Arrival(w)
  <2>1. ASSUME NEW kind \in {"plain", "page", "rpc"}, NEW id \in Int, NEW pass,
               kind = "rpc" => id \in Nat, kind = "page" => pass = NoPass,
               uw_transaction_arrives(w, kind, id, pass)
        PROVE  ContextOf(w)'
    <3>1. txs + 1 \in 1 .. TxMax
      BY <2>1, BoundsAssumption DEF uw_transaction_arrives, TypeOK
    <3> QED BY <1>1, <2>1, <3>1 DEF uw_transaction_arrives, Goto, ContextOf, Inside, ResetContext
  <2>2. ASSUME NEW h \in Headers, PollArrives(w, h) PROVE ContextOf(w)'
    BY <1>1, <2>2, HeaderType DEF PollArrives, Goto, ContextOf, Inside, ResetContext
  <2>3. CASE RpcArrives(w)
    BY <2>1, <2>3, HeaderType DEF RpcArrives
  <2>4. CASE PlainArrives(w) \/ PageArrives(w)
    BY <2>1, <2>4 DEF PlainArrives, PageArrives, NoId
  <2> QED BY <1>10, <2>2, <2>3, <2>4 DEF Arrival
<1> QED BY <1>3, <1>4, <1>5, <1>6, <1>7, <1>8, <1>9, <1>10 DEF Step, Finish

LEMMA ContextStep == ASSUME IInv, [Next]_vars PROVE ContextInv'
<1> USE DEF IInv
<1>1. /\ ctx \in [Workers -> Contexts] /\ pc \in [Workers -> WorkerPcs]
      /\ view \in [Passes -> {"unborn", "making", "open", "gone"}]
  BY DEF TypeOK
<1>2. ASSUME NEW w \in Workers, new_client(w) PROVE ContextInv'
  <2>1. PICK p \in Passes, j \in Ids : /\ ctx' = [ctx EXCEPT ![w].id = j, ![w].pass = p]
                                       /\ view' = [view EXCEPT ![p] = "making"]
    BY <1>2, NewClient, ZenonT(40)
  <2>2. ContextOf(w)
    BY DEF ContextInv
  <2>3. ctx[w] \in Contexts
    BY <1>1
  <2>4. ContextOf(w)'
    BY <1>1, <1>2, <2>1, <2>2, <2>3 DEF new_client, Goto, ContextOf, Inside, Contexts
  <2>5. Alone(w) /\ \A q \in Passes : view[q] # "unborn" => view'[q] # "unborn"
    BY <1>1, <1>2, <2>1 DEF new_client, Goto, Alone
  <2> QED BY <2>4, <2>5, ContextOthers
<1>3. ASSUME NEW w \in Workers, Step(w) \/ Arrival(w), ~new_client(w) PROVE ContextInv'
  BY <1>3, StepKeeps, ArrivalKeeps, StepContext, ContextOthers DEF Keeps
<1>4. CASE uw_prune_clients
  <2>1. UNCHANGED <<pc, ctx, view>>
    BY <1>4 DEF uw_prune_clients, PrunerStarts, PrunerScans, uw_expunge, uw_expunge_again,
       uw_expunge_ok, uw_expunge_commit_error, free_client, uw_expunge_fatal, PrunerEnds, vars
  <2> QED BY <2>1 DEF ContextInv, ContextOf
<1>5. CASE (\E i \in Ids : TimeoutPasses(i)) \/ (\E p \in Passes : ViewLeaves(p)) \/ UNCHANGED vars
  BY <1>5, WorldKeeps DEF Keeps, ContextInv, ContextOf
<1> QED BY <1>2, <1>3, <1>4, <1>5 DEF Next
-----------------------------------------------------------------------------
(* Sessions *)

\* As long as nobody gets or loses a slot, other workers keep what they own.
LEMMA OwnerOthers ==
  ASSUME ContextInv, OwnerInv, NEW w \in Workers, Alone(w), Keeps, OwnerOf(w)'
  PROVE  OwnerInv'
<1>1. ASSUME NEW v \in Workers, v # w PROVE OwnerOf(v)'
  BY <1>1 DEF ContextInv, ContextOf, OwnerInv, OwnerOf, Owns, Alone, Keeps
<1> QED BY <1>1 DEF OwnerInv

LEMMA StepOwner ==
  ASSUME TypeOK, ContextInv, OwnerInv, NEW w \in Workers, Step(w) \/ Arrival(w), ~new_client(w),
         Keeps
  PROVE  OwnerOf(w)'
<1>1. ctx \in [Workers -> Contexts] /\ pc \in [Workers -> WorkerPcs] /\ ctx[w] \in Contexts
  BY DEF TypeOK
<1>2. OwnerOf(w) /\ ContextOf(w)
  BY DEF ContextInv, OwnerInv
<1>3. ASSUME ctx'[w].id = ctx[w].id, ctx'[w].pass = ctx[w].pass, ctx[w].id \in Ids, Owns(w)
      PROVE  Owns(w)'
  BY <1>3 DEF Owns, Keeps
<1>4. CASE Login(w)
  <2>1. CASE pull_client(w)
    <3>1. /\ ctx'[w].id = ctx[w].id /\ ctx'[w].pass = ctx[w].pass /\ ctx[w].id \in Ids
          /\ ctx'[w].kind = ctx[w].kind
      BY <1>1, <1>2, <2>1 DEF pull_client, Contexts, ContextOf
    <3> QED BY <1>1, <1>2, <1>3, <2>1, <3>1 DEF pull_client, Goto, OwnerOf
  <2>2. CASE check_client(w)
    <3>1. ctx' = ctx /\ client' = client
      BY <2>2 DEF check_client
    <3> QED BY <1>1, <1>2, <2>2, <3>1 DEF check_client, Accepted, Leave, Goto, OwnerOf, Owns
  <2>3. CASE use_client(w)
    BY <1>1, <1>2, <1>3, <2>3 DEF use_client, Goto, OwnerOf, ContextOf
  <2>4. CASE no_client(w) \/ find_client(w) \/ NoClientLeft(w)
    BY <1>1, <1>2, <2>4 DEF no_client, find_client, NoClientLeft, Goto, OwnerOf, ContextOf
  <2> QED BY <1>4, <2>1, <2>2, <2>3, <2>4 DEF Login
<1>5. CASE Body(w) \/ LockMessages(w) \/ db_commit(w) \/ db_commit_unsent(w) \/ db_commit_fails(w) \/ client_send(w)
           \/ NothingToSend(w)
  <2>1. /\ ctx'[w].id = ctx[w].id /\ ctx'[w].pass = ctx[w].pass
        /\ ctx'[w].attached = ctx[w].attached
    <3>1. CASE new_channel_read(w) \/ new_channel(w)
      BY <1>1, <3>1 DEF new_channel_read, new_channel, Contexts
    <3>2. CASE uw_Basis_send(w)
      BY <1>1, <3>2 DEF uw_Basis_send, Contexts
    <3>3. CASE db_commit(w)
      BY <1>1, <3>3 DEF db_commit, Contexts
    <3>4. CASE client_send(w)
      BY <1>1, <3>4, ZenonT(40) DEF client_send, Contexts
    <3>5. CASE Abort(w) \/ LockMessages(w) \/ db_commit_unsent(w) \/ db_commit_fails(w) \/ NothingToSend(w)
      BY <3>5, SMTT(40) DEF Abort, LockMessages, db_commit_unsent, db_commit_fails, NothingToSend
    <3> QED BY <1>5, <3>1, <3>2, <3>3, <3>4, <3>5 DEF Body
  <2>2. pc[w] \in {"body", "channel", "commit", "send"} /\ pc'[w] \notin {"use", "pull"}
    BY <1>1, <1>5, ZenonT(60) DEF Body, new_channel_read, new_channel, uw_Basis_send, Abort, LockMessages,
       db_commit, db_commit_unsent, db_commit_fails, client_send, NothingToSend, Leave, Goto
  <2> QED BY <1>2, <1>3, <2>1, <2>2 DEF OwnerOf, ContextOf
<1>6. CASE \/ unpull_client(w) \/ release_client(w) \/ uw_transaction_departs(w)
           \/ Poll(w) \/ Arrival(w)
  <2>1. pc'[w] \notin {"use", "pull", "body", "channel", "commit", "send"}
    BY <1>1, <1>6, ZenonT(60) DEF unpull_client, release_client, uw_transaction_departs, Poll, PollFinds,
       uw_client_connect, Arrival, PlainArrives, PageArrives, RpcArrives, PollArrives,
       uw_transaction_arrives, Goto
  <2> QED BY <2>1 DEF OwnerOf
<1> QED BY <1>4, <1>5, <1>6 DEF Step, Finish

LEMMA OwnerStep == ASSUME IInv, [Next]_vars PROVE OwnerInv'
<1> USE DEF IInv
<1>1. /\ ctx \in [Workers -> Contexts] /\ pc \in [Workers -> WorkerPcs]
      /\ client \in [Ids -> Slots] /\ \A i \in Ids : client[i] \in Slots
  BY DEF TypeOK
<1>2. ASSUME NEW w \in Workers, new_client(w) PROVE OwnerInv'
  <2>1. PICK p \in Passes, j \in Ids :
           /\ client[j].mode = "UNUSED" /\ view[p] = "unborn"
           /\ client' = [client EXCEPT ![j] = NewSlot(j, p)]
           /\ ctx' = [ctx EXCEPT ![w].id = j, ![w].pass = p]
           /\ view' = [view EXCEPT ![p] = "making"] /\ home' = [home EXCEPT ![p] = j]
           /\ clients_used' = <<j>> \o clients_used
           /\ \/ clients_free # <<>> /\ j = Head(clients_free)
                 /\ clients_free' = Tail(clients_free) /\ n_clients' = n_clients
              \/ j = n_clients /\ n_clients' = n_clients + 1
                 /\ clients_free = <<>> /\ clients_free' = <<>>
    BY <1>2, NewClient
  <2>2. client'[j].mode = "USED" /\ client'[j].pass = p /\ \A i \in Ids : i # j => client'[i] = client[i]
    BY <1>1, <2>1 DEF NewSlot, Slots
  <2>3. ctx'[w].id = j /\ ctx'[w].pass = p /\ pc'[w] = "use" /\ Alone(w)
    BY <1>1, <1>2, <2>1 DEF new_client, Goto, Alone, Contexts
  <2>4. OwnerOf(w)'
    BY <2>2, <2>3 DEF OwnerOf, Owns
  <2>5. ASSUME NEW v \in Workers, v # w PROVE OwnerOf(v)'
    <3>1. OwnerOf(v) /\ ContextOf(v) /\ pc'[v] = pc[v] /\ ctx'[v] = ctx[v]
      BY <2>3, <2>5 DEF OwnerInv, ContextInv, Alone
    <3> QED BY <2>1, <2>2, <3>1 DEF OwnerOf, Owns, ContextOf
  <2> QED BY <2>4, <2>5 DEF OwnerInv
<1>3. ASSUME NEW w \in Workers, Step(w) \/ Arrival(w), ~new_client(w) PROVE OwnerInv'
  <2>1. Keeps /\ Alone(w)
    BY <1>3, StepKeeps, ArrivalKeeps
  <2> QED BY <1>3, <2>1, StepOwner, OwnerOthers
<1>4. CASE uw_prune_clients
  <2>1. ASSUME NEW result, free_client(result) PROVE OwnerInv'
    <3>1. \A w \in Workers : pc[w] \notin Inside
      BY <2>1 DEF free_client, LockInv
    <3>2. pc' = pc
      BY <2>1 DEF free_client
    <3> QED BY <3>1, <3>2 DEF OwnerInv, OwnerOf, Inside
  <2>2. CASE PrunerStarts \/ PrunerScans \/ uw_expunge_again \/ uw_expunge_fatal \/ PrunerEnds
    <3>1. UNCHANGED <<pc, ctx, client>>
      BY <2>2 DEF PrunerStarts, PrunerScans, uw_expunge_again, uw_expunge_fatal, PrunerEnds, vars
    <3> QED BY <3>1 DEF OwnerInv, OwnerOf, Owns
  <2> QED BY <1>4, <2>1, <2>2
          DEF uw_prune_clients, uw_expunge, uw_expunge_ok, uw_expunge_commit_error
<1>5. CASE (\E i \in Ids : TimeoutPasses(i)) \/ (\E p \in Passes : ViewLeaves(p)) \/ UNCHANGED vars
  <2>1. Keeps /\ pc' = pc /\ ctx' = ctx
    BY <1>5, WorldKeeps
  <2> QED BY <2>1 DEF Keeps, OwnerInv, OwnerOf, Owns, ContextInv, ContextOf
<1> QED BY <1>2, <1>3, <1>4, <1>5 DEF Next
-----------------------------------------------------------------------------
(* The invariant of the specification *)

\* The server starts with no client, no request under way and every lock free.
LEMMA InitIInv == Init => IInv
<1> SUFFICES ASSUME Init PROVE IInv
  OBVIOUS
<1>1. \A i \in Ids : client[i] = Unallocated
  BY DEF Init
<1>2. Unallocated \in Slots
  BY EmptySeq, RefModAssumption DEF Unallocated, Slots, NoPass, NoSock
<1>3. TypeOK
  <2>1. <<>> \in Seq(Ids) /\ <<>> \in Seq(Message)
    BY EmptySeq
  <2>2. client \in [Ids -> Slots] /\ ctx \in [Workers -> Contexts]
    BY <1>2, ResetContextType DEF Init
  <2>3. 0 \in 0 .. ClientsMax /\ 0 \in 0 .. TxMax
    BY ClientsMaxAssumption, BoundsAssumption
  <2> QED BY <2>1, <2>2, <2>3 DEF Init, TypeOK, WorkerPcs
<1>4. \A w \in Workers : pc[w] = "idle" /\ ctx[w] = ResetContext
  BY DEF Init
<1>5. LockInv /\ OwnerInv
  BY <1>4 DEF Init, LockInv, OwnerInv, OwnerOf, ResetContext, Inside
<1>6. ContextInv
  BY <1>4 DEF ContextInv, ContextOf, ResetContext, Inside
<1>7. TableInv
  BY <1>1 DEF Init, TableInv, Distinct, Unallocated
<1>8. PruneInv
  BY DEF Init, PruneInv, Distinct
<1> QED BY <1>3, <1>5, <1>6, <1>7, <1>8 DEF IInv

\* Every reachable state satisfies the inductive invariant.
THEOREM Invariant == Spec => []IInv
<1>1. IInv /\ [Next]_vars => IInv'
  BY TypeStep, LockStep, ContextStep, TableStep, PruneStep, OwnerStep DEF IInv
<1> QED BY InitIInv, <1>1, PTL DEF Spec

\* Type correctness, and with it the ranges that the C code relies on without
\* checking them: a slot number is below uw_clients_max, the reference count
\* stays within its word, the lists and buffers hold what they should.
THEOREM TypeCorrect == Spec => []TypeOK
<1>1. IInv => TypeOK
  BY DEF IInv
<1> QED BY <1>1, Invariant, PTL

\* uw_login compares mode and password once, without c->lock.  Whatever other
\* transactions, polls and the pruner do, the slot keeps belonging to that page
\* view until the transaction has committed and sent its messages.
THEOREM SessionSafe == Spec => []SessionStable
<1>1. IInv => SessionStable
  BY DEF IInv, OwnerInv, OwnerOf, Owns, SessionStable
<1> QED BY <1>1, Invariant, PTL
-----------------------------------------------------------------------------
(* References to clients *)

\* Whoever is counted at a slot will release it: a request that is past its log-in
\* holds the client it names, and one that names none holds none.
AttachedOf(w) ==
  /\ pc[w] = "login" /\ ctx[w].kind # "rpc" => ctx[w].id = NoId
  /\ pc[w] \in Holding \ {"pull"} /\ ctx[w].id \in Ids => ctx[w].attached
RefInv == \A w \in Workers : AttachedOf(w)

LEMMA HoldersFinite ==
  ASSUME NEW i
  PROVE  /\ IsFiniteSet(Holders(i)) /\ Cardinality(Holders(i)) \in Nat
         /\ Cardinality(Holders(i)) <= Cardinality(Workers) /\ Cardinality(Workers) \in Nat
<1>1. Holders(i) \subseteq Workers /\ IsFiniteSet(Workers)
  BY ThreadsAssumption DEF Holders
<1> QED BY <1>1, FS_Subset, FS_CardinalityType

\* A step that is neither the beginning nor the end of a reference.
SameHolds(w) == \A i \in Ids : /\ client'[i].refcount = client[i].refcount
                               /\ Holds(w, i)' <=> Holds(w, i)

LEMMA StepHolds ==
  ASSUME TypeOK, ContextInv, NEW w \in Workers, AttachedOf(w), Step(w),
         ~new_client(w), ~use_client(w), ~release_client(w)
  PROVE  SameHolds(w)
<1>1. /\ client \in [Ids -> Slots] /\ ctx \in [Workers -> Contexts] /\ pc \in [Workers -> WorkerPcs]
      /\ \A i \in Ids : client[i] \in Slots
      /\ ctx[w] \in Contexts
  BY DEF TypeOK
<1>2. NoId \notin Ids
  BY ClientsMaxAssumption DEF Ids, NoId
<1>3. CASE Login(w)
  <2>1. CASE no_client(w) \/ NoClientLeft(w)
    <3>1. UNCHANGED <<client, ctx>> /\ pc[w] = "login" /\ ctx[w].kind # "rpc"
      BY <2>1 DEF no_client, NoClientLeft
    <3>2. pc[w] \notin Holding /\ ctx[w].id \notin Ids
      BY <1>2, <3>1 DEF AttachedOf, Holding
    <3> QED BY <3>1, <3>2 DEF SameHolds, Holds
  <2>2. CASE find_client(w)
    BY <1>1, <2>2 DEF find_client, Goto, SameHolds, Holds, Holding
  <2>3. CASE pull_client(w)
    BY <1>1, <2>3 DEF pull_client, Goto, SameHolds, Holds, Holding, Contexts
  <2>4. CASE check_client(w)
    BY <1>1, <2>4 DEF check_client, Leave, Goto, SameHolds, Holds, Holding, AttachedOf
  <2> QED BY <1>3, <2>1, <2>2, <2>3, <2>4 DEF Login
<1>4. CASE Body(w)
  <2>1. CASE new_channel_read(w)
    BY <1>1, <2>1 DEF new_channel_read, Goto, SameHolds, Holds, Holding, Contexts
  <2>2. CASE new_channel(w)
    <3>1. client' = [client EXCEPT ![ctx[w].id].n_channels = ctx[w].chn + 1]
      BY <2>2 DEF new_channel
    <3>2. \A i \in Ids : client'[i].refcount = client[i].refcount
      BY <1>1, <3>1 DEF Slots
    <3>3. ctx'[w].id = ctx[w].id /\ pc[w] \in Holding /\ pc'[w] \in Holding
      BY <1>1, <2>2 DEF new_channel, Goto, Holding, Contexts
    <3> QED BY <3>2, <3>3 DEF SameHolds, Holds
  <2>3. CASE uw_Basis_send(w)
    <3>1. ctx'[w].id = ctx[w].id
      BY <1>1, <2>3 DEF uw_Basis_send, Contexts
    <3>2. UNCHANGED <<pc, client>>
      BY <2>3 DEF uw_Basis_send
    <3> QED BY <3>1, <3>2 DEF SameHolds, Holds
  <2>4. CASE Abort(w)
    BY <1>1, <2>4 DEF Abort, Leave, Goto, SameHolds, Holds, Holding, AttachedOf
  <2> QED BY <1>4, <2>1, <2>2, <2>3, <2>4 DEF Body
<1>5. CASE LockMessages(w) \/ db_commit(w) \/ db_commit_unsent(w) \/ db_commit_fails(w) \/ NothingToSend(w)
  <2>1. CASE db_commit(w)
    BY <1>1, <2>1 DEF db_commit, Goto, SameHolds, Holds, Holding, Contexts
  <2>2. CASE LockMessages(w) \/ db_commit_unsent(w) \/ db_commit_fails(w) \/ NothingToSend(w)
    BY <1>1, <2>2 DEF LockMessages, db_commit_unsent, db_commit_fails, NothingToSend, Leave, Goto,
       SameHolds, Holds, Holding, AttachedOf
  <2> QED BY <1>5, <2>1, <2>2
<1>6. CASE client_send(w)
  <2> DEFINE d == Head(ctx[w].deltas)
             c == client[d.client]
             s == IF c.mode = "USED" /\ c.sock # NoSock THEN [c EXCEPT !.sock = NoSock]
                  ELSE IF c.mode = "USED" THEN [c EXCEPT !.msgs = Buffered(c, d.msgs)] ELSE c
  <2>1. client' = [client EXCEPT ![d.client] = s]
    BY <1>6, ZenonT(40) DEF client_send
  <2>2. \A i \in Ids : client'[i].refcount = client[i].refcount
    BY <1>1, <2>1 DEF Slots
  <2>3. ctx'[w].id = ctx[w].id /\ pc[w] = "send" /\ (pc'[w] \in Holding \/ ~ctx[w].attached)
    BY <1>1, <1>6, ZenonT(40) DEF client_send, Leave, Goto, Holding, Contexts
  <2>4. ctx[w].id \in Ids => pc[w] \in Holding /\ pc'[w] \in Holding
    BY <2>3 DEF AttachedOf, Holding
  <2> QED BY <2>2, <2>3, <2>4 DEF SameHolds, Holds
<1>7. CASE unpull_client(w)
  BY <1>1, <1>7 DEF unpull_client, Goto, SameHolds, Holds, Holding
<1>8. CASE uw_transaction_departs(w)
  BY <1>1, <1>8 DEF uw_transaction_departs, Goto, SameHolds, Holds, Holding
<1>9. CASE Poll(w)
  <2>1. pc[w] \notin Holding /\ pc'[w] \notin Holding
    BY <1>1, <1>9 DEF Poll, PollFinds, uw_client_connect, Goto, Holding
  <2>2. \A i \in Ids : client'[i].refcount = client[i].refcount
    <3>1. CASE PollFinds(w)
      BY <3>1 DEF PollFinds
    <3>2. CASE uw_client_connect(w)
      BY <1>1, <3>2, SMTT(40) DEF uw_client_connect, Connected, Slots
    <3> QED BY <1>9, <3>1, <3>2 DEF Poll
  <2> QED BY <2>1, <2>2 DEF SameHolds, Holds
<1> QED BY <1>3, <1>4, <1>5, <1>6, <1>7, <1>8, <1>9 DEF Step, Finish

LEMMA ArrivalHolds ==
  ASSUME TypeOK, NEW w \in Workers, Arrival(w) PROVE SameHolds(w)
<1>1. pc \in [Workers -> WorkerPcs]
  BY DEF TypeOK
<1>2. client' = client /\ pc[w] = "idle" /\ pc'[w] \in {"login", "find"}
  BY <1>1, ZenonT(40) DEF Arrival, PlainArrives, PageArrives, RpcArrives, PollArrives, uw_transaction_arrives, Goto
<1> QED BY <1>2 DEF SameHolds, Holds, Holding

LEMMA StepAttached ==
  ASSUME TypeOK, ContextInv, NEW w \in Workers, AttachedOf(w), Step(w) \/ Arrival(w)
  PROVE  AttachedOf(w)'
<1>1. /\ ctx \in [Workers -> Contexts] /\ pc \in [Workers -> WorkerPcs] /\ ctx[w] \in Contexts
  BY DEF TypeOK
<1>2. NoId \notin Ids
  BY ClientsMaxAssumption DEF Ids, NoId
<1>3. CASE Login(w)
  <2>1. CASE no_client(w) \/ NoClientLeft(w) \/ check_client(w) \/ use_client(w)
    BY <1>1, <1>2, <2>1 DEF no_client, NoClientLeft, check_client, use_client, Leave, Goto, AttachedOf,
       ContextInv, ContextOf, Holding
  <2>2. CASE find_client(w)
    BY <1>1, <2>2 DEF find_client, Goto, AttachedOf, Holding
  <2>3. CASE pull_client(w)
    BY <1>1, <2>3 DEF pull_client, Goto, AttachedOf, Holding, Contexts
  <2>4. CASE new_client(w)
    <3>1. ctx'[w].kind = ctx[w].kind
      BY <1>1, <2>4 DEF new_client, Contexts
    <3>2. pc[w] = "login" /\ pc'[w] = "use"
      BY <1>1, <2>4 DEF new_client, Goto
    <3> QED BY <3>1, <3>2 DEF AttachedOf, Holding
  <2> QED BY <1>3, <2>1, <2>2, <2>3, <2>4 DEF Login
<1>4. CASE Body(w)
  <2>1. /\ ctx'[w].id = ctx[w].id /\ ctx'[w].kind = ctx[w].kind /\ ctx'[w].attached = ctx[w].attached
    <3>1. CASE new_channel_read(w)
      BY <1>1, <3>1 DEF new_channel_read, Contexts
    <3>2. CASE new_channel(w)
      BY <1>1, <3>2 DEF new_channel, Contexts
    <3>3. CASE uw_Basis_send(w)
      BY <1>1, <3>3 DEF uw_Basis_send, Contexts
    <3>4. CASE Abort(w)
      BY <3>4 DEF Abort
    <3> QED BY <1>4, <3>1, <3>2, <3>3, <3>4 DEF Body
  <2>2. pc[w] \in {"body", "channel"} /\ pc'[w] \in {"body", "channel", "unpull", "depart"}
    BY <1>1, <1>4, ZenonT(60) DEF Body, new_channel_read, new_channel, uw_Basis_send, Abort, Leave, Goto
  <2> QED BY <2>1, <2>2 DEF AttachedOf, Holding
<1>5. CASE Finish(w) /\ ~uw_transaction_departs(w)
  <2>1. /\ ctx'[w].id = ctx[w].id /\ ctx'[w].kind = ctx[w].kind /\ ctx'[w].attached = ctx[w].attached
    <3>1. CASE db_commit(w)
      BY <1>1, <3>1 DEF db_commit, Contexts
    <3>2. CASE client_send(w)
      BY <1>1, <3>2 DEF client_send, Contexts
    <3>3. CASE ctx' = ctx
      BY <3>3
    <3> QED BY <1>5, <3>1, <3>2, <3>3 DEF Finish, LockMessages, db_commit_unsent, db_commit_fails, NothingToSend,
            unpull_client, release_client
  <2>2. /\ pc[w] \in {"body", "commit", "send", "unpull", "unuse"}
        /\ pc'[w] \in {"commit", "send", "unpull", "unuse", "depart"}
    <3>1. CASE LockMessages(w) \/ db_commit(w) \/ db_commit_unsent(w) \/ db_commit_fails(w) \/ NothingToSend(w)
               \/ unpull_client(w) \/ release_client(w)
      BY <1>1, <3>1, ZenonT(40) DEF LockMessages, db_commit, db_commit_unsent, db_commit_fails, NothingToSend, unpull_client,
         release_client, Leave, Goto
    <3>2. CASE client_send(w)
      BY <1>1, <3>2, ZenonT(40) DEF client_send, Leave, Goto
    <3> QED BY <1>5, <3>1, <3>2 DEF Finish
  <2> QED BY <2>1, <2>2 DEF AttachedOf, Holding
<1>6. CASE uw_transaction_departs(w) \/ Poll(w)
  <2>1. pc'[w] \in {"idle", "connect"}
    BY <1>1, <1>6 DEF uw_transaction_departs, Poll, PollFinds, uw_client_connect, Goto
  <2> QED BY <2>1 DEF AttachedOf, Holding
<1>7. CASE Arrival(w)
  <2>1. ASSUME NEW kind \in {"plain", "page"}, uw_transaction_arrives(w, kind, NoId, NoPass)
        PROVE  AttachedOf(w)'
    BY <1>1, <2>1 DEF uw_transaction_arrives, Goto, AttachedOf, Holding, ResetContext
  <2>2. ASSUME NEW h \in Headers, PollArrives(w, h) PROVE AttachedOf(w)'
    BY <1>1, <2>2 DEF PollArrives, Goto, AttachedOf, Holding
  <2>3. ASSUME NEW h \in Headers, uw_transaction_arrives(w, "rpc", h.id, h.pass)
        PROVE  AttachedOf(w)'
    BY <1>1, <2>3 DEF uw_transaction_arrives, Goto, AttachedOf, Holding, ResetContext
  <2> QED BY <1>7, <2>1, <2>2, <2>3 DEF Arrival, PlainArrives, PageArrives, RpcArrives
<1> QED BY <1>3, <1>4, <1>5, <1>6, <1>7 DEF Step

\* A reference taken and a reference given back, counted without overflow.
LEMMA HoldersCounted ==
  ASSUME Cardinality(Workers) < RefMod, NEW w \in Workers, NEW i \in Ids, Counted(i)
  PROVE  /\ ~Holds(w, i) => (client[i].refcount + 1) % RefMod = Cardinality(Holders(i) \cup {w})
         /\ Holds(w, i) => Released(client[i].refcount) = Cardinality(Holders(i) \ {w})
<1> DEFINE n == Cardinality(Holders(i))
<1>1. client[i].refcount = n /\ n \in Nat /\ IsFiniteSet(Holders(i))
  BY HoldersFinite DEF Counted
<1>2. ASSUME ~Holds(w, i) PROVE (client[i].refcount + 1) % RefMod = Cardinality(Holders(i) \cup {w})
  <2>1. w \notin Holders(i)
    BY <1>2 DEF Holders
  <2>2. Cardinality(Holders(i) \cup {w}) = n + 1
    BY <1>1, <2>1, FS_AddElement
  <2>3. IsFiniteSet(Holders(i) \cup {w}) /\ Holders(i) \cup {w} \subseteq Workers
    BY <1>1, FS_AddElement DEF Holders
  <2>4. n + 1 <= Cardinality(Workers) /\ Cardinality(Workers) \in Nat
    BY <2>2, <2>3, ThreadsAssumption, FS_Subset, FS_CardinalityType
  <2>5. (n + 1) % RefMod = n + 1
    BY <1>1, <2>4, RefModAssumption
  <2> QED BY <1>1, <2>2, <2>5
<1>3. ASSUME Holds(w, i) PROVE Released(client[i].refcount) = Cardinality(Holders(i) \ {w})
  <2>1. w \in Holders(i)
    BY <1>3 DEF Holders
  <2>2. Cardinality(Holders(i) \ {w}) = n - 1 /\ Cardinality(Holders(i) \ {w}) \in Nat
    BY <1>1, <2>1, FS_RemoveElement, FS_CardinalityType
  <2>3. n <= Cardinality(Workers) /\ Cardinality(Workers) \in Nat
    BY HoldersFinite
  <2>4. (n - 1) % RefMod = n - 1
    BY <1>1, <2>2, <2>3, RefModAssumption
  <2> QED BY <1>1, <2>2, <2>4 DEF Released
<1> QED BY <1>2, <1>3

\* The others hold what they held; w holds what it did, takes a client or gives one back.
LEMMA UseCounted ==
  ASSUME IInv, Cardinality(Workers) < RefMod, NEW w \in Workers, use_client(w) \/ release_client(w)
  PROVE  \A i \in Ids : Counted(i) => Counted(i)'
<1>0. ctx[w].id \in Ids
  BY DEF IInv, ContextInv, ContextOf, use_client, release_client
<1> SUFFICES ASSUME NEW k \in Ids, k = ctx[w].id
             PROVE  \A i \in Ids : Counted(i) => Counted(i)'
  BY <1>0
<1>1. /\ client \in [Ids -> Slots] /\ pc \in [Workers -> WorkerPcs] /\ \A i \in Ids : client[i] \in Slots
  BY DEF IInv, TypeOK
<1>2. ctx' = ctx
  BY DEF use_client, release_client
<1>3. \A v \in Workers : v # w => \A i : Holds(v, i)' <=> Holds(v, i)
  BY <1>1, <1>2 DEF use_client, release_client, Goto, Holds
<1>4. \A i \in Ids : i # k => Holders(i)' = Holders(i) /\ client'[i].refcount = client[i].refcount
  <2>1. \A i \in Ids : i # k => ~Holds(w, i) /\ ~Holds(w, i)'
    BY <1>2 DEF Holds
  <2>2. \A i \in Ids : i # k => Holders(i)' = Holders(i)
    BY <1>3, <2>1 DEF Holders
  <2>3. \A i \in Ids : i # k => client'[i] = client[i]
    BY <1>1, <1>2 DEF use_client, release_client
  <2> QED BY <2>2, <2>3
<1>5. CASE use_client(w)
  <2>1. ~Holds(w, k) /\ Holds(w, k)'
    BY <1>1, <1>2, <1>5 DEF use_client, Goto, Holds, Holding
  <2>2. Holders(k)' = Holders(k) \cup {w}
    BY <1>3, <2>1 DEF Holders
  <2>3. client'[k].refcount = (client[k].refcount + 1) % RefMod
    BY <1>1, <1>2, <1>5 DEF use_client, Slots
  <2>4. Counted(k) => client'[k].refcount = Cardinality(Holders(k)')
    BY <1>2, <2>1, <2>2, <2>3, HoldersCounted
  <2> QED BY <1>4, <2>4 DEF Counted
<1>6. CASE release_client(w)
  <2>1. Holds(w, k) /\ ~Holds(w, k)'
    BY <1>1, <1>2, <1>6 DEF release_client, Goto, Holds, Holding
  <2>2. Holders(k)' = Holders(k) \ {w}
    BY <1>3, <2>1 DEF Holders
  <2>3. client'[k].refcount = Released(client[k].refcount)
    BY <1>1, <1>2, <1>6 DEF release_client, Slots
  <2>4. Counted(k) => client'[k].refcount = Cardinality(Holders(k)')
    BY <1>2, <2>1, <2>2, <2>3, HoldersCounted
  <2> QED BY <1>4, <2>4 DEF Counted
<1> QED BY <1>5, <1>6

\* The count of a slot that is taken begins at zero, and the other slots are
\* left alone.
LEMMA NewCounted ==
  ASSUME IInv, NEW w \in Workers, new_client(w)
  PROVE  \A i \in Ids : Counted(i) /\ ~TakenHeld(i) => Counted(i)'
<1>1. PICK p \in Passes, j \in Ids :
         /\ client[j].mode = "UNUSED"
         /\ client' = [client EXCEPT ![j] = NewSlot(j, p)]
         /\ ctx' = [ctx EXCEPT ![w].id = j, ![w].pass = p]
  BY NewClient, ZenonT(40) DEF IInv
<1>2. /\ client \in [Ids -> Slots] /\ pc \in [Workers -> WorkerPcs] /\ ctx \in [Workers -> Contexts]
      /\ \A i \in Ids : client[i] \in Slots
  BY DEF IInv, TypeOK
<1>3. pc[w] = "login" /\ pc'[w] = "use" /\ Alone(w)
  BY <1>1, <1>2 DEF new_client, Goto, Alone
<1>4. \A v \in Workers, i \in Ids : Holds(v, i)' <=> Holds(v, i)
  BY <1>3 DEF Holds, Holding, Alone
<1>5. \A i \in Ids : Holders(i)' = Holders(i)
  BY <1>4 DEF Holders
<1>6. \A i \in Ids : i # j => client'[i] = client[i]
  BY <1>1, <1>2
<1>7. client'[j].mode = "USED" /\ client'[j].refcount = 0
  BY <1>1, <1>2 DEF NewSlot, Slots
<1>8. ~TakenHeld(j) => Holders(j)' = {} /\ client'[j].refcount = 0
  BY <1>1, <1>5, <1>7 DEF TakenHeld
<1> QED BY <1>5, <1>6, <1>8, FS_EmptySet DEF Counted

\* A step that changes no count and no holder.
LEMMA SameCounted ==
  ASSUME \A i \in Ids : client'[i].refcount = client[i].refcount /\ Holders(i)' = Holders(i)
  PROVE  \A i \in Ids : Counted(i) => Counted(i)'
  BY DEF Counted

LEMMA RefStep ==
  ASSUME Cardinality(Workers) < RefMod, IInv, RefInv, [Next]_vars
  PROVE  RefInv' /\ \A i \in Ids : Counted(i) /\ ~TakenHeld(i) => Counted(i)'
<1> DEFINE Kept == \A i \in Ids : Counted(i) /\ ~TakenHeld(i) => Counted(i)'
<1>1. ASSUME NEW w \in Workers, Step(w) \/ Arrival(w) PROVE RefInv' /\ Kept
  <2>1. AttachedOf(w)'
    BY <1>1, StepAttached DEF IInv, RefInv
  <2>2. Alone(w)
    <3>1. CASE new_client(w)
      BY <3>1, NewClient, ZenonT(40) DEF IInv, TypeOK, new_client, Goto, Alone
    <3> QED BY <1>1, <3>1, StepKeeps, ArrivalKeeps DEF IInv
  <2>3. RefInv'
    <3>1. ASSUME NEW v \in Workers, v # w PROVE AttachedOf(v)'
      BY <2>2, <3>1 DEF Alone, AttachedOf, RefInv
    <3> QED BY <2>1, <3>1 DEF RefInv
  <2>4. CASE new_client(w)
    BY <2>3, <2>4, NewCounted
  <2>5. CASE use_client(w) \/ release_client(w)
    BY <2>3, <2>5, UseCounted
  <2>6. CASE ~new_client(w) /\ ~use_client(w) /\ ~release_client(w)
    <3>1. SameHolds(w)
      BY <1>1, <2>6, StepHolds, ArrivalHolds DEF IInv, RefInv
    <3>2. \A i \in Ids : Holders(i)' = Holders(i)
      <4>1. \A v \in Workers, i \in Ids : Holds(v, i)' <=> Holds(v, i)
        BY <2>2, <3>1 DEF SameHolds, Alone, Holds
      <4> QED BY <4>1 DEF Holders
    <3> QED BY <2>3, <3>1, <3>2, SameCounted DEF SameHolds
  <2> QED BY <2>4, <2>5, <2>6
<1>2. ASSUME NEW result, free_client(result) PROVE RefInv' /\ Kept
  <2>1. /\ client' = [client EXCEPT ![prune.c] = [client[prune.c] EXCEPT
                                                    !.mode = "UNUSED", !.pass = NoPass]]
        /\ prune.c \in Ids
    BY <1>2, FreeClient DEF IInv
  <2>2. pc' = pc /\ ctx' = ctx
    BY <1>2 DEF free_client
  <2>3. \A i \in Ids : client'[i].refcount = client[i].refcount /\ Holders(i)' = Holders(i)
    BY <2>1, <2>2 DEF IInv, TypeOK, Slots, Holders, Holds
  <2> QED BY <2>2, <2>3, SameCounted DEF RefInv, AttachedOf
<1>3. ASSUME UNCHANGED <<client, pc, ctx>> PROVE RefInv' /\ Kept
  BY <1>3 DEF RefInv, AttachedOf, Counted, Holders, Holds
<1>4. CASE \/ PrunerStarts \/ PrunerScans \/ uw_expunge_again \/ uw_expunge_fatal \/ PrunerEnds
           \/ UNCHANGED vars \/ \E p \in Passes : ViewLeaves(p)
  <2>1. UNCHANGED <<client, pc, ctx>>
    BY <1>4 DEF PrunerStarts, PrunerScans, uw_expunge_again, uw_expunge_fatal, PrunerEnds, vars, ViewLeaves
  <2> QED BY <2>1, <1>3
<1>5. ASSUME NEW i \in Ids, TimeoutPasses(i) PROVE RefInv' /\ Kept
  <2>1. UNCHANGED <<pc, ctx>> /\ client' = [client EXCEPT ![i].recent = FALSE]
    BY <1>5 DEF TimeoutPasses
  <2>2. \A j \in Ids : client'[j].refcount = client[j].refcount /\ Holders(j)' = Holders(j)
    BY <2>1 DEF IInv, TypeOK, Slots, Holders, Holds
  <2> QED BY <2>1, <2>2, SameCounted DEF RefInv, AttachedOf
<1> QED BY <1>1, <1>2, <1>4, <1>5 DEF Next, uw_prune_clients, uw_expunge, uw_expunge_ok,
        uw_expunge_commit_error

\* Where refcount has room for one reference of every thread, no log-in, admitted
\* or refused, no end of a transaction, no poll and no sweep upsets it: a refcount
\* that is the number of transactions holding the slot stays that number, RPCs
\* that name a slot of somebody else included.  The one step that can upset it is
\* new_client's, on a slot that such an RPC still holds (use_client,
\* release_client, new_client).
THEOREM ReferencesSafe ==
  ASSUME Cardinality(Workers) < RefMod
  PROVE  Spec => ReferencesKept
<1>1. Init => RefInv
  BY DEF Init, RefInv, AttachedOf, Holding
<1>2. IInv /\ RefInv /\ [Next]_vars =>
        RefInv' /\ [\A i \in Ids : Counted(i) /\ ~TakenHeld(i) => Counted(i)']_vars
  BY RefStep
<1> QED BY <1>1, <1>2, Invariant, PTL DEF Spec, ReferencesKept
-----------------------------------------------------------------------------
(* More safety properties, on top of that invariant: NoStaleChannels,       *)
(* ListsPartition, ChannelsFresh, StreamExact and NoMisdelivery, and that   *)
(* the table implements Mailboxes.tla.                                      *)

USE DEF table, locks, history
-----------------------------------------------------------------------------
(* Channels in the database *)

\* The channels a transaction makes are its own client's, until it commits.
MadeOf(w) ==
  /\ pc[w] \in {"login", "use", "pull", "check"} => ctx[w].made = {}
  /\ pc[w] \in {"body", "channel", "commit"} => \A ch \in ctx[w].made :
       ctx[w].attached /\ ch.cli = ctx[w].id /\ ch.view = ctx[w].pass
MadeInv == \A w \in Workers : MadeOf(w)

\* new_client leaves the rest of its context alone.
LEMMA NewClientContext ==
  ASSUME TypeOK, TableInv, NEW w \in Workers, new_client(w)
  PROVE  /\ ctx'[w].made = ctx[w].made /\ pc' = [pc EXCEPT ![w] = "use"]
         /\ \A v \in Workers : v # w => ctx'[v] = ctx[v]
<1>1. ctx \in [Workers -> Contexts]
  BY DEF TypeOK
<1>2. PICK p \in Passes, j \in Ids :
         /\ client[j].mode = "UNUSED" /\ view[p] = "unborn"
         /\ client' = [client EXCEPT ![j] = NewSlot(j, p)]
         /\ ctx' = [ctx EXCEPT ![w].id = j, ![w].pass = p]
         /\ view' = [view EXCEPT ![p] = "making"] /\ home' = [home EXCEPT ![p] = j]
         /\ clients_used' = <<j>> \o clients_used
         /\ \/ clients_free # <<>> /\ j = Head(clients_free)
               /\ clients_free' = Tail(clients_free) /\ n_clients' = n_clients
            \/ j = n_clients /\ n_clients' = n_clients + 1
               /\ clients_free = <<>> /\ clients_free' = <<>>
  BY NewClient
<1>3. ctx[w] \in Contexts
  BY <1>1
<1>4. ctx'[w].made = ctx[w].made
  BY <1>1, <1>2, <1>3 DEF Contexts
<1>5. pc' = [pc EXCEPT ![w] = "use"]
  BY DEF new_client, Goto
<1> QED BY <1>1, <1>2, <1>4, <1>5

\* A worker's own step, the creation of its client included.
LEMMA MadeOwn ==
  ASSUME IInv, MadeInv, NEW w \in Workers, Step(w) \/ Arrival(w) PROVE MadeOf(w)'
<1>1. /\ ctx \in [Workers -> Contexts] /\ pc \in [Workers -> WorkerPcs] /\ ctx[w] \in Contexts
  BY DEF IInv, TypeOK
<1>2. MadeOf(w) /\ ContextOf(w)
  BY DEF MadeInv, IInv, ContextInv
<1>3. CASE Login(w)
  <2>1. CASE new_client(w)
    <3>1. ctx'[w].made = ctx[w].made /\ pc' = [pc EXCEPT ![w] = "use"]
      BY <2>1, NewClientContext DEF IInv
    <3>2. pc[w] = "login"
      BY <2>1 DEF new_client
    <3> QED BY <1>1, <1>2, <3>1, <3>2 DEF MadeOf
  <2>2. CASE pull_client(w)
    <3>1. ctx'[w].made = ctx[w].made
      BY <1>1, <2>2 DEF pull_client, Contexts
    <3> QED BY <1>1, <1>2, <2>2, <3>1 DEF pull_client, Goto, MadeOf
  <2>3. CASE no_client(w) \/ find_client(w) \/ NoClientLeft(w) \/ use_client(w) \/ check_client(w)
    BY <1>1, <1>2, <2>3 DEF no_client, find_client, NoClientLeft, use_client, check_client,
       Leave, Goto, MadeOf
  <2> QED BY <1>3, <2>1, <2>2, <2>3 DEF Login
<1>4. CASE Body(w)
  <2>1. CASE new_channel(w)
    <3>1. /\ ctx'[w].made = ctx[w].made \cup
               {[cli |-> ctx[w].id, chn |-> ctx[w].chn, view |-> ctx[w].pass]}
          /\ ctx'[w].id = ctx[w].id /\ ctx'[w].pass = ctx[w].pass
          /\ ctx'[w].attached = ctx[w].attached
      BY <1>1, <2>1 DEF new_channel, Contexts
    <3> QED BY <1>1, <1>2, <2>1, <3>1 DEF new_channel, Goto, MadeOf, ContextOf
  <2>2. CASE new_channel_read(w) \/ uw_Basis_send(w) \/ Abort(w)
    <3>1. /\ ctx'[w].made = ctx[w].made
          /\ ctx'[w].id = ctx[w].id /\ ctx'[w].pass = ctx[w].pass
          /\ ctx'[w].attached = ctx[w].attached
      <4>1. CASE new_channel_read(w)
        BY <1>1, <4>1 DEF new_channel_read, Contexts
      <4>2. CASE uw_Basis_send(w)
        BY <1>1, <4>2 DEF uw_Basis_send, Contexts
      <4>3. CASE Abort(w)
        BY <4>3, SMTT(40) DEF Abort
      <4> QED BY <2>2, <4>1, <4>2, <4>3
    <3>2. pc[w] = "body"
      BY <2>2, ZenonT(60) DEF new_channel_read, uw_Basis_send, Abort
    <3>3. pc'[w] \in {"body", "channel", "unpull", "depart"}
      BY <1>1, <2>2, ZenonT(40) DEF new_channel_read, uw_Basis_send, Abort, Leave, Goto
    <3> QED BY <1>2, <3>1, <3>2, <3>3 DEF MadeOf
  <2> QED BY <1>4, <2>1, <2>2 DEF Body
<1>5. CASE LockMessages(w)
  BY <1>1, <1>2, <1>5 DEF LockMessages, Goto, MadeOf
<1>6. CASE Arrival(w)
  <2>1. ctx'[w].made = {}
    BY <1>1, <1>6, ZenonT(60) DEF Arrival, PlainArrives, PageArrives, RpcArrives, PollArrives,
       uw_transaction_arrives, ResetContext
  <2> QED BY <2>1 DEF MadeOf
<1>7. CASE \/ db_commit(w) \/ db_commit_unsent(w) \/ db_commit_fails(w) \/ client_send(w) \/ NothingToSend(w)
           \/ unpull_client(w) \/ release_client(w) \/ uw_transaction_departs(w) \/ Poll(w)
  <2>1. pc'[w] \notin {"login", "use", "pull", "check", "body", "channel", "commit"}
    BY <1>1, <1>7, ZenonT(60) DEF db_commit, db_commit_unsent, db_commit_fails, client_send, NothingToSend, unpull_client,
       release_client, uw_transaction_departs, Poll, PollFinds, uw_client_connect, Leave, Goto
  <2> QED BY <2>1 DEF MadeOf
<1> QED BY <1>3, <1>4, <1>5, <1>6, <1>7 DEF Step, Finish

LEMMA MadeStep == ASSUME IInv, MadeInv, [Next]_vars PROVE MadeInv'
<1>1. ctx \in [Workers -> Contexts] /\ pc \in [Workers -> WorkerPcs]
  BY DEF IInv, TypeOK
<1>2. ASSUME NEW w \in Workers, Step(w) \/ Arrival(w) PROVE MadeInv'
  <2>1. Alone(w)
    <3>1. CASE new_client(w)
      BY <1>1, <3>1, NewClientContext DEF IInv, Alone
    <3> QED BY <1>2, <3>1, StepKeeps, ArrivalKeeps DEF IInv
  <2>2. ASSUME NEW v \in Workers, v # w PROVE MadeOf(v)'
    BY <2>1, <2>2 DEF Alone, MadeInv, MadeOf
  <2> QED BY <1>2, <2>2, MadeOwn DEF MadeInv
<1>3. CASE uw_prune_clients
  <2>1. UNCHANGED <<pc, ctx>>
    BY <1>3 DEF uw_prune_clients, PrunerStarts, PrunerScans, uw_expunge, uw_expunge_again,
       uw_expunge_ok, uw_expunge_commit_error, free_client, uw_expunge_fatal, PrunerEnds, vars
  <2> QED BY <2>1 DEF MadeInv, MadeOf
<1>4. CASE (\E i \in Ids : TimeoutPasses(i)) \/ (\E p \in Passes : ViewLeaves(p)) \/ UNCHANGED vars
  BY <1>4, WorldKeeps DEF IInv, MadeInv, MadeOf
<1> QED BY <1>2, <1>3, <1>4 DEF Next

\* Only a commit adds channels to the database.
LEMMA DbKeeps ==
  ASSUME NEW w \in Workers, Step(w) \/ Arrival(w), ~db_commit(w), ~db_commit_unsent(w)
  PROVE  db' = db
<1>1. CASE Login(w)
  BY <1>1 DEF Login, no_client, find_client, new_client, NoClientLeft, use_client, pull_client,
     check_client
<1>2. CASE Body(w) \/ Poll(w)
  BY <1>2, ZenonT(60) DEF Body, new_channel_read, new_channel, uw_Basis_send, Abort, Poll, PollFinds,
     uw_client_connect
<1>3. CASE Finish(w)
  BY <1>3, ZenonT(60) DEF Finish, LockMessages, db_commit_fails, client_send, NothingToSend, unpull_client,
     release_client, uw_transaction_departs
<1>4. CASE Arrival(w)
  BY <1>4, ZenonT(40) DEF Arrival, PlainArrives, PageArrives, RpcArrives, PollArrives, uw_transaction_arrives
<1> QED BY <1>1, <1>2, <1>3, <1>4 DEF Step

LEMMA StaleStep ==
  ASSUME ExpungerDeletes, "commit_error" \notin ExpungeResults,
         IInv, MadeInv, NoStaleChannels, [Next]_vars
  PROVE  NoStaleChannels'
<1> USE DEF IInv
<1>1. /\ client \in [Ids -> Slots] /\ \A i \in Ids : client[i] \in Slots
      /\ ctx \in [Workers -> Contexts] /\ \A w \in Workers : ctx[w].made \subseteq Channel
      /\ \A ch \in db : ch.cli \in Ids /\ ch \in Channel
  BY DEF TypeOK, Contexts, Channel
<1>2. ASSUME Keeps, db' = db PROVE NoStaleChannels'
  BY <1>1, <1>2 DEF Keeps, NoStaleChannels
<1>3. ASSUME NEW w \in Workers, Step(w) \/ Arrival(w) PROVE NoStaleChannels'
  <2>1. CASE new_client(w)
    <3>1. PICK p \in Passes, j \in Ids :
             /\ client[j].mode = "UNUSED" /\ view[p] = "unborn"
             /\ client' = [client EXCEPT ![j] = NewSlot(j, p)]
             /\ ctx' = [ctx EXCEPT ![w].id = j, ![w].pass = p]
             /\ view' = [view EXCEPT ![p] = "making"] /\ home' = [home EXCEPT ![p] = j]
             /\ clients_used' = <<j>> \o clients_used
             /\ \/ clients_free # <<>> /\ j = Head(clients_free)
                   /\ clients_free' = Tail(clients_free) /\ n_clients' = n_clients
                \/ j = n_clients /\ n_clients' = n_clients + 1
                   /\ clients_free = <<>> /\ clients_free' = <<>>
      BY <2>1, NewClient
    <3>2. db' = db /\ \A ch \in db : ch.cli # j /\ client'[ch.cli] = client[ch.cli]
      BY <1>1, <2>1, <3>1 DEF new_client, NoStaleChannels
    <3> QED BY <3>2 DEF NoStaleChannels
  <2>2. CASE db_commit(w) \/ db_commit_unsent(w)
    <3>1. db' = db \cup ctx[w].made /\ client' = client /\ pc[w] = "commit"
      BY <2>2 DEF db_commit, db_commit_unsent
    <3>2. ASSUME NEW ch \in ctx[w].made
          PROVE  client[ch.cli].mode = "USED" /\ client[ch.cli].pass = ch.view
      BY <3>1 DEF MadeInv, MadeOf, OwnerInv, OwnerOf, Owns
    <3> QED BY <3>1, <3>2 DEF NoStaleChannels
  <2>3. CASE ~new_client(w) /\ ~db_commit(w) /\ ~db_commit_unsent(w)
    BY <1>2, <1>3, <2>3, DbKeeps, StepKeeps, ArrivalKeeps
  <2> QED BY <2>1, <2>2, <2>3
<1>4. CASE uw_prune_clients
  <2>1. CASE uw_expunge_ok
    <3>1. /\ client' = [client EXCEPT ![prune.c] = [client[prune.c] EXCEPT
                                                      !.mode = "UNUSED", !.pass = NoPass]]
          /\ prune.c \in Ids
      BY <2>1, FreeClient DEF uw_expunge_ok
    <3>2. db' = {ch \in db : ch.cli # prune.c}
      BY <2>1 DEF uw_expunge_ok, free_client
    <3>3. \A ch \in db' : ch \in db /\ client'[ch.cli] = client[ch.cli]
      BY <1>1, <3>1, <3>2
    <3> QED BY <3>3 DEF NoStaleChannels
  <2>2. CASE PrunerStarts \/ PrunerScans \/ uw_expunge_again \/ uw_expunge_fatal \/ PrunerEnds
    <3>1. UNCHANGED <<client, db>>
      BY <2>2 DEF PrunerStarts, PrunerScans, uw_expunge_again, uw_expunge_fatal, PrunerEnds, vars
    <3> QED BY <3>1 DEF NoStaleChannels
  <2>3. ~uw_expunge_commit_error
    BY DEF uw_expunge_commit_error, free_client
  <2> QED BY <1>4, <2>1, <2>2, <2>3 DEF uw_prune_clients, uw_expunge
<1>5. CASE (\E i \in Ids : TimeoutPasses(i)) \/ (\E p \in Passes : ViewLeaves(p)) \/ UNCHANGED vars
  <2>1. db' = db
    BY <1>5 DEF TimeoutPasses, ViewLeaves, vars
  <2> QED BY <1>2, <1>5, <2>1, WorldKeeps
<1> QED BY <1>3, <1>4, <1>5 DEF Next

\* If the application's expunger deletes the client's rows, and no COMMIT of an
\* expunge transaction fails for good, the database never holds a channel of a
\* page view whose slot was freed or given to another view: the transactions
\* that could still write one are shut out by expunge_lock.
THEOREM StaleFree ==
  ASSUME ExpungerDeletes, "commit_error" \notin ExpungeResults
  PROVE  Spec => []NoStaleChannels
<1>1. Init => IInv /\ MadeInv /\ NoStaleChannels
  BY InitIInv DEF Init, MadeInv, MadeOf, NoStaleChannels
<1>2. IInv /\ MadeInv /\ NoStaleChannels /\ [Next]_vars => (IInv /\ MadeInv /\ NoStaleChannels)'
  <2>1. IInv /\ [Next]_vars => IInv'
    BY TypeStep, LockStep, ContextStep, TableStep, PruneStep, OwnerStep DEF IInv
  <2> QED BY <2>1, MadeStep, StaleStep
<1> QED BY <1>1, <1>2, PTL DEF Spec
-----------------------------------------------------------------------------
(* The lists partition the table *)

\* An allocated slot that is UNUSED is on the free list, and the only slot the
\* pruner keeps locked is the one it expunges.
PartitionInv ==
  /\ \A i \in Ids : i < n_clients /\ client[i].mode = "UNUSED" => On(clients_free, i)
  /\ \A i \in Ids : lock[i] # NoOne => prune.pc = "expunge" /\ prune.c = i

LEMMA PartitionStep == ASSUME IInv, PartitionInv, [Next]_vars PROVE PartitionInv'
<1> USE DEF IInv
<1>1. /\ client \in [Ids -> Slots] /\ \A i \in Ids : client[i] \in Slots
      /\ lock \in [Ids -> {NoOne, Pruner}] /\ n_clients \in 0 .. ClientsMax
      /\ prune \in [pc : {"sleep", "scan", "expunge"}, rest : Seq(Ids), c : Ids \cup {NoId}]
      /\ clients_free \in Seq(Ids) /\ Len(clients_free) \in Nat
      /\ \A k \in 1 .. Len(clients_free) : clients_free[k] \in Ids
  BY ElementOfSeq DEF TypeOK
<1>2. ASSUME Keeps, UNCHANGED <<lock, prune>> PROVE PartitionInv'
  BY <1>2 DEF Keeps, PartitionInv
<1>3. ASSUME NEW w \in Workers, Step(w) \/ Arrival(w) PROVE PartitionInv'
  <2>1. lock' = lock
    <3>1. CASE Login(w)
      BY <3>1, SMTT(40) DEF Login, no_client, find_client, new_client, NoClientLeft, use_client,
         pull_client, check_client
    <3>2. CASE Body(w) \/ Poll(w)
      BY <3>2, ZenonT(60) DEF Body, new_channel_read, new_channel, uw_Basis_send, Abort, Poll, PollFinds,
         uw_client_connect
    <3>3. CASE Finish(w)
      BY <3>3, ZenonT(60) DEF Finish, LockMessages, db_commit, db_commit_unsent, db_commit_fails, client_send, NothingToSend,
         unpull_client, release_client, uw_transaction_departs
    <3>4. CASE Arrival(w)
      BY <3>4, ZenonT(40) DEF Arrival, PlainArrives, PageArrives, RpcArrives, PollArrives,
         uw_transaction_arrives
    <3> QED BY <1>3, <3>1, <3>2, <3>3, <3>4 DEF Step
  <2>2. CASE new_client(w)
    <3>1. PICK p \in Passes, j \in Ids :
             /\ client[j].mode = "UNUSED" /\ view[p] = "unborn"
             /\ client' = [client EXCEPT ![j] = NewSlot(j, p)]
             /\ ctx' = [ctx EXCEPT ![w].id = j, ![w].pass = p]
             /\ view' = [view EXCEPT ![p] = "making"] /\ home' = [home EXCEPT ![p] = j]
             /\ clients_used' = <<j>> \o clients_used
             /\ \/ clients_free # <<>> /\ j = Head(clients_free)
                   /\ clients_free' = Tail(clients_free) /\ n_clients' = n_clients
                \/ j = n_clients /\ n_clients' = n_clients + 1
                   /\ clients_free = <<>> /\ clients_free' = <<>>
      BY <2>2, NewClient
    <3>2. client'[j].mode = "USED" /\ \A i \in Ids : i # j => client'[i] = client[i]
      BY <1>1, <3>1 DEF NewSlot, Slots
    <3>3. prune' = prune
      BY <2>2 DEF new_client
    <3>4. ASSUME NEW i \in Ids, i < n_clients', client'[i].mode = "UNUSED"
          PROVE  On(clients_free', i)
      <4>1. i # j /\ client[i].mode = "UNUSED"
        BY <3>2, <3>4
      <4>2. i < n_clients
        BY <1>1, <3>1, <3>4, <4>1 DEF Ids
      <4>3. On(clients_free, i)
        BY <4>1, <4>2 DEF PartitionInv
      <4>4. PICK k \in 1 .. Len(clients_free) : clients_free[k] = i
        BY <4>3 DEF On
      <4>5. clients_free # <<>> /\ j = Head(clients_free) /\ clients_free' = Tail(clients_free)
        BY <3>1, <4>4
      <4>6. /\ Len(clients_free') = Len(clients_free) - 1 /\ j = clients_free[1]
            /\ \A n \in 1 .. Len(clients_free') : clients_free'[n] = clients_free[n + 1]
        BY <1>1, <4>5, TailProperties DEF TableInv
      <4>7. k - 1 \in 1 .. Len(clients_free') /\ clients_free'[k - 1] = i
        BY <1>1, <4>1, <4>4, <4>6
      <4> QED BY <4>7 DEF On
    <3> QED BY <2>1, <3>3, <3>4 DEF PartitionInv
  <2> QED BY <1>2, <1>3, <2>1, <2>2, StepKeeps, ArrivalKeeps
<1>4. CASE uw_prune_clients
  <2>1. CASE PrunerStarts \/ uw_expunge_again \/ PrunerEnds
    <3>1. UNCHANGED <<client, n_clients, clients_free, lock>>
          /\ (prune.pc = "expunge" => UNCHANGED prune)
      BY <2>1 DEF PrunerStarts, uw_expunge_again, PrunerEnds, vars
    <3> QED BY <3>1 DEF PartitionInv
  <2>2. CASE PrunerScans
    <3>1. UNCHANGED <<client, n_clients, clients_free>> /\ prune.pc = "scan"
      BY <2>2 DEF PrunerScans
    <3>2. \A i \in Ids : lock[i] = NoOne
      BY <3>1 DEF PartitionInv
    <3>3. \/ lock' = lock
          \/ /\ lock' = [lock EXCEPT ![Head(prune.rest)] = Pruner]
             /\ prune'.pc = "expunge" /\ prune'.c = Head(prune.rest)
      BY <2>2 DEF PrunerScans
    <3>4. \A i \in Ids : lock'[i] # NoOne => prune'.pc = "expunge" /\ prune'.c = i
      BY <1>1, <3>2, <3>3
    <3> QED BY <3>1, <3>4 DEF PartitionInv
  <2>3. CASE uw_expunge_fatal
    <3>1. UNCHANGED <<client, n_clients, clients_free>> /\ lock' = [lock EXCEPT ![prune.c] = NoOne]
          /\ prune.pc = "expunge"
      BY <2>3 DEF uw_expunge_fatal, UnlockClient
    <3>2. \A i \in Ids : lock'[i] = NoOne
      BY <1>1, <3>1 DEF PartitionInv
    <3> QED BY <3>1, <3>2 DEF PartitionInv
  <2>4. ASSUME NEW result, free_client(result) PROVE PartitionInv'
    <3>1. /\ prune.c \in Ids /\ ~On(clients_free, prune.c)
          /\ client' = [client EXCEPT ![prune.c] = [client[prune.c] EXCEPT
                                                      !.mode = "UNUSED", !.pass = NoPass]]
          /\ clients_free' = <<prune.c>> \o clients_free /\ n_clients' = n_clients
      BY <2>4, FreeClient
    <3>2. lock' = [lock EXCEPT ![prune.c] = NoOne] /\ prune.pc = "expunge"
      BY <2>4 DEF free_client, UnlockClient
    <3>3. \A i \in Ids : lock'[i] = NoOne
      BY <1>1, <3>2 DEF PartitionInv
    <3>4. \A j : j = prune.c \/ On(clients_free, j) => On(clients_free', j)
      <4> DEFINE c == prune.c
      <4>1. c \in Ids /\ ~On(clients_free, c) /\ clients_free' = <<c>> \o clients_free
            /\ Distinct(clients_free)
        BY <3>1 DEF TableInv
      <4> HIDE DEF c
      <4>2. /\ Len(clients_free') = Len(clients_free) + 1 /\ clients_free'[1] = c
            /\ \A j : On(clients_free, j) => On(clients_free', j)
        BY <1>1, <4>1, PushProperties
      <4>3. 1 \in 1 .. Len(clients_free')
        BY <1>1, <4>2
      <4>4. On(clients_free', c)
        BY <4>2, <4>3 DEF On
      <4> QED BY <4>2, <4>4 DEF c
    <3>5. ASSUME NEW i \in Ids, i < n_clients', client'[i].mode = "UNUSED"
          PROVE  On(clients_free', i)
      <4>1. CASE i = prune.c
        BY <3>4, <4>1
      <4>2. CASE i # prune.c
        <5>1. client'[i] = client[i] /\ i < n_clients
          BY <1>1, <3>1, <3>5, <4>2
        <5> QED BY <3>4, <3>5, <5>1 DEF PartitionInv
      <4> QED BY <4>1, <4>2
    <3> QED BY <3>3, <3>5 DEF PartitionInv
  <2> QED BY <1>4, <2>1, <2>2, <2>3, <2>4
          DEF uw_prune_clients, uw_expunge, uw_expunge_ok, uw_expunge_commit_error
<1>5. CASE (\E i \in Ids : TimeoutPasses(i)) \/ (\E p \in Passes : ViewLeaves(p)) \/ UNCHANGED vars
  <2>1. lock' = lock
    BY <1>5 DEF TimeoutPasses, ViewLeaves, vars
  <2> QED BY <1>2, <1>5, <2>1, WorldKeeps
<1> QED BY <1>3, <1>4, <1>5 DEF Next

LEMMA DistinctCount ==
  ASSUME NEW s \in Seq(Ids), Distinct(s) PROVE Len(s) = Cardinality(Elements(s))
<1>1. Len(s) \in Nat /\ DOMAIN s = 1 .. Len(s) /\ s \in [1 .. Len(s) -> Elements(s)]
  BY LenProperties, ElementOfSeq DEF Elements
<1>2. s \in Bijection(1 .. Len(s), Elements(s))
  BY <1>1 DEF Bijection, Injection, Surjection, IsInjective, Distinct, Elements
<1>3. IsFiniteSet(1 .. Len(s)) /\ Cardinality(1 .. Len(s)) = Len(s)
  BY <1>1, FS_Interval, SMTT(40)
<1> QED BY <1>2, <1>3, FS_Bijection DEF ExistsBijection

LEMMA PartitionHolds == ASSUME IInv, PartitionInv PROVE ListsPartition
<1> USE DEF IInv
<1> DEFINE free == Elements(clients_free)
           used == Elements(clients_used)
<1>1. /\ clients_free \in Seq(Ids) /\ clients_used \in Seq(Ids)
      /\ \A i \in Ids : client[i] \in Slots
      /\ n_clients \in 0 .. ClientsMax
  BY DEF TypeOK
<1>2. Len(clients_free) = Cardinality(free) /\ Len(clients_used) = Cardinality(used)
  BY <1>1, DistinctCount DEF TableInv
<1>3. /\ \A i \in free : i \in Ids /\ client[i].mode = "UNUSED" /\ i < n_clients /\ On(clients_free, i)
      /\ \A i \in used : i \in Ids /\ client[i].mode = "USED" /\ On(clients_used, i)
  BY <1>1, ElementOfSeq DEF TableInv, Elements, On
<1>4. \A i \in used : i < n_clients
  BY <1>1, <1>3 DEF TableInv, Ids
<1>5. free \cap used = {} /\ free \cup used \subseteq 0 .. n_clients - 1
  BY <1>1, <1>3, <1>4 DEF Ids
<1>6. \A i \in (0 .. n_clients - 1) \ free : client[i].mode = "USED"
  <2>1. \A i \in 0 .. n_clients - 1 : i \in Ids /\ i < n_clients
    BY <1>1, ClientsMaxAssumption DEF Ids
  <2>2. \A i : On(clients_free, i) => i \in free
    BY DEF On, Elements
  <2> QED BY <1>1, <2>1, <2>2 DEF PartitionInv, Slots
<1>7. \A i \in free \cup used : lock[i] = NoOne
  BY <1>3 DEF PartitionInv, PruneInv
<1> QED BY <1>2, <1>3, <1>5, <1>6, <1>7 DEF ListsPartition

\* new_client, the pruner's unlinking and free_client keep clients_free and
\* clients_used apart and complete: no slot is ever on two lists or handed out
\* twice, and none is lost from both while it is free.
THEOREM ListsSafe == Spec => []ListsPartition
<1>1. Init => IInv /\ PartitionInv
  <2>1. ASSUME Init PROVE PartitionInv
    BY <2>1 DEF Init, PartitionInv, Ids
  <2> QED BY <2>1, InitIInv
<1>2. IInv /\ PartitionInv /\ [Next]_vars => (IInv /\ PartitionInv)'
  <2>1. IInv /\ [Next]_vars => IInv'
    BY TypeStep, LockStep, ContextStep, TableStep, PruneStep, OwnerStep DEF IInv
  <2> QED BY <2>1, PartitionStep
<1> QED BY <1>1, <1>2, PartitionHolds, PTL DEF Spec
-----------------------------------------------------------------------------
(* Channel numbers *)

\* The worker that holds a client's pull_lock, and what it read under it.
HeldOf(w) ==
  /\ ctx[w].attached /\ pc[w] \in {"check", "body", "channel", "commit", "send", "unpull"}
       => pull_lock[ctx[w].id] = w
  /\ pc[w] = "unpull" => ctx[w].attached
  /\ pc[w] = "channel" => ctx[w].chn = client[ctx[w].id].n_channels

\* A channel that exists is numbered below its client's count, as long as the
\* slot is still that client's.
Numbered(ch) ==
  /\ view[ch.view] # "unborn"
  /\ client[ch.cli].pass = ch.view => ch.chn < client[ch.cli].n_channels

FreshInv ==
  /\ \A w \in Workers : HeldOf(w) /\ \A ch \in ctx[w].made : Numbered(ch)
  /\ \A ch \in db : Numbered(ch)
  /\ \A i \in Ids : client[i].mode = "USED" => view[client[i].pass] # "unborn"

\* What a step that neither makes a client nor a channel leaves alone.
LEMMA CountKeeps ==
  ASSUME TypeOK, ContextInv, NEW w \in Workers, Step(w) \/ Arrival(w),
         ~new_client(w), ~new_channel(w)
  PROVE  /\ \A i \in Ids : client'[i].n_channels = client[i].n_channels
         /\ ctx'[w].made \subseteq ctx[w].made
         /\ db' \subseteq db \cup ctx[w].made
<1>1. /\ client \in [Ids -> Slots] /\ \A i \in Ids : client[i] \in Slots
      /\ ctx \in [Workers -> Contexts] /\ ctx[w] \in Contexts
  BY DEF TypeOK
<1>2. ctx'[w].made = {} \/ ctx'[w].made = ctx[w].made
  <2>1. CASE Login(w)
    <3>1. CASE pull_client(w)
      BY <1>1, <3>1 DEF pull_client, Contexts
    <3>2. CASE ~pull_client(w)
      BY <2>1, <3>2 DEF Login, no_client, find_client, NoClientLeft, use_client, check_client
    <3> QED BY <3>1, <3>2
  <2>2. CASE Body(w)
    <3>1. CASE new_channel_read(w)
      BY <1>1, <3>1 DEF new_channel_read, Contexts
    <3>2. CASE uw_Basis_send(w)
      BY <1>1, <3>2 DEF uw_Basis_send, Contexts
    <3>3. CASE Abort(w)
      BY <3>3, SMTT(40) DEF Abort
    <3> QED BY <2>2, <3>1, <3>2, <3>3 DEF Body
  <2>3. CASE Finish(w)
    <3>1. CASE db_commit(w)
      BY <1>1, <3>1 DEF db_commit, Contexts
    <3>2. CASE client_send(w)
      BY <1>1, <3>2, ZenonT(40) DEF client_send, Contexts
    <3>3. CASE uw_transaction_departs(w)
      BY <1>1, <3>3 DEF uw_transaction_departs, ResetContext
    <3>4. CASE LockMessages(w) \/ db_commit_unsent(w) \/ db_commit_fails(w) \/ NothingToSend(w) \/ unpull_client(w) \/ release_client(w)
      BY <3>4, ZenonT(60) DEF LockMessages, db_commit_unsent, db_commit_fails, NothingToSend, unpull_client, release_client
    <3> QED BY <2>3, <3>1, <3>2, <3>3, <3>4 DEF Finish
  <2>4. CASE Poll(w)
    <3>1. ctx' = ctx \/ ctx' = [ctx EXCEPT ![w] = ResetContext]
      BY <2>4, ZenonT(60) DEF Poll, PollFinds, uw_client_connect
    <3> QED BY <1>1, <3>1 DEF ResetContext
  <2>5. CASE Arrival(w)
    BY <1>1, <2>5, ZenonT(60) DEF Arrival, PlainArrives, PageArrives, RpcArrives, PollArrives,
       uw_transaction_arrives, ResetContext
  <2> QED BY <2>1, <2>2, <2>3, <2>4, <2>5 DEF Step
<1>3. db' \subseteq db \cup ctx[w].made
  <2>1. CASE db_commit(w) \/ db_commit_unsent(w)
    BY <2>1 DEF db_commit, db_commit_unsent
  <2> QED BY <2>1, DbKeeps
<1>4. ASSUME NEW i \in Ids PROVE client'[i].n_channels = client[i].n_channels
  <2>1. CASE use_client(w)
    BY <1>1, <2>1 DEF use_client, Slots
  <2>2. CASE client_send(w)
    BY <1>1, <2>2, ZenonT(40) DEF client_send, Slots
  <2>3. CASE release_client(w)
    BY <1>1, <2>3 DEF release_client, Slots
  <2>4. CASE uw_client_connect(w)
    BY <1>1, <2>4 DEF uw_client_connect, Connected, Slots
  <2>5. CASE ~use_client(w) /\ ~client_send(w) /\ ~release_client(w) /\ ~uw_client_connect(w)
    <3>1. client' = client
      <4>1. CASE Login(w)
        BY <2>5, <4>1 DEF Login, no_client, find_client, NoClientLeft, pull_client, check_client
      <4>2. CASE Body(w) \/ Poll(w)
        BY <2>5, <4>2, ZenonT(60) DEF Body, new_channel_read, uw_Basis_send, Abort, Poll, PollFinds
      <4>3. CASE Finish(w)
        BY <2>5, <4>3, ZenonT(60) DEF Finish, LockMessages, db_commit, db_commit_unsent, db_commit_fails, NothingToSend,
           unpull_client, uw_transaction_departs
      <4>4. CASE Arrival(w)
        BY <4>4, ZenonT(40) DEF Arrival, PlainArrives, PageArrives, RpcArrives, PollArrives, uw_transaction_arrives
      <4> QED BY <4>1, <4>2, <4>3, <4>4 DEF Step
    <3> QED BY <3>1
  <2> QED BY <2>1, <2>2, <2>3, <2>4, <2>5
<1> QED BY <1>2, <1>3, <1>4

\* c->pull_lock is taken when it is free and given back by its holder.
LEMMA PullKeeps ==
  ASSUME TypeOK, NEW w \in Workers, Step(w) \/ Arrival(w)
  PROVE  \/ pull_lock' = pull_lock /\ ~pull_client(w) /\ ~unpull_client(w)
         \/ /\ pull_client(w) /\ pull_lock[ctx[w].id] = NoOne
            /\ pull_lock' = [pull_lock EXCEPT ![ctx[w].id] = w]
         \/ /\ unpull_client(w) /\ pc[w] = "unpull"
            /\ pull_lock' = [pull_lock EXCEPT ![ctx[w].id] = NoOne]
<1>1. CASE pull_client(w)
  BY <1>1 DEF pull_client, PullTurn
<1>2. CASE unpull_client(w)
  BY <1>2 DEF unpull_client, Unpulled
<1>3. CASE ~pull_client(w) /\ ~unpull_client(w)
  <2>1. CASE Login(w)
    BY <1>3, <2>1 DEF Login, no_client, find_client, new_client, NoClientLeft, use_client, check_client
  <2>2. CASE Body(w) \/ Poll(w)
    BY <1>3, <2>2, ZenonT(60) DEF Body, new_channel_read, new_channel, uw_Basis_send, Abort, Poll,
       PollFinds, uw_client_connect
  <2>3. CASE Finish(w)
    BY <1>3, <2>3, ZenonT(60) DEF Finish, LockMessages, db_commit, db_commit_unsent, db_commit_fails, client_send,
       NothingToSend, release_client, uw_transaction_departs
  <2>4. CASE Arrival(w)
    BY <1>3, <2>4, ZenonT(40) DEF Arrival, PlainArrives, PageArrives, RpcArrives, PollArrives, uw_transaction_arrives
  <2> QED BY <1>3, <2>1, <2>2, <2>3, <2>4 DEF Step
<1> QED BY <1>1, <1>2, <1>3

\* The stepping worker's own part of the invariant.
LEMMA HeldOwn ==
  ASSUME IInv, FreshInv, NEW w \in Workers, Step(w) \/ Arrival(w), ~new_client(w), ~new_channel(w)
  PROVE  HeldOf(w)'
<1>1. /\ client \in [Ids -> Slots] /\ \A i \in Ids : client[i] \in Slots
      /\ ctx \in [Workers -> Contexts] /\ ctx[w] \in Contexts /\ pc \in [Workers -> WorkerPcs]
      /\ pull_lock \in [Ids -> Workers \cup {NoOne}]
  BY DEF IInv, TypeOK
<1>2. HeldOf(w) /\ ContextOf(w)
  BY DEF FreshInv, IInv, ContextInv
<1>3. \A i \in Ids : client'[i].n_channels = client[i].n_channels
  BY CountKeeps DEF IInv
<1>4. CASE pull_client(w)
  <2>1. ctx'[w].id = ctx[w].id /\ pc'[w] \in {"check", "body"} /\ pull_lock'[ctx[w].id] = w
    BY <1>1, <1>2, <1>4 DEF pull_client, Goto, Contexts, ContextOf
  <2> QED BY <2>1 DEF HeldOf
<1>5. CASE ~pull_client(w)
  <2>1. CASE new_channel_read(w)
    <3>1. /\ ctx'[w].id = ctx[w].id /\ ctx'[w].attached = ctx[w].attached
          /\ ctx'[w].chn = client[ctx[w].id].n_channels
      BY <1>1, <2>1 DEF new_channel_read, Contexts
    <3>2. pc[w] = "body" /\ pc'[w] = "channel" /\ pull_lock' = pull_lock /\ ctx[w].id \in Ids
      BY <1>1, <1>2, <2>1 DEF new_channel_read, Goto, ContextOf
    <3> QED BY <1>2, <1>3, <3>1, <3>2 DEF HeldOf
  <2>2. CASE ~new_channel_read(w)
    <3>1. pc'[w] # "channel"
      <4>1. CASE Login(w) \/ Arrival(w) \/ Poll(w)
        BY <1>1, <4>1, ZenonT(60) DEF Login, no_client, find_client, new_client, NoClientLeft, use_client,
           pull_client, check_client, Arrival, PlainArrives, PageArrives, RpcArrives, PollArrives,
           uw_transaction_arrives, Poll, PollFinds, uw_client_connect, Leave, Goto
      <4>2. CASE Body(w)
        BY <1>1, <2>2, <4>2, ZenonT(40) DEF Body, new_channel, uw_Basis_send, Abort, Leave, Goto
      <4>3. CASE Finish(w)
        BY <1>1, <4>3, ZenonT(60) DEF Finish, LockMessages, db_commit, db_commit_unsent, db_commit_fails, client_send,
           NothingToSend, unpull_client, release_client, uw_transaction_departs, Leave, Goto
      <4> QED BY <4>1, <4>2, <4>3 DEF Step
    <3>2. ASSUME pc'[w] \in {"check", "body", "commit", "send", "unpull"}
          PROVE  /\ ctx'[w].id = ctx[w].id /\ ctx'[w].attached = ctx[w].attached
                 /\ ctx[w].attached => pc[w] \in {"check", "body", "channel", "commit", "send"}
                 /\ pc'[w] = "unpull" => ctx[w].attached
      <4>1. CASE Login(w)
        BY <1>1, <1>2, <1>5, <3>2, <4>1 DEF Login, no_client, find_client, NoClientLeft, use_client,
           check_client, Leave, Goto, ContextOf
      <4>2. CASE uw_Basis_send(w)
        BY <1>1, <4>2, <3>2 DEF uw_Basis_send, Contexts
      <4>3. CASE new_channel(w) \/ Abort(w)
        BY <1>1, <3>2, <4>3 DEF new_channel, Abort, Leave, Goto
      <4>4. CASE db_commit(w)
        BY <1>1, <3>2, <4>4 DEF db_commit, Goto, Contexts
      <4>5. CASE client_send(w)
        <5>1. ctx'[w].id = ctx[w].id /\ ctx'[w].attached = ctx[w].attached /\ pc[w] = "send"
          BY <1>1, <4>5, ZenonT(40) DEF client_send, Contexts
        <5>2. pc'[w] = "send" \/ pc'[w] = IF ctx[w].attached THEN "unpull" ELSE "depart"
          BY <1>1, <4>5, ZenonT(60) DEF client_send, Leave, Goto
        <5> QED BY <3>2, <5>1, <5>2
      <4>6. CASE LockMessages(w) \/ db_commit_unsent(w) \/ db_commit_fails(w) \/ NothingToSend(w)
        BY <1>1, <3>2, <4>6 DEF LockMessages, db_commit_unsent, db_commit_fails, NothingToSend, Leave, Goto
      <4>7. CASE unpull_client(w) \/ release_client(w) \/ uw_transaction_departs(w) \/ Poll(w) \/ Arrival(w)
        BY <1>1, <3>2, <4>7, ZenonT(40) DEF unpull_client, release_client, uw_transaction_departs, Poll, PollFinds,
           uw_client_connect, Arrival, PlainArrives, PageArrives, RpcArrives, PollArrives,
           uw_transaction_arrives, Goto
      <4> QED BY <2>2, <4>1, <4>2, <4>3, <4>4, <4>5, <4>6, <4>7 DEF Step, Body, Finish
    <3>3. pull_lock' = pull_lock \/ unpull_client(w)
      BY <1>5, PullKeeps DEF IInv
    <3>4. unpull_client(w) => pc'[w] = "unuse"
      BY <1>1 DEF unpull_client, Goto
    <3> QED BY <1>2, <3>1, <3>2, <3>3, <3>4 DEF HeldOf
  <2> QED BY <2>1, <2>2
<1> QED BY <1>4, <1>5

\* new_channel gives the number it read; it is new, for the client's other
\* channels were numbered below it, and the client's pull_lock kept it so.
LEMMA MakeChannel ==
  ASSUME IInv, FreshInv, NEW w \in Workers, new_channel(w)
  PROVE  /\ ctx[w].id \in Ids /\ pull_lock' = pull_lock /\ db' = db /\ view' = view
         /\ client[ctx[w].id].mode = "USED" /\ client[ctx[w].id].pass = ctx[w].pass
         /\ view[ctx[w].pass] # "unborn" /\ ctx[w].chn = client[ctx[w].id].n_channels
         /\ pull_lock[ctx[w].id] = w /\ ctx'[w].id = ctx[w].id /\ ctx'[w].attached = ctx[w].attached
         /\ ctx'[w].made = ctx[w].made \cup
              {[cli |-> ctx[w].id, chn |-> ctx[w].chn, view |-> ctx[w].pass]}
         /\ pc[w] = "channel" /\ pc'[w] = "body"
         /\ client'[ctx[w].id].n_channels = client[ctx[w].id].n_channels + 1
         /\ \A i \in Ids : i # ctx[w].id => client'[i].n_channels = client[i].n_channels
<1>1. /\ client \in [Ids -> Slots] /\ \A i \in Ids : client[i] \in Slots
      /\ ctx \in [Workers -> Contexts] /\ ctx[w] \in Contexts /\ pc \in [Workers -> WorkerPcs]
  BY DEF IInv, TypeOK
<1>2. pc[w] = "channel" /\ pc'[w] = "body" /\ pull_lock' = pull_lock /\ db' = db /\ view' = view
  BY <1>1 DEF new_channel, Goto
<1>3. ctx[w].id \in Ids /\ ctx[w].attached /\ Owns(w)
  BY <1>2 DEF IInv, ContextInv, ContextOf, OwnerInv, OwnerOf
<1>4. client[ctx[w].id].mode = "USED" /\ client[ctx[w].id].pass = ctx[w].pass
      /\ view[ctx[w].pass] # "unborn"
  BY <1>3 DEF Owns, FreshInv
<1>5. ctx[w].chn = client[ctx[w].id].n_channels /\ pull_lock[ctx[w].id] = w
  BY <1>2, <1>3 DEF FreshInv, HeldOf
<1>6. /\ ctx'[w].made = ctx[w].made \cup
           {[cli |-> ctx[w].id, chn |-> ctx[w].chn, view |-> ctx[w].pass]}
      /\ ctx'[w].id = ctx[w].id /\ ctx'[w].attached = ctx[w].attached
  BY <1>1 DEF new_channel, Contexts
<1>7. /\ client'[ctx[w].id].n_channels = ctx[w].chn + 1
      /\ \A i \in Ids : i # ctx[w].id => client'[i].n_channels = client[i].n_channels
  BY <1>1, <1>3 DEF new_channel, Slots
<1> QED BY <1>2, <1>3, <1>4, <1>5, <1>6, <1>7

\* pull_lock keeps two transactions of one client apart.
LEMMA HeldOthers ==
  ASSUME IInv, FreshInv, NEW w \in Workers, Step(w) \/ Arrival(w), ~new_client(w),
         NEW v \in Workers, v # w
  PROVE  HeldOf(v)'
<1>1. pc'[v] = pc[v] /\ ctx'[v] = ctx[v] /\ HeldOf(v) /\ HeldOf(w)
  BY StepKeeps, ArrivalKeeps DEF IInv, Alone, FreshInv
<1>2. pull_lock \in [Ids -> Workers \cup {NoOne}] /\ pc \in [Workers -> WorkerPcs] /\ NoOne \notin Workers
  BY ThreadsAssumption DEF IInv, TypeOK
<1>3. ctx[v].attached => ctx[v].id \in Ids
  BY DEF IInv, ContextInv, ContextOf
<1>4. \A i \in Ids : pull_lock[i] = v => pull_lock'[i] = v
  <2>1. CASE pull_lock' = pull_lock
    BY <2>1
  <2>2. CASE pull_client(w) /\ pull_lock[ctx[w].id] = NoOne
             /\ pull_lock' = [pull_lock EXCEPT ![ctx[w].id] = w]
    BY <1>2, <2>2
  <2>3. CASE unpull_client(w) /\ pc[w] = "unpull"
             /\ pull_lock' = [pull_lock EXCEPT ![ctx[w].id] = NoOne]
    <3>1. pull_lock[ctx[w].id] = w
      BY <1>1, <2>3 DEF HeldOf
    <3> QED BY <1>2, <2>3, <3>1
  <2> QED BY <2>1, <2>2, <2>3, PullKeeps DEF IInv
<1>5. ASSUME pc[v] = "channel" PROVE client'[ctx[v].id].n_channels = client[ctx[v].id].n_channels
  <2>1. ctx[v].attached /\ ctx[v].id \in Ids /\ pull_lock[ctx[v].id] = v
    BY <1>1, <1>5 DEF IInv, ContextInv, ContextOf, HeldOf
  <2>2. CASE new_channel(w)
    BY <2>1, <2>2, MakeChannel
  <2> QED BY <2>1, <2>2, CountKeeps DEF IInv
<1> QED BY <1>1, <1>3, <1>4, <1>5 DEF HeldOf

LEMMA FreshStep == ASSUME IInv, MadeInv, FreshInv, [Next]_vars PROVE FreshInv'
<1> USE DEF IInv
<1>1. /\ client \in [Ids -> Slots] /\ \A i \in Ids : client[i] \in Slots
      /\ ctx \in [Workers -> Contexts] /\ \A w \in Workers : \A ch \in ctx[w].made : ch \in Channel
      /\ \A ch \in db : ch \in Channel
      /\ view \in [Passes -> {"unborn", "making", "open", "gone"}]
      /\ \A ch \in Channel : ch.cli \in Ids /\ ch.chn \in Nat /\ ch.view \in Passes
  BY DEF TypeOK, Contexts, Channel
<1>2. ASSUME Keeps, \A i \in Ids : client'[i].n_channels >= client[i].n_channels
      PROVE  /\ \A ch \in Channel : Numbered(ch) => Numbered(ch)'
             /\ \A i \in Ids : client'[i].mode = "USED" => view'[client'[i].pass] # "unborn"
  <2>1. ASSUME NEW ch \in Channel, Numbered(ch) PROVE Numbered(ch)'
    <3>1. ch.cli \in Ids /\ ch.chn \in Nat /\ ch.view \in Passes
      BY <1>1
    <3>2. /\ client'[ch.cli].pass = client[ch.cli].pass /\ view'[ch.view] # "unborn"
          /\ client'[ch.cli].n_channels \in Nat /\ client[ch.cli].n_channels \in Nat
          /\ client'[ch.cli].n_channels >= client[ch.cli].n_channels
      BY <1>2, <2>1, <3>1, TypeStep DEF Keeps, Numbered, TypeOK, Slots
    <3> QED BY <2>1, <3>1, <3>2 DEF Numbered
  <2>2. ASSUME NEW i \in Ids, client'[i].mode = "USED" PROVE view'[client'[i].pass] # "unborn"
    <3>1. client[i].mode = "USED" /\ client'[i].pass = client[i].pass
      BY <1>2, <2>2 DEF Keeps
    <3>2. client[i].pass \in Passes /\ view[client[i].pass] # "unborn"
      BY <3>1 DEF TableInv, FreshInv
    <3> QED BY <1>2, <3>1, <3>2 DEF Keeps
  <2> QED BY <2>1, <2>2
<1>3. ASSUME NEW w \in Workers, Step(w) \/ Arrival(w) PROVE FreshInv'
  <2>1. CASE new_client(w)
    <3>1. PICK p \in Passes, j \in Ids :
             /\ client[j].mode = "UNUSED" /\ view[p] = "unborn"
             /\ client' = [client EXCEPT ![j] = NewSlot(j, p)]
             /\ ctx' = [ctx EXCEPT ![w].id = j, ![w].pass = p]
             /\ view' = [view EXCEPT ![p] = "making"] /\ home' = [home EXCEPT ![p] = j]
             /\ clients_used' = <<j>> \o clients_used
             /\ \/ clients_free # <<>> /\ j = Head(clients_free)
                   /\ clients_free' = Tail(clients_free) /\ n_clients' = n_clients
                \/ j = n_clients /\ n_clients' = n_clients + 1
                   /\ clients_free = <<>> /\ clients_free' = <<>>
      BY <2>1, NewClient
    <3>2. /\ client'[j].mode = "USED" /\ client'[j].pass = p
          /\ \A i \in Ids : i # j => client'[i] = client[i]
          /\ \A q \in Passes : view[q] # "unborn" => q # p /\ view'[q] # "unborn"
          /\ view'[p] # "unborn"
      BY <1>1, <3>1 DEF NewSlot, Slots
    <3>3. pull_lock' = pull_lock /\ db' = db
      BY <2>1 DEF new_client
    <3>4. /\ ctx'[w].made = ctx[w].made /\ pc' = [pc EXCEPT ![w] = "use"]
          /\ \A v \in Workers : v # w => ctx'[v] = ctx[v]
      BY <2>1, NewClientContext
    <3>5. ASSUME NEW ch \in Channel, Numbered(ch) PROVE Numbered(ch)'
      BY <1>1, <3>2, <3>5 DEF Numbered
    <3>6. ASSUME NEW v \in Workers PROVE HeldOf(v)'
      <4>1. CASE v = w
        <5>1. pc'[v] = "use"
          BY <3>4, <4>1 DEF TypeOK
        <5> QED BY <5>1 DEF HeldOf
      <4>2. CASE v # w
        <5>1. pc'[v] = pc[v] /\ ctx'[v] = ctx[v] /\ HeldOf(v)
          BY <3>4, <4>2 DEF TypeOK, FreshInv
        <5>2. pc[v] = "channel" => client'[ctx[v].id] = client[ctx[v].id]
          BY <3>1, <3>2 DEF ContextInv, ContextOf, OwnerInv, OwnerOf, Owns
        <5> QED BY <3>3, <5>1, <5>2 DEF HeldOf
      <4> QED BY <4>1, <4>2
    <3>7. \A v \in Workers : ctx'[v].made = ctx[v].made
      BY <3>4
    <3>8. ASSUME NEW i \in Ids, client'[i].mode = "USED" PROVE view'[client'[i].pass] # "unborn"
      <4>1. CASE i = j
        BY <3>2, <4>1
      <4>2. CASE i # j
        BY <3>2, <3>8, <4>2 DEF FreshInv, TableInv
      <4> QED BY <4>1, <4>2
    <3> QED BY <1>1, <3>3, <3>5, <3>6, <3>7, <3>8 DEF FreshInv
  <2>2. CASE new_channel(w)
    <3>0. PICK c \in Channel :
             c = [cli |-> ctx[w].id, chn |-> ctx[w].chn, view |-> ctx[w].pass]
      <4>1. ctx[w].id \in Ids /\ client[ctx[w].id].n_channels \in Nat
            /\ ctx[w].chn = client[ctx[w].id].n_channels
        BY <1>1, <2>2, MakeChannel DEF Slots
      <4>2. ctx[w].pass \in Passes
        BY <2>2, MakeChannel DEF TableInv
      <4> QED BY <4>1, <4>2 DEF Channel
    <3>1. Keeps /\ Alone(w) /\ ~new_client(w)
      BY <1>3, <2>2, StepKeeps DEF new_channel, new_client, Step, Body
    <3>2. ASSUME NEW i \in Ids PROVE client'[i].n_channels >= client[i].n_channels
      <4>1. client'[i].n_channels = client[i].n_channels + 1 \/ client'[i].n_channels = client[i].n_channels
        BY <2>2, MakeChannel
      <4>2. client[i].n_channels \in Nat
        BY <1>1 DEF Slots
      <4> QED BY <4>1, <4>2
    <3>3. Numbered(c)'
      <4>1. client[ctx[w].id].n_channels \in Nat /\ ctx[w].id \in Ids
        BY <1>1, <2>2, MakeChannel DEF Slots
      <4>2. client'[ctx[w].id].n_channels = client[ctx[w].id].n_channels + 1
            /\ view'[ctx[w].pass] # "unborn" /\ ctx[w].chn = client[ctx[w].id].n_channels
        BY <2>2, MakeChannel
      <4> QED BY <3>0, <4>1, <4>2 DEF Numbered
    <3>4. db' = db /\ ctx'[w].made = ctx[w].made \cup {c}
      BY <2>2, <3>0, MakeChannel
    <3>5. HeldOf(w)'
      <4>1. /\ pc'[w] = "body" /\ ctx'[w].id = ctx[w].id
            /\ pull_lock'[ctx[w].id] = w
        BY <2>2, MakeChannel
      <4> QED BY <4>1 DEF HeldOf
    <3>6. \A v \in Workers : HeldOf(v)'
      BY <1>3, <3>1, <3>5, HeldOthers
    <3>7. \A v \in Workers : \A ch \in ctx'[v].made : Numbered(ch)'
      <4>1. ASSUME NEW v \in Workers, NEW ch \in ctx'[v].made PROVE Numbered(ch)'
        <5>1. ch = c \/ ch \in ctx[v].made
          BY <3>1, <3>4, <4>1 DEF Alone
        <5>2. ch = c \/ (ch \in Channel /\ Numbered(ch))
          BY <1>1, <5>1 DEF FreshInv
        <5> QED BY <1>2, <3>1, <3>2, <3>3, <5>2
      <4> QED BY <4>1
    <3> QED BY <1>1, <1>2, <3>1, <3>2, <3>4, <3>6, <3>7 DEF FreshInv
  <2>3. CASE ~new_client(w) /\ ~new_channel(w)
    <3>1. Keeps /\ Alone(w)
      BY <1>3, <2>3, StepKeeps, ArrivalKeeps
    <3>2. /\ \A i \in Ids : client'[i].n_channels = client[i].n_channels
          /\ ctx'[w].made \subseteq ctx[w].made /\ db' \subseteq db \cup ctx[w].made
      BY <1>3, <2>3, CountKeeps
    <3>3. \A i \in Ids : client'[i].n_channels >= client[i].n_channels
      BY <1>1, <3>2 DEF Slots
    <3>4. \A v \in Workers : HeldOf(v)'
      BY <1>3, <2>3, HeldOwn, HeldOthers
    <3>5. \A v \in Workers : ctx'[v].made \subseteq ctx[v].made
      BY <3>1, <3>2 DEF Alone
    <3> QED BY <1>1, <1>2, <3>1, <3>2, <3>3, <3>4, <3>5 DEF FreshInv
  <2> QED BY <2>1, <2>2, <2>3
<1>4. CASE uw_prune_clients
  <2>1. UNCHANGED <<pc, ctx, pull_lock, view>> /\ db' \subseteq db
    BY <1>4 DEF uw_prune_clients, PrunerStarts, PrunerScans, uw_expunge, uw_expunge_again,
       uw_expunge_ok, uw_expunge_commit_error, free_client, uw_expunge_fatal, PrunerEnds, vars
  <2>2. ASSUME NEW i \in Ids
        PROVE  \/ client'[i].pass = NoPass /\ client'[i].mode = "UNUSED"
                  /\ client'[i].n_channels = client[i].n_channels
               \/ client'[i] = client[i]
    <3>1. CASE uw_expunge_ok \/ uw_expunge_commit_error
      <4>1. client' = [client EXCEPT ![prune.c] = [client[prune.c] EXCEPT
                                                      !.mode = "UNUSED", !.pass = NoPass]]
        BY <3>1, FreeClient DEF uw_expunge_ok, uw_expunge_commit_error
      <4> QED BY <1>1, <4>1 DEF Slots
    <3>2. CASE ~uw_expunge_ok /\ ~uw_expunge_commit_error
      <4>1. client' = client
        BY <1>4, <3>2 DEF uw_prune_clients, PrunerStarts, PrunerScans, uw_expunge, uw_expunge_again,
           uw_expunge_fatal, PrunerEnds, vars
      <4> QED BY <4>1
    <3> QED BY <3>1, <3>2
  <2>3. ASSUME NEW ch \in Channel, Numbered(ch) PROVE Numbered(ch)'
    <3>1. ch.cli \in Ids /\ ch.view # NoPass
      BY <1>1 DEF NoPass, Passes
    <3> QED BY <2>1, <2>2, <2>3, <3>1 DEF Numbered
  <2>4. \A v \in Workers : HeldOf(v)'
    BY <2>1, <2>2 DEF HeldOf, FreshInv, ContextInv, ContextOf
  <2>5. \A i \in Ids : client'[i].mode = "USED" => view'[client'[i].pass] # "unborn"
    BY <2>1, <2>2 DEF FreshInv
  <2> QED BY <1>1, <2>1, <2>3, <2>4, <2>5 DEF FreshInv
<1>5. CASE (\E i \in Ids : TimeoutPasses(i)) \/ (\E p \in Passes : ViewLeaves(p)) \/ UNCHANGED vars
  <2>1. Keeps /\ UNCHANGED <<pc, ctx>>
    BY <1>5, WorldKeeps
  <2>2. UNCHANGED <<db, pull_lock>> /\ \A i \in Ids : client'[i].n_channels = client[i].n_channels
    <3>1. CASE \E i \in Ids : TimeoutPasses(i)
      BY <1>1, <3>1 DEF TimeoutPasses, Slots
    <3>2. CASE (\E p \in Passes : ViewLeaves(p)) \/ UNCHANGED vars
      BY <3>2 DEF ViewLeaves, vars
    <3> QED BY <1>5, <3>1, <3>2
  <2>3. \A i \in Ids : client'[i].n_channels >= client[i].n_channels
    BY <1>1, <2>2 DEF Slots
  <2>4. \A v \in Workers : HeldOf(v)'
    BY <2>1, <2>2 DEF HeldOf, FreshInv, ContextInv, ContextOf
  <2> QED BY <1>1, <1>2, <2>1, <2>2, <2>3, <2>4 DEF FreshInv
<1> QED BY <1>3, <1>4, <1>5 DEF Next

\* new_channel never gives two channels of one client the same number, though
\* n_channels is read and written under no lock but the client's pull_lock.
THEOREM ChannelsNew == Spec => ChannelsFresh
<1>1. Init => IInv /\ MadeInv /\ FreshInv
  <2>1. ASSUME Init PROVE MadeInv /\ FreshInv
    <3>1. \A w \in Workers : pc[w] = "idle" /\ ctx[w].made = {}
      BY <2>1 DEF Init, ResetContext
    <3>2. db = {} /\ \A i \in Ids : client[i].mode # "USED"
      BY <2>1 DEF Init, Unallocated
    <3> QED BY <3>1, <3>2 DEF MadeInv, MadeOf, FreshInv, HeldOf
  <2> QED BY <2>1, InitIInv
<1>2. IInv /\ MadeInv /\ FreshInv /\ [Next]_vars => (IInv /\ MadeInv /\ FreshInv)'
  <2>1. IInv /\ [Next]_vars => IInv'
    BY TypeStep, LockStep, ContextStep, TableStep, PruneStep, OwnerStep DEF IInv
  <2> QED BY <2>1, MadeStep, FreshStep
<1> DEFINE Fresh(w) == pc[w] = "channel" /\ pc'[w] = "body" =>
             /\ ctx'[w].made # ctx[w].made
             /\ \A ch \in ctx'[w].made \ ctx[w].made :
                  ch \notin db \cup UNION {ctx[v].made : v \in Workers}
<1>3. IInv /\ FreshInv /\ [Next]_vars => [\A w \in Workers : Fresh(w)]_vars
  <2> SUFFICES ASSUME IInv, FreshInv, Next, NEW w \in Workers, pc[w] = "channel", pc'[w] = "body"
               PROVE  Fresh(w)
    BY Zenon
  <2> DEFINE c == [cli |-> ctx[w].id, chn |-> ctx[w].chn, view |-> ctx[w].pass]
  <2>1. new_channel(w)
    <3>1. pc \in [Workers -> WorkerPcs] /\ pc' # pc
      BY DEF IInv, TypeOK
    <3>2. ASSUME NEW v \in Workers, Step(v) \/ Arrival(v) PROVE v = w
      <4>1. Alone(v)
        <5>1. CASE new_client(v)
          BY <5>1, NewClientContext DEF IInv, TypeOK, Alone
        <5> QED BY <3>2, <5>1, StepKeeps, ArrivalKeeps DEF IInv
      <4> QED BY <4>1 DEF Alone
    <3>3. Step(w) \/ Arrival(w)
      <4>1. pc' = pc \/ \E v \in Workers : Step(v) \/ Arrival(v)
        BY DEF Next, uw_prune_clients, PrunerStarts, PrunerScans, uw_expunge, uw_expunge_again,
           uw_expunge_ok, uw_expunge_commit_error, free_client, uw_expunge_fatal, PrunerEnds, vars,
           TimeoutPasses, ViewLeaves
      <4> QED BY <3>1, <3>2, <4>1
    <3>4. ~Login(w) /\ ~Finish(w) /\ ~Poll(w) /\ ~Arrival(w)
      BY DEF Login, no_client, find_client, new_client, NoClientLeft, use_client, pull_client,
         check_client, Finish, LockMessages, db_commit, db_commit_unsent, db_commit_fails, client_send, NothingToSend,
         unpull_client, release_client, uw_transaction_departs, Poll, PollFinds, uw_client_connect,
         Arrival, PlainArrives, PageArrives, RpcArrives, PollArrives, uw_transaction_arrives
    <3> QED BY <3>3, <3>4 DEF Step, Body, new_channel_read, uw_Basis_send, Abort
  <2>2. /\ ctx'[w].made = ctx[w].made \cup {c}
        /\ ctx[w].id \in Ids /\ client[ctx[w].id].pass = ctx[w].pass
        /\ ctx[w].chn = client[ctx[w].id].n_channels
    BY <2>1, MakeChannel
  <2>3. ~Numbered(c)
    <3>1. client[ctx[w].id].n_channels \in Nat
      BY <2>2 DEF IInv, TypeOK, Slots
    <3> QED BY <2>2, <3>1 DEF Numbered
  <2> HIDE DEF c
  <2>4. c \notin db /\ \A v \in Workers : c \notin ctx[v].made
    BY <2>3 DEF FreshInv
  <2> QED BY <2>2, <2>4
<1> QED BY <1>1, <1>2, <1>3, PTL DEF Spec, ChannelsFresh
-----------------------------------------------------------------------------
(* Every view gets what it is owed *)

\* A slot that is used belongs to a live view, and a live view has its slot; the
\* poll that waits in it is that view's, and while one waits nothing is buffered.
ViewInv ==
  /\ \A i \in Ids : client[i].mode = "USED" =>
       /\ Live(client[i].pass) /\ home[client[i].pass] = i
       /\ client[i].sock \in {NoSock, client[i].pass}
       /\ client[i].sock # NoSock => client[i].msgs = <<>>
  /\ \A p \in Passes : Live(p) => client[home[p]].mode = "USED" /\ client[home[p]].pass = p
  /\ \A p \in Passes : view[p] = "unborn" => p \notin expunged /\ inbox[p] = <<>> /\ owed[p] = <<>>

\* What a transaction has sent is in one delta per slot, addressed to the view
\* whose slot it is.
Separate(ds) == \A j, k \in 1 .. Len(ds) : ds[j].client = ds[k].client => j = k
Addressed(w) ==
  /\ Separate(ctx[w].deltas)
  /\ \A d \in Elements(ctx[w].deltas) : client[d.client].mode = "USED"
Complete(w) ==
  /\ \A d \in Elements(ctx[w].deltas) : d.msgs = ctx[w].sends[client[d.client].pass]
  /\ \A p \in Passes : ctx[w].sends[p] # <<>> =>
       /\ Live(p) /\ \E d \in Elements(ctx[w].deltas) : d.client = home[p]
       /\ \A m \in Elements(ctx[w].sends[p]) : m.view = p /\ m.tx = ctx[w].tx
SendsOf(w) ==
  /\ pc[w] \in {"login", "use", "pull", "check"} =>
       ctx[w].deltas = <<>> /\ \A p \in Passes : ctx[w].sends[p] = <<>>
  /\ pc[w] \in {"body", "channel", "commit", "send"} => Addressed(w)
  /\ pc[w] \in {"body", "channel", "commit"} => Complete(w)
SendInv == \A w \in Workers : SendsOf(w)

\* message_send_mutex is held from before COMMIT until the last delta is sent.
MutexOf(w) ==
  pc[w] \in {"commit", "send"} /\ ctx[w].deltas # <<>> => message_send_mutex = w
MutexInv == \A w \in Workers : MutexOf(w)

\* A message is tagged with its view and with the one transaction that sent it.
Before == {"login", "use", "pull", "check", "body", "channel", "commit"}
TagInv ==
  /\ \A w \in Workers : pc[w] \in Inside => ctx[w].tx <= txs
  /\ \A v, w \in Workers : v # w /\ pc[v] \in Inside /\ pc[w] \in Inside => ctx[v].tx # ctx[w].tx
  /\ \A p \in Passes : \A m \in Elements(owed[p]) : m.view = p /\ m.tx <= txs
  /\ \A w \in Workers : pc[w] \in Before =>
       \A p \in Passes : \A m \in Elements(owed[p]) : m.tx # ctx[w].tx

\* A transaction that skipped its send loop had not sent anything, and nothing will
\* ever be owed to anybody because of it.
UnsentInv ==
  /\ \A t \in unsent : t <= txs
  /\ \A w \in Workers : pc[w] \in Before => ctx[w].tx \notin unsent
  /\ \A p \in Passes : \A m \in Elements(owed[p]) : m.tx \notin unsent

\* What a live view has got and what waits in its slot is all it is owed but for
\* the delta that is still to be sent to it, which is the end of what it is owed
\* and all that this transaction sent.
Given(p) == inbox[p] \o client[home[p]].msgs
Hand(w) == IF pc[w] = "send" THEN Elements(ctx[w].deltas) ELSE {}
Due(p, tx, msgs) ==
  /\ Given(p) \o msgs = owed[p]
  /\ \A j \in 1 .. Len(owed[p]) : j > Len(Given(p)) <=> owed[p][j].tx = tx
StreamOf(p) ==
  /\ (\A w \in Workers : \A d \in Hand(w) : d.client # home[p]) => Given(p) = owed[p]
  /\ \A w \in Workers : \A d \in Hand(w) : d.client = home[p] => Due(p, ctx[w].tx, d.msgs)
StreamInv == \A p \in Passes : Live(p) => StreamOf(p)

\* What most steps leave alone.
Still ==
  /\ \A i \in Ids : /\ client'[i].mode = client[i].mode /\ client'[i].pass = client[i].pass
                    /\ client'[i].sock = client[i].sock /\ client'[i].msgs = client[i].msgs
  /\ UNCHANGED <<home, inbox, owed, expunged>>
  /\ \A p \in Passes : view'[p] = "unborn" <=> view[p] = "unborn"

LEMMA StepStill ==
  ASSUME TypeOK, ContextInv, NEW w \in Workers, Step(w) \/ Arrival(w),
         ~new_client(w), ~db_commit(w), ~client_send(w), ~uw_client_connect(w)
  PROVE  Still
<1>1. client \in [Ids -> Slots] /\ \A i \in Ids : client[i] \in Slots
  BY DEF TypeOK
<1>2. /\ \A i \in Ids : client'[i].mode = client[i].mode /\ client'[i].pass = client[i].pass
      /\ home' = home /\ \A p \in Passes : view'[p] = "unborn" <=> view[p] = "unborn"
  BY StepKeeps, ArrivalKeeps DEF Keeps
<1>3. UNCHANGED <<inbox, owed, expunged>>
  <2>1. CASE Login(w)
    BY <2>1 DEF Login, no_client, find_client, NoClientLeft, use_client, pull_client, check_client
  <2>2. CASE Body(w) \/ Poll(w)
    BY <2>2, ZenonT(60) DEF Body, new_channel_read, new_channel, uw_Basis_send, Abort, Poll, PollFinds
  <2>3. CASE Finish(w)
    BY <2>3, ZenonT(60) DEF Finish, LockMessages, db_commit_unsent, db_commit_fails, NothingToSend, unpull_client,
       release_client, uw_transaction_departs
  <2>4. CASE Arrival(w)
    BY <2>4, ZenonT(40) DEF Arrival, PlainArrives, PageArrives, RpcArrives, PollArrives, uw_transaction_arrives
  <2> QED BY <2>1, <2>2, <2>3, <2>4 DEF Step
<1>4. ASSUME NEW i \in Ids PROVE client'[i].sock = client[i].sock /\ client'[i].msgs = client[i].msgs
  <2>1. CASE use_client(w)
    BY <1>1, <2>1 DEF use_client, Slots
  <2>2. CASE new_channel(w)
    BY <1>1, <2>2 DEF new_channel, Slots
  <2>3. CASE release_client(w)
    BY <1>1, <2>3 DEF release_client, Slots
  <2>4. CASE ~use_client(w) /\ ~new_channel(w) /\ ~release_client(w)
    <3>1. client' = client
      <4>1. CASE Login(w)
        BY <2>4, <4>1 DEF Login, no_client, find_client, NoClientLeft, pull_client, check_client
      <4>2. CASE Body(w) \/ Poll(w)
        BY <2>4, <4>2, ZenonT(60) DEF Body, new_channel_read, uw_Basis_send, Abort, Poll, PollFinds
      <4>3. CASE Finish(w)
        BY <2>4, <4>3, ZenonT(60) DEF Finish, LockMessages, db_commit_unsent, db_commit_fails, NothingToSend,
           unpull_client, uw_transaction_departs
      <4>4. CASE Arrival(w)
        BY <4>4, ZenonT(40) DEF Arrival, PlainArrives, PageArrives, RpcArrives, PollArrives, uw_transaction_arrives
      <4> QED BY <4>1, <4>2, <4>3, <4>4 DEF Step
    <3> QED BY <3>1
  <2> QED BY <2>1, <2>2, <2>3, <2>4
<1> QED BY <1>2, <1>3, <1>4 DEF Still

LEMMA OthersStill ==
  ASSUME TypeOK,
         \/ uw_prune_clients /\ ~uw_expunge_ok /\ ~uw_expunge_commit_error
         \/ (\E i \in Ids : TimeoutPasses(i)) \/ (\E p \in Passes : ViewLeaves(p)) \/ UNCHANGED vars
  PROVE  Still /\ UNCHANGED <<pc, ctx, db, txs, unsent, message_send_mutex>>
<1>1. client \in [Ids -> Slots] /\ \A i \in Ids : client[i] \in Slots
      /\ view \in [Passes -> {"unborn", "making", "open", "gone"}]
  BY DEF TypeOK
<1>2. CASE uw_prune_clients /\ ~uw_expunge_ok /\ ~uw_expunge_commit_error
  BY <1>2 DEF uw_prune_clients, PrunerStarts, PrunerScans, uw_expunge, uw_expunge_again,
     uw_expunge_fatal, PrunerEnds, vars, Still
<1>3. CASE \E i \in Ids : TimeoutPasses(i)
  BY <1>1, <1>3 DEF TimeoutPasses, Slots, Still
<1>4. CASE \E p \in Passes : ViewLeaves(p)
  BY <1>1, <1>4 DEF ViewLeaves, Still
<1>5. CASE UNCHANGED vars
  BY <1>5 DEF vars, Still
<1> QED BY <1>2, <1>3, <1>4, <1>5

LEMMA ViewStill == ASSUME TypeOK, TableInv, ViewInv, Still PROVE ViewInv'
<1>1. ASSUME NEW p \in Passes PROVE Live(p)' <=> Live(p)
  BY DEF Still, Live
<1>2. \A i \in Ids : client[i].mode = "USED" => client[i].pass \in Passes
  BY DEF TableInv
<1>3. \A p \in Passes : Live(p) => home[p] \in Ids
  BY DEF TableInv, Live
<1>4. ASSUME NEW i \in Ids, client'[i].mode = "USED"
      PROVE  /\ Live(client[i].pass)' /\ home'[client'[i].pass] = i
             /\ client'[i].pass = client[i].pass
             /\ client'[i].sock \in {NoSock, client'[i].pass}
             /\ client'[i].sock # NoSock => client'[i].msgs = <<>>
  BY <1>1, <1>2, <1>4 DEF Still, ViewInv
<1>5. ASSUME NEW p \in Passes, Live(p)' PROVE client'[home'[p]].mode = "USED" /\ client'[home'[p]].pass = p
  BY <1>1, <1>3, <1>5 DEF Still, ViewInv
<1>6. ASSUME NEW p \in Passes, view'[p] = "unborn" PROVE p \notin expunged' /\ inbox'[p] = <<>> /\ owed'[p] = <<>>
  BY <1>6 DEF Still, ViewInv
<1> QED BY <1>4, <1>5, <1>6 DEF ViewInv, Live

\* The head of a transaction's deltas and the rest of them.
LEMMA TailElements ==
  ASSUME NEW ds \in Sendings, ds # <<>>, Separate(ds)
  PROVE  /\ Tail(ds) \in Sendings /\ Separate(Tail(ds)) /\ Len(ds) \in Nat \ {0}
         /\ Head(ds) \in [client : Ids, msgs : Seq(Message)]
         /\ Elements(ds) = {Head(ds)} \cup Elements(Tail(ds))
         /\ \A d \in Elements(Tail(ds)) : d.client # Head(ds).client
         /\ Tail(ds) = <<>> <=> Len(ds) = 1
<1>1. /\ Tail(ds) \in Sendings /\ Head(ds) \in [client : Ids, msgs : Seq(Message)]
      /\ Len(Tail(ds)) = Len(ds) - 1 /\ Head(ds) = ds[1]
      /\ \A i \in 1 .. Len(Tail(ds)) : Tail(ds)[i] = ds[i + 1]
  <2>1. Head(ds) = ds[1]
    BY DEF Sendings
  <2> QED BY <2>1, HeadTailProperties DEF Sendings
<1>2. Len(ds) \in Nat \ {0}
  BY EmptySeq DEF Sendings
<1>3. Elements(ds) = {Head(ds)} \cup Elements(Tail(ds))
  <2>1. ASSUME NEW k \in 1 .. Len(ds) PROVE ds[k] \in {Head(ds)} \cup Elements(Tail(ds))
    <3>1. CASE k = 1
      BY <1>1, <3>1
    <3>2. CASE k # 1
      <4>1. k - 1 \in 1 .. Len(Tail(ds)) /\ Tail(ds)[k - 1] = ds[k]
        BY <1>1, <1>2, <2>1, <3>2
      <4> QED BY <4>1 DEF Elements
    <3> QED BY <3>1, <3>2
  <2>2. ASSUME NEW k \in 1 .. Len(Tail(ds)) PROVE Tail(ds)[k] \in Elements(ds)
    <3>1. k + 1 \in 1 .. Len(ds) /\ Tail(ds)[k] = ds[k + 1]
      BY <1>1, <1>2, <2>2
    <3> QED BY <3>1 DEF Elements
  <2>3. Head(ds) \in Elements(ds)
    BY <1>1, <1>2 DEF Elements
  <2> QED BY <2>1, <2>2, <2>3 DEF Elements
<1>4. ASSUME NEW k \in 1 .. Len(Tail(ds)) PROVE Tail(ds)[k].client # Head(ds).client
  <2>1. k + 1 \in 1 .. Len(ds) /\ 1 \in 1 .. Len(ds) /\ Tail(ds)[k] = ds[k + 1] /\ k + 1 # 1
    BY <1>1, <1>2, <1>4
  <2> QED BY <1>1, <2>1 DEF Separate
<1>5. Separate(Tail(ds))
  <2>1. ASSUME NEW j \in 1 .. Len(Tail(ds)), NEW k \in 1 .. Len(Tail(ds)),
               Tail(ds)[j].client = Tail(ds)[k].client
        PROVE  j = k
    <3>1. j + 1 \in 1 .. Len(ds) /\ k + 1 \in 1 .. Len(ds)
      BY <1>1, <1>2, <2>1
    <3>2. j + 1 = k + 1
      BY <1>1, <2>1, <3>1 DEF Separate
    <3> QED BY <3>2
  <2> QED BY <2>1 DEF Separate
<1>6. Tail(ds) = <<>> <=> Len(ds) = 1
  <2>1. Tail(ds) = <<>> => Len(Tail(ds)) = 0
    BY EmptySeq
  <2>2. Tail(ds) # <<>> => Len(Tail(ds)) \in Nat \ {0}
    BY <1>1, EmptySeq DEF Sendings
  <2>3. Len(Tail(ds)) = Len(ds) - 1
    BY <1>1
  <2> QED BY <1>2, <2>1, <2>2, <2>3
<1> QED BY <1>1, <1>2, <1>3, <1>4, <1>5, <1>6 DEF Elements

\* client_send: the first delta goes to the view whose slot it is, to the poll
\* that waits or into the buffer, or does not fit.
Handed(w, i, p, msgs) ==
  \/ /\ client[i].sock = p /\ client[i].msgs = <<>> /\ client'[i].msgs = <<>>
     /\ client'[i].sock = NoSock
     /\ inbox' = [inbox EXCEPT ![p] = inbox[p] \o msgs] /\ owed' = owed
  \/ /\ client[i].sock = NoSock /\ client'[i].sock = NoSock /\ inbox' = inbox
     /\ client'[i].msgs = client[i].msgs \o msgs /\ owed' = owed
  \/ /\ client[i].sock = NoSock /\ client'[i].sock = NoSock /\ inbox' = inbox
     /\ client'[i].msgs = client[i].msgs
     /\ owed' = [owed EXCEPT ![p] = SubSeq(owed[p], 1, Len(owed[p]) - Len(msgs))]
Sent(w, i, p, msgs) ==
  /\ client[i].mode = "USED" /\ client[i].pass = p /\ Live(p) /\ home[p] = i
  /\ client'[i].mode = "USED" /\ client'[i].pass = p
  /\ \A j \in Ids : j # i => client'[j] = client[j]
  /\ UNCHANGED <<home, view, expunged, db, txs>>
  /\ Handed(w, i, p, msgs)
Relieved(w, i, msgs) ==
  /\ pc[w] = "send" /\ ctx'[w].tx = ctx[w].tx
  /\ \E d \in Elements(ctx[w].deltas) : d.client = i /\ d.msgs = msgs
  /\ Separate(ctx'[w].deltas) /\ ctx[w].deltas # <<>>
  /\ Elements(ctx'[w].deltas) \subseteq Elements(ctx[w].deltas)
  /\ \A d \in Elements(ctx[w].deltas) : d \in Elements(ctx'[w].deltas) <=> d.client # i
  /\ \/ ctx'[w].deltas # <<>> /\ UNCHANGED <<pc, message_send_mutex>>
     \/ /\ ctx'[w].deltas = <<>> /\ message_send_mutex' = NoOne
        /\ pc'[w] \in {"unpull", "depart"} /\ \A v \in Workers : v # w => pc'[v] = pc[v]

LEMMA ClientSend ==
  ASSUME IInv, ViewInv, SendInv, NEW w \in Workers, client_send(w)
  PROVE  \E i \in Ids, p \in Passes, msgs \in Seq(Message) :
           Sent(w, i, p, msgs) /\ Relieved(w, i, msgs)
<1> DEFINE d == Head(ctx[w].deltas)
           c == client[d.client]
<1>1. /\ client \in [Ids -> Slots] /\ ctx \in [Workers -> Contexts] /\ ctx[w] \in Contexts
      /\ pc \in [Workers -> WorkerPcs] /\ inbox \in [Passes -> Seq(Message)]
  BY DEF IInv, TypeOK
<1>2. /\ pc[w] = "send" /\ ctx[w].deltas # <<>> /\ ctx[w].deltas \in Sendings
      /\ Separate(ctx[w].deltas) /\ \A e \in Elements(ctx[w].deltas) : client[e.client].mode = "USED"
  BY <1>1, ZenonT(40) DEF client_send, Contexts, Sendings, SendInv, SendsOf, Addressed
<1>3. /\ Tail(ctx[w].deltas) \in Sendings /\ Separate(Tail(ctx[w].deltas))
      /\ Len(ctx[w].deltas) \in Nat \ {0}
      /\ d \in [client : Ids, msgs : Seq(Message)]
      /\ Elements(ctx[w].deltas) = {d} \cup Elements(Tail(ctx[w].deltas))
      /\ \A e \in Elements(Tail(ctx[w].deltas)) : e.client # d.client
      /\ Tail(ctx[w].deltas) = <<>> <=> Len(ctx[w].deltas) = 1
  BY <1>2, TailElements
<1>4. d.client \in Ids /\ d.msgs \in Seq(Message) /\ c \in Slots /\ c.mode = "USED"
  BY <1>1, <1>2, <1>3
<1>5. /\ c.pass \in Passes /\ Live(c.pass) /\ home[c.pass] = d.client
      /\ c.sock \in {NoSock, c.pass} /\ (c.sock # NoSock => c.msgs = <<>>)
  BY <1>4 DEF IInv, TableInv, ViewInv
<1>6. ctx'[w].deltas = Tail(ctx[w].deltas) /\ ctx'[w].tx = ctx[w].tx
  BY <1>1, ZenonT(40) DEF client_send, Contexts
<1>7. \/ Tail(ctx[w].deltas) # <<>> /\ UNCHANGED <<pc, message_send_mutex>>
      \/ /\ Tail(ctx[w].deltas) = <<>> /\ message_send_mutex' = NoOne
         /\ pc'[w] \in {"unpull", "depart"} /\ \A v \in Workers : v # w => pc'[v] = pc[v]
  <2>1. Len(ctx[w].deltas) > 1 <=> Tail(ctx[w].deltas) # <<>>
    <3> DEFINE n == Len(ctx[w].deltas)
    <3>1. n \in Nat \ {0} /\ (Tail(ctx[w].deltas) = <<>> <=> n = 1)
      BY <1>3
    <3> HIDE DEF n
    <3>2. n > 1 <=> n # 1
      BY <3>1
    <3>3. n > 1 <=> Tail(ctx[w].deltas) # <<>>
      BY <3>1, <3>2, Zenon
    <3> QED BY <3>3 DEF n
  <2> QED BY <1>1, <2>1, ZenonT(40) DEF client_send, Leave, Goto
<1>8. Relieved(w, d.client, d.msgs)
  <2> HIDE DEF d
  <2> QED BY <1>2, <1>3, <1>6, <1>7 DEF Relieved
<1>9. /\ \A j \in Ids : j # d.client => client'[j] = client[j]
      /\ UNCHANGED <<home, view, expunged, db, txs>>
  BY <1>1, ZenonT(40) DEF client_send
<1>10. CASE c.sock # NoSock
  <2>1. client'[d.client] = [c EXCEPT !.sock = NoSock]
    BY <1>1, <1>4, <1>10 DEF client_send
  <2>2. inbox' = [inbox EXCEPT ![c.pass] = inbox[c.pass] \o d.msgs]
    BY <1>1, <1>4, <1>5, <1>10, ZenonT(40) DEF client_send
  <2>3. owed' = owed
    BY <1>10, ZenonT(40) DEF client_send
  <2>4. /\ client'[d.client].mode = "USED" /\ client'[d.client].pass = c.pass
        /\ client'[d.client].msgs = <<>> /\ client'[d.client].sock = NoSock
    BY <1>4, <1>5, <1>10, <2>1, ZenonT(40) DEF Slots
  <2>5. Sent(w, d.client, c.pass, d.msgs)
    BY <1>4, <1>5, <1>9, <1>10, <2>2, <2>3, <2>4, ZenonT(40) DEF Sent, Handed
  <2> QED BY <1>4, <1>5, <1>8, <2>5, ZenonT(40)
<1>11. CASE c.sock = NoSock
  <2>1. client'[d.client] = [c EXCEPT !.msgs = Buffered(c, d.msgs)]
    BY <1>1, <1>4, <1>11, ZenonT(40) DEF client_send
  <2>2. inbox' = inbox
    <3>1. \A p \in Passes : c.sock # p
      BY <1>11 DEF NoSock, Passes
    <3> QED BY <1>1, <3>1, ZenonT(40) DEF client_send
  <2>3. /\ client'[d.client].mode = "USED" /\ client'[d.client].pass = c.pass
        /\ client'[d.client].msgs = Buffered(c, d.msgs) /\ client'[d.client].sock = NoSock
    BY <1>4, <1>11, <2>1 DEF Slots
  <2>4. owed' = IF Overflows(c, d.msgs)
                THEN [owed EXCEPT ![c.pass] = SubSeq(owed[c.pass], 1, Len(owed[c.pass]) - Len(d.msgs))]
                ELSE owed
    BY <1>4, <1>11, ZenonT(40) DEF client_send
  <2>5. Handed(w, d.client, c.pass, d.msgs)
    BY <1>11, <2>2, <2>3, <2>4, ZenonT(40) DEF Handed, Buffered
  <2>6. Sent(w, d.client, c.pass, d.msgs)
    BY <1>4, <1>5, <1>9, <2>3, <2>5, ZenonT(40) DEF Sent
  <2> QED BY <1>4, <1>5, <1>8, <2>6
<1> QED BY <1>10, <1>11

\* new_client: slot i is handed to view p.
Opened(w, i, p) ==
  /\ client[i].mode = "UNUSED" /\ view[p] = "unborn"
  /\ client'[i].mode = "USED" /\ client'[i].pass = p
  /\ client'[i].sock = NoSock /\ client'[i].msgs = <<>>
  /\ \A j \in Ids : j # i => client'[j] = client[j]
  /\ home'[p] = i /\ view'[p] = "making"
  /\ \A q \in Passes : q # p => home'[q] = home[q] /\ view'[q] = view[q]
  /\ UNCHANGED <<inbox, owed, expunged, db, txs, message_send_mutex>>
  /\ pc[w] = "login" /\ pc'[w] = "use" /\ \A v \in Workers : v # w => pc'[v] = pc[v] /\ ctx'[v] = ctx[v]
  /\ ctx'[w].deltas = ctx[w].deltas /\ ctx'[w].sends = ctx[w].sends /\ ctx'[w].tx = ctx[w].tx

LEMMA OpenedByNew ==
  ASSUME IInv, NEW w \in Workers, new_client(w)
  PROVE  \E i \in Ids, p \in Passes : Opened(w, i, p)
<1>1. /\ client \in [Ids -> Slots] /\ \A i \in Ids : client[i] \in Slots
      /\ ctx \in [Workers -> Contexts] /\ ctx[w] \in Contexts /\ pc \in [Workers -> WorkerPcs]
      /\ home \in [Passes -> Ids \cup {NoId}]
      /\ view \in [Passes -> {"unborn", "making", "open", "gone"}]
  BY DEF IInv, TypeOK
<1>2. PICK p \in Passes, j \in Ids :
         /\ client[j].mode = "UNUSED" /\ view[p] = "unborn"
         /\ client' = [client EXCEPT ![j] = NewSlot(j, p)]
         /\ ctx' = [ctx EXCEPT ![w].id = j, ![w].pass = p]
         /\ view' = [view EXCEPT ![p] = "making"] /\ home' = [home EXCEPT ![p] = j]
         /\ clients_used' = <<j>> \o clients_used
         /\ \/ clients_free # <<>> /\ j = Head(clients_free)
               /\ clients_free' = Tail(clients_free) /\ n_clients' = n_clients
            \/ j = n_clients /\ n_clients' = n_clients + 1
               /\ clients_free = <<>> /\ clients_free' = <<>>
  BY NewClient DEF IInv
<1>3. /\ client'[j].mode = "USED" /\ client'[j].pass = p
      /\ client'[j].sock = NoSock /\ client'[j].msgs = <<>>
      /\ \A k \in Ids : k # j => client'[k] = client[k]
  BY <1>1, <1>2 DEF NewSlot, Slots
<1>4. /\ home'[p] = j /\ view'[p] = "making"
      /\ \A q \in Passes : q # p => home'[q] = home[q] /\ view'[q] = view[q]
  BY <1>1, <1>2
<1>5. /\ ctx'[w].deltas = ctx[w].deltas /\ ctx'[w].sends = ctx[w].sends /\ ctx'[w].tx = ctx[w].tx
      /\ \A v \in Workers : v # w => ctx'[v] = ctx[v]
  BY <1>1, <1>2 DEF Contexts
<1>6. /\ pc[w] = "login" /\ pc'[w] = "use" /\ \A v \in Workers : v # w => pc'[v] = pc[v]
      /\ UNCHANGED <<inbox, owed, expunged, db, txs, message_send_mutex>>
  BY <1>1 DEF new_client, Goto
<1> QED BY <1>2, <1>3, <1>4, <1>5, <1>6 DEF Opened

\* uw_client_connect of a view that is admitted: what its slot's buffer holds is handed over.
Collected(i, p) ==
  /\ client[i].mode = "USED" /\ client[i].pass = p /\ Live(p) /\ home[p] = i
  /\ client'[i].mode = "USED" /\ client'[i].pass = p
  /\ client'[i].msgs = <<>> /\ client'[i].sock \in {NoSock, p}
  /\ \A j \in Ids : j # i => client'[j] = client[j]
  /\ inbox' = [inbox EXCEPT ![p] = inbox[p] \o client[i].msgs]
  /\ UNCHANGED <<home, view, expunged, owed, db, txs, message_send_mutex>>

LEMMA ClientConnect ==
  ASSUME IInv, ViewInv, NEW w \in Workers, uw_client_connect(w)
  PROVE  /\ Still \/ \E i \in Ids, p \in Passes : Collected(i, p)
         /\ pc[w] = "connect" /\ pc'[w] = "idle"
         /\ \A v \in Workers : v # w => pc'[v] = pc[v] /\ ctx'[v] = ctx[v]
         /\ UNCHANGED <<home, view, expunged, owed, db, txs, message_send_mutex>>
<1> DEFINE i == ctx[w].id
           c == client[i]
           p == ctx[w].pass
<1>1. /\ client \in [Ids -> Slots] /\ pc \in [Workers -> WorkerPcs] /\ ctx \in [Workers -> Contexts]
      /\ inbox \in [Passes -> Seq(Message)]
  BY DEF IInv, TypeOK
<1>2. /\ pc[w] = "connect" /\ pc'[w] = "idle"
      /\ \A v \in Workers : v # w => pc'[v] = pc[v] /\ ctx'[v] = ctx[v]
      /\ UNCHANGED <<home, view, expunged, owed, db, txs, message_send_mutex>>
  BY <1>1 DEF uw_client_connect, Goto
<1>3. i \in Ids /\ c \in Slots
  BY <1>1, <1>2 DEF IInv, ContextInv, ContextOf
<1>4. CASE ~Accepted(c, p)
  BY <1>2, <1>4 DEF uw_client_connect, Still
<1>5. CASE Accepted(c, p)
  <2>1. c.mode = "USED" /\ c.pass = p /\ p \in Passes /\ Live(p) /\ home[p] = i
    BY <1>3, <1>5 DEF Accepted, IInv, TableInv, ViewInv
  <2>2. client' = [client EXCEPT ![i] = Connected(c, p)] /\ inbox' = [inbox EXCEPT ![p] = inbox[p] \o c.msgs]
    BY <1>5 DEF uw_client_connect, Answer
  <2>3. /\ client'[i].mode = "USED" /\ client'[i].pass = p
        /\ client'[i].msgs = <<>> /\ client'[i].sock \in {NoSock, p}
        /\ \A j \in Ids : j # i => client'[j] = client[j]
    BY <1>1, <1>3, <2>1, <2>2 DEF Connected, Slots
  <2>4. Collected(i, p)
    BY <1>2, <2>1, <2>2, <2>3 DEF Collected
  <2> QED BY <1>2, <1>3, <2>1, <2>4
<1> QED BY <1>2, <1>4, <1>5

\* db_commit: every view is owed what the transaction has sent to it.
Committed(w) ==
  /\ \A p \in Passes : owed'[p] = owed[p] \o ctx[w].sends[p]
  /\ pc[w] = "commit" /\ pc'[w] = "send"
  /\ \A v \in Workers : v # w => pc'[v] = pc[v] /\ ctx'[v] = ctx[v]
  /\ ctx'[w].deltas = ctx[w].deltas /\ ctx'[w].sends = ctx[w].sends /\ ctx'[w].tx = ctx[w].tx
  /\ UNCHANGED <<client, home, view, expunged, inbox, txs, message_send_mutex>>

LEMMA DbCommit ==
  ASSUME IInv, SendInv, NEW w \in Workers, db_commit(w) PROVE Committed(w)
<1>1. /\ pc \in [Workers -> WorkerPcs] /\ ctx \in [Workers -> Contexts] /\ ctx[w] \in Contexts
      /\ owed \in [Passes -> Seq(Message)] /\ ctx[w].sends \in [Passes -> Seq(Message)]
  BY DEF IInv, TypeOK, Contexts
<1>2. /\ pc[w] = "commit" /\ pc'[w] = "send"
      /\ \A v \in Workers : v # w => pc'[v] = pc[v] /\ ctx'[v] = ctx[v]
      /\ UNCHANGED <<client, home, view, expunged, inbox, txs, message_send_mutex>>
  BY <1>1 DEF db_commit, Goto
<1>3. ctx'[w].deltas = ctx[w].deltas /\ ctx'[w].sends = ctx[w].sends /\ ctx'[w].tx = ctx[w].tx
  BY <1>1 DEF db_commit, Contexts
<1>4. ASSUME NEW p \in Passes PROVE owed'[p] = owed[p] \o ctx[w].sends[p]
  <2>1. CASE p \notin expunged
    BY <2>1 DEF db_commit
  <2>2. CASE p \in expunged
    <3>1. ctx[w].sends[p] = <<>>
      BY <1>2, <2>2 DEF SendInv, SendsOf, Complete, Live
    <3>2. owed[p] \o <<>> = owed[p]
      BY <1>1, ConcatEmptySeq
    <3> QED BY <2>2, <3>1, <3>2 DEF db_commit
  <2> QED BY <2>1, <2>2
<1> QED BY <1>2, <1>3, <1>4 DEF Committed

\* free_client: slot i is taken from view p, which is expunged.
Freed(i, p) ==
  /\ client[i].mode = "USED" /\ client[i].pass = p /\ Live(p) /\ home[p] = i
  /\ client'[i].mode = "UNUSED" /\ \A j \in Ids : j # i => client'[j] = client[j]
  /\ expunged' = expunged \cup {p}
  /\ UNCHANGED <<home, view, inbox, owed, pc, ctx, txs, message_send_mutex>>
  /\ expunge_lock.readers = {}

LEMMA FreedByPruner ==
  ASSUME IInv, ViewInv, uw_expunge_ok \/ uw_expunge_commit_error
  PROVE  \E i \in Ids, p \in Passes : Freed(i, p)
<1>1. client \in [Ids -> Slots] /\ \A i \in Ids : client[i] \in Slots
  BY DEF IInv, TypeOK
<1>2. /\ prune.c \in Ids /\ client[prune.c].mode = "USED"
      /\ client' = [client EXCEPT ![prune.c] = [client[prune.c] EXCEPT
                                                  !.mode = "UNUSED", !.pass = NoPass]]
      /\ UNCHANGED <<view, home, pc, ctx>>
  BY FreeClient DEF IInv, uw_expunge_ok, uw_expunge_commit_error
<1>3. client'[prune.c].mode = "UNUSED" /\ \A j \in Ids : j # prune.c => client'[j] = client[j]
  BY <1>1, <1>2 DEF Slots
<1>4. /\ UNCHANGED <<inbox, owed, txs, message_send_mutex>> /\ prune.pc = "expunge"
      /\ expunged' = expunged \cup {client[prune.c].pass}
  BY DEF uw_expunge_ok, uw_expunge_commit_error, free_client
<1>5. expunge_lock.readers = {}
  BY <1>4 DEF IInv, LockInv
<1>6. client[prune.c].pass \in Passes /\ Live(client[prune.c].pass) /\ home[client[prune.c].pass] = prune.c
  BY <1>2 DEF IInv, TableInv, ViewInv
<1>7. Freed(prune.c, client[prune.c].pass)
  BY <1>2, <1>3, <1>4, <1>5, <1>6 DEF Freed
<1> QED BY <1>2, <1>6, <1>7

\* Every step is one of these.
Mailed == \/ Still
          \/ \E w \in Workers, i \in Ids, p \in Passes : Opened(w, i, p)
          \/ \E w \in Workers : Committed(w)
          \/ \E w \in Workers, i \in Ids, p \in Passes, msgs \in Seq(Message) : Sent(w, i, p, msgs)
          \/ \E i \in Ids, p \in Passes : Collected(i, p) \/ Freed(i, p)

LEMMA StepMailed == ASSUME IInv, ViewInv, SendInv, [Next]_vars PROVE Mailed
<1>1. ASSUME NEW w \in Workers, Step(w) \/ Arrival(w) PROVE Mailed
  <2>1. CASE new_client(w)
    BY <2>1, OpenedByNew DEF Mailed
  <2>2. CASE db_commit(w)
    BY <2>2, DbCommit DEF Mailed
  <2>3. CASE client_send(w)
    BY <2>3, ClientSend DEF Mailed
  <2>4. CASE uw_client_connect(w)
    BY <2>4, ClientConnect DEF Mailed
  <2>5. CASE ~new_client(w) /\ ~db_commit(w) /\ ~client_send(w) /\ ~uw_client_connect(w)
    BY <1>1, <2>5, StepStill DEF Mailed, IInv
  <2> QED BY <2>1, <2>2, <2>3, <2>4, <2>5
<1>2. CASE uw_expunge_ok \/ uw_expunge_commit_error
  BY <1>2, FreedByPruner DEF Mailed
<1>3. CASE \/ uw_prune_clients /\ ~uw_expunge_ok /\ ~uw_expunge_commit_error
           \/ (\E i \in Ids : TimeoutPasses(i)) \/ (\E p \in Passes : ViewLeaves(p)) \/ UNCHANGED vars
  BY <1>3, OthersStill DEF Mailed, IInv
<1> QED BY <1>1, <1>2, <1>3 DEF Next

LEMMA ViewStep == ASSUME IInv, ViewInv, SendInv, [Next]_vars PROVE ViewInv'
<1>1. /\ \A i \in Ids : client[i].mode \in {"UNUSED", "USED"}
      /\ \A i \in Ids : client[i].mode = "USED" => client[i].pass \in Passes
      /\ inbox \in [Passes -> Seq(Message)] /\ owed \in [Passes -> Seq(Message)]
      /\ \A p \in Passes : Live(p) => home[p] \in Ids
      /\ Ids \cap {NoId} = {}
  <2>1. \A i \in Ids : client[i].mode \in {"UNUSED", "USED"}
    BY DEF IInv, TypeOK, Slots
  <2>2. Ids \cap {NoId} = {}
    BY DEF Ids, NoId
  <2>3. inbox \in [Passes -> Seq(Message)] /\ owed \in [Passes -> Seq(Message)]
    BY DEF IInv, TypeOK
  <2> QED BY <2>1, <2>2, <2>3 DEF IInv, TableInv, Live
<1>2. CASE Still
  BY <1>2, ViewStill DEF IInv
<1>3. ASSUME NEW w \in Workers, NEW i \in Ids, NEW p \in Passes, Opened(w, i, p) PROVE ViewInv'
  <2>1. ASSUME NEW q \in Passes, q # p PROVE Live(q)' <=> Live(q)
    BY <1>3, <2>1 DEF Opened, Live
  <2>2. Live(p)' /\ ~Live(p) /\ inbox[p] = <<>> /\ owed[p] = <<>>
    BY <1>3 DEF Opened, Live, ViewInv
  <2>3. ASSUME NEW j \in Ids, client'[j].mode = "USED"
        PROVE  /\ view'[client'[j].pass] # "unborn" /\ client'[j].pass \notin expunged'
               /\ home'[client'[j].pass] = j
               /\ client'[j].sock \in {NoSock, client'[j].pass}
               /\ client'[j].sock # NoSock => client'[j].msgs = <<>>
    <3>1. CASE j = i
      BY <1>3, <2>2, <3>1 DEF Opened, Live
    <3>2. CASE j # i
      <4>1. /\ client'[j] = client[j] /\ client[j].pass \in Passes /\ Live(client[j].pass)
            /\ home[client[j].pass] = j
            /\ client'[j].sock \in {NoSock, client'[j].pass}
            /\ client'[j].sock # NoSock => client'[j].msgs = <<>>
        BY <1>1, <1>3, <2>3, <3>2 DEF Opened, ViewInv
      <4>2. client[j].pass # p
        BY <2>2, <4>1
      <4>3. home'[client[j].pass] = j /\ view'[client[j].pass] # "unborn" /\ expunged' = expunged
            /\ client[j].pass \notin expunged
        BY <1>3, <4>1, <4>2 DEF Opened, Live
      <4> QED BY <4>1, <4>3
    <3> QED BY <3>1, <3>2
  <2>4. ASSUME NEW q \in Passes, Live(q)'
        PROVE  client'[home'[q]].mode = "USED" /\ client'[home'[q]].pass = q
    <3>1. CASE q = p
      BY <1>3, <3>1 DEF Opened
    <3>2. CASE q # p
      <4>1. /\ Live(q) /\ home[q] \in Ids /\ client[home[q]].mode = "USED"
            /\ client[home[q]].pass = q /\ home'[q] = home[q] /\ client[i].mode = "UNUSED"
        BY <1>1, <1>3, <2>1, <2>4, <3>2 DEF Opened, ViewInv
      <4>2. client'[home[q]] = client[home[q]]
        BY <1>3, <4>1 DEF Opened
      <4> QED BY <4>1, <4>2
    <3> QED BY <3>1, <3>2
  <2>5. ASSUME NEW q \in Passes, view'[q] = "unborn"
        PROVE  q \notin expunged' /\ inbox'[q] = <<>> /\ owed'[q] = <<>>
    <3>1. q # p /\ view[q] = "unborn"
      <4>1. view'[p] = "making" /\ \A x \in Passes : x # p => view'[x] = view[x]
        BY <1>3 DEF Opened
      <4> QED BY <2>5, <4>1
    <3> QED BY <1>3, <3>1 DEF Opened, ViewInv
  <2> QED BY <2>3, <2>4, <2>5 DEF ViewInv, Live
<1>4. ASSUME NEW w \in Workers, Committed(w) PROVE ViewInv'
  <2>1. ASSUME NEW p \in Passes, view[p] = "unborn" PROVE owed'[p] = <<>>
    <3>1. ctx[w].sends[p] = <<>>
      BY <1>4, <2>1 DEF Committed, SendInv, SendsOf, Complete, Live
    <3>2. owed'[p] = <<>> \o <<>> /\ <<>> \in Seq(Message)
      BY <1>1, <1>4, <2>1, <3>1 DEF Committed, ViewInv
    <3> QED BY <3>2, ConcatEmptySeq
  <2>2. UNCHANGED <<client, home, view, expunged, inbox>>
    BY <1>4 DEF Committed
  <2> QED BY <2>1, <2>2 DEF ViewInv, Live
<1>5. ASSUME NEW w \in Workers, NEW i \in Ids, NEW p \in Passes, NEW msgs \in Seq(Message), Sent(w, i, p, msgs)
      PROVE ViewInv'
  <2>1. /\ client[i].mode = "USED" /\ client[i].pass = p /\ Live(p) /\ home[p] = i
        /\ client'[i].mode = "USED" /\ client'[i].pass = p
        /\ \A j \in Ids : j # i => client'[j] = client[j]
        /\ UNCHANGED <<home, view, expunged>>
        /\ client'[i].sock = NoSock
        /\ \A q \in Passes : q # p => inbox'[q] = inbox[q] /\ owed'[q] = owed[q]
    BY <1>1, <1>5 DEF Sent, Handed
  <2>2. \A q \in Passes : view[q] = "unborn" => q # p
    BY <2>1 DEF Live
  <2>3. ASSUME NEW j \in Ids, client'[j].mode = "USED"
        PROVE  /\ Live(client'[j].pass) /\ home[client'[j].pass] = j
               /\ client'[j].sock \in {NoSock, client'[j].pass}
               /\ client'[j].sock # NoSock => client'[j].msgs = <<>>
    BY <2>1, <2>3 DEF ViewInv
  <2>4. ASSUME NEW q \in Passes, Live(q) PROVE client'[home[q]].mode = "USED" /\ client'[home[q]].pass = q
    BY <1>1, <2>1, <2>4 DEF ViewInv
  <2>5. \A q \in Passes : Live(q)' <=> Live(q)
    BY <2>1 DEF Live
  <2>6. \A q \in Passes : view'[q] = "unborn" => q \notin expunged' /\ inbox'[q] = <<>> /\ owed'[q] = <<>>
    BY <2>1, <2>2 DEF ViewInv
  <2> QED BY <2>1, <2>3, <2>4, <2>5, <2>6 DEF ViewInv, Live
<1>6. ASSUME NEW i \in Ids, NEW p \in Passes, Collected(i, p) PROVE ViewInv'
  <2>1. /\ client[i].mode = "USED" /\ client[i].pass = p /\ Live(p) /\ home[p] = i
        /\ client'[i].mode = "USED" /\ client'[i].pass = p
        /\ \A j \in Ids : j # i => client'[j] = client[j]
        /\ UNCHANGED <<home, view, expunged, owed>>
        /\ client'[i].msgs = <<>> /\ client'[i].sock \in {NoSock, p}
        /\ \A q \in Passes : q # p => inbox'[q] = inbox[q]
    BY <1>1, <1>6 DEF Collected
  <2>2. \A q \in Passes : view[q] = "unborn" => q # p
    BY <2>1 DEF Live
  <2>3. ASSUME NEW j \in Ids, client'[j].mode = "USED"
        PROVE  /\ Live(client'[j].pass) /\ home[client'[j].pass] = j
               /\ client'[j].sock \in {NoSock, client'[j].pass}
               /\ client'[j].sock # NoSock => client'[j].msgs = <<>>
    BY <2>1, <2>3 DEF ViewInv
  <2>4. ASSUME NEW q \in Passes, Live(q) PROVE client'[home[q]].mode = "USED" /\ client'[home[q]].pass = q
    BY <1>1, <2>1, <2>4 DEF ViewInv
  <2>5. \A q \in Passes : Live(q)' <=> Live(q)
    BY <2>1 DEF Live
  <2>6. \A q \in Passes : view'[q] = "unborn" => q \notin expunged' /\ inbox'[q] = <<>> /\ owed'[q] = <<>>
    BY <2>1, <2>2 DEF ViewInv
  <2> QED BY <2>1, <2>3, <2>4, <2>5, <2>6 DEF ViewInv, Live
<1>7. ASSUME NEW i \in Ids, NEW p \in Passes, Freed(i, p) PROVE ViewInv'
  <2>1. /\ client[i].pass = p /\ Live(p) /\ home[p] = i /\ client'[i].mode # "USED"
        /\ \A j \in Ids : j # i => client'[j] = client[j]
        /\ UNCHANGED <<home, view, inbox, owed>> /\ expunged' = expunged \cup {p}
    BY <1>7 DEF Freed
  <2>2. \A q \in Passes : Live(q)' <=> Live(q) /\ q # p
    BY <2>1 DEF Live
  <2>3. ASSUME NEW j \in Ids, client'[j].mode = "USED"
        PROVE  /\ view'[client'[j].pass] # "unborn" /\ client'[j].pass \notin expunged'
               /\ home[client'[j].pass] = j
               /\ client'[j].sock \in {NoSock, client'[j].pass}
               /\ client'[j].sock # NoSock => client'[j].msgs = <<>>
    <3>1. client'[j] = client[j] /\ j # i
      BY <2>1, <2>3
    <3>2. /\ client[j].pass \in Passes /\ Live(client[j].pass) /\ home[client[j].pass] = j
          /\ client[j].sock \in {NoSock, client[j].pass}
          /\ client[j].sock # NoSock => client[j].msgs = <<>>
      BY <1>1, <2>3, <3>1 DEF ViewInv
    <3>3. client[j].pass # p
      BY <2>1, <3>1, <3>2
    <3> QED BY <2>1, <3>1, <3>2, <3>3 DEF Live
  <2>4. ASSUME NEW q \in Passes, Live(q), q # p PROVE client'[home[q]].mode = "USED" /\ client'[home[q]].pass = q
    <3>1. home[q] \in Ids /\ client[home[q]].mode = "USED" /\ client[home[q]].pass = q
      BY <1>1, <2>4 DEF ViewInv
    <3>2. home[q] # i
      BY <2>1, <2>4, <3>1
    <3> QED BY <2>1, <3>1, <3>2
  <2>5. \A q \in Passes : view'[q] = "unborn" => q \notin expunged' /\ inbox'[q] = <<>> /\ owed'[q] = <<>>
    BY <2>1 DEF ViewInv, Live
  <2> QED BY <2>1, <2>2, <2>3, <2>4, <2>5 DEF ViewInv, Live
<1> QED BY <1>2, <1>3, <1>4, <1>5, <1>6, <1>7, StepMailed DEF Mailed

\* How a worker comes to commit and to send.
LEMMA ToCommit ==
  ASSUME TypeOK, NEW w \in Workers, Step(w) \/ Arrival(w)
  PROVE  /\ pc'[w] = "commit" => LockMessages(w)
         /\ pc'[w] = "send" => db_commit(w) \/ client_send(w)
<1>1. pc \in [Workers -> WorkerPcs]
  BY DEF TypeOK
<1>2. CASE Login(w)
  BY <1>1, <1>2, ZenonT(60) DEF Login, no_client, find_client, new_client, NoClientLeft, use_client,
     pull_client, check_client, Leave, Goto
<1>3. CASE Body(w)
  BY <1>1, <1>3, ZenonT(40) DEF Body, new_channel_read, new_channel, uw_Basis_send, Abort, Leave, Goto
<1>4. CASE Finish(w)
  BY <1>1, <1>4, ZenonT(60) DEF Finish, LockMessages, db_commit_unsent, db_commit_fails, db_commit, client_send, NothingToSend,
     unpull_client, release_client, uw_transaction_departs, Leave, Goto
<1>5. CASE Poll(w) \/ Arrival(w)
  BY <1>1, <1>5, ZenonT(60) DEF Poll, PollFinds, uw_client_connect, Arrival, PlainArrives, PageArrives,
     RpcArrives, PollArrives, uw_transaction_arrives, Goto
<1> QED BY <1>2, <1>3, <1>4, <1>5 DEF Step

LEMMA MutexKeeps ==
  ASSUME TypeOK, NEW w \in Workers, Step(w) \/ Arrival(w)
  PROVE  \/ message_send_mutex' = message_send_mutex
         \/ message_send_mutex = NoOne /\ message_send_mutex' = w
         \/ pc[w] \in {"commit", "send"} /\ ctx[w].deltas # <<>> /\ message_send_mutex' = NoOne
<1>1. CASE Login(w)
  BY <1>1 DEF Login, no_client, find_client, new_client, NoClientLeft, use_client, pull_client,
     check_client
<1>2. CASE Body(w) \/ Poll(w)
  BY <1>2, ZenonT(60) DEF Body, new_channel_read, new_channel, uw_Basis_send, Abort, Poll, PollFinds,
     uw_client_connect
<1>3. CASE LockMessages(w)
  BY <1>3 DEF LockMessages, MessageTurn
<1>4. CASE db_commit_unsent(w) \/ db_commit_fails(w)
  BY <1>4 DEF db_commit_unsent, db_commit_fails, UnlockMessages
<1>5. CASE client_send(w)
  BY <1>5, ZenonT(60) DEF client_send
<1>6. CASE db_commit(w) \/ NothingToSend(w) \/ unpull_client(w) \/ release_client(w)
           \/ uw_transaction_departs(w)
  BY <1>6, ZenonT(60) DEF db_commit, NothingToSend, unpull_client, release_client, uw_transaction_departs
<1>7. CASE Arrival(w)
  BY <1>7, ZenonT(40) DEF Arrival, PlainArrives, PageArrives, RpcArrives, PollArrives, uw_transaction_arrives
<1> QED BY <1>1, <1>2, <1>3, <1>4, <1>5, <1>6, <1>7 DEF Step, Finish

\* The other workers' contexts, whatever w does.
LEMMA StepAlone == ASSUME IInv, NEW w \in Workers, Step(w) \/ Arrival(w) PROVE Alone(w)
<1>1. CASE new_client(w)
  BY <1>1, NewClientContext DEF IInv, TypeOK, Alone
<1> QED BY <1>1, StepKeeps, ArrivalKeeps DEF IInv

LEMMA MutexStep ==
  ASSUME IInv, ViewInv, SendInv, MutexInv, [Next]_vars PROVE MutexInv'
<1>1. ASSUME NEW w \in Workers, Step(w) \/ Arrival(w), NEW v \in Workers, v # w PROVE MutexOf(v)'
  <2>1. pc'[v] = pc[v] /\ ctx'[v] = ctx[v] /\ MutexOf(v) /\ MutexOf(w) /\ NoOne \notin Workers
    BY <1>1, StepAlone, ThreadsAssumption DEF Alone, MutexInv
  <2>2. \/ message_send_mutex' = message_send_mutex
        \/ message_send_mutex = NoOne /\ message_send_mutex' = w
        \/ pc[w] \in {"commit", "send"} /\ ctx[w].deltas # <<>> /\ message_send_mutex' = NoOne
    BY <1>1, MutexKeeps DEF IInv
  <2> QED BY <1>1, <2>1, <2>2 DEF MutexOf
<1>2. ASSUME NEW w \in Workers, Step(w) \/ Arrival(w) PROVE MutexOf(w)'
  <2>1. CASE LockMessages(w)
    BY <2>1 DEF LockMessages, MutexOf
  <2>2. CASE db_commit(w)
    <3>1. Committed(w) /\ MutexOf(w)
      BY <2>2, DbCommit DEF MutexInv
    <3> QED BY <3>1 DEF Committed, MutexOf
  <2>3. CASE client_send(w)
    <3>1. PICK i \in Ids, p \in Passes, msgs \in Seq(Message) : Relieved(w, i, msgs)
      BY <2>3, ClientSend
    <3>2. MutexOf(w)
      BY DEF MutexInv
    <3> QED BY <3>1, <3>2 DEF Relieved, MutexOf
  <2>4. CASE ~LockMessages(w) /\ ~db_commit(w) /\ ~client_send(w)
    BY <1>2, <2>4, ToCommit DEF IInv, MutexOf
  <2> QED BY <2>1, <2>2, <2>3, <2>4
<1>3. CASE \/ uw_expunge_ok \/ uw_expunge_commit_error
  BY <1>3 DEF uw_expunge_ok, uw_expunge_commit_error, free_client, MutexInv, MutexOf
<1>4. CASE \/ uw_prune_clients /\ ~uw_expunge_ok /\ ~uw_expunge_commit_error
           \/ (\E i \in Ids : TimeoutPasses(i)) \/ (\E p \in Passes : ViewLeaves(p)) \/ UNCHANGED vars
  <2>1. UNCHANGED <<pc, ctx, message_send_mutex>>
    BY <1>4, OthersStill DEF IInv
  <2> QED BY <2>1 DEF MutexInv, MutexOf
<1>5. ASSUME NEW w \in Workers, Step(w) \/ Arrival(w) PROVE MutexInv'
  <2>1. ASSUME NEW v \in Workers PROVE MutexOf(v)'
    BY <1>1, <1>2, <1>5
  <2> QED BY <2>1 DEF MutexInv
<1> QED BY <1>3, <1>4, <1>5 DEF Next

\* While a transaction runs, used slots and live views stay as they are.
SlotsKept ==
  /\ \A i \in Ids : client[i].mode = "USED" => client'[i].mode = "USED" /\ client'[i].pass = client[i].pass
  /\ \A p \in Passes : Live(p) => Live(p)' /\ home'[p] = home[p]

LEMMA InsideKeepsSlots ==
  ASSUME IInv, Mailed, NEW v \in Workers, pc[v] \in Inside PROVE SlotsKept
<1>1. expunge_lock.readers # {}
  BY DEF IInv, LockInv
<1>2. CASE Still
  BY <1>2 DEF Still, SlotsKept, Live
<1>3. ASSUME NEW w \in Workers, NEW i \in Ids, NEW p \in Passes, Opened(w, i, p) PROVE SlotsKept
  <2>1. \A j \in Ids : client[j].mode = "USED" => client'[j] = client[j]
    BY <1>3 DEF Opened
  <2>2. ASSUME NEW q \in Passes, Live(q) PROVE Live(q)' /\ home'[q] = home[q]
    <3>1. q # p
      BY <1>3, <2>2 DEF Opened, Live
    <3> QED BY <1>3, <2>2, <3>1 DEF Opened, Live
  <2> QED BY <2>1, <2>2 DEF SlotsKept
<1>4. ASSUME NEW w \in Workers, Committed(w) PROVE SlotsKept
  BY <1>4 DEF Committed, SlotsKept, Live
<1>5. ASSUME NEW w \in Workers, NEW i \in Ids, NEW p \in Passes, NEW msgs \in Seq(Message), Sent(w, i, p, msgs)
      PROVE SlotsKept
  BY <1>5 DEF Sent, SlotsKept, Live
<1>6. ASSUME NEW i \in Ids, NEW p \in Passes, Collected(i, p) PROVE SlotsKept
  BY <1>6 DEF Collected, SlotsKept, Live
<1>7. ASSUME NEW i \in Ids, NEW p \in Passes PROVE ~Freed(i, p)
  BY <1>1 DEF Freed
<1> QED BY <1>2, <1>3, <1>4, <1>5, <1>6, <1>7 DEF Mailed

LEMMA SendsKept ==
  ASSUME IInv, SlotsKept, NEW w \in Workers,
         ctx'[w].deltas = ctx[w].deltas, ctx'[w].sends = ctx[w].sends, ctx'[w].tx = ctx[w].tx
  PROVE  /\ Addressed(w) => Addressed(w)'
         /\ Addressed(w) /\ Complete(w) => Complete(w)'
<1>1. \A d \in Elements(ctx[w].deltas) : d.client \in Ids
  <2>1. ctx[w].deltas \in Sendings
    BY DEF IInv, TypeOK, Contexts, Sendings
  <2>2. \A k \in 1 .. Len(ctx[w].deltas) : ctx[w].deltas[k] \in [client : Ids, msgs : Seq(Message)]
    BY <2>1, ElementOfSeq DEF Sendings
  <2> QED BY <2>2 DEF Elements
<1>2. Addressed(w) => Addressed(w)'
  BY <1>1 DEF Addressed, SlotsKept
<1>3. ASSUME Addressed(w), Complete(w) PROVE Complete(w)'
  <2>1. ASSUME NEW d \in Elements(ctx[w].deltas) PROVE d.msgs = ctx[w].sends[client'[d.client].pass]
    BY <1>1, <1>3, <2>1 DEF Addressed, Complete, SlotsKept
  <2>2. ASSUME NEW p \in Passes, ctx[w].sends[p] # <<>>
        PROVE  /\ Live(p)' /\ \E d \in Elements(ctx[w].deltas) : d.client = home'[p]
               /\ \A m \in Elements(ctx[w].sends[p]) : m.view = p /\ m.tx = ctx[w].tx
    BY <1>3, <2>2 DEF Complete, SlotsKept
  <2> QED BY <2>1, <2>2 DEF Complete
<1> QED BY <1>2, <1>3

\* allocate_delta: one delta per slot, the new message at the end of its slot's.
LEMMA EnqueueElements ==
  ASSUME NEW ds \in Sendings, NEW cli \in Ids, NEW m \in Message, Separate(ds)
  PROVE  /\ Separate(Enqueue(ds, cli, m))
         /\ \A e \in Elements(Enqueue(ds, cli, m)) : e.client # cli => e \in Elements(ds)
         /\ \A e \in Elements(Enqueue(ds, cli, m)) : e.client = cli =>
              \/ e.msgs = <<m>> /\ \A d \in Elements(ds) : d.client # cli
              \/ \E d \in Elements(ds) : d.client = cli /\ e.msgs = Append(d.msgs, m)
         /\ \A d \in Elements(ds) : \E e \in Elements(Enqueue(ds, cli, m)) : e.client = d.client
         /\ \E e \in Elements(Enqueue(ds, cli, m)) : e.client = cli
<1> DEFINE es == Enqueue(ds, cli, m)
           put == [k \in 1 .. Len(ds) |->
                     IF ds[k].client = cli THEN [ds[k] EXCEPT !.msgs = Append(@, m)] ELSE ds[k]]
           new == [client |-> cli, msgs |-> <<m>>]
<1>1. /\ Len(ds) \in Nat /\ DOMAIN ds = 1 .. Len(ds)
      /\ \A k \in 1 .. Len(ds) : ds[k] \in [client : Ids, msgs : Seq(Message)]
  BY LenProperties, ElementOfSeq DEF Sendings
<1>2. CASE \E k \in 1 .. Len(ds) : ds[k].client = cli
  <2>1. es = put
    BY <1>2, Zenon DEF Enqueue
  <2>2. Len(put) = Len(ds)
    BY <1>1
  <2>3. \A k \in 1 .. Len(ds) :
          /\ put[k].client = ds[k].client
          /\ ds[k].client # cli => put[k] = ds[k]
          /\ ds[k].client = cli => put[k].msgs = Append(ds[k].msgs, m)
    BY <1>1
  <2> HIDE DEF put
  <2>4. Separate(put)
    BY <2>2, <2>3 DEF Separate
  <2>5. \A e \in Elements(put) : e.client # cli => e \in Elements(ds)
    BY <2>2, <2>3 DEF Elements
  <2>6. ASSUME NEW e \in Elements(put), e.client = cli
        PROVE  \E d \in Elements(ds) : d.client = cli /\ e.msgs = Append(d.msgs, m)
    <3>1. PICK k \in 1 .. Len(ds) : e = put[k]
      BY <2>2 DEF Elements
    <3>2. ds[k] \in Elements(ds) /\ ds[k].client = cli /\ e.msgs = Append(ds[k].msgs, m)
      BY <2>3, <2>6, <3>1 DEF Elements
    <3> QED BY <3>2
  <2>7. ASSUME NEW d \in Elements(ds) PROVE \E e \in Elements(put) : e.client = d.client
    <3>1. PICK k \in 1 .. Len(ds) : d = ds[k]
      BY DEF Elements
    <3>2. put[k] \in Elements(put) /\ put[k].client = d.client
      BY <2>2, <2>3, <3>1 DEF Elements
    <3> QED BY <3>2
  <2>8. \E e \in Elements(put) : e.client = cli
    BY <1>2, <2>7 DEF Elements
  <2> QED BY <2>1, <2>4, <2>5, <2>6, <2>7, <2>8
<1>3. CASE ~(\E k \in 1 .. Len(ds) : ds[k].client = cli)
  <2>1. es = Append(ds, new)
    BY <1>3, Zenon DEF Enqueue
  <2>2. new \in [client : Ids, msgs : Seq(Message)]
    OBVIOUS
  <2>3. new.client = cli /\ new.msgs = <<m>>
    OBVIOUS
  <2> HIDE DEF new
  <2>4. /\ Len(Append(ds, new)) = Len(ds) + 1
        /\ \A k \in 1 .. Len(ds) : Append(ds, new)[k] = ds[k]
        /\ Append(ds, new)[Len(ds) + 1] = new
    BY <2>2, AppendProperties DEF Sendings
  <2>5. Elements(Append(ds, new)) = Elements(ds) \cup {new}
    <3> DEFINE t == Append(ds, new)
    <3> HIDE DEF t
    <3>1. \A k \in 1 .. Len(ds) + 1 : k \in 1 .. Len(ds) \/ k = Len(ds) + 1
      BY <1>1
    <3>2. /\ \A k \in 1 .. Len(ds) : k \in 1 .. Len(ds) + 1
          /\ Len(ds) + 1 \in 1 .. Len(ds) + 1
      BY <1>1
    <3>3. /\ Len(t) = Len(ds) + 1 /\ \A k \in 1 .. Len(ds) : t[k] = ds[k]
          /\ t[Len(ds) + 1] = new
      BY <2>4 DEF t
    <3>4. Elements(t) = Elements(ds) \cup {new}
      BY <3>1, <3>2, <3>3 DEF Elements
    <3> QED BY <3>4 DEF t
  <2>6. \A d \in Elements(ds) : d.client # cli
    BY <1>3 DEF Elements
  <2>7. Separate(Append(ds, new))
    <3>1. ASSUME NEW j \in 1 .. Len(ds) + 1, NEW k \in 1 .. Len(ds) + 1,
                 Append(ds, new)[j].client = Append(ds, new)[k].client
          PROVE  j = k
      <4>1. \A n \in 1 .. Len(ds) + 1 : n \in 1 .. Len(ds) \/ n = Len(ds) + 1
        BY <1>1
      <4> QED BY <1>3, <2>3, <2>4, <3>1, <4>1 DEF Separate
    <3> QED BY <2>4, <3>1 DEF Separate
  <2> QED BY <2>1, <2>3, <2>5, <2>6, <2>7
<1> QED BY <1>2, <1>3

\* uw_Basis_send: the channel belongs to the view whose slot it names.
LEMMA BasisSend ==
  ASSUME IInv, MadeInv, NoStaleChannels, ViewInv, SendInv, NEW w \in Workers, uw_Basis_send(w)
  PROVE  Addressed(w)' /\ Complete(w)' /\ pc'[w] = "body"
<1>1. /\ ctx \in [Workers -> Contexts] /\ ctx[w] \in Contexts
      /\ ctx[w].deltas \in Sendings /\ ctx[w].sends \in [Passes -> Seq(Message)]
  BY DEF IInv, TypeOK, Contexts, Sendings
<1>2. pc[w] = "body" /\ UNCHANGED <<pc, client, home, view, expunged>>
  BY DEF uw_Basis_send
<1>3. Addressed(w) /\ Complete(w) /\ ContextOf(w) /\ OwnerOf(w) /\ MadeOf(w)
  BY <1>2 DEF SendInv, SendsOf, IInv, ContextInv, OwnerInv, MadeInv
<1>4. PICK ch \in db \cup ctx[w].made :
        LET m == [view |-> ch.view, chn |-> ch.chn, tx |-> ctx[w].tx] IN
          ctx' = [ctx EXCEPT ![w].sends[ch.view] = Append(@, m),
                             ![w].sent = @ + 1,
                             ![w].deltas = Enqueue(@, ch.cli, m)]
  BY ZenonT(40) DEF uw_Basis_send
<1>5. ch \in Channel
  BY <1>1, <1>4 DEF IInv, TypeOK, Contexts
<1>6. PICK m : m = [view |-> ch.view, chn |-> ch.chn, tx |-> ctx[w].tx]
  OBVIOUS
<1>7. m \in Message /\ m.view = ch.view /\ m.tx = ctx[w].tx
  BY <1>2, <1>3, <1>5, <1>6 DEF Message, Channel, ContextOf, Inside
<1>8. /\ ctx'[w].deltas = Enqueue(ctx[w].deltas, ch.cli, m)
      /\ ctx'[w].sends = [ctx[w].sends EXCEPT ![ch.view] = Append(@, m)]
      /\ ctx'[w].tx = ctx[w].tx
  BY <1>1, <1>4, <1>6 DEF Contexts
<1>9. ch.cli \in Ids /\ ch.view \in Passes /\ client[ch.cli].mode = "USED" /\ client[ch.cli].pass = ch.view
  <2>1. CASE ch \in db
    BY <1>5, <2>1 DEF NoStaleChannels, Channel
  <2>2. CASE ch \in ctx[w].made
    BY <1>2, <1>3, <1>5, <2>2 DEF MadeOf, OwnerOf, Owns, Channel
  <2> QED BY <2>1, <2>2
<1>10. Live(ch.view) /\ home[ch.view] = ch.cli
  BY <1>9 DEF ViewInv
<1> DEFINE old == Elements(ctx[w].deltas)
           es == Elements(Enqueue(ctx[w].deltas, ch.cli, m))
<1>11. /\ Separate(Enqueue(ctx[w].deltas, ch.cli, m))
       /\ \A e \in es : e.client # ch.cli => e \in old
       /\ \A e \in es : e.client = ch.cli =>
            \/ e.msgs = <<m>> /\ \A d \in old : d.client # ch.cli
            \/ \E d \in old : d.client = ch.cli /\ e.msgs = Append(d.msgs, m)
       /\ \A d \in old : \E e \in es : e.client = d.client
       /\ \E e \in es : e.client = ch.cli
  BY <1>1, <1>3, <1>7, <1>9, EnqueueElements DEF Addressed
<1>12. \A d \in old : d.client \in Ids /\ client[d.client].mode = "USED" /\ client[d.client].pass \in Passes
                      /\ home[client[d.client].pass] = d.client
                      /\ d.msgs = ctx[w].sends[client[d.client].pass]
  <2>1. \A d \in old : d.client \in Ids
    <3>1. \A k \in 1 .. Len(ctx[w].deltas) : ctx[w].deltas[k] \in [client : Ids, msgs : Seq(Message)]
      BY <1>1, ElementOfSeq DEF Sendings
    <3> QED BY <3>1 DEF Elements
  <2>2. \A i \in Ids : client[i].mode = "USED" => client[i].pass \in Passes /\ home[client[i].pass] = i
    BY DEF IInv, TableInv, ViewInv
  <2> QED BY <1>3, <2>1, <2>2 DEF Addressed, Complete
<1> DEFINE sends == ctx'[w].sends
<1>13. /\ sends[ch.view] = Append(ctx[w].sends[ch.view], m)
       /\ \A p \in Passes : p # ch.view => sends[p] = ctx[w].sends[p]
       /\ ctx[w].sends[ch.view] \in Seq(Message)
  BY <1>1, <1>8, <1>9
<1>14. Elements(ctx'[w].deltas) = es
  BY <1>8
<1> HIDE DEF old, es, sends
<1>15. ctx[w].sends[ch.view] # <<>> => \E d \in old : d.client = ch.cli
  BY <1>3, <1>9, <1>10 DEF Complete, old
<1>16. \A e \in es : /\ client[e.client].mode = "USED"
                     /\ e.msgs = sends[client[e.client].pass]
  <2> TAKE e \in es
  <2>1. CASE e.client # ch.cli
    <3>1. e \in old
      BY <1>11, <2>1
    <3>2. client[e.client].pass # ch.view /\ client[e.client].pass \in Passes
      BY <1>10, <1>12, <2>1, <3>1
    <3> QED BY <1>12, <1>13, <3>1, <3>2
  <2>2. CASE e.client = ch.cli
    <3>1. CASE e.msgs = <<m>> /\ \A d \in old : d.client # ch.cli
      <4>1. ctx[w].sends[ch.view] = <<>>
        BY <1>15, <3>1
      <4>2. Append(<<>>, m) = <<m>>
        OBVIOUS
      <4> QED BY <1>9, <1>13, <2>2, <3>1, <4>1, <4>2
    <3>2. CASE \E d \in old : d.client = ch.cli /\ e.msgs = Append(d.msgs, m)
      <4>1. PICK d \in old : d.client = ch.cli /\ e.msgs = Append(d.msgs, m)
        BY <3>2
      <4>2. d.msgs = ctx[w].sends[ch.view]
        BY <1>9, <1>12, <4>1
      <4> QED BY <1>9, <1>13, <2>2, <4>1, <4>2
    <3> QED BY <1>11, <2>2, <3>1, <3>2
  <2> QED BY <2>1, <2>2
<1>17. \A p \in Passes : sends[p] # <<>> =>
         /\ Live(p) /\ \E e \in es : e.client = home[p]
         /\ \A n \in Elements(sends[p]) : n.view = p /\ n.tx = ctx[w].tx
  <2> SUFFICES ASSUME NEW p \in Passes, sends[p] # <<>>
               PROVE  /\ Live(p) /\ \E e \in es : e.client = home[p]
                      /\ \A n \in Elements(sends[p]) : n.view = p /\ n.tx = ctx[w].tx
    OBVIOUS
  <2>1. CASE p # ch.view
    BY <1>3, <1>11, <1>13, <2>1 DEF Complete, old
  <2>2. CASE p = ch.view
    <3>1. ASSUME NEW n \in Elements(sends[p]) PROVE n.view = p /\ n.tx = ctx[w].tx
      <4> DEFINE s == ctx[w].sends[p]
      <4>1. /\ Len(s) \in Nat /\ Len(sends[p]) = Len(s) + 1
            /\ \A k \in 1 .. Len(s) : sends[p][k] = s[k]
            /\ sends[p][Len(s) + 1] = m
        <5>1. s \in Seq(Message) /\ m \in Message /\ sends[p] = Append(s, m)
          BY <1>7, <1>13, <2>2
        <5> HIDE DEF s
        <5> QED BY <5>1, AppendProperties, LenProperties
      <4>2. PICK k \in 1 .. Len(sends[p]) : n = sends[p][k]
        BY <3>1 DEF Elements
      <4>3. k \in 1 .. Len(s) \/ k = Len(s) + 1
        BY <4>1, <4>2
      <4>4. CASE k = Len(s) + 1
        BY <1>7, <2>2, <4>1, <4>2, <4>4
      <4>5. CASE k \in 1 .. Len(s)
        <5>1. n = s[k] /\ s # <<>>
          BY <4>1, <4>2, <4>5
        <5>2. n \in Elements(s)
          BY <4>5, <5>1 DEF Elements
        <5> QED BY <1>3, <5>1, <5>2 DEF Complete
      <4> QED BY <4>3, <4>4, <4>5
    <3> QED BY <1>10, <1>11, <2>2, <3>1
  <2> QED BY <2>1, <2>2
<1>18. Addressed(w)'
  BY <1>2, <1>8, <1>11, <1>14, <1>16 DEF Addressed
<1>19. Complete(w)'
  BY <1>2, <1>8, <1>14, <1>16, <1>17 DEF Complete, Live, sends
<1> QED BY <1>2, <1>18, <1>19

\* Every other step of a transaction leaves what it has sent alone.
LEMMA StepSends ==
  ASSUME IInv, NEW w \in Workers, Step(w), pc'[w] \in Before \cup {"send"},
         ~uw_Basis_send(w), ~client_send(w)
  PROVE  /\ ctx'[w].deltas = ctx[w].deltas /\ ctx'[w].sends = ctx[w].sends /\ ctx'[w].tx = ctx[w].tx
         /\ pc'[w] \in {"login", "use", "pull", "check"} => pc[w] \in {"login", "use", "pull", "check"}
         /\ pc'[w] \in {"body", "channel", "commit"} =>
              pc[w] \in {"login", "use", "pull", "check", "body", "channel"}
         /\ pc'[w] = "send" => pc[w] = "commit"
<1>1. /\ ctx \in [Workers -> Contexts] /\ ctx[w] \in Contexts /\ pc \in [Workers -> WorkerPcs]
  BY DEF IInv, TypeOK
<1>2. CASE new_client(w)
  <2>1. \E i \in Ids, p \in Passes : Opened(w, i, p)
    BY <1>2, OpenedByNew
  <2> QED BY <2>1 DEF Opened
<1>3. CASE Login(w) /\ ~new_client(w)
  <2>1. CASE pull_client(w)
    BY <1>1, <2>1 DEF pull_client, Goto, Contexts
  <2>2. CASE no_client(w) \/ find_client(w) \/ NoClientLeft(w) \/ use_client(w) \/ check_client(w)
    <3>1. ctx' = ctx /\ pc[w] \in {"login", "use", "check"}
      BY <2>2, ZenonT(60) DEF no_client, find_client, NoClientLeft, use_client, check_client
    <3>2. pc'[w] \in {"body", "use", "depart", "pull", "unpull"}
      BY <1>1, <2>2 DEF no_client, find_client, NoClientLeft, use_client, check_client, Leave, Goto
    <3> QED BY <3>1, <3>2
  <2> QED BY <1>3, <2>1, <2>2 DEF Login
<1>4. CASE Body(w)
  <2>1. CASE new_channel_read(w)
    BY <1>1, <2>1 DEF new_channel_read, Goto, Contexts
  <2>2. CASE new_channel(w)
    BY <1>1, <2>2 DEF new_channel, Goto, Contexts
  <2>3. CASE Abort(w)
    <3>1. pc'[w] \in {"unpull", "depart"}
      BY <1>1, <2>3 DEF Abort, Leave, Goto
    <3> QED BY <3>1 DEF Before
  <2> QED BY <1>4, <2>1, <2>2, <2>3 DEF Body
<1>5. CASE db_commit(w)
  BY <1>1, <1>5 DEF db_commit, Goto, Contexts
<1>6. CASE LockMessages(w)
  BY <1>1, <1>6 DEF LockMessages, Goto
<1>7. CASE db_commit_unsent(w) \/ db_commit_fails(w) \/ NothingToSend(w) \/ unpull_client(w) \/ release_client(w)
           \/ uw_transaction_departs(w) \/ Poll(w)
  <2>1. pc'[w] \notin Before \cup {"send"}
    BY <1>1, <1>7, ZenonT(60) DEF db_commit_unsent, db_commit_fails, NothingToSend, unpull_client, release_client,
       uw_transaction_departs, Poll, PollFinds, uw_client_connect, Leave, Goto, Before
  <2> QED BY <2>1
<1> QED BY <1>2, <1>3, <1>4, <1>5, <1>6, <1>7 DEF Step, Finish

LEMMA ArrivalResets ==
  ASSUME IInv, NEW w \in Workers, Arrival(w)
  PROVE  /\ ctx'[w].deltas = <<>> /\ \A p \in Passes : ctx'[w].sends[p] = <<>>
         /\ pc[w] = "idle"
         /\ \/ pc'[w] = "find" /\ txs' = txs
            \/ pc'[w] = "login" /\ ctx'[w].tx = txs + 1 /\ txs' = txs + 1
<1>1. ctx \in [Workers -> Contexts] /\ pc \in [Workers -> WorkerPcs]
  BY DEF IInv, TypeOK
<1>2. ASSUME NEW kind, NEW id, NEW pass, uw_transaction_arrives(w, kind, id, pass)
      PROVE  /\ ctx'[w].deltas = <<>> /\ \A p \in Passes : ctx'[w].sends[p] = <<>>
             /\ pc[w] = "idle" /\ pc'[w] = "login" /\ ctx'[w].tx = txs + 1 /\ txs' = txs + 1
  BY <1>1, <1>2 DEF uw_transaction_arrives, ResetContext, Goto
<1>3. ASSUME NEW h, PollArrives(w, h)
      PROVE  /\ ctx'[w].deltas = <<>> /\ \A p \in Passes : ctx'[w].sends[p] = <<>>
             /\ pc[w] = "idle" /\ pc'[w] = "find" /\ txs' = txs
  BY <1>1, <1>3 DEF PollArrives, ResetContext, Goto
<1> QED BY <1>2, <1>3, ZenonT(60) DEF Arrival, PlainArrives, PageArrives, RpcArrives

LEMMA SendStep ==
  ASSUME IInv, MadeInv, NoStaleChannels, ViewInv, SendInv, [Next]_vars PROVE SendInv'
<1>1. Mailed /\ pc \in [Workers -> WorkerPcs] /\ ctx \in [Workers -> Contexts]
  BY StepMailed DEF IInv, TypeOK
<1>2. ASSUME NEW v \in Workers, pc'[v] = pc[v], ctx'[v] = ctx[v] PROVE SendsOf(v)'
  <2>1. SendsOf(v)
    BY DEF SendInv
  <2>2. CASE pc[v] \in Inside
    <3>1. SlotsKept
      BY <1>1, <2>2, InsideKeepsSlots
    <3>2. /\ Addressed(v) => Addressed(v)'
          /\ Addressed(v) /\ Complete(v) => Complete(v)'
      BY <1>2, <3>1, SendsKept
    <3> QED BY <1>2, <2>1, <3>2 DEF SendsOf
  <2>3. CASE pc[v] \notin Inside
    BY <1>2, <2>3 DEF Inside, SendsOf
  <2> QED BY <2>2, <2>3
<1>3. ASSUME NEW w \in Workers, Step(w) \/ Arrival(w) PROVE SendsOf(w)'
  <2>1. CASE Arrival(w)
    BY <2>1, ArrivalResets DEF SendsOf
  <2>2. CASE uw_Basis_send(w)
    BY <2>2, BasisSend DEF SendsOf
  <2>3. CASE client_send(w)
    <3>1. PICK i \in Ids, p \in Passes, msgs \in Seq(Message) : Relieved(w, i, msgs)
      BY <2>3, ClientSend
    <3>2. /\ pc[w] = "send" /\ Addressed(w) /\ Separate(ctx'[w].deltas)
          /\ Elements(ctx'[w].deltas) \subseteq Elements(ctx[w].deltas)
          /\ pc'[w] \notin {"login", "use", "pull", "check", "body", "channel", "commit"}
      BY <3>1 DEF Relieved, SendInv, SendsOf
    <3>3. SlotsKept
      BY <1>1, <3>2, InsideKeepsSlots DEF Inside
    <3>4. \A d \in Elements(ctx[w].deltas) : d.client \in Ids
      <4>1. ctx[w].deltas \in Sendings
        BY DEF IInv, TypeOK, Contexts, Sendings
      <4>2. \A k \in 1 .. Len(ctx[w].deltas) : ctx[w].deltas[k] \in [client : Ids, msgs : Seq(Message)]
        BY <4>1, ElementOfSeq DEF Sendings
      <4> QED BY <4>2 DEF Elements
    <3>5. \A d \in Elements(ctx'[w].deltas) : client'[d.client].mode = "USED"
      BY <3>2, <3>3, <3>4 DEF Addressed, SlotsKept
    <3>6. Addressed(w)'
      BY <3>2, <3>5 DEF Addressed, Elements
    <3> QED BY <3>2, <3>6 DEF SendsOf
  <2>4. CASE Step(w) /\ ~uw_Basis_send(w) /\ ~client_send(w)
    <3>1. CASE pc'[w] \in Before \cup {"send"}
      <4>1. /\ ctx'[w].deltas = ctx[w].deltas /\ ctx'[w].sends = ctx[w].sends /\ ctx'[w].tx = ctx[w].tx
            /\ pc'[w] \in {"login", "use", "pull", "check"} => pc[w] \in {"login", "use", "pull", "check"}
            /\ pc'[w] \in {"body", "channel", "commit"} =>
                 pc[w] \in {"login", "use", "pull", "check", "body", "channel"}
            /\ pc'[w] = "send" => pc[w] = "commit"
        BY <2>4, <3>1, StepSends
      <4>2. SendsOf(w) /\ pc[w] \in Inside
        BY <3>1, <4>1 DEF SendInv, Before, Inside
      <4>3. SlotsKept
        BY <1>1, <4>2, InsideKeepsSlots
      <4>4. /\ Addressed(w) => Addressed(w)'
            /\ Addressed(w) /\ Complete(w) => Complete(w)'
        BY <4>1, <4>3, SendsKept
      <4>5. pc[w] \in {"login", "use", "pull", "check"} => Addressed(w) /\ Complete(w)
        BY <4>2 DEF SendsOf, Addressed, Complete, Separate, Elements
      <4> QED BY <4>1, <4>2, <4>4, <4>5 DEF SendsOf
    <3>2. CASE pc'[w] \notin Before \cup {"send"}
      BY <3>2 DEF Before, SendsOf
    <3> QED BY <3>1, <3>2
  <2> QED BY <1>3, <2>1, <2>2, <2>3, <2>4
<1>4. ASSUME NEW w \in Workers, Step(w) \/ Arrival(w) PROVE SendInv'
  <2>1. ASSUME NEW v \in Workers PROVE SendsOf(v)'
    <3>1. CASE v = w
      BY <1>3, <1>4, <3>1
    <3>2. CASE v # w
      BY <1>2, <1>4, <3>2, StepAlone DEF Alone
    <3> QED BY <3>1, <3>2
  <2> QED BY <2>1 DEF SendInv
<1>5. ASSUME UNCHANGED <<pc, ctx>> PROVE SendInv'
  BY <1>2, <1>5 DEF SendInv
<1>6. CASE uw_expunge_ok \/ uw_expunge_commit_error
  <2>1. UNCHANGED <<pc, ctx>>
    BY <1>6 DEF uw_expunge_ok, uw_expunge_commit_error, free_client
  <2> QED BY <1>5, <2>1
<1>7. CASE \/ uw_prune_clients /\ ~uw_expunge_ok /\ ~uw_expunge_commit_error
           \/ (\E i \in Ids : TimeoutPasses(i)) \/ (\E p \in Passes : ViewLeaves(p)) \/ UNCHANGED vars
  BY <1>5, <1>7, OthersStill DEF IInv
<1> QED BY <1>4, <1>6, <1>7 DEF Next

LEMMA StepTags ==
  ASSUME IInv, NEW w \in Workers, Step(w)
  PROVE  /\ txs' = txs
         /\ pc'[w] \in Inside => pc[w] \in Inside /\ ctx'[w].tx = ctx[w].tx
         /\ pc'[w] \in Before => pc[w] \in Before
         /\ ~db_commit(w) /\ ~client_send(w) => owed' = owed
<1>1. /\ ctx \in [Workers -> Contexts] /\ ctx[w] \in Contexts /\ pc \in [Workers -> WorkerPcs]
  BY DEF IInv, TypeOK
<1>2. CASE new_client(w)
  <2>1. \E i \in Ids, p \in Passes : Opened(w, i, p)
    BY <1>2, OpenedByNew
  <2> QED BY <2>1 DEF Opened, Inside, Before
<1>3. CASE Login(w) /\ ~new_client(w)
  <2>1. CASE pull_client(w)
    BY <1>1, <2>1 DEF pull_client, Goto, Contexts, Inside, Before
  <2>2. CASE no_client(w) \/ find_client(w) \/ NoClientLeft(w) \/ use_client(w) \/ check_client(w)
    BY <1>1, <2>2, ZenonT(60) DEF no_client, find_client, NoClientLeft, use_client, check_client, Inside, Before
  <2> QED BY <1>3, <2>1, <2>2 DEF Login
<1>4. CASE Body(w)
  <2>1. CASE new_channel_read(w)
    BY <1>1, <2>1 DEF new_channel_read, Goto, Contexts, Inside, Before
  <2>2. CASE new_channel(w)
    BY <1>1, <2>2 DEF new_channel, Goto, Contexts, Inside, Before
  <2>3. CASE uw_Basis_send(w)
    BY <1>1, <2>3 DEF uw_Basis_send, Contexts, Inside, Before
  <2>4. CASE Abort(w)
    BY <1>1, <2>4, ZenonT(60) DEF Abort, Inside, Before
  <2> QED BY <1>4, <2>1, <2>2, <2>3, <2>4 DEF Body
<1>5. CASE db_commit(w)
  BY <1>1, <1>5 DEF db_commit, Goto, Contexts, Inside, Before
<1>6. CASE client_send(w)
  <2>1. txs' = txs /\ pc[w] = "send" /\ ctx'[w].tx = ctx[w].tx
    BY <1>1, <1>6, ZenonT(40) DEF client_send, Contexts
  <2>2. pc'[w] \in {"send", "unpull", "depart"}
    BY <1>1, <1>6, ZenonT(40) DEF client_send, Leave, Goto
  <2> QED BY <1>6, <2>1, <2>2 DEF Inside, Before
<1>7. CASE LockMessages(w) \/ db_commit_unsent(w) \/ db_commit_fails(w) \/ NothingToSend(w) \/ unpull_client(w) \/ release_client(w)
  <2>1. /\ txs' = txs /\ ctx' = ctx /\ owed' = owed
        /\ pc[w] \in {"body", "commit", "send", "unpull", "unuse"}
    BY <1>7, ZenonT(60) DEF LockMessages, db_commit_unsent, db_commit_fails, NothingToSend, unpull_client, release_client
  <2>2. pc'[w] \notin Before \/ pc[w] = "body"
    BY <1>1, <1>7, ZenonT(60) DEF LockMessages, db_commit_unsent, db_commit_fails, NothingToSend, unpull_client, release_client,
       Leave, Goto, Before
  <2> QED BY <2>1, <2>2 DEF Inside, Before
<1>8. CASE uw_transaction_departs(w) \/ Poll(w)
  <2>1. txs' = txs /\ owed' = owed
    BY <1>8, ZenonT(60) DEF uw_transaction_departs, Poll, PollFinds, uw_client_connect
  <2>2. pc'[w] \in {"idle", "connect"}
    BY <1>1, <1>8, ZenonT(60) DEF uw_transaction_departs, Poll, PollFinds, uw_client_connect, Goto
  <2> QED BY <2>1, <2>2 DEF Inside, Before
<1> QED BY <1>2, <1>3, <1>4, <1>5, <1>6, <1>7, <1>8 DEF Step, Finish

\* The elements of a concatenation and of a front.
LEMMA ConcatElements ==
  ASSUME NEW S, NEW s \in Seq(S), NEW t \in Seq(S) PROVE Elements(s \o t) = Elements(s) \cup Elements(t)
<1>1. /\ Len(s) \in Nat /\ Len(t) \in Nat /\ Len(s \o t) = Len(s) + Len(t)
      /\ \A i \in 1 .. Len(s) + Len(t) : (s \o t)[i] = IF i <= Len(s) THEN s[i] ELSE t[i - Len(s)]
  BY LenProperties, ConcatProperties
<1> DEFINE u == s \o t
<1>2. /\ Len(u) = Len(s) + Len(t)
      /\ \A i \in 1 .. Len(s) + Len(t) : u[i] = IF i <= Len(s) THEN s[i] ELSE t[i - Len(s)]
  BY <1>1
<1> HIDE DEF u
<1>3. ASSUME NEW k \in 1 .. Len(u) PROVE u[k] \in Elements(s) \cup Elements(t)
  <2>1. CASE k <= Len(s)
    <3>1. k \in 1 .. Len(s) /\ u[k] = s[k]
      BY <1>1, <1>2, <1>3, <2>1
    <3> QED BY <3>1 DEF Elements
  <2>2. CASE ~(k <= Len(s))
    <3>1. k - Len(s) \in 1 .. Len(t) /\ u[k] = t[k - Len(s)]
      BY <1>1, <1>2, <1>3, <2>2
    <3> QED BY <3>1 DEF Elements
  <2> QED BY <2>1, <2>2
<1>4. ASSUME NEW k \in 1 .. Len(s) PROVE s[k] \in Elements(u)
  <2>1. k \in 1 .. Len(u) /\ u[k] = s[k]
    BY <1>1, <1>2, <1>4
  <2> QED BY <2>1 DEF Elements
<1>5. ASSUME NEW k \in 1 .. Len(t) PROVE t[k] \in Elements(u)
  <2>1. k + Len(s) \in 1 .. Len(u) /\ ~(k + Len(s) <= Len(s)) /\ k + Len(s) - Len(s) = k
    BY <1>1, <1>2, <1>5
  <2>2. u[k + Len(s)] = t[k]
    BY <1>1, <1>2, <2>1
  <2> QED BY <2>1, <2>2 DEF Elements
<1>6. Elements(u) = Elements(s) \cup Elements(t)
  BY <1>3, <1>4, <1>5 DEF Elements
<1> QED BY <1>6 DEF u

LEMMA FrontElements ==
  ASSUME NEW S, NEW s \in Seq(S), NEW n \in Int, n <= Len(s)
  PROVE  SubSeq(s, 1, n) \in Seq(S) /\ Elements(SubSeq(s, 1, n)) \subseteq Elements(s)
<1>1. Len(s) \in Nat /\ \A k \in 1 .. n : k \in 1 .. Len(s) /\ s[k] \in S
  BY LenProperties, ElementOfSeq
<1>2. /\ SubSeq(s, 1, n) \in Seq(S)
      /\ Len(SubSeq(s, 1, n)) = IF 1 <= n THEN n - 1 + 1 ELSE 0
      /\ \A k \in 1 .. n - 1 + 1 : SubSeq(s, 1, n)[k] = s[1 + k - 1]
  BY <1>1, SubSeqProperties
<1>3. ASSUME NEW k \in 1 .. Len(SubSeq(s, 1, n)) PROVE SubSeq(s, 1, n)[k] \in Elements(s)
  <2>1. k \in 1 .. n
    BY <1>2, <1>3
  <2>2. k \in 1 .. n - 1 + 1 /\ 1 + k - 1 = k
    BY <2>1
  <2>3. SubSeq(s, 1, n)[k] = s[k] /\ k \in 1 .. Len(s)
    BY <1>1, <1>2, <2>1, <2>2
  <2> QED BY <2>3 DEF Elements
<1> QED BY <1>2, <1>3 DEF Elements

\* db_commit owes to every view, besides what it was owed, what is tagged with the
\* transaction that commits; client_send at most takes back.
LEMMA CommitOwes ==
  ASSUME IInv, SendInv, NEW w \in Workers, db_commit(w),
         NEW p \in Passes, NEW m \in Elements(owed'[p])
  PROVE  m \in Elements(owed[p]) \/ (m.view = p /\ m.tx = ctx[w].tx)
<1>1. Committed(w) /\ Complete(w)
  BY DbCommit DEF Committed, SendInv, SendsOf
<1>2. ctx[w].sends[p] \in Seq(Message) /\ owed[p] \in Seq(Message)
  BY DEF IInv, TypeOK, Contexts
<1>3. Elements(owed'[p]) \subseteq Elements(owed[p]) \cup Elements(ctx[w].sends[p])
  <2>1. Elements(owed[p] \o ctx[w].sends[p]) = Elements(owed[p]) \cup Elements(ctx[w].sends[p])
    BY <1>2, ConcatElements
  <2>2. owed'[p] = owed[p] \o ctx[w].sends[p] \/ owed'[p] = owed[p]
    BY <1>1 DEF Committed
  <2> QED BY <2>1, <2>2
<1>4. m \in Elements(ctx[w].sends[p]) => ctx[w].sends[p] # <<>>
  BY DEF Elements
<1> QED BY <1>1, <1>3, <1>4 DEF Complete

LEMMA SendOwes ==
  ASSUME IInv, ViewInv, SendInv, NEW w \in Workers, client_send(w), NEW q \in Passes
  PROVE  Elements(owed'[q]) \subseteq Elements(owed[q])
<1>1. PICK i \in Ids, p \in Passes, msgs \in Seq(Message) : Sent(w, i, p, msgs)
  BY ClientSend
<1>2. owed \in [Passes -> Seq(Message)]
  BY DEF IInv, TypeOK
<1>3. CASE owed' = owed
  BY <1>3
<1>4. CASE owed' = [owed EXCEPT ![p] = SubSeq(owed[p], 1, Len(owed[p]) - Len(msgs))]
  <2>1. /\ Len(owed[p]) \in Nat /\ Len(msgs) \in Nat /\ owed[p] \in Seq(Message)
    BY <1>2, LenProperties
  <2>2. Len(owed[p]) - Len(msgs) \in Int /\ Len(owed[p]) - Len(msgs) <= Len(owed[p])
    BY <2>1
  <2>3. Elements(SubSeq(owed[p], 1, Len(owed[p]) - Len(msgs))) \subseteq Elements(owed[p])
    BY <2>1, <2>2, FrontElements
  <2> QED BY <1>2, <1>4, <2>3
<1> QED BY <1>1, <1>3, <1>4 DEF Sent, Handed

LEMMA TagStep ==
  ASSUME IInv, ViewInv, SendInv, TagInv, [Next]_vars PROVE TagInv'
<1>1. /\ txs \in Nat /\ owed \in [Passes -> Seq(Message)]
      /\ \A p \in Passes : \A m \in Elements(owed[p]) : m.tx \in Nat
      /\ \A w \in Workers : ctx[w].tx \in Nat
  <2>1. \A p \in Passes : \A k \in 1 .. Len(owed[p]) : owed[p][k] \in Message
    BY ElementOfSeq DEF IInv, TypeOK
  <2>2. \A p \in Passes : \A m \in Elements(owed[p]) : m.tx \in Nat
    BY <2>1 DEF Elements, Message
  <2>3. \A w \in Workers : ctx[w].tx \in Nat
    BY DEF IInv, TypeOK, Contexts
  <2>4. txs \in Nat /\ owed \in [Passes -> Seq(Message)]
    BY DEF IInv, TypeOK
  <2> QED BY <2>2, <2>3, <2>4
<1>2. ASSUME NEW w \in Workers, Step(w), \A p \in Passes : Elements(owed'[p]) \subseteq Elements(owed[p])
      PROVE  TagInv'
  <2>1. /\ txs' = txs
        /\ \A v \in Workers : /\ pc'[v] \in Inside => pc[v] \in Inside /\ ctx'[v].tx = ctx[v].tx
                              /\ pc'[v] \in Before => pc[v] \in Before
    BY <1>2, StepTags, StepAlone DEF Alone
  <2>2. Before \subseteq Inside
    BY DEF Before, Inside
  <2> QED BY <1>2, <2>1, <2>2 DEF TagInv
<1>3. ASSUME NEW w \in Workers, client_send(w) PROVE TagInv'
  BY <1>2, <1>3, SendOwes DEF Step, Finish
<1>4. ASSUME NEW w \in Workers, db_commit(w) PROVE TagInv'
  <2>1. Committed(w) /\ Complete(w) /\ pc[w] \in Inside /\ pc[w] = "commit"
    BY <1>4, DbCommit DEF Committed, SendInv, SendsOf, Inside
  <2>2. ASSUME NEW p \in Passes, NEW m \in Elements(owed'[p])
        PROVE  m \in Elements(owed[p]) \/ (m.view = p /\ m.tx = ctx[w].tx)
    BY <1>4, <2>2, CommitOwes
  <2>3. /\ txs' = txs
        /\ \A v \in Workers : /\ pc'[v] \in Inside => pc[v] \in Inside /\ ctx'[v].tx = ctx[v].tx
                              /\ pc'[v] \in Before => v # w /\ pc[v] \in Before
    BY <1>4, <2>1, StepTags, StepAlone DEF Alone, Committed, Before, Step, Finish
  <2>4. Before \subseteq Inside
    BY DEF Before, Inside
  <2>5. \A p \in Passes : \A m \in Elements(owed'[p]) : m.view = p /\ m.tx <= txs'
    BY <2>1, <2>2, <2>3 DEF TagInv
  <2>6. ASSUME NEW v \in Workers, pc'[v] \in Before, NEW p \in Passes, NEW m \in Elements(owed'[p])
        PROVE  m.tx # ctx'[v].tx
    <3>1. v # w /\ pc[v] \in Before /\ pc[v] \in Inside /\ ctx'[v].tx = ctx[v].tx
      BY <2>3, <2>4, <2>6
    <3>2. ctx[v].tx # ctx[w].tx
      BY <2>1, <3>1 DEF TagInv
    <3> QED BY <2>2, <2>6, <3>1, <3>2 DEF TagInv
  <2> QED BY <2>3, <2>5, <2>6 DEF TagInv
<1>5. ASSUME NEW w \in Workers, Step(w), ~db_commit(w), ~client_send(w) PROVE TagInv'
  BY <1>2, <1>5, StepTags
<1>6. ASSUME NEW w \in Workers, Arrival(w) PROVE TagInv'
  <2>1. \/ pc'[w] = "find" /\ txs' = txs
        \/ pc'[w] = "login" /\ ctx'[w].tx = txs + 1 /\ txs' = txs + 1
    BY <1>6, ArrivalResets
  <2>2. \A v \in Workers : v # w => pc'[v] = pc[v] /\ ctx'[v] = ctx[v]
    BY <1>6, StepAlone DEF Alone
  <2>3. owed' = owed
    BY <1>6, ZenonT(40) DEF Arrival, PlainArrives, PageArrives, RpcArrives, PollArrives, uw_transaction_arrives
  <2>4. txs' >= txs /\ txs' \in Nat
    BY <1>1, <2>1
  <2>5. \A p \in Passes : \A m \in Elements(owed[p]) : m.view = p /\ m.tx <= txs' /\ m.tx <= txs
    BY <1>1, <2>4 DEF TagInv
  <2>6. \A v \in Workers : v # w /\ pc[v] \in Inside => ctx[v].tx <= txs' /\ ctx[v].tx <= txs
    BY <1>1, <2>4 DEF TagInv
  <2>7. CASE pc'[w] = "find"
    <3>1. pc'[w] \notin Inside /\ pc'[w] \notin Before
      BY <2>7 DEF Inside, Before
    <3> QED BY <2>2, <2>3, <2>5, <2>6, <3>1 DEF TagInv
  <2>8. CASE pc'[w] = "login" /\ ctx'[w].tx = txs + 1 /\ txs' = txs + 1
    <3>1. \A v \in Workers : v # w /\ pc[v] \in Inside => ctx[v].tx # ctx'[w].tx
      BY <1>1, <2>6, <2>8
    <3>2. \A p \in Passes : \A m \in Elements(owed[p]) : m.tx # ctx'[w].tx
      BY <1>1, <2>5, <2>8
    <3>3. ctx'[w].tx <= txs'
      BY <1>1, <2>8
    <3> QED BY <2>2, <2>3, <2>5, <2>6, <3>1, <3>2, <3>3 DEF TagInv
  <2> QED BY <2>1, <2>7, <2>8
<1>7. ASSUME UNCHANGED <<pc, ctx, txs, owed>> PROVE TagInv'
  BY <1>7 DEF TagInv
<1>8. CASE uw_expunge_ok \/ uw_expunge_commit_error
  <2>1. UNCHANGED <<pc, ctx, txs, owed>>
    BY <1>8 DEF uw_expunge_ok, uw_expunge_commit_error, free_client
  <2> QED BY <1>7, <2>1
<1>9. CASE \/ uw_prune_clients /\ ~uw_expunge_ok /\ ~uw_expunge_commit_error
           \/ (\E i \in Ids : TimeoutPasses(i)) \/ (\E p \in Passes : ViewLeaves(p)) \/ UNCHANGED vars
  BY <1>7, <1>9, OthersStill DEF IInv, Still
<1> QED BY <1>3, <1>4, <1>5, <1>6, <1>8, <1>9 DEF Next

\* Only db_commit_unsent adds to unsent.
LEMMA UnsentKeeps ==
  ASSUME NEW w \in Workers, Step(w) \/ Arrival(w), ~db_commit_unsent(w) PROVE unsent' = unsent
<1>1. CASE Login(w)
  BY <1>1 DEF Login, no_client, find_client, new_client, NoClientLeft, use_client, pull_client,
     check_client
<1>2. CASE Body(w) \/ Poll(w)
  BY <1>2, ZenonT(60) DEF Body, new_channel_read, new_channel, uw_Basis_send, Abort, Poll, PollFinds,
     uw_client_connect
<1>3. CASE Finish(w)
  BY <1>3, ZenonT(60) DEF Finish, LockMessages, db_commit, db_commit_fails, client_send, NothingToSend,
     unpull_client, release_client, uw_transaction_departs
<1>4. CASE Arrival(w)
  BY <1>4, ZenonT(40) DEF Arrival, PlainArrives, PageArrives, RpcArrives, PollArrives, uw_transaction_arrives
<1> QED BY <1>1, <1>2, <1>3, <1>4 DEF Step

LEMMA OthersKeepUnsent ==
  ASSUME TypeOK, [Next]_vars, \A w \in Workers : ~db_commit_unsent(w) PROVE unsent' = unsent
<1>1. CASE uw_expunge_ok \/ uw_expunge_commit_error
  BY <1>1 DEF uw_expunge_ok, uw_expunge_commit_error, free_client
<1> QED BY <1>1, UnsentKeeps, OthersStill DEF Next

LEMMA UnsentStep ==
  ASSUME IInv, ViewInv, SendInv, TagInv, UnsentInv, [Next]_vars PROVE UnsentInv'
<1>1. /\ txs \in Nat /\ \A t \in unsent : t \in Nat
      /\ \A w \in Workers : ctx[w].tx \in Nat
  BY DEF IInv, TypeOK, Contexts
<1>2. Before \subseteq Inside
  BY DEF Before, Inside
<1>3. ASSUME NEW w \in Workers, Step(w)
      PROVE  /\ txs' = txs
             /\ \A v \in Workers : pc'[v] \in Before => pc[v] \in Before /\ ctx'[v].tx = ctx[v].tx
  BY <1>2, <1>3, StepTags, StepAlone DEF Alone
<1>4. ASSUME NEW w \in Workers, Step(w), ~db_commit_unsent(w), ~db_commit(w) PROVE UnsentInv'
  <2>1. unsent' = unsent
    BY <1>4, UnsentKeeps
  <2>2. \A p \in Passes : Elements(owed'[p]) \subseteq Elements(owed[p])
    <3>1. CASE client_send(w)
      BY <3>1, SendOwes
    <3>2. CASE ~client_send(w)
      BY <1>4, <3>2, StepTags
    <3> QED BY <3>1, <3>2
  <2> QED BY <1>3, <1>4, <2>1, <2>2 DEF UnsentInv
<1>5. ASSUME NEW w \in Workers, db_commit(w) PROVE UnsentInv'
  <2>1. unsent' = unsent /\ Step(w) /\ pc[w] \in Before
    BY <1>5 DEF db_commit, Step, Finish, Before
  <2>2. ctx[w].tx \notin unsent
    BY <2>1 DEF UnsentInv
  <2>3. ASSUME NEW p \in Passes, NEW m \in Elements(owed'[p]) PROVE m.tx \notin unsent
    <3>1. m \in Elements(owed[p]) \/ m.tx = ctx[w].tx
      BY <1>5, <2>3, CommitOwes
    <3> QED BY <2>2, <3>1 DEF UnsentInv
  <2> QED BY <1>3, <2>1, <2>3 DEF UnsentInv
<1>6. ASSUME NEW w \in Workers, db_commit_unsent(w) PROVE UnsentInv'
  <2>1. /\ unsent' = unsent \cup {ctx[w].tx} /\ owed' = owed
        /\ Step(w) /\ pc[w] \in Before /\ pc[w] \in Inside
    BY <1>6, <1>2 DEF db_commit_unsent, Step, Finish, Before
  <2>2. pc'[w] \notin Before
    BY <1>6 DEF db_commit_unsent, Leave, Goto, IInv, TypeOK, Before
  <2>3. ctx[w].tx <= txs
    BY <2>1 DEF TagInv
  <2>4. ASSUME NEW v \in Workers, pc'[v] \in Before PROVE ctx'[v].tx \notin unsent'
    <3>1. v # w /\ pc[v] \in Before /\ pc[v] \in Inside /\ ctx'[v].tx = ctx[v].tx
      BY <1>2, <1>3, <2>1, <2>2, <2>4
    <3>2. ctx[v].tx # ctx[w].tx
      BY <2>1, <3>1 DEF TagInv
    <3> QED BY <2>1, <3>1, <3>2 DEF UnsentInv
  <2>5. \A p \in Passes : \A m \in Elements(owed[p]) : m.tx # ctx[w].tx
    BY <2>1 DEF TagInv
  <2> QED BY <1>3, <2>1, <2>3, <2>4, <2>5 DEF UnsentInv
<1>7. ASSUME NEW w \in Workers, Arrival(w) PROVE UnsentInv'
  <2>1. \/ pc'[w] = "find" /\ txs' = txs
        \/ pc'[w] = "login" /\ ctx'[w].tx = txs + 1 /\ txs' = txs + 1
    BY <1>7, ArrivalResets
  <2>2. \A v \in Workers : v # w => pc'[v] = pc[v] /\ ctx'[v] = ctx[v]
    BY <1>7, StepAlone DEF Alone
  <2>3. unsent' = unsent /\ owed' = owed
    BY <1>7, ZenonT(40) DEF Arrival, PlainArrives, PageArrives, RpcArrives, PollArrives, uw_transaction_arrives
  <2>4. \A t \in unsent : t <= txs' /\ t # txs + 1
    BY <1>1, <2>1 DEF UnsentInv
  <2>5. pc'[w] \in Before => ctx'[w].tx \notin unsent
    BY <2>1, <2>4 DEF Before
  <2> QED BY <2>2, <2>3, <2>4, <2>5 DEF UnsentInv
<1>8. CASE uw_expunge_ok \/ uw_expunge_commit_error
  <2>1. UNCHANGED <<pc, ctx, txs, owed, unsent>>
    BY <1>8 DEF uw_expunge_ok, uw_expunge_commit_error, free_client
  <2> QED BY <2>1 DEF UnsentInv
<1>9. CASE \/ uw_prune_clients /\ ~uw_expunge_ok /\ ~uw_expunge_commit_error
           \/ (\E i \in Ids : TimeoutPasses(i)) \/ (\E p \in Passes : ViewLeaves(p)) \/ UNCHANGED vars
  BY <1>9, OthersStill DEF IInv, Still, UnsentInv
<1> QED BY <1>4, <1>5, <1>6, <1>7, <1>8, <1>9 DEF Next

\* What is on its way to the views, when no transaction commits or sends.
HandsKept == \A v \in Workers : Hand(v)' = Hand(v) /\ (Hand(v) # {} => ctx'[v].tx = ctx[v].tx)
Quiet == /\ HandsKept
         /\ \/ Still \/ \E w \in Workers, i \in Ids, p \in Passes : Opened(w, i, p)
            \/ \E i \in Ids, p \in Passes : Collected(i, p) \/ Freed(i, p)

LEMMA FromSend ==
  ASSUME NEW w \in Workers, Step(w) \/ Arrival(w), pc[w] = "send", ~client_send(w)
  PROVE  ctx[w].deltas = <<>>
<1>1. CASE Login(w)
  BY <1>1 DEF Login, no_client, find_client, new_client, NoClientLeft, use_client, pull_client, check_client
<1>2. CASE Body(w) \/ Poll(w)
  BY <1>2 DEF Body, new_channel_read, new_channel, uw_Basis_send, Abort, Poll, PollFinds, uw_client_connect
<1>3. CASE Finish(w)
  BY <1>3 DEF Finish, LockMessages, db_commit, db_commit_unsent, db_commit_fails, NothingToSend, unpull_client,
     release_client, uw_transaction_departs
<1>4. CASE Arrival(w)
  BY <1>4 DEF Arrival, PlainArrives, PageArrives, RpcArrives, PollArrives, uw_transaction_arrives
<1> QED BY <1>1, <1>2, <1>3, <1>4 DEF Step

LEMMA NoHands == ASSUME NEW w \in Workers, pc[w] # "send" \/ ctx[w].deltas = <<>> PROVE Hand(w) = {}
BY DEF Hand, Elements

LEMMA StepHands ==
  ASSUME IInv, NEW w \in Workers, Step(w) \/ Arrival(w), ~db_commit(w), ~client_send(w)
  PROVE  HandsKept
<1>1. \A v \in Workers : v # w => pc'[v] = pc[v] /\ ctx'[v] = ctx[v]
  BY StepAlone DEF Alone
<1>2. \A v \in Workers : v # w => Hand(v)' = Hand(v) /\ ctx'[v].tx = ctx[v].tx
  BY <1>1 DEF Hand
<1>3. Hand(w) = {}
  BY FromSend, NoHands
<1>4. Hand(w)' = {}
  BY ToCommit DEF Hand, IInv
<1> QED BY <1>2, <1>3, <1>4 DEF HandsKept

LEMMA StepQuiet ==
  ASSUME IInv, ViewInv, [Next]_vars
  PROVE  Quiet \/ \E w \in Workers : db_commit(w) \/ client_send(w)
<1>1. ASSUME NEW w \in Workers, Step(w) \/ Arrival(w), ~db_commit(w), ~client_send(w) PROVE Quiet
  <2>1. HandsKept
    BY <1>1, StepHands
  <2>2. CASE new_client(w)
    BY <2>1, <2>2, OpenedByNew DEF Quiet
  <2>3. CASE uw_client_connect(w)
    BY <2>1, <2>3, ClientConnect DEF Quiet
  <2>4. CASE ~new_client(w) /\ ~uw_client_connect(w)
    BY <1>1, <2>1, <2>4, StepStill DEF Quiet, IInv
  <2> QED BY <2>2, <2>3, <2>4
<1>2. ASSUME UNCHANGED <<pc, ctx>> PROVE HandsKept
  BY <1>2 DEF HandsKept, Hand
<1>3. CASE uw_expunge_ok \/ uw_expunge_commit_error
  <2>1. UNCHANGED <<pc, ctx>>
    BY <1>3 DEF uw_expunge_ok, uw_expunge_commit_error, free_client
  <2> QED BY <1>2, <1>3, <2>1, FreedByPruner DEF Quiet
<1>4. CASE \/ uw_prune_clients /\ ~uw_expunge_ok /\ ~uw_expunge_commit_error
           \/ (\E i \in Ids : TimeoutPasses(i)) \/ (\E p \in Passes : ViewLeaves(p)) \/ UNCHANGED vars
  BY <1>2, <1>4, OthersStill DEF Quiet, IInv
<1> QED BY <1>1, <1>3, <1>4 DEF Next

\* Nothing about p changes but, perhaps, how much of it waits.
LEMMA StreamSame ==
  ASSUME HandsKept, NEW p \in Passes, Given(p)' = Given(p), owed'[p] = owed[p], home'[p] = home[p],
         StreamOf(p)
  PROVE  StreamOf(p)'
<1>1. ASSUME NEW w \in Workers, NEW d \in Hand(w), d.client = home[p]
      PROVE  /\ Given(p)' \o d.msgs = owed'[p]
             /\ \A j \in 1 .. Len(owed'[p]) : j > Len(Given(p)') <=> owed'[p][j].tx = ctx'[w].tx
  <2>1. ctx'[w].tx = ctx[w].tx /\ Due(p, ctx[w].tx, d.msgs)
    BY <1>1 DEF HandsKept, StreamOf
  <2>2. Given(p) \o d.msgs = owed[p]
        /\ \A j \in 1 .. Len(owed[p]) : j > Len(Given(p)) <=> owed[p][j].tx = ctx[w].tx
    BY <2>1 DEF Due
  <2> QED BY <2>1, <2>2
<1>2. \A w \in Workers : Hand(w)' = Hand(w)
  BY DEF HandsKept
<1>3. ASSUME \A w \in Workers : \A d \in Hand(w)' : d.client # home'[p] PROVE Given(p)' = owed'[p]
  BY <1>2, <1>3 DEF StreamOf
<1>4. ASSUME NEW w \in Workers, NEW d \in Hand(w)', d.client = home'[p] PROVE Due(p, ctx[w].tx, d.msgs)'
  BY <1>1, <1>2, <1>4 DEF Due
<1> QED BY <1>3, <1>4 DEF StreamOf

\* Live views have different slots, and the sequences have their types.
LEMMA Streams ==
  ASSUME IInv, ViewInv
  PROVE  /\ \A p \in Passes : Live(p) => /\ home[p] \in Ids /\ client[home[p]].mode = "USED"
                                         /\ client[home[p]].pass = p
         /\ \A p \in Passes : inbox[p] \in Seq(Message) /\ owed[p] \in Seq(Message)
         /\ \A i \in Ids : client[i].msgs \in Seq(Message)
         /\ \A p \in Passes : Live(p) => Given(p) \in Seq(Message)
<1>1. \A p \in Passes : Live(p) => /\ home[p] \in Ids /\ client[home[p]].mode = "USED"
                                   /\ client[home[p]].pass = p
  BY DEF IInv, TableInv, ViewInv, Live
<1>2. \A p \in Passes : inbox[p] \in Seq(Message) /\ owed[p] \in Seq(Message)
  BY DEF IInv, TypeOK
<1>3. \A i \in Ids : client[i].msgs \in Seq(Message)
  BY DEF IInv, TypeOK, Slots
<1>4. ASSUME NEW p \in Passes, Live(p) PROVE Given(p) \in Seq(Message)
  <2>1. inbox[p] \in Seq(Message) /\ client[home[p]].msgs \in Seq(Message)
    BY <1>1, <1>2, <1>3, <1>4
  <2> QED BY <2>1, ConcatProperties DEF Given
<1> QED BY <1>1, <1>2, <1>3, <1>4

LEMMA QuietStream ==
  ASSUME IInv, ViewInv, SendInv, StreamInv, Quiet PROVE StreamInv'
<1>1. /\ \A p \in Passes : Live(p) => /\ home[p] \in Ids /\ client[home[p]].mode = "USED"
                                      /\ client[home[p]].pass = p /\ StreamOf(p)
      /\ HandsKept
  BY Streams DEF Quiet, StreamInv
<1>2. CASE Still
  <2>1. ASSUME NEW p \in Passes, Live(p)' PROVE StreamOf(p)'
    <3>1. Live(p)
      BY <1>2, <2>1 DEF Still, Live
    <3>2. client'[home[p]].msgs = client[home[p]].msgs /\ home' = home /\ inbox' = inbox /\ owed' = owed
      BY <1>1, <1>2, <3>1 DEF Still
    <3>3. Given(p)' = Given(p) /\ owed'[p] = owed[p] /\ home'[p] = home[p]
      BY <3>2 DEF Given
    <3> QED BY <1>1, <3>1, <3>3, StreamSame
  <2> QED BY <2>1 DEF StreamInv
<1>3. ASSUME NEW w \in Workers, NEW i \in Ids, NEW p \in Passes, Opened(w, i, p) PROVE StreamInv'
  <2>1. ASSUME NEW q \in Passes, Live(q)', q # p PROVE StreamOf(q)'
    <3>1. Live(q) /\ home'[q] = home[q] /\ inbox' = inbox /\ owed' = owed
      BY <1>3, <2>1 DEF Opened, Live
    <3>2. home[q] # i /\ client'[home[q]] = client[home[q]]
      BY <1>1, <1>3, <3>1 DEF Opened
    <3>3. Given(q)' = Given(q) /\ owed'[q] = owed[q]
      BY <3>1, <3>2 DEF Given
    <3> QED BY <1>1, <3>1, <3>3, StreamSame
  <2>2. inbox'[p] = <<>> /\ owed'[p] = <<>> /\ client'[i].msgs = <<>> /\ home'[p] = i
    BY <1>3 DEF Opened, ViewInv
  <2>3. Given(p)' = owed'[p]
    <3>1. <<>> \o <<>> = <<>>
      BY ConcatEmptySeq
    <3> QED BY <2>2, <3>1 DEF Given
  <2>4. ASSUME NEW v \in Workers, NEW d \in Hand(v)' PROVE d.client # home'[p]
    <3>1. d \in Hand(v)
      BY <1>1, <2>4 DEF HandsKept
    <3>2. client[d.client].mode = "USED"
      BY <3>1 DEF Hand, SendInv, SendsOf, Addressed
    <3> QED BY <1>3, <2>2, <3>2 DEF Opened
  <2>5. StreamOf(p)'
    BY <2>3, <2>4 DEF StreamOf
  <2> QED BY <2>1, <2>5 DEF StreamInv
<1>4. ASSUME NEW i \in Ids, NEW p \in Passes, Collected(i, p) PROVE StreamInv'
  <2>1. ASSUME NEW q \in Passes, Live(q)' PROVE StreamOf(q)'
    <3>1. Live(q) /\ home'[q] = home[q] /\ owed' = owed
      BY <1>4, <2>1 DEF Collected, Live
    <3>2. CASE q # p
      <4>1. home[q] # i /\ client'[home[q]] = client[home[q]] /\ inbox'[q] = inbox[q]
        BY <1>1, <1>4, <3>1, <3>2, Streams DEF Collected, IInv, TypeOK
      <4>2. Given(q)' = Given(q) /\ owed'[q] = owed[q]
        BY <3>1, <4>1 DEF Given
      <4> QED BY <1>1, <3>1, <4>2, StreamSame
    <3>3. CASE q = p
      <4>1. home[p] = i /\ client'[i].msgs = <<>> /\ inbox'[p] = inbox[p] \o client[i].msgs
        BY <1>4, Streams DEF Collected, IInv, TypeOK
      <4>2. Given(p) = inbox[p] \o client[i].msgs /\ Given(p) \in Seq(Message)
        BY <3>1, <3>3, <4>1, Streams DEF Given
      <4>3. Given(p)' = (inbox[p] \o client[i].msgs) \o <<>>
        BY <3>1, <3>3, <4>1 DEF Given
      <4>4. Given(p)' = Given(p) /\ owed'[p] = owed[p]
        BY <3>1, <4>2, <4>3, ConcatEmptySeq
      <4> QED BY <1>1, <3>1, <3>3, <4>4, StreamSame
    <3> QED BY <3>2, <3>3
  <2> QED BY <2>1 DEF StreamInv
<1>5. ASSUME NEW i \in Ids, NEW p \in Passes, Freed(i, p) PROVE StreamInv'
  <2>1. ASSUME NEW q \in Passes, Live(q)' PROVE StreamOf(q)'
    <3>1. Live(q) /\ q # p /\ home' = home /\ owed' = owed /\ inbox' = inbox
      BY <1>5, <2>1 DEF Freed, Live
    <3>2. home[q] # i /\ client'[home[q]] = client[home[q]]
      BY <1>1, <1>5, <3>1 DEF Freed
    <3>3. Given(q)' = Given(q) /\ owed'[q] = owed[q] /\ home'[q] = home[q]
      BY <3>1, <3>2 DEF Given
    <3> QED BY <1>1, <3>1, <3>3, StreamSame
  <2> QED BY <2>1 DEF StreamInv
<1> QED BY <1>2, <1>3, <1>4, <1>5 DEF Quiet

\* Only one transaction has anything on its way, and to each view one delta.
LEMMA OneHand ==
  ASSUME MutexInv, NEW w \in Workers, pc[w] \in {"commit", "send"}, ctx[w].deltas # <<>>
  PROVE  \A v \in Workers : v # w => Hand(v) = {}
<1>1. message_send_mutex = w
  BY DEF MutexInv, MutexOf
<1>2. ASSUME NEW v \in Workers, v # w PROVE pc[v] # "send" \/ ctx[v].deltas = <<>>
  BY <1>1, <1>2 DEF MutexInv, MutexOf
<1> QED BY <1>2, NoHands

\* What a transaction appends to what it finds is all tagged with it, and only that.
Tagged(s, t, tx) == \A j \in 1 .. Len(s \o t) : j > Len(s) <=> (s \o t)[j].tx = tx

LEMMA TaggedConcat ==
  ASSUME NEW s \in Seq(Message), NEW t \in Seq(Message), NEW tx,
         \A m \in Elements(s) : m.tx # tx, \A m \in Elements(t) : m.tx = tx
  PROVE  Tagged(s, t, tx)
<1>1. /\ Len(s) \in Nat /\ Len(t) \in Nat /\ Len(s \o t) = Len(s) + Len(t)
      /\ \A i \in 1 .. Len(s) + Len(t) : (s \o t)[i] = IF i <= Len(s) THEN s[i] ELSE t[i - Len(s)]
  BY ConcatProperties, LenProperties
<1>2. ASSUME NEW j \in 1 .. Len(s \o t) PROVE j > Len(s) <=> (s \o t)[j].tx = tx
  <2>1. CASE j > Len(s)
    <3>1. j - Len(s) \in 1 .. Len(t) /\ (s \o t)[j] = t[j - Len(s)]
      BY <1>1, <1>2, <2>1
    <3>2. t[j - Len(s)].tx = tx
      BY <3>1 DEF Elements
    <3> QED BY <2>1, <3>1, <3>2
  <2>2. CASE ~(j > Len(s))
    <3>1. j \in 1 .. Len(s) /\ (s \o t)[j] = s[j]
      BY <1>1, <1>2, <2>2
    <3>2. s[j].tx # tx
      BY <3>1 DEF Elements
    <3> QED BY <2>2, <3>1, <3>2
  <2> QED BY <2>1, <2>2
<1> QED BY <1>2 DEF Tagged

LEMMA CommitStream ==
  ASSUME IInv, ViewInv, SendInv, MutexInv, TagInv, StreamInv, NEW w \in Workers, Committed(w)
  PROVE  StreamInv'
<1>1. /\ UNCHANGED <<client, home, view, expunged, inbox>>
      /\ pc[w] = "commit" /\ Complete(w) /\ pc[w] \in Inside /\ pc[w] \in Before
      /\ ctx'[w].tx = ctx[w].tx /\ ctx'[w].deltas = ctx[w].deltas /\ pc'[w] = "send"
      /\ \A p \in Passes : owed'[p] = owed[p] \o ctx[w].sends[p]
      /\ \A v \in Workers : v # w => pc'[v] = pc[v] /\ ctx'[v] = ctx[v]
  BY DEF Committed, SendInv, SendsOf, Inside, Before
<1>2. \A p \in Passes : ctx[w].sends[p] \in Seq(Message)
  BY DEF IInv, TypeOK, Contexts
<1>3. /\ \A p \in Passes : Live(p)' <=> Live(p)
      /\ \A p \in Passes : Given(p)' = Given(p)
      /\ \A v \in Workers : v # w => Hand(v)' = Hand(v) /\ ctx'[v].tx = ctx[v].tx
      /\ Hand(w) = {} /\ Hand(w)' = Elements(ctx[w].deltas)
  BY <1>1 DEF Live, Given, Hand
<1>4. CASE ctx[w].deltas = <<>>
  <2>1. Hand(w)' = {}
    BY <1>3, <1>4 DEF Elements
  <2>2. HandsKept
    BY <1>1, <1>3, <2>1 DEF HandsKept
  <2>3. ASSUME NEW p \in Passes PROVE owed'[p] = owed[p]
    <3>1. Elements(ctx[w].deltas) = {}
      BY <1>4 DEF Elements
    <3>2. ctx[w].sends[p] = <<>>
      BY <1>1, <3>1 DEF Complete
    <3>3. owed[p] \in Seq(Message)
      BY Streams
    <3> QED BY <1>1, <3>2, <3>3, ConcatEmptySeq
  <2>4. ASSUME NEW p \in Passes, Live(p)' PROVE StreamOf(p)'
    <3>1. Live(p) /\ StreamOf(p) /\ Given(p)' = Given(p) /\ owed'[p] = owed[p] /\ home'[p] = home[p]
      BY <1>1, <1>3, <2>3, <2>4 DEF StreamInv
    <3> QED BY <2>2, <3>1, StreamSame
  <2> QED BY <2>4 DEF StreamInv
<1>5. CASE ctx[w].deltas # <<>>
  <2>1. \A v \in Workers : v # w => Hand(v) = {} /\ Hand(v)' = {}
    BY <1>1, <1>3, <1>5, OneHand
  <2>2. ASSUME NEW p \in Passes, Live(p)' PROVE StreamOf(p)'
    <3>1. /\ Live(p) /\ home[p] \in Ids /\ client[home[p]].pass = p /\ owed[p] \in Seq(Message)
          /\ Given(p)' = Given(p) /\ home'[p] = home[p] /\ StreamOf(p)
          /\ \A m \in Elements(owed[p]) : m.tx # ctx[w].tx
      BY <1>1, <1>3, <2>2, Streams DEF StreamInv, TagInv
    <3>2. Given(p)' = owed[p]
      BY <1>3, <2>1, <3>1 DEF StreamOf
    <3>3. ctx[w].sends[p] # <<>> => \E d \in Elements(ctx[w].deltas) : d.client = home[p]
      BY <1>1 DEF Complete
    <3>4. ASSUME \A d \in Elements(ctx[w].deltas) : d.client # home[p] PROVE Given(p)' = owed'[p]
      BY <1>1, <3>1, <3>2, <3>3, <3>4, ConcatEmptySeq
    <3>5. ASSUME NEW d \in Elements(ctx[w].deltas), d.client = home[p] PROVE Due(p, ctx[w].tx, d.msgs)'
      <4>1. d.msgs = ctx[w].sends[p]
        BY <1>1, <3>1, <3>5 DEF Complete
      <4>2. \A m \in Elements(ctx[w].sends[p]) : m.tx = ctx[w].tx
        BY <1>1 DEF Complete, Elements
      <4>3. ctx[w].sends[p] \in Seq(Message)
        BY <1>2
      <4>4. Tagged(owed[p], ctx[w].sends[p], ctx[w].tx)
        BY <3>1, <4>2, <4>3, TaggedConcat
      <4> QED BY <1>1, <3>2, <4>1, <4>4 DEF Due, Tagged
    <3> QED BY <1>3, <2>1, <3>1, <3>4, <3>5 DEF StreamOf
  <2> QED BY <2>2 DEF StreamInv
<1> QED BY <1>4, <1>5

\* A sequence and what was appended to it.
LEMMA FrontOfConcat ==
  ASSUME NEW S, NEW s \in Seq(S), NEW t \in Seq(S)
  PROVE  SubSeq(s \o t, 1, Len(s \o t) - Len(t)) = s
<1> DEFINE u == s \o t
<1>1. /\ u \in Seq(S) /\ Len(u) = Len(s) + Len(t) /\ Len(s) \in Nat /\ Len(t) \in Nat
      /\ \A i \in 1 .. Len(s) + Len(t) : u[i] = IF i <= Len(s) THEN s[i] ELSE t[i - Len(s)]
  BY ConcatProperties, LenProperties
<1>2. \A i \in 1 .. Len(u) : u[i] \in S
  BY <1>1, ElementOfSeq
<1> HIDE DEF u
<1>3. Len(u) - Len(t) = Len(s) /\ \A i \in 1 .. Len(s) : i \in 1 .. Len(u) /\ u[i] = s[i] /\ u[i] \in S
  BY <1>1, <1>2
<1>4. /\ SubSeq(u, 1, Len(s)) \in Seq(S)
      /\ Len(SubSeq(u, 1, Len(s))) = IF 1 <= Len(s) THEN Len(s) - 1 + 1 ELSE 0
      /\ \A i \in 1 .. Len(s) - 1 + 1 : SubSeq(u, 1, Len(s))[i] = u[1 + i - 1]
  BY <1>1, <1>3, SubSeqProperties
<1>5. Len(SubSeq(u, 1, Len(s))) = Len(s)
  BY <1>1, <1>4
<1>6. \A i \in 1 .. Len(s) : i \in 1 .. Len(s) - 1 + 1 /\ 1 + i - 1 = i
  BY <1>1
<1>7. \A i \in 1 .. Len(s) : SubSeq(u, 1, Len(s))[i] = s[i]
  BY <1>3, <1>4, <1>6
<1>8. SubSeq(u, 1, Len(s)) = s
  BY <1>4, <1>5, <1>7, SeqEqual
<1> QED BY <1>3, <1>8 DEF u

LEMMA SendStream ==
  ASSUME IInv, ViewInv, SendInv, MutexInv, StreamInv, NEW w \in Workers, client_send(w)
  PROVE  StreamInv'
<1>1. PICK i \in Ids, p \in Passes, msgs \in Seq(Message) : Sent(w, i, p, msgs) /\ Relieved(w, i, msgs)
  BY ClientSend
<1>2. /\ client[i].mode = "USED" /\ client[i].pass = p /\ Live(p) /\ home[p] = i
      /\ \A j \in Ids : j # i => client'[j] = client[j]
      /\ UNCHANGED <<home, view, expunged>>
  BY <1>1 DEF Sent
<1>3. \A v \in Workers : v # w => pc'[v] = pc[v] /\ ctx'[v] = ctx[v]
  BY StepAlone DEF Alone, Step, Finish
<1>4. /\ \A v \in Workers : v # w => Hand(v) = {} /\ Hand(v)' = {}
      /\ Hand(w) = Elements(ctx[w].deltas) /\ ctx'[w].tx = ctx[w].tx
  <2>1. pc[w] = "send" /\ ctx[w].deltas # <<>> /\ ctx'[w].tx = ctx[w].tx
    BY <1>1 DEF Relieved
  <2>2. \A v \in Workers : v # w => Hand(v) = {}
    BY <2>1, OneHand
  <2>3. \A v \in Workers : v # w => Hand(v)' = Hand(v)
    BY <1>3 DEF Hand
  <2> QED BY <2>1, <2>2, <2>3 DEF Hand
<1>5. \A d : d \in Hand(w)' <=> d \in Hand(w) /\ d.client # i
  <2>1. /\ Elements(ctx'[w].deltas) \subseteq Elements(ctx[w].deltas)
        /\ \A d \in Elements(ctx[w].deltas) : d \in Elements(ctx'[w].deltas) <=> d.client # i
    BY <1>1 DEF Relieved
  <2>2. Hand(w)' = Elements(ctx'[w].deltas)
    <3>1. \/ pc'[w] = "send"
          \/ ctx'[w].deltas = <<>> /\ pc'[w] # "send"
      BY <1>1 DEF Relieved
    <3> QED BY <3>1 DEF Hand, Elements
  <2> QED BY <1>4, <2>1, <2>2
<1>6. \A q \in Passes : (Live(q)' <=> Live(q))
  BY <1>2 DEF Live
<1>7. /\ inbox[p] \in Seq(Message) /\ client[i].msgs \in Seq(Message) /\ owed[p] \in Seq(Message)
      /\ Given(p) = inbox[p] \o client[i].msgs /\ Given(p) \in Seq(Message)
      /\ Given(p)' = inbox'[p] \o client'[i].msgs
      /\ inbox \in [Passes -> Seq(Message)] /\ owed \in [Passes -> Seq(Message)]
  BY <1>2, Streams DEF Given, IInv, TypeOK
<1>8. Given(p) \o msgs = owed[p]
  <2>1. PICK d \in Hand(w) : d.client = i /\ d.msgs = msgs
    BY <1>1, <1>4 DEF Relieved
  <2> QED BY <1>2, <2>1 DEF StreamInv, StreamOf, Due
<1>9. Given(p)' = owed'[p]
  <2>1. CASE /\ client[i].msgs = <<>> /\ client'[i].msgs = <<>>
             /\ inbox' = [inbox EXCEPT ![p] = inbox[p] \o msgs] /\ owed' = owed
    <3>1. Given(p) = inbox[p] /\ inbox'[p] = inbox[p] \o msgs /\ inbox[p] \o msgs \in Seq(Message)
      BY <1>7, <2>1, ConcatEmptySeq, ConcatProperties
    <3>2. Given(p)' = inbox[p] \o msgs
      BY <1>7, <2>1, <3>1, ConcatEmptySeq
    <3> QED BY <1>8, <2>1, <3>1, <3>2
  <2>2. CASE inbox' = inbox /\ client'[i].msgs = client[i].msgs \o msgs /\ owed' = owed
    <3>1. Given(p)' = inbox[p] \o (client[i].msgs \o msgs)
      BY <1>7, <2>2
    <3>2. (inbox[p] \o client[i].msgs) \o msgs = inbox[p] \o (client[i].msgs \o msgs)
      <4>1. \A s, t, u \in Seq(Message) : (s \o t) \o u = s \o (t \o u)
        BY ConcatAssociative
      <4> QED BY <1>7, <4>1, Zenon
    <3> QED BY <1>7, <1>8, <2>2, <3>1, <3>2
  <2>3. CASE /\ inbox' = inbox /\ client'[i].msgs = client[i].msgs
             /\ owed' = [owed EXCEPT ![p] = SubSeq(owed[p], 1, Len(owed[p]) - Len(msgs))]
    <3>1. Given(p)' = Given(p) /\ owed'[p] = SubSeq(owed[p], 1, Len(owed[p]) - Len(msgs))
      BY <1>7, <2>3
    <3>2. SubSeq(Given(p) \o msgs, 1, Len(Given(p) \o msgs) - Len(msgs)) = Given(p)
      BY <1>7, FrontOfConcat
    <3> QED BY <1>8, <3>1, <3>2
  <2> QED BY <1>1, <2>1, <2>2, <2>3 DEF Sent, Handed
<1>10. StreamOf(p)'
  <2>1. \A v \in Workers : \A d \in Hand(v)' : d.client # home'[p]
    BY <1>2, <1>4, <1>5
  <2> QED BY <1>9, <2>1 DEF StreamOf
<1>11. ASSUME NEW q \in Passes, Live(q)', q # p PROVE StreamOf(q)'
  <2>1. /\ Live(q) /\ home[q] \in Ids /\ home[q] # i /\ StreamOf(q) /\ home'[q] = home[q]
        /\ client'[home[q]] = client[home[q]]
    BY <1>2, <1>6, <1>11, Streams DEF StreamInv
  <2>2. inbox'[q] = inbox[q] /\ owed'[q] = owed[q]
    BY <1>1, <1>7, <1>11 DEF Sent, Handed
  <2>3. Given(q)' = Given(q)
    BY <2>1, <2>2 DEF Given
  <2>4. ASSUME NEW v \in Workers, NEW d, d.client = home[q] PROVE d \in Hand(v)' <=> d \in Hand(v)
    BY <1>4, <1>5, <2>1, <2>4
  <2>5. ASSUME \A v \in Workers : \A d \in Hand(v)' : d.client # home'[q] PROVE Given(q)' = owed'[q]
    BY <2>1, <2>2, <2>3, <2>4, <2>5 DEF StreamOf
  <2>6. ASSUME NEW v \in Workers, NEW d \in Hand(v)', d.client = home'[q] PROVE Due(q, ctx[v].tx, d.msgs)'
    <3>1. v = w /\ d \in Hand(v)
      BY <1>4, <2>1, <2>4, <2>6
    <3>2. Due(q, ctx[v].tx, d.msgs)
      BY <2>1, <2>6, <3>1 DEF StreamOf
    <3> QED BY <1>4, <2>2, <2>3, <3>1, <3>2 DEF Due
  <2> QED BY <2>5, <2>6 DEF StreamOf
<1> QED BY <1>10, <1>11 DEF StreamInv

LEMMA StreamStep ==
  ASSUME IInv, ViewInv, SendInv, MutexInv, TagInv, StreamInv, [Next]_vars PROVE StreamInv'
<1>1. ASSUME NEW w \in Workers, db_commit(w) PROVE StreamInv'
  BY <1>1, DbCommit, CommitStream
<1>2. ASSUME NEW w \in Workers, client_send(w) PROVE StreamInv'
  BY <1>2, SendStream
<1> QED BY <1>1, <1>2, StepQuiet, QuietStream

\* What a live view has been given is the beginning of what it is owed.
LEMMA GivenOwed ==
  ASSUME IInv, ViewInv, StreamInv, NEW p \in Passes, Live(p)
  PROVE  \E t \in Seq(Message) : Given(p) \o t = owed[p]
<1>1. CASE \A w \in Workers : \A d \in Hand(w) : d.client # home[p]
  <2>1. Given(p) = owed[p] /\ Given(p) \in Seq(Message) /\ <<>> \in Seq(Message)
    BY <1>1, Streams DEF StreamInv, StreamOf
  <2>2. Given(p) \o <<>> = owed[p]
    BY <2>1, ConcatEmptySeq
  <2> QED BY <2>1, <2>2
<1>2. ASSUME NEW w \in Workers, NEW d \in Hand(w), d.client = home[p]
      PROVE  \E t \in Seq(Message) : Given(p) \o t = owed[p]
  <2>1. ctx[w].deltas \in Sendings
    BY DEF IInv, TypeOK, Contexts, Sendings
  <2>2. PICK k \in 1 .. Len(ctx[w].deltas) : d = ctx[w].deltas[k]
    BY <1>2 DEF Hand, Elements
  <2>3. d.msgs \in Seq(Message)
    <3>1. \A j \in 1 .. Len(ctx[w].deltas) : ctx[w].deltas[j] \in [client : Ids, msgs : Seq(Message)]
      BY <2>1, ElementOfSeq DEF Sendings
    <3> QED BY <2>2, <3>1
  <2>4. Given(p) \o d.msgs = owed[p]
    BY <1>2 DEF StreamInv, StreamOf, Due
  <2> QED BY <2>3, <2>4
<1> QED BY <1>1, <1>2

\* Pending picks that delta.
LEMMA StreamHolds ==
  ASSUME IInv, ViewInv, UnsentInv, StreamInv PROVE StreamExact
<1>1. ASSUME NEW p \in Passes, Live(p)
      PROVE  inbox[p] \o client[home[p]].msgs \o Pending(p) = owed[p]
  <2> DEFINE waiting == {w \in Workers : pc[w] = "send"
                            /\ \E d \in Elements(ctx[w].deltas) : d.client = home[p]}
  <2>1. CASE waiting = {}
    <3>1. Pending(p) = <<>>
      BY <2>1, ZenonT(40) DEF Pending
    <3>2. Given(p) = owed[p] /\ Given(p) \in Seq(Message)
      BY <1>1, <2>1, Streams DEF StreamInv, StreamOf, Hand
    <3> QED BY <3>1, <3>2, ConcatEmptySeq DEF Given
  <2>2. CASE waiting # {}
    <3> DEFINE w == CHOOSE v \in waiting : TRUE
               ds == ctx[w].deltas
               k == CHOOSE j \in 1 .. Len(ds) : ds[j].client = home[p]
    <3>1. w \in Workers /\ pc[w] = "send" /\ \E d \in Elements(ds) : d.client = home[p]
      BY <2>2, ZenonT(40)
    <3>2. k \in 1 .. Len(ds) /\ ds[k].client = home[p]
      BY <3>1, ZenonT(40) DEF Elements
    <3>3. Pending(p) = ds[k].msgs
      BY <2>2, ZenonT(40) DEF Pending
    <3> HIDE DEF k, w, waiting
    <3>4. ds[k] \in Hand(w)
      BY <3>1, <3>2 DEF Hand, Elements
    <3> HIDE DEF ds
    <3>5. Given(p) \o ds[k].msgs = owed[p]
      <4>1. StreamOf(p)
        BY <1>1 DEF StreamInv
      <4>2. Due(p, ctx[w].tx, ds[k].msgs)
        BY <3>1, <3>2, <3>4, <4>1 DEF StreamOf
      <4> QED BY <4>2 DEF Due
    <3> QED BY <3>3, <3>5 DEF Given
  <2> QED BY <2>1, <2>2, ZenonT(40)
<1> QED BY <1>1 DEF StreamExact, UnsentInv

\* The whole invariant.
DeliveryInv == /\ IInv /\ MadeInv /\ NoStaleChannels
               /\ ViewInv /\ SendInv /\ MutexInv /\ TagInv /\ UnsentInv /\ StreamInv

LEMMA DeliveryInit == ASSUME Init PROVE DeliveryInv /\ NoMisdelivery
<1>1. /\ \A w \in Workers : pc[w] = "idle" /\ ctx[w].made = {}
      /\ \A i \in Ids : client[i].mode # "USED"
      /\ \A p \in Passes : view[p] = "unborn" /\ owed[p] = <<>> /\ inbox[p] = <<>>
      /\ db = {} /\ expunged = {} /\ unsent = {}
  BY DEF Init, ResetContext, Unallocated
<1>2. \A p \in Passes : Elements(owed[p]) = {} /\ Elements(inbox[p]) = {} /\ ~Live(p)
  BY <1>1 DEF Elements, Live
<1>3. MadeInv /\ NoStaleChannels /\ SendInv /\ MutexInv
  BY <1>1 DEF MadeInv, MadeOf, NoStaleChannels, SendInv, SendsOf, MutexInv, MutexOf
<1>4. ViewInv /\ StreamInv /\ NoMisdelivery
  BY <1>1, <1>2 DEF ViewInv, StreamInv, NoMisdelivery
<1>5. TagInv /\ UnsentInv
  BY <1>1, <1>2 DEF TagInv, UnsentInv, Inside, Before
<1> QED BY <1>3, <1>4, <1>5, InitIInv DEF DeliveryInv

\* A view is given something only while it is live.
LEMMA InboxStep ==
  ASSUME IInv, ViewInv, SendInv, [Next]_vars, NEW p \in Passes PROVE Live(p)' \/ inbox'[p] = inbox[p]
<1>1. inbox \in [Passes -> Seq(Message)]
  BY DEF IInv, TypeOK
<1>2. ASSUME NEW i \in Ids, NEW q \in Passes, Collected(i, q) PROVE Live(p)' \/ inbox'[p] = inbox[p]
  BY <1>1, <1>2 DEF Collected, Live
<1>3. ASSUME NEW w \in Workers, NEW i \in Ids, NEW q \in Passes, NEW msgs \in Seq(Message), Sent(w, i, q, msgs)
      PROVE  Live(p)' \/ inbox'[p] = inbox[p]
  BY <1>1, <1>3 DEF Sent, Handed, Live
<1>4. CASE \/ Still \/ \E w \in Workers, i \in Ids, q \in Passes : Opened(w, i, q)
           \/ (\E w \in Workers : Committed(w)) \/ \E i \in Ids, q \in Passes : Freed(i, q)
  BY <1>4 DEF Still, Opened, Committed, Freed
<1> QED BY <1>2, <1>3, <1>4, StepMailed DEF Mailed

LiveRight == \A p \in Passes : Live(p) => \A m \in Elements(inbox[p]) : m.view = p
LEMMA AddressedRight == ASSUME DeliveryInv PROVE LiveRight
<1> SUFFICES ASSUME NEW p \in Passes, Live(p) PROVE \A m \in Elements(inbox[p]) : m.view = p
  BY DEF LiveRight
<1> USE DEF DeliveryInv
<1>1. PICK t \in Seq(Message) : Given(p) \o t = owed[p]
  BY GivenOwed
<1>2. inbox[p] \in Seq(Message) /\ client[home[p]].msgs \in Seq(Message) /\ Given(p) \in Seq(Message)
  BY Streams
<1>3. Elements(Given(p)) = Elements(inbox[p]) \cup Elements(client[home[p]].msgs)
  BY <1>2, ConcatElements DEF Given
<1>4. Elements(owed[p]) = Elements(Given(p)) \cup Elements(t)
  <2>1. Given(p) \in Seq(Message) /\ t \in Seq(Message)
    BY <1>2
  <2>2. Elements(Given(p) \o t) = Elements(Given(p)) \cup Elements(t)
    BY <2>1, ConcatElements
  <2> QED BY <1>1, <2>2
<1> QED BY <1>3, <1>4 DEF TagInv

LEMMA DeliveryStep ==
  ASSUME DeliveryInv, [Next]_vars, ExpungerDeletes, "commit_error" \notin ExpungeResults
  PROVE  DeliveryInv'
<1>1. /\ IInv /\ MadeInv /\ NoStaleChannels
      /\ ViewInv /\ SendInv /\ MutexInv /\ TagInv /\ UnsentInv /\ StreamInv
  BY DEF DeliveryInv
<1>2. IInv'
  BY <1>1, TypeStep, LockStep, ContextStep, TableStep, PruneStep, OwnerStep DEF IInv
<1>3. MadeInv' /\ NoStaleChannels'
  BY <1>1, MadeStep, StaleStep
<1>4. ViewInv' /\ SendInv' /\ MutexInv'
  BY <1>1, ViewStep, SendStep, MutexStep
<1>5. TagInv' /\ UnsentInv' /\ StreamInv'
  BY <1>1, TagStep, UnsentStep, StreamStep
<1> QED BY <1>2, <1>3, <1>4, <1>5 DEF DeliveryInv

LEMMA Delivery ==
  ASSUME ExpungerDeletes, "commit_error" \notin ExpungeResults
  PROVE  Spec => []DeliveryInv
<1>1. Init => DeliveryInv
  BY DeliveryInit
<1>2. DeliveryInv /\ [Next]_vars => DeliveryInv'
  BY DeliveryStep
<1> QED BY <1>1, <1>2, PTL DEF Spec

\* If the expunger deletes a retired client's rows, and no expunge transaction
\* fails for good, then every live view is given exactly what was committed for
\* it and did not overflow, in commit order: client_send, uw_client_connect and
\* message_send_mutex neither tear nor repeat nor reorder a stream.  A transaction
\* whose final action failed after COMMIT has given nothing to anybody.
THEOREM StreamsExact ==
  ASSUME ExpungerDeletes, "commit_error" \notin ExpungeResults
  PROVE  Spec => []StreamExact
<1>1. DeliveryInv => StreamExact
  BY StreamHolds DEF DeliveryInv
<1> QED BY <1>1, Delivery, PTL

\* Under the same conditions a slot keeps no poll but its present owner's, and none
\* while messages wait: client_send, uw_client_connect and new_client agree on who
\* is to be answered, whichever comes first.
THEOREM NobodyWaits ==
  ASSUME ExpungerDeletes, "commit_error" \notin ExpungeResults
  PROVE  Spec => []NobodyWaitsInVain
<1>1. DeliveryInv => NobodyWaitsInVain
  BY DEF DeliveryInv, ViewInv, NobodyWaitsInVain
<1> QED BY <1>1, Delivery, PTL

\* Under the same conditions no view, live or expunged, has ever been given a
\* message of another view's channel.
THEOREM NeverMisdelivered ==
  ASSUME ExpungerDeletes, "commit_error" \notin ExpungeResults
  PROVE  Spec => []NoMisdelivery
<1>1. Init => NoMisdelivery
  BY DeliveryInit
<1>2. DeliveryInv => LiveRight
  BY AddressedRight
<1>3. DeliveryInv /\ LiveRight' /\ NoMisdelivery /\ [Next]_vars => NoMisdelivery'
  <2>1. ASSUME DeliveryInv, LiveRight', NoMisdelivery, [Next]_vars, NEW p \in Passes
        PROVE  \A m \in Elements(inbox'[p]) : m.view = p
    <3>1. Live(p)' \/ inbox'[p] = inbox[p]
      BY <2>1, InboxStep DEF DeliveryInv
    <3> QED BY <2>1, <3>1 DEF LiveRight, NoMisdelivery
  <2> QED BY <2>1 DEF NoMisdelivery
<1> QED BY <1>1, <1>2, <1>3, Delivery, PTL DEF Spec
-----------------------------------------------------------------------------
(* The table implements mailboxes *)

Status(p) == IF view[p] = "unborn" THEN "unborn" ELSE IF p \in expunged THEN "retired" ELSE "live"

\* A sequence starts with what it was concatenated from.
LEMMA PrefixConcat ==
  ASSUME NEW s \in Seq(Message), NEW t \in Seq(Message) PROVE Mail!Prefix(s, s \o t)
<1>1. Len(s \o t) = Len(s) + Len(t) /\ Len(s) \in Nat /\ Len(t) \in Nat
  BY ConcatProperties, LenProperties
<1>2. SubSeq(s \o t, 1, Len(s \o t) - Len(t)) = s
  BY FrontOfConcat
<1>3. Len(s \o t) - Len(t) = Len(s) /\ Len(s) <= Len(s \o t)
  BY <1>1
<1> QED BY <1>2, <1>3 DEF Mail!Prefix

LEMMA LiveStatus == \A p \in Passes : (Live(p) <=> Status(p) = "live")
BY DEF Live, Status

LEMMA MailOpen ==
  ASSUME DeliveryInv, NEW w \in Workers, NEW i \in Ids, NEW p \in Passes, Opened(w, i, p), unsent' = unsent
  PROVE  Mail!Open(p)
<1> DEFINE status == [q \in Passes |-> Status(q)]
<1>1. status[p] = "unborn" /\ \A q \in Passes : q # p => Status(q)' = Status(q)
  BY DEF Opened, Status
<1>2. Status(p)' = "live"
  BY DEF Opened, Status, DeliveryInv, ViewInv
<1>3. status' = [status EXCEPT ![p] = "live"]
  BY <1>1, <1>2
<1>4. UNCHANGED <<owed, inbox>>
  BY DEF Opened
<1> QED BY <1>1, <1>3, <1>4 DEF Mail!Open, Status

LEMMA MailRetire ==
  ASSUME DeliveryInv, NEW i \in Ids, NEW p \in Passes, Freed(i, p), unsent' = unsent
  PROVE  Mail!Retire(p)
<1> DEFINE status == [q \in Passes |-> Status(q)]
<1>1. \A q \in Passes : q # p => Status(q)' = Status(q)
  BY DEF Freed, Status
<1>2. status[p] = "live" /\ Status(p)' = "retired"
  BY DEF Freed, Status, Live
<1>3. status' = [status EXCEPT ![p] = "retired"]
  BY <1>1, <1>2
<1>4. UNCHANGED <<owed, inbox>>
  BY DEF Freed
<1> QED BY <1>2, <1>3, <1>4 DEF Mail!Retire, Status

\* uw_client_connect hands over the buffer.
LEMMA MailCollect ==
  ASSUME DeliveryInv, NEW i \in Ids, NEW p \in Passes, Collected(i, p), unsent' = unsent
  PROVE  Mail!Receive(p)
<1> USE DEF DeliveryInv
<1>1. /\ Live(p) /\ home[p] = i /\ inbox' = [inbox EXCEPT ![p] = inbox[p] \o client[i].msgs]
      /\ UNCHANGED <<view, expunged, owed>> /\ inbox \in [Passes -> Seq(Message)]
  BY DEF Collected, IInv, TypeOK
<1>2. PICK t \in Seq(Message) : Given(p) \o t = owed[p]
  BY <1>1, GivenOwed
<1>3. inbox[p] \in Seq(Message) /\ client[i].msgs \in Seq(Message) /\ Given(p) \in Seq(Message)
  BY <1>1, Streams
<1>4. inbox'[p] = Given(p) /\ inbox' = [inbox EXCEPT ![p] = inbox'[p]]
  BY <1>1 DEF Given
<1>5. Mail!Prefix(Given(p), owed[p])
  BY <1>2, <1>3, PrefixConcat
<1>6. Mail!Prefix(inbox[p], inbox'[p])
  <2>1. Mail!Prefix(inbox[p], inbox[p] \o client[i].msgs)
    BY <1>3, PrefixConcat
  <2> QED BY <1>1, <2>1
<1>7. Status(p) = "live"
  BY <1>1, LiveStatus
<1> QED BY <1>1, <1>4, <1>5, <1>6, <1>7 DEF Mail!Receive, Status

\* client_send: the poll receives, or the buffer keeps, or the buffer is full
\* and all that the transaction sent is lost.
LEMMA MailSend ==
  ASSUME DeliveryInv, NEW w \in Workers, client_send(w)
  PROVE  (\E p \in Passes : Mail!Receive(p) \/ Mail!Lose(p)) \/ UNCHANGED Mail!vars
<1> USE DEF DeliveryInv
<1>0. unsent' = unsent
  BY DEF client_send
<1>1. PICK i \in Ids, p \in Passes, msgs \in Seq(Message) : Sent(w, i, p, msgs) /\ Relieved(w, i, msgs)
  BY ClientSend
<1>2. Live(p) /\ home[p] = i /\ UNCHANGED <<view, expunged>>
  BY <1>1 DEF Sent
<1>3. /\ inbox[p] \in Seq(Message) /\ client[i].msgs \in Seq(Message) /\ owed[p] \in Seq(Message)
      /\ inbox \in [Passes -> Seq(Message)] /\ owed \in [Passes -> Seq(Message)]
      /\ Given(p) = inbox[p] \o client[i].msgs /\ Given(p) \in Seq(Message)
  BY <1>2, Streams DEF IInv, TypeOK, Given
<1>4. Due(p, ctx[w].tx, msgs)
  <2>1. PICK d \in Hand(w) : d.client = i /\ d.msgs = msgs
    BY <1>1 DEF Relieved, Hand
  <2>2. StreamOf(p)
    BY <1>2 DEF StreamInv
  <2> QED BY <1>2, <2>1, <2>2 DEF StreamOf
<1>5. Given(p) \o msgs = owed[p]
      /\ \A j \in 1 .. Len(owed[p]) : j > Len(Given(p)) <=> owed[p][j].tx = ctx[w].tx
  BY <1>4 DEF Due
<1>6. Status(p) = "live" /\ \A q \in Passes : Status(q)' = Status(q)
  BY <1>2, LiveStatus DEF Status
<1>7. CASE /\ client[i].msgs = <<>>
           /\ inbox' = [inbox EXCEPT ![p] = inbox[p] \o msgs] /\ owed' = owed
  <2>1. Given(p) = inbox[p] /\ inbox'[p] = owed[p] /\ inbox' = [inbox EXCEPT ![p] = inbox'[p]]
    BY <1>3, <1>5, <1>7, ConcatEmptySeq
  <2>2. Mail!Prefix(inbox[p], inbox'[p])
    <3>1. Mail!Prefix(inbox[p], inbox[p] \o msgs)
      BY <1>3, PrefixConcat
    <3> QED BY <1>5, <2>1, <3>1
  <2>3. Mail!Prefix(inbox'[p], owed[p])
    <3>1. Len(owed[p]) \in Nat /\ SubSeq(owed[p], 1, Len(owed[p])) = owed[p]
      BY <1>3, SubSeqFull, LenProperties
    <3> QED BY <2>1, <3>1 DEF Mail!Prefix
  <2>4. Mail!Receive(p)
    BY <1>0, <1>6, <1>7, <2>1, <2>2, <2>3 DEF Mail!Receive, Status
  <2> QED BY <2>4
<1>8. CASE inbox' = inbox /\ owed' = owed
  BY <1>0, <1>6, <1>8 DEF Mail!vars, Status
<1>9. CASE /\ inbox' = inbox
           /\ owed' = [owed EXCEPT ![p] = SubSeq(owed[p], 1, Len(owed[p]) - Len(msgs))]
  <2> DEFINE a == Len(inbox[p])
             k == Len(Given(p))
             m == Len(msgs)
             n == Len(owed[p])
  <2>1. a \in Nat /\ m \in Nat /\ k \in Nat /\ n = k + m /\ a <= k
    <3>1. Len(Given(p) \o msgs) = Len(Given(p)) + Len(msgs)
      BY <1>3, ConcatProperties
    <3>2. Len(inbox[p] \o client[i].msgs) = Len(inbox[p]) + Len(client[i].msgs)
      BY <1>3, ConcatProperties
    <3>3. Len(inbox[p]) \in Nat /\ Len(client[i].msgs) \in Nat /\ Len(Given(p)) \in Nat /\ Len(msgs) \in Nat
      BY <1>3, LenProperties
    <3> QED BY <1>3, <1>5, <3>1, <3>2, <3>3
  <2>2. \A j \in 1 .. n : j > k <=> owed[p][j].tx = ctx[w].tx
    BY <1>5
  <2>3. n - m = k
    <3> HIDE DEF a, k, m, n
    <3> QED BY <2>1
  <2>4. owed' = [owed EXCEPT ![p] = SubSeq(owed[p], 1, k)]
    BY <1>9, <2>3
  <2>5. CASE m = 0
    <3>1. k = n
      <4> HIDE DEF a, k, m, n
      <4> QED BY <2>1, <2>5
    <3>2. SubSeq(owed[p], 1, n) = owed[p]
      BY <1>3, SubSeqFull
    <3>3. owed' = owed
      BY <1>3, <2>4, <3>1, <3>2, ZenonT(40)
    <3> QED BY <1>8, <1>9, <3>3
  <2>6. CASE m # 0
    <3>1. k \in a .. n - 1 /\ k + 1 \in 1 .. n /\ k + 1 > k
      <4> HIDE DEF a, k, m, n
      <4> QED BY <2>1, <2>6
    <3>2. owed[p][k + 1].tx = ctx[w].tx
      BY <2>2, <3>1
    <3>3. \A j \in 1 .. n : j > k <=> owed[p][j].tx = owed[p][k + 1].tx
      BY <2>2, <3>2
    <3> HIDE DEF k
    <3>4. Mail!Lose(p)
      BY <1>0, <1>6, <1>9, <2>4, <3>1, <3>3 DEF Mail!Lose, Status
    <3> QED BY <3>4
  <2> QED BY <2>5, <2>6
<1> QED BY <1>1, <1>7, <1>8, <1>9 DEF Sent, Handed

\* db_commit: all that the transaction sent reaches all its mailboxes at once.
LEMMA MailCommit ==
  ASSUME DeliveryInv, NEW w \in Workers, db_commit(w) PROVE Mail!Commit
<1> USE DEF DeliveryInv
<1>1. /\ Committed(w) /\ Complete(w) /\ pc[w] \in Before
      /\ \A p \in Passes : owed[p] \in Seq(Message) /\ ctx[w].sends[p] \in Seq(Message)
      /\ \A p \in Passes : owed'[p] = owed[p] \o ctx[w].sends[p]
  <2>1. Committed(w)
    BY DbCommit
  <2>2. Complete(w) /\ pc[w] \in Before
    BY <2>1 DEF Committed, SendInv, SendsOf, Before
  <2>3. \A p \in Passes : owed[p] \in Seq(Message) /\ ctx[w].sends[p] \in Seq(Message)
    BY DEF IInv, TypeOK, Contexts
  <2> QED BY <2>1, <2>2, <2>3 DEF Committed
<1>2. DOMAIN owed' = Passes
  BY DEF db_commit
<1>3. /\ \A p \in Passes : Status(p)' = Status(p)
      /\ inbox' = inbox /\ unsent' = unsent /\ ctx[w].tx \notin unsent
  BY <1>1 DEF Committed, Status, UnsentInv, db_commit
<1>4. ASSUME NEW p \in Passes PROVE Tagged(owed[p], ctx[w].sends[p], ctx[w].tx)
  <2>1. \A m \in Elements(owed[p]) : m.tx # ctx[w].tx
    BY <1>1 DEF TagInv
  <2>2. \A m \in Elements(ctx[w].sends[p]) : m.tx = ctx[w].tx
    BY <1>1 DEF Complete, Elements
  <2>3. owed[p] \in Seq(Message) /\ ctx[w].sends[p] \in Seq(Message)
    BY <1>1
  <2> QED BY <2>1, <2>2, <2>3, TaggedConcat
<1>5. ASSUME NEW p \in Passes PROVE \A j \in 1 .. Len(owed'[p]) : j > Len(owed[p]) <=> owed'[p][j].tx = ctx[w].tx
  BY <1>1, <1>4 DEF Tagged
<1>6. ASSUME NEW p \in Passes PROVE Len(owed[p]) \in Nat /\ Len(owed'[p]) \in Nat
  <2>1. owed[p] \in Seq(Message) /\ owed[p] \o ctx[w].sends[p] \in Seq(Message)
    BY <1>1, ConcatProperties
  <2> QED BY <1>1, <2>1, LenProperties
<1>7. ASSUME NEW u \in Passes, NEW v \in Passes, NEW j \in 1 .. Len(owed'[u]),
             NEW k \in Len(owed[v]) + 1 .. Len(owed'[v])
      PROVE  (j > Len(owed[u]) <=> owed'[u][j].tx = owed'[v][k].tx) /\ owed'[v][k].tx \notin unsent
  <2>1. k \in 1 .. Len(owed'[v]) /\ k > Len(owed[v])
    BY <1>6, <1>7
  <2>2. owed'[v][k].tx = ctx[w].tx
    BY <1>5, <2>1
  <2> QED BY <1>3, <1>5, <2>2
<1>8. ASSUME NEW p \in Passes, Status(p) = "live" PROVE Mail!Prefix(owed[p], owed'[p])
  <2>1. Mail!Prefix(owed[p], owed[p] \o ctx[w].sends[p])
    BY <1>1, PrefixConcat
  <2> QED BY <1>1, <2>1
<1>9. ASSUME NEW p \in Passes, Status(p) # "live" PROVE owed'[p] = owed[p]
  <2>1. ctx[w].sends[p] = <<>>
    BY <1>1, <1>9, LiveStatus DEF Complete
  <2> QED BY <1>1, <2>1, ConcatEmptySeq
<1> QED BY <1>2, <1>3, <1>7, <1>8, <1>9 DEF Mail!Commit, Status

\* db_commit_unsent: nobody has been sent anything by that transaction.
LEMMA MailForfeit ==
  ASSUME DeliveryInv, NEW w \in Workers, db_commit_unsent(w) PROVE Mail!Forfeit
<1>1. pc[w] \in Before /\ unsent' = unsent \cup {ctx[w].tx} /\ ctx[w].tx \in 1 .. TxMax
      /\ UNCHANGED <<view, expunged, owed, inbox>>
  BY DEF db_commit_unsent, Before, Inside, DeliveryInv, IInv, ContextInv, ContextOf
<1>2. \A p \in Passes : \A k \in 1 .. Len(owed[p]) : owed[p][k].tx # ctx[w].tx
  BY <1>1 DEF DeliveryInv, TagInv, Elements
<1> QED BY <1>1, <1>2 DEF Mail!Forfeit

LEMMA MailStep == ASSUME DeliveryInv, [Next]_vars PROVE [Mail!Next]_Mail!vars
<1>1. ASSUME NEW w \in Workers, db_commit_unsent(w) PROVE Mail!Next
  BY <1>1, MailForfeit DEF Mail!Next
<1>2. CASE \A w \in Workers : ~db_commit_unsent(w)
  <2>0. unsent' = unsent
    BY <1>2, OthersKeepUnsent DEF DeliveryInv, IInv
  <2>1. ASSUME NEW w \in Workers, db_commit(w) PROVE Mail!Next
    BY <2>1, MailCommit DEF Mail!Next
  <2>2. ASSUME NEW w \in Workers, client_send(w) PROVE Mail!Next \/ UNCHANGED Mail!vars
    BY <2>2, MailSend DEF Mail!Next
  <2>3. CASE Still
    BY <2>0, <2>3 DEF Still, Mail!vars
  <2>4. ASSUME NEW w \in Workers, NEW i \in Ids, NEW p \in Passes, Opened(w, i, p) PROVE Mail!Next
    BY <2>0, <2>4, MailOpen DEF Mail!Next
  <2>5. ASSUME NEW i \in Ids, NEW p \in Passes, Collected(i, p) \/ Freed(i, p) PROVE Mail!Next
    BY <2>0, <2>5, MailCollect, MailRetire DEF Mail!Next
  <2> QED BY <2>1, <2>2, <2>3, <2>4, <2>5, StepQuiet DEF Quiet, DeliveryInv
<1> QED BY <1>1, <1>2

\* Under the same conditions the table of slots, its buffers, sockets and locks
\* implement mailboxes: a commit reaches all of them at once, a view receives a
\* prefix of what was sent to it, a buffer that is full loses all that one
\* transaction sent, which is its last, and nothing else, and a transaction whose
\* final action fails after COMMIT forfeits all it had to send, to everybody.
THEOREM MailboxesImplemented ==
  ASSUME ExpungerDeletes, "commit_error" \notin ExpungeResults
  PROVE  Spec => MailSpec
<1>1. Init => Mail!Init
  BY DEF Init, Mail!Init
<1>2. DeliveryInv /\ [Next]_vars => [Mail!Next]_Mail!vars
  BY MailStep
<1> QED BY <1>1, <1>2, Delivery, PTL DEF Spec, MailSpec, Mail!Spec
=============================================================================
