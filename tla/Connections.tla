---------------------------- MODULE Connections ----------------------------
(***************************************************************************)
(* The HTTP server's connections (src/c/http.c, src/c/queue.c): the main   *)
(* thread accepts them and puts them on a queue; worker threads take them  *)
(* off, read requests into a buffer, serve them, and with keep-alive put   *)
(* the connection back, or go on with what the client sent ahead.          *)
(*                                                                         *)
(* What a client sends is cut into pieces: HeadLen of them make a request  *)
(* line with its headers, BodyLen the content that Content-Length          *)
(* announces.  The buffer holds BufMax pieces (max_buf_size).  Every       *)
(* critical section of queue_mutex is one step.  The number of a           *)
(* connection is never used again.                                         *)
(***************************************************************************)
EXTENDS Integers, Sequences, FiniteSets

CONSTANTS
  Workers,      \* server threads
  Conns,        \* connections, as the main thread's accept returns them
  NoConn,       \* sock = 0
  Keepalive,    \* the -k option
  Kinds,        \* Kinds[c]: the kinds of request of the client behind c
  BufMax,       \* max_buf_size, in pieces
  RequestsMax   \* bound: requests sent in a behaviour

ASSUME BufMaxAssumption == BufMax \in Nat /\ BufMax > 1
ASSUME RequestsMaxAssumption == RequestsMax \in Nat
AllKinds == {"get", "query", "post", "cut", "poll", "close", "malformed", "longhead", "longbody"}
ASSUME KindsAssumption == Kinds \in [Conns -> SUBSET AllKinds]
ASSUME KeepaliveAssumption == Keepalive \in BOOLEAN
ASSUME NoConnAssumption == NoConn \notin Conns

VARIABLES
  queue,     \* the list from front to back
  wpc,       \* wpc[w]: where worker w is in its loop
  sock,      \* sock[w]: the connection it works on, or NoConn
  buf,       \* buf[w]: what lies between buf and back
  conn,      \* conn[c]: "new", "open", "handed" to a client slot, or "closed"
  asked,     \* asked[c]: the kinds of the requests sent on c (history)
  stream,    \* stream[c]: pieces sent on c that no recv has returned yet
  answers,   \* answers[c]: the requests whose answers were written to c
  nuls,      \* the requests over whose heads zero bytes were written in a buffer
  down       \* the process has died

server == <<queue, wpc, sock, buf>>
client == <<asked, stream>>
vars == <<server, conn, client, answers, nuls, down>>

\* Piece k of the n-th request sent on a connection, and that request's kind.
Piece == [conn : Conns, n : Nat, kind : AllKinds, k : Nat]
Request(piece) == [conn |-> piece.conn, n |-> piece.n]

\* "query" is a "get" with an & or = in its head where uw_request looks for the
\* fields of a form; "longhead" and "longbody" do not fit into the buffer; the content of "cut" is
\* announced and never sent.
HeadLen(kind) == IF kind = "longhead" THEN BufMax + 1 ELSE 1
BodyLen(kind) ==
  CASE kind \in {"post", "cut"} -> 1 [] kind = "longbody" -> BufMax [] OTHER -> 0
SentLen(kind) == IF kind = "cut" THEN 1 ELSE HeadLen(kind) + BodyLen(kind)

Init ==
  /\ queue = <<>> /\ wpc = [w \in Workers |-> "free"]
  /\ sock = [w \in Workers |-> NoConn] /\ buf = [w \in Workers |-> <<>>]
  /\ conn = [c \in Conns |-> "new"]
  /\ asked = [c \in Conns |-> <<>>] /\ stream = [c \in Conns |-> <<>>]
  /\ answers = [c \in Conns |-> <<>>] /\ nuls = {} /\ down = FALSE
-----------------------------------------------------------------------------
(* The clients *)

\* A client may send the next request before the last one was answered, and
\* before the connection was accepted.  A client that has closed its side, or
\* fallen silent within a request, is one that sends no more.
ClientSends(c, kind) ==
  LET n == Len(asked[c]) + 1 IN
  /\ conn[c] \in {"new", "open"}
  /\ asked[c] # <<>> => asked[c][Len(asked[c])] # "cut"
  /\ Cardinality({m \in Conns \X (1 .. RequestsMax) : m[2] <= Len(asked[m[1]])}) < RequestsMax
  /\ asked' = [asked EXCEPT ![c] = Append(@, kind)]
  /\ stream' = [stream EXCEPT ![c] =
       @ \o [k \in 1 .. SentLen(kind) |->
              [conn |-> c, n |-> n, kind |-> kind, k |-> k]]]
  /\ UNCHANGED <<server, conn, answers, nuls, down>>
-----------------------------------------------------------------------------
(* queue.c *)

\* Mutant: the condition is not broadcast.
SleepersStay(pcs) == pcs
Broadcast(pcs) == [w \in Workers |-> IF pcs[w] = "waiting" THEN "woken" ELSE pcs[w]]

\* uw_enqueue by a thread that goes on at pcs.
uw_enqueue(c, pcs) == queue' = Append(queue, c) /\ wpc' = Broadcast(pcs)

\* Mutant: what the buffer held for the last connection stays there.
EmptiedNever(b) == b
Emptied(b) == <<>>

\* uw_dequeue: wait while the queue is empty, and look again when woken.  The
\* worker then starts with an empty buffer.
uw_dequeue(w) ==
  /\ wpc[w] \in {"free", "woken"}
  /\ IF queue = <<>>
     THEN wpc' = [wpc EXCEPT ![w] = "waiting"] /\ UNCHANGED <<queue, sock, buf>>
     ELSE /\ queue' = Tail(queue) /\ sock' = [sock EXCEPT ![w] = Head(queue)]
          /\ buf' = [buf EXCEPT ![w] = Emptied(@)]
          /\ wpc' = [wpc EXCEPT ![w] = "read"]
  /\ UNCHANGED <<conn, client, answers, nuls, down>>

\* pthread_cond_wait may return though nobody has broadcast.
SpuriousWakeup(w) ==
  /\ wpc[w] = "waiting" /\ wpc' = [wpc EXCEPT ![w] = "woken"]
  /\ UNCHANGED <<queue, sock, buf, conn, client, answers, nuls, down>>

\* The main thread's loop.
Accept(c) ==
  /\ conn[c] = "new" /\ conn' = [conn EXCEPT ![c] = "open"]
  /\ uw_enqueue(c, wpc)
  /\ UNCHANGED <<sock, buf, client, answers, nuls, down>>
-----------------------------------------------------------------------------
(* worker: reading *)

Full(w) == Len(buf[w]) = BufMax
Kind(w) == buf[w][1].kind         \* of the first request in buf

\* Does the buffer hold a whole head?  (strstr for the empty line, which looks no
\* further than the first zero byte)
HeadIn(b) ==
  \E j \in 1 .. Len(b) : /\ b[j].k = HeadLen(b[j].kind)
                         /\ \A i \in 1 .. j : Request(b[i]) \notin nuls

\* Mutant: one piece more than there is room for.
OneMore(w) == BufMax + 1 - Len(buf[w])
Room(w) == BufMax - Len(buf[w])

\* recv returns any part of what has been sent, as far as there is room.
Receive(w) ==
  LET c == sock[w] IN
  /\ ~Full(w)
  /\ \E k \in 1 .. Room(w) :
       /\ k <= Len(stream[c])
       /\ buf' = [buf EXCEPT ![w] = @ \o SubSeq(stream[c], 1, k)]
       /\ stream' = [stream EXCEPT ![c] = SubSeq(@, k + 1, Len(@))]
  /\ UNCHANGED <<queue, sock, conn, asked, answers, nuls, down>>

\* The worker sets sock = 0; what it has not received stays unread.
LetGo(w, state) ==
  /\ conn' = [conn EXCEPT ![sock[w]] = state] /\ sock' = [sock EXCEPT ![w] = NoConn]
  /\ stream' = [stream EXCEPT ![sock[w]] = <<>>]

Close(w) == LetGo(w, "closed")

ReadHead(w) ==
  /\ wpc[w] = "read" /\ ~HeadIn(buf[w])
  /\ Receive(w)
  /\ wpc' = [wpc EXCEPT ![w] = IF HeadIn(buf'[w]) THEN "content" ELSE "read"]

\* A head that was sent ahead is in the buffer already.
FoundHead(w) ==
  /\ wpc[w] = "read" /\ ~Full(w) /\ HeadIn(buf[w])
  /\ wpc' = [wpc EXCEPT ![w] = "content"]
  /\ UNCHANGED <<queue, sock, buf, conn, client, answers, nuls, down>>

HeadTooLong(w) ==
  /\ wpc[w] = "read" /\ Full(w)
  /\ Close(w) /\ wpc' = [wpc EXCEPT ![w] = "free"]
  /\ UNCHANGED <<queue, buf, asked, answers, nuls, down>>

\* Mutant: the loop waits for one piece more than the content has.
LacksOneMore(w) == Len(buf[w]) - HeadLen(Kind(w)) <= BodyLen(Kind(w))
Lacks(w) == Len(buf[w]) - HeadLen(Kind(w)) < BodyLen(Kind(w))

ReadContent(w) ==
  /\ wpc[w] = "content" /\ Lacks(w)
  /\ Receive(w) /\ UNCHANGED wpc

\* recv returns 0 (the client has closed) or -1 (it kept silent for longer than
\* SO_RCVTIMEO, which the -T option sets and which is five seconds without it).
RecvFails(w) ==
  /\ \/ wpc[w] = "read" /\ ~HeadIn(buf[w])
     \/ wpc[w] = "content" /\ Lacks(w)
  /\ ~Full(w) /\ stream[sock[w]] = <<>>
  /\ Close(w) /\ wpc' = [wpc EXCEPT ![w] = "free"]
  /\ UNCHANGED <<queue, buf, asked, answers, nuls, down>>

\* The break leaves the reading loop only: the connection is closed, and the
\* request is handled all the same.
ContentTooLong(w) ==
  /\ wpc[w] = "content" /\ Lacks(w) /\ Full(w)
  /\ Close(w) /\ wpc' = [wpc EXCEPT ![w] = "serve"]
  /\ UNCHANGED <<queue, buf, asked, answers, nuls, down>>

GotContent(w) ==
  /\ wpc[w] = "content" /\ ~Lacks(w) /\ Kind(w) # "malformed"
  /\ wpc' = [wpc EXCEPT ![w] = "serve"]
  /\ UNCHANGED <<queue, sock, buf, conn, client, answers, nuls, down>>
\* No number in Content-Length, no line break or no blank where one is expected.
Malformed(w) ==
  /\ wpc[w] = "content" /\ ~Lacks(w) /\ Kind(w) = "malformed"
  /\ Close(w) /\ wpc' = [wpc EXCEPT ![w] = "free"]
  /\ UNCHANGED <<queue, buf, asked, answers, nuls, down>>
-----------------------------------------------------------------------------
(* worker: serving *)

\* uw_request answers KEEP_OPEN: the socket now is uw_client_connect's.
HandedOver(w) ==
  /\ wpc[w] = "serve" /\ Kind(w) = "poll"
  /\ LetGo(w, "handed") /\ wpc' = [wpc EXCEPT ![w] = "free"]
  /\ UNCHANGED <<queue, buf, asked, answers, nuls, down>>

should_keepalive(w) == Keepalive /\ Kind(w) # "close"

\* The answer goes out (to standard input's descriptor when sock is 0).
uw_send(w) ==
  answers' = IF sock[w] = NoConn THEN answers
             ELSE [answers EXCEPT ![sock[w]] =
                     Append(@, Request(buf[w][1]))]

\* SERVED or FAILED, and no keep-alive.
ServeAndClose(w) ==
  /\ wpc[w] = "serve" /\ Kind(w) # "poll" /\ ~should_keepalive(w)
  /\ uw_send(w)
  /\ IF sock[w] = NoConn THEN UNCHANGED <<conn, sock, stream>> ELSE Close(w)
  /\ wpc' = [wpc EXCEPT ![w] = "free"]
  /\ UNCHANGED <<queue, buf, asked, nuls, down>>

Used(w) == HeadLen(Kind(w)) + BodyLen(Kind(w))

\* uw_request is given the content and all that was sent ahead behind it.  It ends
\* the names and values of a form with zero bytes, up to the end of the string.
Overwritten(w) ==
  IF Kind(w) = "post"
  THEN {Request(buf[w][j]) : j \in {i \in Used(w) + 1 .. Len(buf[w]) : buf[w][i].kind = "query"}}
  ELSE {}

\* SERVED or FAILED with keep-alive: what lies behind the request is moved to
\* the front of the buffer; if there is nothing the connection is put back.
\* After ContentTooLong the length of the move is negative.
ServeAndKeep(w) ==
  /\ wpc[w] = "serve" /\ Kind(w) # "poll" /\ should_keepalive(w)
  /\ uw_send(w)
  /\ buf' = [buf EXCEPT ![w] = SubSeq(@, Used(w) + 1, Len(@))]
  /\ nuls' = nuls \cup Overwritten(w)
  /\ down' = (Used(w) > Len(buf[w]))
  /\ wpc' = [wpc EXCEPT ![w] = IF Used(w) < Len(buf[w]) THEN "read" ELSE "enqueue"]
  /\ UNCHANGED <<queue, sock, conn, client>>

\* Mutant: the worker goes on with the connection it has put back.
KeptSock(w) == sock
DroppedSock(w) == [sock EXCEPT ![w] = NoConn]
Requeue(w) ==
  /\ wpc[w] = "enqueue"
  /\ uw_enqueue(sock[w], [wpc EXCEPT ![w] = "free"]) /\ sock' = DroppedSock(w)
  /\ UNCHANGED <<buf, conn, client, answers, nuls, down>>
-----------------------------------------------------------------------------
Read(w) == \/ RecvFails(w) \/ ReadHead(w) \/ FoundHead(w) \/ HeadTooLong(w)
           \/ ReadContent(w) \/ ContentTooLong(w) \/ GotContent(w) \/ Malformed(w)
Serve(w) == HandedOver(w) \/ ServeAndClose(w) \/ ServeAndKeep(w) \/ Requeue(w)
Step(w) == uw_dequeue(w) \/ Read(w) \/ Serve(w)

Dead == down /\ UNCHANGED vars

Next ==
  \/ /\ ~down
     /\ \/ \E w \in Workers : Step(w) \/ SpuriousWakeup(w)
        \/ \E c \in Conns : \/ Accept(c)
                            \/ \E kind \in Kinds[c] : ClientSends(c, kind)
  \/ Dead

Spec == Init /\ [][Next]_vars

\* Threads run, and the main thread accepts who has connected; clients may send
\* or not.
Fairness == /\ \A w \in Workers : WF_vars(~down /\ Step(w))
            /\ \A c \in Conns : WF_vars(~down /\ Accept(c))

FairSpec == Spec /\ Fairness
-----------------------------------------------------------------------------
(* Properties *)

\* Every variable has its type; no buffer holds more than max_buf_size.
TypeOK ==
  /\ queue \in Seq(Conns)
  /\ wpc \in [Workers -> {"free", "waiting", "woken", "read", "content", "serve", "enqueue"}]
  /\ sock \in [Workers -> Conns \cup {NoConn}]
  /\ buf \in [Workers -> Seq(Piece)] /\ \A w \in Workers : Len(buf[w]) <= BufMax
  /\ conn \in [Conns -> {"new", "open", "handed", "closed"}]
  /\ asked \in [Conns -> Seq(AllKinds)] /\ stream \in [Conns -> Seq(Piece)]
  /\ down \in BOOLEAN /\ nuls \subseteq [conn : Conns, n : Nat]
  /\ answers \in [Conns -> Seq([conn : Conns, n : Nat])]

\* An open connection is in exactly one place, on the queue or with one worker,
\* and one that was closed or handed to a client slot is in none: no two threads
\* ever read from or write to the same socket, and none is forgotten.
SingleOwner ==
  \A c \in Conns :
    Cardinality({k \in 1 .. Len(queue) : queue[k] = c})
      + Cardinality({w \in Workers : sock[w] = c}) = IF conn[c] = "open" THEN 1 ELSE 0

\* The answers written to a connection are those to its own requests, in the
\* order they were sent, none left out and none repeated, however the requests
\* were cut up and whichever workers served them.
AnswersInOrder ==
  \A c \in Conns : \A k \in 1 .. Len(answers[c]) : answers[c][k] = [conn |-> c, n |-> k]

\* Workers never all sleep on queue_cond while a connection waits on the queue.
NoLostWakeup == queue # <<>> => \E w \in Workers : wpc[w] # "waiting"

\* Is there a request that the connection owes an answer to: small, neither lost
\* nor behind one that was, and not behind one that ends the connection?
Owing(c, lost) ==
  \E n \in 1 .. Len(asked[c]) :
    /\ n > Len(answers[c]) /\ (Keepalive \/ n = 1)
    /\ \A m \in 1 .. n : /\ asked[c][m] \in {"get", "query", "post"}
                        /\ [conn |-> c, n |-> m] \notin lost

\* What a client has sent on an open connection is answered, also when all workers
\* are busy with silent clients and when it was sent ahead, unless the server dies
\* or reading the form of a request before it wrote zero bytes over its head.
RequestsAnswered ==
  \A c \in Conns : (conn[c] = "open" /\ Owing(c, nuls)) ~> (~Owing(c, nuls) \/ down)

\* The same without the last exception, as the comment on requests that are queued
\* up behind another has it (worker).  It does not hold of the code.
QueuedAnswered ==
  \A c \in Conns : (conn[c] = "open" /\ Owing(c, {})) ~> (~Owing(c, {}) \/ down)
=============================================================================
