-------------------------- MODULE ConnectionsProofs --------------------------
(***************************************************************************)
(* Proofs about Connections.tla, for any number of workers, connections    *)
(* and requests, and any size of the buffer.                               *)
(***************************************************************************)
EXTENDS Connections, SequenceTheorems, FiniteSetTheorems, TLAPS

USE DEF server, client
-----------------------------------------------------------------------------
(* The inductive invariant *)

\* Where a worker can be in its loop.
Pcs == {"free", "waiting", "woken", "read", "content", "serve", "enqueue"}

Distinct(s) == \A j, k \in 1 .. Len(s) : s[j] = s[k] => j = k
On(s, c) == \E k \in 1 .. Len(s) : s[k] = c

\* A worker between two connections has none, one that reads or puts its
\* connection back has one; a request is served once its head is in the buffer,
\* and without a connection only when its content did not fit.
WorkerOf(w) ==
  /\ wpc[w] \in {"free", "waiting", "woken"} => sock[w] = NoConn
  /\ wpc[w] \in {"read", "content"} => sock[w] \in Conns
  /\ wpc[w] = "enqueue" => sock[w] \in Conns \/ down
  /\ wpc[w] \in {"content", "serve"} => buf[w] # <<>>
  /\ wpc[w] = "serve" /\ sock[w] = NoConn => Used(w) > Len(buf[w])
WorkerInv == \A w \in Workers : WorkerOf(w)

\* Where the open connections are.
PlaceInv ==
  /\ Distinct(queue)
  /\ \A k \in 1 .. Len(queue) : conn[queue[k]] = "open" /\ \A w \in Workers : sock[w] # queue[k]
  /\ \A w \in Workers : sock[w] # NoConn => conn[sock[w]] = "open"
  /\ \A v, w \in Workers : sock[v] = sock[w] /\ sock[v] # NoConn => v = w
  /\ \A c \in Conns : conn[c] = "open" => On(queue, c) \/ \E w \in Workers : sock[w] = c

IInv == TypeOK /\ WorkerInv /\ PlaceInv
-----------------------------------------------------------------------------
(* Type correctness *)

LEMMA Lengths ==
  ASSUME NEW kind
  PROVE  HeadLen(kind) \in Nat \ {0} /\ BodyLen(kind) \in Nat /\ SentLen(kind) \in Nat
<1>1. HeadLen(kind) \in Nat \ {0} /\ BodyLen(kind) \in Nat
  BY BufMaxAssumption DEF HeadLen, BodyLen
<1> QED BY <1>1 DEF SentLen

\* What recv may return, and what is left.
LEMMA Cut ==
  ASSUME NEW s \in Seq(Piece), NEW k \in Nat, k <= Len(s)
  PROVE  /\ SubSeq(s, 1, k) \in Seq(Piece) /\ Len(SubSeq(s, 1, k)) = k
         /\ SubSeq(s, k + 1, Len(s)) \in Seq(Piece)
         /\ Len(SubSeq(s, k + 1, Len(s))) = Len(s) - k
<1>1. Len(s) \in Nat /\ \A j \in 1 .. Len(s) : s[j] \in Piece
  BY ElementOfSeq, LenProperties
<1>2. SubSeq(s, 1, k) \in Seq(Piece) /\ Len(SubSeq(s, 1, k)) = k
  BY <1>1, SubSeqProperties
<1>3. SubSeq(s, k + 1, Len(s)) \in Seq(Piece) /\ Len(SubSeq(s, k + 1, Len(s))) = Len(s) - k
  BY <1>1, SubSeqProperties
<1> QED BY <1>2, <1>3

LEMMA ReceiveType ==
  ASSUME TypeOK, NEW w \in Workers, sock[w] \in Conns, Receive(w)
  PROVE  /\ buf' \in [Workers -> Seq(Piece)] /\ \A v \in Workers : Len(buf'[v]) <= BufMax
         /\ buf'[w] # <<>> /\ \A v \in Workers : v # w => buf'[v] = buf[v]
         /\ stream' \in [Conns -> Seq(Piece)]
<1> DEFINE c == sock[w]
<1>1. buf[w] \in Seq(Piece) /\ stream[c] \in Seq(Piece) /\ BufMax \in Nat
  BY BufMaxAssumption DEF TypeOK
<1>2. Len(buf[w]) \in Nat
  BY <1>1, LenProperties
<1>3. PICK k \in 1 .. Room(w) :
        /\ k <= Len(stream[c])
        /\ buf' = [buf EXCEPT ![w] = buf[w] \o SubSeq(stream[c], 1, k)]
        /\ stream' = [stream EXCEPT ![c] = SubSeq(stream[c], k + 1, Len(stream[c]))]
  BY DEF Receive
<1>4. k \in Nat /\ k > 0 /\ Len(buf[w]) + k <= BufMax
  BY <1>1, <1>2, <1>3 DEF Room
<1> DEFINE got == SubSeq(stream[c], 1, k)
           rest == SubSeq(stream[c], k + 1, Len(stream[c]))
<1>5. got \in Seq(Piece) /\ Len(got) = k /\ rest \in Seq(Piece)
  BY <1>1, <1>3, <1>4, Cut
<1> HIDE DEF got, rest
<1>6. buf[w] \o got \in Seq(Piece) /\ Len(buf[w] \o got) = Len(buf[w]) + k
  BY <1>1, <1>5, ConcatProperties
<1>7. buf[w] \o got # <<>>
  BY <1>2, <1>4, <1>6, EmptySeq
<1>8. buf' = [buf EXCEPT ![w] = buf[w] \o got] /\ stream' = [stream EXCEPT ![c] = rest]
  BY <1>3 DEF got, rest
<1> QED BY <1>4, <1>5, <1>6, <1>7, <1>8 DEF TypeOK

LEMMA QueueType ==
  ASSUME TypeOK, NEW c \in Conns, NEW pcs \in [Workers -> Pcs], uw_enqueue(c, pcs)
  PROVE  queue' \in Seq(Conns) /\ wpc' \in [Workers -> Pcs]
  BY DEF TypeOK, uw_enqueue, Broadcast, Pcs

LEMMA LetGoType ==
  ASSUME TypeOK, NEW w \in Workers, NEW state \in {"handed", "closed"}, LetGo(w, state)
  PROVE  /\ conn' \in [Conns -> {"new", "open", "handed", "closed"}]
         /\ sock' \in [Workers -> Conns \cup {NoConn}] /\ stream' \in [Conns -> Seq(Piece)]
<1>1. <<>> \in Seq(Piece)
  BY EmptySeq
<1> QED BY <1>1 DEF LetGo, TypeOK

LEMMA ReadType ==
  ASSUME TypeOK, WorkerInv, NEW w \in Workers, Read(w) PROVE TypeOK'
<1>1. CASE ReadHead(w) \/ ReadContent(w)
  <2>1. sock[w] \in Conns /\ Receive(w)
    BY <1>1 DEF ReadHead, ReadContent, WorkerInv, WorkerOf
  <2>2. wpc' \in [Workers -> Pcs]
    BY <1>1 DEF ReadHead, ReadContent, TypeOK, Pcs
  <2>3. UNCHANGED <<queue, sock, conn, asked, answers, nuls, down>>
    BY <2>1 DEF Receive
  <2> QED BY <2>1, <2>2, <2>3, ReceiveType DEF TypeOK, Pcs
<1>2. CASE RecvFails(w) \/ HeadTooLong(w) \/ ContentTooLong(w) \/ Malformed(w)
  <2>1. LetGo(w, "closed") /\ UNCHANGED <<queue, buf, asked, answers, nuls, down>>
    BY <1>2 DEF RecvFails, HeadTooLong, ContentTooLong, Malformed, Close
  <2>2. wpc' \in [Workers -> Pcs]
    BY <1>2 DEF RecvFails, HeadTooLong, ContentTooLong, Malformed, TypeOK, Pcs
  <2> QED BY <2>1, <2>2, LetGoType DEF TypeOK, Pcs
<1>3. CASE FoundHead(w) \/ GotContent(w)
  BY <1>3 DEF FoundHead, GotContent, TypeOK
<1> QED BY <1>1, <1>2, <1>3 DEF Read

LEMMA ServeType ==
  ASSUME TypeOK, WorkerInv, NEW w \in Workers, Serve(w), ~down PROVE TypeOK'
<1>1. CASE HandedOver(w)
  <2>1. wpc' \in [Workers -> Pcs] /\ UNCHANGED <<queue, buf, asked, answers, nuls, down>>
    BY <1>1 DEF HandedOver, TypeOK, Pcs
  <2> QED BY <1>1, <2>1, LetGoType DEF HandedOver, TypeOK, Pcs
<1>2. CASE Requeue(w)
  <2>1. sock[w] \in Conns /\ [wpc EXCEPT ![w] = "free"] \in [Workers -> Pcs]
    BY <1>2 DEF Requeue, WorkerInv, WorkerOf, TypeOK, Pcs
  <2>2. queue' \in Seq(Conns) /\ wpc' \in [Workers -> Pcs]
    BY <1>2, <2>1, QueueType DEF Requeue
  <2>3. sock' \in [Workers -> Conns \cup {NoConn}]
    BY <1>2 DEF Requeue, DroppedSock, TypeOK
  <2> QED BY <1>2, <2>2, <2>3 DEF Requeue, TypeOK, Pcs
<1>3. CASE ServeAndClose(w) \/ ServeAndKeep(w)
  <2>1. wpc[w] = "serve" /\ uw_send(w) /\ UNCHANGED <<queue, asked>>
    BY <1>3 DEF ServeAndClose, ServeAndKeep
  <2>2. buf[w] \in Seq(Piece) /\ Len(buf[w]) \in Nat /\ buf[w] # <<>>
    BY <2>1, LenProperties DEF TypeOK, WorkerInv, WorkerOf
  <2>3. buf[w][1] \in Piece
    BY <2>2, EmptySeq, ElementOfSeq
  <2>4. answers' \in [Conns -> Seq([conn : Conns, n : Nat])]
    <3> DEFINE a == [conn |-> buf[w][1].conn, n |-> buf[w][1].n]
    <3>1. a \in [conn : Conns, n : Nat]
      BY <2>3 DEF Piece
    <3> HIDE DEF a
    <3>2. ASSUME sock[w] # NoConn
          PROVE  answers' = [answers EXCEPT ![sock[w]] = Append(answers[sock[w]], a)]
      BY <2>1, <3>2 DEF uw_send, a, Request
    <3>3. sock[w] = NoConn => answers' = answers
      BY <2>1 DEF uw_send
    <3>4. ASSUME sock[w] # NoConn PROVE answers' \in [Conns -> Seq([conn : Conns, n : Nat])]
      <4>1. sock[w] \in Conns /\ answers[sock[w]] \in Seq([conn : Conns, n : Nat])
        BY <3>4 DEF TypeOK
      <4>2. Append(answers[sock[w]], a) \in Seq([conn : Conns, n : Nat])
        BY <3>1, <4>1
      <4> QED BY <3>2, <3>4, <4>1, <4>2 DEF TypeOK
    <3> QED BY <3>3, <3>4 DEF TypeOK
  <2>5. CASE ServeAndClose(w)
    <3>1. wpc' \in [Workers -> Pcs] /\ UNCHANGED <<queue, buf, asked, nuls, down>>
          /\ (LetGo(w, "closed") \/ UNCHANGED <<conn, sock, stream>>)
      BY <2>5 DEF ServeAndClose, Close, TypeOK, Pcs
    <3> QED BY <2>4, <3>1, LetGoType DEF TypeOK, Pcs
  <2>6. CASE ServeAndKeep(w)
    <3>1. wpc' \in [Workers -> Pcs] /\ UNCHANGED <<queue, sock, conn, client>> /\ down' \in BOOLEAN
      BY <2>6 DEF ServeAndKeep, TypeOK, Pcs
    <3>2. buf' \in [Workers -> Seq(Piece)] /\ \A v \in Workers : Len(buf'[v]) <= BufMax
      <4> DEFINE u == Used(w)
                 rest == SubSeq(buf[w], u + 1, Len(buf[w]))
      <4>1. u \in Nat
        BY Lengths DEF Used
      <4>2. rest \in Seq(Piece) /\ Len(rest) <= Len(buf[w])
        <5>1. CASE u <= Len(buf[w])
          BY <2>2, <4>1, <5>1, Cut
        <5>2. CASE u > Len(buf[w])
          BY <2>2, <4>1, <5>2, SubSeqProperties, EmptySeq
        <5> QED BY <2>2, <4>1, <5>1, <5>2
      <4>3. buf' = [buf EXCEPT ![w] = rest]
        BY <2>6 DEF ServeAndKeep
      <4> HIDE DEF u, rest
      <4>4. Len(rest) \in Nat /\ BufMax \in Nat /\ Len(buf[w]) <= BufMax
        BY <4>2, LenProperties, BufMaxAssumption DEF TypeOK
      <4>5. Len(rest) <= BufMax
        BY <2>2, <4>2, <4>4
      <4> QED BY <4>2, <4>3, <4>5 DEF TypeOK
    <3>3. nuls' \subseteq [conn : Conns, n : Nat]
      <4>1. \A j \in 1 .. Len(buf[w]) : Request(buf[w][j]) \in [conn : Conns, n : Nat]
        <5>1. \A j \in 1 .. Len(buf[w]) : buf[w][j] \in Piece
          BY <2>2, ElementOfSeq
        <5>2. \A x \in Piece : Request(x) \in [conn : Conns, n : Nat]
          BY DEF Request, Piece
        <5> QED BY <5>1, <5>2
      <4>2. Used(w) \in Nat
        BY Lengths DEF Used
      <4>3. \A j \in Used(w) + 1 .. Len(buf[w]) : j \in 1 .. Len(buf[w])
        BY <2>2, <4>2
      <4>4. Overwritten(w) \subseteq [conn : Conns, n : Nat]
        BY <4>1, <4>3 DEF Overwritten
      <4> QED BY <2>6, <4>4 DEF ServeAndKeep, TypeOK
    <3> QED BY <2>1, <2>4, <3>1, <3>2, <3>3 DEF TypeOK, Pcs
  <2> QED BY <1>3, <2>5, <2>6
<1> QED BY <1>1, <1>2, <1>3 DEF Serve

LEMMA TypeStep == ASSUME TypeOK, WorkerInv, [Next]_vars PROVE TypeOK'
<1>1. ASSUME NEW w \in Workers, uw_dequeue(w) \/ SpuriousWakeup(w) PROVE TypeOK'
  <2>1. <<>> \in Seq(Piece) /\ Len(<<>>) = 0 /\ BufMax \in Nat
    BY EmptySeq, BufMaxAssumption
  <2>2. queue # <<>> => Head(queue) \in Conns /\ Tail(queue) \in Seq(Conns)
    BY HeadTailProperties DEF TypeOK
  <2>3. CASE SpuriousWakeup(w)
    BY <2>3 DEF SpuriousWakeup, TypeOK
  <2>4. CASE uw_dequeue(w)
    <3>1. UNCHANGED <<conn, asked, stream, answers, nuls, down>>
      BY <2>4 DEF uw_dequeue
    <3>2. wpc' \in [Workers -> Pcs]
      BY <2>4 DEF uw_dequeue, TypeOK, Pcs
    <3>3. queue' \in Seq(Conns) /\ sock' \in [Workers -> Conns \cup {NoConn}]
      BY <2>2, <2>4 DEF uw_dequeue, TypeOK
    <3>4. buf' = buf \/ buf' = [buf EXCEPT ![w] = <<>>]
      BY <2>4 DEF uw_dequeue, Emptied
    <3>5. buf' \in [Workers -> Seq(Piece)] /\ \A v \in Workers : Len(buf'[v]) <= BufMax
      <4>1. buf' \in [Workers -> Seq(Piece)]
        BY <2>1, <3>4 DEF TypeOK
      <4>2. \A v \in Workers : buf'[v] = <<>> \/ buf'[v] = buf[v]
        BY <3>4 DEF TypeOK
      <4>3. \A v \in Workers : Len(buf[v]) <= BufMax
        BY DEF TypeOK
      <4>4. 0 <= BufMax
        BY BufMaxAssumption
      <4>5. ASSUME NEW v \in Workers PROVE Len(buf'[v]) <= BufMax
        BY <2>1, <4>2, <4>3, <4>4
      <4> QED BY <4>1, <4>5
    <3> QED BY <3>1, <3>2, <3>3, <3>5 DEF TypeOK, Pcs
  <2> QED BY <1>1, <2>3, <2>4
<1>2. ASSUME NEW c \in Conns, Accept(c) PROVE TypeOK'
  <2>1. queue' \in Seq(Conns) /\ wpc' \in [Workers -> Pcs]
    BY <1>2, QueueType DEF Accept, TypeOK, Pcs
  <2> QED BY <1>2, <2>1 DEF Accept, TypeOK, Pcs
<1>3. ASSUME NEW c \in Conns, NEW kind \in Kinds[c], ClientSends(c, kind) PROVE TypeOK'
  <2>1. kind \in AllKinds
    BY KindsAssumption
  <2>2. asked' \in [Conns -> Seq(AllKinds)]
    BY <1>3, <2>1 DEF ClientSends, TypeOK
  <2>3. stream' \in [Conns -> Seq(Piece)]
    <3> DEFINE len == SentLen(kind)
               req == [k \in 1 .. len |-> [conn |-> c, n |-> Len(asked[c]) + 1,
                                      kind |-> kind, k |-> k]]
    <3>1. len \in Nat /\ Len(asked[c]) \in Nat
      BY Lengths, LenProperties DEF TypeOK
    <3> HIDE DEF len
    <3>2. req \in [1 .. len -> Piece]
      BY <2>1, <3>1 DEF Piece
    <3>3. req \in Seq(Piece)
      BY <3>1, <3>2
    <3>4. stream' = [stream EXCEPT ![c] = stream[c] \o req]
      BY <1>3 DEF ClientSends, len
    <3> HIDE DEF req
    <3> QED BY <3>3, <3>4 DEF TypeOK
  <2> QED BY <1>3, <2>2, <2>3 DEF ClientSends, TypeOK
<1>4. CASE UNCHANGED vars \/ Dead
  BY <1>4 DEF vars, Dead, TypeOK
<1> QED BY <1>1, <1>2, <1>3, <1>4, ReadType, ServeType DEF Next, Step
-----------------------------------------------------------------------------
(* What workers have *)

LEMMA WorkerStep == ASSUME TypeOK, WorkerInv, [Next]_vars PROVE WorkerInv'
<1>1. /\ sock \in [Workers -> Conns \cup {NoConn}] /\ wpc \in [Workers -> Pcs]
      /\ buf \in [Workers -> Seq(Piece)] /\ \A w \in Workers : Len(buf[w]) \in Nat
  BY LenProperties DEF TypeOK, Pcs
\* Nobody else's buffer, connection or request changes; sleepers may be woken.
<1>2. ASSUME NEW w \in Workers, WorkerOf(w)',
             \A v \in Workers : v # w => /\ sock'[v] = sock[v] /\ buf'[v] = buf[v]
                                         /\ \/ wpc'[v] = wpc[v]
                                            \/ wpc[v] = "waiting" /\ wpc'[v] = "woken",
             down => down'
      PROVE  WorkerInv'
  BY <1>2 DEF WorkerInv, WorkerOf, Used, Kind
<1>3. ASSUME NEW w \in Workers, Read(w) PROVE WorkerInv'
  <2>1. CASE ReadHead(w) \/ ReadContent(w)
    <3>1. sock[w] \in Conns /\ Receive(w)
      BY <2>1 DEF ReadHead, ReadContent, WorkerInv, WorkerOf
    <3>2. UNCHANGED <<sock, asked, down>> /\ buf'[w] # <<>>
          /\ \A v \in Workers : v # w => buf'[v] = buf[v]
      BY <3>1, ReceiveType DEF Receive
    <3>3. wpc'[w] \in {"read", "content"} /\ \A v \in Workers : v # w => wpc'[v] = wpc[v]
      BY <1>1, <2>1 DEF ReadHead, ReadContent
    <3>4. WorkerOf(w)'
      BY <3>1, <3>2, <3>3, NoConnAssumption DEF WorkerOf
    <3> QED BY <1>2, <3>2, <3>3, <3>4
  <2>2. CASE RecvFails(w) \/ HeadTooLong(w) \/ Malformed(w)
    <3>1. sock' = [sock EXCEPT ![w] = NoConn] /\ wpc' = [wpc EXCEPT ![w] = "free"]
          /\ UNCHANGED <<buf, asked, down>>
      BY <2>2 DEF RecvFails, HeadTooLong, Malformed, Close, LetGo
    <3>2. WorkerOf(w)'
      BY <1>1, <3>1 DEF WorkerOf
    <3> QED BY <1>1, <1>2, <3>1, <3>2
  <2>3. CASE ContentTooLong(w)
    <3>1. sock' = [sock EXCEPT ![w] = NoConn] /\ wpc' = [wpc EXCEPT ![w] = "serve"]
          /\ UNCHANGED <<buf, asked, down>> /\ wpc[w] = "content" /\ Lacks(w)
      BY <2>3 DEF ContentTooLong, Close, LetGo
    <3>2. Used(w) > Len(buf[w]) /\ buf[w] # <<>>
      BY <1>1, <3>1, Lengths DEF Lacks, Used, WorkerInv, WorkerOf
    <3>3. WorkerOf(w)'
      BY <1>1, <3>1, <3>2 DEF WorkerOf, Used, Kind
    <3> QED BY <1>1, <1>2, <3>1, <3>3
  <2>4. CASE FoundHead(w) \/ GotContent(w)
    <3>1. wpc[w] \in {"read", "content"} /\ wpc'[w] \in {"content", "serve"}
          /\ UNCHANGED <<sock, buf, asked, down>> /\ \A v \in Workers : v # w => wpc'[v] = wpc[v]
      BY <1>1, <2>4 DEF FoundHead, GotContent
    <3>2. buf[w] # <<>>
      <4>1. CASE FoundHead(w)
        <5>1. Len(buf[w]) # 0
          BY <1>1, <4>1 DEF FoundHead, HeadIn
        <5> QED BY <5>1
      <4>2. CASE GotContent(w)
        BY <4>2 DEF GotContent, WorkerInv, WorkerOf
      <4> QED BY <2>4, <4>1, <4>2
    <3>3. sock[w] \in Conns
      BY <3>1 DEF WorkerInv, WorkerOf
    <3>4. WorkerOf(w)'
      BY <3>1, <3>2, <3>3, NoConnAssumption DEF WorkerOf
    <3> QED BY <1>2, <3>1, <3>4
  <2> QED BY <1>3, <2>1, <2>2, <2>3, <2>4 DEF Read
<1>4. ASSUME NEW w \in Workers, Serve(w), ~down PROVE WorkerInv'
  <2>1. CASE HandedOver(w)
    <3>1. sock' = [sock EXCEPT ![w] = NoConn] /\ wpc' = [wpc EXCEPT ![w] = "free"]
          /\ UNCHANGED <<buf, asked, down>>
      BY <2>1 DEF HandedOver, LetGo
    <3>2. WorkerOf(w)'
      BY <1>1, <3>1 DEF WorkerOf
    <3> QED BY <1>1, <1>2, <3>1, <3>2
  <2>2. CASE ServeAndClose(w)
    <3>1. sock'[w] = NoConn /\ wpc' = [wpc EXCEPT ![w] = "free"] /\ UNCHANGED <<buf, asked, down>>
          /\ \A v \in Workers : v # w => sock'[v] = sock[v]
      BY <1>1, <2>2 DEF ServeAndClose, Close, LetGo
    <3>2. WorkerOf(w)'
      BY <1>1, <3>1 DEF WorkerOf
    <3> QED BY <1>1, <1>2, <3>1, <3>2
  <2>3. CASE ServeAndKeep(w)
    <3>1. /\ wpc[w] = "serve" /\ UNCHANGED <<sock, asked>>
          /\ down' = (Used(w) > Len(buf[w]))
          /\ wpc'[w] = IF Used(w) < Len(buf[w]) THEN "read" ELSE "enqueue"
          /\ \A v \in Workers : v # w => wpc'[v] = wpc[v] /\ buf'[v] = buf[v]
      BY <1>1, <2>3 DEF ServeAndKeep
    <3>2. sock[w] \in Conns \/ (Used(w) > Len(buf[w]) /\ sock[w] = NoConn)
      BY <1>1, <3>1 DEF WorkerInv, WorkerOf
    <3>3. Used(w) \in Nat
      BY Lengths DEF Used
    <3>4. CASE sock[w] \in Conns
      <4>1. WorkerOf(w)'
        BY <3>1, <3>4, NoConnAssumption DEF WorkerOf
      <4> QED BY <1>2, <1>4, <3>1, <4>1
    <3>5. CASE Used(w) > Len(buf[w]) /\ sock[w] = NoConn
      <4>1. wpc'[w] = "enqueue" /\ down'
        <5>1. ~(Used(w) < Len(buf[w]))
          BY <1>1, <3>3, <3>5
        <5>2. down'
          BY <3>1, <3>5, Zenon
        <5>3. wpc'[w] = "enqueue"
          BY <3>1, <5>1
        <5> QED BY <5>2, <5>3
      <4>2. WorkerOf(w)'
        BY <4>1 DEF WorkerOf
      <4> QED BY <1>2, <1>4, <3>1, <4>2
    <3> QED BY <3>2, <3>4, <3>5
  <2>4. CASE Requeue(w)
    <3>1. /\ sock' = [sock EXCEPT ![w] = NoConn] /\ UNCHANGED <<buf, asked, down>>
          /\ wpc' = Broadcast([wpc EXCEPT ![w] = "free"])
      BY <2>4 DEF Requeue, DroppedSock, uw_enqueue
    <3>2. wpc'[w] = "free" /\ \A v \in Workers : v # w =>
             wpc'[v] = wpc[v] \/ (wpc[v] = "waiting" /\ wpc'[v] = "woken")
      BY <1>1, <3>1 DEF Broadcast
    <3>3. WorkerOf(w)'
      BY <1>1, <3>1, <3>2 DEF WorkerOf
    <3> QED BY <1>1, <1>2, <3>1, <3>2, <3>3
  <2> QED BY <1>4, <2>1, <2>2, <2>3, <2>4 DEF Serve
<1>5. ASSUME NEW w \in Workers, uw_dequeue(w) \/ SpuriousWakeup(w) PROVE WorkerInv'
  <2>1. queue # <<>> => Head(queue) \in Conns
    BY HeadTailProperties DEF TypeOK
  <2>2. WorkerOf(w)' /\ UNCHANGED <<asked, down>>
        /\ \A v \in Workers : v # w => sock'[v] = sock[v] /\ buf'[v] = buf[v] /\ wpc'[v] = wpc[v]
    <3>1. WorkerOf(w)
      BY DEF WorkerInv
    <3>2. CASE SpuriousWakeup(w)
      BY <1>1, <3>1, <3>2 DEF SpuriousWakeup, WorkerOf
    <3>3. CASE uw_dequeue(w) /\ queue = <<>>
      BY <1>1, <3>1, <3>3 DEF uw_dequeue, WorkerOf
    <3>4. CASE uw_dequeue(w) /\ queue # <<>>
      BY <1>1, <2>1, <3>4 DEF uw_dequeue, WorkerOf
    <3> QED BY <1>5, <3>2, <3>3, <3>4
  <2> QED BY <1>2, <2>2
<1>6. ASSUME NEW c \in Conns, Accept(c) PROVE WorkerInv'
  <2>1. UNCHANGED <<sock, buf, asked, down>> /\ \A v \in Workers :
             wpc'[v] = wpc[v] \/ (wpc[v] = "waiting" /\ wpc'[v] = "woken")
    BY <1>1, <1>6 DEF Accept, uw_enqueue, Broadcast
  <2> QED BY <2>1 DEF WorkerInv, WorkerOf, Used, Kind
<1>7. ASSUME NEW c \in Conns, NEW kind \in Kinds[c], ClientSends(c, kind) PROVE WorkerInv'
  BY <1>7 DEF ClientSends, WorkerInv, WorkerOf, Used, Kind
<1>8. CASE UNCHANGED vars \/ Dead
  BY <1>8 DEF vars, Dead, WorkerInv, WorkerOf, Used, Kind
<1> QED BY <1>3, <1>4, <1>5, <1>6, <1>7, <1>8 DEF Next, Step
-----------------------------------------------------------------------------
(* Where open connections are *)

\* A worker that had a connection, or none, lets it go and nothing else moves.
LEMMA LetGoPlace ==
  ASSUME TypeOK, PlaceInv, NEW w \in Workers, NEW state \in {"handed", "closed"},
         LetGo(w, state), queue' = queue
  PROVE  PlaceInv'
<1>1. /\ sock \in [Workers -> Conns \cup {NoConn}] /\ queue \in Seq(Conns)
      /\ conn \in [Conns -> {"new", "open", "handed", "closed"}]
      /\ \A k \in 1 .. Len(queue) : queue[k] \in Conns
  BY ElementOfSeq DEF TypeOK
<1>2. sock' = [sock EXCEPT ![w] = NoConn] /\ conn' = [conn EXCEPT ![sock[w]] = state]
  BY DEF LetGo
<1>3. /\ sock'[w] = NoConn /\ \A v \in Workers : v # w => sock'[v] = sock[v]
      /\ \A c \in Conns : c # sock[w] => conn'[c] = conn[c]
      /\ \A c \in Conns : c = sock[w] => conn'[c] # "open"
  BY <1>1, <1>2
<1>4. \A k \in 1 .. Len(queue) : conn'[queue[k]] = "open" /\ \A v \in Workers : sock'[v] # queue[k]
  BY <1>1, <1>3, NoConnAssumption DEF PlaceInv
<1>5. \A v \in Workers : sock'[v] # NoConn => conn'[sock'[v]] = "open"
  BY <1>1, <1>3 DEF PlaceInv
<1>6. \A c \in Conns : conn'[c] = "open" => On(queue, c) \/ \E v \in Workers : sock'[v] = c
  BY <1>1, <1>3 DEF PlaceInv
<1>7. \A v, u \in Workers : sock'[v] = sock'[u] /\ sock'[v] # NoConn => v = u
  BY <1>3 DEF PlaceInv
<1> QED BY <1>4, <1>5, <1>6, <1>7 DEF PlaceInv

\* Putting a connection that is not there at the back of the queue.
LEMMA AppendPlace ==
  ASSUME NEW s \in Seq(Conns), NEW c \in Conns, Distinct(s), ~On(s, c)
  PROVE  /\ Distinct(Append(s, c)) /\ On(Append(s, c), c)
         /\ \A d : On(s, d) => On(Append(s, c), d)
         /\ \A k \in 1 .. Len(Append(s, c)) : Append(s, c)[k] = c \/ On(s, Append(s, c)[k])
<1> DEFINE t == Append(s, c)
<1>1. /\ Len(s) \in Nat /\ Len(t) = Len(s) + 1 /\ t[Len(s) + 1] = c
      /\ \A k \in 1 .. Len(s) : t[k] = s[k]
  BY AppendProperties, LenProperties
<1> HIDE DEF t
<1>2. \A k \in 1 .. Len(t) : k = Len(s) + 1 \/ k \in 1 .. Len(s)
  BY <1>1
<1>3. Distinct(t)
  BY <1>1, <1>2 DEF Distinct, On
<1>4. On(t, c)
  <2>1. Len(s) + 1 \in 1 .. Len(t)
    BY <1>1
  <2> QED BY <1>1, <2>1 DEF On
<1>5. \A d : On(s, d) => On(t, d)
  <2>1. \A k \in 1 .. Len(s) : k \in 1 .. Len(t)
    BY <1>1
  <2> QED BY <1>1, <2>1 DEF On
<1>6. \A k \in 1 .. Len(t) : t[k] = c \/ On(s, t[k])
  BY <1>1, <1>2 DEF On
<1> QED BY <1>3, <1>4, <1>5, <1>6 DEF t

LEMMA TailPlace ==
  ASSUME NEW s \in Seq(Conns), s # <<>>, Distinct(s)
  PROVE  /\ Distinct(Tail(s)) /\ ~On(Tail(s), Head(s)) /\ On(s, Head(s)) /\ Head(s) \in Conns
         /\ \A c : On(s, c) => c = Head(s) \/ On(Tail(s), c)
         /\ \A k \in 1 .. Len(Tail(s)) : On(s, Tail(s)[k])
<1>1. /\ Tail(s) \in Seq(Conns) /\ Len(Tail(s)) = Len(s) - 1 /\ Len(s) \in Nat \ {0}
      /\ \A k \in 1 .. Len(Tail(s)) : Tail(s)[k] = s[k + 1]
  BY HeadTailProperties, EmptySeq
<1>2. Head(s) = s[1] /\ 1 \in 1 .. Len(s) /\ Head(s) \in Conns
  BY <1>1, HeadTailProperties
<1>3. \A k \in 1 .. Len(Tail(s)) : k + 1 \in 1 .. Len(s)
  BY <1>1
<1>4. Distinct(Tail(s))
  <2> SUFFICES ASSUME NEW j \in 1 .. Len(Tail(s)), NEW k \in 1 .. Len(Tail(s)),
                      Tail(s)[j] = Tail(s)[k]
               PROVE  j = k
    BY DEF Distinct
  <2>1. j + 1 = k + 1
    BY <1>1, <1>3 DEF Distinct
  <2> QED BY <2>1
<1>5. ~On(Tail(s), Head(s))
  <2> SUFFICES ASSUME NEW k \in 1 .. Len(Tail(s)), Tail(s)[k] = Head(s) PROVE FALSE
    BY DEF On
  <2>1. k + 1 = 1
    BY <1>1, <1>2, <1>3 DEF Distinct
  <2> QED BY <2>1
<1>6. ASSUME NEW c, On(s, c) PROVE c = Head(s) \/ On(Tail(s), c)
  <2>1. PICK k \in 1 .. Len(s) : s[k] = c
    BY <1>6 DEF On
  <2>2. CASE k = 1
    BY <1>2, <2>1, <2>2
  <2>3. CASE k # 1
    <3>1. k - 1 \in 1 .. Len(Tail(s)) /\ Tail(s)[k - 1] = s[k]
      BY <1>1, <2>3
    <3> QED BY <2>1, <3>1 DEF On
  <2> QED BY <2>2, <2>3
<1>7. On(s, Head(s)) /\ \A k \in 1 .. Len(Tail(s)) : On(s, Tail(s)[k])
  BY <1>1, <1>2, <1>3 DEF On
<1> QED BY <1>2, <1>4, <1>5, <1>6, <1>7

LEMMA PlaceStep == ASSUME IInv, [Next]_vars PROVE PlaceInv'
<1> USE DEF IInv
<1>1. /\ sock \in [Workers -> Conns \cup {NoConn}] /\ queue \in Seq(Conns)
      /\ conn \in [Conns -> {"new", "open", "handed", "closed"}]
      /\ \A k \in 1 .. Len(queue) : queue[k] \in Conns
  BY ElementOfSeq DEF TypeOK
<1>2. ASSUME UNCHANGED <<queue, sock, conn>> PROVE PlaceInv'
  BY <1>2 DEF PlaceInv, On, Distinct
<1>3. ASSUME NEW w \in Workers, uw_dequeue(w), queue # <<>> PROVE PlaceInv'
  <2> DEFINE c == Head(queue)
  <2>1. queue' = Tail(queue) /\ sock' = [sock EXCEPT ![w] = c] /\ conn' = conn
    BY <1>3 DEF uw_dequeue
  <2>2. /\ Distinct(queue') /\ ~On(queue', c) /\ On(queue, c) /\ c \in Conns
        /\ \A d : On(queue, d) => d = c \/ On(queue', d)
        /\ \A k \in 1 .. Len(queue') : On(queue, queue'[k])
    BY <1>1, <1>3, <2>1, TailPlace DEF PlaceInv
  <2>3. sock[w] = NoConn
    BY <1>3 DEF uw_dequeue, WorkerInv, WorkerOf
  <2> HIDE DEF c
  <2>4. sock'[w] = c /\ \A v \in Workers : v # w => sock'[v] = sock[v] /\ sock[v] # c
    BY <1>1, <2>1, <2>2 DEF PlaceInv, On
  <2>5. conn[c] = "open"
    BY <2>2 DEF PlaceInv, On
  <2>6. \A k \in 1 .. Len(queue') : conn[queue'[k]] = "open" /\ \A v \in Workers : sock'[v] # queue'[k]
    BY <2>2, <2>4 DEF PlaceInv, On
  <2>7. \A d \in Conns : conn[d] = "open" => On(queue', d) \/ \E v \in Workers : sock'[v] = d
    <3> SUFFICES ASSUME NEW d \in Conns, conn[d] = "open", ~On(queue', d)
                 PROVE  \E v \in Workers : sock'[v] = d
      OBVIOUS
    <3>1. CASE d = c
      BY <2>4, <3>1
    <3>2. CASE d # c
      <4>1. PICK v \in Workers : sock[v] = d
        BY <2>2, <3>2 DEF PlaceInv
      <4>2. v # w
        BY <2>3, <4>1, NoConnAssumption
      <4> QED BY <2>4, <4>1, <4>2
    <3> QED BY <3>1, <3>2
  <2> QED BY <2>1, <2>2, <2>4, <2>5, <2>6, <2>7 DEF PlaceInv
<1>4. ASSUME NEW c \in Conns, ~On(queue, c), queue' = Append(queue, c),
             \/ /\ conn[c] # "open" /\ sock' = sock /\ conn' = [conn EXCEPT ![c] = "open"]
             \/ /\ conn' = conn
                /\ \E w \in Workers : sock[w] = c /\ sock' = [sock EXCEPT ![w] = NoConn]
      PROVE  PlaceInv'
  <2>1. /\ Distinct(queue') /\ On(queue', c) /\ \A d : On(queue, d) => On(queue', d)
        /\ \A k \in 1 .. Len(queue') : queue'[k] = c \/ On(queue, queue'[k])
    BY <1>1, <1>4, AppendPlace DEF PlaceInv
  <2>2. /\ \A v \in Workers : sock'[v] = sock[v] \/ sock'[v] = NoConn
        /\ \A v \in Workers : sock'[v] # c
        /\ \A d \in Conns : d # c => conn'[d] = conn[d]
        /\ conn'[c] = "open"
        /\ \A v \in Workers : sock[v] # c => sock'[v] = sock[v]
    <3>1. CASE conn[c] # "open" /\ sock' = sock /\ conn' = [conn EXCEPT ![c] = "open"]
      BY <1>1, <3>1, NoConnAssumption DEF PlaceInv
    <3>2. CASE conn' = conn /\ \E w \in Workers : sock[w] = c /\ sock' = [sock EXCEPT ![w] = NoConn]
      BY <1>1, <3>2, NoConnAssumption DEF PlaceInv
    <3> QED BY <1>4, <3>1, <3>2
  <2>3. \A k \in 1 .. Len(queue') : conn'[queue'[k]] = "open" /\ \A v \in Workers : sock'[v] # queue'[k]
    <3> SUFFICES ASSUME NEW k \in 1 .. Len(queue')
                 PROVE  conn'[queue'[k]] = "open" /\ \A v \in Workers : sock'[v] # queue'[k]
      OBVIOUS
    <3>1. CASE queue'[k] = c
      BY <2>2, <3>1
    <3>2. CASE On(queue, queue'[k]) /\ queue'[k] # c
      <4>1. queue'[k] \in Conns /\ conn[queue'[k]] = "open" /\ \A v \in Workers : sock[v] # queue'[k]
        BY <1>1, <3>2 DEF PlaceInv, On
      <4> QED BY <2>2, <3>2, <4>1, NoConnAssumption
    <3> QED BY <2>1, <3>1, <3>2
  <2>4. \A v \in Workers : sock'[v] # NoConn => conn'[sock'[v]] = "open"
    BY <1>1, <2>2 DEF PlaceInv
  <2>5. \A v, u \in Workers : sock'[v] = sock'[u] /\ sock'[v] # NoConn => v = u
    BY <2>2 DEF PlaceInv
  <2>6. \A d \in Conns : conn'[d] = "open" => On(queue', d) \/ \E v \in Workers : sock'[v] = d
    <3> SUFFICES ASSUME NEW d \in Conns, d # c, conn'[d] = "open", ~On(queue', d)
                 PROVE  \E v \in Workers : sock'[v] = d
      BY <2>1
    <3>1. PICK v \in Workers : sock[v] = d
      BY <2>1, <2>2 DEF PlaceInv
    <3> QED BY <2>2, <3>1
  <2> QED BY <2>1, <2>3, <2>4, <2>5, <2>6 DEF PlaceInv
<1>5. ASSUME NEW w \in Workers, Requeue(w), ~down PROVE PlaceInv'
  <2>1. sock[w] \in Conns /\ ~On(queue, sock[w])
    BY <1>5 DEF Requeue, WorkerInv, WorkerOf, PlaceInv, On
  <2>2. queue' = Append(queue, sock[w]) /\ conn' = conn /\ sock' = [sock EXCEPT ![w] = NoConn]
    BY <1>5 DEF Requeue, uw_enqueue, DroppedSock
  <2> QED BY <1>4, <2>1, <2>2
<1>6. ASSUME NEW c \in Conns, Accept(c) PROVE PlaceInv'
  <2>1. conn[c] = "new" /\ ~On(queue, c)
    BY <1>6 DEF Accept, PlaceInv, On
  <2>2. queue' = Append(queue, c) /\ conn' = [conn EXCEPT ![c] = "open"] /\ sock' = sock
    BY <1>6 DEF Accept, uw_enqueue
  <2> QED BY <1>4, <2>1, <2>2
<1>7. ASSUME NEW w \in Workers, Read(w) PROVE PlaceInv'
  <2>1. CASE RecvFails(w) \/ HeadTooLong(w) \/ ContentTooLong(w) \/ Malformed(w)
    <3>1. LetGo(w, "closed") /\ queue' = queue
      BY <2>1 DEF RecvFails, HeadTooLong, ContentTooLong, Malformed, Close
    <3> QED BY <3>1, LetGoPlace
  <2>2. CASE ReadHead(w) \/ ReadContent(w) \/ FoundHead(w) \/ GotContent(w)
    BY <1>2, <2>2 DEF ReadHead, ReadContent, FoundHead, GotContent, Receive
  <2> QED BY <1>7, <2>1, <2>2 DEF Read
<1>8. ASSUME NEW w \in Workers, HandedOver(w) \/ ServeAndClose(w) \/ ServeAndKeep(w)
      PROVE  PlaceInv'
  <2>1. CASE HandedOver(w)
    BY <2>1, LetGoPlace DEF HandedOver
  <2>2. CASE ServeAndClose(w) /\ sock[w] # NoConn
    <3>1. LetGo(w, "closed") /\ queue' = queue
      BY <2>2 DEF ServeAndClose, Close
    <3> QED BY <3>1, LetGoPlace
  <2>3. CASE ServeAndKeep(w) \/ (ServeAndClose(w) /\ sock[w] = NoConn)
    BY <1>2, <2>3 DEF ServeAndKeep, ServeAndClose
  <2> QED BY <1>8, <2>1, <2>2, <2>3
<1>9. ASSUME NEW w \in Workers, SpuriousWakeup(w) \/ (uw_dequeue(w) /\ queue = <<>>)
      PROVE  PlaceInv'
  BY <1>2, <1>9 DEF SpuriousWakeup, uw_dequeue
<1>10. CASE (\E c \in Conns, kind \in AllKinds : ClientSends(c, kind)) \/ Dead \/ UNCHANGED vars
  BY <1>2, <1>10 DEF ClientSends, Dead, vars
<1>11. \A c \in Conns : Kinds[c] \subseteq AllKinds
  BY KindsAssumption
<1> QED BY <1>3, <1>5, <1>6, <1>7, <1>8, <1>9, <1>10, <1>11 DEF Next, Step, Serve
LEMMA InvInit == ASSUME Init PROVE IInv
<1>1. <<>> \in Seq(Piece) /\ <<>> \in Seq(Conns) /\ <<>> \in Seq(AllKinds)
      /\ <<>> \in Seq([conn : Conns, n : Nat]) /\ Len(<<>>) = 0
  BY EmptySeq
<1>2. \A w \in Workers : Len(buf[w]) <= BufMax
  BY <1>1, BufMaxAssumption DEF Init
<1>3. TypeOK
  BY <1>1, <1>2 DEF Init, TypeOK
<1>4. WorkerInv
  BY DEF Init, WorkerInv, WorkerOf
<1>5. PlaceInv
  BY <1>1 DEF Init, PlaceInv, Distinct, On
<1> QED BY <1>3, <1>4, <1>5 DEF IInv

\* Nobody uses a connection that is not open, and an open one has one place.
THEOREM Invariant == Spec => []IInv
<1>1. Init => IInv
  BY InvInit
<1>2. IInv /\ [Next]_vars => IInv'
  BY TypeStep, WorkerStep, PlaceStep DEF IInv
<1> QED BY <1>1, <1>2, PTL DEF Spec

\* Type correctness: above all, no worker's buffer ever overflows, whatever pieces
\* recv returns (the reading loop of worker).
THEOREM TypeCorrect == Spec => []TypeOK
<1>1. IInv => TypeOK
  BY DEF IInv
<1> QED BY <1>1, Invariant, PTL
-----------------------------------------------------------------------------
(* The properties of the runs *)

LEMMA OneElement ==
  ASSUME NEW S, NEW x \in S, \A y \in S : y = x PROVE Cardinality(S) = 1
<1>1. S = {x}
  OBVIOUS
<1> QED BY <1>1, FS_Singleton

LEMMA NoElement == ASSUME NEW S, \A y : y \notin S PROVE Cardinality(S) = 0
<1>1. S = {}
  OBVIOUS
<1> QED BY <1>1, FS_EmptySet

\* No two threads ever work on one socket and no open one is forgotten, however
\* the queue, keep-alive and failing reads take turns (uw_enqueue, uw_dequeue and
\* worker).
THEOREM SingleOwnerSafe == Spec => []SingleOwner
<1>1. ASSUME IInv PROVE SingleOwner
  <2> SUFFICES ASSUME NEW c \in Conns
               PROVE  Cardinality({k \in 1 .. Len(queue) : queue[k] = c})
                        + Cardinality({w \in Workers : sock[w] = c})
                          = IF conn[c] = "open" THEN 1 ELSE 0
    BY DEF SingleOwner
  <2> DEFINE places == {k \in 1 .. Len(queue) : queue[k] = c}
             owners == {w \in Workers : sock[w] = c}
  <2>1. c # NoConn /\ PlaceInv
    BY <1>1, NoConnAssumption DEF IInv
  <2>2. CASE conn[c] # "open"
    <3>1. \A k : k \notin places
      BY <2>1, <2>2 DEF PlaceInv
    <3>2. \A w : w \notin owners
      BY <2>1, <2>2 DEF PlaceInv
    <3>3. Cardinality(places) = 0 /\ Cardinality(owners) = 0
      BY <3>1, <3>2, NoElement
    <3> QED BY <2>2, <3>3
  <2>3. CASE conn[c] = "open" /\ On(queue, c)
    <3>1. PICK k \in places : TRUE
      BY <2>3 DEF On
    <3>2. \A j \in places : j = k
      BY <2>1, <3>1 DEF PlaceInv, Distinct
    <3>3. \A w : w \notin owners
      BY <2>1, <3>1 DEF PlaceInv
    <3>4. Cardinality(places) = 1
      BY <3>1, <3>2, OneElement
    <3>5. Cardinality(owners) = 0
      BY <3>3, NoElement
    <3> QED BY <2>3, <3>4, <3>5
  <2>4. CASE conn[c] = "open" /\ ~On(queue, c)
    <3>1. PICK w \in owners : TRUE
      BY <2>1, <2>4 DEF PlaceInv
    <3>2. \A v \in owners : v = w
      BY <2>1, <3>1 DEF PlaceInv
    <3>3. \A k : k \notin places
      BY <2>4 DEF On
    <3>4. Cardinality(owners) = 1
      BY <3>1, <3>2, OneElement
    <3>5. Cardinality(places) = 0
      BY <3>3, NoElement
    <3> QED BY <2>4, <3>4, <3>5
  <2> QED BY <2>2, <2>3, <2>4
<1> QED BY <1>1, Invariant, PTL

LEMMA WakeupStep ==
  ASSUME Workers # {}, TypeOK, NoLostWakeup, [Next]_vars PROVE NoLostWakeup'
<1>1. wpc \in [Workers -> Pcs] /\ \E w \in Workers : TRUE
  BY DEF TypeOK, Pcs
<1>2. ASSUME NEW w \in Workers, wpc'[w] # "waiting" PROVE NoLostWakeup'
  BY <1>2 DEF NoLostWakeup
<1>3. ASSUME NEW w \in Workers, Read(w) PROVE NoLostWakeup'
  <2>1. wpc'[w] \in {"free", "read", "content", "serve"}
    BY <1>1, <1>3 DEF Read, RecvFails, ReadHead, FoundHead, HeadTooLong, ReadContent,
                      ContentTooLong, GotContent, Malformed
  <2> QED BY <1>2, <2>1
<1>4. ASSUME NEW w \in Workers, HandedOver(w) \/ ServeAndClose(w) \/ ServeAndKeep(w)
      PROVE  NoLostWakeup'
  <2>1. wpc'[w] \in {"free", "read", "enqueue"}
    BY <1>1, <1>4 DEF HandedOver, ServeAndClose, ServeAndKeep
  <2> QED BY <1>2, <2>1
\* Whoever puts a connection on the queue wakes all that sleep.
<1>5. ASSUME NEW c, NEW pcs, uw_enqueue(c, pcs) PROVE NoLostWakeup'
  <2>1. PICK w \in Workers : TRUE
    BY <1>1
  <2>2. wpc'[w] # "waiting"
    BY <1>5 DEF uw_enqueue, Broadcast
  <2> QED BY <1>2, <2>2
<1>6. ASSUME NEW w \in Workers, Requeue(w) PROVE NoLostWakeup'
  BY <1>5, <1>6 DEF Requeue
<1>7. ASSUME NEW c \in Conns, Accept(c) PROVE NoLostWakeup'
  BY <1>5, <1>7 DEF Accept
<1>8. ASSUME NEW w \in Workers, uw_dequeue(w) PROVE NoLostWakeup'
  <2>1. queue' = <<>> \/ wpc'[w] = "read"
    BY <1>1, <1>8 DEF uw_dequeue
  <2>2. CASE queue' = <<>>
    BY <2>2 DEF NoLostWakeup
  <2> QED BY <1>2, <2>1, <2>2
<1>9. ASSUME NEW w \in Workers, SpuriousWakeup(w) PROVE NoLostWakeup'
  BY <1>1, <1>2, <1>9 DEF SpuriousWakeup
<1>10. CASE (\E c \in Conns : \E kind \in Kinds[c] : ClientSends(c, kind)) \/ Dead \/ UNCHANGED vars
  BY <1>10 DEF ClientSends, Dead, vars, NoLostWakeup
<1> QED BY <1>3, <1>4, <1>6, <1>7, <1>8, <1>9, <1>10 DEF Next, Step, Serve

\* With at least one worker, a connection on the queue never finds all of them
\* asleep on queue_cond (uw_enqueue broadcasts under the mutex that uw_dequeue
\* holds from its look at the queue until it sleeps).
THEOREM WakeupsKept == ASSUME Workers # {} PROVE Spec => []NoLostWakeup
<1>1. Init => NoLostWakeup
  BY DEF Init, NoLostWakeup
<1>2. TypeOK /\ NoLostWakeup /\ [Next]_vars => NoLostWakeup'
  BY WakeupStep
<1> QED BY <1>1, <1>2, TypeCorrect, PTL DEF Spec
-----------------------------------------------------------------------------
(* Answers in order *)

\* Where the request that piece i of p belongs to ends.
EndOf(p, i) == i + SentLen(p[i].kind) - p[i].k

\* From piece i on, p has the rest of a request, whole and in order, and what
\* follows is the beginning of the next one.
Run(p, i) ==
  /\ EndOf(p, i) \in i .. Len(p)
  /\ \A j \in i .. EndOf(p, i) :
       p[j].n = p[i].n /\ p[j].kind = p[i].kind /\ p[j].k = p[i].k + j - i
  /\ EndOf(p, i) < Len(p) => p[EndOf(p, i) + 1].n = p[i].n + 1 /\ p[EndOf(p, i) + 1].k = 1

\* On connection c requests of the kinds q were sent, the first a of them have been
\* answered, and p is what was sent of the others.
Line(p, c, q, a) ==
  /\ \A i \in 1 .. Len(p) :
       p[i].conn = c /\ p[i].n \in 1 .. Len(q) /\ p[i].kind = q[p[i].n] /\ Run(p, i)
  /\ p = <<>> => Len(q) = a
  /\ p # <<>> => p[1].n = a + 1 /\ p[1].k = 1 /\ p[Len(p)].n = Len(q)
  /\ \A m \in 1 .. Len(q) - 1 : q[m] # "cut"

\* What a client has sent on a connection in use is in its worker's buffer and then
\* in the stream.
LineOf(c) == conn[c] \in {"new", "open"} =>
  /\ \A w \in Workers : sock[w] = c => Line(buf[w] \o stream[c], c, asked[c], Len(answers[c]))
  /\ (\A w \in Workers : sock[w] # c) => Line(stream[c], c, asked[c], Len(answers[c]))

\* A worker that serves a request has all of it, and one that puts its connection
\* back leaves nothing in the buffer.
ReadyOf(w) == sock[w] # NoConn =>
  /\ wpc[w] = "serve" => Used(w) <= Len(buf[w])
  /\ wpc[w] = "enqueue" => buf[w] = <<>>

LineInv == AnswersInOrder /\ (\A c \in Conns : LineOf(c)) /\ \A w \in Workers : ReadyOf(w)

\* What is left behind the first k pieces.
LEMMA Rest ==
  ASSUME NEW s \in Seq(Piece), NEW k \in Nat, k <= Len(s)
  PROVE  /\ SubSeq(s, k + 1, Len(s)) \in Seq(Piece)
         /\ Len(SubSeq(s, k + 1, Len(s))) = Len(s) - k
         /\ \A i \in 1 .. Len(s) - k : SubSeq(s, k + 1, Len(s))[i] = s[k + i]
<1> DEFINE r == SubSeq(s, k + 1, Len(s))
<1>1. Len(s) \in Nat /\ \A i \in 1 .. Len(s) : s[i] \in Piece
  BY LenProperties, ElementOfSeq
<1>2. r \in Seq(Piece) /\ Len(r) = Len(s) - k
  BY Cut
<1>3. \A i \in 1 .. Len(s) - (k + 1) + 1 : r[i] = s[k + 1 + i - 1]
  BY <1>1, SubSeqProperties
<1> HIDE DEF r
<1>4. Len(s) - (k + 1) + 1 = Len(s) - k /\ \A i \in 1 .. Len(s) - k : k + 1 + i - 1 = k + i
  BY <1>1
<1>5. \A i \in 1 .. Len(s) - k : r[i] = s[k + i]
  BY <1>3, <1>4
<1> QED BY <1>2, <1>5 DEF r

\* A request as it is sent.
LEMMA RequestType ==
  ASSUME NEW c \in Conns, NEW n \in Nat, NEW kind \in AllKinds
  PROVE  LET req == [k \in 1 .. SentLen(kind) |->
                      [conn |-> c, n |-> n, kind |-> kind, k |-> k]]
         IN  req \in Seq(Piece) /\ Len(req) = SentLen(kind)
<1> DEFINE s == SentLen(kind)
           req == [k \in 1 .. s |-> [conn |-> c, n |-> n, kind |-> kind, k |-> k]]
<1>1. s \in Nat
  BY Lengths
<1> HIDE DEF s
<1>2. req \in [1 .. s -> Piece]
  BY <1>1 DEF Piece
<1>3. req \in Seq(Piece) /\ Len(req) = s
  BY <1>1, <1>2
<1> QED BY <1>3 DEF s

\* A client sends one more request, whole.
LEMMA LineGrows ==
  ASSUME NEW c \in Conns, NEW q \in Seq(AllKinds), NEW a \in Nat, NEW p \in Seq(Piece),
         NEW kind \in AllKinds, Line(p, c, q, a), q # <<>> => q[Len(q)] # "cut"
  PROVE  Line(p \o [k \in 1 .. SentLen(kind) |->
                      [conn |-> c, n |-> Len(q) + 1, kind |-> kind, k |-> k]],
              c, Append(q, kind), a)
<1> DEFINE s == SentLen(kind)
           req == [k \in 1 .. s |-> [conn |-> c, n |-> Len(q) + 1, kind |-> kind, k |-> k]]
           r == p \o req
           q1 == Append(q, kind)
<1>1. s \in Nat \ {0} /\ Len(q) \in Nat /\ Len(p) \in Nat /\ \A x : SentLen(x) \in Nat
  BY Lengths, LenProperties DEF SentLen
<1> HIDE DEF s
<1>2. req \in Seq(Piece) /\ Len(req) = s
  <2>1. Len(q) + 1 \in Nat
    BY <1>1
  <2> QED BY <2>1, RequestType DEF s
<1>3. \A k \in 1 .. s : /\ req[k].conn = c /\ req[k].n = Len(q) + 1
                        /\ req[k].kind = kind /\ req[k].k = k
  OBVIOUS
<1> HIDE DEF req
<1>4. /\ r \in Seq(Piece) /\ Len(r) = Len(p) + s
      /\ \A i \in 1 .. Len(p) : r[i] = p[i]
      /\ \A k \in 1 .. s : r[Len(p) + k] = req[k]
  <2>1. /\ r \in Seq(Piece) /\ Len(r) = Len(p) + s
        /\ \A i \in 1 .. Len(p) + s : r[i] = IF i <= Len(p) THEN p[i] ELSE req[i - Len(p)]
    BY <1>2, ConcatProperties
  <2> HIDE DEF r
  <2>2. \A i \in 1 .. Len(p) : r[i] = p[i]
    BY <1>1, <2>1
  <2>3. ASSUME NEW k \in 1 .. s PROVE r[Len(p) + k] = req[k]
    <3>1. Len(p) + k \in 1 .. Len(p) + s /\ ~(Len(p) + k <= Len(p)) /\ Len(p) + k - Len(p) = k
      BY <1>1
    <3> QED BY <2>1, <3>1
  <2> QED BY <2>1, <2>2, <2>3
<1>5. /\ q1 \in Seq(AllKinds) /\ Len(q1) = Len(q) + 1 /\ q1[Len(q) + 1] = kind
      /\ \A m \in 1 .. Len(q) : q1[m] = q[m]
  BY AppendProperties
<1>6. \A k \in 1 .. s : /\ r[Len(p) + k].conn = c /\ r[Len(p) + k].n = Len(q) + 1
                        /\ r[Len(p) + k].kind = kind /\ r[Len(p) + k].k = k
  <2> HIDE DEF r
  <2> HIDE DEF q1
  <2>1. \A k \in 1 .. s : r[Len(p) + k] = req[k]
    BY <1>4
  <2> QED BY <1>3, <2>1
<1> HIDE DEF r, q1
<1>7. \A i \in 1 .. Len(p) : p[i].n \in Nat /\ p[i].k \in Nat
  <2>1. \A i \in 1 .. Len(p) : p[i] \in Piece
    BY ElementOfSeq
  <2> QED BY <2>1 DEF Piece
<1>8. ASSUME NEW i \in 1 .. Len(p)
      PROVE  r[i].conn = c /\ r[i].n \in 1 .. Len(q1) /\ r[i].kind = q1[r[i].n] /\ Run(r, i)
  <2> DEFINE e == EndOf(p, i)
  <2>1. p[i].conn = c /\ p[i].n \in 1 .. Len(q) /\ p[i].kind = q[p[i].n] /\ Run(p, i)
    BY DEF Line
  <2>2. e = EndOf(r, i) /\ r[i] = p[i]
    BY <1>4 DEF EndOf
  <2>3. /\ e \in i .. Len(p)
        /\ \A j \in i .. e : p[j].n = p[i].n /\ p[j].kind = p[i].kind /\ p[j].k = p[i].k + j - i
        /\ e < Len(p) => p[e + 1].n = p[i].n + 1 /\ p[e + 1].k = 1
    BY <2>1 DEF Run
  <2> HIDE DEF e
  <2>4. e \in i .. Len(r) /\ \A j \in i .. e : j \in 1 .. Len(p) /\ r[j] = p[j]
    BY <1>1, <1>4, <2>3
  <2>5. r[e + 1].n = r[i].n + 1 /\ r[e + 1].k = 1
    <3>1. CASE e < Len(p)
      <4>1. e + 1 \in 1 .. Len(p)
        BY <1>1, <2>3, <3>1
      <4>2. r[e + 1] = p[e + 1]
        BY <1>4, <4>1
      <4> QED BY <2>2, <2>3, <3>1, <4>2
    <3>2. CASE e = Len(p)
      <4>1. p[Len(p)].n = p[i].n
        BY <1>1, <2>3, <3>2
      <4>2. p # <<>>
        BY <1>1, EmptySeq
      <4>3. p[i].n = Len(q)
        BY <4>1, <4>2 DEF Line
      <4>4. r[e + 1].n = Len(q) + 1 /\ r[e + 1].k = 1
        BY <1>1, <1>6, <3>2
      <4> QED BY <2>2, <4>3, <4>4
    <3> QED BY <1>1, <2>3, <3>1, <3>2
  <2>6. Run(r, i)
    BY <2>2, <2>3, <2>4, <2>5 DEF Run
  <2>7. r[i].n \in 1 .. Len(q1) /\ r[i].kind = q1[r[i].n]
    BY <1>1, <1>5, <2>1, <2>2
  <2> QED BY <2>1, <2>2, <2>6, <2>7
<1>9. ASSUME NEW k \in 1 .. s
      PROVE  LET i == Len(p) + k
             IN  r[i].conn = c /\ r[i].n \in 1 .. Len(q1) /\ r[i].kind = q1[r[i].n] /\ Run(r, i)
  <2> DEFINE i == Len(p) + k
  <2>1. /\ r[i].conn = c /\ r[i].n = Len(q) + 1 /\ r[i].kind = kind /\ r[i].k = k
    BY <1>6
  <2>2. EndOf(r, i) = Len(r)
    BY <1>1, <1>4, <2>1 DEF EndOf, s
  <2>3. ASSUME NEW j \in i .. Len(r)
        PROVE  r[j].n = r[i].n /\ r[j].kind = r[i].kind /\ r[j].k = r[i].k + j - i
    <3>1. j - Len(p) \in 1 .. s /\ Len(p) + (j - Len(p)) = j
      BY <1>1, <1>4
    <3>2. /\ r[j].n = Len(q) + 1 /\ r[j].kind = kind /\ r[j].k = j - Len(p)
      BY <1>6, <3>1
    <3>3. j - Len(p) = k + j - i
      BY <1>1, <3>1
    <3> QED BY <2>1, <3>2, <3>3
  <2>4. Len(r) \in i .. Len(r)
    BY <1>1, <1>4
  <2> HIDE DEF i
  <2>5. Run(r, i)
    BY <1>1, <1>4, <2>2, <2>3, <2>4 DEF Run
  <2>6. r[i].n \in 1 .. Len(q1) /\ r[i].kind = q1[r[i].n]
    BY <1>1, <1>5, <2>1
  <2> QED BY <2>1, <2>5, <2>6 DEF i
<1>10. \A i \in 1 .. Len(r) :
         r[i].conn = c /\ r[i].n \in 1 .. Len(q1) /\ r[i].kind = q1[r[i].n] /\ Run(r, i)
  <2> SUFFICES ASSUME NEW i \in 1 .. Len(r), i \notin 1 .. Len(p)
               PROVE  r[i].conn = c /\ r[i].n \in 1 .. Len(q1) /\ r[i].kind = q1[r[i].n] /\ Run(r, i)
    BY <1>8
  <2>1. i - Len(p) \in 1 .. s /\ Len(p) + (i - Len(p)) = i
    BY <1>1, <1>4
  <2> QED BY <1>9, <2>1
<1>11. r # <<>> /\ r[Len(r)].n = Len(q1)
  <2>1. Len(r) # 0 /\ s \in 1 .. s
    BY <1>1, <1>4
  <2>2. r[Len(p) + s].n = Len(q) + 1
    BY <1>6, <2>1
  <2> QED BY <1>4, <1>5, <2>1, <2>2, EmptySeq
<1>12. r[1].n = a + 1 /\ r[1].k = 1
  <2>1. CASE p = <<>>
    <3>1. Len(p) = 0 /\ Len(q) = a /\ 1 \in 1 .. s
      BY <1>1, <2>1, EmptySeq DEF Line
    <3>2. r[Len(p) + 1].n = Len(q) + 1 /\ r[Len(p) + 1].k = 1
      BY <1>6, <3>1
    <3> QED BY <3>1, <3>2
  <2>2. CASE p # <<>>
    <3>1. 1 \in 1 .. Len(p)
      BY <1>1, <2>2, EmptySeq
    <3> QED BY <1>4, <2>2, <3>1 DEF Line
  <2> QED BY <2>1, <2>2
<1>13. ASSUME NEW m \in 1 .. Len(q1) - 1 PROVE q1[m] # "cut"
  <2>1. m \in 1 .. Len(q) /\ q1[m] = q[m]
    BY <1>1, <1>5
  <2>2. CASE m = Len(q)
    BY <1>1, <2>1, <2>2, EmptySeq
  <2>3. CASE m # Len(q)
    <3>1. m \in 1 .. Len(q) - 1
      BY <1>1, <2>1, <2>3
    <3> QED BY <2>1, <3>1 DEF Line
  <2> QED BY <2>2, <2>3
<1>14. Line(r, c, q1, a)
  BY <1>10, <1>11, <1>12, <1>13 DEF Line
<1> QED BY <1>14 DEF r, req, s, q1

\* The first request is answered: what was sent of it is dropped.
LEMMA LineServed ==
  ASSUME NEW c \in Conns, NEW q \in Seq(AllKinds), NEW a \in Nat, NEW p \in Seq(Piece),
         NEW u \in Nat, u = HeadLen(p[1].kind) + BodyLen(p[1].kind), u <= Len(p),
         p # <<>>, Line(p, c, q, a)
  PROVE  Line(SubSeq(p, u + 1, Len(p)), c, q, a + 1)
<1> DEFINE r == SubSeq(p, u + 1, Len(p))
<1>1. Len(q) \in Nat /\ Len(p) \in Nat \ {0} /\ \A x : SentLen(x) \in Nat
  BY Lengths, LenProperties, EmptySeq
<1>2. \A i \in 1 .. Len(p) : p[i].n \in Nat /\ p[i].k \in Nat
  <2>1. \A i \in 1 .. Len(p) : p[i] \in Piece
    BY ElementOfSeq
  <2> QED BY <2>1 DEF Piece
<1>3. /\ p[1].n = a + 1 /\ p[1].k = 1 /\ p[Len(p)].n = Len(q)
      /\ p[1].n \in 1 .. Len(q) /\ p[1].kind = q[p[1].n] /\ Run(p, 1)
  BY <1>1 DEF Line
<1>4. p[1].kind # "cut"
  <2> SUFFICES ASSUME p[1].kind = "cut" PROVE FALSE
    OBVIOUS
  <2>1. u = 2 /\ EndOf(p, 1) = 1
    BY <1>3 DEF EndOf, SentLen, HeadLen, BodyLen
  <2>2. 2 \in 1 .. Len(p) /\ p[2].n = a + 2
    BY <1>3, <2>1 DEF Run
  <2>3. a + 2 \in 1 .. Len(q)
    BY <2>2 DEF Line
  <2>4. a + 1 \in 1 .. Len(q) - 1
    BY <1>1, <2>3
  <2> QED BY <1>3, <2>4 DEF Line
<1>5. EndOf(p, 1) = u
  BY <1>1, <1>3, <1>4 DEF EndOf, SentLen
<1>6. /\ u \in 1 .. Len(p) /\ \A j \in 1 .. u : p[j].n = a + 1
      /\ u < Len(p) => p[u + 1].n = a + 2 /\ p[u + 1].k = 1
  BY <1>3, <1>5 DEF Run
<1>7. r \in Seq(Piece) /\ Len(r) = Len(p) - u /\ \A i \in 1 .. Len(r) : r[i] = p[u + i]
  <2>1. /\ r \in Seq(Piece) /\ Len(r) = Len(p) - u
        /\ \A i \in 1 .. Len(p) - u : r[i] = p[u + i]
    BY Rest
  <2> QED BY <2>1
<1> HIDE DEF r
<1>8. ASSUME NEW i \in 1 .. Len(r)
      PROVE  r[i].conn = c /\ r[i].n \in 1 .. Len(q) /\ r[i].kind = q[r[i].n] /\ Run(r, i)
  <2> DEFINE e == EndOf(p, u + i)
  <2>1. u + i \in 1 .. Len(p) /\ r[i] = p[u + i]
    BY <1>1, <1>6, <1>7
  <2>2. /\ p[u + i].conn = c /\ p[u + i].n \in 1 .. Len(q) /\ p[u + i].kind = q[p[u + i].n]
        /\ Run(p, u + i)
    BY <2>1 DEF Line
  <2>3. /\ e \in u + i .. Len(p)
        /\ \A j \in u + i .. e : /\ p[j].n = p[u + i].n /\ p[j].kind = p[u + i].kind
                                 /\ p[j].k = p[u + i].k + j - (u + i)
        /\ e < Len(p) => p[e + 1].n = p[u + i].n + 1 /\ p[e + 1].k = 1
    BY <2>2 DEF Run
  <2>4. EndOf(r, i) = e - u
    <3>1. SentLen(r[i].kind) \in Nat /\ r[i].k \in Nat
      BY <1>1, <1>2, <2>1
    <3> QED BY <1>1, <2>1, <3>1 DEF EndOf
  <2> HIDE DEF e
  <2>5. e \in Int /\ Len(p) \in Int /\ u \in Int /\ i \in Int /\ Len(r) = Len(p) - u
    BY <1>1, <1>6, <1>7, <2>1, <2>3
  <2>6. u + i <= e /\ e <= Len(p) /\ 1 <= i /\ 1 <= u
    BY <1>6, <2>5, <2>3
  <2>7. e - u \in i .. Len(r)
    BY <2>5, <2>6
  <2>8. ASSUME NEW j \in i .. e - u
        PROVE  r[j].n = r[i].n /\ r[j].kind = r[i].kind /\ r[j].k = r[i].k + j - i
    <3>1. u + j \in u + i .. e /\ j \in 1 .. Len(r)
      <4>1. j \in Int /\ i <= j /\ j <= e - u
        BY <2>5, <2>8
      <4>2. u + i <= u + j /\ u + j <= e
        BY <2>5, <4>1
      <4>3. 1 <= j /\ j <= Len(r)
        BY <2>5, <2>6, <4>1
      <4> QED BY <2>5, <4>1, <4>2, <4>3
    <3>2. r[j] = p[u + j] /\ p[u + j].k = p[u + i].k + (u + j) - (u + i)
      BY <1>7, <2>3, <3>1
    <3>3. p[u + i].k \in Nat
      BY <1>2, <2>1
    <3>4. r[j].k = r[i].k + j - i
      BY <1>1, <2>1, <3>2, <3>3
    <3> QED BY <2>1, <2>3, <3>1, <3>2, <3>4
  <2>9. e - u < Len(r) => r[e - u + 1].n = r[i].n + 1 /\ r[e - u + 1].k = 1
    <3> SUFFICES ASSUME e - u < Len(r)
                 PROVE  r[e - u + 1].n = r[i].n + 1 /\ r[e - u + 1].k = 1
      OBVIOUS
    <3>1. e < Len(p) /\ u + (e - u + 1) = e + 1
      BY <2>5
    <3>2. e - u + 1 \in 1 .. Len(r)
      <4>1. 1 <= e - u + 1
        BY <2>5, <2>6
      <4> QED BY <2>5, <4>1
    <3>3. r[e - u + 1] = p[e + 1]
      BY <1>7, <3>1, <3>2
    <3> QED BY <2>1, <2>3, <3>1, <3>3
  <2>10. Run(r, i)
    BY <2>4, <2>7, <2>8, <2>9 DEF Run
  <2> QED BY <2>1, <2>2, <2>10
<1>9. r = <<>> => Len(q) = a + 1
  <2> SUFFICES ASSUME r = <<>> PROVE Len(q) = a + 1
    OBVIOUS
  <2>1. u = Len(p)
    BY <1>1, <1>6, <1>7, EmptySeq
  <2> QED BY <1>3, <1>6, <2>1
<1>10. r # <<>> => r[1].n = a + 1 + 1 /\ r[1].k = 1 /\ r[Len(r)].n = Len(q)
  <2> SUFFICES ASSUME r # <<>>
               PROVE  r[1].n = a + 1 + 1 /\ r[1].k = 1 /\ r[Len(r)].n = Len(q)
    OBVIOUS
  <2>1. Len(r) # 0
    BY <1>7, EmptySeq
  <2>2. u < Len(p) /\ 1 \in 1 .. Len(r) /\ Len(r) \in 1 .. Len(r) /\ u + Len(r) = Len(p)
    BY <1>1, <1>6, <1>7, <2>1
  <2>3. r[1] = p[u + 1] /\ r[Len(r)] = p[Len(p)]
    BY <1>7, <2>2
  <2> QED BY <1>3, <1>6, <2>2, <2>3
<1>11. \A m \in 1 .. Len(q) - 1 : q[m] # "cut"
  BY DEF Line
<1>12. Line(r, c, q, a + 1)
  BY <1>8, <1>9, <1>10, <1>11 DEF Line
<1> QED BY <1>12 DEF r

\* Nothing happens to connection c.
LEMMA LineKept ==
  ASSUME NEW c \in Conns, LineOf(c), asked'[c] = asked[c], stream'[c] = stream[c],
         answers'[c] = answers[c], conn'[c] \in {"new", "open"} => conn[c] \in {"new", "open"},
         \A w \in Workers : sock'[w] = c <=> sock[w] = c,
         \A w \in Workers : sock[w] = c => buf'[w] = buf[w]
  PROVE  LineOf(c)'
  BY DEF LineOf

\* The connection's worker is about to read what the buffer and the stream hold.
LEMMA LineRead ==
  ASSUME IInv, NEW w \in Workers, NEW c \in Conns, sock[w] = c, LineOf(c)
  PROVE  /\ buf[w] \in Seq(Piece) /\ stream[c] \in Seq(Piece) /\ asked[c] \in Seq(AllKinds)
         /\ answers[c] \in Seq([conn : Conns, n : Nat]) /\ Len(answers[c]) \in Nat
         /\ buf[w] \o stream[c] \in Seq(Piece)
         /\ Line(buf[w] \o stream[c], c, asked[c], Len(answers[c]))
         /\ \A v \in Workers : v # w => sock[v] # c
<1>1. buf[w] \in Seq(Piece) /\ stream[c] \in Seq(Piece) /\ asked[c] \in Seq(AllKinds)
      /\ answers[c] \in Seq([conn : Conns, n : Nat])
  BY DEF IInv, TypeOK
<1>2. conn[c] = "open" /\ \A v \in Workers : v # w => sock[v] # c
  BY NoConnAssumption DEF IInv, PlaceInv
<1>3. Line(buf[w] \o stream[c], c, asked[c], Len(answers[c]))
  BY <1>2 DEF LineOf
<1>4. buf[w] \o stream[c] \in Seq(Piece) /\ Len(answers[c]) \in Nat
  BY <1>1, ConcatProperties, LenProperties
<1> QED BY <1>1, <1>2, <1>3, <1>4

\* recv moves pieces from the stream to the buffer.
LEMMA Moved ==
  ASSUME NEW b \in Seq(Piece), NEW s \in Seq(Piece), NEW k \in Nat, k <= Len(s)
  PROVE  (b \o SubSeq(s, 1, k)) \o SubSeq(s, k + 1, Len(s)) = b \o s
<1> DEFINE got == SubSeq(s, 1, k)
           rest == SubSeq(s, k + 1, Len(s))
<1>1. Len(s) \in Nat /\ \A i \in 1 .. Len(s) : s[i] \in Piece
  BY LenProperties, ElementOfSeq
<1>2. got \in Seq(Piece) /\ Len(got) = k /\ rest \in Seq(Piece) /\ Len(rest) = Len(s) - k
  BY Cut
<1>3. \A i \in 1 .. k : got[i] = s[i]
  <2>1. \A i \in 1 .. k - 1 + 1 : got[i] = s[1 + i - 1]
    BY <1>1, SubSeqProperties
  <2> HIDE DEF got
  <2>2. k - 1 + 1 = k /\ \A i \in 1 .. k : 1 + i - 1 = i
    OBVIOUS
  <2> QED BY <2>1, <2>2
<1>4. \A i \in 1 .. Len(s) - k : rest[i] = s[k + i]
  BY Rest
<1> HIDE DEF got, rest
<1>5. got \o rest = s
  <2>1. /\ got \o rest \in Seq(Piece) /\ Len(got \o rest) = k + (Len(s) - k)
        /\ \A i \in 1 .. k + (Len(s) - k) :
             (got \o rest)[i] = IF i <= k THEN got[i] ELSE rest[i - k]
    BY <1>2, ConcatProperties
  <2>2. Len(got \o rest) = Len(s)
    BY <1>1, <2>1
  <2>3. ASSUME NEW i \in 1 .. Len(s) PROVE (got \o rest)[i] = s[i]
    <3>1. (got \o rest)[i] = IF i <= k THEN got[i] ELSE rest[i - k]
      BY <1>1, <2>1
    <3>2. CASE i <= k
      BY <1>3, <3>1, <3>2
    <3>3. CASE i > k
      <4>1. i - k \in 1 .. Len(s) - k /\ k + (i - k) = i /\ ~(i <= k)
        BY <1>1, <3>3
      <4> QED BY <1>4, <3>1, <4>1
    <3>4. i <= k \/ i > k
      BY <1>1
    <3> QED BY <3>2, <3>3, <3>4
  <2> QED BY <2>1, <2>2, <2>3, SeqEqual
<1>6. (b \o got) \o rest = b \o (got \o rest)
  BY <1>2, ConcatAssociative
<1> QED BY <1>5, <1>6 DEF got, rest

LEMMA ReceiveLine ==
  ASSUME IInv, LineInv, NEW w \in Workers, sock[w] \in Conns, Receive(w)
  PROVE  \A c \in Conns : LineOf(c)'
<1> SUFFICES ASSUME NEW c \in Conns PROVE LineOf(c)'
  OBVIOUS
<1>1. LineOf(c) /\ TypeOK
  BY DEF LineInv, IInv
<1>2. UNCHANGED <<sock, conn, asked, answers>>
  BY DEF Receive
<1>3. PICK k \in 1 .. Room(w) :
        /\ k <= Len(stream[sock[w]])
        /\ buf' = [buf EXCEPT ![w] = buf[w] \o SubSeq(stream[sock[w]], 1, k)]
        /\ stream' = [stream EXCEPT ![sock[w]] =
                        SubSeq(stream[sock[w]], k + 1, Len(stream[sock[w]]))]
  BY DEF Receive
<1>4. CASE c # sock[w]
  <2>1. stream'[c] = stream[c] /\ \A v \in Workers : sock[v] = c => buf'[v] = buf[v]
    BY <1>1, <1>3, <1>4 DEF TypeOK
  <2> QED BY <1>1, <1>2, <2>1, LineKept
<1>5. CASE c = sock[w]
  <2> DEFINE b1 == buf[w] \o SubSeq(stream[c], 1, k)
             s1 == SubSeq(stream[c], k + 1, Len(stream[c]))
  <2>1. /\ buf[w] \in Seq(Piece) /\ stream[c] \in Seq(Piece)
        /\ Line(buf[w] \o stream[c], c, asked[c], Len(answers[c]))
        /\ \A v \in Workers : v # w => sock[v] # c
    BY <1>1, <1>5, LineRead
  <2>2. k \in Nat /\ k <= Len(stream[c])
    BY <1>3, <1>5
  <2>3. b1 \o s1 = buf[w] \o stream[c]
    BY <2>1, <2>2, Moved
  <2>4. buf' = [buf EXCEPT ![w] = b1] /\ stream' = [stream EXCEPT ![c] = s1]
    BY <1>3, <1>5
  <2> HIDE DEF b1, s1
  <2>5. buf'[w] = b1 /\ stream'[c] = s1
    BY <1>1, <2>4 DEF TypeOK
  <2>6. Line(buf'[w] \o stream'[c], c, asked'[c], Len(answers'[c]))
    BY <1>2, <2>1, <2>3, <2>5
  <2>7. sock'[w] = c /\ \A v \in Workers : v # w => sock'[v] # c
    BY <1>2, <1>5, <2>1
  <2> QED BY <2>6, <2>7 DEF LineOf
<1> QED BY <1>4, <1>5

\* A connection is let go; the others keep what they had.
LEMMA LetGoLine ==
  ASSUME IInv, LineInv, NEW w \in Workers, NEW state \in {"handed", "closed"}, LetGo(w, state),
         UNCHANGED <<buf, asked>>,
         \A c \in Conns : c # sock[w] => answers'[c] = answers[c]
  PROVE  \A c \in Conns : LineOf(c)'
<1> SUFFICES ASSUME NEW c \in Conns PROVE LineOf(c)'
  OBVIOUS
<1>1. LineOf(c) /\ TypeOK /\ c # NoConn
  BY NoConnAssumption DEF LineInv, IInv
<1>2. CASE c = sock[w]
  <2>1. conn'[c] = state
    BY <1>1, <1>2 DEF LetGo, TypeOK
  <2>2. conn'[c] \notin {"new", "open"}
    BY <2>1
  <2> QED BY <2>2 DEF LineOf
<1>3. CASE c # sock[w]
  <2>1. /\ conn'[c] = conn[c] /\ stream'[c] = stream[c]
        /\ \A v \in Workers : sock'[v] = c <=> sock[v] = c
    BY <1>1, <1>3 DEF LetGo, TypeOK
  <2>2. asked'[c] = asked[c] /\ answers'[c] = answers[c] /\ \A v \in Workers : buf'[v] = buf[v]
    BY <1>3
  <2> QED BY <1>1, <2>1, <2>2, LineKept
<1> QED BY <1>2, <1>3

\* What follows the buffer does not change what comes first in it.
LEMMA FirstOfBoth ==
  ASSUME NEW b \in Seq(Piece), NEW s \in Seq(Piece), b # <<>>
  PROVE  (b \o s)[1] = b[1] /\ 1 \in 1 .. Len(b \o s) /\ b \o s # <<>>
<1> DEFINE p == b \o s
<1>1. Len(b) \in Nat /\ Len(b) # 0 /\ Len(s) \in Nat
  BY LenProperties, EmptySeq
<1>2. /\ p \in Seq(Piece) /\ Len(p) = Len(b) + Len(s)
      /\ \A i \in 1 .. Len(b) + Len(s) : p[i] = IF i <= Len(b) THEN b[i] ELSE s[i - Len(b)]
  BY ConcatProperties
<1> HIDE DEF p
<1>3. 1 \in 1 .. Len(b) + Len(s) /\ 1 <= Len(b) /\ Len(p) # 0
  BY <1>1, <1>2
<1>4. p # <<>>
  BY <1>3, EmptySeq
<1>5. p[1] = b[1]
  BY <1>2, <1>3
<1> QED BY <1>2, <1>3, <1>4, <1>5 DEF p

\* The answer that goes out is the one to the first request that has none.
LEMMA SentInOrder ==
  ASSUME IInv, LineInv, NEW w \in Workers, wpc[w] = "serve", uw_send(w)
  PROVE  /\ AnswersInOrder'
         /\ \A c \in Conns : c # sock[w] => answers'[c] = answers[c]
         /\ \A c \in Conns : c = sock[w] => Len(answers'[c]) = Len(answers[c]) + 1
<1>1. TypeOK /\ WorkerInv
  BY DEF IInv
<1>2. CASE sock[w] = NoConn
  <2>1. answers' = answers /\ \A c \in Conns : c # sock[w]
    BY <1>2, NoConnAssumption DEF uw_send
  <2> QED BY <2>1 DEF LineInv, AnswersInOrder
<1>3. CASE sock[w] # NoConn
  <2> DEFINE c == sock[w]
             a == [conn |-> buf[w][1].conn, n |-> buf[w][1].n]
             len == Len(answers[c])
  <2>1. c \in Conns /\ buf[w] # <<>>
    BY <1>1, <1>3 DEF TypeOK, WorkerInv, WorkerOf
  <2>2. LineOf(c)
    BY <2>1 DEF LineInv
  <2>3. /\ buf[w] \in Seq(Piece) /\ stream[c] \in Seq(Piece)
        /\ answers[c] \in Seq([conn : Conns, n : Nat]) /\ len \in Nat
        /\ Line(buf[w] \o stream[c], c, asked[c], len)
    BY <2>1, <2>2, LineRead
  <2> DEFINE p == buf[w] \o stream[c]
  <2>4. p[1] = buf[w][1] /\ 1 \in 1 .. Len(p) /\ p # <<>>
    BY <2>1, <2>3, FirstOfBoth
  <2>5. p[1].conn = c /\ p[1].n = len + 1
    BY <2>3, <2>4 DEF Line
  <2>6. a = [conn |-> c, n |-> len + 1]
    BY <2>4, <2>5
  <2>7. answers' = [answers EXCEPT ![c] = Append(answers[c], a)]
    BY <1>3 DEF uw_send, Request
  <2> HIDE DEF a, p
  <2>8. answers'[c] = Append(answers[c], a) /\ \A d \in Conns : d # c => answers'[d] = answers[d]
    BY <1>1, <2>1, <2>7 DEF TypeOK
  <2>9. /\ Len(answers'[c]) = len + 1 /\ answers'[c][len + 1] = a
        /\ \A k \in 1 .. len : answers'[c][k] = answers[c][k]
    <3>1. a \in [conn : Conns, n : Nat]
      BY <2>1, <2>3, <2>6
    <3> QED BY <2>3, <2>8, <3>1, AppendProperties
  <2>10. AnswersInOrder
    BY DEF LineInv
  <2>11. ASSUME NEW d \in Conns, NEW k \in 1 .. Len(answers'[d])
         PROVE  answers'[d][k] = [conn |-> d, n |-> k]
    <3>1. CASE d # c
      BY <2>8, <2>10, <2>11, <3>1 DEF AnswersInOrder
    <3>2. CASE d = c /\ k = len + 1
      BY <2>6, <2>9, <3>2
    <3>3. CASE d = c /\ k # len + 1
      <4>1. k \in 1 .. len
        BY <2>3, <2>9, <3>3
      <4>2. answers[c][k] = [conn |-> c, n |-> k]
        BY <2>1, <2>10, <4>1 DEF AnswersInOrder
      <4> QED BY <2>9, <3>3, <4>1, <4>2
    <3> QED BY <3>1, <3>2, <3>3
  <2>12. AnswersInOrder'
    BY <2>11 DEF AnswersInOrder
  <2> QED BY <2>8, <2>9, <2>12
<1> QED BY <1>2, <1>3

\* Dropping no more than the buffer holds.
LEMMA DroppedFront ==
  ASSUME NEW b \in Seq(Piece), NEW s \in Seq(Piece), NEW u \in Nat, u <= Len(b)
  PROVE  /\ u <= Len(b \o s)
         /\ SubSeq(b \o s, u + 1, Len(b \o s)) = SubSeq(b, u + 1, Len(b)) \o s
<1> DEFINE p == b \o s
           rest == SubSeq(b, u + 1, Len(b))
           all == SubSeq(p, u + 1, Len(p))
<1>1. Len(b) \in Nat /\ Len(s) \in Nat
  BY LenProperties
<1>2. /\ p \in Seq(Piece) /\ Len(p) = Len(b) + Len(s)
      /\ \A i \in 1 .. Len(b) + Len(s) : p[i] = IF i <= Len(b) THEN b[i] ELSE s[i - Len(b)]
  BY ConcatProperties
<1>3. /\ rest \in Seq(Piece) /\ Len(rest) = Len(b) - u
      /\ \A i \in 1 .. Len(b) - u : rest[i] = b[u + i]
  BY Rest
<1> HIDE DEF p
<1>4. u <= Len(p)
  BY <1>1, <1>2
<1>5. /\ all \in Seq(Piece) /\ Len(all) = Len(p) - u
      /\ \A i \in 1 .. Len(p) - u : all[i] = p[u + i]
  BY <1>2, <1>4, Rest
<1> HIDE DEF rest, all
<1>6. /\ rest \o s \in Seq(Piece) /\ Len(rest \o s) = Len(rest) + Len(s)
      /\ \A i \in 1 .. Len(rest) + Len(s) :
           (rest \o s)[i] = IF i <= Len(rest) THEN rest[i] ELSE s[i - Len(rest)]
  BY <1>3, ConcatProperties
<1>7. Len(all) = Len(rest \o s)
  BY <1>1, <1>2, <1>3, <1>5, <1>6
<1>8. ASSUME NEW i \in 1 .. Len(all) PROVE all[i] = (rest \o s)[i]
  <2>1. /\ i \in 1 .. Len(p) - u /\ i \in 1 .. Len(rest) + Len(s)
        /\ u + i \in 1 .. Len(b) + Len(s) /\ Len(rest) = Len(b) - u
    <3>1. i \in 1 .. Len(p) - u /\ Len(rest) = Len(b) - u /\ Len(p) = Len(b) + Len(s)
      BY <1>2, <1>3, <1>5
    <3>2. Len(rest) + Len(s) = Len(p) - u
      BY <1>1, <3>1
    <3>3. u + i \in 1 .. Len(b) + Len(s)
      BY <1>1, <3>1
    <3> QED BY <3>1, <3>2, <3>3
  <2>2. all[i] = IF u + i <= Len(b) THEN b[u + i] ELSE s[u + i - Len(b)]
    <3>1. all[i] = p[u + i]
      BY <1>5, <2>1
    <3>2. p[u + i] = IF u + i <= Len(b) THEN b[u + i] ELSE s[u + i - Len(b)]
      BY <1>2, <2>1
    <3> QED BY <3>1, <3>2
  <2>3. (rest \o s)[i] = IF i <= Len(b) - u THEN rest[i] ELSE s[i - (Len(b) - u)]
    BY <1>6, <2>1
  <2>4. CASE i <= Len(b) - u
    <3>1. u + i <= Len(b) /\ i \in 1 .. Len(b) - u
      BY <1>1, <2>1, <2>4
    <3> QED BY <1>3, <2>2, <2>3, <2>4, <3>1
  <2>5. CASE ~(i <= Len(b) - u)
    <3>1. ~(u + i <= Len(b)) /\ i - (Len(b) - u) = u + i - Len(b)
      BY <1>1, <2>1, <2>5
    <3> QED BY <2>2, <2>3, <2>5, <3>1
  <2> QED BY <2>4, <2>5
<1>9. all = rest \o s
  BY <1>5, <1>6, <1>7, <1>8, SeqEqual
<1> QED BY <1>4, <1>9 DEF all, rest, p

LEMMA ReadyStep == ASSUME IInv, LineInv, [Next]_vars PROVE \A w \in Workers : ReadyOf(w)'
<1>1. /\ TypeOK /\ WorkerInv /\ \A w \in Workers : ReadyOf(w)
      /\ sock \in [Workers -> Conns \cup {NoConn}] /\ wpc \in [Workers -> Pcs]
      /\ buf \in [Workers -> Seq(Piece)] /\ \A w \in Workers : Len(buf[w]) \in Nat
  BY LenProperties DEF IInv, LineInv, TypeOK, Pcs
\* Nobody else's buffer, connection or request changes; sleepers may be woken.
<1>2. ASSUME NEW w \in Workers, ReadyOf(w)',
             \A v \in Workers : v # w => /\ sock'[v] = sock[v] /\ buf'[v] = buf[v]
                                         /\ \/ wpc'[v] = wpc[v]
                                            \/ wpc[v] = "waiting" /\ wpc'[v] = "woken"
      PROVE  \A v \in Workers : ReadyOf(v)'
  BY <1>1, <1>2 DEF ReadyOf, Used, Kind
<1>3. ASSUME NEW w \in Workers, Read(w) PROVE \A v \in Workers : ReadyOf(v)'
  <2>1. CASE ReadHead(w) \/ ReadContent(w)
    <3>1. sock[w] \in Conns /\ Receive(w)
      BY <1>1, <2>1 DEF ReadHead, ReadContent, WorkerInv, WorkerOf
    <3>2. UNCHANGED sock /\ \A v \in Workers : v # w => buf'[v] = buf[v]
      BY <1>1, <3>1, ReceiveType DEF Receive
    <3>3. wpc'[w] \in {"read", "content"} /\ \A v \in Workers : v # w => wpc'[v] = wpc[v]
      BY <1>1, <2>1 DEF ReadHead, ReadContent
    <3>4. ReadyOf(w)'
      BY <3>3 DEF ReadyOf
    <3> QED BY <1>2, <3>2, <3>3, <3>4
  <2>2. CASE RecvFails(w) \/ HeadTooLong(w) \/ Malformed(w) \/ ContentTooLong(w)
    <3>1. /\ sock' = [sock EXCEPT ![w] = NoConn] /\ UNCHANGED buf
          /\ \A v \in Workers : v # w => wpc'[v] = wpc[v]
      BY <1>1, <2>2 DEF RecvFails, HeadTooLong, Malformed, ContentTooLong, Close, LetGo
    <3>2. ReadyOf(w)'
      BY <1>1, <3>1 DEF ReadyOf
    <3> QED BY <1>1, <1>2, <3>1, <3>2
  <2>3. CASE FoundHead(w)
    <3>1. wpc' = [wpc EXCEPT ![w] = "content"] /\ UNCHANGED <<sock, buf>>
      BY <2>3 DEF FoundHead
    <3>2. ReadyOf(w)'
      BY <1>1, <3>1 DEF ReadyOf
    <3> QED BY <1>1, <1>2, <3>1, <3>2
  <2>4. CASE GotContent(w)
    <3>1. wpc' = [wpc EXCEPT ![w] = "serve"] /\ UNCHANGED <<sock, buf>> /\ ~Lacks(w)
      BY <2>4 DEF GotContent
    <3>2. Used(w) <= Len(buf[w])
      BY <1>1, <3>1, Lengths DEF Lacks, Used
    <3>3. ReadyOf(w)'
      BY <1>1, <3>1, <3>2 DEF ReadyOf, Used, Kind
    <3> QED BY <1>1, <1>2, <3>1, <3>3
  <2> QED BY <1>3, <2>1, <2>2, <2>3, <2>4 DEF Read
<1>4. ASSUME NEW w \in Workers, HandedOver(w) \/ ServeAndClose(w) \/ Requeue(w)
      PROVE  \A v \in Workers : ReadyOf(v)'
  <2>1. /\ sock'[w] = NoConn /\ UNCHANGED buf
        /\ \A v \in Workers : v # w => sock'[v] = sock[v]
    BY <1>1, <1>4 DEF HandedOver, ServeAndClose, Requeue, Close, LetGo, DroppedSock
  <2>2. \A v \in Workers : v # w => wpc'[v] = wpc[v] \/ (wpc[v] = "waiting" /\ wpc'[v] = "woken")
    BY <1>1, <1>4 DEF HandedOver, ServeAndClose, Requeue, uw_enqueue, Broadcast
  <2>3. ReadyOf(w)'
    BY <2>1 DEF ReadyOf
  <2> QED BY <1>2, <2>1, <2>2, <2>3
<1>5. ASSUME NEW w \in Workers, ServeAndKeep(w) PROVE \A v \in Workers : ReadyOf(v)'
  <2>1. /\ UNCHANGED sock /\ buf'[w] = SubSeq(buf[w], Used(w) + 1, Len(buf[w]))
        /\ wpc'[w] = IF Used(w) < Len(buf[w]) THEN "read" ELSE "enqueue"
        /\ \A v \in Workers : v # w => wpc'[v] = wpc[v] /\ buf'[v] = buf[v]
    BY <1>1, <1>5 DEF ServeAndKeep
  <2>2. Used(w) \in Nat
    BY Lengths DEF Used
  <2>3. wpc'[w] = "enqueue" => buf'[w] = <<>>
    <3> SUFFICES ASSUME wpc'[w] = "enqueue" PROVE buf'[w] = <<>>
      OBVIOUS
    <3>1. Used(w) >= Len(buf[w])
      BY <1>1, <2>1, <2>2
    <3>2. ~(Used(w) + 1 <= Len(buf[w])) /\ \A i \in Used(w) + 1 .. Len(buf[w]) : buf[w][i] \in Piece
      BY <1>1, <2>2, <3>1
    <3>3. SubSeq(buf[w], Used(w) + 1, Len(buf[w])) \in Seq(Piece)
          /\ Len(SubSeq(buf[w], Used(w) + 1, Len(buf[w]))) = 0
      BY <1>1, <2>2, <3>2, SubSeqProperties
    <3> QED BY <2>1, <3>3, EmptySeq
  <2>4. ReadyOf(w)'
    BY <2>1, <2>3 DEF ReadyOf
  <2> QED BY <1>2, <2>1, <2>4
<1>6. ASSUME NEW w \in Workers, uw_dequeue(w) \/ SpuriousWakeup(w)
      PROVE  \A v \in Workers : ReadyOf(v)'
  <2>1. wpc'[w] \in {"waiting", "woken", "read"}
        /\ \A v \in Workers : v # w => sock'[v] = sock[v] /\ buf'[v] = buf[v] /\ wpc'[v] = wpc[v]
    BY <1>1, <1>6 DEF uw_dequeue, SpuriousWakeup
  <2>2. ReadyOf(w)'
    BY <2>1 DEF ReadyOf
  <2> QED BY <1>2, <2>1, <2>2
<1>7. ASSUME UNCHANGED <<sock, buf>>,
             \A v \in Workers : wpc'[v] = wpc[v] \/ (wpc[v] = "waiting" /\ wpc'[v] = "woken")
      PROVE  \A v \in Workers : ReadyOf(v)'
  BY <1>1, <1>7 DEF ReadyOf, Used, Kind
<1>8. ASSUME NEW c \in Conns, Accept(c) PROVE \A v \in Workers : ReadyOf(v)'
  BY <1>1, <1>7, <1>8 DEF Accept, uw_enqueue, Broadcast
<1>9. ASSUME NEW c \in Conns, NEW kind \in Kinds[c], ClientSends(c, kind)
      PROVE  \A v \in Workers : ReadyOf(v)'
  BY <1>7, <1>9 DEF ClientSends
<1>10. CASE UNCHANGED vars \/ Dead
  BY <1>7, <1>10 DEF vars, Dead
<1> QED BY <1>3, <1>4, <1>5, <1>6, <1>8, <1>9, <1>10 DEF Next, Step, Serve

LEMMA LineStep == ASSUME IInv, LineInv, [Next]_vars PROVE LineInv'
<1>1. /\ TypeOK /\ WorkerInv /\ PlaceInv /\ AnswersInOrder
      /\ (\A c \in Conns : LineOf(c)) /\ \A w \in Workers : ReadyOf(w)
  BY DEF IInv, LineInv
<1>2. ASSUME \A c \in Conns : LineOf(c)', answers' = answers PROVE LineInv'
  <2>1. AnswersInOrder'
    BY <1>1, <1>2 DEF AnswersInOrder
  <2> QED BY <1>2, <2>1, ReadyStep DEF LineInv
<1>3. ASSUME UNCHANGED <<sock, buf, asked, stream, answers>>,
             \A c \in Conns : conn'[c] \in {"new", "open"} => conn[c] \in {"new", "open"}
      PROVE  LineInv'
  BY <1>1, <1>2, <1>3, LineKept
<1>4. ASSUME NEW w \in Workers, Read(w) PROVE LineInv'
  <2>1. CASE ReadHead(w) \/ ReadContent(w)
    <3>1. sock[w] \in Conns /\ Receive(w)
      BY <1>1, <2>1 DEF ReadHead, ReadContent, WorkerInv, WorkerOf
    <3>2. answers' = answers
      BY <3>1 DEF Receive
    <3> QED BY <1>2, <3>1, <3>2, ReceiveLine
  <2>2. CASE RecvFails(w) \/ HeadTooLong(w) \/ Malformed(w) \/ ContentTooLong(w)
    <3>1. LetGo(w, "closed") /\ UNCHANGED <<buf, asked, answers>>
      BY <2>2 DEF RecvFails, HeadTooLong, Malformed, ContentTooLong, Close
    <3> QED BY <1>2, <3>1, LetGoLine
  <2>3. CASE FoundHead(w) \/ GotContent(w)
    BY <1>3, <2>3 DEF FoundHead, GotContent
  <2> QED BY <1>4, <2>1, <2>2, <2>3 DEF Read
<1>5. ASSUME NEW w \in Workers, HandedOver(w) PROVE LineInv'
  <2>1. LetGo(w, "handed") /\ UNCHANGED <<buf, asked, answers>>
    BY <1>5 DEF HandedOver
  <2> QED BY <1>2, <2>1, LetGoLine
<1>6. ASSUME NEW w \in Workers, ServeAndClose(w) PROVE LineInv'
  <2>1. wpc[w] = "serve" /\ uw_send(w) /\ UNCHANGED <<buf, asked>>
    BY <1>6 DEF ServeAndClose
  <2>2. AnswersInOrder' /\ \A c \in Conns : c # sock[w] => answers'[c] = answers[c]
    BY <2>1, SentInOrder
  <2>3. CASE sock[w] = NoConn
    <3>1. UNCHANGED <<sock, conn, stream, answers>>
      BY <1>6, <2>1, <2>3 DEF ServeAndClose, uw_send
    <3> QED BY <1>3, <2>1, <3>1
  <2>4. CASE sock[w] # NoConn
    <3>1. LetGo(w, "closed")
      BY <1>6, <2>4 DEF ServeAndClose, Close
    <3>2. \A c \in Conns : LineOf(c)'
      BY <2>1, <2>2, <3>1, LetGoLine
    <3> QED BY <2>2, <3>2, ReadyStep DEF LineInv
  <2> QED BY <2>3, <2>4
<1>7. ASSUME NEW w \in Workers, ServeAndKeep(w) PROVE LineInv'
  <2>1. wpc[w] = "serve" /\ uw_send(w) /\ UNCHANGED <<sock, conn, asked, stream>>
        /\ buf' = [buf EXCEPT ![w] = SubSeq(buf[w], Used(w) + 1, Len(buf[w]))]
    BY <1>7 DEF ServeAndKeep
  <2>2. /\ AnswersInOrder' /\ \A c \in Conns : c # sock[w] => answers'[c] = answers[c]
        /\ \A c \in Conns : c = sock[w] => Len(answers'[c]) = Len(answers[c]) + 1
    BY <2>1, SentInOrder
  <2>3. ASSUME NEW c \in Conns, c # sock[w] PROVE LineOf(c)'
    <3>1. answers'[c] = answers[c] /\ \A v \in Workers : sock[v] = c => buf'[v] = buf[v]
      BY <1>1, <2>1, <2>2, <2>3 DEF TypeOK
    <3> QED BY <1>1, <2>1, <3>1, LineKept
  <2>4. ASSUME NEW c \in Conns, c = sock[w] PROVE LineOf(c)'
    <3> DEFINE p == buf[w] \o stream[c]
               u == Used(w)
               rest == SubSeq(buf[w], u + 1, Len(buf[w]))
               a == Len(answers[c])
    <3>1. /\ buf[w] \in Seq(Piece) /\ stream[c] \in Seq(Piece) /\ asked[c] \in Seq(AllKinds)
          /\ a \in Nat /\ p \in Seq(Piece) /\ Line(p, c, asked[c], a)
          /\ \A v \in Workers : v # w => sock[v] # c
      BY <1>1, <2>4, LineRead
    <3>2. buf[w] # <<>> /\ u <= Len(buf[w]) /\ u \in Nat
      <4>1. sock[w] # NoConn
        BY <2>4, NoConnAssumption
      <4> QED BY <1>1, <2>1, <4>1, Lengths DEF WorkerInv, WorkerOf, ReadyOf, Used
    <3>3. p[1] = buf[w][1] /\ p # <<>>
      BY <3>1, <3>2, FirstOfBoth
    <3>4. u = HeadLen(p[1].kind) + BodyLen(p[1].kind)
      BY <3>3 DEF Used, Kind
    <3>5. u <= Len(p) /\ SubSeq(p, u + 1, Len(p)) = rest \o stream[c]
      BY <3>1, <3>2, DroppedFront
    <3>6. Line(SubSeq(p, u + 1, Len(p)), c, asked[c], a + 1)
      BY <3>1, <3>2, <3>3, <3>4, <3>5, LineServed
    <3>7. /\ buf'[w] = rest /\ stream'[c] = stream[c] /\ asked'[c] = asked[c]
          /\ Len(answers'[c]) = a + 1 /\ sock'[w] = c /\ \A v \in Workers : v # w => sock'[v] # c
      BY <1>1, <2>1, <2>2, <2>4, <3>1 DEF TypeOK
    <3> HIDE DEF u, rest, a
    <3>8. Line(buf'[w] \o stream'[c], c, asked'[c], Len(answers'[c]))
      BY <3>5, <3>6, <3>7
    <3> QED BY <3>7, <3>8 DEF LineOf
  <2> QED BY <2>2, <2>3, <2>4, ReadyStep DEF LineInv
<1>8. ASSUME NEW w \in Workers, Requeue(w), ~down PROVE LineInv'
  <2>1. /\ wpc[w] = "enqueue" /\ sock' = [sock EXCEPT ![w] = NoConn]
        /\ UNCHANGED <<buf, conn, asked, stream, answers>>
    BY <1>8 DEF Requeue, DroppedSock
  <2>2. sock[w] \in Conns /\ buf[w] = <<>>
    BY <1>1, <1>8, <2>1, NoConnAssumption DEF WorkerInv, WorkerOf, ReadyOf
  <2>3. ASSUME NEW c \in Conns, c # sock[w] PROVE LineOf(c)'
    <3>1. \A v \in Workers : sock'[v] = c <=> sock[v] = c
      BY <1>1, <2>1, <2>3, NoConnAssumption DEF TypeOK
    <3> QED BY <1>1, <2>1, <3>1, LineKept
  <2>4. ASSUME NEW c \in Conns, c = sock[w] PROVE LineOf(c)'
    <3>1. /\ buf[w] \in Seq(Piece) /\ stream[c] \in Seq(Piece)
          /\ Line(buf[w] \o stream[c], c, asked[c], Len(answers[c]))
          /\ \A v \in Workers : v # w => sock[v] # c
      BY <1>1, <2>4, LineRead
    <3>2. buf[w] \o stream[c] = stream[c]
      BY <2>2, <3>1, ConcatEmptySeq
    <3>3. \A v \in Workers : sock'[v] # c
      BY <1>1, <2>1, <3>1, NoConnAssumption DEF TypeOK
    <3>4. Line(stream'[c], c, asked'[c], Len(answers'[c]))
      BY <2>1, <3>1, <3>2
    <3> QED BY <3>3, <3>4 DEF LineOf
  <2> QED BY <1>2, <2>1, <2>3, <2>4
<1>9. ASSUME NEW w \in Workers, uw_dequeue(w) PROVE LineInv'
  <2>1. CASE queue = <<>>
    BY <1>3, <1>9, <2>1 DEF uw_dequeue
  <2>2. CASE queue # <<>>
    <3>1. /\ sock' = [sock EXCEPT ![w] = Head(queue)] /\ buf' = [buf EXCEPT ![w] = <<>>]
          /\ UNCHANGED <<conn, asked, stream, answers>> /\ wpc[w] \in {"free", "woken"}
      BY <1>9, <2>2 DEF uw_dequeue, Emptied
    <3>2. sock[w] = NoConn
      BY <1>1, <3>1 DEF WorkerInv, WorkerOf
    <3>3. Head(queue) \in Conns /\ \A v \in Workers : sock[v] # Head(queue)
      <4>1. queue \in Seq(Conns)
        BY <1>1 DEF TypeOK
      <4>2. On(queue, Head(queue)) /\ Head(queue) \in Conns
        BY <1>1, <2>2, <4>1, TailPlace DEF PlaceInv
      <4> QED BY <1>1, <4>2 DEF PlaceInv, On
    <3>4. ASSUME NEW c \in Conns, c # Head(queue) PROVE LineOf(c)'
      <4>1. /\ \A v \in Workers : sock'[v] = c <=> sock[v] = c
            /\ \A v \in Workers : sock[v] = c => buf'[v] = buf[v]
        BY <1>1, <3>1, <3>2, <3>4, NoConnAssumption DEF TypeOK
      <4> QED BY <1>1, <3>1, <4>1, LineKept
    <3>5. ASSUME NEW c \in Conns, c = Head(queue) PROVE LineOf(c)'
      <4>1. /\ sock'[w] = c /\ buf'[w] = <<>> /\ stream'[c] = stream[c]
            /\ \A v \in Workers : v # w => sock'[v] # c
        BY <1>1, <3>1, <3>3, <3>5 DEF TypeOK
      <4>2. <<>> \o stream[c] = stream[c]
        BY <1>1, ConcatEmptySeq DEF TypeOK
      <4>3. conn[c] \in {"new", "open"} => Line(stream[c], c, asked[c], Len(answers[c]))
        BY <1>1, <3>3, <3>5 DEF LineOf
      <4>4. conn'[c] \in {"new", "open"}
            => Line(buf'[w] \o stream'[c], c, asked'[c], Len(answers'[c]))
        BY <3>1, <4>1, <4>2, <4>3
      <4> QED BY <4>1, <4>4 DEF LineOf
    <3> QED BY <1>2, <3>1, <3>4, <3>5
  <2> QED BY <2>1, <2>2
<1>10. ASSUME NEW w \in Workers, SpuriousWakeup(w) PROVE LineInv'
  BY <1>3, <1>10 DEF SpuriousWakeup
<1>11. ASSUME NEW c \in Conns, Accept(c) PROVE LineInv'
  <2>1. /\ UNCHANGED <<sock, buf, asked, stream, answers>>
        /\ \A d \in Conns : conn'[d] \in {"new", "open"} => conn[d] \in {"new", "open"}
    BY <1>1, <1>11 DEF Accept, TypeOK
  <2> QED BY <1>3, <2>1
<1>12. ASSUME NEW c \in Conns, NEW kind \in Kinds[c], ClientSends(c, kind) PROVE LineInv'
  <2> DEFINE n == Len(asked[c]) + 1
             req == [k \in 1 .. SentLen(kind) |->
                      [conn |-> c, n |-> n, kind |-> kind, k |-> k]]
  <2>1. /\ asked' = [asked EXCEPT ![c] = Append(asked[c], kind)]
        /\ stream' = [stream EXCEPT ![c] = stream[c] \o req]
        /\ UNCHANGED <<sock, buf, conn, answers>>
        /\ conn[c] \in {"new", "open"}
        /\ asked[c] # <<>> => asked[c][Len(asked[c])] # "cut"
    BY <1>12 DEF ClientSends
  <2>2. kind \in AllKinds /\ asked[c] \in Seq(AllKinds) /\ stream[c] \in Seq(Piece)
        /\ Len(answers[c]) \in Nat /\ n \in Nat
    BY <1>1, KindsAssumption, LenProperties DEF TypeOK
  <2>3. req \in Seq(Piece)
    BY <2>2, RequestType
  <2>4. ASSUME NEW p \in Seq(Piece), Line(p, c, asked[c], Len(answers[c]))
        PROVE  Line(p \o req, c, Append(asked[c], kind), Len(answers[c]))
    <3> DEFINE q == asked[c]
               a == Len(answers[c])
    <3>1. q \in Seq(AllKinds) /\ a \in Nat /\ (q # <<>> => q[Len(q)] # "cut")
          /\ Line(p, c, q, a) /\ n = Len(q) + 1
      BY <2>1, <2>2, <2>4
    <3> HIDE DEF q, a
    <3>2. Line(p \o [k \in 1 .. SentLen(kind) |->
                       [conn |-> c, n |-> Len(q) + 1, kind |-> kind, k |-> k]],
               c, Append(q, kind), a)
      BY <2>2, <3>1, LineGrows
    <3> QED BY <3>2 DEF q, a
  <2> HIDE DEF req
  <2>5. ASSUME NEW d \in Conns, d # c PROVE LineOf(d)'
    <3>1. asked'[d] = asked[d] /\ stream'[d] = stream[d]
      BY <1>1, <2>1, <2>5 DEF TypeOK
    <3> QED BY <1>1, <2>1, <3>1, LineKept
  <2>6. asked'[c] = Append(asked[c], kind) /\ stream'[c] = stream[c] \o req
    BY <1>1, <2>1 DEF TypeOK
  <2>7. LineOf(c)'
    <3>1. ASSUME NEW w \in Workers, sock[w] = c
          PROVE  Line(buf[w] \o (stream[c] \o req), c, Append(asked[c], kind), Len(answers[c]))
      <4>1. /\ buf[w] \in Seq(Piece) /\ buf[w] \o stream[c] \in Seq(Piece)
            /\ Line(buf[w] \o stream[c], c, asked[c], Len(answers[c]))
        BY <1>1, <3>1, LineRead
      <4>2. Line((buf[w] \o stream[c]) \o req, c, Append(asked[c], kind), Len(answers[c]))
        BY <2>4, <4>1
      <4>3. (buf[w] \o stream[c]) \o req = buf[w] \o (stream[c] \o req)
        <5>1. /\ buf[w] \in Seq(Piece) /\ stream[c] \in Seq(Piece) /\ req \in Seq(Piece)
          BY <2>2, <2>3, <4>1
        <5>2. \A x, y, z \in Seq(Piece) : (x \o y) \o z = x \o (y \o z)
          BY ConcatAssociative
        <5> QED BY <5>1, <5>2
      <4> QED BY <4>2, <4>3
    <3>2. ASSUME \A w \in Workers : sock[w] # c
          PROVE  Line(stream[c] \o req, c, Append(asked[c], kind), Len(answers[c]))
      <4>1. Line(stream[c], c, asked[c], Len(answers[c]))
        BY <1>1, <2>1, <3>2 DEF LineOf
      <4> QED BY <2>2, <2>4, <4>1
    <3> QED BY <2>1, <2>6, <3>1, <3>2 DEF LineOf
  <2> QED BY <1>2, <2>1, <2>5, <2>7
<1>13. CASE UNCHANGED vars \/ Dead
  BY <1>3, <1>13 DEF vars, Dead
<1> QED BY <1>4, <1>5, <1>6, <1>7, <1>8, <1>9, <1>10, <1>11, <1>12, <1>13 DEF Next, Step, Serve

LEMMA LineInit == ASSUME Init PROVE LineInv
<1>1. ASSUME NEW c \in Conns PROVE Line(<<>>, c, <<>>, 0)
  <2>1. Len(<<>>) = 0
    OBVIOUS
  <2> QED BY <2>1 DEF Line
<1>2. ASSUME NEW c \in Conns PROVE LineOf(c)
  <2>1. /\ stream[c] = <<>> /\ asked[c] = <<>> /\ Len(answers[c]) = 0
        /\ \A w \in Workers : sock[w] # c
    BY NoConnAssumption DEF Init
  <2>2. Line(stream[c], c, asked[c], Len(answers[c]))
    BY <1>1, <2>1
  <2> QED BY <2>1, <2>2 DEF LineOf
<1>3. AnswersInOrder
  <2>1. \A c \in Conns : Len(answers[c]) = 0
    BY DEF Init
  <2> QED BY <2>1 DEF AnswersInOrder
<1>4. \A w \in Workers : ReadyOf(w)
  BY DEF Init, ReadyOf
<1> QED BY <1>2, <1>3, <1>4 DEF LineInv

\* Whoever owns a connection, and however recv cuts up what is sent on it, its
\* requests are answered once each and in order (worker, uw_enqueue, uw_dequeue).
THEOREM AnsweredInOrder == Spec => []AnswersInOrder
<1>1. Init => LineInv
  BY LineInit
<1>2. IInv /\ LineInv /\ [Next]_vars => LineInv'
  BY LineStep
<1>3. LineInv => AnswersInOrder
  BY DEF LineInv
<1> QED BY <1>1, <1>2, <1>3, Invariant, PTL DEF Spec
===============================================================================
