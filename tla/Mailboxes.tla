----------------------------- MODULE Mailboxes -----------------------------
(***************************************************************************)
(* What the messaging half of the runtime promises to Ur/Web programs:     *)
(* every page view owns a mailbox; a transaction that commits appends all  *)
(* of its messages, to all the mailboxes it writes to, in one step; a view *)
(* receives what was sent to it and nothing else, in order and without     *)
(* repeats; a mailbox that is full may lose all that one transaction sent  *)
(* to it, and nothing less; a retired view receives nothing.  One promise  *)
(* is not made: a transaction may commit and send nothing at all, when an  *)
(* action that it registered to run after the commit fails.                *)
(* Clients.tla implements this with slots, buffers, sockets and locks.     *)
(***************************************************************************)
EXTENDS Sequences, Naturals

CONSTANTS Views,     \* every page view there may ever be
          Messages,  \* every message there may ever be; m.tx is who sent it
          Transactions

VARIABLES status,    \* status[v] : "unborn", "live" or "retired"
          sent,      \* sent[v] : what committed transactions sent to v
          received,  \* received[v] : what v has been given so far
          unsent     \* transactions that committed and sent nothing

vars == <<status, sent, received, unsent>>

Prefix(s, t) == Len(s) <= Len(t) /\ s = SubSeq(t, 1, Len(s))

Init ==
  /\ status = [v \in Views |-> "unborn"]
  /\ sent = [v \in Views |-> <<>>]
  /\ received = [v \in Views |-> <<>>]
  /\ unsent = {}

Open(v) ==
  /\ status[v] = "unborn"
  /\ status' = [status EXCEPT ![v] = "live"]
  /\ UNCHANGED <<sent, received, unsent>>

\* One transaction commits: its messages, which nobody has sent before, reach all
\* of its mailboxes at once.
Commit ==
  /\ DOMAIN sent' = Views
  /\ \A v \in Views : IF status[v] = "live" THEN Prefix(sent[v], sent'[v])
                                            ELSE sent'[v] = sent[v]
  /\ \A u, v \in Views : \A j \in 1 .. Len(sent'[u]) :
       \A k \in Len(sent[v]) + 1 .. Len(sent'[v]) :
         /\ j > Len(sent[u]) <=> sent'[u][j].tx = sent'[v][k].tx
         /\ sent'[v][k].tx \notin unsent
  /\ UNCHANGED <<status, received, unsent>>

\* One transaction commits and none of its messages reaches any mailbox, now or
\* later.
Forfeit ==
  /\ \E t \in Transactions :
       /\ \A v \in Views : \A k \in 1 .. Len(sent[v]) : sent[v][k].tx # t
       /\ unsent' = unsent \cup {t}
  /\ UNCHANGED <<status, sent, received>>

\* v is handed the next stretch of its mailbox.
Receive(v) ==
  /\ status[v] = "live"
  /\ received' = [received EXCEPT ![v] = received'[v]]
  /\ Prefix(received[v], received'[v])
  /\ Prefix(received'[v], sent[v])
  /\ UNCHANGED <<status, sent, unsent>>

\* The mailbox is full: all that one transaction sent to it, which are its last
\* messages and none of them received, is lost.
Lose(v) ==
  /\ status[v] = "live"
  /\ \E k \in Len(received[v]) .. Len(sent[v]) - 1 :
       /\ \A j \in 1 .. Len(sent[v]) : j > k <=> sent[v][j].tx = sent[v][k + 1].tx
       /\ sent' = [sent EXCEPT ![v] = SubSeq(@, 1, k)]
  /\ UNCHANGED <<status, received, unsent>>

Retire(v) ==
  /\ status[v] = "live"
  /\ status' = [status EXCEPT ![v] = "retired"]
  /\ UNCHANGED <<sent, received, unsent>>

Next == Commit \/ Forfeit \/ \E v \in Views : Open(v) \/ Receive(v) \/ Lose(v) \/ Retire(v)

Spec == Init /\ [][Next]_vars
=============================================================================
