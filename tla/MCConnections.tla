--------------------------- MODULE MCConnections ---------------------------
(* Instances of Connections for TLC. *)
EXTENDS Connections, TLC

CONSTANTS c1, c2

\* Every kind of request occurs, but not every one on both connections.
TwoClients == c1 :> {"get", "query", "post", "poll", "close"}
              @@ c2 :> {"get", "cut", "malformed", "longhead", "longbody"}
=============================================================================
