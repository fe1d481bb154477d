----------------------------- MODULE MCClients -----------------------------
(* Instances of Clients for TLC. *)
EXTENDS Clients, TLC

\* Browsers that kept headers of a server that has been restarted: their slot
\* numbers may or may not exist again, their passwords never match.
OldHeaders == {[id |-> 0, pass |-> 99], [id |-> 1, pass |-> 98]}

Perms == Permutations(Workers)
=============================================================================
