-------------------------- MODULE AtomicRequests --------------------------
(***************************************************************************)
(* What uw_request promises, whatever it takes to keep it: a request that  *)
(* is answered SERVED has taken effect once, and one that is answered      *)
(* FAILED has not taken effect at all.  Request.tla implements this with   *)
(* retries, rollbacks and an error handler.                                *)
(***************************************************************************)
CONSTANT Servers        \* threads that serve requests

VARIABLES status,       \* status[s]: "idle", "running" or "applied"
          answer        \* answer[s]: the answer to the latest request

vars == <<status, answer>>

Init == /\ status = [s \in Servers |-> "idle"]
        /\ answer = [s \in Servers |-> "none"]

Arrive(s) == /\ status[s] = "idle"
             /\ status' = [status EXCEPT ![s] = "running"]
             /\ answer' = [answer EXCEPT ![s] = "none"]

\* The request's effects appear, all of them and all at once.
Apply(s) == /\ status[s] = "running"
            /\ status' = [status EXCEPT ![s] = "applied"]
            /\ UNCHANGED answer

Serve(s) == /\ status[s] = "applied"
            /\ status' = [status EXCEPT ![s] = "idle"]
            /\ answer' = [answer EXCEPT ![s] = "SERVED"]

Fail(s) == /\ status[s] = "running"
           /\ status' = [status EXCEPT ![s] = "idle"]
           /\ answer' = [answer EXCEPT ![s] = "FAILED"]

Next == \E s \in Servers : Arrive(s) \/ Apply(s) \/ Serve(s) \/ Fail(s)

Spec == Init /\ [][Next]_vars
=============================================================================
