---------------------------- MODULE MCTntUpstream ----------------------------
(* Requests for TLC: batches of up to MaxCalls calls, a rejected body, and, *)
(* with BadReplies, a reply that cannot be transcoded at any place.         *)
EXTENDS TntUpstream

CONSTANTS MaxCalls, BadReplies

MCRequests ==
  {[n |-> 1, rejected |-> TRUE, bad |-> {}]}
  \cup {[n |-> k, rejected |-> FALSE, bad |-> {}] : k \in 1..MaxCalls}
  \cup (IF BadReplies
          THEN {[n |-> k, rejected |-> FALSE, bad |-> {i}] :
                  <<k, i>> \in {x \in (1..MaxCalls) \X (1..MaxCalls) : x[2] <= x[1]}}
          ELSE {})

(* Batches that are accepted and whose replies can all be transcoded.       *)
MCBatches == {[n |-> k, rejected |-> FALSE, bad |-> {}] : k \in 2..MaxCalls}
=============================================================================
