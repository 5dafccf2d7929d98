------------------------------ MODULE RpcProxy ------------------------------
(***************************************************************************)
(* What the module promises the HTTP clients of one worker, with no        *)
(* connections, buffers, pool or servers in it.  Requests are taken one    *)
(* after the other.  A request gets one response header: its own error if  *)
(* its body was rejected, 200 if Tarantool answers, a gateway's error if   *)
(* not.  Behind a 200 come the replies to its own calls, in order, each    *)
(* once, framed as one array if there are several.  A response ends well   *)
(* only if all of it was sent; else the client can tell, or, when          *)
(* Tarantool closes the connection, could if nginx knew the length.        *)
(***************************************************************************)
EXTENDS Integers, Sequences

CONSTANTS
  Requests,   \* [n, rejected, bad], as in TntUpstream
  NReqs

VARIABLES
  reqs,       \* the requests to come
  served,     \* how many were taken
  open,       \* the last of them is being answered
  answer      \* answer[r]: [status, items, end]

vars == <<reqs, served, open, answer>>

(* The replies to request r, framed. *)
Whole(r) ==
  LET n == reqs[r].n
  IN  [k \in 1..n |->
         [ reply |-> <<r, k>>,
           open  |-> n > 1 /\ k = 1,
           tail  |-> IF n = 1 THEN "none" ELSE IF k = n THEN "close" ELSE "comma" ]]

Init ==
  /\ reqs \in [1..NReqs -> Requests]
  /\ served = 0 /\ open = FALSE
  /\ answer = [r \in 1..NReqs |-> [status |-> 0, items |-> <<>>, end |-> "none"]]

Accept ==
  /\ ~open /\ served < NReqs
  /\ served' = served + 1 /\ open' = TRUE
  /\ UNCHANGED <<reqs, answer>>

(* The response header: what Tarantool, the body or the gateway makes it.  *)
Status(s) ==
  /\ open /\ answer[served].status = 0
  /\ answer' = [answer EXCEPT ![served].status = s]
  /\ UNCHANGED <<reqs, served, open>>

Respond == Status(IF reqs[served].rejected THEN 400 ELSE 200)
Fail == \E s \in {502, 504} : Status(s)

Deliver ==
  /\ open /\ answer[served].status = 200
  /\ LET k == Len(answer[served].items) + 1
     IN  /\ k <= reqs[served].n
         /\ answer' = [answer EXCEPT ![served].items = Append(@, Whole(served)[k])]
  /\ UNCHANGED <<reqs, served, open>>

(* "error": the client sees that the response was cut; "eof": Tarantool    *)
(* closed the connection.                                                  *)
End(how) ==
  /\ open
  /\ how = "ok" => \/ answer[served].status = 400
                   \/ answer[served].status = 200 /\ answer[served].items = Whole(served)
  /\ open' = FALSE
  /\ answer' = [answer EXCEPT ![served].end = how]
  /\ UNCHANGED <<reqs, served>>

Next ==
  \/ Accept \/ Respond \/ Fail \/ Deliver
  \/ \E how \in {"ok", "eof", "error"} : End(how)

Spec == Init /\ [][Next]_vars
=============================================================================
