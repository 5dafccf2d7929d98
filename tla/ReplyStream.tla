---------------------------- MODULE ReplyStream ----------------------------
(***************************************************************************)
(* What the reply path promises the HTTP client, with no bytes, buffers or *)
(* events in it.  Tarantool answers the n calls of one request with n      *)
(* replies, in order.  The client receives them one at a time, in the same *)
(* order, each one once, as the elements of one JSON array (or as a bare   *)
(* object when the request is not a batch).  A reply that cannot be        *)
(* rendered as JSON yields no element.  The answer ends either complete or *)
(* cut, and it is complete only when every reply has been dealt with.      *)
(***************************************************************************)
EXTENDS Integers, Sequences

VARIABLES
  wire,     \* what Tarantool sends: [n, off, bad, inErr]
  next,     \* the number of replies dealt with so far
  answer,   \* the elements the client is given, in order
  outcome   \* "open", then "complete" or "cut"

vars == <<wire, next, answer, outcome>>

(* What the k-th of w's replies becomes, its bytes framed: the array's     *)
(* opening bracket precedes the first, the closing one follows the last.   *)
Element(w, k) ==
  [ open  |-> w.n > 1 /\ k = 1,
    reply |-> w.off[k - 1] .. (w.off[k] - 1),
    tail  |-> IF w.n = 1 THEN "none" ELSE IF k = w.n THEN "close" ELSE "comma" ]

Init ==
  /\ next = 0
  /\ answer = <<>>
  /\ outcome = "open"

(* The next reply reaches the client. *)
Deliver ==
  /\ outcome = "open"
  /\ next < wire.n
  /\ next + 1 \notin wire.bad
  /\ ~wire.inErr
  /\ next' = next + 1
  /\ answer' = Append(answer, Element(wire, next + 1))
  /\ UNCHANGED <<wire, outcome>>

(* The next reply yields nothing: it cannot be rendered, or the request    *)
(* was rejected before it reached Tarantool and only its error is sent.    *)
(* A failure to render may also end the answer.                            *)
Drop ==
  /\ outcome = "open"
  /\ next < wire.n
  /\ next + 1 \in wire.bad \/ wire.inErr
  /\ next' = next + 1
  /\ outcome' \in {"open", "cut"}
  /\ UNCHANGED <<wire, answer>>

(* A rejected request is complete without its (dummy) reply. *)
Complete ==
  /\ outcome = "open"
  /\ next = wire.n \/ wire.inErr
  /\ outcome' = "complete"
  /\ UNCHANGED <<wire, next, answer>>

Cut ==
  /\ outcome = "open"
  /\ outcome' = "cut"
  /\ UNCHANGED <<wire, next, answer>>

Next == Deliver \/ Drop \/ Complete \/ Cut

Spec == Init /\ [][Next]_vars
=============================================================================
