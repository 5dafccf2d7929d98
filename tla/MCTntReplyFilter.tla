-------------------------- MODULE MCTntReplyFilter --------------------------
(* Small reply streams for TLC: a single call, batches of two and three,   *)
(* every choice of body sizes 1 and 2, untranscodable replies, junk        *)
(* headers and a rejected request.                                         *)
EXTENDS TntReplyFilter

CONSTANTS MaxReplies, Bodies

(* The stream whose k-th body has size b[k]. *)
Offsets(b) ==
  LET off[k \in 0..Len(b)] == IF k = 0 THEN 0 ELSE off[k - 1] + HeaderSize + b[k]
  IN  off

Wire(b, bad, junk, inErr) ==
  [n |-> Len(b), off |-> Offsets(b), bad |-> bad, junk |-> junk, inErr |-> inErr]

Batches == UNION {[1..k -> Bodies] : k \in 1..MaxReplies}

MCWires ==
  {Wire(b, {}, {}, FALSE) : b \in Batches}
  \cup {Wire(b, {k}, {}, FALSE) : b \in Batches, k \in {1}}
  \cup {Wire(b, {Len(b)}, {}, FALSE) : b \in Batches}
  \cup {Wire(b, {}, {Len(b)}, FALSE) : b \in Batches}
  \cup {Wire(b, {}, {}, TRUE) : b \in [1..1 -> Bodies]}
=============================================================================
