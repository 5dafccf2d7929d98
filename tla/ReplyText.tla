------------------------------ MODULE ReplyText ------------------------------
(***************************************************************************)
(* What the JSON of a reply is, said of its tokens one by one, and what    *)
(* TntReplyToJson must make of them.  MessagePack announces how many       *)
(* values an array or map holds and has no mark where it ends; where that  *)
(* is, and what each value is in, is told here by counting.                *)
(***************************************************************************)
EXTENDS TntReplyToJson, Counting

(* The values that a token announces to follow in it. *)
Holds(tok) ==
  CASE tok[1] = "array" -> tok[2]
    [] tok[1] = "map"   -> 2 * tok[2]
    [] OTHER            -> 0

Announced(tokens) ==
  LET upTo[n \in 0..Len(tokens)] == IF n = 0 THEN 0 ELSE upTo[n - 1] + Holds(tokens[n])
  IN  upTo

(* The values that the one at c still lacks when n tokens have been read:  *)
(* what it and those in it announce, less what followed.                   *)
Missing(announced, c, n) == announced[n] - announced[c - 1] - (n - c)

(* The value at c has its last token at n; it has it behind n. *)
EndsAt(announced, c, n) ==
  Missing(announced, c, n) = 0 /\ \A m \in c..(n - 1) : Missing(announced, c, m) > 0
IsOpen(announced, c, n) == \A m \in c..n : Missing(announced, c, m) > 0

-----------------------------------------------------------------------------
(* The part of a reply that is to be printed: README.md:975, "skip one or  *)
(* more multireturn parts".                                                *)
Begin(q) == IF q.codec = "reply" THEN q.multireturn_skip_count + 1 ELSE 1

Lacking(q, n) ==
  LET announced == Announced(q.tokens)
  IN  (IF q.codec = "dump" THEN 3 ELSE 1)
      + (announced[n] - announced[Begin(q) - 1]) - (n + 1 - Begin(q))

Wholes(q) == {n \in Begin(q)..Len(q.tokens) : Lacking(q, n) = 0}
Final(q) == First(Wholes(q))

Boxes(q) == {c \in Begin(q)..Len(q.tokens) : q.tokens[c][1] \in {"array", "map"}}

(* What the value at k is directly in, 0 if in nothing, and its place in   *)
(* there.                                                                  *)
Around(q, k) ==
  LET announced == Announced(q.tokens)
  IN  {c \in Boxes(q) : c < k /\ IsOpen(announced, c, k - 1)}
Inside(q, k) == LET around == Around(q, k) IN IF around = {} THEN 0 ELSE Latest(k, around)
ItemsOf(q, c) == {k \in Begin(q)..Len(q.tokens) : Inside(q, k) = c}
InMap(q, k) == Inside(q, k) \in {c \in Boxes(q) : q.tokens[c][1] = "map"}
Nth(q, k) == Place(k, ItemsOf(q, Inside(q, k)))
IsName(q, k) == InMap(q, k) /\ Nth(q, k) % 2 = 1

(* The replies that have a JSON the code can give them: there is something *)
(* to unwrap and all of it is there, keys are strings or integers, there   *)
(* are no extensions, and no integer is the key of a pair that follows one *)
(* with a map in it.                                                       *)
IsLegible(q) ==
  /\ q.error = 0 /\ Wholes(q) # {}
  /\ \A k \in 1..(Begin(q) - 1) : q.tokens[k][1] = "array" /\ q.tokens[k][2] > 0
  /\ \A k \in Begin(q)..Final(q) :
       /\ q.tokens[k][1] # "ext"
       /\ IsName(q, k) =>
            \/ q.tokens[k][1] = "str"
            \/ /\ q.tokens[k][1] = "int"
               /\ \A m \in (Inside(q, k) + 1)..k : q.tokens[m][1] # "map"

-----------------------------------------------------------------------------
(* What each token means *)

Separator(q, k) ==
  IF Inside(q, k) = 0 \/ Nth(q, k) = 1 THEN <<>>
  ELSE IF InMap(q, k) /\ ~IsName(q, k) THEN << <<":">> >>
  ELSE << <<",">> >>

Own(q, k) ==
  LET tok == q.tokens[k]
  IN  CASE tok[1] = "array" -> <<"[">>
        [] tok[1] = "map"   -> <<"{">>
        [] tok[1] = "str" \/ (tok[1] = "int" /\ IsName(q, k)) -> <<"quoted", tok>>
        [] OTHER            -> <<"plain", tok>>

(* What ends at n is closed, the innermost first. *)
Ended(q, n) ==
  LET announced == Announced(q.tokens)
  IN  {c \in Boxes(q) : c <= n /\ EndsAt(announced, c, n)}
Closed(q, n, i) == CHOOSE c \in Ended(q, n) : Cardinality({d \in Ended(q, n) : d >= c}) = i
Closers(q, n) ==
  [i \in 1..Cardinality(Ended(q, n)) |->
     IF q.tokens[Closed(q, n, i)][1] = "map" THEN <<"}">> ELSE <<"]">>]

Meaning(q, n) ==
  IF n < Begin(q) THEN <<>>
  ELSE (Separator(q, n) \o << Own(q, n) >>) \o Closers(q, n)

Text(q) ==
  LET upTo[n \in 0..Len(q.tokens)] == IF n = 0 THEN <<>> ELSE upTo[n - 1] \o Meaning(q, n)
  IN  upTo

(* What is sent for a reply whose JSON is text. *)
Wrapped(q, text) ==
  IF q.codec = "dump" THEN text
  ELSE IF q.error # 0
    THEN << <<"{">>, <<"error">>, <<"{">>,
            <<"code", IF q.error = 32801 THEN -32601 ELSE -q.error>>, <<"}">>, <<"}">> >>
  ELSE IF q.pure_result THEN text
  ELSE (<< <<"{">>, <<"result">> >> \o text) \o << <<"}">> >>

-----------------------------------------------------------------------------
(* Characters *)

(* Of null, a quoted integer, other values, and brackets. *)
Chars(t) ==
  IF t[1] \notin {"quoted", "plain"} THEN 1
  ELSE IF Len(t[2]) = 1 THEN 4
  ELSE IF t[1] = "quoted" /\ t[2][1] = "int" THEN t[2][2] + 2
  ELSE t[2][2]

Sizes(text) ==
  LET upTo[n \in 0..Len(text)] == IF n = 0 THEN 0 ELSE upTo[n - 1] + Chars(text[n])
  IN  upTo
JsonSize(text) == Sizes(text)[Len(text)]

-----------------------------------------------------------------------------
(* Properties *)

(* What the client is given is what the tokens of Tarantool's reply mean:  *)
(* every array and map is closed at the token that completes it, however   *)
(* they nest, keys are quoted and values are not, the wrapper and the      *)
(* outer arrays are left out exactly when tnt_pure_result and              *)
(* tnt_multireturn_skip_count say so, and an error is an object with a     *)
(* JSON-RPC code even then.                                                *)
WritesTheTokens ==
  pc = "done" =>
    /\ input.error # 0 /\ input.codec = "reply" => out = Wrapped(input, <<>>)
    /\ IsLegible(input) => out = Wrapped(input, Text(input)[Final(input)])

(* An answer for which the buffer has room, and that of the widest integer *)
(* to spare, is written: what a call tests before it writes, for itself    *)
(* and for the items it will write, never refuses one that fits, nor lets  *)
(* one that fits run over the end.  An error always is.                    *)
FitsIsWritten ==
  pc \in {"oom", "overrun", "empty"} =>
    /\ input.error = 0
    /\ IsLegible(input) =>
         Size < Head0Size + 1 + NumRoom + JsonSize(Text(input)[Final(input)])
=============================================================================
