---------------------------- MODULE TntReplyToJson ----------------------------
(***************************************************************************)
(* The codecs TP_REPLY_TO_JSON and TP_TO_JSON of src/src/tp_transcode.c: a *)
(* reply of Tarantool is printed as JSON into a buffer of fixed size.      *)
(* tp2json_transcode_internal calls itself for every item of an array or   *)
(* map; here its calls are on a stack, and one step is one call's way to   *)
(* the next call it makes, or to its return.                               *)
(*                                                                         *)
(* MessagePack is a sequence of tokens: <<"nil">>, <<"bool", w>>,          *)
(* <<"int", w>>, <<"double", w>> (printed with w characters), <<"str", w>> *)
(* (w with quotes and escapes; binaries too), <<"ext">>, <<"array", n>>,   *)
(* <<"map", n>>.  JSON is a sequence of <<"quoted", token>>,               *)
(* <<"plain", token>> and punctuation, <<"[">> and so on.                  *)
(***************************************************************************)
EXTENDS Integers, Sequences, FiniteSets

CONSTANTS
  Replies,      \* the replies and options considered, see IsReply
  NumRoom,      \* sizeof("18446744073709551615") - 1
  DoubleRoom,   \* 15: the room a double must find
  ResultHead,   \* characters of {"id":N,"result":
  ErrorHead,    \* of {"id":N,"error":{"message":"","code":N}
  Overhead      \* ngx_http_tnt_overhead()

Tokens ==
  {<<"nil">>, <<"ext">>}
  \cup ({"bool", "int", "double", "str"} \X (Nat \ {0})) \cup ({"array", "map"} \X Nat)

(* codec: "reply" or "dump"; a dump is of three values: length, header,    *)
(* body.  error: 0, or the code of Tarantool's error.  bytes: what the     *)
(* tokens take on the wire.                                                *)
IsReply(q) ==
  /\ q.codec \in {"reply", "dump"}
  /\ q.error \in Nat /\ (q.codec = "dump" => q.error = 0)
  /\ q.tokens \in Seq(Tokens)
  /\ q.pure_result \in BOOLEAN
  /\ q.multireturn_skip_count \in 0..2
  /\ {q.bytes, q.out_multiplier} \subseteq Nat \ {0}

ASSUME RepliesAssumption == \A q \in Replies : IsReply(q)
ASSUME RoomsAssumption ==
  /\ {NumRoom, DoubleRoom, ResultHead, ErrorHead, Overhead} \subseteq Nat
  /\ ResultHead <= ErrorHead /\ ErrorHead < Overhead /\ DoubleRoom <= NumRoom

VARIABLES
  input,
  \* tp2json_t
  out, pos,         \* the JSON and its size: ctx->pos - ctx->output
  state,            \* TYPE_MAP, TYPE_KEY
  multireturn_skiped,
  \* the calls of tp2json_transcode_internal
  at,               \* MessagePack tokens decoded
  stack,            \* calls that wait for one they made: what for, how many
                    \* more they will make, and their variable len
  todo,             \* values the outermost caller has still to transcode
  pc                \* "call", "return", then "done", "oom", "empty", or
                    \* "overrun": the buffer's end was passed

vars == <<input, out, pos, state, multireturn_skiped, at, stack, todo, pc>>

-----------------------------------------------------------------------------
(* ngx_http_tnt_send_reply allocates the output. *)
Size == (input.bytes + Overhead) * input.out_multiplier

(* JSON-RPC's codes are negative; "no such procedure" has one of its own.  *)
code_conv(code) == IF code = 32801 THEN -32601 ELSE -code

(* What an answer begins with, and the characters it takes. *)
Head0 ==
  IF input.codec = "dump" THEN <<>>
  ELSE IF input.error # 0
    THEN << <<"{">>, <<"error">>, <<"{">>, <<"code", code_conv(input.error)>>, <<"}">> >>
  ELSE IF ~input.pure_result THEN << <<"{">>, <<"result">> >>
  ELSE <<>>
Head0Size ==
  IF Head0 = <<>> THEN 0
  ELSE IF input.error # 0 THEN ErrorHead + input.bytes ELSE ResultHead

(* An error is an object though the result is to be bare. *)
Closes == input.codec = "reply" /\ (~input.pure_result \/ input.error # 0)

(* tp_reply2json_transcode and tp2json_transcode, before the first value. *)
Init ==
  /\ input \in Replies
  /\ out = Head0 /\ pos = Head0Size
  /\ state = {}
  /\ multireturn_skiped = IF input.codec = "reply"
                            THEN input.multireturn_skip_count ELSE 0
  /\ at = 0 /\ stack = <<>>
  /\ todo = IF input.codec = "dump" THEN 2 ELSE 0
  /\ pc = IF input.codec = "reply" /\ input.error # 0 THEN "return"
          ELSE "call"

-----------------------------------------------------------------------------
(* Writing *)

(* ctx->pos moves by w; once it is beyond the end the room, an unsigned    *)
(* difference, means nothing, and nothing is said of what follows.         *)
Advance(w, next) ==
  /\ pos' = pos + w
  /\ pc' = IF pos + w > Size THEN "overrun" ELSE next

(* All calls return the error, and the outermost one takes back what was   *)
(* written: it moves ctx->pos, the characters stay.                        *)
OOM ==
  /\ pc' = "oom"
  /\ pos' = 0
  /\ UNCHANGED <<out, state, multireturn_skiped, stack>>

-----------------------------------------------------------------------------
(* A call of tp2json_transcode_internal *)

Token == input.tokens[at + 1]
Room == Size - pos

IsKey == {"MAP", "KEY"} \subseteq state

\* Mutant: an integer wants room for its quotes and a sign more.
NeedsMore(tok) ==
  CASE tok[1] = "int" -> 2 * NumRoom
    [] tok[1] = "double" -> DoubleRoom
    [] tok[1] = "array" -> tok[2] + 2
    [] tok[1] = "map" -> tok[2] + 2
    [] tok[1] = "ext" -> 0
    [] tok[1] = "nil" -> 4
    [] OTHER -> tok[2]
(* The room a call wants to find. *)
Needs(tok) ==
  CASE tok[1] = "int" -> NumRoom
    [] tok[1] = "double" -> DoubleRoom
    [] tok[1] \in {"array", "map"} -> tok[2] + 2
    [] tok[1] = "ext" -> 0
    [] tok[1] = "nil" -> 4
    [] OTHER -> tok[2]

Width(tok) ==
  CASE tok[1] = "nil" -> 4
    [] tok[1] = "int" /\ IsKey -> tok[2] + 2
    [] OTHER -> tok[2]

Printed(tok) ==
  <<IF tok[1] = "str" \/ (tok[1] = "int" /\ IsKey) THEN "quoted" ELSE "plain", tok>>

(* nil, numbers, strings, binaries, booleans *)
Scalar(tok) ==
  /\ tok[1] \notin {"array", "map", "ext"}
  /\ out' = Append(out, Printed(tok))
  /\ Advance(Width(tok), "return")
  /\ UNCHANGED <<state, multireturn_skiped, stack>>

(* "TODO What should I do here?": an extension is left out. *)
Extension(tok) ==
  /\ tok[1] = "ext"
  /\ pc' = "return"
  /\ UNCHANGED <<out, pos, state, multireturn_skiped, stack>>

Call(for, left) == [for |-> for, left |-> left, len |-> Room - 1]

\* Mutant: one array too many is skipped.
SkipsOneMore == multireturn_skiped >= 0
Skips == multireturn_skiped > 0

\* Mutant: the bracket of a skipped array is written.
SkipArrayOpens(tok) ==
  /\ tok[1] = "array" /\ Skips
  /\ multireturn_skiped' = multireturn_skiped - 1
  /\ stack' = Append(stack, Call("skip", 0))
  /\ out' = Append(out, <<"[">>)
  /\ Advance(1, "call")
  /\ UNCHANGED state
(* An array that is to be skipped: its first item is transcoded for it,    *)
(* whether it has one or not.                                              *)
SkipArray(tok) ==
  /\ tok[1] = "array" /\ Skips
  /\ multireturn_skiped' = multireturn_skiped - 1
  /\ stack' = Append(stack, Call("skip", 0))
  /\ pc' = "call"
  /\ UNCHANGED <<out, pos, state>>

Array(tok) ==
  /\ tok[1] = "array" /\ ~Skips
  /\ out' = Append(out, <<"[">>)
  /\ stack' = Append(stack, Call("array", IF tok[2] = 0 THEN 0 ELSE tok[2] - 1))
  /\ Advance(1, IF tok[2] = 0 THEN "return" ELSE "call")
  /\ UNCHANGED <<state, multireturn_skiped>>

Map(tok) ==
  /\ tok[1] = "map"
  /\ out' = Append(out, <<"{">>)
  /\ stack' = Append(stack, Call("map", IF tok[2] = 0 THEN 0 ELSE 2 * tok[2] - 1))
  /\ state' = state \cup (IF tok[2] = 0 THEN {"MAP"} ELSE {"MAP", "KEY"})
  /\ Advance(1, IF tok[2] = 0 THEN "return" ELSE "call")
  /\ UNCHANGED multireturn_skiped

(* An array that is skipped is decoded before, and without, the test. *)
Decode ==
  /\ pc = "call"
  /\ at < Len(input.tokens)
  /\ at' = IF pos = Size THEN at ELSE at + 1
  /\ IF pos = Size \/ (~(Token[1] = "array" /\ Skips) /\ Room < Needs(Token))
       THEN OOM
       ELSE \/ Scalar(Token) \/ Extension(Token)
            \/ SkipArray(Token) \/ Array(Token) \/ Map(Token)
  /\ UNCHANGED <<input, todo>>

(* p == end: nothing to transcode. *)
DecodeNothing ==
  /\ pc = "call"
  /\ at = Len(input.tokens)
  /\ pc' = "return"
  /\ UNCHANGED <<input, out, pos, state, multireturn_skiped, at, stack, todo>>

-----------------------------------------------------------------------------
(* A call returns to the one that made it *)

Top == stack[Len(stack)]
Below == SubSeq(stack, 1, Len(stack) - 1)
CallAgain ==
  [stack EXCEPT ![Len(stack)] =
     [for |-> Top.for, left |-> Top.left - 1, len |-> Top.len - 1]]

\* Mutant: TYPE_KEY stays set behind the key.
StateAfterKeyKept == state
StateAfterKey == state \ {"KEY"}
(* One flag for all levels: it is cleared though a map may be open. *)
StateAfterMap == state \ {"MAP"}

(* APPEND_CH tests the len of the call it stands in, which the calls made  *)
(* from there do not change.                                               *)
Put(ch, next, frames, flags) ==
  IF Top.len < 1 THEN OOM
  ELSE /\ out' = Append(out, ch)
       /\ Advance(1, next)
       /\ stack' = frames
       /\ state' = flags
       /\ UNCHANGED multireturn_skiped

ReturnToSkip ==
  /\ Top.for = "skip"
  /\ stack' = Below
  /\ UNCHANGED <<pc, out, pos, state, multireturn_skiped>>

NextItem == /\ Top.for = "array" /\ Top.left > 0
            /\ Put(<<",">>, "call", CallAgain, state)

EndArray == /\ Top.for = "array" /\ Top.left = 0
            /\ Put(<<"]">>, "return", Below, state)

AfterKey == /\ Top.for = "map" /\ Top.left % 2 = 1
            /\ Put(<<":">>, "call", CallAgain, StateAfterKey)

\* Mutant: TYPE_KEY is not set again for the next pair.
NextPairUnset ==
  /\ Top.for = "map" /\ Top.left > 0 /\ Top.left % 2 = 0
  /\ Put(<<",">>, "call", CallAgain, state)
NextPair == /\ Top.for = "map" /\ Top.left > 0 /\ Top.left % 2 = 0
            /\ Put(<<",">>, "call", CallAgain, state \cup {"KEY"})

EndMap == /\ Top.for = "map" /\ Top.left = 0
          /\ Put(<<"}">>, "return", Below, StateAfterMap)

Return ==
  /\ pc = "return"
  /\ stack # <<>>
  /\ ReturnToSkip \/ NextItem \/ EndArray \/ AfterKey \/ NextPair \/ EndMap
  /\ UNCHANGED <<input, at, todo>>

(* tp2json_transcode: the message's length, its header, its body. *)
NextValue ==
  /\ pc = "return"
  /\ stack = <<>>
  /\ todo > 0
  /\ todo' = todo - 1
  /\ pc' = "call"
  /\ UNCHANGED <<input, out, pos, state, multireturn_skiped, at, stack>>

(* The outermost call has returned: the object is closed, unchecked, and   *)
(* tp2json_complete takes an empty output for an error.                    *)
Complete ==
  /\ pc = "return"
  /\ stack = <<>>
  /\ todo = 0
  /\ IF Closes THEN out' = Append(out, <<"}">>) /\ Advance(1, "done")
     ELSE /\ pc' = IF pos = 0 THEN "empty" ELSE "done"
          /\ UNCHANGED <<out, pos>>
  /\ UNCHANGED <<input, state, multireturn_skiped, at, stack, todo>>

Next == Decode \/ DecodeNothing \/ Return \/ NextValue \/ Complete

Spec == Init /\ [][Next]_vars

-----------------------------------------------------------------------------
(* Type correctness: the stack holds calls that have items left to make,   *)
(* no flag stays set when nothing is open, no more is skipped than asked.  *)
TypeOK ==
  /\ IsReply(input)
  /\ at \in 0..Len(input.tokens) /\ pos \in Nat
  /\ state \subseteq {"MAP", "KEY"}
  /\ multireturn_skiped \in 0..input.multireturn_skip_count
  /\ \A i \in DOMAIN stack : /\ stack[i].for \in {"skip", "array", "map"}
                             /\ stack[i].left \in Nat /\ stack[i].len < Size
  /\ todo \in 0..2
  /\ pc \in {"call", "return", "done", "oom", "empty", "overrun"}
  /\ pc = "done" => state = {} /\ stack = <<>>

Written(ch) == Cardinality({i \in 1..Len(out) : out[i] = <<ch>>})
Waiting(for) == Cardinality({i \in 1..Len(stack) : stack[i].for = for})

(* However deep arrays and maps nest, what is in them and what is skipped, *)
(* each bracket that was written is closed or belongs to a call that still *)
(* waits, and nothing is closed that was not opened.                       *)
Balanced ==
  pc # "overrun" =>
    /\ Written("[") = Written("]") + Waiting("array")
    /\ Written("{") = Written("}") + Waiting("map")
                         + (IF Closes /\ pc # "done" THEN 1 ELSE 0)
=============================================================================
