----------------------------- MODULE TntJsonToTp -----------------------------
(***************************************************************************)
(* The codec YAJL_JSON_TO_TP of src/src/tp_transcode.c: yajl parses a JSON *)
(* request body, in pieces of any size, and calls the yajl_* functions,    *)
(* which write the binary Tarantool calls as they go.  One step is one     *)
(* callback.                                                               *)
(*                                                                         *)
(* The body is given as the sequence of callbacks it causes:               *)
(*   <<"scalar">> (null, boolean, double), <<"integer", v>>, <<"string">>, *)
(*   <<"map_key", k>>, <<"start_map">>, <<"end_map">>, <<"start_array">>,  *)
(*   <<"end_array">>.                                                      *)
(* The output is a sequence of tokens: <<"header", id>> begins a call,     *)
(* <<"func">> and <<"TUPLE">> are keys of its body ("func" with its value),*)
(* <<"array", n>> and <<"map", n>> announce n items, and <<"slot">> is the *)
(* room left for such a header until its n is known.                       *)
(***************************************************************************)
EXTENDS Integers, Sequences

CONSTANTS
  Inputs,          \* what the codec may be given, see Init
  MAX_STACK_SIZE,  \* 253
  MAX_BATCH_SIZE,  \* 16384
  UINT32_MAX,
  StackChunk,      \* 16, the stack items allocated at a time
  ByteSize         \* 256, the values of a uint8_t: yajl_ctx_t.allocated

(* events: the callbacks the body causes, doc what it means.               *)
(* read_method: the method is read from the body, not preset (tnt_method). *)
(* has_data: tp_transcode_bind_data gave an HTTP request to bind to calls. *)
(* compact: the text begins with "[]" or "{}", and not, say, with "[ ]".   *)
Callbacks ==
  {<<e>> : e \in {"scalar", "string", "start_map", "end_map", "start_array", "end_array"}}
  \cup ({"integer"} \X Int) \cup ({"map_key"} \X STRING)
Empty == {<< <<"start_map">>, <<"end_map">> >>, << <<"start_array">>, <<"end_array">> >>}
ASSUME InputsAssumption ==
  \A in \in Inputs : /\ in.events \in Seq(Callbacks)
                     /\ {in.read_method, in.has_data, in.compact} \subseteq BOOLEAN
                     /\ in.compact => in.events \in Empty
ASSUME LimitsAssumption ==
  /\ {MAX_STACK_SIZE, MAX_BATCH_SIZE, UINT32_MAX} \subseteq Nat
  /\ StackChunk \in Nat \ {0} /\ ByteSize \in Nat
  /\ StackChunk < ByteSize /\ ByteSize % StackChunk = 0
  /\ MAX_STACK_SIZE < ByteSize

VARIABLES
  input,          \* the body, and how many of its callbacks have been called
  at,
  \* yajl_ctx_t
  stage, been_stages, stack, allocated, batch_mode_on,
  \* tp_transcode_t
  batch_size,
  \* struct tp: what is written, and where the last call's header is
  out, sync,
  status          \* "parsing", "ok", or why it failed: "json", "id", "batch",
                  \* "stack", "params"

ctx == <<stage, been_stages, stack, allocated, batch_mode_on, batch_size>>
vars == <<input, at, ctx, out, sync, status>>

read_method == input.read_method
has_data == input.has_data

Init ==
  /\ input \in Inputs /\ at = 0
  /\ stage = "INIT" /\ been_stages = {} /\ batch_mode_on = FALSE
  /\ stack = <<>> /\ allocated = StackChunk
  /\ batch_size = 0
  /\ out = <<>> /\ sync = 0
  /\ status = "parsing"

-----------------------------------------------------------------------------
(* The stack of open maps and arrays, the batch array not among them *)

\* Mutant: cond is not looked at.
stack_growAny(s, type) ==
  IF s # <<>> THEN [s EXCEPT ![Len(s)].count = @ + 1] ELSE s

stack_grow(s, type) ==
  IF s # <<>> /\ s[Len(s)].type = type
    THEN [s EXCEPT ![Len(s)].count = @ + 1] ELSE s

\* Mutant: grows one item late.
NewAllocatedLate(s) ==
  IF allocated < Len(s) THEN (allocated + StackChunk) % ByteSize ELSE allocated

(* allocated is a uint8_t: it wraps to 0, and nothing can be allocated. *)
NewAllocated(s) ==
  IF allocated = Len(s) THEN (allocated + StackChunk) % ByteSize ELSE allocated
CanPush(s) == Len(s) < MAX_STACK_SIZE /\ NewAllocated(s) # 0

\* Mutant: the count is not reset, yajl_json2tp_create has set it to -1.
PushedUnset(s, type) ==
  Append(s, [ptr |-> Len(out) + 1, count |-> -1, type |-> type])
Pushed(s, type) ==
  Append(s, [ptr |-> Len(out) + 1, count |-> 0, type |-> type])
\* Mutant: stack_top for stack_pop.
PoppedNot(s) == s
Popped(s) == SubSeq(s, 1, Len(s) - 1)

-----------------------------------------------------------------------------
Event == input.events[at + 1]

(* The next callback is e. *)
Callback(e) ==
  /\ status = "parsing" /\ ~input.compact
  /\ at < Len(input.events)
  /\ Event[1] = e
  /\ at' = at + 1
  /\ UNCHANGED input

Fail(why) ==
  /\ status' = why
  /\ UNCHANGED <<ctx, out, sync>>

Write(tokens) == out' = out \o tokens

(* yajl_null, yajl_boolean, yajl_double *)
yajl_scalar ==
  /\ Callback("scalar")
  /\ IF stage = "PARAMS"
       THEN stack' = stack_grow(stack, "array") /\ Write(<< <<"value">> >>)
       ELSE UNCHANGED <<stack, out>>
  /\ UNCHANGED <<stage, been_stages, allocated, batch_mode_on, batch_size, sync,
                 status>>

\* Mutant: the id is not tested.
IdOkAny(v) == TRUE

(* An id is written into the header of the call, by tp_reqid, which takes  *)
(* a uint32_t: of a negative one the lower bits.                           *)
IdOk(v) == v <= UINT32_MAX
tp_reqid(v) == [out EXCEPT ![sync] = <<"header", v % (UINT32_MAX + 1)>>]
yajl_integer ==
  /\ Callback("integer")
  /\ IF stage = "ID" /\ ~IdOk(Event[2]) THEN Fail("id")
     ELSE /\ stack' = IF stage = "PARAMS" THEN stack_grow(stack, "array") ELSE stack
          /\ out' = CASE stage = "PARAMS" -> Append(out, <<"value">>)
                      [] stage = "ID" -> tp_reqid(Event[2])
                      [] OTHER -> out
          /\ stage' = IF stage = "ID" THEN "WAIT_NEXT" ELSE stage
          /\ been_stages' = IF stage = "ID" THEN been_stages \cup {"ID"}
                            ELSE been_stages
          /\ UNCHANGED <<allocated, batch_mode_on, batch_size, sync, status>>

yajl_string ==
  /\ Callback("string")
  /\ stack' = IF stage = "PARAMS" THEN stack_grow(stack, "array") ELSE stack
  /\ out' = CASE stage = "PARAMS" -> Append(out, <<"value">>)
              [] stage = "METHOD" /\ read_method -> Append(out, <<"func">>)
              [] OTHER -> out
  /\ stage' = IF stage = "PARAMS" THEN stage ELSE "WAIT_NEXT"
  /\ been_stages' = IF stage = "METHOD" /\ read_method
                      THEN been_stages \cup {"METHOD"} ELSE been_stages
  /\ UNCHANGED <<allocated, batch_mode_on, batch_size, sync, status>>

\* Mutant: the call to come is counted, and refused when it is the last
\* that is allowed.
TooManyCallsEarly == batch_size + 1 >= MAX_BATCH_SIZE

(* The first key of a call starts its message, with the preset method.  The*)
(* request limit is tested before the call is counted.                     *)
TooManyCalls == batch_size > MAX_BATCH_SIZE
MessageStart ==
  IF stage # "INIT" THEN <<>>
  ELSE << <<"header", 0>> >> \o (IF read_method THEN <<>> ELSE << <<"func">> >>)

\* Mutant: each field of a call is counted.
CallCountEveryKey == IF stage # "PARAMS" THEN batch_size + 1 ELSE batch_size
CallCount == IF stage = "INIT" THEN batch_size + 1 ELSE batch_size

KeyStage(k) ==
  CASE k = "params" -> "PARAMS"
    [] k = "id"     -> "ID"
    [] k = "method" /\ read_method -> "METHOD"
    [] OTHER        -> "WAIT_NEXT"

yajl_map_key ==
  /\ Callback("map_key")
  /\ IF stage = "INIT" /\ TooManyCalls THEN Fail("batch")
     ELSE /\ stage' = CASE stage = "PARAMS" -> "PARAMS"
                        [] stage \in {"INIT", "WAIT_NEXT"} -> KeyStage(Event[2])
                        [] OTHER -> "WAIT_NEXT"
          /\ Write(MessageStart \o
                   (CASE stage = "PARAMS" -> << <<"key">> >>
                      [] stage \in {"INIT", "WAIT_NEXT"} /\ Event[2] = "params"
                           -> << <<"TUPLE">> >>
                      [] OTHER -> <<>>))
          /\ stack' = IF stage = "PARAMS" THEN stack_grow(stack, "map") ELSE stack
          /\ sync' = IF stage = "INIT" THEN Len(out) + 1 ELSE sync
          /\ batch_size' = CallCount
          /\ UNCHANGED <<been_stages, allocated, batch_mode_on, status>>

-----------------------------------------------------------------------------
(* A map or an array opens.  In params it leaves room for its header; the  *)
(* params array itself takes the bound data as its first item.             *)
Open(type) ==
  LET s == stack_grow(stack, "array")
  IN  IF ~CanPush(s) THEN Fail("stack")
      ELSE /\ stack' = Pushed(s, type)
           /\ allocated' = NewAllocated(s)
           /\ Write(IF stage # "PARAMS" THEN <<>>
                    ELSE IF type = "array" /\ Len(s) = 1 /\ has_data
                           THEN << <<"slot">>, <<"data">> >>
                    ELSE << <<"slot">> >>)
           /\ UNCHANGED <<stage, been_stages, batch_mode_on, batch_size, sync,
                          status>>

yajl_start_map == Callback("start_map") /\ Open("map")

yajl_start_array ==
  /\ Callback("start_array")
  /\ IF stage = "INIT"
       THEN /\ batch_mode_on' = TRUE
            /\ UNCHANGED <<stage, been_stages, stack, allocated, batch_size, out,
                           sync, status>>
       ELSE Open("array")

(* Params that a call did not have. *)
EmptyParams ==
  IF has_data THEN << <<"TUPLE">>, <<"array", 1>>, <<"data">> >>
  ELSE << <<"TUPLE">>, <<"array", 0>> >>

yajl_end_map ==
  /\ Callback("end_map")
  /\ LET n == Len(stack)
         item == stack[n]
     IN  CASE n = 1 ->       \* the call is complete
                /\ stack' = <<>> /\ stage' = "INIT" /\ been_stages' = {}
                /\ Write(IF "PARAMS" \in been_stages THEN <<>> ELSE EmptyParams)
                /\ UNCHANGED status
           [] n > 1 /\ stage # "PARAMS" ->
                /\ stack' = Popped(stack)
                /\ UNCHANGED <<stage, been_stages, out, status>>
           [] n > 2 /\ stage = "PARAMS" ->
                /\ stack' = Popped(stack)
                /\ out' = [out EXCEPT ![item.ptr] = <<"map", item.count>>]
                /\ UNCHANGED <<stage, been_stages, status>>
           [] OTHER ->       \* a map as "params"
                /\ status' = "params"
                /\ UNCHANGED <<stack, stage, been_stages, out>>
  /\ UNCHANGED <<allocated, batch_mode_on, batch_size, sync>>

\* Mutant: the bound data is not counted.
ItemCountNoData(n, item) == item.count

(* The items of the params array: the bound data is one of them. *)
ItemCount(n, item) == IF n = 2 /\ has_data THEN item.count + 1 ELSE item.count

yajl_end_array ==
  /\ Callback("end_array")
  /\ LET n == Len(stack)
         item == stack[n]
     IN  CASE stage # "PARAMS" ->
                /\ stack' = IF n = 0 THEN stack ELSE Popped(stack)
                /\ UNCHANGED <<stage, been_stages, out, status>>
           [] stage = "PARAMS" /\ n > 0 ->
                /\ stack' = Popped(stack)
                /\ out' = [out EXCEPT ![item.ptr] = <<"array", ItemCount(n, item)>>]
                /\ stage' = IF n = 2 THEN "WAIT_NEXT" ELSE stage
                /\ been_stages' = IF n = 2 THEN been_stages \cup {"PARAMS"}
                                  ELSE been_stages
                /\ UNCHANGED status
           [] OTHER ->
                /\ status' = "params"
                /\ UNCHANGED <<stack, stage, been_stages, out>>
  /\ UNCHANGED <<allocated, batch_mode_on, batch_size, sync>>

-----------------------------------------------------------------------------
(* yajl_json2tp_transcode looks at the beginning of the text before yajl   *)
(* does, and refuses a body that is plainly empty.                         *)
RefuseEmpty ==
  /\ status = "parsing" /\ input.compact
  /\ status' = "params"
  /\ UNCHANGED <<input, at, ctx, out, sync>>

(* yajl finds that the body is no JSON text, or it ends too early. *)
ParseError ==
  /\ status = "parsing" /\ ~input.compact
  /\ status' = "json"
  /\ UNCHANGED <<input, at, ctx, out, sync>>

(* yajl_json2tp_complete *)
Complete ==
  /\ status = "parsing" /\ ~input.compact
  /\ at = Len(input.events)
  /\ status' = "ok"
  /\ UNCHANGED <<input, at, ctx, out, sync>>

Next ==
  \/ yajl_scalar \/ yajl_integer \/ yajl_string \/ yajl_map_key
  \/ yajl_start_map \/ yajl_end_map \/ yajl_start_array \/ yajl_end_array
  \/ RefuseEmpty \/ ParseError \/ Complete

Spec == Init /\ [][Next]_vars

-----------------------------------------------------------------------------
(* Properties *)

(* The yajl_ctx_t fields keep their types: stage and been_stages their     *)
(* enumerators, allocated what a uint8_t holds.                            *)
TypeOK ==
  /\ at \in 0..Len(input.events)
  /\ stage \in {"INIT", "WAIT_NEXT", "PARAMS", "ID", "METHOD"}
  /\ been_stages \subseteq {"PARAMS", "ID", "METHOD"}
  /\ \A i \in 1..Len(stack) : /\ stack[i].type \in {"map", "array"}
                              /\ stack[i].count \in Nat
                              /\ stack[i].ptr \in Nat
  /\ allocated \in 0..(ByteSize - 1) /\ batch_mode_on \in BOOLEAN
  /\ batch_size \in Nat /\ sync \in 0..Len(out)
  /\ status \in {"parsing", "ok", "json", "id", "batch", "stack", "params"}

(* However deep a body nests, well formed or not, the items in use were    *)
(* allocated before they were written and never are more than the limit,   *)
(* though the counter of what is allocated is too narrow for that limit    *)
(* and wraps: it never does so unnoticed.                                  *)
StackFits ==
  /\ Len(stack) <= MAX_STACK_SIZE
  /\ Len(stack) <= allocated /\ allocated # 0
=============================================================================
