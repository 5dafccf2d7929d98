------------------------------- MODULE JsonBody -------------------------------
(***************************************************************************)
(* What the callbacks say of a body, whatever the code makes of them, and  *)
(* what TntJsonToTp must make of it.                                       *)
(***************************************************************************)
EXTENDS TntJsonToTp, Counting

Openings(events) ==
  {n \in DOMAIN events : events[n][1] \in {"start_map", "start_array"}}
Closings(events) ==
  {n \in DOMAIN events : events[n][1] \in {"end_map", "end_array"}}

(* The maps and arrays open after the first n callbacks. *)
Nesting(events, n) == Place(n, Openings(events)) - Place(n, Closings(events))

(* How deep the calls are: a batch is an array of them. *)
Level(events) == IF events[1][1] = "start_array" THEN 1 ELSE 0

(* The callbacks that open a call. *)
CallStarts(events) ==
  {n \in DOMAIN events : /\ events[n][1] = "start_map"
                         /\ Nesting(events, n - 1) = Level(events)}

(* The callbacks of one JSON text that is a map or an array of maps, none  *)
(* of these empty: all else about what they hold is left open.             *)
IsBody(events) ==
  /\ events # <<>> /\ events[1][1] \in {"start_map", "start_array"}
  /\ \A n \in DOMAIN events :
       /\ IF n = Len(events) THEN Nesting(events, n) = 0 ELSE Nesting(events, n) > 0
       /\ Nesting(events, n - 1) = Level(events) =>
            events[n][1] \in {"start_map", "end_array"}
       /\ n \in Closings(events) /\ Nesting(events, n) = Level(events) =>
            events[n][1] = "end_map"
       /\ n - 1 \in CallStarts(events) => events[n][1] = "map_key"

-----------------------------------------------------------------------------
(* Requests: bodies whose calls have fields of the right kind *)

(* The map or array at a depth that opened last, and the one that callback *)
(* n is directly in.                                                       *)
Opener(events, n, depth) ==
  Latest(n, {m \in Openings(events) : Nesting(events, m) = depth})
Inside(events, n) == Opener(events, n - 1, Nesting(events, n - 1))

Values(events) ==
  {n \in DOMAIN events : events[n][1] \notin {"map_key", "end_map", "end_array"}}
MapKeys(events) == {n \in DOMAIN events : events[n][1] = "map_key"}

(* The keys of the calls, and the one whose field callback n is in. *)
CallKeys(events) ==
  {n \in MapKeys(events) : Nesting(events, n) = Level(events) + 1}
Field(events, n) == events[Latest(n, CallKeys(events))][2]

(* The keys and values of the maps alternate, and what ends is what began. *)
IsJson(events) ==
  \A n \in DOMAIN events \ {1} :
    LET opened == events[Inside(events, n)][1]
    IN  /\ n \in Closings(events) =>
             (opened = "start_map" <=> events[n][1] = "end_map")
        /\ n \in MapKeys(events) => opened = "start_map" /\ n + 1 \in Values(events)
        /\ n \in Values(events) /\ opened = "start_map" => n - 1 \in MapKeys(events)

(* The fields that the codec reads have values that it may refuse but not  *)
(* mistake, ids being unsigned as README.md:256 demands, and a field that  *)
(* it skips has none of their names inside.                                *)
IsRequest(events) ==
  /\ IsBody(events) /\ IsJson(events)
  /\ \A n \in CallKeys(events) :
       /\ events[n][2] = "params" => n + 1 \in Openings(events)
       /\ events[n][2] = "id"     => events[n + 1][1] = "integer" /\ events[n + 1][2] \in Nat
       /\ events[n][2] = "method" => events[n + 1][1] = "string"
  /\ \A n \in MapKeys(events) \ CallKeys(events) :
       events[n][2] \in {"params", "id", "method"} => Field(events, n) = "params"

-----------------------------------------------------------------------------
(* What is to be written for a request *)

(* The items of the array, or the keys of the map, that opens at n. *)
Items(events, n) ==
  {m \in IF events[n][1] = "start_map" THEN MapKeys(events) ELSE Values(events) :
     m > 1 /\ Inside(events, m) = n}

(* The id of the call that opens at n: the last one given. *)
Ids(events, n) ==
  {m \in Values(events) : /\ m > 1 /\ Inside(events, m) = n
                          /\ events[m][1] = "integer" /\ events[m - 1][2] = "id"}
Id(events, n) ==
  IF Ids(events, n) = {} THEN 0 ELSE events[Latest(Len(events), Ids(events, n))][2]

(* Callback n is of the value of a call's params, its ends included. *)
InParams(events, n) ==
  /\ \/ Nesting(events, n - 1) > Level(events) + 1
     \/ Nesting(events, n) > Level(events) + 1
  /\ Field(events, n) = "params"

(* The header of what opens at n in params; of the params array the bound  *)
(* HTTP request is the first item.                                         *)
IsArgs(events, n) ==
  events[n][1] = "start_array" /\ Nesting(events, n) = Level(events) + 2
Header(in, n) ==
  LET items == Cardinality(Items(in.events, n))
  IN  IF in.events[n][1] = "start_map" THEN <<"map", items>>
      ELSE <<"array",
             IF in.has_data /\ IsArgs(in.events, n) THEN items + 1 ELSE items>>

(* What callback n means. *)
Beginning(in, n) ==
  IF n - 1 \notin CallStarts(in.events) THEN <<>>
  ELSE << <<"header", Id(in.events, n - 1)>> >>
       \o (IF in.read_method THEN <<>> ELSE << <<"func">> >>)
ParamsMeaning(in, n) ==
  CASE n \in MapKeys(in.events)     -> << <<"key">> >>
    [] n \in Openings(in.events) ->
         IF in.has_data /\ IsArgs(in.events, n) THEN << Header(in, n), <<"data">> >>
         ELSE << Header(in, n) >>
    [] n \in Closings(in.events) -> <<>>
    [] OTHER                     -> << <<"value">> >>
LacksParams(ev, n) ==
  /\ n \in Closings(ev) /\ Nesting(ev, n) = Level(ev)
  /\ ~\E k \in Items(ev, Inside(ev, n)) : ev[k][2] = "params"
OwnMeaning(in, n) ==
  LET FieldIs(k, name) == k \in CallKeys(in.events) /\ in.events[k][2] = name
  IN  IF FieldIs(n, "params") THEN << <<"TUPLE">> >>
      ELSE IF FieldIs(n - 1, "method") /\ in.read_method THEN << <<"func">> >>
      ELSE IF ~LacksParams(in.events, n) THEN <<>>
      ELSE IF in.has_data THEN << <<"TUPLE">>, <<"array", 1>>, <<"data">> >>
      ELSE << <<"TUPLE">>, <<"array", 0>> >>
Meaning(in, n) ==
  IF InParams(in.events, n) THEN ParamsMeaning(in, n)
  ELSE Beginning(in, n) \o OwnMeaning(in, n)

Encoded(in) ==
  LET upTo[n \in 0..Len(in.events)] ==
        IF n = 0 THEN <<>> ELSE upTo[n - 1] \o Meaning(in, n)
  IN  upTo

-----------------------------------------------------------------------------
(* Properties *)

(* The number of calls that ngx_http_tnt_body_handler puts into            *)
(* ctx->batch_size, and so of the replies it will wait for and bracket, is *)
(* that of the maps that are not in another one, whatever they hold.       *)
BatchSizeIsCalls ==
  status = "ok" => batch_size = Cardinality(CallStarts(input.events))

(* The stack holds the open maps and arrays, not the batch array; between  *)
(* two calls it is empty and nothing of a call is remembered.              *)
StackMirrorsNesting ==
  status \in {"parsing", "ok"} =>
    LET open == Nesting(input.events, at)
    IN  /\ Len(stack) = open - (IF batch_mode_on /\ open > 0 THEN 1 ELSE 0)
        /\ stack = <<>> => stage = "INIT" /\ been_stages = {}

(* How deep a call may nest: where the counter of what is allocated would  *)
(* wrap, 240, and not MAX_STACK_SIZE, unless that comes first.             *)
MaxDepth ==
  IF MAX_STACK_SIZE < ByteSize - StackChunk THEN MAX_STACK_SIZE
  ELSE ByteSize - StackChunk

(* No body within the limits is refused: as too large only one with more   *)
(* than MAX_BATCH_SIZE calls, as too deep only one that nests deeper than  *)
(* the stack can grow, and no deeper one is read on or accepted.  Of what  *)
(* is done with MAX_BATCH_SIZE + 1 calls this says nothing: the code lets  *)
(* them through, as it counts a call after the test, though its message    *)
(* says that MAX_BATCH_SIZE are the most.                                  *)
RefusedBeyondLimits ==
  LET calls == Cardinality(CallStarts(input.events))
      depth == Nesting(input.events, at) - Level(input.events)
  IN  /\ status = "batch" => calls > MAX_BATCH_SIZE
      /\ status = "stack" => depth > MaxDepth
      /\ status \in {"parsing", "ok"} => depth <= MaxDepth

(* What is sent for a request that is accepted is what its callbacks mean, *)
(* one after the other: each array and map of the params with the number   *)
(* of its items, each call with its id, wherever in the call it stands,    *)
(* its method and its params, or empty ones.                               *)
WritesTheCalls ==
  status = "ok" /\ IsRequest(input.events) =>
    out = Encoded(input)[Len(input.events)]

(* Of a request an id above UINT32_MAX and params that are no array are    *)
(* refused, and these errors are given for nothing else: a body that is    *)
(* refused for its params has a call whose params are a map, or no call.   *)
ErrorsAreTrue ==
  IsRequest(input.events) =>
    LET FieldIs(k, Wrong(_)) ==
          \E n \in CallKeys(input.events) :
            input.events[n][2] = k /\ Wrong(input.events[n + 1])
        badId == FieldIs("id", LAMBDA e : e[2] > UINT32_MAX)
        badParams == FieldIs("params", LAMBDA e : e[1] # "start_array")
    IN  /\ status = "id" => badId
        /\ status = "params" => badParams \/ CallStarts(input.events) = {}
        /\ status = "ok" => ~badId /\ ~badParams
=============================================================================
