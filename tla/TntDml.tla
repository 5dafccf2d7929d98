-------------------------------- MODULE TntDml --------------------------------
(***************************************************************************)
(* tnt_insert, tnt_select, tnt_replace, tnt_delete, tnt_update, tnt_upsert:*)
(* ngx_http_tnt_dml_handler and the ngx_http_tnt_format_* functions of     *)
(* src/src/ngx_http_tnt_module.c, which turn the arguments of a query      *)
(* string or a form into one Tarantool request.  The directive names the   *)
(* arguments and their types; one pass over the arguments collects the     *)
(* values and counts them, the request header announces the counts, and a  *)
(* second pass writes the values.                                          *)
(*                                                                         *)
(* A step is one turn of one of the loops.  An argument is                 *)
(* [key, value], key = "" when it has no '='.  A value is what the code    *)
(* can tell of it:                                                         *)
(*   empty, num   it has no bytes; ngx_atoi of it, -1 when not a number    *)
(*   iter         the iterator it names, or "none"                         *)
(*   bool         it is true or false                                      *)
(*   op           as an update operation OP,FIELDNO,VALUE: "ok", or what   *)
(*                is wrong with it, "no_type" or "no_field"                *)
(*   arg_bool     VALUE is true or false                                   *)
(***************************************************************************)
EXTENDS Sequences, Counting

CONSTANTS
  Locations,   \* the locations considered, as they are configured
  QueriesFor(_)  \* the requests to a location: sequences of arguments

ReqTypes == {"insert", "select", "replace", "delete", "update", "upsert"}
SpecialOrder == <<"%%lim", "%%off", "%%it", "%%space_id", "%%idx_id">>
Specials == {SpecialOrder[n] : n \in DOMAIN SpecialOrder}
PlainTypes == {"%n", "%d", "%f", "%s", "%b"}
Iterators == <<"eq", "req", "all", "lt", "le", "ge", "gt", "all_set", "any_set",
               "all_non_set", "overlaps", "neighbor">>
KeyTypes == {"%kn", "%kd", "%kf", "%ks", "%kb"}
OpTypes == {"%on", "%od", "%of", "%os", "%ob"}
BoolTypes == {"%b", "%kb", "%ob"}

(* A location: its directive's arguments and format, the limit and the two *)
(* lists.  A list is the sequence of what stands between its commas; <<>>: *)
(* the directive is not used.  As documented, a format of tnt_update has   *)
(* its keys in front, one of tnt_upsert its operations behind.  A name     *)
(* ends in '=', so it is not empty.  left: the flags that the pool's memory*)
(* held where the slot was allocated.                                      *)
Flags == {"update_key", "upsert_op"}
FormatValue ==
  [name : STRING \ {""}, type : Specials \cup PlainTypes \cup KeyTypes \cup OpTypes,
   left : SUBSET Flags]
IsLocation(l) ==
  /\ l.req_type \in ReqTypes
  /\ {l.space_id, l.index_id, l.select_offset, l.select_limit,
      l.select_limit_max} \subseteq Nat
  /\ \E i \in DOMAIN Iterators : Iterators[i] = l.iter_type
  /\ l.allowed_spaces \in Seq(Nat) /\ l.allowed_indexes \in Seq(Nat)
  /\ l.format \in Seq(FormatValue)
  /\ \A i \in DOMAIN l.format :
       /\ l.format[i].type \in KeyTypes => l.req_type = "update"
       /\ l.format[i].type \in OpTypes => l.req_type = "upsert"
  /\ \A i, j \in DOMAIN l.format :
       i < j => /\ l.format[j].type \in KeyTypes =>
                     l.format[i].type \in KeyTypes \cup Specials
                /\ l.format[i].type \in OpTypes =>
                     l.format[j].type \in OpTypes \cup Specials

ASSUME LocationsAssumption == \A l \in Locations : IsLocation(l)

(* An argument, as above. *)
Argument ==
  [key : STRING,
   value : [empty : BOOLEAN, num : Nat \cup {-1}, iter : STRING, bool : BOOLEAN,
            op : {"ok", "no_type", "no_field"}, arg_bool : BOOLEAN]]

ASSUME QueriesAssumption ==
  \A l \in Locations : \A q \in QueriesFor(l) : q \in Seq(Argument)

VARIABLES
  loc, query, at,       \* the request, its arguments seen so far
  result,               \* ngx_http_tnt_prepared_result_t
  expects,              \* the special arguments not yet found
  values,               \* ctx->format_values: a value or NoValue for each slot
  bound, begun,         \* slots written so far; the operations' header is
  msg,                  \* the request's body
  pc,                   \* "prepare", "bind", "done", "rejected", "failed"
  err                   \* why it was rejected

vars == <<loc, query, at, result, expects, values, bound, begun, msg, pc, err>>

NoValue == [set |-> FALSE]

-----------------------------------------------------------------------------
(* ngx_http_tnt_format_compile: what the directive's format becomes.  A    *)
(* special argument given twice has its last name.                         *)
Slots(l) ==
  LET compiled[n \in 0..Len(l.format)] ==
        IF n = 0 THEN <<>>
        ELSE IF l.format[n].type \in Specials THEN compiled[n - 1]
        ELSE Append(compiled[n - 1], l.format[n])
  IN  compiled[Len(l.format)]
slots == Slots(loc)

SpecialName(l, special) ==
  LET of == {i \in DOMAIN l.format : l.format[i].type = special}
  IN  IF of = {} THEN ""
      ELSE l.format[CHOOSE i \in of : \A j \in of : j <= i].name

(* ngx_http_tnt_set_iter_type: the first name that the text begins with.   *)
BeginsWith(text, name) ==
  text = name \/ (name = "all" /\ text \in {"all_set", "all_non_set"})
set_iter_type(text) ==
  LET found == {n \in DOMAIN Iterators : BeginsWith(text, Iterators[n])}
  IN  IF found = {} THEN "none" ELSE Iterators[First(found)]

(* A slot's update_key and upsert_op: a flag that its type does not set is *)
(* what it was.                                                            *)
is_key(f) == f.type \in KeyTypes \/ "update_key" \in f.left
is_op(f) == f.type \in OpTypes \/ "upsert_op" \in f.left

(* ngx_http_tnt_read_array_of_uint: the number after the last comma is not *)
(* read, its test is never true.                                           *)
read_array_of_uint(list) == SubSeq(list, 1, Len(list) - 1)

test_allowed(list, val) ==
  list # <<>> => \E i \in DOMAIN read_array_of_uint(list) : list[i] = val

-----------------------------------------------------------------------------
(* ngx_http_tnt_format_init *)
Init ==
  /\ loc \in Locations
  /\ query \in QueriesFor(loc)
  /\ at = 0
  /\ result = [space_id |-> loc.space_id, index_id |-> loc.index_id,
               limit |-> loc.select_limit, offset |-> loc.select_offset,
               iter_type |-> set_iter_type(loc.iter_type), tuples_count |-> 0,
               update_keys_count |-> 0, upsert_tuples_count |-> 0]
  /\ expects = {s \in Specials : SpecialName(loc, s) # ""}
  /\ values = [i \in DOMAIN slots |-> NoValue]
  /\ bound = 0 /\ begun = FALSE /\ msg = <<>>
  /\ pc = "prepare" /\ err = "none"

Arg == query[at + 1]

(* ngx_http_tnt_format_prepare: the next argument *)
NextArg ==
  /\ pc = "prepare"
  /\ at < Len(query)
  /\ at' = at + 1
  /\ UNCHANGED <<loc, query, bound, begun, msg>>

Field(special) ==
  CASE special = "%%lim" -> "limit" [] special = "%%off" -> "offset"
    [] special = "%%it" -> "iter_type" [] special = "%%space_id" -> "space_id"
    [] special = "%%idx_id" -> "index_id"

\* Mutant: the sign of ngx_atoi's result is not looked at.
UsableAnyNumber(special, v) ==
  special # "%%it" \/ set_iter_type(v.iter) # "none"

(* Whether a special argument's value can be used, and what it gives. *)
Usable(special, v) ==
  IF special = "%%it" THEN set_iter_type(v.iter) # "none" ELSE v.num >= 0
Given(special, v) == IF special = "%%it" THEN set_iter_type(v.iter) ELSE v.num

\* Mutant: >= for >.
OverLimitAtMax(v) == v.num >= loc.select_limit_max
OverLimit(v) == v.num > loc.select_limit_max

(* The special arguments that it may be, by their place in SpecialOrder,   *)
(* which is the order they are tried in.                                   *)
Awaited ==
  {n \in DOMAIN SpecialOrder : /\ SpecialOrder[n] \in expects
                               /\ Arg.key = SpecialName(loc, SpecialOrder[n])}

(* A special argument that is still awaited; an unusable value leaves it   *)
(* awaited.                                                                *)
PrepareSpecial ==
  /\ NextArg
  /\ Arg.key # ""
  /\ Awaited # {}
  /\ LET s == SpecialOrder[First(Awaited)]
     IN  IF s = "%%lim" /\ OverLimit(Arg.value)
         THEN /\ pc' = "rejected" /\ err' = "not_allowed"
              /\ result' = [result EXCEPT !.limit = loc.select_limit_max]
              /\ UNCHANGED expects
         ELSE /\ IF Usable(s, Arg.value)
                   THEN /\ result' = [result EXCEPT ![Field(s)] = Given(s, Arg.value)]
                        /\ expects' = expects \ {s}
                   ELSE /\ result' = IF s = "%%lim"
                                       THEN [result EXCEPT !.limit = loc.select_limit_max]
                                       ELSE result
                        /\ UNCHANGED expects
              /\ UNCHANGED <<pc, err>>
  /\ UNCHANGED values

\* Mutant: a slot that has its value is taken again.
FreeSlotsAny(key) == {i \in DOMAIN slots : slots[i].name = key}

(* ngx_http_tnt_format_prepare_kv: the first slot of that name that has no *)
(* value, or an empty one.                                                 *)
FreeSlots(key) ==
  {i \in DOMAIN slots :
     slots[i].name = key /\ (values[i] = NoValue \/ values[i].empty)}

Counter(i) ==
  CASE is_key(slots[i]) -> "update_keys_count"
    [] is_op(slots[i]) -> "upsert_tuples_count"
    [] OTHER -> "tuples_count"

PrepareKv ==
  /\ NextArg
  /\ Arg.key # ""
  /\ Awaited = {}
  /\ IF FreeSlots(Arg.key) = {} THEN UNCHANGED <<values, result>>
     ELSE LET i == First(FreeSlots(Arg.key))
          IN  /\ values' = [values EXCEPT ![i] = Arg.value]
              /\ result' = [result EXCEPT ![Counter(i)] = @ + 1]
  /\ UNCHANGED <<expects, pc, err>>

SkipArg ==
  /\ NextArg
  /\ Arg.key = ""
  /\ UNCHANGED <<result, expects, values, pc, err>>

(* The array that the request's header ends in, of key parts or of fields. *)
HeadArray ==
  << <<"array", IF loc.req_type = "update" THEN result.update_keys_count
                ELSE result.tuples_count>> >>

\* Mutant: the directive's numbers are tested, not the client's.
AllowedByDefault ==
  /\ test_allowed(loc.allowed_spaces, loc.space_id)
  /\ test_allowed(loc.allowed_indexes, loc.index_id)
Allowed ==
  /\ test_allowed(loc.allowed_spaces, result.space_id)
  /\ test_allowed(loc.allowed_indexes, result.index_id)

(* The end of the arguments: the checks, then the header (dml_handler). *)
PrepareEnd ==
  /\ pc = "prepare"
  /\ at = Len(query)
  /\ CASE ~Allowed -> pc' = "rejected" /\ err' = "not_allowed" /\ UNCHANGED msg
       [] Allowed /\ expects # {} ->
            pc' = "rejected" /\ err' = "format" /\ UNCHANGED msg
       [] OTHER -> pc' = "bind" /\ msg' = HeadArray /\ UNCHANGED err
  /\ UNCHANGED <<loc, query, at, result, expects, values, bound, begun>>

-----------------------------------------------------------------------------
(* ngx_http_tnt_format_bind: the next slot *)

(* Its value is an operation, and the operations begin with it. *)
IsOperation(i) ==
  CASE loc.req_type = "update" -> begun \/ ~is_key(slots[i])
    [] loc.req_type = "upsert" -> is_op(slots[i])
    [] OTHER -> FALSE
OpsCount ==
  IF loc.req_type = "update" THEN result.tuples_count
  ELSE result.upsert_tuples_count

Fits(f, v, operation) ==
  /\ operation => v.op = "ok"
  /\ f.type \in BoolTypes => IF operation THEN v.arg_bool ELSE v.bool

Bind ==
  /\ pc = "bind"
  /\ bound < Len(slots)
  /\ bound' = bound + 1
  /\ LET i == bound + 1
         v == values[i]
     IN  IF v = NoValue THEN UNCHANGED <<msg, begun, pc, err>>
         ELSE IF ~Fits(slots[i], v, IsOperation(i))
           THEN /\ pc' = "rejected" /\ err' = "value"
                /\ msg' = <<>>
                /\ UNCHANGED begun
         ELSE /\ msg' = msg
                   \o (IF IsOperation(i) /\ ~begun THEN << <<"ops", OpsCount>> >> ELSE <<>>)
                   \o (IF IsOperation(i) THEN << <<"op", v>> >> ELSE <<>>)
                   \o << <<"value", v>> >>
              /\ begun' = (begun \/ IsOperation(i))
              /\ UNCHANGED <<pc, err>>
  /\ UNCHANGED <<loc, query, at, result, expects, values>>

BindEnd ==
  /\ pc = "bind"
  /\ bound = Len(slots)
  /\ pc' = "done"
  /\ UNCHANGED <<loc, query, at, result, expects, values, bound, begun, msg, err>>

(* NGX_ERROR: the body is in a file (before the first argument), or the    *)
(* request does not fit tnt_pass_http_request_buffer_size.                 *)
Fail ==
  /\ \/ pc = "prepare" /\ at = 0
     \/ pc = "bind"
  /\ pc' = "failed"
  /\ UNCHANGED <<loc, query, at, result, expects, values, bound, begun, msg, err>>

Next ==
  \/ PrepareSpecial \/ PrepareKv \/ SkipArg \/ PrepareEnd
  \/ Bind \/ BindEnd
  \/ Fail

Spec == Init /\ [][Next]_vars

-----------------------------------------------------------------------------
(* What a request means, defined on the query as a whole *)

Occurrences(name) == {a \in DOMAIN query : query[a].key = name}

(* The first usable value of a special argument. *)
UsableArgs(special) ==
  {a \in Occurrences(SpecialName(loc, special)) :
     SpecialName(loc, special) # "" /\ Usable(special, query[a].value)}
Meant(special, default) ==
  IF UsableArgs(special) = {} THEN default
  ELSE Given(special, query[First(UsableArgs(special))].value)

(* The k-th slot of a name has the k-th argument of that name. *)
SlotsNamed(name) == {i \in DOMAIN slots : slots[i].name = name}
ArgFor(i) ==
  {a \in Occurrences(slots[i].name) :
     Place(a, Occurrences(slots[i].name)) = Place(i, SlotsNamed(slots[i].name))}
MeantValue(i) ==
  IF ArgFor(i) = {} THEN NoValue ELSE query[First(ArgFor(i))].value

IsOpSlot(i) ==
  IF loc.req_type = "update" THEN ~is_key(slots[i]) ELSE is_op(slots[i])
MeantSlots(ops) ==
  {i \in DOMAIN slots : MeantValue(i) # NoValue /\ IsOpSlot(i) = ops}

(* The values of some of the slots, written in the slots' order. *)
Part(v, op) == (IF op THEN << <<"op", v>> >> ELSE <<>>) \o << <<"value", v>> >>
Written(vals, set, op) ==
  LET upto[n \in 0..Len(vals)] ==
        IF n = 0 THEN <<>>
        ELSE upto[n - 1] \o (IF n \in set THEN Part(vals[n], op) ELSE <<>>)
  IN  upto

MeantMessage ==
  LET vals == [i \in DOMAIN slots |-> MeantValue(i)]
      fields == MeantSlots(FALSE)
      ops == MeantSlots(TRUE)
  IN  << <<"array", Cardinality(fields)>> >>
      \o Written(vals, fields, FALSE)[Len(vals)]
      \o (IF ops = {} THEN <<>> ELSE << <<"ops", Cardinality(ops)>> >>)
      \o Written(vals, ops, TRUE)[Len(vals)]

(* A name stands for one special argument, or for slots. *)
OwnNames ==
  \A s \in Specials :
    SpecialName(loc, s) # "" =>
      /\ \A t \in Specials \ {s} : SpecialName(loc, t) # SpecialName(loc, s)
      /\ SlotsNamed(SpecialName(loc, s)) = {}

(* Names are not ambiguous, no argument is repeated after it was empty, an *)
(* update updates, and the slots' memory was zero.                         *)
Regular ==
  /\ OwnNames
  /\ \A i \in DOMAIN slots : slots[i].left = {}
  /\ \A i, j \in DOMAIN query :
       i < j /\ query[i].key = query[j].key => ~query[i].value.empty
  /\ loc.req_type = "update" => MeantSlots(TRUE) # {}

-----------------------------------------------------------------------------
(* Properties *)

(* Types of the prepared result, the context and the message. *)
TypeOK ==
  /\ at \in 0..Len(query) /\ bound \in 0..Len(slots) /\ begun \in BOOLEAN
  /\ {result.space_id, result.index_id, result.limit, result.offset,
      result.tuples_count, result.update_keys_count,
      result.upsert_tuples_count} \subseteq Nat
  /\ result.iter_type # "none"
  /\ expects \subseteq Specials
  /\ DOMAIN values = DOMAIN slots
  /\ pc \in {"prepare", "bind", "done", "rejected", "failed"}
  /\ err \in {"none", "not_allowed", "format", "value"}

(* In whatever order the arguments come, the request that is sent has the  *)
(* values in the order of the format, the k-th argument of a name in the   *)
(* k-th slot of that name; every array header announces exactly the items  *)
(* that follow; space, index, offset, limit and iterator are the client's  *)
(* where the format lets it choose them.                                   *)
SentAsMeant ==
  pc = "done" /\ Regular =>
    /\ msg = MeantMessage
    /\ result.space_id = Meant("%%space_id", loc.space_id)
    /\ result.index_id = Meant("%%idx_id", loc.index_id)
    /\ result.offset = Meant("%%off", loc.select_offset)
    /\ result.limit = Meant("%%lim", loc.select_limit)
    /\ result.iter_type = Meant("%%it", set_iter_type(loc.iter_type))

InList(list, val) == list # <<>> => \E i \in DOMAIN list : list[i] = val

(* No request reaches a space or an index that the location's lists do not *)
(* name, or asks for more tuples than tnt_select_limit_max, wherever the   *)
(* numbers came from and however often they were given.                    *)
SentIsAllowed ==
  pc = "done" =>
    /\ InList(loc.allowed_spaces, result.space_id)
    /\ InList(loc.allowed_indexes, result.index_id)
    /\ SpecialName(loc, "%%lim") # "" => result.limit <= loc.select_limit_max

LimitExceeded ==
  \E i \in DOMAIN query : /\ query[i].key # ""
                          /\ query[i].key = SpecialName(loc, "%%lim")
                          /\ query[i].value.num > loc.select_limit_max

(* A request is rejected only for what its error says: a limit, space or   *)
(* index that is not allowed, a special argument that is missing or has no *)
(* usable value, a value that is not of its slot's type.                   *)
RejectedForCause ==
  OwnNames =>
    /\ err = "not_allowed" =>
         \/ LimitExceeded
         \/ ~test_allowed(loc.allowed_spaces, Meant("%%space_id", loc.space_id))
         \/ ~test_allowed(loc.allowed_indexes, Meant("%%idx_id", loc.index_id))
    /\ err = "format" =>
         \E s \in Specials : SpecialName(loc, s) # "" /\ UsableArgs(s) = {}
    /\ err = "value" /\ Regular =>
         \E i \in DOMAIN slots :
           /\ MeantValue(i) # NoValue
           /\ ~Fits(slots[i], MeantValue(i), IsOpSlot(i))

(* "each space in the list is allowed to access from the client side"      *)
(* (README.md:1313), and so for indexes.                                   *)
ListedAreServed ==
  err = "not_allowed" =>
    \/ LimitExceeded
    \/ ~InList(loc.allowed_spaces, Meant("%%space_id", loc.space_id))
    \/ ~InList(loc.allowed_indexes, Meant("%%idx_id", loc.index_id))
=============================================================================
