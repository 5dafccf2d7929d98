------------------------------- MODULE JsonRpc -------------------------------
(***************************************************************************)
(* What a JSON-RPC document means, defined on the document itself, and     *)
(* what TntJsonToTp must make of it.  A document is                        *)
(*   [batch |-> BOOLEAN, calls |-> sequence of calls],                     *)
(* a call a sequence of <<key, value>> pairs, a value one of <<"scalar">>, *)
(* <<"integer", v>>, <<"string">>, <<"array", sequence of values>> and     *)
(* <<"map", sequence of <<key, value>> >>.  For TLC only: the definitions  *)
(* recurse over values.                                                    *)
(***************************************************************************)
EXTENDS JsonBody
LOCAL INSTANCE SequencesExt

(* The callbacks yajl makes for a value. *)
RECURSIVE Events(_)
Events(v) ==
  CASE v[1] = "array" ->
         << <<"start_array">> >>
         \o FlattenSeq([i \in DOMAIN v[2] |-> Events(v[2][i])])
         \o << <<"end_array">> >>
    [] v[1] = "map" ->
         << <<"start_map">> >>
         \o FlattenSeq([i \in DOMAIN v[2] |->
                          << <<"map_key", v[2][i][1]>> >> \o Events(v[2][i][2])])
         \o << <<"end_map">> >>
    [] OTHER -> << v >>

Body(d) ==
  Events(IF d.batch THEN <<"array", [i \in DOMAIN d.calls |-> <<"map", d.calls[i]>>]>>
         ELSE <<"map", d.calls[1]>>)

(* A value in MessagePack. *)
RECURSIVE Encode(_)
Encode(v) ==
  CASE v[1] = "array" ->
         << <<"array", Len(v[2])>> >>
         \o FlattenSeq([i \in DOMAIN v[2] |-> Encode(v[2][i])])
    [] v[1] = "map" ->
         << <<"map", Len(v[2])>> >>
         \o FlattenSeq([i \in DOMAIN v[2] |-> << <<"key">> >> \o Encode(v[2][i][2])])
    [] OTHER -> << <<"value">> >>

Has(call, key) == \E i \in DOMAIN call : call[i][1] = key
Get(call, key) == call[CHOOSE i \in DOMAIN call : call[i][1] = key][2]

(* The arguments of a call, the bound HTTP request first. *)
Args(items) ==
  << <<"TUPLE">>, <<"array", Len(items) + (IF has_data THEN 1 ELSE 0)>> >>
  \o (IF has_data THEN << <<"data">> >> ELSE <<>>)
  \o FlattenSeq([i \in DOMAIN items |-> Encode(items[i])])

(* A call in Tarantool's protocol, its fields in the document's order. *)
EncodeCall(call) ==
  << <<"header", IF Has(call, "id") THEN Get(call, "id")[2] ELSE 0>> >>
  \o (IF read_method THEN <<>> ELSE << <<"func">> >>)
  \o FlattenSeq([i \in DOMAIN call |->
       CASE call[i][1] = "params" -> Args(call[i][2][2])
         [] call[i][1] = "method" /\ read_method -> << <<"func">> >>
         [] OTHER -> <<>>])
  \o (IF Has(call, "params") THEN <<>> ELSE Args(<<>>))

-----------------------------------------------------------------------------
(* Properties *)

Calls == input.doc.calls

(* As README.md:256 demands, the id is an unsigned number, if there is one.*)
UnsignedId(call) == Has(call, "id") => Get(call, "id")[2] >= 0

(* What is sent to Tarantool for an accepted body is, call by call, what   *)
(* the document says: every array and map header announces the items that  *)
(* follow it, every call carries its own id and arguments (after the bound *)
(* data) and nothing of the fields that are to be skipped, whatever the    *)
(* order of the fields.                                                    *)
Faithful ==
  status = "ok" /\ (\A i \in DOMAIN Calls : UnsignedId(Calls[i])) =>
    out = FlattenSeq([i \in DOMAIN Calls |-> EncodeCall(Calls[i])])

(* A field that is skipped is skipped with all that it holds, as           *)
(* test/v27_features.py tests for maps and arrays of other keys: what is   *)
(* sent is the same call without the field.                                *)
SkippedIsSkipped == Faithful
=============================================================================
