------------------------------ MODULE ReplyJson ------------------------------
(***************************************************************************)
(* What the JSON of a reply is, defined on the reply as a value, and what  *)
(* TntReplyToJson must make of it.  input.values holds the values that the *)
(* tokens encode: one, or a dump's three.  A value is a token of           *)
(* TntReplyToJson, or <<"array", sequence of values>>, or                  *)
(* <<"map", sequence of <<key, value>> >>.  For TLC only: the definitions  *)
(* recurse over values.                                                    *)
(***************************************************************************)
EXTENDS ReplyText
LOCAL INSTANCE SequencesExt

RECURSIVE Encode(_)
Encode(v) ==
  CASE v[1] = "array" ->
         << <<"array", Len(v[2])>> >>
         \o FlattenSeq([i \in DOMAIN v[2] |-> Encode(v[2][i])])
    [] v[1] = "map" ->
         << <<"map", Len(v[2])>> >>
         \o FlattenSeq([i \in DOMAIN v[2] |->
                          Encode(v[2][i][1]) \o Encode(v[2][i][2])])
    [] OTHER -> << v >>

(* Texts with commas between them. *)
Listed(texts) ==
  FlattenSeq([i \in DOMAIN texts |-> IF i = 1 THEN texts[i] ELSE << <<",">> >> \o texts[i]])

RECURSIVE Json(_)
Json(v) ==
  CASE v[1] = "array" ->
         << <<"[">> >> \o Listed([i \in DOMAIN v[2] |-> Json(v[2][i])]) \o << <<"]">> >>
    [] v[1] = "map" ->
         << <<"{">> >>
         \o Listed([i \in DOMAIN v[2] |->
              << <<"quoted", v[2][i][1]>>, <<":">> >> \o Json(v[2][i][2])])
         \o << <<"}">> >>
    [] OTHER -> << <<IF v[1] = "str" THEN "quoted" ELSE "plain", v>> >>

(* README.md:975: "skip one or more multireturn parts", [[1]], [1] or 1.   *)
RECURSIVE Unwrapped(_, _)
Unwrapped(v, n) == IF n = 0 THEN v ELSE Unwrapped(v[2][1], n - 1)

Answer ==
  Wrapped(input,
    IF input.codec = "dump" THEN FlattenSeq([i \in DOMAIN input.values |-> Json(input.values[i])])
    ELSE IF input.error # 0 THEN <<>>
    ELSE Json(Unwrapped(input.values[1], input.multireturn_skip_count)))

-----------------------------------------------------------------------------
(* The values that have a JSON the code can give them: there is something  *)
(* to unwrap, keys are strings or integers, no extensions, and no integer  *)
(* is the key of a pair that follows one with a map in it.                 *)
RECURSIVE HasMap(_)
HasMap(v) ==
  \/ v[1] = "map"
  \/ v[1] = "array" /\ \E i \in DOMAIN v[2] : HasMap(v[2][i])

RECURSIVE Printable(_)
Printable(v) ==
  CASE v[1] = "array" -> \A i \in DOMAIN v[2] : Printable(v[2][i])
    [] v[1] = "map" ->
         \A i \in DOMAIN v[2] :
           /\ v[2][i][1][1] \in {"str", "int"} /\ Printable(v[2][i][2])
           /\ v[2][i][1][1] = "int" => \A j \in 1..(i - 1) : ~HasMap(v[2][j][2])
    [] OTHER -> v[1] # "ext"

RECURSIVE Unwraps(_, _)
Unwraps(v, n) ==
  n = 0 \/ (v[1] = "array" /\ Len(v[2]) > 0 /\ Unwraps(v[2][1], n - 1))

Regular ==
  /\ \A i \in DOMAIN input.values : Printable(input.values[i])
  /\ input.error = 0 /\ input.codec = "reply"
       => Unwraps(input.values[1], input.multireturn_skip_count)

-----------------------------------------------------------------------------
(* Properties *)

(* What the client is given is the JSON of the value that Tarantool sent,  *)
(* and ReplyText, which is about tokens only, calls the same replies       *)
(* legible.                                                                *)
WritesTheReply ==
  pc = "done" /\ Regular => out = Answer /\ (input.error = 0 => IsLegible(input))
=============================================================================
