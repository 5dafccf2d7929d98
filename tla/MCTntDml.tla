------------------------------- MODULE MCTntDml -------------------------------
(* Locations and requests for TLC.  Numbers: 1 is allowed everywhere, 2 is  *)
(* the last of the lists, 3 is in no list and over the limit.               *)
EXTENDS TntDml

CONSTANT MaxArgs

(* Texts that differ in what the code can tell of them *)
Text(empty, num, iter, bool, op, arg) ==
  [empty |-> empty, num |-> num, iter |-> iter, bool |-> bool, op |-> op,
   arg_bool |-> arg]
Texts ==
  {Text(TRUE, -1, "none", FALSE, "no_type", FALSE),
   Text(FALSE, 1, "none", FALSE, "no_type", FALSE),
   Text(FALSE, 2, "none", FALSE, "no_type", FALSE),
   Text(FALSE, 3, "none", FALSE, "no_type", FALSE),
   Text(FALSE, -1, "all", FALSE, "no_type", FALSE),     \* all
   Text(FALSE, -1, "all_set", FALSE, "no_type", FALSE), \* all_set
   Text(FALSE, -1, "none", TRUE, "no_type", FALSE),     \* true
   Text(FALSE, -1, "none", FALSE, "ok", TRUE),          \* =,1,true
   Text(FALSE, -1, "none", FALSE, "no_field", FALSE)}   \* =,x,1

F(name, type) == [name |-> name, type |-> type, left |-> {}]
Dirty(name, type, flag) == [name |-> name, type |-> type, left |-> {flag}]

Location(req_type, spaces, indexes, format) ==
  [req_type |-> req_type, space_id |-> 1, index_id |-> 1, select_offset |-> 0,
   select_limit |-> 2, select_limit_max |-> 2, iter_type |-> "eq",
   allowed_spaces |-> spaces, allowed_indexes |-> indexes, format |-> format]

MCLocations ==
  {Location("insert", <<1, 4, 2>>, <<>>, <<F("s", "%%space_id"), F("a", "%n"), F("b", "%b")>>),
   Location("replace", <<>>, <<>>, <<F("a", "%b"), F("a", "%s"), F("s", "%%space_id")>>),
   Location("delete", <<>>, <<1, 2>>, <<F("i", "%%idx_id"), F("a", "%n")>>),
   Location("select", <<1, 2>>, <<1, 2>>, <<F("l", "%%lim"), F("i", "%%idx_id"), F("a", "%n")>>),
   Location("select", <<>>, <<>>, <<F("o", "%%off"), F("t", "%%it"), F("a", "%s")>>),
   Location("update", <<>>, <<>>, <<F("k", "%kn"), F("a", "%n"), F("b", "%b")>>),
   Location("upsert", <<>>, <<>>, <<F("k", "%b"), F("a", "%os"), F("b", "%ob")>>),
   Location("delete", <<>>, <<1, 2>>, <<F("i", "%%idx_id"), Dirty("a", "%n", "update_key")>>),
   Location("upsert", <<1, 2>>, <<>>, <<Dirty("k", "%b", "upsert_op"), F("s", "%%space_id")>>)}

Names(l) == {l.format[i].name : i \in DOMAIN l.format} \cup {"", "x"}

(* A query without '=' or of an unknown name is the same whatever its value *)
Args(l) ==
  {[key |-> k, value |-> v] : k \in Names(l) \ {"", "x"}, v \in Texts}
  \cup {[key |-> k, value |-> Text(FALSE, 1, "none", FALSE, "no_type", FALSE)] :
          k \in {"", "x"}}

MCQueriesFor(l) == UNION {[1..n -> Args(l)] : n \in 0..MaxArgs}
=============================================================================
