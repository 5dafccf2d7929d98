---------------------------- MODULE MCTntJsonToTp ----------------------------
(* Documents for TLC. *)
EXTENDS JsonRpc

CONSTANTS
  InnerKeys   \* the keys of maps inside fields that are to be skipped

S == <<"scalar">>
Arr(items) == <<"array", items>>
Obj(fields) == <<"map", fields>>

RECURSIVE Deep(_)
Deep(n) == IF n = 0 THEN Arr(<<>>) ELSE Arr(<<Deep(n - 1)>>)

Args1 == {S, <<"integer", 1>>, <<"string">>, Arr(<<>>), Obj(<<>>),
          Arr(<<S, Obj(<< <<"id", Arr(<<S>>)>>, <<"params", S>> >>)>>)}
ParamValues == {Arr(<<>>)} \cup {Arr(<<a>>) : a \in Args1}
               \cup {Arr(<<S, a>>) : a \in Args1} \cup {Obj(<< <<"x", S>> >>)}
SkippedValues ==
  {S, <<"string">>, <<"integer", 1>>, Arr(<<S, Obj(<<>>)>>)}
  \cup {Obj(<< <<k, Arr(<<>>)>> >>) : k \in InnerKeys}
  \cup {Obj(<< <<k, Obj(<< <<k, S>> >>)>> >>) : k \in InnerKeys}

Keys == {"method", "params", "id", "meta"}
Orders ==
  UNION {{f \in [1..n -> Keys] :
            /\ \A i, j \in 1..n : i # j => f[i] # f[j]
            /\ \E i \in 1..n : f[i] = "method"} : n \in 1..4}

Call(order, p, id, m) ==
  [i \in DOMAIN order |->
     <<order[i], CASE order[i] = "method" -> <<"string">>
                   [] order[i] = "params" -> p
                   [] order[i] = "id" -> <<"integer", id>>
                   [] order[i] = "meta" -> m>>]

Single(c) == [batch |-> FALSE, calls |-> <<c>>]
Batch(cs) == [batch |-> TRUE, calls |-> cs]

CallShapes ==
  {Call(<<"method">>, S, 0, S),
   Call(<<"id", "meta", "method">>, S, 1, Arr(<<S>>)),
   Call(<<"params", "method", "id">>, Arr(<<S>>), 2, S)}

Documents ==
  {Single(Call(o, p, 1, S)) : o \in Orders, p \in ParamValues}
  \cup {Single(Call(o, Arr(<<S>>), 2, m)) : o \in Orders, m \in SkippedValues}
  \cup {Single(Call(<<"method", "id", "params">>, Arr(<<>>), id, S)) :
          id \in (-1)..(UINT32_MAX + 1)}
  \cup {Single(Call(<<"method", "params">>, Deep(n), 0, S)) : n \in 0..ByteSize}
  \cup {Batch(<<>>)}
  \cup {Batch(<<c>>) : c \in CallShapes}
  \cup {Batch(<<c, d>>) : c, d \in CallShapes}
  \cup {Batch(<<c, d, c>>) : c, d \in CallShapes}
  \cup {Batch(<<c, c, d, d>>) : c, d \in CallShapes}

Input(d, m, b, compact) ==
  [doc |-> d, events |-> Body(d), read_method |-> m, has_data |-> b, compact |-> compact]

(* Besides the documents, "[]" and "{}"; "[ ]" is the empty batch above. *)
MCInputs ==
  {Input(d, m, b, FALSE) : d \in Documents, m \in BOOLEAN, b \in BOOLEAN}
  \cup {Input(d, m, b, TRUE) : d \in {Batch(<<>>), Single(<<>>)},
                               m \in BOOLEAN, b \in BOOLEAN}

(* The callbacks of a document are those of a body, with its calls, and of *)
(* a request unless a skipped field has names inside that mean something,  *)
(* or an id is negative.                                                   *)
ASSUME BodiesAssumption ==
  \A d \in Documents :
    LET events == Body(d)
    IN  /\ IsBody(events)
        /\ Cardinality(CallStarts(events)) = Len(d.calls)
        /\ InnerKeys = {"x"} =>
             (IsRequest(events) <=> \A i \in DOMAIN d.calls : UnsignedId(d.calls[i]))
=============================================================================
