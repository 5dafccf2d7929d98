--------------------------- MODULE MCTntReplyToJson ---------------------------
(* Replies for TLC. *)
EXTENDS ReplyJson
LOCAL INSTANCE SequencesExt

CONSTANTS
  Multipliers  \* tnt_out_multiplier

Nil == <<"nil">>
I1 == <<"int", 1>>
I3 == <<"int", 3>>
Str == <<"str", 4>>
Scalars == {Nil, I1, Str, <<"bool", 5>>, <<"double", 9>>}
Keys == {<<"str", 3>>, <<"int", 2>>}

UpTo(S, n) == UNION {[1..k -> S] : k \in 0..n}
Arrays(S, n) == {<<"array", s>> : s \in UpTo(S, n)}
Maps(S, n) == {<<"map", s>> : s \in UpTo(Keys \X S, n)}

Flat == {Nil, I1, <<"ext">>} \cup Arrays({I1, Nil}, 2) \cup Maps({I3}, 2)
Nested ==
  Arrays(Flat, 1) \cup Maps({I1} \cup Maps({Str}, 1) \cup Arrays({I1}, 1), 2)
  \cup Maps(Maps(Maps({I1}, 1), 1), 2)

(* What a procedure or a request returns: an array of tuples. *)
Tuples == Arrays(Scalars, 2) \cup {<<"array", <<v>>>> : v \in Nested}
Results ==
  {<<"array", <<>>>>} \cup {<<"array", <<t>>>> : t \in Tuples}
  \cup {<<"array", <<t, u>>>> : t, u \in Arrays({I1}, 2)}
  \cup {<<"array", [i \in 1..8 |-> <<"array", <<Nil>>>>]>>}

Header == <<"map", << << <<"int", 1>>, I1 >>, << <<"int", 2>>, I1 >> >> >>
Bodies == {<<"map", << << <<"int", 2>>, v >> >> >> : v \in Arrays(Flat, 1)}

WireSize(t) == IF t[1] \in {"str", "double"} THEN t[2] - 1 ELSE 1
Wire(tokens) == FoldLeft(LAMBDA n, t : n + WireSize(t), 0, tokens)

Reply(c, e, vs, p, s, m) ==
  LET tokens == FlattenSeq([i \in DOMAIN vs |-> Encode(vs[i])])
  IN  [codec |-> c, error |-> e, values |-> vs, tokens |-> tokens,
       bytes |-> Wire(tokens) + 1, pure_result |-> p,
       multireturn_skip_count |-> s, out_multiplier |-> m]

MCReplies ==
  {Reply("reply", 0, <<v>>, p, s, m) :
     v \in Results, p \in BOOLEAN, s \in 0..2, m \in Multipliers}
  \cup {Reply("reply", e, <<Str>>, p, s, m) :
     e \in {1, 32801}, p \in BOOLEAN, s \in 0..2, m \in Multipliers}
  \cup {Reply("dump", 0, <<I3, Header, b>>, FALSE, 0, m) :
     b \in Bodies, m \in Multipliers}
=============================================================================
