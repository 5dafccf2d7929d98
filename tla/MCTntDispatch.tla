---------------------------- MODULE MCTntDispatch ----------------------------
(* Locations and requests for TLC. *)
EXTENDS TntDispatch

CONSTANTS r1, r2

Loc(outer, m, t, hm, rm, headers, pass) ==
  [outer |-> outer, method |-> m, req_type |-> t, http_methods |-> hm,
   http_rest_methods |-> rm, headers |-> headers, pass_http_request |-> pass]

MCRaw ==
  [ api    |-> Loc(Unset, "set", Unset, {"POST"}, {"GET"}, 1, {"ON", "PARSE_ARGS"}),
    inner  |-> Loc("api", Unset, Unset, {}, {}, 0, {"ON", "PASS_HEADERS_OUT"}),
    plain  |-> Loc(Unset, Unset, Unset, {}, {}, 0, {}),
    form   |-> Loc("api", Unset, Unset, {}, {}, 0, {"ON", "PARSE_URLENCODED"}),
    formOff |-> Loc("plain", Unset, Unset, {}, {}, 1, {"PARSE_URLENCODED"}),
    asIs   |-> Loc("plain", Unset, Unset, {"POST"}, {}, 0,
                   {"PASS_BODY", "PARSE_ARGS"}),
    insert |-> Loc("plain", Unset, "dml", {}, {}, 0, {}),
    below  |-> Loc("insert", Unset, Unset, {}, {"PUT"}, 0, {}) ]

MCLocations == DOMAIN MCRaw

Ask(l, v, u, m, n, b, t, args, form) ==
  [loc |-> l, verb |-> v, uri |-> u, method |-> m, length |-> n, body |-> b,
   content_type |-> t, values |-> args # <<>>,
   http |-> [NoHttp EXCEPT !.args = args, !.form = form, !.headers_in = 1,
                           !.headers_out = 1, !.body = n]]

Pair == <<"pair">>
Lists == {<<>>, Pair, <<"empty", "pair">>, <<"pair", "pair", "pair">>}
Bodies == {<<FALSE, "none">>, <<FALSE, "json">>, <<TRUE, "json">>, <<TRUE, "bad">>}

Requests ==
  \* what matters to the handlers, with a small map
  { Ask(l, v, u, m, b[1], b[2], "none", <<>>, <<>>) :
      l \in MCLocations, v \in {"POST", "GET", "PUT"}, u \in {<<>>, <<"a">>},
      m \in {<<>>, <<"m">>}, b \in Bodies }
  \* paths, verbs and content types
  \cup { Ask(l, v, u, <<>>, TRUE, "json", t, <<>>, <<>>) :
      l \in {"plain", "below"}, v \in {"PUT", "HEAD"},
      u \in {<<"b", "x">>, <<"", "a">>}, t \in {"none", "urlencoded", "other"} }
  \* what matters to the map
  \cup { Ask(l, "POST", <<"a">>, <<"m">>, TRUE, "json", "none", a, f) :
      l \in {"api", "inner", "form", "asIs"}, a \in Lists, f \in Lists }

(* The other request asks the same location for another function. *)
MCTraffic ==
  { [r \in R |-> IF r = r1 THEN q
       ELSE Ask(q.loc, "POST", <<"z">>, <<"n">>, TRUE, "json", "none", <<>>, Pair)] :
    q \in Requests }
=============================================================================
