------------------------------ MODULE TntDispatch ------------------------------
(***************************************************************************)
(* From nginx's content phase to the encoded request: requests of a worker *)
(* go through ngx_http_tnt_handler, which chooses the method's name and    *)
(* the handler that will encode the request, then nginx reads the body,    *)
(* and serves others meanwhile, then it calls that create_request handler. *)
(*                                                                         *)
(* What the handlers write is abstracted to what it was made of; the map   *)
(* of the HTTP request is TntRequestData's, JSON bodies are TntJsonToTp's, *)
(* DML requests TntDml's, what becomes of the request TntUpstream's.       *)
(***************************************************************************)
EXTENDS TntRequestData

CONSTANTS
  R,            \* requests
  Traffic,      \* what they may be: functions from R
  Locations,
  raw,          \* raw[l]: what the configuration sets in location l
  CallHeader    \* units of a call's header

Unset == "unset"
AllowedMethods == {"POST", "GET", "PUT", "PATCH", "DELETE"}

(* A path is the sequence of what stands between its slashes; a method's   *)
(* name is one such piece, or all of a path; <<>> is no name.              *)
(* method: the value of tnt_method's expression for this request.          *)
(* length: Content-Length is greater than zero (not so for chunked bodies).*)
(* body: "none", "json", or "bad": no JSON.                                *)
(* values: whether the expressions of tnt_set_header give it values.       *)
IsHttpRequest(q) ==
  /\ q.loc \in Locations
  /\ q.length => q.body # "none"
  /\ q.content_type \in {"none", "urlencoded", "other"}
  /\ q.values \in BOOLEAN
  /\ IsHttp(q.http) /\ q.http.body = q.length

(* outer: the location it is nested in, or Unset.  tnt_method is set to an *)
(* expression, or not; the bit masks are sets, empty when not set; headers *)
(* is how many tnt_set_header there are.                                   *)
IsRaw(c) ==
  /\ c.outer \in Locations \cup {Unset}
  /\ c.method \in {"set", Unset} /\ c.req_type \in {"call", "dml", Unset}
  /\ c.http_methods \subseteq AllowedMethods
  /\ c.http_rest_methods \subseteq AllowedMethods
  /\ c.headers \in Nat

ASSUME LocationsAssumption == \A l \in Locations : IsRaw(raw[l])
ASSUME TrafficAssumption ==
  \A t \in Traffic :
    DOMAIN t = R /\ \A r \in R : IsHttpRequest(t[r])
(* A call's header, with a name of at most 127 bytes, is there before the  *)
(* map: query_handler tests that it fits.                                  *)
ASSUME CallHeaderAssumption == CallHeader \in 0..BufSize

VARIABLES
  reqs,           \* the requests
  method,         \* tlcf->method, one for each location
  pc,             \* "new", "reading", "ready", "encoding", "end"
  headers_in,     \* r->headers_in.headers: how many
  preset_method,  \* ngx_http_tnt_ctx_t
  create_request, \* the handler: "body", "query", "dml"
  in_file,        \* nginx has put the body into a file
  result,         \* what was made of the request
  running         \* the request whose create_request runs

dispatchVars ==
  <<reqs, method, pc, headers_in, preset_method, create_request, in_file, result, running>>
vars == <<dispatchVars, encoderVars>>

\* Nobody is no request.
ASSUME NobodyAssumption == "nobody" \notin R

NoResult == [kind |-> "none", method |-> <<>>, data |-> <<>>, body |-> FALSE]
Nobody == "nobody"

-----------------------------------------------------------------------------
(* ngx_http_tnt_merge_loc_conf *)

MergePtr(prev, conf) == IF conf = Unset THEN prev ELSE conf

MergeMask(prev, conf, default) ==
  IF conf # {} THEN conf ELSE IF prev # {} THEN prev ELSE default

Merge(prev, conf) ==
  [method |-> MergePtr(prev.method, conf.method),
   req_type |-> IF conf.req_type # Unset THEN conf.req_type
                ELSE IF prev.req_type # Unset THEN prev.req_type ELSE "call",
   http_methods |->
     MergeMask(prev.http_methods, conf.http_methods, {"POST", "DELETE"}),
   http_rest_methods |->
     MergeMask(prev.http_rest_methods, conf.http_rest_methods, {"GET", "PUT"}),
   pass_http_request |->
     MergeMask(prev.pass_http_request, conf.pass_http_request, {"OFF"}),
   headers |-> IF conf.headers # 0 THEN conf.headers ELSE prev.headers]

Server ==
  [method |-> Unset, req_type |-> Unset, http_methods |-> {},
   http_rest_methods |-> {}, pass_http_request |-> {}, headers |-> 0]

Conf ==
  [l \in Locations |->
     IF raw[l].outer = Unset THEN Merge(Server, raw[l])
     ELSE Merge(Merge(Server, raw[raw[l].outer]), raw[l])]

-----------------------------------------------------------------------------
Init ==
  /\ reqs \in Traffic
  /\ method = [l \in Locations |-> <<>>]
  /\ pc = [r \in R |-> "new"]
  /\ headers_in = [r \in R |-> reqs[r].http.headers_in]
  /\ preset_method = [r \in R |-> <<>>]
  /\ create_request = [r \in R |-> "none"]
  /\ in_file = [r \in R |-> FALSE]
  /\ result = [r \in R |-> NoResult]
  /\ running = Nobody
  /\ EncoderIdle

\* Mutant: the request is closed and nothing was made of it.
EndsUnanswered(r, res) ==
  /\ pc' = [pc EXCEPT ![r] = "end"]
  /\ UNCHANGED result
Ends(r, res) ==
  /\ result' = [result EXCEPT ![r] = res]
  /\ pc' = [pc EXCEPT ![r] = "end"]

-----------------------------------------------------------------------------
(* ngx_http_tnt_handler *)

(* tnt_method is evaluated into the configuration of the location.         *)
Evaluated(q) ==
  IF Conf[q.loc].method = "set" THEN [method EXCEPT ![q.loc] = q.method]
  ELSE method

\* Mutant: a header without a value is added too.
process_headersAll(r) ==
  headers_in' = [headers_in EXCEPT ![r] = @ + Conf[reqs[r].loc].headers]
(* ngx_http_tnt_process_headers: the headers of tnt_set_header that have a *)
(* value become headers of the request.                                    *)
process_headers(r) ==
  headers_in' =
    [headers_in EXCEPT ![r] =
       @ + IF reqs[r].values THEN Conf[reqs[r].loc].headers ELSE 0]

\* Mutant: what the outer location lists is not inherited.
ListedHere(q) ==
  q.verb \in raw[q.loc].http_methods \cup raw[q.loc].http_rest_methods
Listed(q) ==
  q.verb \in Conf[q.loc].http_methods \cup Conf[q.loc].http_rest_methods

(* NGX_HTTP_NOT_ALLOWED, also for a DML request with another content type. *)
NotAllowed(q, m) ==
  \/ m = <<>> /\ q.uri = <<>>
  \/ q.verb \notin AllowedMethods
  \/ ~Listed(q)
  \/ Conf[q.loc].req_type = "dml" /\ q.content_type = "other"

(* The first piece of the path; all of it if that is empty.                *)
FromUri(uri) == IF uri[1] # "" THEN <<uri[1]>> ELSE uri

(* What ngx_http_tnt_set_method copies to ctx->preset_method.  (Its error  *)
(* is for an empty path, which NotAllowed has refused.)                    *)
set_method(q, m) ==
  IF m # <<>> THEN m
  ELSE IF q.verb \in Conf[q.loc].http_rest_methods THEN FromUri(q.uri)
  ELSE <<>>

\* Mutant: a body is expected of the methods of tnt_http_methods only.
init_handlersByVerb(q) ==
  IF Conf[q.loc].req_type = "dml" THEN "dml"
  ELSE IF "PASS_BODY" \in Conf[q.loc].pass_http_request THEN "query"
  ELSE IF q.length /\ q.verb \in Conf[q.loc].http_methods THEN "body" ELSE "query"
(* ngx_http_tnt_init_handlers *)
init_handlers(q) ==
  IF Conf[q.loc].req_type = "dml" THEN "dml"
  ELSE IF "PASS_BODY" \in Conf[q.loc].pass_http_request THEN "query"
  ELSE IF q.length THEN "body" ELSE "query"

Refuse(r) ==
  /\ NotAllowed(reqs[r], method'[reqs[r].loc])
  /\ Ends(r, [NoResult EXCEPT !.kind = "refused"])
  /\ UNCHANGED <<preset_method, create_request>>

Accept(r) ==
  /\ ~NotAllowed(reqs[r], method'[reqs[r].loc])
  /\ preset_method' =
       [preset_method EXCEPT ![r] = set_method(reqs[r], method'[reqs[r].loc])]
  /\ create_request' = [create_request EXCEPT ![r] = init_handlers(reqs[r])]
  /\ pc' = [pc EXCEPT ![r] = "reading"]
  /\ UNCHANGED result

Handler(r) ==
  /\ pc[r] = "new"
  /\ method' = Evaluated(reqs[r])
  /\ process_headers(r)
  /\ Refuse(r) \/ Accept(r)
  /\ UNCHANGED <<reqs, in_file, running, encoderVars>>

(* nginx has read the body, into memory or a file. *)
ReadBody(r) ==
  /\ pc[r] = "reading"
  /\ pc' = [pc EXCEPT ![r] = "ready"]
  /\ \E f \in {FALSE, reqs[r].body # "none"} : in_file' = [in_file EXCEPT ![r] = f]
  /\ UNCHANGED <<reqs, method, headers_in, preset_method, create_request, result,
                 running, encoderVars>>

-----------------------------------------------------------------------------
(* create_request *)

Flags(r) == Conf[reqs[r].loc].pass_http_request

\* Mutant: the name is read again where it was evaluated.
CallNameLate(r) == method[reqs[r].loc]
CallName(r) == preset_method[r]

(* The end of ngx_http_tnt_body_handler: the body's calls, with the map    *)
(* bound to each, or the error and the dummy call.  An urlencoded body is  *)
(* in the map already.  A name in the JSON is used if there is no other.   *)
Transcode(r, bound) ==
  Ends(r,
    IF "PARSE_URLENCODED" \in Flags(r)
      THEN [kind |-> "call", method |-> CallName(r), data |-> bound, body |-> FALSE]
    ELSE IF in_file[r] THEN [NoResult EXCEPT !.kind = "too large"]
    ELSE IF reqs[r].body = "bad" THEN [NoResult EXCEPT !.kind = "parse failed"]
    ELSE [kind |-> "call", data |-> bound, body |-> TRUE,
          method |-> IF CallName(r) = <<>> THEN <<"in JSON">> ELSE CallName(r)])

dml_handler(r) ==
  /\ create_request[r] = "dml"
  /\ Ends(r, [NoResult EXCEPT !.kind = "dml"])
  /\ UNCHANGED <<running, encoderVars>>

(* ngx_http_tnt_body_handler, when nothing is bound *)
body_handler(r) ==
  /\ create_request[r] = "body"
  /\ "ON" \notin Flags(r)
  /\ Transcode(r, <<>>)
  /\ UNCHANGED <<running, encoderVars>>

(* ngx_http_tnt_body_handler and ngx_http_tnt_query_handler up to the map; *)
(* the latter has written a call's header before it.                       *)
StartMap(r) ==
  /\ create_request[r] = "query" \/ (create_request[r] = "body" /\ "ON" \in Flags(r))
  /\ running' = r
  /\ pc' = [pc EXCEPT ![r] = "encoding"]
  /\ UNCHANGED result
  /\ LET h == [reqs[r].http EXCEPT !.flags = Flags(r), !.in_file = in_file[r],
                                     !.headers_in = headers_in[r]]
     IN  GetRequestData(h, IF create_request[r] = "query" THEN CallHeader ELSE 0)

CreateRequest(r) ==
  /\ running = Nobody
  /\ pc[r] = "ready"
  /\ dml_handler(r) \/ body_handler(r) \/ StartMap(r)
  /\ UNCHANGED <<reqs, method, headers_in, preset_method, create_request, in_file>>

EncodeMap == running # Nobody /\ Encode /\ UNCHANGED dispatchVars

(* NGX_ERROR: nginx answers 500. *)
MapFails(r) ==
  /\ running = r /\ step = "error"
  /\ Ends(r, [NoResult EXCEPT !.kind = "failed"])
  /\ running' = Nobody
  /\ UNCHANGED <<reqs, method, headers_in, preset_method, create_request, in_file,
                 encoderVars>>

MapDone(r) ==
  /\ running = r /\ step = "done"
  /\ running' = Nobody
  /\ IF create_request[r] = "body" THEN Transcode(r, data)
     ELSE Ends(r, [kind |-> "call", method |-> CallName(r), data |-> data,
                   body |-> FALSE])
  /\ UNCHANGED <<reqs, method, headers_in, preset_method, create_request, in_file,
                 encoderVars>>

(* create_request runs to its end before the worker does anything else.    *)
Next ==
  \/ running = Nobody /\ \E r \in R : Handler(r) \/ ReadBody(r) \/ CreateRequest(r)
  \/ EncodeMap
  \/ \E r \in R : MapFails(r) \/ MapDone(r)

Spec == Init /\ [][Next]_vars

-----------------------------------------------------------------------------
(* Properties *)

(* Type correctness, and who may be in create_request. *)
TypeOK ==
  /\ DOMAIN reqs = R /\ \A r \in R : IsHttpRequest(reqs[r])
  /\ DOMAIN method = Locations /\ DOMAIN preset_method = R
  /\ pc \in [R -> {"new", "reading", "ready", "encoding", "end"}]
  /\ create_request \in [R -> {"none", "body", "query", "dml"}]
  /\ in_file \in [R -> BOOLEAN] /\ headers_in \in [R -> Nat]
  /\ running \in R \cup {Nobody}
  /\ \A r \in R : pc[r] = "encoding" <=> running = r
  /\ \A r \in R : pc[r] = "end" <=> result[r].kind # "none"

(* The setting of the innermost location that has one. *)
MethodIsSet(l) ==
  \/ raw[l].method = "set"
  \/ raw[l].outer # Unset /\ raw[raw[l].outer].method = "set"

(* The name a request asks for: tnt_method's value for this very request,  *)
(* else the path's first piece where REST methods say so, else none.       *)
OwnName(q) ==
  IF MethodIsSet(q.loc) /\ q.method # <<>> THEN q.method
  ELSE IF q.verb \in Conf[q.loc].http_rest_methods THEN FromUri(q.uri)
  ELSE <<>>

(* JSON is read from bodies with a Content-Length that are not passed on.  *)
ReadsJson(q) ==
  /\ q.length
  /\ Conf[q.loc].pass_http_request \cap {"PASS_BODY", "PARSE_URLENCODED"} = {}

(* Whatever requests of the same location, or of one nested in it, the     *)
(* worker serves between its handler and its create_request, a request     *)
(* calls the function it asked for, or the one that its JSON names; where  *)
(* nothing names one it calls "" (or makes a call without a name, with an  *)
(* urlencoded body).                                                       *)
CallsItsOwn ==
  \A r \in R :
    result[r].kind = "call" =>
      result[r].method =
        IF OwnName(reqs[r]) = <<>> /\ ReadsJson(reqs[r]) THEN <<"in JSON">>
        ELSE OwnName(reqs[r])

(* The items are the arguments that have a value, each once, in order. *)
ArePairs(items, list) ==
  /\ {items[k] : k \in 1..Len(items)} = {i \in 1..Len(list) : list[i] = "pair"}
  /\ \A j, k \in 1..Len(items) : j < k => items[j] < items[k]

(* The headers that tnt_set_header adds in a location, or in its outer one *)
(* when it has none of its own.                                            *)
SetHeaders(l) ==
  IF raw[l].headers # 0 \/ raw[l].outer = Unset THEN raw[l].headers
  ELSE raw[raw[l].outer].headers

Contents(q, entry) ==
  CASE entry.key = "args" -> ArePairs(entry.items, q.http.args)
    [] entry.key = "args_urlencoded" ->
         ArePairs(entry.items, q.http.form) \/ used >= BufSize
    [] entry.key = "headers" ->
         Len(entry.items) =
           q.http.headers_in + (IF q.values THEN SetHeaders(q.loc) ELSE 0)
           + IF "PASS_HEADERS_OUT" \in Conf[q.loc].pass_http_request
               THEN q.http.headers_out ELSE 0
    [] OTHER -> TRUE

(* The map given to Tarantool is this request's: its arguments with values *)
(* in their order, its headers and those the configuration adds, once, and *)
(* what else its location asks for, whoever else the worker serves.        *)
MapIsTheRequest ==
  \A r \in R :
    LET F == Flags(r)
        If(flag, key) == IF flag \in F /\ (key = "args" \/ reqs[r].length) THEN <<key>> ELSE <<>>
    IN  running = r /\ step = "done" =>
          /\ [i \in 1..Len(data) |-> data[i].key] =
               <<"proto", "method", "uri">> \o If("PARSE_ARGS", "args") \o <<"headers">>
               \o If("PARSE_URLENCODED", "args_urlencoded") \o If("PASS_BODY", "body")
          /\ \A i \in 1..Len(data) : Contents(reqs[r], data[i])

HasKey(entries, key) == \E i \in 1..Len(entries) : entries[i].key = key

(* A body that came with a Content-Length is never dropped: its calls are  *)
(* made, or it is passed on as a string or field by field.  (Only with     *)
(* parse_urlencoded but not on there is no map to put it in.)              *)
BodyIsServed ==
  \A r \in R :
    ( /\ result[r].kind = "call" /\ reqs[r].length
      /\ "PARSE_URLENCODED" \in Flags(r) => Flags(r) \cap {"ON", "PASS_BODY"} # {} )
    => \/ result[r].body
       \/ HasKey(result[r].data, "body")
       \/ HasKey(result[r].data, "args_urlencoded")

(* What reaches Tarantool has a verb that the location, or the one it is   *)
(* nested in, lists; the dummy call only stands for a body that could not  *)
(* be read, a request that may be served is not refused, and the map is    *)
(* given up only for a body in a file or a buffer that is full.            *)
RejectedForCause ==
  /\ step = "error" => http.in_file \/ ~Fits(7)
  /\ \A r \in R :
    LET q == reqs[r]
        c == Conf[q.loc]
    IN  /\ result[r].kind \notin {"none", "refused"} =>
             q.verb \in c.http_methods \cup c.http_rest_methods
        /\ result[r].kind = "refused" =>
             \/ q.verb \notin c.http_methods \cup c.http_rest_methods
             \/ c.req_type = "dml" /\ q.content_type = "other"
             \/ q.uri = <<>> /\ ~(MethodIsSet(q.loc) /\ q.method # <<>>)
        /\ result[r].kind = "too large" => q.length /\ in_file[r]
        /\ result[r].kind = "parse failed" => q.length /\ q.body = "bad"
=============================================================================
