---------------------------- MODULE TntRequestData ----------------------------
(***************************************************************************)
(* ngx_http_tnt_get_request_data: the HTTP request as a map, the first     *)
(* argument of the call (tnt_pass_http_request).  The map, and the maps    *)
(* and the array in it, are written behind room left for their headers;    *)
(* the headers are filled in with what was counted on the way.  One step   *)
(* is one turn of a loop, or what lies between two loops.                  *)
(*                                                                         *)
(* Sizes are in units: a key, a value, a header are one each.  Of an       *)
(* argument the code can tell if it is "k=v" (a pair) or else.             *)
(***************************************************************************)
EXTENDS Integers, Sequences

CONSTANTS
  BufSize   \* tnt_pass_http_request_buffer_size

ASSUME BufSizeAssumption == BufSize \in Nat

VARIABLES
  \* flags: tlcf->pass_http_request; args, form: the arguments of the URI and
  \* of an urlencoded body; headers_in, headers_out: how many; body: there is
  \* a Content-Length and a body; in_file: nginx has put it into a file
  http,
  step,                   \* where in the function; "done", "error", "overrun"
  data,                   \* the root map's entries: [key, head, items]
  root_head,              \* the root map's header, -1: not yet written
  root_items, map_items,  \* the counters
  at,                     \* elements of the current list behind us
  used                    \* units of the buffer written

encoderVars == <<http, step, data, root_head, root_items, map_items, at, used>>

IsHttp(h) ==
  h \in [flags : SUBSET {"ON", "OFF", "PARSE_ARGS", "UNESCAPE", "PASS_BODY",
                        "PASS_HEADERS_OUT", "PARSE_URLENCODED", "PASS_SUBREQUEST_URI"},
         args : Seq({"pair", "empty"}), form : Seq({"pair", "empty"}),
         headers_in : Nat, headers_out : Nat, body : BOOLEAN, in_file : BOOLEAN]

NoHttp ==
  [flags |-> {}, args |-> <<>>, form |-> <<>>, headers_in |-> 0,
   headers_out |-> 0, body |-> FALSE, in_file |-> FALSE]

EncoderIdle ==
  /\ http = NoHttp /\ step = "idle"
  /\ data = <<>> /\ root_head = -1
  /\ root_items = 0 /\ map_items = 0 /\ at = 0 /\ used = 0

(* The function is called when n units of the buffer are used. *)
GetRequestData(h, n) ==
  /\ http' = h
  /\ step' = "line"
  /\ data' = <<>> /\ root_head' = -1
  /\ root_items' = 0 /\ map_items' = 0 /\ at' = 0 /\ used' = n

-----------------------------------------------------------------------------
Fits(n) == used + n <= BufSize

Scalar(key) == [key |-> key, head |-> -1, items |-> <<>>]
WithHead(e, n) == [key |-> e.key, head |-> n, items |-> e.items]
WithItem(e, i) == [key |-> e.key, head |-> e.head, items |-> Append(e.items, i)]

Goto(next) ==
  /\ step' = next
  /\ UNCHANGED <<data, root_head, root_items, map_items, at, used>>

(* A header's room is taken by tp_add, which does not test that there is   *)
(* any; when the buffer is passed nothing is said of what follows.         *)
Slot(n, next) == step' = IF Fits(n) THEN next ELSE "overrun"

(* proto, method, uri, behind the room for the root map's header *)
EncodeLine ==
  /\ step = "line"
  /\ IF Fits(1) /\ ~Fits(7) THEN Goto("error")
     ELSE /\ Slot(1, "args")
          /\ data' = <<Scalar("proto"), Scalar("method"), Scalar("uri")>>
          /\ root_items' = 3
          /\ used' = used + 7
          /\ UNCHANGED <<root_head, map_items, at>>

(* The key of a nested map or array, and the room for its header. *)
Open(key, next) ==
  IF ~Fits(1) THEN Goto("error")
  ELSE /\ Slot(2, next)
       /\ data' = Append(data, Scalar(key))
       /\ root_items' = root_items + 1
       /\ map_items' = 0 /\ at' = 0
       /\ used' = used + 2
       /\ UNCHANGED root_head

(* Its header is written. *)
Close(next) ==
  /\ step' = next
  /\ data' = [data EXCEPT ![Len(data)] = WithHead(@, map_items)]
  /\ UNCHANGED <<root_head, root_items, map_items, at, used>>

(* The element at + 1 of the list is written as n units. *)
Item(n) ==
  IF ~Fits(n) THEN Goto("error")
  ELSE /\ data' = [data EXCEPT ![Len(data)] = WithItem(@, at + 1)]
       /\ map_items' = map_items + 1
       /\ used' = used + n
       /\ at' = at + 1
       /\ UNCHANGED <<step, root_head, root_items>>

SkipItem ==
  /\ at' = at + 1
  /\ UNCHANGED <<step, data, root_head, root_items, map_items, used>>

-----------------------------------------------------------------------------
BeginArgs ==
  /\ step = "args"
  /\ IF "PARSE_ARGS" \in http.flags THEN Open("args", "arg") ELSE Goto("headers")

\* Mutant: an argument without a value is counted though it is not written.
EncodeArgCountsAll ==
  /\ step = "arg" /\ at < Len(http.args)
  /\ IF http.args[at + 1] = "pair" THEN Item(2)
     ELSE /\ at' = at + 1 /\ map_items' = map_items + 1
          /\ UNCHANGED <<step, data, root_head, root_items, used>>
(* ngx_http_tnt_encode_query_args *)
EncodeArg ==
  /\ step = "arg" /\ at < Len(http.args)
  /\ IF http.args[at + 1] = "pair" THEN Item(2) ELSE SkipItem

EndArgs == step = "arg" /\ at = Len(http.args) /\ Close("headers")

BeginHeaders == step = "headers" /\ Open("headers", "header")

(* The request's headers, then the response's if asked for. *)
Headers ==
  http.headers_in
    + (IF "PASS_HEADERS_OUT" \in http.flags THEN http.headers_out ELSE 0)

(* ngx_http_tnt_copy_headers *)
EncodeHeader == step = "header" /\ at < Headers /\ Item(2)

EndHeaders == step = "header" /\ at = Headers /\ Close("form")

BeginForm ==
  /\ step = "form"
  /\ IF "PARSE_URLENCODED" \in http.flags /\ http.body
       THEN Open("args_urlencoded", IF http.in_file THEN "error" ELSE "field")
       ELSE Goto("body")

(* ngx_http_tnt_encode_urlencoded_body: an array of maps of one pair.  When *)
(* there is no room for such a map's header the pair is counted all the    *)
(* same, and no error is made of it.                                       *)
EncodeField ==
  /\ step = "field" /\ at < Len(http.form)
  /\ IF http.form[at + 1] # "pair" THEN SkipItem
     ELSE IF Fits(1) THEN Item(3)
     ELSE /\ at' = at + 1
          /\ map_items' = map_items + 1
          /\ UNCHANGED <<step, data, root_head, root_items, used>>

EndForm == step = "field" /\ at = Len(http.form) /\ Close("body")

(* The body as one string; then the root map's header. *)
EncodeBody ==
  /\ step = "body"
  /\ IF "PASS_BODY" \in http.flags /\ http.body
       THEN IF http.in_file \/ ~Fits(2) THEN Goto("error")
            ELSE /\ step' = "done"
                 /\ data' = Append(data, Scalar("body"))
                 /\ root_items' = root_items + 1
                 /\ used' = used + 2
                 /\ root_head' = root_items'
                 /\ UNCHANGED <<map_items, at>>
       ELSE /\ step' = "done"
            /\ root_head' = root_items
            /\ UNCHANGED <<data, root_items, map_items, at, used>>

Encode ==
  /\ \/ EncodeLine \/ BeginArgs \/ EncodeArg \/ EndArgs
     \/ BeginHeaders \/ EncodeHeader \/ EndHeaders
     \/ BeginForm \/ EncodeField \/ EndForm
     \/ EncodeBody
  /\ UNCHANGED http

-----------------------------------------------------------------------------
(* Properties *)

(* Every header announces what stands behind it: the root map its entries, *)
(* each nested map or array its items, whatever was skipped on the way.    *)
(* Only an urlencoded body that ends the buffer exactly may lack some.     *)
Announced(entry) ==
  \/ entry.key \in {"proto", "method", "uri", "body"} /\ entry.items = <<>>
  \/ entry.head = Len(entry.items)
  \/ entry.key = "args_urlencoded" /\ used >= BufSize

HeadersAnnounceItems ==
  step = "done" =>
    root_head = Len(data) /\ \A i \in 1..Len(data) : Announced(data[i])
=============================================================================
