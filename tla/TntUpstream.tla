----------------------------- MODULE TntUpstream -----------------------------
(***************************************************************************)
(* The life of requests in one nginx worker: nginx's upstream machinery    *)
(* (external: connect, send, read, next server, keepalive pool) calling    *)
(* the module's create_request, reinit_request, process_header,            *)
(* input_filter and finalize_request handlers.                             *)
(*                                                                         *)
(* TntReplyFilter cuts replies into bytes.  Here a reply is one unit,      *)
(* named <<r, k>>: Tarantool's answer to the k-th call of request r, k = 0 *)
(* for the dummy call of a rejected request.  The greeting of a new        *)
(* connection is three units <<0, 1>>, <<0, 2>>, <<0, 3>>: the first two   *)
(* hold "Tarantool", all three are its 128 bytes.                          *)
(***************************************************************************)
EXTENDS Integers, Sequences, FiniteSets

CONSTANTS
  Requests,       \* the requests considered: [n, rejected, bad]
  NReqs,          \* how many of them the worker serves, one after another
  Tries,          \* servers an upstream block offers to one request
  Keepalive,      \* the upstream block has a keepalive pool
  ResendAllowed,  \* nginx may send a request to a second server: idempotent
                  \* method, or nginx before 1.9.13
  Aborts,         \* clients may go away
  SplitGreeting   \* a greeting may arrive in pieces

(* n calls (a batch when n > 1), or a body that create_request rejected.   *)
(* bad: calls whose reply cannot be transcoded.                            *)
IsRequest(q) ==
  /\ q.n \in Nat \ {0}
  /\ q.rejected \in BOOLEAN
  /\ q.rejected => q.n = 1
  /\ q.bad \in SUBSET (1..q.n)

ASSUME RequestsAssumption == \A q \in Requests : IsRequest(q)
ASSUME BoundsAssumption == NReqs \in Nat \ {0} /\ Tries \in Nat \ {0}
ASSUME FlagsAssumption ==
  {Keepalive, ResendAllowed, Aborts, SplitGreeting} \subseteq BOOLEAN

GreetingSize == 3
MagicSize == 2      \* sizeof("Tarantool") - 1, in units

(* A cached connection that fails does not use up a try. *)
Conns == 1..(NReqs * Tries)

VARIABLES
  reqs, cur,      \* the requests to come, the one being served
  pc,             \* "idle", "connect", "send", "header", "filter", "body";
                  \* "ok", "error": being finalized
  \* ngx_http_tnt_ctx_t
  state, in_err, batch_size, rest_batch_size, greeting,
  \* ngx_http_upstream_t
  tries, request_sent, keepalive, length,
  buf,            \* the units between buffer.pos and buffer.last
  conn, reused,   \* u->peer.connection (0: none), u->peer.cached
  broken,         \* end of file, an error or a timeout was seen on conn
  \* the network and Tarantool
  wire,           \* wire[c]: units that connection c has yet to deliver
  fin,            \* connections Tarantool has closed
  idle,           \* the keepalive pool
  opened,         \* connections opened so far
  garbled,        \* the filter takes bytes that are no reply for one
  \* what clients see, and history
  answer,         \* answer[r]: [status, items, end]
  sent            \* sent[r]: how often request r was written to a server

ctxVars == <<state, in_err, batch_size, rest_batch_size, greeting>>
uVars == <<tries, request_sent, keepalive, length, buf, conn, reused, broken>>
netVars == <<wire, fin, idle, opened, garbled>>
history == <<reqs, cur, answer, sent>>
vars == <<history, pc, ctxVars, uVars, netVars>>

-----------------------------------------------------------------------------
Greeting == [i \in 1..GreetingSize |-> <<0, i>>]

RepliesTo(r) ==
  IF reqs[r].rejected THEN << <<r, 0>> >> ELSE [k \in 1..reqs[r].n |-> <<r, k>>]

Transcodes(unit) == unit[2] \notin reqs[unit[1]].bad

Init ==
  /\ reqs \in [1..NReqs -> Requests]
  /\ cur = 0 /\ pc = "idle"
  /\ state = "OK" /\ in_err = FALSE /\ greeting = FALSE
  /\ batch_size = 0 /\ rest_batch_size = 0
  /\ tries = 0 /\ request_sent = FALSE /\ keepalive = FALSE /\ length = -1
  /\ buf = <<>> /\ conn = 0 /\ reused = FALSE /\ broken = FALSE
  /\ wire = [c \in Conns |-> <<>>] /\ fin = {} /\ idle = {} /\ opened = 0
  /\ garbled = FALSE
  /\ answer = [r \in 1..NReqs |-> [status |-> 0, items |-> <<>>, end |-> "none"]]
  /\ sent = [r \in 1..NReqs |-> 0]

-----------------------------------------------------------------------------
(* A request is accepted: a zeroed ngx_http_upstream_t, a new context, and *)
(* create_request, which either encodes the calls or records an error and  *)
(* encodes the dummy call instead (wakeup_dying_upstream).                 *)
CreateRequest ==
  /\ pc = "idle"
  /\ cur < NReqs
  /\ cur' = cur + 1
  /\ LET q == reqs[cur + 1]
     IN  /\ state' = IF q.rejected THEN "INPUT_ERROR" ELSE "OK"
         /\ in_err' = q.rejected
         /\ batch_size' = IF q.n > 1 THEN q.n ELSE 0
         /\ rest_batch_size' = batch_size'
  /\ greeting' = FALSE
  /\ tries' = Tries
  /\ request_sent' = FALSE /\ keepalive' = FALSE /\ length' = -1
  /\ buf' = <<>> /\ conn' = 0 /\ reused' = FALSE /\ broken' = FALSE
  /\ garbled' = FALSE
  /\ pc' = "connect"
  /\ UNCHANGED <<reqs, answer, sent, wire, fin, idle, opened>>

(* ngx_http_tnt_reinit_request: cleanup and reset_ctx.  What create_request*)
(* left in the context is gone; the encoded request is not made again.     *)
reset_ctx ==
  /\ state' = "OK"
  /\ in_err' = FALSE
  /\ batch_size' = 0
  /\ rest_batch_size' = 0
  /\ greeting' = FALSE

(* nginx: reinitialise when an earlier server was sent the request. *)
Reinit ==
  /\ IF request_sent THEN reset_ctx ELSE UNCHANGED ctxVars
  /\ request_sent' = FALSE
  /\ keepalive' = (keepalive /\ ~request_sent)
  /\ buf' = <<>>
  /\ broken' = FALSE
  /\ garbled' = FALSE

ConnectCached(c) ==
  /\ pc = "connect"
  /\ c \in idle
  /\ Reinit
  /\ conn' = c /\ reused' = TRUE
  /\ idle' = idle \ {c}
  /\ pc' = "send"
  /\ UNCHANGED <<history, tries, length, wire, fin, opened>>

ConnectNew ==
  /\ pc = "connect"
  /\ opened + 1 \in Conns
  /\ Reinit
  /\ opened' = opened + 1
  /\ conn' = opened' /\ reused' = FALSE
  /\ wire' = [wire EXCEPT ![opened'] = Greeting]
  /\ pc' = "send"
  /\ UNCHANGED <<history, tries, length, fin, idle>>

(* The encoded request is written; Tarantool, if it is there, answers.     *)
SendRequest ==
  /\ pc = "send"
  /\ request_sent' = TRUE
  /\ sent' = [sent EXCEPT ![cur] = @ + 1]
  /\ wire' = IF conn \in fin THEN wire
             ELSE [wire EXCEPT ![conn] = @ \o RepliesTo(cur)]
  /\ pc' = "header"
  /\ UNCHANGED <<reqs, cur, answer, ctxVars, tries, keepalive, length, buf,
                 conn, reused, broken, fin, idle, opened, garbled>>

-----------------------------------------------------------------------------
(* What can arrive in one read of connection c. *)
Readable(c) ==
  {k \in 1..Len(wire[c]) :
     SplitGreeting \/ wire[c][1][1] # 0 \/ k >= GreetingSize}

Received(k) == buf \o SubSeq(wire[conn], 1, k)
Delivered(k) == wire' = [wire EXCEPT ![conn] = SubSeq(@, k + 1, Len(@))]

(* ngx_http_tnt_read_greeting: how far it moves b->pos, even past b->last. *)
read_greeting(b) ==
  IF ~greeting /\ Len(b) >= MagicSize /\ b[1] = <<0, 1>> THEN GreetingSize ELSE 0

(* Nothing but the greeting has arrived: read more, which only a request   *)
(* that was not rejected waits for.                                        *)
GreetingOnly(b) == read_greeting(b) > 0 /\ read_greeting(b) = Len(b)

\* Mutant: the error of a rejected request is not looked at.
HeaderStatusAlways200 == 200

(* ngx_http_tnt_output_err queues the error of a rejected request. *)
HeaderStatus == IF state = "OK" THEN 200 ELSE IF in_err THEN 400 ELSE 500

ReadHeaderAgain(k) ==
  /\ pc = "header"
  /\ k \in Readable(conn)
  /\ GreetingOnly(Received(k)) /\ state = "OK"
  /\ Delivered(k)
  /\ buf' = <<>>
  /\ UNCHANGED <<history, pc, ctxVars, tries, request_sent, keepalive, length,
                 conn, reused, broken, fin, idle, opened, garbled>>

(* process_header returns NGX_OK and nginx sends the response header, calls*)
(* filter_init, and the filter too if bytes are left.  After a greeting    *)
(* that had not fully arrived their number is negative.                    *)
ReadHeader(k) ==
  /\ pc = "header"
  /\ k \in Readable(conn)
  /\ ~(GreetingOnly(Received(k)) /\ state = "OK")
  /\ Delivered(k)
  /\ LET b == Received(k)
         skip == read_greeting(b)
     IN  /\ greeting' = ~GreetingOnly(b)
         /\ answer' = [answer EXCEPT ![cur].status = HeaderStatus]
         /\ length' = IF HeaderStatus # 200 THEN 0 ELSE -1
         /\ buf' = SubSeq(b, skip + 1, Len(b))
         /\ pc' = IF skip # Len(b) THEN "filter"
                  ELSE IF HeaderStatus # 200 THEN "ok" ELSE "body"
  /\ UNCHANGED <<reqs, cur, sent, state, in_err, batch_size, rest_batch_size,
                 tries, request_sent, keepalive, conn, reused, broken, fin,
                 idle, opened, garbled>>

Recv(k) ==
  /\ pc = "body"
  /\ k \in Readable(conn)
  /\ Delivered(k)
  /\ buf' = Received(k)
  /\ pc' = "filter"
  /\ UNCHANGED <<history, ctxVars, tries, request_sent, keepalive, length, conn,
                 reused, broken, fin, idle, opened, garbled>>

-----------------------------------------------------------------------------
(* ngx_http_tnt_filter, one reply at a time *)

\* Mutant: the response ends with what has been read.
FilterReturnsOkEnds == keepalive' = TRUE /\ pc' = "ok"
FilterReturnsOk ==
  /\ keepalive' = TRUE
  /\ pc' = IF length' = 0 THEN "ok" ELSE "body"

(* The filter was given a negative number of bytes. *)
FilterNothing ==
  /\ pc = "filter"
  /\ buf = <<>>
  /\ UNCHANGED length
  /\ FilterReturnsOk
  /\ UNCHANGED <<history, ctxVars, tries, request_sent, buf, conn, reused,
                 broken, netVars>>

\* Mutant: the array opens at the second reply.
OpensLate == batch_size > 0 /\ rest_batch_size = batch_size - 1
Opens == batch_size > 0 /\ rest_batch_size = batch_size
Closes ==
  IF batch_size = 0 THEN "none"
  ELSE IF rest_batch_size = 1 THEN "close"
  ELSE IF rest_batch_size <= batch_size THEN "comma" ELSE "none"

\* Mutant: one reply early.
BatchDoneEarly == rest_batch_size - 1 <= 1
BatchDone == rest_batch_size - 1 <= 0

\* Mutant: a reply ends the answer without being counted.
CountReplyOnlyLength ==
  /\ UNCHANGED <<rest_batch_size, batch_size>>
  /\ length' = 0
\* Mutant: the counters are not reset after the last reply.
CountReplyNoReset ==
  /\ rest_batch_size' = rest_batch_size - 1
  /\ UNCHANGED batch_size
  /\ length' = IF BatchDone THEN 0 ELSE length
CountReply ==
  /\ rest_batch_size' = IF BatchDone THEN 0 ELSE rest_batch_size - 1
  /\ batch_size' = IF BatchDone THEN 0 ELSE batch_size
  /\ length' = IF BatchDone THEN 0 ELSE length

\* Mutant: b->pos is not moved behind the reply.
AfterReplyUnmoved == buf

(* Where b->pos is when a reply has been read. *)
AfterReply == Tail(buf)

FilterReply ==
  /\ pc = "filter"
  /\ buf # <<>>
  /\ ~garbled /\ Head(buf)[1] # 0
  /\ LET unit == Head(buf)
         item == [reply |-> unit, open |-> Opens, tail |-> Closes]
     IN  /\ answer' = IF Transcodes(unit) /\ ~in_err
                        THEN [answer EXCEPT ![cur].items = Append(@, item)]
                        ELSE answer
         /\ CountReply
         /\ buf' = AfterReply
         /\ IF buf' # <<>> THEN UNCHANGED <<pc, keepalive>>
            ELSE IF Transcodes(unit) THEN FilterReturnsOk
            ELSE pc' = "error" /\ UNCHANGED keepalive
  /\ UNCHANGED <<reqs, cur, sent, state, in_err, greeting, tries, request_sent,
                 conn, reused, broken, netVars>>

(* A piece of the greeting is taken for a reply: its first byte is read as *)
(* a length.  The filter may want more than has arrived, or complete a     *)
(* "reply" that does not transcode, and what follows may or may not be in  *)
(* step again; or the bytes are no length, which ends the answer at once.  *)
FilterGarbage ==
  /\ pc = "filter"
  /\ buf # <<>>
  /\ garbled \/ Head(buf)[1] = 0
  /\ buf' = Tail(buf)
  /\ \/ /\ garbled' = TRUE
        /\ UNCHANGED <<batch_size, rest_batch_size, length>>
        /\ IF buf' # <<>> THEN UNCHANGED <<pc, keepalive>> ELSE FilterReturnsOk
     \/ /\ garbled' \in BOOLEAN
        /\ CountReply
        /\ IF buf' # <<>> THEN UNCHANGED <<pc, keepalive>>
           ELSE pc' = "error" /\ UNCHANGED keepalive
     \/ /\ garbled' = TRUE
        /\ pc' = "error"
        /\ UNCHANGED <<batch_size, rest_batch_size, length, keepalive>>
  /\ UNCHANGED <<history, state, in_err, greeting, tries, request_sent, conn,
                 reused, broken, wire, fin, idle, opened>>

-----------------------------------------------------------------------------
(* Failures *)

(* ngx_http_upstream_next: another server, unless there is none or the     *)
(* request may not be sent twice.  tries' is what is left.                 *)
NextUpstream(left, status) ==
  /\ tries' = left
  /\ conn' = 0
  /\ IF left = 0 \/ (request_sent /\ ~ResendAllowed)
       THEN /\ pc' = "error"
            /\ answer' = [answer EXCEPT ![cur].status = status]
       ELSE pc' = "connect" /\ UNCHANGED answer
  /\ UNCHANGED <<reqs, cur, sent, ctxVars, request_sent, keepalive, length,
                 buf, reused, broken, netVars>>

ConnectFails ==
  /\ pc = "connect"
  /\ NextUpstream(tries - 1, 502)

(* The connection is closed before a header was read: a stale cached one   *)
(* does not count as a try.                                                *)
HeaderEof ==
  /\ pc = "header"
  /\ conn \in fin /\ wire[conn] = <<>>
  /\ NextUpstream(IF reused THEN tries ELSE tries - 1, 502)

HeaderTimeout == pc = "header" /\ NextUpstream(tries - 1, 504)

(* While the length is unknown nginx takes the close for the regular end.  *)
EndBody(res) ==
  /\ broken' = TRUE
  /\ pc' = res
  /\ UNCHANGED <<history, ctxVars, tries, request_sent, keepalive, length, buf,
                 conn, reused, netVars>>

BodyEof == pc = "body" /\ conn \in fin /\ wire[conn] = <<>> /\ EndBody("ok")

\* Mutant: the read timer does not fire while connected.
BodyTimeoutOnlyAfterClose ==
  pc = "body" /\ conn \in fin /\ wire[conn] = <<>> /\ EndBody("error")
BodyTimeout == pc = "body" /\ EndBody("error")

ClientAbort ==
  /\ Aborts
  /\ pc \in {"connect", "header", "body"}
  /\ pc' = "error"
  /\ UNCHANGED <<history, ctxVars, uVars, netVars>>

(* Tarantool goes away; what it had sent arrives only in part. *)
ServerCloses(c) ==
  /\ c <= opened /\ c \notin fin
  /\ c = conn \/ c \in idle
  /\ fin' = fin \cup {c}
  /\ \E k \in 0..Len(wire[c]) : wire' = [wire EXCEPT ![c] = SubSeq(@, 1, k)]
  /\ UNCHANGED <<history, pc, ctxVars, uVars, idle, opened, garbled>>

-----------------------------------------------------------------------------
(* ngx_http_upstream_finalize_request: the module frees its buffers, the   *)
(* peer is freed.  The keepalive pool takes the connection if the filter   *)
(* asked for it and nothing is wrong with it or waiting to be read.        *)
PeerFree ==
  /\ pc \in {"ok", "error"}
  /\ answer' = [answer EXCEPT ![cur].end =
                  IF pc = "ok" /\ broken THEN "eof" ELSE pc]
  /\ conn' = 0
  /\ IF conn # 0 /\ Keepalive /\ keepalive /\ ~broken
       THEN IF wire[conn] = <<>> THEN idle' = idle \cup {conn}
            ELSE idle' \in {idle, idle \cup {conn}}
       ELSE UNCHANGED idle
  /\ pc' = "idle"
  /\ UNCHANGED <<reqs, cur, sent, ctxVars, tries, request_sent, keepalive,
                 length, buf, reused, broken, wire, fin, opened, garbled>>

(* Data or a close on an idle connection: the pool drops it. *)
IdleDrop(c) ==
  /\ c \in idle
  /\ wire[c] # <<>> \/ c \in fin
  /\ idle' = idle \ {c}
  /\ UNCHANGED <<history, pc, ctxVars, uVars, wire, fin, opened, garbled>>

Read ==
  \E k \in 1..Len(wire[conn]) : ReadHeaderAgain(k) \/ ReadHeader(k) \/ Recv(k)
Filter == FilterNothing \/ FilterReply \/ FilterGarbage
Connect == ConnectNew \/ \E c \in Conns : ConnectCached(c)

Next ==
  \/ CreateRequest
  \/ Connect
  \/ SendRequest
  \/ conn # 0 /\ Read
  \/ Filter
  \/ ConnectFails \/ HeaderEof \/ HeaderTimeout
  \/ BodyEof \/ BodyTimeout \/ ClientAbort
  \/ \E c \in Conns : ServerCloses(c) \/ IdleDrop(c)
  \/ PeerFree

(* The worker runs and its timers fire; nothing is assumed of Tarantool,   *)
(* the network or the clients.                                             *)
Fairness ==
  /\ WF_vars(CreateRequest) /\ WF_vars(SendRequest)
  /\ WF_vars(Connect \/ ConnectFails)
  /\ WF_vars(Filter) /\ WF_vars(PeerFree)
  /\ WF_vars(HeaderTimeout) /\ WF_vars(BodyTimeout)

Spec == Init /\ [][Next]_vars
FairSpec == Spec /\ Fairness

-----------------------------------------------------------------------------
(* Properties *)

(* Type correctness. *)
TypeOK ==
  /\ reqs \in [1..NReqs -> Requests] /\ cur \in 0..NReqs
  /\ pc \in {"idle", "connect", "send", "header", "filter", "body", "ok", "error"}
  /\ state \in {"OK", "INPUT_ERROR"} /\ in_err = (state = "INPUT_ERROR")
  /\ rest_batch_size \in 0..batch_size /\ batch_size \in Nat
  /\ tries \in 0..Tries /\ length \in {-1, 0}
  /\ {greeting, request_sent, keepalive, reused, broken, garbled} \subseteq BOOLEAN
  /\ conn \in 0..opened /\ opened \in 0..(NReqs * Tries)
  /\ idle \subseteq 1..opened /\ fin \subseteq 1..opened /\ conn \notin idle
  /\ pc \in {"send", "header", "filter", "body"} => conn # 0
  /\ \A r \in 1..NReqs : answer[r].status \in {0, 200, 400, 502, 504}
  /\ sent \in [1..NReqs -> Nat]

(* A client is given replies to its own request only, though connections   *)
(* are handed from request to request by the keepalive pool.               *)
OwnReplies ==
  \A r \in 1..NReqs : \A i \in 1..Len(answer[r].items) :
    answer[r].items[i].reply[1] = r

(* When a request ended well and its connection went to the keepalive pool,*)
(* every reply to it has been read: u->keepalive = 1 was right.            *)
OkReusesClean ==
  [][pc = "ok" /\ conn \in idle' => wire[conn] = <<>>]_vars

(* What the client of request r should see: its replies in order, framed   *)
(* as one JSON array when they are a batch.                                *)
WholeAnswer(r) ==
  LET n == reqs[r].n
  IN  [k \in 1..n |->
         [ reply |-> <<r, k>>,
           open  |-> n > 1 /\ k = 1,
           tail  |-> IF n = 1 THEN "none" ELSE IF k = n THEN "close" ELSE "comma" ]]

(* A request that is answered 200 to the end is answered in full, whatever *)
(* the connection was used for before.                                     *)
CompleteAnswer ==
  \A r \in 1..NReqs :
    answer[r].status = 200 /\ answer[r].end = "ok"
      => answer[r].items = WholeAnswer(r)

(* The client of a rejected request is told so, or that no server could be *)
(* reached; the reply to the dummy call is never shown, however it comes   *)
(* in.  (But not when the dummy call is sent to a second server: its       *)
(* error is lost by then, as reinit_request resets the context.)           *)
RejectedIsReported ==
  \A r \in 1..NReqs :
    reqs[r].rejected /\ sent[r] <= 1
      => answer[r].status # 200 /\ answer[r].items = <<>>

(* No call is answered twice, and replies are in the order of the calls,   *)
(* over all the servers that were tried and whatever their greetings did.  *)
AnsweredOnce ==
  \A r \in 1..NReqs : \A i, j \in 1..Len(answer[r].items) :
    i < j => answer[r].items[i].reply[2] < answer[r].items[j].reply[2]

(* The worker does what RpcProxy promises its clients: connections, their  *)
(* pool, greetings, the cuts of the network and failing servers are never  *)
(* seen but as a gateway's error or the end of a response.                 *)
Proxy == INSTANCE RpcProxy WITH served <- cur, open <- pc # "idle"
RefinesRpcProxy == Proxy!Spec

(* Every request is finalized, even if no server ever answers. *)
EveryRequestEnds == \A r \in 1..NReqs : <>(answer[r].end # "none")
=============================================================================
