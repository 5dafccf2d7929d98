--------------------------- MODULE TntReplyFilter ---------------------------
(***************************************************************************)
(* The reply path of one request: ngx_http_tnt_filter_init, _filter,       *)
(* _filter_reply and _send_reply of src/src/ngx_http_tnt_module.c, driven  *)
(* by nginx's non-buffered upstream loop.                                  *)
(*                                                                         *)
(* Tarantool's replies arrive as one byte stream that TCP and the nginx    *)
(* receive buffer cut anywhere.  The filter finds the 5-byte length        *)
(* headers, collects each reply in tp_cache, has it transcoded to JSON and *)
(* queues one output buffer for it; a batch becomes a JSON array.          *)
(*                                                                         *)
(* A byte is named by its position in the stream and a copied run of bytes *)
(* is the set of their positions, so "the cache holds the k-th reply" is   *)
(* an equality of sets.  pos, last and base are b->pos, b->last and        *)
(* b->start in those coordinates.                                          *)
(***************************************************************************)
EXTENDS Integers, Sequences

CONSTANTS
  Wires,    \* the reply streams considered
  BufSize   \* tnt_buffer_size: the size of u->buffer

(* sizeof(ctx->payload.mem) - 1: the length header of a reply *)
HeaderSize == 5

(* A wire holds n replies; the k-th is the bytes off[k-1] .. off[k]-1, its *)
(* header first.  bad: replies the transcoder fails on (an unsupported     *)
(* MessagePack type, an output buffer too small); junk: headers that are   *)
(* not a MessagePack unsigned integer.  inErr: the request was rejected    *)
(* while it was read, and the only reply is that of the dummy call which   *)
(* ngx_http_tnt_wakeup_dying_upstream sends.                               *)
IsWire(w) ==
  /\ w.n \in Nat \ {0}
  /\ w.off \in [0..w.n -> Nat]
  /\ w.off[0] = 0
  /\ \A j, k \in 0..w.n : j < k => w.off[j] + HeaderSize <= w.off[k]
  /\ w.bad \in SUBSET (1..w.n)
  /\ w.junk \in SUBSET (1..w.n)
  /\ w.inErr \in BOOLEAN
  /\ w.inErr => w.n = 1

ASSUME WiresAssumption == \A w \in Wires : IsWire(w)
ASSUME BufSizeAssumption == BufSize \in Nat \ {0}

VARIABLES
  wire,             \* the stream of this request, never changed
  \* ngx_http_tnt_ctx_t
  state,            \* ctx->state
  fill,             \* payload.p - payload.mem
  mem,              \* the bytes in payload.mem[0 .. fill-1]
  payload_size,     \* ctx->payload_size
  rest,             \* ctx->rest
  cache_size,       \* allocated size of ctx->tp_cache, 0 when it is NULL
  cache,            \* the bytes in ctx->tp_cache
  batch_size,
  rest_batch_size,
  \* ngx_http_upstream_t
  base, pos, last,  \* u->buffer
  length,           \* u->length: -1 unknown, 0 nothing more to read
  keepalive,        \* u->keepalive
  out,              \* every output buffer queued so far, oldest first
  busy,             \* some of out is not yet written to the client
  eof,              \* the upstream closed the connection
  \* control
  pc,               \* "header", "wait", "filter", "write", "done"
  result,           \* how the request was finalized
  \* history
  seen              \* the number of replies taken off the stream

ctxVars == <<state, fill, mem, payload_size, rest, cache_size, cache,
             batch_size, rest_batch_size>>
bufVars == <<base, pos, last>>
vars == <<wire, ctxVars, bufVars, length, keepalive, out, busy, eof,
          pc, result, seen>>

-----------------------------------------------------------------------------
(* Bytes *)

Least(a, b) == IF a <= b THEN a ELSE b

(* n bytes of the buffer from position p on *)
Run(p, n) == p .. (p + n - 1)

HeaderOf(k) == Run(wire.off[k - 1], HeaderSize)
ReplyOf(k) == wire.off[k - 1] .. (wire.off[k] - 1)

(* tp_read_payload: the size of the whole reply that has this header, -1   *)
(* when the bytes are not a length.                                        *)
tp_read_payload(bytes) ==
  LET headers == {k \in (1..wire.n) \ wire.junk : bytes = HeaderOf(k)}
  IN  IF headers = {} THEN -1
      ELSE LET k == CHOOSE k \in headers : TRUE
           IN  wire.off[k] - wire.off[k - 1]

(* Whether the codec TP_REPLY_TO_JSON succeeds on these bytes. *)
Transcodes(bytes) == \E k \in (1..wire.n) \ wire.bad : bytes = ReplyOf(k)

-----------------------------------------------------------------------------
Init ==
  /\ wire \in Wires
  /\ state = "OK" /\ fill = 0 /\ mem = {} /\ payload_size = 0 /\ rest = 0
  /\ cache_size = 0 /\ cache = {}
  /\ batch_size = (IF wire.n > 1 THEN wire.n ELSE 0)
  /\ rest_batch_size = batch_size
  /\ base = 0 /\ pos = 0 /\ last = 0
  /\ length = -1 /\ keepalive = FALSE
  /\ out = <<>> /\ busy = FALSE /\ eof = FALSE
  /\ pc = "header" /\ result = "none" /\ seen = 0

(* Any way out of the request ends in ngx_http_tnt_finalize_request, which *)
(* frees tp_cache.                                                         *)
Finalize(res) ==
  /\ pc' = "done"
  /\ result' = res
  /\ cache_size' = 0
  /\ cache' = {}

-----------------------------------------------------------------------------
(* nginx: the response header is sent, the filter is initialised and is    *)
(* given the n bytes that were read with, or behind, the greeting.  There  *)
(* is at least one: process_header returns NGX_AGAIN for a greeting alone, *)
(* unless the request was rejected.                                        *)

ReceivedHere(n) == n <= BufSize - (last - base) /\ last + n <= wire.off[wire.n]

filter_init ==
  /\ state' = "READ_PAYLOAD"
  /\ payload_size' = 0
  /\ rest' = 0
  /\ length' = IF wire.inErr THEN 0 ELSE -1

SendResponse(n) ==
  /\ pc = "header"
  /\ n > 0 \/ wire.inErr
  /\ ReceivedHere(n)
  /\ filter_init
  /\ last' = last + n
  /\ pc' = IF n > 0 THEN "filter" ELSE "write"
  /\ busy' = wire.inErr
  /\ UNCHANGED <<wire, fill, mem, cache_size, cache, batch_size,
                 rest_batch_size, base, pos, keepalive, out, eof, result, seen>>

(* nginx: n bytes are received behind b->last and given to the filter. *)
Recv(n) ==
  /\ pc = "wait"
  /\ ~eof
  /\ n > 0
  /\ ReceivedHere(n)
  /\ last' = last + n
  /\ pc' = "filter"
  /\ UNCHANGED <<wire, ctxVars, base, pos, length, keepalive, out, busy, eof,
                 result, seen>>

-----------------------------------------------------------------------------
(* ngx_http_tnt_filter calls ngx_http_tnt_filter_reply until it does not   *)
(* return NGX_AGAIN; one FilterReply step is one of those calls.  Nothing  *)
(* else runs while pc = "filter": an nginx worker is one thread.           *)

Bytes == last - pos

\* Mutant: payload.e one byte too far.
HeaderTakeOneMore ==
  IF state = "READ_PAYLOAD" THEN Least(HeaderSize + 1 - fill, Bytes) ELSE 0

(* bytes of the header this call takes, and payload.mem after that *)
HeaderTake ==
  IF state = "READ_PAYLOAD" THEN Least(HeaderSize - fill, Bytes) ELSE 0
MemAfter == mem \cup Run(pos, HeaderTake)

HeaderKnown == state = "READ_BODY" \/ fill + HeaderTake = HeaderSize

(* payload_size, rest and the cache contents as READ_BODY finds them *)
SizeNow ==
  IF state = "READ_PAYLOAD" THEN tp_read_payload(MemAfter) ELSE payload_size

\* Mutant: the header is not subtracted.
RestNowWithHeader == IF state = "READ_PAYLOAD" THEN SizeNow ELSE rest
RestNow == IF state = "READ_PAYLOAD" THEN SizeNow - HeaderSize ELSE rest
CacheNow == IF state = "READ_PAYLOAD" THEN MemAfter ELSE cache
SizeOk == state = "READ_BODY" \/ SizeNow > 0

Avail == Bytes - HeaderTake
BodyTake == Least(RestNow, Avail)
CacheAfter == CacheNow \cup Run(pos + HeaderTake, BodyTake)

\* Mutant: every reply opens the array.
OpensAlways == batch_size > 0

(* The output buffer ngx_http_tnt_send_reply makes of the cache. *)
Opens == batch_size > 0 /\ rest_batch_size = batch_size

\* Mutant: the counter is taken for already counted down.
ClosesLate ==
  IF batch_size = 0 THEN "none"
  ELSE IF rest_batch_size = 0 THEN "close" ELSE "comma"
Closes ==
  IF batch_size = 0 THEN "none"
  ELSE IF rest_batch_size = 1 THEN "close"
  ELSE IF rest_batch_size <= batch_size THEN "comma" ELSE "none"
Chunk == [open |-> Opens, reply |-> CacheAfter, tail |-> Closes]

\* Mutant: what is left in the buffer is forgotten.
RcAsSent(sendRc) == sendRc

(* The return value of _filter_reply after _send_reply returned sendRc: a  *)
(* buffer with bytes left asks for another call, whatever _send_reply said.*)
RcAfterSend(sendRc) == IF Avail > BodyTake THEN "NGX_AGAIN" ELSE sendRc

\* Mutant: one reply early.
BatchDoneEarly == rest_batch_size - 1 <= 1
\* Mutant: one reply late.
BatchDoneLate == rest_batch_size - 1 < 0
BatchDone == rest_batch_size - 1 <= 0

(* Leave the loop of ngx_http_tnt_filter with NGX_OK. *)
FilterReturnsOk ==
  /\ keepalive' = TRUE
  /\ pc' = "write"
  /\ UNCHANGED result

(* The header is still incomplete. *)
FilterReplyHeader ==
  /\ pc = "filter"
  /\ ~HeaderKnown
  /\ mem' = MemAfter
  /\ fill' = fill + HeaderTake
  /\ pos' = pos + HeaderTake
  /\ FilterReturnsOk
  /\ UNCHANGED <<wire, state, payload_size, rest, cache_size, cache,
                 batch_size, rest_batch_size, base, last, length, out, busy,
                 eof, seen>>

(* The header is not a length: NGX_ERROR. *)
FilterReplyBadHeader ==
  /\ pc = "filter"
  /\ HeaderKnown
  /\ ~SizeOk
  /\ mem' = MemAfter
  /\ fill' = fill + HeaderTake
  /\ pos' = pos + HeaderTake
  /\ payload_size' = -1
  /\ Finalize("error")
  /\ UNCHANGED <<wire, state, rest, batch_size, rest_batch_size, base, last,
                 length, keepalive, out, busy, eof, seen>>

(* The body is still incomplete. *)
FilterReplyBody ==
  /\ pc = "filter"
  /\ HeaderKnown
  /\ SizeOk
  /\ RestNow > Avail
  /\ state' = "READ_BODY"
  /\ fill' = 0
  /\ mem' = {}
  /\ payload_size' = SizeNow
  /\ rest' = RestNow - Avail
  /\ cache_size' = SizeNow
  /\ cache' = CacheAfter
  /\ pos' = pos + HeaderTake + BodyTake
  /\ FilterReturnsOk
  /\ UNCHANGED <<wire, batch_size, rest_batch_size, base, last, length, out,
                 busy, eof, seen>>

(* The reply is complete: SEND_REPLY.  No output buffer is queued when the *)
(* transcoder fails, or when the client is being sent ctx->in_err instead. *)
FilterReplySend ==
  /\ pc = "filter"
  /\ HeaderKnown
  /\ SizeOk
  /\ RestNow <= Avail
  /\ LET ok == Transcodes(CacheAfter)
         rc == RcAfterSend(IF ok THEN "NGX_OK" ELSE "NGX_ERROR")
     IN  /\ IF ok /\ ~wire.inErr
              THEN out' = Append(out, Chunk) /\ busy' = TRUE
              ELSE UNCHANGED <<out, busy>>
         /\ CASE rc = "NGX_AGAIN" -> UNCHANGED <<pc, result, keepalive>>
              [] rc = "NGX_OK"    -> FilterReturnsOk
              [] rc = "NGX_ERROR" -> /\ pc' = "done"
                                     /\ result' = "error"
                                     /\ UNCHANGED keepalive
  /\ state' = "READ_PAYLOAD"
  /\ fill' = 0 /\ mem' = {}
  /\ payload_size' = 0 /\ rest' = 0
  /\ cache_size' = 0 /\ cache' = {}
  /\ rest_batch_size' = IF BatchDone THEN 0 ELSE rest_batch_size - 1
  /\ batch_size' = IF BatchDone THEN 0 ELSE batch_size
  /\ length' = IF BatchDone THEN 0 ELSE length
  /\ pos' = pos + HeaderTake + BodyTake
  /\ seen' = seen + 1
  /\ UNCHANGED <<wire, base, last, eof>>

FilterReply ==
  FilterReplyHeader \/ FilterReplyBadHeader \/ FilterReplyBody \/ FilterReplySend

-----------------------------------------------------------------------------
(* nginx: ngx_http_upstream_process_non_buffered_request around the filter *)

(* Everything queued is written.  The request ends when nothing more is to *)
(* be read (or the upstream closed), else the receive buffer is rewound.   *)
Drained ==
  /\ busy' = FALSE
  /\ IF length = 0 \/ eof
       THEN Finalize("ok") /\ UNCHANGED bufVars
       ELSE /\ base' = last
            /\ pos' = last
            /\ pc' = "wait"
            /\ UNCHANGED <<last, result, cache_size, cache>>
  /\ UNCHANGED <<wire, state, fill, mem, payload_size, rest, batch_size,
                 rest_batch_size, length, keepalive, out, eof, seen>>

(* Output after the filter returned: all of it leaves, or the client's     *)
(* socket is full and nginx waits.                                         *)
WriteAll == pc = "write" /\ Drained
WriteBlocks ==
  /\ pc = "write"
  /\ busy
  /\ pc' = "wait"
  /\ UNCHANGED <<wire, ctxVars, bufVars, length, keepalive, out, busy, eof,
                 result, seen>>

(* The client's socket became writable. *)
WriteEvent == pc = "wait" /\ busy /\ Drained

(* The upstream closes its connection. *)
Eof ==
  /\ pc = "wait"
  /\ ~eof
  /\ eof' = TRUE
  /\ pc' = "write"
  /\ UNCHANGED <<wire, ctxVars, bufVars, length, keepalive, out, busy, result,
                 seen>>

(* The client goes away, or the read timer fires. *)
GiveUp ==
  /\ pc = "wait"
  /\ Finalize("error")
  /\ UNCHANGED <<wire, state, fill, mem, payload_size, rest, batch_size,
                 rest_batch_size, bufVars, length, keepalive, out, busy, eof,
                 seen>>

Next ==
  \/ \E n \in 0..BufSize : SendResponse(n)
  \/ \E n \in 1..BufSize : Recv(n)
  \/ FilterReply
  \/ WriteAll
  \/ WriteBlocks
  \/ WriteEvent
  \/ Eof
  \/ GiveUp

(* The worker runs what is ready, TCP delivers what was sent and the       *)
(* client reads.  Nothing is assumed of Eof, GiveUp or WriteBlocks.        *)
Fairness ==
  /\ WF_vars(\E n \in 0..BufSize : SendResponse(n))
  /\ WF_vars(\E n \in 1..BufSize : Recv(n))
  /\ WF_vars(FilterReply)
  /\ WF_vars(WriteAll)
  /\ WF_vars(WriteEvent)

Spec == Init /\ [][Next]_vars
FairSpec == Spec /\ Fairness

-----------------------------------------------------------------------------
(* Properties *)

(* Type correctness of the filter's and nginx's variables. *)
TypeOK ==
  /\ wire \in Wires
  /\ state \in {"OK", "READ_PAYLOAD", "READ_BODY"}
  /\ fill \in 0..(HeaderSize - 1) \/ pc = "done"
  /\ mem \in SUBSET Nat
  /\ payload_size \in Nat \/ pc = "done"
  /\ rest \in Nat
  /\ cache_size \in Nat
  /\ cache \in SUBSET Nat
  /\ batch_size \in 0..wire.n
  /\ rest_batch_size \in 0..wire.n
  /\ base \in Nat /\ pos \in base..last /\ last \in base..(base + BufSize)
  /\ length \in {-1, 0}
  /\ keepalive \in BOOLEAN /\ busy \in BOOLEAN /\ eof \in BOOLEAN
  /\ out \in Seq([open  : BOOLEAN,
                  reply : SUBSET Nat,
                  tail  : {"none", "comma", "close"}])
  /\ pc \in {"header", "wait", "filter", "write", "done"}
  /\ result \in {"none", "ok", "error"}
  /\ seen \in 0..wire.n

RS == INSTANCE ReplyStream WITH
        next    <- seen,
        answer  <- out,
        outcome <- IF pc # "done" THEN "open"
                   ELSE IF result = "ok" /\ length = 0 THEN "complete"
                   ELSE "cut"

(* However TCP and the receive buffer cut the stream, the client's bytes   *)
(* are a prefix of the one JSON array that holds every reply in order, as  *)
(* long as no reply fails to be transcoded: the brackets and commas that   *)
(* _send_reply derives from two countdown counters are where they belong.  *)
OneArray ==
  wire.bad \cap (1..seen) = {} /\ ~wire.inErr
    => out = [k \in 1..seen |-> RS!Element(wire, k)]

(* When the filter has returned NGX_OK nothing it was given is left in the *)
(* buffer: nginx rewinds the buffer then, and what was left would be lost. *)
NothingUnread == pc \in {"wait", "write"} => pos = last

(* u->length becomes 0, which makes nginx end the response, exactly when   *)
(* the last reply of the request has been taken off the stream; a batch    *)
(* is neither cut short nor waited for after its last reply.               *)
EndsAtLastReply ==
  ~wire.inErr /\ pc # "header"
    => (length = 0 <=> seen = wire.n) /\ (seen = wire.n => pos = wire.off[wire.n])

(* tp_cache is allocated exactly while a body is being read, with the size *)
(* the header announced; it holds the beginning of the reply that is next  *)
(* on the stream and never more than was allocated.                        *)
CacheIsReplyPrefix ==
  pc # "done" =>
    /\ cache_size > 0 <=> state = "READ_BODY"
    /\ state = "READ_BODY" =>
         /\ seen < wire.n
         /\ cache = wire.off[seen] .. (pos - 1)
         /\ cache_size = wire.off[seen + 1] - wire.off[seen]
         /\ rest = wire.off[seen + 1] - pos

(* A connection that Tarantool closes before its last reply is not passed  *)
(* off as a complete answer: ngx_http_tnt_filter_init leaves u->length at  *)
(* -1, with which nginx takes the close for the end of the response.       *)
LostConnectionIsReported ==
  result = "ok" /\ ~wire.inErr => seen = wire.n

(* The reply path implements the abstract reply stream. *)
RefinesReplyStream == RS!Spec

(* Whatever the size of tnt_buffer_size and wherever the stream is cut,    *)
(* the request is finalized once Tarantool has sent every reply, with no   *)
(* timeout or close needed.                                                *)
AnswerEnds == <>(pc = "done")
=============================================================================
