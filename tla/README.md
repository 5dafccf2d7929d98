# Verification of nginx_upstream_module

The module makes nginx a proxy between HTTP and Tarantool: an HTTP request
becomes one or more binary Tarantool calls, the replies become JSON. This
directory holds TLA+ models of it, the TLC configurations that check them on
small instances, and theorems that TLAPS proves for all instances.

Line numbers are of `src/src/ngx_http_tnt_module.c` (`C`) and
`src/src/tp_transcode.c` (`T`). `PROJECT.json` has, for every definition, the
lines it models.

## The system

One nginx worker is one thread that runs event handlers to their end. All
interleaving is between events: a socket becomes readable or writable, a timer
fires, a client goes away.

| Part | Code | State | Operations | Hard because |
|---|---|---|---|---|
| Request dispatch | `handler`, `init_handlers`, `set_method`, `merge_loc_conf` (C:684, 838, 2909, 3450) | location configuration, shared by all requests; `ctx->preset_method` | choose the method's name and the handler that will encode the request | `tlcf->method` is evaluated for each request but stored in the shared configuration |
| Body and query handlers | `body_handler`, `query_handler`, `get_request_data` (C:3506, 3675, 3119) | the request's buffers, `ctx->state`, `in_err`, `batch_size` | encode a JSON body, or the HTTP request itself, as calls; on bad input record an error and send a dummy call | the buffer's size is estimated beforehand; an error must still go through nginx's upstream |
| DML directives | `insert_add` ... `format_bind`, `dml_handler` (C:1016-2230, 3747) | `prepared_result`, `format_values` | collect and count arguments, check, write the request | counts are made in one loop and used in another; lists of what is allowed |
| Codec JSON to Tarantool | yajl callbacks (T:168-812) | stage, seen fields, a stack of open values, slots for headers | one callback for each JSON token | writes as it reads, fields in any order, nesting, batches, narrow counters |
| Codec Tarantool to JSON | `tp2json`, `tp_reply2json` (T:818-1160) | output position, flags | render a reply | nesting, lengths that were checked before nested values were written |
| Upstream life cycle | `process_header`, `read_greeting`, `output_err`, `reinit_request`, `finalize_request` (C:2731-2850, 3912-4001) | `ngx_http_tnt_ctx_t`, nginx's `u->...` | skip the greeting, choose the status, start over on another server | retries, connections that are kept for the next request, closes, timeouts, aborts |
| Reply filter | `filter_init`, `filter`, `filter_reply`, `send_reply` (C:2323-2606) | `payload`, `rest`, `tp_cache`, batch counters, `u->length`, `u->keepalive` | reassemble replies, transcode, frame a batch as an array, end the response | TCP and the receive buffer cut the stream anywhere |

How they interact: nginx calls `handler`; when the body has been read it calls
`create_request`, which is the body, query or DML handler and uses the first
codec; it connects (or takes a connection from the keepalive pool), writes the
request and calls `process_header` until it does not return `NGX_AGAIN`; then
`input_filter_init` and, for each read, `input_filter`, which uses the second
codec; `u->length = 0` ends the response, `u->keepalive = 1` offers the
connection to the pool; on a failure before the response header is sent nginx
calls `reinit_request` and tries the next server; `finalize_request` is last.

What makes each part correct:

- reply filter: the client's bytes are one JSON array with every reply, in
  order, once; nothing that was received is lost; the response ends exactly at
  the last reply; the cache never overruns what was announced;
- upstream life cycle: a client sees replies to its own request only, all of
  them, or a failure; no call is answered twice; every request ends;
- codec JSON to Tarantool: the calls sent are those the document means; a
  refused document has the fault it is refused for;
- DML: the request sent is the one meant, whatever the order of the arguments,
  and it is allowed;
- dispatch: each request calls its own method, through the handler its content
  calls for; the buffers estimated are large enough;
- codec Tarantool to JSON: what is written is JSON, and the reply's value.

`PROJECT.json` lists the hazards of the code, each at its line, with the
properties that would notice it going wrong.

## The modules

| Module | Models |
|---|---|
| `ReplyStream` | abstract: what the reply path promises the client |
| `TntReplyFilter` | the reply filter, byte by byte, and nginx's loop around it |
| `TntReplyFilter_proofs` | its inductive invariant, its refinement of `ReplyStream` |
| `RpcProxy` | abstract: what the clients of one worker are promised |
| `TntUpstream` | the life of several requests in one worker |
| `TntUpstream_proofs` | types, rejected requests, own replies, complete answers, its refinement of `RpcProxy` |
| `TntRequestData` | the map of the HTTP request that is passed to Tarantool, loop by loop |
| `TntDispatch` | from the content phase to the encoded request, several requests at a time; extends `TntRequestData` |
| `TntDispatch_proofs` | types, each request calls its own function, bodies are served, headers announce what follows, the map is the request's |
| `TntJsonToTp` | the codec JSON to Tarantool, callback by callback |
| `JsonBody` | what the callbacks of a body mean, and that codec's properties |
| `JsonRpc` | what a JSON-RPC document means (recursive, TLC only) |
| `TntJsonToTp_proofs` | types, the stack stays within its memory and follows the body, calls are counted, nothing within the limits is refused |
| `JsonBody_proofs` | what is written is what the body means, an id or params that are wrong are refused, and these errors tell the truth |
| `Counting` | first, last and number of some positions |
| `Counting_proofs` | facts about these, and about functions defined by recursion on numbers |
| `TntReplyToJson` | the codec Tarantool to JSON, call by call, with the buffer's end |
| `ReplyText` | what the tokens of a reply mean, and that codec's properties |
| `ReplyJson` | the JSON of a reply's value (recursive, TLC only) |
| `TntReplyToJson_proofs` | types, brackets balance, what is written is what the tokens mean, what fits is written |
| `TntDml` | a DML request, argument by argument, then slot by slot |
| `TntDml_proofs` | types, access checks, causes of errors, the request sent is the one meant |
| `MCTntReplyFilter`, `MCTntUpstream`, `MCTntDispatch`, `MCTntJsonToTp`, `MCTntReplyToJson`, `MCTntDml` | small instances for TLC |

What passes from one model to the next is what passes between the parts of the
code: `TntDispatch` ends with a request that is encoded, rejected or given up,
which is where `CreateRequest` of `TntUpstream` begins; a JSON body of
`TntDispatch` is a document of `TntJsonToTp`, a DML request one of `TntDml`;
`TntUpstream` takes replies as units, which `TntReplyFilter` finds in the bytes
and `TntReplyToJson` prints.

Operators marked `Mutant` are faulty variants of the definition that follows
them. No specification uses them: put in place of that definition they show
that a property can fail (`PROJECT.json`, "mutants").

### TntReplyFilter

The variables are the fields of `ngx_http_tnt_ctx_t` and `ngx_http_upstream_t`
that the filter uses. A byte is its position in the stream and a copied run of
bytes the set of their positions, so that "the cache holds the k-th reply" is an
equality; `base`, `pos`, `last` are `u->buffer`'s pointers in these
coordinates. `Wires` is the set of streams: where each reply ends, which replies
cannot be transcoded, which headers are not a length, whether the request had
been rejected. One `FilterReply` step is one call of `ngx_http_tnt_filter_reply`
(four cases: header incomplete, header no length, body incomplete, reply sent);
`pc = "filter"` is the loop in `ngx_http_tnt_filter`, in which nothing else
runs. `SendResponse`, `Recv`, `WriteAll`, `WriteBlocks`, `WriteEvent`, `Eof`,
`GiveUp` are nginx's non-buffered request loop: it reads, calls the filter,
writes what was queued, and rewinds the buffer when all of it is written.
`SendResponse` is the first of these: `process_header` lets the header of the
response go out when something of a reply has arrived behind the greeting
(C:3952), or the request was rejected.

`ReplyStream` has four actions, `Deliver`, `Drop`, `Complete`, `Cut`. The
refinement maps `next` to the number of replies taken off the stream and
`answer` to the output buffers.

### TntUpstream

Replies are units `<<request, call>>`, the greeting of a new connection three
units. `CreateRequest` is `create_request` with its outcome given: calls, or an
error and the dummy call of `wakeup_dying_upstream`. `ReadHeaderAgain` and
`ReadHeader` are `process_header` with `read_greeting` and `output_err`;
`Reinit` is nginx's and the module's reinitialisation; `FilterReply` takes one
reply. `b->pos` may move past `b->last` when the greeting arrives in pieces, as
in the code: what follows is then taken for a reply (`garbled`). Its header
may be any length, or none, which ends the request (C:2493).
Nginx, its keepalive pool, the network and Tarantool are external:
connections fail or are closed by the server at any time, what had been sent
arrives in part, timers fire, clients abort, and the pool notices data on an
idle connection or does not before it is used again.

`RpcProxy` has no connections, buffers, servers or pool: `Accept`, `Respond` or
`Fail`, `Deliver`, `End`. `RefinesRpcProxy` maps its `served` to `cur` and its
`open` to `pc # "idle"`; `reqs` and `answer` are the same. An end that is `"ok"`
needs the whole answer; a connection that Tarantool closes ends a response
that is not whole as `"eof"` (the run `lost_connection` shows what the client
sees of that).

### TntRequestData and TntDispatch

`TntRequestData` is `get_request_data_map` and what it calls: a step is one turn
of one of its loops (`EncodeArg`, `EncodeHeader`, `EncodeField`) or what stands between them. The buffer is counted in units,
one for a key and one for a value; the slot of a header is filled when its loop
ends, with what has been counted. `Fits` is the code's test for room; where it
has none (C:3197) a step may lead to `overrun`, of which nothing is said.

`TntDispatch` has an action for each event that nginx delivers: `Handler` (which
evaluates `tnt_method` into the location's configuration, tests the request,
chooses name and handler), `ReadBody`, and the steps of `create_request`. Other
requests have their handlers run between these, but `running` keeps a
`create_request` whole, as the worker is one thread. `Conf` is
`merge_loc_conf`'s result for a location that is nested in another or is not. A
method's name is a piece of a path, or the whole path.

### TntJsonToTp, JsonBody and JsonRpc

The input is the sequence of yajl's callbacks for a document; a step is one
callback. The output is a sequence of tokens: a header with its id, an array or
map header with its count, a slot for one not yet known. Values are opaque,
sizes in bytes are left out (the handlers allocate the output). `allocated`
keeps its width: it is a `uint8_t` and wraps. An id is cut to 32 bits where it is
written (`tp_reqid`), which changes negative ones. A text that begins with `[]` or
`{}` (`compact`) is refused before yajl sees it (`RefuseEmpty`); `[ ]`, with a
space, is not, and has no calls.

What is to be sent is defined twice. `JsonRpc` defines it on the document, a tree,
by recursion (`EncodeCall`); the runs' inputs are the callbacks of documents.
`JsonBody` defines it on the callbacks, whatever the code does at each: how deep a
position is nested is the number of openings before it less that of closings
(`Nesting`), the array or map it is in is the last that opened one level up
(`Inside`), the count of an array is the number of values that are in it
(`Items`), and each callback then means some tokens (`Meaning`), which `Encoded`
strings together. The code has none of these: it has a stack, a stage, a set of
seen fields, and slots it comes back to. `IsBody` and `IsRequest` say which
sequences of callbacks are bodies and requests. The two definitions have nothing
in common, so that each tests the other in the run; the theorems are about
`JsonBody`'s, which is not recursive.

### TntReplyToJson, ReplyText and ReplyJson

The input is the sequence of MessagePack tokens, each with the number of
characters it takes in JSON. `tp2json_transcode_internal` calls itself for
every item; its calls are on `stack`, each with what it waits for, how many
more calls it will make, and its own variable `len`, the room it found when it
began, which is tested for brackets and commas though its callees write
meanwhile. A step is one call's way to the next call, or its return. `TYPE_MAP`
and `TYPE_KEY` are one pair of flags for all levels, as in the code, and
`multireturn_skiped` is counted down at whatever array comes. `Size` is what
`send_reply` allocates; where `pos` passes it the model ends in `overrun`. Other
ends are `done`, `oom` and `empty`.

As for requests, what is to be printed is defined twice. `ReplyJson` defines it
on the value that Tarantool sent, a tree, by recursion (`Json`), with the values
that the code prints right (`Regular`). `ReplyText` defines it on the tokens,
where MessagePack announces how many values an array or a map holds and has no
mark for its end: what a value still lacks is what has been announced in it less
what has come (`Missing`), it ends where that is first 0 (`EndsAt`), a token
is in the last array or map that has not ended (`Inside`) and has a number there
(`Nth`); with these each token means some text (`Meaning`): a comma or a colon
before it, itself, quoted or not, and the brackets of all that it completes.
`Text` strings the meanings together, `Wrapped` puts the JSON-RPC object around.
The code has none of these: it has a stack, counters on it, and two flags for all
levels. `IsLegible` says which sequences of tokens the code prints right;
`WritesTheReply` also compares it with `Regular`.

### TntDml

A step is one turn of a loop in `format_prepare` (`PrepareSpecial`,
`PrepareKv`, `SkipArg`, then `PrepareEnd` with the checks and the header) or in
`format_bind` (`Bind`, `BindEnd`). A value is what the code can tell of it: is
it empty, which number, iterator, boolean or operation it is. A slot has the
flags its memory held when the format was compiled, which
`ngx_http_tnt_format_compile` does not clear. What is meant by a query is
defined on the query as a whole (`MeantMessage`): the k-th argument of a name
goes into the k-th slot of that name (`Place` of `Counting`), and a special name
is taken for the first of the code's tests that it passes: limit, offset, iterator,
space, index, in the order in which `format_prepare` makes them.

## What is checked

| Run | Instance | Shows |
|---|---|---|
| `reply_filter` | up to 3 replies of 6 or 8 bytes, a receive buffer of 7 | `OneArray`, `NothingUnread`, `EndsAtLastReply`, `CacheIsReplyPrefix`; refinement of `ReplyStream`; `AnswerEnds` |
| `upstream_keepalive` | 3 requests of 1 or 2 calls or rejected, one server each, a keepalive pool, no aborts | each client gets the whole answer to its own request, a rejected one its error; the pool gets drained connections; refinement of `RpcProxy` |
| `upstream_retry` | 1 request of up to 3 calls, 2 servers, split greetings, aborts, untranscodable replies | no call answered twice, a rejected request sent at most once reported, every request ends |
| `dispatch` | 2 requests in one of 8 locations, 6 of them nested, lists of up to 3 arguments, a buffer of 19 units | `CallsItsOwn`, `MapIsTheRequest`, `BodyIsServed`, `RejectedForCause`, `HeadersAnnounceItems` |
| `json_to_tp` | all orders of up to 4 fields, nested params, skipped values, ids from -1 to one too large, batches of up to 4 with a limit of 2, nesting up to 9 with a stack of 7, empty bodies | `Faithful`, `WritesTheCalls`, `BatchSizeIsCalls`, `StackMirrorsNesting`, `StackFits`; `ErrorsAreTrue`: an id or params are refused exactly when they are wrong; `RefusedBeyondLimits`: no body within the limits is refused, and the depth ends where the stack's counter wraps, at 240, not at `MAX_STACK_SIZE` |
| `reply_to_json` | tuples and values nested up to 4 levels, errors, dumps, `tnt_multireturn_skip_count` up to 2, `tnt_out_multiplier` 1 and 3 | `WritesTheReply`, `WritesTheTokens`, `Balanced`, `FitsIsWritten` |
| `dml` | 9 locations, every query of up to 3 arguments | `SentAsMeant`, `SentIsAllowed`, `RejectedForCause` |

Why the bounds are enough. Reply filter: with headers of 5 bytes and a buffer
of 7, a read ends in a header, at its end, in a body or at its end, a read
holds the end of one reply and the beginning of the next, and a reply is larger
than the buffer or not; with three replies there is a first, a middle and a last
one. (That a reply is contained in a read together with two others is not
reached; the proof covers it.) Upstream: a connection is used by three requests,
so that one of each kind stands before and after each other; two servers give
one retry, and a retry after a retry starts from the same context. Codec: the
limits 253, 16384, 2^32 - 1 and the widths 16 and 256 are constants, given small
values of the same order (a chunk of 2 divides the byte size 8, the stack's
limit lies below it), so that each limit is reached and passed. DML: three
arguments suffice for a repeated one and a special one in any order; numbers are
1, 2, 3: allowed, last in the list, neither. Dispatch: the second request asks
the same location for another function, so that its handler may run before,
between and after the first's events; every flag of
`tnt_pass_http_request` occurs, in a location of its own or inherited; 19 units
hold the map without arguments and not every map with them, so that the room
ends in each of the loops. Reply codec: integers and doubles are given room for 11
characters, which is more than some take and less than others (the code's 20 and
15 are in this order, `RoomsAssumption`); the multiplier 1 leaves replies without room at every kind of token, 3
does not; arrays stand in maps and maps in arrays, empty and not, four deep.

Each of these runs disagrees with a sentence of the documentation or a test, as
`PROJECT.json` quotes it under "findings":

| Run | What it finds |
|---|---|
| `lost_connection` | `filter_init` leaves `u->length` at -1, so a connection that is closed when a part of the answer, at least one byte, has arrived ends a complete response (C:2338) |
| `lost_batch` | `reinit_request` forgets the batch size: from a second server the client of an accepted batch (the run has no other requests, `MCBatches`) gets the first reply only (C:3923) |
| `keepalive_desync` | `u->keepalive` is set in the middle of a batch; after a client abort the connection serves its replies to the next request (C:2602) |
| `json_skipped_keys` | keys named params, id, method inside a skipped map are acted on (T:416) |
| `dml_last_in_list` | the last number of `tnt_allowed_spaces` or `tnt_allowed_indexes` is dropped (C:1313) |

The passing runs exclude what these show, and what else the code does not do as
one would expect. Each of these is a hazard in `PROJECT.json` or a named part of
a property:

- `upstream_keepalive` has one server and no aborts; `RejectedIsReported` is about
  dummy calls that are sent at most once;
- `json_to_tp` has no keys named params, id or method in skipped maps, and no
  scalar as params: T:244 encodes one in place of the argument array. Its ids
  go down to -1, but `Faithful`, `WritesTheCalls` and `ErrorsAreTrue` are about
  unsigned ones, which README.md:256 asks for; a negative one is not refused
  (T:302);
- of a batch of `MAX_BATCH_SIZE + 1` calls no property says whether it is
  refused: the code lets it through, as it counts a call after the test (T:381),
  though its message calls `MAX_BATCH_SIZE` the most that is allowed (T:386).
  Nor does one say what becomes of an empty body with a space in it, `[ ]` or
  `{ }`: the code accepts the first with no call, and for the second it writes
  empty params without a header before them;
- `WritesTheReply` and `WritesTheTokens` are stated for `Regular` and `IsLegible`
  replies: an integer key that follows a
  map in the same map is not quoted (T:1028), an extension is left out with its
  comma standing (T:1049), and arrays to leave out that are not there or are
  empty take others (T:973). `Balanced` is stated for all replies. An error's
  message is copied as it is (T:1084), which is below the model's level;
- `MapIsTheRequest` and `HeadersAnnounceItems` leave out an urlencoded body that
  fills the buffer exactly (C:3099); `BodyIsServed` is about bodies with a
  Content-Length (a chunked one is dropped, C:3497) and not about
  `parse_urlencoded` without `on`, where there is no map to put the fields in;
- `RejectedForCause` of the DML model reads `test_allowed`'s list as the code does.
  `SentAsMeant` is stated for `Regular` queries and memory: not for an argument
  repeated after it was empty (counted twice, C:1931), an update without an
  operation (C:2096), or a slot in memory that was not zero (C:1505). The
  iterators `all_set` and `all_non_set` are read as `all` (C:1054): an iterator's
  name is not in the model.

### Fairness

`FairSpec` of `TntReplyFilter` is weak fairness of the steps of the worker
(`FilterReply`, `WriteAll`), of `SendResponse` and `Recv` (Tarantool has sent
every reply and TCP delivers), and of `WriteEvent` (the client reads). Nothing
is assumed of closes, timeouts, aborts, or of how much is read at once. With it
`AnswerEnds`: no timeout is needed to end an answer. `FairSpec` of `TntUpstream`
assumes only the worker and its timers: `EveryRequestEnds` holds though
Tarantool may be silent, because nginx arms a read timer whenever it waits.

Deadlock is not checked: every model ends when its requests do.

## What is proved

All theorems are of the form `Spec => []P`, `Spec => [][A]_vars` or
`Spec => Abstract!Spec`, for every value of the constants, under the named
assumptions of the module.

`TntReplyFilter_proofs`, from `WiresAssumption` (a wire's replies are longer than
their headers, a rejected request has one) and `BufSizeAssumption` (a positive
size):

- `TypeCorrect`, `ClientSeesOneArray`, `NoByteIsLost`, `EndsExactly`,
  `CacheNeverOverruns`: the safety properties of the run `reply_filter`;
- `FilterImplementsReplyStream`: the refinement.

The inductive invariant `IInv` says that the filter's place in the stream
determines all that it keeps: `seen` replies have been taken; in
`READ_PAYLOAD`, `pos` is `fill` bytes into the next header; in `READ_BODY`, the
cache is the next reply up to `pos` and `rest` the bytes that are missing; the
batch counters are functions of `seen`; the output is `RS!Element` of the replies
taken. None of the five properties is inductive alone: that a reply is closed
with a bracket follows from the counters, those from `seen`, and that `seen` is
counted right from where the header was found. The proof has one lemma for each
action; the case of a complete reply is split by conjunct.

`Counting_proofs` is what the others count with: the number of positions up to
the next one, when nothing is counted, when one set's count is below another's;
the first and the last position; and that a function defined by recursion on the
numbers `0..n` satisfies its equations. The last would be an induction; the
library's theorems of induction take an operator as a parameter, which the
provers cannot instantiate, so it is derived here for sets from the
well-foundedness of `<`.

`TntDml_proofs`, from `LocationsAssumption` and `QueriesAssumption`, for any
locations, formats and queries of any length:

- `TypesHold`;
- `OnlyAllowedIsSent`: no request gets through to a space or an index that the
  location does not list, or over the limit. The invariant (`LimitKept`,
  `Checked`): once the limit is no longer awaited the one stored was compared with
  the maximum; after the arguments' end the lists have been tested on the numbers
  the request has;
- `RequestsAreAsMeant`: a `Regular` query's message is `MeantMessage`. The
  invariant, `Meaningful`, follows both passes: `AllCollected`, what the special
  arguments read so far have set is what the query's first usable ones mean;
  `Filled`, a slot has a value exactly if its argument, the k-th of its name, has
  been read, and that one; `Counted`, each of the three counters is the number of
  filled slots of its kind; `Loops`, `Composed`, what `format_bind` has written is
  the header and the meaning of the slots it has passed. That a header announces
  what follows it is `Counted`, at the end of the arguments, together with
  `Composed`, at the end of the slots;
- `RejectionsHaveCause`: an error has the cause it names, from `AllCollected`
  (what is awaited still was not given) and `Filled`.

`TntUpstream_proofs`, from `RequestsAssumption`, `BoundsAssumption` and
`FlagsAssumption`, for any number of requests, calls and servers. Four invariants,
each on top of the one before:

- `Types`. Theorem `UpstreamTypes`.
- `Told`: a request that has been sent nowhere has the context `create_request`
  gave it (`Fresh`), and one that was rejected keeps its error until it is sent a
  second time (`ErrorKept`). Theorem `RejectedIsAlwaysReported`.
- `Flow`: what comes on a connection is one stream, the greeting and then the
  replies to the request that has it; `buf` and `wire` together are its rest from
  one place on (`Place`), and the replies delivered are those before it
  (`InOrder`). A split greeting moves the place, which is why it can cost replies
  but never repeat or swap them. This holds as long as connections are taken from
  the pool empty. Theorem `AnsweredOnceEver`, for `Keepalive = FALSE`.
- `Whole`: in the regime `Orderly` (clients do not go away, greetings come whole,
  nothing is sent twice, every reply can be transcoded) the place in the stream
  and the batch counters agree (`Course`), so the last reply is the stream's end,
  an answer that ended well is whole (`Ended`), and the connection goes back
  empty (`PoolIsClean`). Theorems `CompleteAnswerEver`, `OkReusesCleanEver`, and
  the refinement `UpstreamImplementsProxy`.

- `OwnRepliesEver`: clients are given nothing but replies to their own calls, in
  the regime `Orderly` with a pool, or without a pool in any, from the two
  invariants before.

The regime is needed: outside of it the runs `lost_batch` and `keepalive_desync`
are counterexamples.

`TntDispatch_proofs`, from the assumptions on locations, traffic and the call's
header, for any requests, locations, nesting of one level, settings and buffer:

- `DispatchTypes`; `CallsItsOwnAlways`; `BodyIsServedAlways`;
  `RejectedForCauseAlways`; `HeadersAnnounceAlways`. The invariant `IInv` has
  `EncoderInv` (each header's slot will hold the length of what its loop has
  written) and what holds of a request between its events: the name and the
  handler in its context are functions of the request and the configuration
  alone. `MethodsInv` says the same of the shared `tlcf->method` where no
  `tnt_method` is set. That the shared value is not read after the handler is
  what makes `CallsItsOwn` true; its mutant reads it later.
- `MapIsTheRequestAlways`: the map that is passed on has the keys that the request's
  location asks for, the arguments and fields that have a value each once and in
  order, as many headers as came with the request and as `tnt_set_header` adds.
  The invariant on top of `IInv`, `OwnMap`: the lists that are being encoded are
  the running request's (`HttpOf(running)`), though others arrive meanwhile, and
  their headers are counted once, before or after the handler added its own
  (`HeadersInv`); at each place of the encoder's loops the map so far is that part
  of the lists (`MapInv`).

`TntReplyToJson_proofs`, from `RepliesAssumption` and `RoomsAssumption`, for
tokens of any number, nesting and size:

- `ReplyTypes`: `TypeOK` is not inductive, as the flags are shared by all levels.
  The invariant says that `TYPE_MAP` is set only while a map is open and
  `TYPE_KEY` only while a map waits for a key, so that both are down at the end.
- `BracketsBalance`: `Balanced` is kept by each step; the lemmas count brackets in
  the output and calls on the stack.
- `TheReplyIsWritten` and `WhatFitsIsWritten`: a legible reply is printed as
  `Text` of its tokens, and printed whenever the buffer has room for that and for
  the widest integer besides. Both follow from one invariant, `Prints`: there is a
  sequence `s` of the tokens at which the calls on the stack began (`ReadsOn`), so
  that
  - `Reads`: what each call waits for is what the token it began at still lacks,
    less what its callees lack (`Waits`); an array or map that is behind the
    reader is on the stack or has ended (`Past`); the flags say what the innermost
    call waits for (`Flags`, which is where an integer key behind a map would
    fail);
  - `Sofar`: what has been written is the text of the tokens that were read, up to
    the brackets of those that have ended and are still to return;
  - in characters, `pos` is the size of that, and no `len` on the stack is less
    than the room that is left. As each token is worth a character at
    least, what is still to come covers every test the code makes
    (`SofarFits`, `NeedsFit`).

  The module has three layers: facts about sequences of tokens (`MissingSteps`,
  `TextSteps`, `JsonSizeGrows`), how `Reads` and `Sofar` go on when a token is read
  or a call returns (`ReadBox`, `ReadEnd`, `PrintsBox`, `PrintsEnd`), and one lemma
  for each action (`BoxPrints`, `EndPrints`, `CompletePrints`). An error needs only
  `Reports`: nothing is read, and the room for it is in what `send_reply`
  allocates.

`TntJsonToTp_proofs`, from `InputsAssumption` and `LimitsAssumption` (a byte
holds a whole number of chunks, and the limit of the stack), for every sequence
of callbacks, also one that no JSON text has:

- `StackNeverOverruns`: items are pushed only where memory was allocated for
  them, though the counter wraps at 256 before the limit is reached. The
  invariant adds that `allocated` is a whole number of chunks and not 0: so one
  chunk more is either within the byte's range or exactly its end, where it wraps
  to 0 and `stack_push` gives up. With a chunk that does not divide 256 it would
  wrap to another number, and the theorem would fail.
- `CodecTypes`, with the sequences' element types in the invariant.

and for inputs that are bodies, or are refused unread (`OnlyBodies`, which asks
nothing of what the calls hold):

- `StackFollowsTheBody`, `RepliesExpectedAreCalls`, `LimitsHold`. The
  invariant, `JInv`: the stack is as long as the body is open (`Placed`), less the
  batch's array; the stage is `INIT` exactly between two calls and at the map that
  opens one; the calls counted are those that have begun. A key, a value, an end
  is acted on in each stage in another way, also in the wrong one; that none of
  them pushes or pops where the body does not is what the lemmas say, one for each
  callback.

`JsonBody_proofs`, from the same two assumptions, for requests of any number of
calls, fields, items and any depth:

- `CallsAreAsTheBodySays`: what has been written when a request is accepted is
  `Encoded` of its callbacks. The invariant (`RInv`) says that the codec's
  variables are determined by the callbacks made so far (`Follows`): the stage, by
  the field that the body is in; the fields seen, by the keys of the call; each
  item of the stack, by the array or map that is open at its level, its count by
  the items so far and its slot by where it opened; the id's slot, by the call.
  What is written agrees with `Encoded` everywhere but in the slots not yet filled
  (`Matches`, `Pending`), and at a call's end none is left. The first part of the
  module is about bodies alone: what is inside what, and which of these a callback
  changes.
- `ErrorsTellTheTruth`, from the same invariant: the field that the codec is in
  when it gives up is that of the body. That it does not go on where it should
  give up is the part `Faultless` of the invariant: behind the codec there is no
  id too large, and no params that are a map but those that are still open, at
  whose end it gives up.

Both are about requests (`IsRequest`), whose ids are unsigned.

Only model-checked: liveness (`AnswerEnds`, `EveryRequestEnds`), which TLAPS's
backends do not reach; `Faithful`, as a document's meaning in `JsonRpc` is
recursive over a tree (`WritesTheCalls`, which is proved, says the same of the
callbacks); and `WritesTheReply`, as `ReplyJson` is recursive too
(`WritesTheTokens`, which is proved, says the same of the tokens).

## Not modelled

- Memory and resource failures (`NGX_ERROR` of an allocation), except the ends
  they lead to (`GiveUp`, `Fail`).
- Text: JSON's and URLs' syntax (yajl, `urldecode`, `unescape_uri`), number
  formatting, error messages. `num_buf[16]` (C:2178) cuts numbers; names of
  methods are cut at 127 bytes (C:2916).
- The size of the request's buffer (C:2710), which depends on all of these
  texts' lengths; the codec's model has no end of its output.
- Configuration parsing beyond the format's types and the lists; of what
  `merge_loc_conf` merges the DML settings other than the request's type.
- The interface of the codecs (`tp_transcode_init` and the others): a table of the
  codecs' functions, which keeps no state of its own.
- `third_party/` (MessagePack, yajl), `misc/` tools, the build.

## What is left

- `TntUpstream`'s `CreateRequest` chooses its outcome freely; it could be composed
  with the outcomes of `TntDispatch`, `TntJsonToTp` and `TntDml`.
- The formats of the DML directives as they are compiled, and the merging of their
  settings.
