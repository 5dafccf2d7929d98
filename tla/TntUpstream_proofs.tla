--------------------------- MODULE TntUpstream_proofs ---------------------------
(***************************************************************************)
(* Theorems about TntUpstream, for any requests, numbers of requests and   *)
(* of servers, with or without keepalive and resending.                    *)
(*                                                                         *)
(* Types: the variables' types.  Told: what clients of rejected requests   *)
(* are told.  Flow: what travels on a connection is one stream, the        *)
(* greeting and then the replies to the request that has the connection;   *)
(* buffer and network stand at one place of it, if connections are taken   *)
(* from the pool empty.  Whole: in the orderly regime the place and the    *)
(* counters of the batch agree, so that the last reply is the end of the   *)
(* stream and the connection is given back empty.                          *)
(***************************************************************************)
EXTENDS TntUpstream, TLAPS

Unit == (0..NReqs) \X Nat

Item == [reply : Unit, open : BOOLEAN, tail : {"none", "comma", "close"}]

Answer ==
  [status : {0, 200, 400, 502, 504}, items : Seq(Item),
   end : {"none", "ok", "eof", "error"}]

Busy == pc \in {"connect", "send", "header", "filter", "body"}

Types ==
  /\ TypeOK
  /\ answer \in [1..NReqs -> Answer]
  /\ wire \in [Conns -> Seq(Unit)] /\ buf \in Seq(Unit)
  /\ pc # "idle" => cur # 0
  /\ Busy => tries # 0

(* The constants are what the assumptions say.                             *)
LEMMA Constants ==
  /\ NReqs \in Nat \ {0} /\ Tries \in Nat \ {0}
  /\ NReqs * Tries \in Nat /\ Conns = 1..(NReqs * Tries)
  /\ Keepalive \in BOOLEAN /\ ResendAllowed \in BOOLEAN
  /\ Aborts \in BOOLEAN /\ SplitGreeting \in BOOLEAN
<1>1. NReqs \in Nat \ {0} /\ Tries \in Nat \ {0}
  BY BoundsAssumption
<1>2. NReqs * Tries \in Nat
  BY <1>1, SMT
<1> QED BY <1>1, <1>2, FlagsAssumption DEF Conns

(* A request's replies are units.                                          *)
LEMMA RepliesAreUnits ==
  ASSUME NEW r \in 1..NReqs, IsRequest(reqs[r])
  PROVE  RepliesTo(r) \in Seq(Unit)
<1>1. \A k \in Nat : <<r, k>> \in Unit
  BY Constants DEF Unit
<1>2. reqs[r].n \in Nat
  BY DEF IsRequest
<1>3. << <<r, 0>> >> \in Seq(Unit)
  BY <1>1
<1>4. [k \in 1..reqs[r].n |-> <<r, k>>] \in Seq(Unit)
  BY <1>1, <1>2
<1> QED BY <1>3, <1>4 DEF RepliesTo

(* The request that is served.                                             *)
LEMMA Served ==
  ASSUME Types, pc # "idle"
  PROVE  /\ cur \in 1..NReqs /\ IsRequest(reqs[cur])
         /\ answer[cur] \in Answer
         /\ RepliesTo(cur) \in Seq(Unit)
<1>1. cur \in 1..NReqs
  BY Constants DEF Types, TypeOK
<1>2. IsRequest(reqs[cur])
  BY <1>1, RequestsAssumption DEF Types, TypeOK
<1> QED BY <1>1, <1>2, RepliesAreUnits DEF Types

(* TypeOK by parts: what is served, the counters, the flags, connections.  *)
ServingType ==
  /\ reqs \in [1..NReqs -> Requests] /\ cur \in 0..NReqs
  /\ pc \in {"idle", "connect", "send", "header", "filter", "body", "ok", "error"}
  /\ sent \in [1..NReqs -> Nat] /\ tries \in 0..Tries

CountersType ==
  /\ rest_batch_size \in 0..batch_size /\ batch_size \in Nat /\ length \in {-1, 0}

FlagsType ==
  /\ state \in {"OK", "INPUT_ERROR"} /\ in_err = (state = "INPUT_ERROR")
  /\ greeting \in BOOLEAN /\ request_sent \in BOOLEAN /\ keepalive \in BOOLEAN
  /\ reused \in BOOLEAN /\ broken \in BOOLEAN /\ garbled \in BOOLEAN

ConnsType ==
  /\ conn \in 0..opened /\ opened \in 0..(NReqs * Tries)
  /\ idle \subseteq 1..opened /\ fin \subseteq 1..opened /\ conn \notin idle
  /\ pc \in {"send", "header", "filter", "body"} => conn # 0

(* The parts and the whole.                                                *)
LEMMA TypeParts ==
  /\ Types => ServingType /\ CountersType /\ FlagsType /\ ConnsType
  /\ ServingType /\ CountersType /\ FlagsType /\ ConnsType
       /\ answer \in [1..NReqs -> Answer] => TypeOK
<1>1. ASSUME answer \in [1..NReqs -> Answer]
      PROVE  \A r \in 1..NReqs : answer[r].status \in {0, 200, 400, 502, 504}
  BY <1>1 DEF Answer
<1>2. FlagsType <=>
        /\ state \in {"OK", "INPUT_ERROR"} /\ in_err = (state = "INPUT_ERROR")
        /\ {greeting, request_sent, keepalive, reused, broken, garbled} \subseteq BOOLEAN
  BY Zenon DEF FlagsType
<1>3. Types => ServingType /\ CountersType /\ ConnsType
  BY DEF Types, TypeOK, ServingType, CountersType, ConnsType
<1>4. Types => FlagsType
  BY <1>2, Zenon DEF Types, TypeOK
<1>5. ServingType /\ CountersType /\ FlagsType /\ ConnsType
        /\ answer \in [1..NReqs -> Answer] => TypeOK
  <2> SUFFICES ASSUME ServingType, CountersType, FlagsType, ConnsType,
                      answer \in [1..NReqs -> Answer]
               PROVE  TypeOK
    OBVIOUS
  <2>1. /\ state \in {"OK", "INPUT_ERROR"} /\ in_err = (state = "INPUT_ERROR")
        /\ {greeting, request_sent, keepalive, reused, broken, garbled} \subseteq BOOLEAN
    BY <1>2
  <2>2. /\ reqs \in [1..NReqs -> Requests] /\ cur \in 0..NReqs
        /\ pc \in {"idle", "connect", "send", "header", "filter", "body", "ok", "error"}
        /\ sent \in [1..NReqs -> Nat] /\ tries \in 0..Tries
    BY Zenon DEF ServingType
  <2>3. /\ rest_batch_size \in 0..batch_size /\ batch_size \in Nat /\ length \in {-1, 0}
    BY Zenon DEF CountersType
  <2>4. /\ conn \in 0..opened /\ opened \in 0..(NReqs * Tries)
        /\ idle \subseteq 1..opened /\ fin \subseteq 1..opened /\ conn \notin idle
        /\ pc \in {"send", "header", "filter", "body"} => conn # 0
    BY Zenon DEF ConnsType
  <2>5. \A r \in 1..NReqs : answer[r].status \in {0, 200, 400, 502, 504}
    BY <1>1
  <2> QED BY <2>1, <2>2, <2>3, <2>4, <2>5, Zenon DEF TypeOK
<1> QED BY <1>3, <1>4, <1>5

(* The same in the next state.                                             *)
LEMMA TypePartsNext ==
  ASSUME ServingType', CountersType', FlagsType', ConnsType',
         answer' \in [1..NReqs -> Answer]
  PROVE  TypeOK'
<1>1. \A r \in 1..NReqs : answer'[r].status \in {0, 200, 400, 502, 504}
  BY DEF Answer
<1>2. /\ state' \in {"OK", "INPUT_ERROR"} /\ in_err' = (state' = "INPUT_ERROR")
      /\ {greeting', request_sent', keepalive', reused', broken', garbled'}
           \subseteq BOOLEAN
  BY Zenon DEF FlagsType
<1> QED BY <1>1, <1>2, Zenon DEF TypeOK, ServingType, CountersType, ConnsType

(* The variables have their types at first.                                *)
LEMMA InitTypes == Init => Types
<1> SUFFICES ASSUME Init PROVE Types
  OBVIOUS
<1>1. ServingType /\ CountersType /\ ConnsType
  BY Constants DEF Init, ServingType, CountersType, ConnsType
<1>2. FlagsType
  BY DEF Init, FlagsType
<1>3. answer \in [1..NReqs -> Answer]
  BY Constants DEF Init, Answer
<1>4. wire \in [Conns -> Seq(Unit)] /\ buf \in Seq(Unit)
  BY DEF Init
<1>5. TypeOK
  BY <1>1, <1>2, <1>3, TypeParts
<1>6. pc = "idle"
  BY DEF Init
<1> QED BY <1>3, <1>4, <1>5, <1>6 DEF Types, Busy

(* An answer with an item more is an answer.                               *)
LEMMA ItemAdded ==
  ASSUME NEW a \in Answer, NEW item \in Item
  PROVE  [a EXCEPT !.items = Append(@, item)] \in Answer
<1>1. Append(a.items, item) \in Seq(Item)
  BY DEF Answer
<1> QED BY <1>1 DEF Answer

(* The counters stay in their range.                                       *)
LEMMA CountReplyType ==
  ASSUME CountersType, CountReply
  PROVE  CountersType'
BY DEF CountersType, CountReply, BatchDone

(* The filter's steps keep the types.                                      *)
LEMMA FilterTypes ==
  ASSUME Types, Filter
  PROVE  Types'
<1>1. /\ pc = "filter" /\ cur \in 1..NReqs /\ answer[cur] \in Answer
      /\ conn # 0 /\ tries # 0
      /\ ServingType /\ CountersType /\ FlagsType /\ ConnsType
  BY Served, TypeParts
     DEF Filter, FilterNothing, FilterReply, FilterGarbage, Types, Busy, ConnsType
<1>2. ASSUME buf # <<>> PROVE Tail(buf) \in Seq(Unit) /\ Head(buf) \in Unit
  BY <1>2 DEF Types
<1>3. /\ UNCHANGED <<reqs, cur, sent, state, in_err, greeting, tries, request_sent>>
      /\ UNCHANGED <<conn, reused, broken, wire, fin, idle, opened>>
      /\ pc' \in {"filter", "ok", "body", "error"} /\ keepalive' \in BOOLEAN
  BY <1>1 DEF Filter, FilterNothing, FilterReply, FilterGarbage, FilterReturnsOk,
              FlagsType, ctxVars, netVars, history
<1>4. CountersType'
  BY <1>1, CountReplyType
     DEF Filter, FilterNothing, FilterReply, FilterGarbage, ctxVars, CountersType
<1>5. garbled' \in BOOLEAN
  BY <1>1 DEF Filter, FilterNothing, FilterReply, FilterGarbage, netVars, FlagsType
<1>6. buf' \in Seq(Unit)
  BY <1>2 DEF Filter, FilterNothing, FilterReply, FilterGarbage, AfterReply, Types
<1>7. answer' \in [1..NReqs -> Answer]
  <2>1. CASE ~FilterReply
    BY <2>1 DEF Filter, FilterNothing, FilterGarbage, history, Types
  <2>2. CASE FilterReply
    <3> DEFINE item == [reply |-> Head(buf), open |-> Opens, tail |-> Closes]
    <3>1. item \in Item
      <4>1. Opens \in BOOLEAN /\ Closes \in {"none", "comma", "close"}
        BY DEF Opens, Closes
      <4> QED BY <1>2, <2>2, <4>1 DEF Item, FilterReply
    <3>2. answer' \in {answer, [answer EXCEPT ![cur].items = Append(@, item)]}
      BY <2>2 DEF FilterReply
    <3> HIDE DEF item
    <3>3. [answer[cur] EXCEPT !.items = Append(@, item)] \in Answer
      BY <1>1, <3>1, ItemAdded
    <3> QED BY <1>1, <3>2, <3>3 DEF Types
  <2> QED BY <2>1, <2>2
<1>8. ServingType' /\ ConnsType'
  BY <1>1, <1>3 DEF ServingType, ConnsType
<1>9. FlagsType'
  BY <1>1, <1>3, <1>5 DEF FlagsType
<1>10. TypeOK'
  BY <1>4, <1>7, <1>8, <1>9, TypePartsNext
<1> QED BY <1>1, <1>3, <1>6, <1>7, <1>10 DEF Types

(* What arrives is moved from the network to the buffer.                   *)
LEMMA Arrives ==
  ASSUME Types, pc \in {"header", "body"}, NEW k \in Readable(conn), Delivered(k)
  PROVE  /\ conn \in Conns /\ k \in 1..Len(wire[conn]) /\ wire[conn] \in Seq(Unit)
         /\ Received(k) \in Seq(Unit) /\ wire' \in [Conns -> Seq(Unit)]
<1>1. conn \in Conns
  BY Constants DEF Types, TypeOK
<1>2. wire[conn] \in Seq(Unit) /\ k \in 1..Len(wire[conn]) /\ buf \in Seq(Unit)
  BY <1>1 DEF Types, Readable
<1>3. SubSeq(wire[conn], 1, k) \in Seq(Unit)
  BY <1>2
<1>4. SubSeq(wire[conn], k + 1, Len(wire[conn])) \in Seq(Unit)
  BY <1>2
<1> QED BY <1>1, <1>2, <1>3, <1>4 DEF Received, Delivered, Types

(* How far read_greeting moves.                                            *)
LEMMA GreetingMoves ==
  ASSUME NEW b \in Seq(Unit)
  PROVE  read_greeting(b) \in {0, 3} /\ SubSeq(b, read_greeting(b) + 1, Len(b)) \in Seq(Unit)
<1>1. read_greeting(b) \in {0, 3}
  BY DEF read_greeting, GreetingSize
<1> QED BY <1>1

(* The steps that read keep the types.                                     *)
LEMMA ReadTypes ==
  ASSUME Types, conn # 0, Read
  PROVE  Types'
<1>0. PICK k : ReadHeaderAgain(k) \/ ReadHeader(k) \/ Recv(k)
  BY DEF Read
<1>1. /\ pc \in {"header", "body"} /\ k \in Readable(conn) /\ Delivered(k)
  BY <1>0 DEF ReadHeaderAgain, ReadHeader, Recv
<1>2. /\ cur \in 1..NReqs /\ answer[cur] \in Answer /\ tries # 0
      /\ ServingType /\ CountersType /\ FlagsType /\ ConnsType
  BY <1>1, Served, TypeParts DEF Types, Busy
<1>3. Received(k) \in Seq(Unit) /\ wire' \in [Conns -> Seq(Unit)]
  BY <1>1, Arrives
<1>4. /\ UNCHANGED <<reqs, cur, sent, state, in_err, batch_size, rest_batch_size>>
      /\ UNCHANGED <<tries, request_sent, keepalive, conn, reused, broken, fin, idle>>
      /\ UNCHANGED <<opened, garbled>>
      /\ pc' \in {"header", "filter", "body", "ok"} /\ greeting' \in BOOLEAN
      /\ length' \in {-1, 0}
  BY <1>0, <1>1, <1>2
     DEF ReadHeaderAgain, ReadHeader, Recv, history, ctxVars, FlagsType, CountersType,
         GreetingOnly
<1>5. buf' \in Seq(Unit)
  <2>1. CASE ReadHeaderAgain(k)
    BY <2>1 DEF ReadHeaderAgain
  <2>2. CASE ReadHeader(k)
    <3>1. buf' = SubSeq(Received(k), read_greeting(Received(k)) + 1, Len(Received(k)))
      BY <2>2 DEF ReadHeader
    <3> QED BY <1>3, <3>1, GreetingMoves
  <2>3. CASE Recv(k)
    BY <1>3, <2>3 DEF Recv
  <2> QED BY <1>0, <2>1, <2>2, <2>3
<1>6. answer' \in [1..NReqs -> Answer]
  <2>1. HeaderStatus \in {200, 400, 500}
    BY DEF HeaderStatus
  <2>2. HeaderStatus # 500
    <3>1. state = "OK" \/ in_err
      BY <1>2, Zenon DEF FlagsType
    <3> QED BY <3>1 DEF HeaderStatus
  <2>3. [answer[cur] EXCEPT !.status = HeaderStatus] \in Answer
    BY <1>2, <2>1, <2>2 DEF Answer
  <2>4. answer' \in {answer, [answer EXCEPT ![cur].status = HeaderStatus]}
    BY <1>0 DEF ReadHeaderAgain, ReadHeader, Recv, history
  <2> QED BY <1>2, <2>3, <2>4 DEF Types
<1>7. ServingType' /\ ConnsType' /\ CountersType'
  BY <1>1, <1>2, <1>4 DEF ServingType, ConnsType, CountersType
<1>8. FlagsType'
  BY <1>2, <1>4 DEF FlagsType
<1>9. TypeOK'
  BY <1>6, <1>7, <1>8, TypePartsNext
<1> QED BY <1>2, <1>3, <1>4, <1>5, <1>6, <1>9 DEF Types

(* Failures keep the types.                                                *)
LEMMA NextUpstreamTypes ==
  ASSUME Types, Busy, pc \in {"connect", "header"}, NEW left, NEW status \in {502, 504},
         left = tries - 1 \/ left = tries, NextUpstream(left, status)
  PROVE  Types'
<1>1. /\ cur \in 1..NReqs /\ answer[cur] \in Answer /\ tries \in Nat \ {0}
      /\ ServingType /\ CountersType /\ FlagsType /\ ConnsType
  BY Served, TypeParts, Constants DEF Types, ServingType
<1>2. /\ UNCHANGED <<reqs, cur, sent, state, in_err, batch_size, rest_batch_size>>
      /\ UNCHANGED <<greeting, request_sent, keepalive, reused, broken, length>>
      /\ UNCHANGED <<wire, fin, idle, opened, garbled, buf>>
      /\ tries' = left /\ conn' = 0 /\ pc' \in {"connect", "error"}
      /\ pc' = "connect" => left # 0
  BY DEF NextUpstream, ctxVars, netVars
<1>3. answer' \in [1..NReqs -> Answer]
  <2>1. [answer[cur] EXCEPT !.status = status] \in Answer
    BY <1>1 DEF Answer
  <2>2. answer' = answer \/ answer' = [answer EXCEPT ![cur].status = status]
    BY DEF NextUpstream
  <2>3. answer \in [1..NReqs -> Answer]
    BY DEF Types
  <2> QED BY <1>1, <2>1, <2>2, <2>3
<1>4. tries' \in 0..Tries
  BY <1>1, <1>2, Constants DEF ServingType
<1>5. ServingType' /\ CountersType' /\ ConnsType'
  <2>1. 0 \in 0..opened /\ 0 \notin idle
    BY <1>1, Constants DEF ConnsType
  <2> QED BY <1>1, <1>2, <1>4, <2>1 DEF ServingType, CountersType, ConnsType
<1>6. FlagsType'
  BY <1>1, <1>2 DEF FlagsType
<1>7. TypeOK'
  BY <1>3, <1>5, <1>6, TypePartsNext
<1> QED BY <1>1, <1>2, <1>3, <1>7 DEF Types, Busy

(* The steps that only move pc and broken, or the network.                 *)
LEMMA EventTypes ==
  ASSUME Types,
         \/ BodyEof \/ BodyTimeout \/ ClientAbort
         \/ \E c \in Conns : ServerCloses(c) \/ IdleDrop(c)
  PROVE  Types'
<1>1. ServingType /\ CountersType /\ FlagsType /\ ConnsType
  BY TypeParts
<1> DEFINE Moved ==
        /\ UNCHANGED <<reqs, cur, sent, answer, state, in_err, batch_size, rest_batch_size>>
        /\ UNCHANGED <<greeting, request_sent, keepalive, reused, length, tries, buf>>
        /\ UNCHANGED <<conn, opened, garbled>>
        /\ broken' \in BOOLEAN /\ pc' \in {pc, "ok", "error"} /\ (pc = "idle" => pc' = pc)
        /\ idle' \subseteq idle /\ fin' \subseteq 1..opened
        /\ wire' \in [Conns -> Seq(Unit)]
<1>2. Moved
  <2>1. CASE BodyEof \/ BodyTimeout
    BY <1>1, <2>1 DEF BodyEof, BodyTimeout, EndBody, history, ctxVars, netVars, Types,
                      ConnsType
  <2>2. CASE ClientAbort
    BY <1>1, <2>2 DEF ClientAbort, history, ctxVars, uVars, netVars, Types, ConnsType,
                      FlagsType
  <2>3. ASSUME NEW c \in Conns, ServerCloses(c) PROVE Moved
    <3>1. PICK k \in 0..Len(wire[c]) : wire' = [wire EXCEPT ![c] = SubSeq(@, 1, k)]
      BY <2>3 DEF ServerCloses
    <3>2. wire[c] \in Seq(Unit)
      BY DEF Types
    <3>3. SubSeq(wire[c], 1, k) \in Seq(Unit)
      BY <3>2
    <3>4. fin' \subseteq 1..opened
      BY <1>1, <2>3, Constants DEF ServerCloses, ConnsType
    <3> QED BY <1>1, <2>3, <3>1, <3>3, <3>4
            DEF ServerCloses, history, ctxVars, uVars, Types, FlagsType
  <2>4. ASSUME NEW c \in Conns, IdleDrop(c) PROVE Moved
    BY <1>1, <2>4 DEF IdleDrop, history, ctxVars, uVars, Types, ConnsType, FlagsType
  <2> QED BY <2>1, <2>2, <2>3, <2>4
<1>3. ServingType' /\ CountersType' /\ ConnsType'
  BY <1>1, <1>2 DEF ServingType, CountersType, ConnsType
<1>4. FlagsType'
  BY <1>1, <1>2 DEF FlagsType
<1>5. TypeOK'
  BY <1>2, <1>3, <1>4, TypePartsNext DEF Types
<1> QED BY <1>2, <1>5 DEF Types, Busy

(* A new request keeps the types.                                          *)
LEMMA CreateRequestTypes ==
  ASSUME Types, CreateRequest
  PROVE  Types'
<1>1. ServingType /\ CountersType /\ FlagsType /\ ConnsType /\ cur < NReqs
  BY TypeParts DEF CreateRequest
<1>2. cur + 1 \in 1..NReqs /\ IsRequest(reqs[cur + 1])
  BY <1>1, Constants, RequestsAssumption DEF ServingType
<1>3. /\ UNCHANGED <<reqs, answer, sent, wire, fin, idle, opened>>
      /\ cur' = cur + 1 /\ greeting' = FALSE /\ tries' = Tries
      /\ request_sent' = FALSE /\ keepalive' = FALSE /\ length' = -1
      /\ buf' = <<>> /\ conn' = 0 /\ reused' = FALSE /\ broken' = FALSE
      /\ garbled' = FALSE /\ pc' = "connect"
      /\ rest_batch_size' = batch_size'
      /\ batch_size' = IF reqs[cur + 1].n > 1 THEN reqs[cur + 1].n ELSE 0
  BY DEF CreateRequest
<1>4. /\ state' = IF reqs[cur + 1].rejected THEN "INPUT_ERROR" ELSE "OK"
      /\ in_err' = reqs[cur + 1].rejected
  BY DEF CreateRequest
<1>5. ServingType' /\ CountersType'
  <2>1. batch_size' \in Nat
    BY <1>2, <1>3 DEF IsRequest
  <2> QED BY <1>1, <1>2, <1>3, <2>1, Constants DEF ServingType, CountersType
<1>6. ConnsType'
  BY <1>1, <1>3, Constants DEF ConnsType
<1>7. FlagsType'
  <2>1. state' \in {"OK", "INPUT_ERROR"} /\ in_err' = (state' = "INPUT_ERROR")
    <3>1. reqs[cur + 1].rejected \in BOOLEAN
      BY <1>2 DEF IsRequest
    <3>2. CASE reqs[cur + 1].rejected = TRUE
      BY <1>4, <3>2
    <3>3. CASE reqs[cur + 1].rejected = FALSE
      BY <1>4, <3>3
    <3> QED BY <3>1, <3>2, <3>3
  <2> QED BY <1>3, <2>1 DEF FlagsType
<1>8. TypeOK'
  BY <1>3, <1>5, <1>6, <1>7, TypePartsNext DEF Types
<1> QED BY <1>1, <1>3, <1>8, Constants DEF Types, Busy, ServingType

(* So does a connection.                                                   *)
LEMMA ConnectTypes ==
  ASSUME Types, Connect
  PROVE  Types'
<1>1. /\ ServingType /\ CountersType /\ FlagsType /\ ConnsType
      /\ pc = "connect" /\ Reinit /\ tries # 0 /\ cur # 0
  BY TypeParts DEF Connect, ConnectNew, ConnectCached, Types, Busy
<1>2. /\ UNCHANGED <<reqs, cur, answer, sent, tries, length, fin>> /\ pc' = "send"
      /\ buf' = <<>> /\ request_sent' = FALSE /\ broken' = FALSE /\ garbled' = FALSE
      /\ reused' \in BOOLEAN /\ keepalive' \in BOOLEAN
  BY <1>1 DEF Connect, ConnectNew, ConnectCached, history, Reinit, FlagsType
<1>3. CountersType' /\ greeting' \in BOOLEAN
  <2>1. CASE reset_ctx
    <3>1. batch_size' = 0 /\ rest_batch_size' = 0 /\ length' \in {-1, 0}
      <4>1. length' = length /\ length \in {-1, 0}
        BY <1>1, <1>2 DEF CountersType
      <4> QED BY <2>1, <4>1 DEF reset_ctx
    <3>2. greeting' = FALSE
      BY <2>1 DEF reset_ctx
    <3>3. CountersType'
      BY <3>1 DEF CountersType
    <3> QED BY <3>2, <3>3
  <2>2. CASE UNCHANGED ctxVars
    <3>1. CountersType'
      BY <1>1, <1>2, <2>2 DEF ctxVars, CountersType
    <3>2. greeting' \in BOOLEAN
      BY <1>1, <2>2 DEF ctxVars, FlagsType
    <3> QED BY <3>1, <3>2
  <2> QED BY <1>1, <2>1, <2>2 DEF Reinit
<1>4. state' \in {"OK", "INPUT_ERROR"} /\ in_err' = (state' = "INPUT_ERROR")
  <2>1. CASE reset_ctx
    BY <2>1 DEF reset_ctx
  <2>2. CASE UNCHANGED ctxVars
    BY <1>1, <2>2 DEF ctxVars, FlagsType
  <2> QED BY <1>1, <2>1, <2>2 DEF Reinit
<1> DEFINE Taken ==
        /\ conn' \in 1..opened' /\ opened' \in 0..(NReqs * Tries) /\ opened' >= opened
        /\ idle' \subseteq 1..opened /\ conn' \notin idle'
<1>5. Taken
  <2>1. CASE ConnectNew
    BY <1>1, <2>1, Constants DEF ConnectNew, ConnsType
  <2>2. ASSUME NEW c \in Conns, ConnectCached(c) PROVE Taken
    BY <1>1, <2>2, Constants DEF ConnectCached, ConnsType
  <2> QED BY <2>1, <2>2 DEF Connect
<1>6. wire' \in [Conns -> Seq(Unit)]
  <2>1. CASE ConnectNew
    <3>1. Greeting \in Seq(Unit)
      BY Constants DEF Greeting, GreetingSize, Unit
    <3> QED BY <2>1, <3>1 DEF ConnectNew, Types
  <2>2. ASSUME NEW c \in Conns, ConnectCached(c) PROVE wire' = wire
    BY <2>2 DEF ConnectCached
  <2> QED BY <2>1, <2>2 DEF Connect, Types
<1>7. ServingType' /\ FlagsType'
  BY <1>1, <1>2, <1>3, <1>4 DEF ServingType, FlagsType
<1>8. ConnsType'
  BY <1>1, <1>2, <1>5, Constants DEF ConnsType
<1>9. TypeOK'
  BY <1>2, <1>3, <1>7, <1>8, TypePartsNext DEF Types
<1> QED BY <1>1, <1>2, <1>6, <1>9 DEF Types

(* So does the sending of the request.                                     *)
LEMMA SendTypes ==
  ASSUME Types, SendRequest
  PROVE  Types'
<1>1. /\ ServingType /\ CountersType /\ FlagsType /\ ConnsType
      /\ pc = "send" /\ tries # 0 /\ cur \in 1..NReqs /\ RepliesTo(cur) \in Seq(Unit)
  BY TypeParts, Served DEF SendRequest, Types, Busy
<1>2. /\ UNCHANGED <<reqs, cur, answer, state, in_err, batch_size, rest_batch_size>>
      /\ UNCHANGED <<greeting, tries, keepalive, length, buf, conn, reused, broken>>
      /\ UNCHANGED <<fin, idle, opened, garbled>>
      /\ request_sent' = TRUE /\ sent' = [sent EXCEPT ![cur] = @ + 1] /\ pc' = "header"
      /\ wire' \in {wire, [wire EXCEPT ![conn] = @ \o RepliesTo(cur)]}
  BY DEF SendRequest, ctxVars
<1>3. conn \in Conns
  BY <1>1, Constants DEF ConnsType
<1>4. wire' \in [Conns -> Seq(Unit)]
  <2>1. wire[conn] \o RepliesTo(cur) \in Seq(Unit)
    BY <1>1, <1>3 DEF Types
  <2>2. wire' = wire \/ wire' = [wire EXCEPT ![conn] = @ \o RepliesTo(cur)]
    BY <1>2
  <2> QED BY <1>3, <2>1, <2>2 DEF Types
<1>5. ServingType' /\ CountersType' /\ ConnsType'
  BY <1>1, <1>2 DEF ServingType, CountersType, ConnsType
<1>6. FlagsType'
  BY <1>1, <1>2 DEF FlagsType
<1>7. TypeOK'
  BY <1>2, <1>5, <1>6, TypePartsNext DEF Types
<1> QED BY <1>1, <1>2, <1>4, <1>7 DEF Types

(* So does the end of a request.                                           *)
LEMMA PeerFreeTypes ==
  ASSUME Types, PeerFree
  PROVE  Types'
<1>1. /\ ServingType /\ CountersType /\ FlagsType /\ ConnsType
      /\ pc \in {"ok", "error"} /\ cur \in 1..NReqs /\ answer[cur] \in Answer
  BY TypeParts, Served DEF PeerFree
<1>2. /\ UNCHANGED <<reqs, cur, sent, state, in_err, batch_size, rest_batch_size>>
      /\ UNCHANGED <<greeting, request_sent, keepalive, tries, length, buf, reused>>
      /\ UNCHANGED <<broken, wire, fin, opened, garbled>>
      /\ conn' = 0 /\ pc' = "idle"
      /\ idle' = idle \/ (idle' = idle \cup {conn} /\ conn # 0)
  BY DEF PeerFree, ctxVars
<1>3. answer' \in [1..NReqs -> Answer]
  <2> DEFINE end == IF pc = "ok" /\ broken THEN "eof" ELSE pc
  <2>1. end \in {"ok", "eof", "error"}
    BY <1>1
  <2>2. answer' = [answer EXCEPT ![cur].end = end]
    BY DEF PeerFree
  <2> HIDE DEF end
  <2>3. [answer[cur] EXCEPT !.end = end] \in Answer
    BY <1>1, <2>1 DEF Answer
  <2>4. answer \in [1..NReqs -> Answer]
    BY DEF Types
  <2> QED BY <1>1, <2>2, <2>3, <2>4
<1>4. ServingType' /\ CountersType'
  BY <1>1, <1>2 DEF ServingType, CountersType
<1>5. ConnsType'
  <2>1. opened \in Nat /\ conn \in 0..opened /\ idle \subseteq 1..opened
    BY <1>1, Constants DEF ConnsType
  <2>2. 0 \notin idle' /\ idle' \subseteq 1..opened /\ 0 \in 0..opened
    <3>1. idle' = idle \/ (idle' = idle \cup {conn} /\ conn # 0)
      BY <1>2
    <3>2. 0 \in 0..opened /\ 0 \notin 1..opened /\ (conn # 0 => conn \in 1..opened)
      BY <2>1
    <3> QED BY <2>1, <3>1, <3>2
  <2>3. conn' = 0 /\ opened' = opened /\ fin' = fin /\ pc' = "idle"
    BY <1>2
  <2> QED BY <1>1, <2>2, <2>3 DEF ConnsType
<1>6. FlagsType'
  BY <1>1, <1>2 DEF FlagsType
<1>7. TypeOK'
  BY <1>3, <1>4, <1>5, <1>6, TypePartsNext
<1> QED BY <1>2, <1>3, <1>7 DEF Types, Busy

(* The types are kept by every step.                                       *)
LEMMA NextTypes == Types /\ [Next]_vars => Types'
<1> SUFFICES ASSUME Types, [Next]_vars PROVE Types'
  OBVIOUS
<1>1. CASE UNCHANGED vars
  <2>1. /\ ServingType /\ CountersType /\ FlagsType /\ ConnsType
    BY TypeParts
  <2>2. /\ UNCHANGED <<reqs, cur, answer, sent, state, in_err, batch_size>>
        /\ UNCHANGED <<rest_batch_size, greeting, request_sent, keepalive, tries>>
        /\ UNCHANGED <<length, buf, reused, broken, wire, fin, idle, opened, garbled>>
        /\ UNCHANGED <<conn, pc>>
    BY <1>1 DEF vars, history, ctxVars, uVars, netVars
  <2>3. ServingType' /\ CountersType' /\ ConnsType'
    BY <2>1, <2>2 DEF ServingType, CountersType, ConnsType
  <2>4. FlagsType'
    BY <2>1, <2>2 DEF FlagsType
  <2>5. TypeOK'
    BY <2>2, <2>3, <2>4, TypePartsNext DEF Types
  <2> QED BY <2>2, <2>5 DEF Types, Busy
<1>2. CASE ConnectFails \/ HeaderEof \/ HeaderTimeout
  <2>1. pc \in {"connect", "header"} /\ Busy
    BY <1>2 DEF ConnectFails, HeaderEof, HeaderTimeout, Busy
  <2>2. \/ NextUpstream(tries - 1, 502) \/ NextUpstream(tries, 502)
        \/ NextUpstream(tries - 1, 504)
    BY <1>2 DEF ConnectFails, HeaderEof, HeaderTimeout
  <2> QED BY <2>1, <2>2, NextUpstreamTypes
<1> QED
  BY <1>1, <1>2, CreateRequestTypes, ConnectTypes, SendTypes, ReadTypes, FilterTypes,
     EventTypes, PeerFreeTypes DEF Next

(* Every variable keeps its type; in particular no counter of a batch      *)
(* passes its end, no connection is both in use and in the pool, and there *)
(* is one wherever the worker reads or writes.                             *)
THEOREM UpstreamTypes == Spec => []TypeOK
<1>1. Types => TypeOK
  BY DEF Types
<1> QED BY <1>1, InitTypes, NextTypes, PTL DEF Spec

-----------------------------------------------------------------------------
(* Nothing is answered before the response header, nothing sent too early. *)
Fresh ==
  /\ \A r \in 1..NReqs :
       r > cur => answer[r].status = 0 /\ answer[r].items = <<>> /\ sent[r] = 0
  /\ pc \in {"connect", "send", "header"} =>
       answer[cur].status = 0 /\ answer[cur].items = <<>>

(* A rejected request's error is in the context unless it was sent before. *)
ErrorKept ==
  /\ pc \in {"header", "filter", "body"} => request_sent
  /\ Busy /\ request_sent => sent[cur] >= 1
  /\ Busy /\ reqs[cur].rejected =>
       in_err \/ sent[cur] >= (IF request_sent THEN 2 ELSE 1)

Told == Types /\ Fresh /\ ErrorKept /\ RejectedIsReported

(* Where neither answers nor the context change there is nothing to prove. *)
LEMMA ToldStays ==
  ASSUME Told, UNCHANGED <<reqs, cur, answer, sent, in_err, request_sent>>,
         pc' \in {"connect", "send", "header"} => pc \in {"connect", "send", "header"},
         pc' \in {"header", "filter", "body"} => pc \in {"header", "filter", "body"},
         pc = "idle" => pc' = "idle", Busy' => Busy
  PROVE  Fresh' /\ ErrorKept' /\ RejectedIsReported'
BY DEF Told, Fresh, ErrorKept, RejectedIsReported

(* The request that is served has the number of its sendings.              *)
LEMMA ToldServed ==
  ASSUME Told, pc # "idle"
  PROVE  /\ cur \in 1..NReqs /\ IsRequest(reqs[cur]) /\ sent[cur] \in Nat
         /\ answer \in [1..NReqs -> Answer] /\ answer[cur] \in Answer
         /\ reqs[cur].rejected \in BOOLEAN
<1>1. Types
  BY DEF Told
<1>2. cur \in 1..NReqs /\ IsRequest(reqs[cur]) /\ answer[cur] \in Answer
  BY <1>1, Served
<1>3. answer \in [1..NReqs -> Answer] /\ sent \in [1..NReqs -> Nat]
  BY <1>1 DEF Types, TypeOK
<1> QED BY <1>2, <1>3 DEF IsRequest

(* The response header says what became of a rejected request.             *)
LEMMA ReadHeaderTold ==
  ASSUME Told, NEW k, ReadHeader(k)
  PROVE  Fresh' /\ ErrorKept' /\ RejectedIsReported'
<1>1. /\ pc = "header" /\ pc' \in {"filter", "ok", "body"}
      /\ answer' = [answer EXCEPT ![cur].status = HeaderStatus]
      /\ UNCHANGED <<reqs, cur, sent, in_err, request_sent, state>>
  BY DEF ReadHeader
<1>2. /\ cur \in 1..NReqs /\ sent[cur] \in Nat /\ answer \in [1..NReqs -> Answer]
      /\ FlagsType /\ Fresh /\ ErrorKept /\ RejectedIsReported
  BY <1>1, ToldServed, TypeParts DEF Told
<1>3. /\ \A r \in 1..NReqs : r # cur => answer'[r] = answer[r]
      /\ answer'[cur].status = HeaderStatus /\ answer'[cur].items = answer[cur].items
  BY <1>1, <1>2 DEF Answer
<1>4. in_err => HeaderStatus = 400
  <2>1. in_err => state # "OK"
    BY <1>2, Zenon DEF FlagsType
  <2> QED BY <2>1 DEF HeaderStatus
<1>5. Fresh' /\ ErrorKept'
  BY <1>1, <1>2, <1>3, Constants DEF Fresh, ErrorKept, Busy
<1>6. reqs[cur].rejected /\ sent[cur] <= 1 => in_err
  BY <1>1, <1>2 DEF ErrorKept, Busy
<1>7. answer[cur].items = <<>>
  BY <1>1, <1>2 DEF Fresh
<1>8. \A r \in 1..NReqs : reqs[r].rejected /\ sent[r] <= 1
        => answer'[r].status # 200 /\ answer'[r].items = <<>>
  BY <1>2, <1>3, <1>4, <1>6, <1>7 DEF RejectedIsReported
<1> QED BY <1>1, <1>5, <1>8 DEF RejectedIsReported

(* The reply to a dummy call is not shown.                                 *)
LEMMA FilterReplyTold ==
  ASSUME Told, FilterReply
  PROVE  Fresh' /\ ErrorKept' /\ RejectedIsReported'
<1> DEFINE item == [reply |-> Head(buf), open |-> Opens, tail |-> Closes]
<1>1. /\ pc = "filter" /\ pc' \in {"filter", "ok", "body", "error"}
      /\ UNCHANGED <<reqs, cur, sent, in_err, request_sent>>
      /\ answer' = answer
           \/ (~in_err /\ answer' = [answer EXCEPT ![cur].items = Append(@, item)])
  BY DEF FilterReply, FilterReturnsOk
<1> HIDE DEF item
<1>2. /\ cur \in 1..NReqs /\ sent[cur] \in Nat /\ answer \in [1..NReqs -> Answer]
      /\ Fresh /\ ErrorKept /\ RejectedIsReported
  BY <1>1, ToldServed DEF Told
<1>3. \A r \in 1..NReqs : r # cur => answer'[r] = answer[r]
  BY <1>1, <1>2
<1>4. in_err => answer' = answer
  BY <1>1
<1>5. reqs[cur].rejected /\ sent[cur] <= 1 => in_err
  BY <1>1, <1>2 DEF ErrorKept, Busy
<1>6. Fresh' /\ ErrorKept'
  BY <1>1, <1>2, <1>3, Constants DEF Fresh, ErrorKept, Busy
<1>7. \A r \in 1..NReqs : reqs[r].rejected /\ sent[r] <= 1
        => answer'[r].status # 200 /\ answer'[r].items = <<>>
  <2> TAKE r \in 1..NReqs
  <2> HAVE reqs[r].rejected /\ sent[r] <= 1
  <2>1. answer'[r] = answer[r]
    BY <1>3, <1>4, <1>5
  <2> QED BY <1>2, <2>1 DEF RejectedIsReported
<1> QED BY <1>1, <1>6, <1>7 DEF RejectedIsReported

(* A failure is reported as one.                                           *)
LEMMA NextUpstreamTold ==
  ASSUME Told, pc \in {"connect", "header"}, NEW left, NEW status \in {502, 504},
         NextUpstream(left, status)
  PROVE  Fresh' /\ ErrorKept' /\ RejectedIsReported'
<1>1. /\ UNCHANGED <<reqs, cur, sent, in_err, request_sent>>
      /\ \/ pc' = "error" /\ answer' = [answer EXCEPT ![cur].status = status]
         \/ pc' = "connect" /\ answer' = answer
  BY DEF NextUpstream, ctxVars
<1>2. /\ cur \in 1..NReqs /\ sent[cur] \in Nat /\ answer \in [1..NReqs -> Answer]
      /\ Fresh /\ ErrorKept /\ RejectedIsReported
  BY ToldServed DEF Told
<1>3. /\ \A r \in 1..NReqs : r # cur => answer'[r] = answer[r]
      /\ answer'[cur].items = answer[cur].items
      /\ answer'[cur].status \in {answer[cur].status, 502, 504}
      /\ pc' = "connect" => answer' = answer
  <2>1. CASE answer' = answer
    BY <1>1, <2>1
  <2>2. CASE pc' = "error" /\ answer' = [answer EXCEPT ![cur].status = status]
    <3>1. answer[cur] \in Answer /\ status \in {502, 504}
      BY <1>2
    <3>2. answer'[cur].items = answer[cur].items /\ answer'[cur].status = status
      BY <1>2, <2>2, <3>1 DEF Answer
    <3> QED BY <1>2, <2>2, <3>1, <3>2
  <2> QED BY <1>1, <2>1, <2>2
<1>4. Fresh'
  <2>1. cur' = cur /\ sent' = sent /\ pc' \in {"error", "connect"}
    BY <1>1
  <2>2. \A r \in 1..NReqs : r > cur => r # cur
    BY <1>2, Constants
  <2>3. \A r \in 1..NReqs : r > cur'
          => answer'[r].status = 0 /\ answer'[r].items = <<>> /\ sent'[r] = 0
    BY <1>2, <1>3, <2>1, <2>2 DEF Fresh
  <2>4. pc' = "connect" => answer'[cur'].status = 0 /\ answer'[cur'].items = <<>>
    BY <1>2, <1>3, <2>1 DEF Fresh
  <2> QED BY <2>1, <2>3, <2>4 DEF Fresh
<1>5. ErrorKept'
  BY <1>1, <1>2 DEF ErrorKept, Busy
<1>6. \A r \in 1..NReqs : reqs[r].rejected /\ sent[r] <= 1
        => answer'[r].status # 200 /\ answer'[r].items = <<>>
  BY <1>2, <1>3 DEF RejectedIsReported
<1> QED BY <1>1, <1>4, <1>5, <1>6 DEF RejectedIsReported

(* A request begins with its error in the context, and keeps it until it   *)
(* has been sent once.                                                     *)
LEMMA BeginsTold ==
  ASSUME Told, CreateRequest \/ Connect \/ SendRequest
  PROVE  Fresh' /\ ErrorKept' /\ RejectedIsReported'
<1>0. Types /\ Fresh /\ ErrorKept /\ RejectedIsReported /\ cur \in 0..NReqs
      /\ sent \in [1..NReqs -> Nat]
  BY DEF Told, Types, TypeOK
<1>1. CASE CreateRequest
  <2>1. /\ UNCHANGED <<reqs, answer, sent>> /\ cur < NReqs /\ cur' = cur + 1
        /\ in_err' = reqs[cur + 1].rejected /\ request_sent' = FALSE /\ pc' = "connect"
    BY <1>1 DEF CreateRequest
  <2>2. cur + 1 \in 1..NReqs /\ cur + 1 > cur
    BY <1>0, <2>1, Constants
  <2>3. Fresh'
    BY <1>0, <2>1, <2>2, Constants DEF Fresh
  <2>4. ErrorKept'
    BY <2>1 DEF ErrorKept
  <2> QED BY <1>0, <2>1, <2>3, <2>4 DEF RejectedIsReported
<1>2. CASE Connect
  <2>1. /\ UNCHANGED <<reqs, cur, answer, sent>> /\ pc = "connect" /\ pc' = "send"
        /\ Reinit
    BY <1>2 DEF Connect, ConnectNew, ConnectCached, history
  <2>2. request_sent' = FALSE /\ (~request_sent => in_err' = in_err)
    BY <2>1 DEF Reinit, ctxVars
  <2>3. Fresh'
    BY <1>0, <2>1 DEF Fresh
  <2>4. ErrorKept'
    BY <1>0, <2>1, <2>2 DEF ErrorKept, Busy
  <2> QED BY <1>0, <2>1, <2>3, <2>4 DEF RejectedIsReported
<1>3. CASE SendRequest
  <2>1. /\ UNCHANGED <<reqs, cur, answer, in_err>> /\ pc = "send" /\ pc' = "header"
        /\ request_sent' = TRUE /\ sent' = [sent EXCEPT ![cur] = @ + 1]
    BY <1>3 DEF SendRequest, ctxVars
  <2>2. cur \in 1..NReqs /\ sent[cur] \in Nat
    BY <2>1, ToldServed
  <2>3. /\ \A r \in 1..NReqs : r # cur => sent'[r] = sent[r]
        /\ sent'[cur] = sent[cur] + 1
    BY <1>0, <2>1, <2>2
  <2>4. Fresh'
    BY <1>0, <2>1, <2>2, <2>3, Constants DEF Fresh
  <2>5. ErrorKept'
    BY <1>0, <2>1, <2>2, <2>3 DEF ErrorKept, Busy
  <2>6. \A r \in 1..NReqs : sent'[r] <= 1 => sent[r] <= 1
    BY <1>0, <2>2, <2>3
  <2> QED BY <1>0, <2>1, <2>4, <2>5, <2>6 DEF RejectedIsReported
<1> QED BY <1>1, <1>2, <1>3

(* The end of a request changes how it ended only.                         *)
LEMMA PeerFreeTold ==
  ASSUME Told, PeerFree
  PROVE  Fresh' /\ ErrorKept' /\ RejectedIsReported'
<1>1. /\ UNCHANGED <<reqs, cur, sent>> /\ pc # "idle" /\ pc' = "idle"
      /\ \E end : answer' = [answer EXCEPT ![cur].end = end]
  BY DEF PeerFree
<1>2. /\ cur \in 1..NReqs /\ answer \in [1..NReqs -> Answer]
      /\ Fresh /\ RejectedIsReported
  BY <1>1, ToldServed DEF Told
<1>3. \A r \in 1..NReqs : answer'[r].status = answer[r].status
                            /\ answer'[r].items = answer[r].items
  BY <1>1, <1>2 DEF Answer
<1>4. Fresh'
  BY <1>1, <1>2, <1>3 DEF Fresh
<1>5. ErrorKept'
  BY <1>1 DEF ErrorKept, Busy
<1>6. RejectedIsReported'
  BY <1>1, <1>2, <1>3 DEF RejectedIsReported
<1> QED BY <1>4, <1>5, <1>6

(* Every step keeps what was told.                                         *)
LEMMA NextTold == Told /\ [Next]_vars => Told'
<1> SUFFICES ASSUME Told, [Next]_vars PROVE Told'
  OBVIOUS
<1>1. Types'
  BY NextTypes DEF Told
<1>2. CASE \/ UNCHANGED vars \/ BodyEof \/ BodyTimeout \/ ClientAbort
           \/ FilterNothing \/ FilterGarbage
  <2>1. /\ UNCHANGED <<reqs, cur, answer, sent, in_err, request_sent>>
        /\ pc' = pc \/ (pc # "idle" /\ pc' \in {"ok", "error"})
           \/ (pc = "filter" /\ pc' \in {"filter", "body", "ok", "error"})
    BY <1>2 DEF vars, BodyEof, BodyTimeout, EndBody, ClientAbort, FilterNothing,
                FilterGarbage, FilterReturnsOk, history, ctxVars, uVars
  <2>2. Fresh' /\ ErrorKept' /\ RejectedIsReported'
    BY <2>1, ToldStays DEF Busy
  <2> QED BY <1>1, <2>2 DEF Told
<1>3. ASSUME NEW c \in Conns, ServerCloses(c) \/ IdleDrop(c) PROVE Told'
  <2>1. UNCHANGED <<reqs, cur, answer, sent, in_err, request_sent, pc>>
    BY <1>3 DEF ServerCloses, IdleDrop, history, ctxVars, uVars
  <2>2. Fresh' /\ ErrorKept' /\ RejectedIsReported'
    BY <2>1, ToldStays DEF Busy
  <2> QED BY <1>1, <2>2 DEF Told
<1>4. ASSUME NEW k, ReadHeaderAgain(k) \/ Recv(k) PROVE Told'
  <2>1. /\ UNCHANGED <<reqs, cur, answer, sent, in_err, request_sent>>
        /\ pc' = pc \/ (pc = "body" /\ pc' = "filter")
    BY <1>4 DEF ReadHeaderAgain, Recv, history, ctxVars
  <2>2. Fresh' /\ ErrorKept' /\ RejectedIsReported'
    BY <2>1, ToldStays DEF Busy
  <2> QED BY <1>1, <2>2 DEF Told
<1>5. CASE Read
  <2>1. PICK k : ReadHeaderAgain(k) \/ ReadHeader(k) \/ Recv(k)
    BY <1>5 DEF Read
  <2> QED BY <1>1, <1>4, <2>1, ReadHeaderTold DEF Told
<1>6. CASE ConnectFails \/ HeaderEof \/ HeaderTimeout
  <2>1. pc \in {"connect", "header"}
    BY <1>6 DEF ConnectFails, HeaderEof, HeaderTimeout
  <2>2. \/ NextUpstream(tries - 1, 502) \/ NextUpstream(tries, 502)
        \/ NextUpstream(tries - 1, 504)
    BY <1>6 DEF ConnectFails, HeaderEof, HeaderTimeout
  <2> QED BY <1>1, <2>1, <2>2, NextUpstreamTold DEF Told
<1>7. CASE CreateRequest \/ Connect \/ SendRequest \/ PeerFree \/ FilterReply
  BY <1>1, <1>7, BeginsTold, PeerFreeTold, FilterReplyTold DEF Told
<1> QED BY <1>2, <1>3, <1>5, <1>6, <1>7 DEF Next, Filter

(* It holds at first.                                                      *)
LEMMA InitTold == Init => Told
<1> SUFFICES ASSUME Init PROVE Told
  OBVIOUS
<1>1. Types
  BY InitTypes
<1>2. Fresh /\ ErrorKept
  BY Constants DEF Init, Fresh, ErrorKept, Busy
<1>3. RejectedIsReported
  BY DEF Init, RejectedIsReported
<1> QED BY <1>1, <1>2, <1>3 DEF Told

(* A rejected request whose dummy call was sent at most once is never      *)
(* answered 200, and its client sees no reply, whatever fails around it.   *)
THEOREM RejectedIsAlwaysReported == Spec => []RejectedIsReported
<1>1. Told => RejectedIsReported
  BY DEF Told
<1> QED BY <1>1, InitTold, NextTold, PTL DEF Spec

-----------------------------------------------------------------------------
(* The stream of a connection: the greeting, the replies to the request.   *)
StreamAt(i) == IF i <= 3 THEN <<0, i>> ELSE RepliesTo(cur)[i - 3]
StreamLen == 3 + Len(RepliesTo(cur))

(* off units of it have been worked off; the buffer holds the next ones,   *)
(* the network those behind them.                                          *)
Stands(off) ==
  /\ \A i \in 1..Len(buf) : buf[i] = StreamAt(off + i)
  /\ \A i \in 1..Len(wire[conn]) : wire[conn][i] = StreamAt(off + Len(buf) + i)
  /\ off + Len(buf) + Len(wire[conn]) <= StreamLen

(* The stream is the same as long as the request is.                       *)
LEMMA StreamStays ==
  ASSUME UNCHANGED <<reqs, cur>>
  PROVE  /\ StreamLen' = StreamLen
         /\ \A i \in Nat : StreamAt(i)' = StreamAt(i)
BY DEF StreamLen, StreamAt, RepliesTo

(* The stream is finite.                                                   *)
LEMMA StreamLenNat ==
  ASSUME Types, pc # "idle"
  PROVE  StreamLen \in Nat /\ StreamLen = 3 + Len(RepliesTo(cur))
<1>1. RepliesTo(cur) \in Seq(Unit)
  BY Served
<1>2. Len(RepliesTo(cur)) \in Nat
  BY <1>1
<1> QED BY <1>2 DEF StreamLen

(* What is at a place of the stream after a step.                          *)
LEMMA StandsNext ==
  ASSUME UNCHANGED <<reqs, cur, conn>>, NEW off \in Nat,
         Len(buf') \in Nat, Len(wire'[conn]) \in Nat,
         \A i \in 1..Len(buf') : buf'[i] = StreamAt(off + i),
         \A i \in 1..Len(wire'[conn]) : wire'[conn][i] = StreamAt(off + Len(buf') + i),
         off + Len(buf') + Len(wire'[conn]) <= StreamLen
  PROVE  Stands(off)'
<1>1. conn' = conn /\ StreamLen' = StreamLen /\ \A i \in Nat : StreamAt(i)' = StreamAt(i)
  BY StreamStays
<1>2. ASSUME NEW i \in 1..Len(buf') PROVE buf'[i] = StreamAt(off + i)'
  <2>1. off + i \in Nat
    OBVIOUS
  <2> QED BY <1>1, <2>1
<1>3. ASSUME NEW i \in 1..Len(wire'[conn])
      PROVE  wire'[conn][i] = StreamAt(off + Len(buf) + i)'
  <2>1. off + Len(buf') + i \in Nat
    OBVIOUS
  <2>2. wire'[conn][i] = StreamAt(off + Len(buf') + i)
    OBVIOUS
  <2> QED BY <1>1, <2>1, <2>2
<1> QED BY <1>1, <1>2, <1>3, Zenon DEF Stands

(* What k units of the network are when s units of them are skipped.       *)
LEMMA ArrivesBehind ==
  ASSUME Types, pc # "idle", conn \in Conns, buf = <<>>, NEW off \in Nat, Stands(off),
         NEW k \in 1..Len(wire[conn]), NEW s \in {0, 3}, Delivered(k),
         buf' = SubSeq(SubSeq(wire[conn], 1, k), s + 1, k),
         UNCHANGED <<reqs, cur, conn>>
  PROVE  \E d \in 0..k : /\ d = (IF s <= k THEN s ELSE k)
                         /\ Stands(off + d)' /\ Len(buf') = k - d
<1> DEFINE w == wire[conn]
           d == IF s <= k THEN s ELSE k
<1>1. /\ w \in Seq(Unit) /\ wire \in [Conns -> Seq(Unit)] /\ k \in Nat /\ d \in 0..k
      /\ k <= Len(w) /\ Len(w) \in Nat
  BY DEF Types
<1>2. /\ \A i \in 1..Len(w) : w[i] = StreamAt(off + i)
      /\ off + Len(w) <= StreamLen
  BY <1>1 DEF Stands
<1>3. /\ Len(SubSeq(w, 1, k)) = k
      /\ \A i \in 1..k : SubSeq(w, 1, k)[i] = w[i]
      /\ SubSeq(w, 1, k) \in Seq(Unit)
  BY <1>1
<1>4. Len(buf') = k - d /\ \A i \in 1..(k - d) : buf'[i] = w[d + i]
  BY <1>1, <1>3
<1>5. /\ Len(wire'[conn]) = Len(w) - k
      /\ \A i \in 1..(Len(w) - k) : wire'[conn][i] = w[k + i]
  <2>1. wire'[conn] = SubSeq(w, k + 1, Len(w))
    BY <1>1 DEF Delivered
  <2> QED BY <1>1, <2>1
<1>d. d = (IF s <= k THEN s ELSE k)
  OBVIOUS
<1> HIDE DEF w, d
<1>n. /\ d \in Nat /\ k \in Nat /\ Len(w) \in Nat /\ d <= k /\ k <= Len(w)
      /\ Len(buf') = k - d /\ Len(wire'[conn]) = Len(w) - k
  BY <1>1, <1>4, <1>5
<1>6. \A i \in 1..Len(buf') : buf'[i] = StreamAt(off + d + i)
  <2> TAKE i \in 1..Len(buf')
  <2>1. d + i \in 1..Len(w) /\ off + (d + i) = off + d + i /\ i \in 1..(k - d)
    BY <1>n
  <2> QED BY <1>2, <1>4, <2>1
<1>7. \A i \in 1..Len(wire'[conn]) : wire'[conn][i] = StreamAt(off + d + Len(buf') + i)
  <2> TAKE i \in 1..Len(wire'[conn])
  <2>1. /\ k + i \in 1..Len(w) /\ off + (k + i) = off + d + Len(buf') + i
        /\ i \in 1..(Len(w) - k)
    BY <1>n
  <2> QED BY <1>2, <1>5, <2>1
<1>8. off + d + Len(buf') + Len(wire'[conn]) <= StreamLen
  <2>1. off + d + Len(buf') + Len(wire'[conn]) = off + Len(w)
    <3>1. \A a, b, c, e \in Nat : a + b + (c - b) + (e - c) = a + e
      OBVIOUS
    <3>2. off + d + (k - d) + (Len(w) - k) = off + Len(w)
      <4>1. off \in Nat /\ d \in Nat /\ k \in Nat /\ Len(w) \in Nat
        BY <1>n
      <4> QED BY <3>1, <4>1
    <3>3. Len(buf') = k - d /\ Len(wire'[conn]) = Len(w) - k
      BY <1>n
    <3> QED BY <3>2, <3>3, Zenon
  <2>2. off + Len(w) <= StreamLen
    BY <1>2
  <2> QED BY <2>1, <2>2, Zenon
<1>9. off + d \in Nat /\ Len(buf') \in Nat /\ Len(wire'[conn]) \in Nat
  BY <1>n
<1>11. Stands(off + d)'
  BY <1>6, <1>7, <1>8, <1>9, StandsNext
<1> QED BY <1>1, <1>4, <1>d, <1>11

(* A unit that is worked off.                                              *)
LEMMA TailBehind ==
  ASSUME Types, pc # "idle", conn \in Conns, buf # <<>>, NEW off \in Nat, Stands(off),
         buf' = Tail(buf), UNCHANGED <<reqs, cur, conn, wire>>
  PROVE  /\ Stands(off + 1)' /\ Head(buf) = StreamAt(off + 1)
         /\ off + 1 <= StreamLen /\ Len(buf') = Len(buf) - 1
<1>1. /\ buf \in Seq(Unit) /\ wire[conn] \in Seq(Unit) /\ Len(buf) \in Nat \ {0}
      /\ Len(wire[conn]) \in Nat
  BY DEF Types
<1>2. Len(buf') = Len(buf) - 1 /\ \A i \in 1..Len(buf') : buf'[i] = buf[i + 1]
  BY <1>1
<1>3. Head(buf) = StreamAt(off + 1) /\ off + Len(buf) + Len(wire[conn]) <= StreamLen
  <2>1. Head(buf) = buf[1] /\ 1 \in 1..Len(buf)
    BY <1>1
  <2>2. \A i \in 1..Len(buf) : buf[i] = StreamAt(off + i)
    BY DEF Stands
  <2>3. buf[1] = StreamAt(off + 1)
    BY <2>1, <2>2
  <2>4. off + Len(buf) + Len(wire[conn]) <= StreamLen
    BY DEF Stands
  <2> QED BY <2>1, <2>3, <2>4
<1>4. \A i \in 1..Len(buf') : buf'[i] = StreamAt(off + 1 + i)
  <2> TAKE i \in 1..Len(buf')
  <2>1. i + 1 \in 1..Len(buf) /\ off + (i + 1) = off + 1 + i
    BY <1>1, <1>2
  <2> QED BY <1>2, <2>1 DEF Stands
<1>5. \A i \in 1..Len(wire[conn]) : wire[conn][i] = StreamAt(off + 1 + Len(buf') + i)
  <2> TAKE i \in 1..Len(wire[conn])
  <2>1. off + Len(buf) + i = off + 1 + Len(buf') + i
    BY <1>1, <1>2
  <2> QED BY <2>1 DEF Stands
<1>6. off + 1 + Len(buf') + Len(wire[conn]) <= StreamLen /\ off + 1 <= StreamLen
  <2>1. StreamLen \in Nat
    BY StreamLenNat
  <2>2. \A b, c, w, n \in Nat : b >= 1 /\ c = b - 1 /\ off + b + w <= n
          => off + 1 + c + w <= n /\ off + 1 <= n
    OBVIOUS
  <2>3. Len(buf) \in Nat /\ Len(buf') \in Nat /\ Len(buf) >= 1
    BY <1>1, <1>2
  <2> QED BY <1>1, <1>2, <1>3, <2>1, <2>2, <2>3, Zenon
<1>7. off + 1 \in Nat /\ Len(buf') \in Nat /\ Len(wire[conn]) \in Nat
  BY <1>1, <1>2
<1>8. conn' = conn /\ wire' = wire
  OBVIOUS
<1>9. Stands(off + 1)'
  BY <1>4, <1>5, <1>6, <1>7, <1>8, StandsNext
<1> QED BY <1>2, <1>3, <1>6, <1>9

(* A part of what was sent is lost.                                        *)
LEMMA CutBehind ==
  ASSUME Types, pc # "idle", conn \in Conns, NEW off \in Nat, Stands(off),
         NEW k \in 0..Len(wire[conn]), wire'[conn] = SubSeq(wire[conn], 1, k),
         UNCHANGED <<reqs, cur, conn, buf>>
  PROVE  Stands(off)' /\ Len(wire'[conn]) = k
<1>1. /\ buf \in Seq(Unit) /\ wire[conn] \in Seq(Unit) /\ Len(buf) \in Nat
      /\ Len(wire[conn]) \in Nat
  BY DEF Types
<1>2. Len(wire'[conn]) = k /\ \A i \in 1..k : wire'[conn][i] = wire[conn][i]
  BY <1>1
<1>3. \A i \in 1..k : i \in 1..Len(wire[conn])
  BY <1>1
<1>4. off + Len(buf) + k <= StreamLen
  BY <1>1, StreamLenNat DEF Stands
<1>5. /\ \A i \in 1..Len(buf) : off + i \in Nat
      /\ \A i \in 1..k : off + Len(buf) + i \in Nat
  BY <1>1
<1>6. /\ conn' = conn /\ buf' = buf
      /\ StreamLen' = StreamLen /\ \A i \in Nat : StreamAt(i)' = StreamAt(i)
  BY StreamStays
<1>7. /\ \A i \in 1..Len(buf) : buf[i] = StreamAt(off + i)
      /\ \A i \in 1..k : wire'[conn][i] = StreamAt(off + Len(buf) + i)
  BY <1>2, <1>3 DEF Stands
<1> QED BY <1>2, <1>4, <1>5, <1>6, <1>7 DEF Stands

(* The items answered so far come from behind the greeting and from before *)
(* the place that was worked off.                                          *)
Past(off) ==
  /\ \A i \in 1..Len(answer[cur].items) : answer[cur].items[i].reply[2] <= off - 3
  /\ answer[cur].items # <<>> => off > 3

(* Where the worker is in the stream when it sends, waits and reads.       *)
Sending(off) ==
  /\ Stands(off) /\ off + Len(wire[conn]) <= 3
  /\ conn \notin fin => off + Len(wire[conn]) = 3

Place ==
  /\ pc \in {"send", "header", "body"} => buf = <<>>
  /\ pc = "send" => \E off \in {0, 3} : Sending(off)
  /\ pc = "header" => \E off \in {0, 3} : Stands(off)
  /\ pc \in {"filter", "body"} => \E off \in Nat : Stands(off) /\ Past(off)

InOrder == OwnReplies /\ AnsweredOnce

(* Connections in the pool have nothing left to deliver.                   *)
PoolIsClean == \A c \in idle : wire[c] = <<>>

Flow == Told /\ Place /\ InOrder

(* InOrder is about the items only.                                        *)
LEMMA InOrderStays ==
  ASSUME InOrder, \A r \in 1..NReqs : answer'[r].items = answer[r].items
  PROVE  InOrder'
BY DEF InOrder, OwnReplies, AnsweredOnce

(* What is behind the greeting: the calls' replies in order, or the reply  *)
(* to the dummy call.                                                      *)
LEMMA StreamReplies ==
  ASSUME Types, pc # "idle", NEW i \in Nat, i > 3, i <= StreamLen
  PROVE  /\ StreamAt(i)[1] = cur
         /\ IF reqs[cur].rejected THEN i = 4 /\ StreamAt(i)[2] = 0
            ELSE StreamAt(i)[2] = i - 3
<1>1. IsRequest(reqs[cur]) /\ reqs[cur].n \in Nat /\ reqs[cur].rejected \in BOOLEAN
  BY Served DEF IsRequest
<1>2. CASE reqs[cur].rejected
  <2>1. RepliesTo(cur) = << <<cur, 0>> >>
    BY <1>2 DEF RepliesTo
  <2>2. StreamLen = 4
    BY <2>1 DEF StreamLen
  <2>3. i = 4
    BY <2>2
  <2>4. StreamAt(i) = <<cur, 0>>
    BY <2>1, <2>3 DEF StreamAt
  <2> QED BY <1>2, <2>3, <2>4
<1>3. CASE ~reqs[cur].rejected
  <2>1. RepliesTo(cur) = [k \in 1..reqs[cur].n |-> <<cur, k>>]
    BY <1>3 DEF RepliesTo
  <2>2. StreamLen = 3 + reqs[cur].n
    BY <1>1, <2>1 DEF StreamLen
  <2>3. i - 3 \in 1..reqs[cur].n
    BY <1>1, <2>2
  <2>4. StreamAt(i) = <<cur, i - 3>>
    BY <2>1, <2>3 DEF StreamAt
  <2> QED BY <1>3, <2>4
<1> QED BY <1>1, <1>2, <1>3

(* A connection begins with its greeting, or with nothing.                 *)
LEMMA ConnectPlace ==
  ASSUME Types, PoolIsClean, Connect
  PROVE  Place'
<1>1. /\ pc = "connect" /\ pc' = "send" /\ buf' = <<>>
      /\ UNCHANGED <<reqs, cur, answer, fin>>
  BY DEF Connect, ConnectNew, ConnectCached, history, Reinit
<1>2. /\ conn \in 0..opened /\ opened \in Nat /\ fin \subseteq 1..opened /\ ConnsType
      /\ wire \in [Conns -> Seq(Unit)]
  BY TypeParts, Constants DEF ConnsType, Types
<1>3. /\ StreamLen' = StreamLen /\ \A i \in Nat : StreamAt(i)' = StreamAt(i)
      /\ StreamLen \in Nat /\ StreamLen >= 3
  <2>1. StreamLen' = StreamLen /\ \A i \in Nat : StreamAt(i)' = StreamAt(i)
    BY <1>1, StreamStays
  <2>2. RepliesTo(cur) \in Seq(Unit)
    BY <1>1, Served
  <2>3. Len(RepliesTo(cur)) \in Nat
    BY <2>2
  <2> QED BY <2>1, <2>3 DEF StreamLen
<1>4. CASE ConnectNew
  <2>1. /\ conn' = opened + 1 /\ conn' \in Conns /\ conn' \notin fin'
        /\ wire' = [wire EXCEPT ![conn'] = Greeting]
    <3>1. opened' = opened + 1 /\ conn' = opened' /\ opened + 1 \in Conns
          /\ wire' = [wire EXCEPT ![opened'] = Greeting]
      BY <1>4 DEF ConnectNew
    <3>2. opened + 1 \notin fin
      BY <1>2
    <3> QED BY <1>1, <3>1, <3>2
  <2>2. wire'[conn'] = Greeting
    BY <1>2, <2>1
  <2>3. Len(Greeting) = 3 /\ \A i \in 1..3 : Greeting[i] = StreamAt(i)
    BY DEF Greeting, GreetingSize, StreamAt
  <2>4. Sending(0)'
    <3>1. \A i \in 1..Len(wire'[conn']) : wire'[conn'][i] = StreamAt(i)' /\ i = 0 + 0 + i
      BY <1>3, <2>2, <2>3
    <3>2. Len(buf') = 0
      BY <1>1
    <3>3. Len(wire'[conn']) = 3
      BY <2>2, <2>3
    <3> QED BY <1>3, <3>1, <3>2, <3>3 DEF Sending, Stands
  <2> QED BY <1>1, <2>4 DEF Place
<1>5. ASSUME NEW c \in Conns, ConnectCached(c) PROVE Sending(3)'
  <2>1. conn' = c /\ wire' = wire /\ c \in idle
    BY <1>5 DEF ConnectCached
  <2>2. Len(wire'[conn']) = 0 /\ Len(buf') = 0
    BY <1>1, <2>1 DEF PoolIsClean
  <2> QED BY <1>3, <2>2 DEF Sending, Stands
<1>6. CASE \E c \in Conns : ConnectCached(c)
  BY <1>1, <1>5, <1>6 DEF Place
<1> QED BY <1>4, <1>6 DEF Connect

(* Tarantool's replies follow what the connection had left of its greeting.*)
LEMMA SendPlace ==
  ASSUME Types, Place, SendRequest
  PROVE  Place'
<1>1. /\ pc = "send" /\ pc' = "header" /\ buf = <<>> /\ buf' = <<>> /\ conn' = conn
      /\ UNCHANGED <<reqs, cur>>
  BY DEF SendRequest, Place
<1>2. PICK off \in {0, 3} : Sending(off)
  BY <1>1 DEF Place
<1>3. conn \in Conns /\ wire[conn] \in Seq(Unit) /\ RepliesTo(cur) \in Seq(Unit)
  BY <1>1, Served, TypeParts, Constants DEF ConnsType, Types
<1>4. /\ StreamLen' = StreamLen /\ \A i \in Nat : StreamAt(i)' = StreamAt(i)
      /\ StreamLen = 3 + Len(RepliesTo(cur))
  BY <1>1, StreamStays DEF StreamLen
<1>5. CASE conn \in fin
  <2>1. wire' = wire
    BY <1>5 DEF SendRequest
  <2>2. \A i \in 1..Len(wire[conn]) : off + Len(buf) + i \in Nat
    BY <1>1
  <2>3. Stands(off)'
    BY <1>1, <1>2, <1>4, <2>1, <2>2 DEF Sending, Stands
  <2> QED BY <1>1, <2>3 DEF Place
<1>6. CASE conn \notin fin
  <2> DEFINE w == wire[conn]
             a == RepliesTo(cur)
  <2>1. wire'[conn] = w \o a
    BY <1>3, <1>6 DEF SendRequest, Types
  <2>2. off + Len(w) = 3 /\ \A i \in 1..Len(w) : w[i] = StreamAt(off + i)
    BY <1>1, <1>2, <1>6 DEF Sending, Stands
  <2>3. w \in Seq(Unit) /\ a \in Seq(Unit) /\ Len(w) \in Nat /\ Len(a) \in Nat
    BY <1>3
  <2>4. \A i \in Nat : i > 3 => StreamAt(i) = a[i - 3]
    BY DEF StreamAt
  <2> HIDE DEF w, a
  <2>5. Len(w \o a) = Len(w) + Len(a)
    BY <2>3
  <2>6. \A i \in 1..Len(w \o a) : (w \o a)[i] = StreamAt(off + i)
    <3> TAKE i \in 1..Len(w \o a)
    <3>1. CASE i <= Len(w)
      BY <2>2, <2>3, <3>1
    <3>2. CASE i > Len(w)
      <4>1. (w \o a)[i] = a[i - Len(w)]
        BY <2>3, <3>2
      <4>2. off + i \in Nat /\ off + i > 3 /\ off + i - 3 = i - Len(w)
        BY <2>2, <2>3, <3>2
      <4> QED BY <2>4, <4>1, <4>2
    <3> QED BY <2>3, <2>5, <3>1, <3>2
  <2>7. off + Len(w \o a) = 3 + Len(a)
    BY <2>2, <2>3, <2>5
  <2>8. Stands(off)'
    <3>1. Len(buf') = 0 /\ \A i \in 1..Len(w \o a) : off + 0 + i \in Nat /\ off + 0 + i = off + i
      BY <1>1
    <3>2. off + 0 + Len(w \o a) = StreamLen
      BY <1>4, <2>7 DEF a
    <3>3. off + 0 + Len(w \o a) <= StreamLen'
      BY <1>4, <2>3, <3>2 DEF a
    <3> QED BY <1>1, <1>4, <2>1, <2>6, <3>1, <3>3 DEF Stands
  <2> QED BY <1>1, <2>8 DEF Place
<1> QED BY <1>5, <1>6

(* What is read goes on where the worker stands; a greeting is skipped, as *)
(* far as it has arrived.                                                  *)
LEMMA ReadPlace ==
  ASSUME Told, Place, conn # 0, Read
  PROVE  Place'
<1>0. PICK k : ReadHeaderAgain(k) \/ ReadHeader(k) \/ Recv(k)
  BY DEF Read
<1>1. /\ pc \in {"header", "body"} /\ k \in Readable(conn) /\ Delivered(k)
      /\ UNCHANGED <<reqs, cur, conn>> /\ Types /\ Fresh
  BY <1>0 DEF ReadHeaderAgain, ReadHeader, Recv, history, Told
<1>2. /\ conn \in Conns /\ k \in 1..Len(wire[conn]) /\ wire[conn] \in Seq(Unit)
      /\ buf = <<>>
  BY <1>1, Arrives DEF Place
<1>3. Received(k) = SubSeq(wire[conn], 1, k) /\ Len(Received(k)) = k
  <2>1. SubSeq(wire[conn], 1, k) \in Seq(Unit) /\ Len(SubSeq(wire[conn], 1, k)) = k
    BY <1>2
  <2> QED BY <1>2, <2>1 DEF Received
<1>4. ASSUME NEW off \in Nat, Stands(off), NEW s \in {0, 3},
             buf' = SubSeq(Received(k), s + 1, Len(Received(k)))
      PROVE  \E d \in 0..k : /\ d = (IF s <= k THEN s ELSE k)
                             /\ Stands(off + d)' /\ Len(buf') = k - d
  BY <1>1, <1>2, <1>3, <1>4, ArrivesBehind
<1>5. Received(k) \in Seq(Unit)
  BY <1>1, Arrives
<1>6. CASE ReadHeaderAgain(k)
  <2>1. /\ pc = "header" /\ pc' = "header" /\ buf' = <<>>
        /\ read_greeting(Received(k)) = k /\ read_greeting(Received(k)) > 0
    BY <1>3, <1>6 DEF ReadHeaderAgain, GreetingOnly
  <2>2. k = 3 /\ Received(k)[1] = <<0, 1>>
    BY <2>1 DEF read_greeting, GreetingSize
  <2>3. PICK off \in {0, 3} : Stands(off)
    BY <2>1 DEF Place
  <2>4. off = 0
    <3>1. wire[conn][1] = <<0, 1>> /\ 1 \in 1..Len(wire[conn])
      BY <1>2, <1>3, <2>2
    <3>2. Len(buf) = 0 /\ off + 0 + 1 = off + 1
      BY <1>2
    <3>3. StreamAt(off + 1) = <<0, 1>> /\ off + 1 <= StreamLen
      <4>1. off + Len(wire[conn]) <= StreamLen /\ Len(wire[conn]) >= 1
        BY <1>2, <2>3, <3>2 DEF Stands
      <4>2. StreamLen \in Nat /\ Len(wire[conn]) \in Nat
        BY <1>1, <1>2, StreamLenNat
      <4>3. wire[conn][1] = StreamAt(off + Len(buf) + 1)
        BY <2>3, <3>1 DEF Stands
      <4>4. off + Len(buf) + 1 = off + 1
        BY <3>2
      <4>5. \A w, n \in Nat : off + w <= n /\ w >= 1 => off + 1 <= n
        OBVIOUS
      <4>6. off + 1 <= StreamLen
        BY <4>1, <4>2, <4>5, Zenon
      <4> QED BY <3>1, <4>3, <4>4, <4>6
    <3>4. SUFFICES ASSUME off = 3 PROVE FALSE
      OBVIOUS
    <3>5. StreamAt(4)[1] = cur
      BY <1>1, <3>3, <3>4, StreamReplies
    <3>6. cur # 0
      BY <1>1 DEF Types
    <3> QED BY <3>3, <3>4, <3>5, <3>6
  <2>5. buf' = SubSeq(Received(k), 3 + 1, Len(Received(k)))
    BY <1>3, <1>5, <2>1, <2>2
  <2>6. Stands(0 + 3)'
    <3>1. PICK d \in 0..k : d = (IF 3 <= k THEN 3 ELSE k) /\ Stands(0 + d)'
      BY <1>4, <2>3, <2>4, <2>5
    <3>2. d = 3
      BY <2>2, <3>1
    <3> QED BY <3>1, <3>2
  <2> QED BY <2>1, <2>6 DEF Place
<1>7. CASE ReadHeader(k)
  <2>1. /\ pc = "header" /\ pc' \in {"filter", "ok", "body"}
        /\ pc' \in {"ok", "body"} => read_greeting(Received(k)) = k
        /\ buf' = SubSeq(Received(k), read_greeting(Received(k)) + 1, Len(Received(k)))
    BY <1>3, <1>7 DEF ReadHeader
  <2>2. PICK off \in {0, 3} : Stands(off)
    BY <2>1 DEF Place
  <2>3. read_greeting(Received(k)) \in {0, 3}
    BY <1>5, GreetingMoves
  <2>4. PICK d \in 0..k : /\ d = (IF read_greeting(Received(k)) <= k
                                   THEN read_greeting(Received(k)) ELSE k)
                          /\ Stands(off + d)' /\ Len(buf') = k - d
    BY <1>4, <2>1, <2>2, <2>3
  <2>5. pc' \in {"ok", "body"} => buf' = <<>>
    <3>1. ASSUME pc' \in {"ok", "body"} PROVE buf' = <<>>
      <4>1. read_greeting(Received(k)) = k
        BY <2>1, <3>1
      <4>2. d = k /\ k \in Nat
        BY <1>2, <2>4, <4>1
      <4>3. Len(buf') = 0
        BY <2>4, <4>2
      <4>4. buf' \in Seq(Unit)
        BY <1>5, <2>1, <2>3
      <4> QED BY <4>3, <4>4
    <3> QED BY <3>1
  <2>6. Past(off + d)'
    <3>1. answer'[cur].items = <<>>
      <4>1. answer' = [answer EXCEPT ![cur].status = HeaderStatus]
        BY <1>7 DEF ReadHeader
      <4>2. answer[cur].items = <<>> /\ answer[cur] \in Answer /\ cur \in 1..NReqs
            /\ answer \in [1..NReqs -> Answer]
        BY <1>1, <2>1, Served DEF Fresh, Types
      <4> QED BY <4>1, <4>2 DEF Answer
    <3>2. cur' = cur /\ Len(answer'[cur].items) = 0
      BY <1>1, <3>1
    <3> QED BY <3>1, <3>2 DEF Past
  <2>7. off + d \in Nat
    OBVIOUS
  <2> QED BY <2>1, <2>4, <2>5, <2>6, <2>7 DEF Place
<1>8. CASE Recv(k)
  <2>1. pc = "body" /\ pc' = "filter" /\ buf' = Received(k) /\ answer' = answer
    BY <1>8 DEF Recv, history
  <2>2. PICK off \in Nat : Stands(off) /\ Past(off)
    BY <2>1 DEF Place
  <2>3. buf' = SubSeq(Received(k), 0 + 1, Len(Received(k)))
    BY <1>5, <2>1
  <2>4. Stands(off + 0)'
    <3>1. PICK d \in 0..k : d = (IF 0 <= k THEN 0 ELSE k) /\ Stands(off + d)'
      BY <1>4, <2>2, <2>3
    <3>2. d = 0
      BY <1>2, <3>1
    <3> QED BY <3>1, <3>2
  <2>5. Past(off)'
    BY <1>1, <2>1, <2>2 DEF Past
  <2> QED BY <2>1, <2>4, <2>5 DEF Place
<1> QED BY <1>0, <1>6, <1>7, <1>8

(* An item names a call.                                                   *)
LEMMA ItemReplies ==
  ASSUME NEW s \in Seq(Item)
  PROVE  \A i \in 1..Len(s) : s[i].reply[2] \in Nat
<1> TAKE i \in 1..Len(s)
<1>1. s[i] \in Item
  OBVIOUS
<1>2. s[i].reply \in Unit
  BY <1>1 DEF Item
<1> QED BY <1>2 DEF Unit

(* The filter works off one unit of the stream at a time.                  *)
LEMMA FilterReplyPlace ==
  ASSUME Types, Place, InOrder, FilterReply
  PROVE  Place' /\ InOrder'
<1> DEFINE unit == Head(buf)
           item == [reply |-> unit, open |-> Opens, tail |-> Closes]
           items == answer[cur].items
<1>1. /\ pc = "filter" /\ pc' \in {"filter", "ok", "body", "error"} /\ buf # <<>>
      /\ buf' = Tail(buf) /\ unit[1] # 0 /\ UNCHANGED <<reqs, cur, conn, wire>>
      /\ pc' = "body" => buf' = <<>>
      /\ answer' = answer \/ answer' = [answer EXCEPT ![cur].items = Append(@, item)]
  BY DEF FilterReply, FilterReturnsOk, AfterReply, netVars
<1>2. PICK off \in Nat : Stands(off) /\ Past(off)
  BY <1>1 DEF Place
<1>3. /\ conn \in Conns /\ cur \in 1..NReqs /\ answer \in [1..NReqs -> Answer]
      /\ items \in Seq(Item) /\ Len(items) \in Nat /\ unit \in Unit
  <2>1. conn \in Conns /\ cur \in 1..NReqs /\ answer \in [1..NReqs -> Answer]
    BY <1>1, Served, TypeParts, Constants DEF ConnsType, Types
  <2>2. items \in Seq(Item)
    BY <2>1 DEF Answer
  <2>3. unit \in Unit
    BY <1>1 DEF Types
  <2> QED BY <2>1, <2>2, <2>3
<1>4. Stands(off + 1)' /\ unit = StreamAt(off + 1) /\ off + 1 <= StreamLen
  BY <1>1, <1>2, <1>3, TailBehind
<1>5. off + 1 > 3
  <2>1. SUFFICES ASSUME off + 1 <= 3 PROVE FALSE
    OBVIOUS
  <2>2. StreamAt(off + 1) = <<0, off + 1>>
    BY <2>1 DEF StreamAt
  <2> QED BY <1>1, <1>4, <2>2
<1>6. /\ unit[1] = cur
      /\ IF reqs[cur].rejected THEN off + 1 = 4 /\ unit[2] = 0
         ELSE unit[2] = off + 1 - 3
  BY <1>1, <1>4, <1>5, StreamReplies
<1>7. /\ \A i \in 1..Len(items) : items[i].reply[2] <= off - 3 /\ items[i].reply[2] \in Nat
      /\ items # <<>> => off > 3
  <2>1. \A i \in 1..Len(items) : items[i].reply[2] \in Nat
    BY <1>3, ItemReplies
  <2> QED BY <1>2, <2>1 DEF Past
<1>8. \A i \in 1..Len(items) : items[i].reply[2] < unit[2]
  <2> TAKE i \in 1..Len(items)
  <2>1. items # <<>>
    BY <1>3
  <2>2. ~reqs[cur].rejected
    BY <1>6, <1>7, <2>1
  <2> QED BY <1>6, <1>7, <2>2
<1>9. unit[2] <= off + 1 - 3 /\ unit[2] \in Nat
  <2>1. unit[2] \in Nat
    BY <1>3 DEF Unit
  <2> QED BY <1>5, <1>6, <2>1
<1>10. item.reply = unit
  OBVIOUS
<1> HIDE DEF unit, item
<1>11. CASE answer' = answer
  <2>1. InOrder'
    BY <1>11, InOrderStays
  <2>2. Past(off + 1)'
    <3>1. \A i \in 1..Len(items) : items[i].reply[2] <= off + 1 - 3
      BY <1>7
    <3> QED BY <1>1, <1>5, <1>11, <3>1 DEF Past
  <2>3. off + 1 \in Nat
    OBVIOUS
  <2> QED BY <1>1, <1>4, <2>1, <2>2, <2>3 DEF Place
<1>12. CASE answer' = [answer EXCEPT ![cur].items = Append(@, item)]
  <2>1. /\ \A r \in 1..NReqs : r # cur => answer'[r] = answer[r]
        /\ answer'[cur].items = Append(items, item)
    BY <1>3, <1>12 DEF Answer
  <2> DEFINE new == Append(items, item)
  <2>2. /\ Len(new) = Len(items) + 1 /\ new[Len(items) + 1] = item
        /\ \A i \in 1..Len(items) : new[i] = items[i]
    BY <1>3
  <2> HIDE DEF new
  <2>3. \A i \in 1..Len(new) : i \in 1..Len(items) \/ i = Len(items) + 1
    BY <1>3, <2>2
  <2>4. Past(off + 1)'
    <3>1. \A i \in 1..Len(new) : new[i].reply[2] <= off + 1 - 3
      <4> TAKE i \in 1..Len(new)
      <4>1. CASE i \in 1..Len(items)
        <5>1. new[i] = items[i]
          BY <2>2, <4>1
        <5>2. items[i].reply[2] <= off - 3 /\ items[i].reply[2] \in Nat
          BY <1>7, <4>1
        <5> QED BY <5>1, <5>2
      <4>2. CASE i = Len(items) + 1
        BY <1>9, <1>10, <2>2, <4>2
      <4> QED BY <2>3, <4>1, <4>2
    <3> QED BY <1>1, <1>5, <2>1, <3>1 DEF Past, new
  <2>5. \A i \in 1..Len(new) : new[i].reply[1] = cur
    <3> TAKE i \in 1..Len(new)
    <3>1. CASE i \in 1..Len(items)
      BY <1>3, <2>2, <3>1 DEF InOrder, OwnReplies
    <3>2. CASE i = Len(items) + 1
      BY <1>6, <1>10, <2>2, <3>2
    <3> QED BY <2>3, <3>1, <3>2
  <2>6. \A i, j \in 1..Len(new) : i < j => new[i].reply[2] < new[j].reply[2]
    <3> TAKE i, j \in 1..Len(new)
    <3> HAVE i < j
    <3>1. i \in 1..Len(items)
      BY <1>3, <2>2
    <3>2. CASE j \in 1..Len(items)
      BY <1>3, <2>2, <3>1, <3>2 DEF InOrder, AnsweredOnce
    <3>3. CASE j = Len(items) + 1
      BY <1>8, <1>10, <2>2, <3>1, <3>3
    <3> QED BY <2>3, <3>2, <3>3
  <2>7. InOrder'
    <3>1. ASSUME NEW r \in 1..NReqs
          PROVE  /\ \A i \in 1..Len(answer'[r].items) : answer'[r].items[i].reply[1] = r
                 /\ \A i, j \in 1..Len(answer'[r].items) :
                      i < j => answer'[r].items[i].reply[2] < answer'[r].items[j].reply[2]
      <4>1. CASE r = cur
        BY <2>1, <2>5, <2>6, <4>1 DEF new
      <4>2. CASE r # cur
        BY <2>1, <4>2 DEF InOrder, OwnReplies, AnsweredOnce
      <4> QED BY <4>1, <4>2
    <3> QED BY <3>1 DEF InOrder, OwnReplies, AnsweredOnce
  <2>8. off + 1 \in Nat
    OBVIOUS
  <2> QED BY <1>1, <1>4, <2>4, <2>7, <2>8 DEF Place
<1> QED BY <1>1, <1>11, <1>12

(* So it does when bytes are no reply, and when it is given none.          *)
LEMMA FilterOtherPlace ==
  ASSUME Types, Place, FilterNothing \/ FilterGarbage
  PROVE  Place'
<1>1. /\ pc = "filter" /\ pc' \in {"filter", "ok", "body", "error"}
      /\ UNCHANGED <<reqs, cur, conn, wire, answer>>
  BY DEF FilterNothing, FilterGarbage, FilterReturnsOk, history, netVars
<1>2. PICK off \in Nat : Stands(off) /\ Past(off)
  BY <1>1 DEF Place
<1>3. conn \in Conns
  BY <1>1, TypeParts, Constants DEF ConnsType
<1>4. CASE FilterNothing
  <2>1. buf = <<>> /\ buf' = <<>> /\ pc' \in {"ok", "body"}
    BY <1>4 DEF FilterNothing, FilterReturnsOk
  <2>2. Stands(off)' /\ Past(off)'
    <3>1. StreamLen' = StreamLen /\ \A i \in Nat : StreamAt(i)' = StreamAt(i)
      BY <1>1, StreamStays
    <3>2. \A i \in 1..Len(wire[conn]) : off + Len(buf) + i \in Nat
      BY <2>1
    <3>3. Stands(off)'
      BY <1>1, <1>2, <2>1, <3>1, <3>2 DEF Stands
    <3> QED BY <1>1, <1>2, <3>3 DEF Past
  <2> QED BY <2>1, <2>2 DEF Place
<1>5. CASE FilterGarbage
  <2>1. buf # <<>> /\ buf' = Tail(buf) /\ (pc' = "body" => buf' = <<>>)
    BY <1>5 DEF FilterGarbage, FilterReturnsOk
  <2>2. Stands(off + 1)'
    BY <1>1, <1>2, <1>3, <2>1, TailBehind
  <2>3. answer[cur].items \in Seq(Item) /\ \A i \in 1..Len(answer[cur].items) :
          answer[cur].items[i].reply[2] \in Nat
    <3>1. answer[cur].items \in Seq(Item)
      BY <1>1, Served DEF Answer
    <3> QED BY <3>1, ItemReplies
  <2>4. Past(off + 1)'
    <3>1. \A i \in 1..Len(answer[cur].items) :
            answer[cur].items[i].reply[2] <= off + 1 - 3
      BY <1>2, <2>3 DEF Past
    <3> QED BY <1>1, <1>2, <3>1 DEF Past
  <2>5. off + 1 \in Nat
    OBVIOUS
  <2> QED BY <1>1, <2>1, <2>2, <2>4, <2>5 DEF Place
<1> QED BY <1>4, <1>5

(* A place in the stream is kept by a step that does not read.             *)
LEMMA StillStands ==
  ASSUME Types, pc # "idle", conn # 0, NEW off \in Nat, Stands(off),
         UNCHANGED <<reqs, cur, conn, buf, wire>>
  PROVE  Stands(off)'
<1>1. /\ StreamLen' = StreamLen /\ \A i \in Nat : StreamAt(i)' = StreamAt(i)
  BY StreamStays
<1>2. conn \in Conns /\ wire[conn] \in Seq(Unit) /\ buf \in Seq(Unit)
  BY Constants DEF Types, TypeOK
<1>3. /\ \A i \in 1..Len(buf) : off + i \in Nat
      /\ \A i \in 1..Len(wire[conn]) : off + Len(buf) + i \in Nat
  BY <1>2
<1> QED BY <1>1, <1>3 DEF Stands

(* So it is by a server that closes a connection: this one or another.     *)
LEMMA CloseStands ==
  ASSUME Types, pc # "idle", conn # 0, NEW off \in Nat, Stands(off),
         NEW c \in Conns, ServerCloses(c)
  PROVE  /\ Stands(off)' /\ Len(wire'[conn]) <= Len(wire[conn])
         /\ c # conn => wire'[conn] = wire[conn]
<1>1. UNCHANGED <<reqs, cur, conn, buf, pc>>
  BY DEF ServerCloses, history, uVars
<1>2. PICK k \in 0..Len(wire[c]) : wire' = [wire EXCEPT ![c] = SubSeq(@, 1, k)]
  BY DEF ServerCloses
<1>3. conn \in Conns /\ wire \in [Conns -> Seq(Unit)] /\ buf \in Seq(Unit)
  BY Constants DEF Types, TypeOK
<1>4. wire[conn] \in Seq(Unit) /\ Len(wire[conn]) \in Nat
  BY <1>3
<1>5. CASE c # conn
  <2>1. wire'[conn] = wire[conn] /\ conn' = conn
    BY <1>1, <1>2, <1>3, <1>5
  <2>2. /\ StreamLen' = StreamLen /\ \A i \in Nat : StreamAt(i)' = StreamAt(i)
    BY <1>1, StreamStays
  <2>3. /\ \A i \in 1..Len(buf) : off + i \in Nat
        /\ \A i \in 1..Len(wire[conn]) : off + Len(buf) + i \in Nat
    BY <1>3, <1>4
  <2>4. Stands(off)'
    BY <1>1, <2>1, <2>2, <2>3 DEF Stands
  <2> QED BY <1>4, <2>1, <2>4
<1>6. CASE c = conn
  <2>1. wire'[conn] = SubSeq(wire[conn], 1, k) /\ k \in 0..Len(wire[conn])
    BY <1>2, <1>3, <1>6
  <2>2. Stands(off)' /\ Len(wire'[conn]) = k
    BY <1>1, <1>3, <2>1, CutBehind
  <2> QED BY <1>4, <1>6, <2>1, <2>2
<1> QED BY <1>5, <1>6

(* Where the worker stands is kept by steps that do not move it.           *)
LEMMA StillPlace ==
  ASSUME Types, Place, UNCHANGED <<reqs, cur, conn, buf, wire, answer, pc, fin>>
  PROVE  Place'
<1>1. pc \in {"send", "header", "filter", "body"} => conn # 0 /\ pc # "idle"
  BY DEF Types, TypeOK
<1>2. ASSUME NEW off \in Nat, Stands(off), pc \in {"send", "header", "filter", "body"}
      PROVE  Stands(off)'
  BY <1>1, <1>2, StillStands
<1>3. \A off \in Nat : Past(off) => Past(off)'
  BY DEF Past
<1>4. \A off \in {0, 3} : pc = "send" /\ Sending(off) => Sending(off)'
  BY <1>2 DEF Sending
<1> QED BY <1>2, <1>3, <1>4 DEF Place

(* And by a server that closes.                                            *)
LEMMA ClosePlace ==
  ASSUME Types, Place, NEW c \in Conns, ServerCloses(c)
  PROVE  Place'
<1>1. /\ UNCHANGED <<reqs, cur, conn, buf, answer, pc>> /\ fin' = fin \cup {c}
  BY DEF ServerCloses, history, uVars
<1>2. pc \in {"send", "header", "filter", "body"}
        => conn \in Conns /\ conn # 0 /\ pc # "idle" /\ Len(wire[conn]) \in Nat
  <2>1. pc \in {"send", "header", "filter", "body"} => conn \in Conns
    BY Constants DEF Types, TypeOK
  <2>2. \A x \in Conns : Len(wire[x]) \in Nat
    BY DEF Types
  <2> QED BY <2>1, <2>2, Constants
<1>3. ASSUME NEW off \in Nat, Stands(off), pc \in {"send", "header", "filter", "body"}
      PROVE  /\ Stands(off)' /\ Len(wire'[conn]) <= Len(wire[conn])
             /\ c # conn => wire'[conn] = wire[conn]
  BY <1>2, <1>3, CloseStands
<1>4. \A off \in Nat : Past(off) => Past(off)'
  BY <1>1 DEF Past
<1>5. ASSUME NEW off \in {0, 3}, pc = "send", Sending(off) PROVE Sending(off)'
  <2>1. /\ Stands(off)' /\ Len(wire'[conn]) <= Len(wire[conn])
        /\ c # conn => wire'[conn] = wire[conn]
    BY <1>3, <1>5 DEF Sending
  <2>2. off + Len(wire'[conn]) <= 3
    <3>1. Len(wire[conn]) \in Nat /\ off + Len(wire[conn]) <= 3
      BY <1>2, <1>5 DEF Sending
    <3>2. Len(wire'[conn]) \in Nat
      <4>1. Types'
        BY EventTypes
      <4>2. wire' \in [Conns -> Seq(Unit)] /\ conn \in Conns
        BY <1>2, <1>5, <4>1 DEF Types
      <4> QED BY <4>2
    <3> QED BY <2>1, <3>1, <3>2
  <2>3. conn' \notin fin' => off + Len(wire'[conn']) = 3
    BY <1>1, <1>5, <2>1 DEF Sending
  <2> QED BY <1>1, <2>1, <2>2, <2>3 DEF Sending
<1> QED BY <1>1, <1>3, <1>4, <1>5 DEF Place

(* Steps that leave the items alone.                                       *)
LEMMA ItemsStay ==
  ASSUME Types, [Next]_vars, ~FilterReply
  PROVE  \A r \in 1..NReqs : answer'[r].items = answer[r].items
<1>1. CASE UNCHANGED answer
  BY <1>1
<1>2. \A r \in 1..NReqs : \A v :
        /\ [answer EXCEPT ![cur].status = v][r].items = answer[r].items
        /\ [answer EXCEPT ![cur].end = v][r].items = answer[r].items
  <2> TAKE r \in 1..NReqs
  <2> TAKE v
  <2>1. answer \in [1..NReqs -> Answer] /\ answer[r] \in Answer
    BY DEF Types
  <2> QED BY <2>1 DEF Answer
<1>3. \A left, status : NextUpstream(left, status) =>
        UNCHANGED answer \/ answer' = [answer EXCEPT ![cur].status = status]
  BY DEF NextUpstream
<1>4. \A k : ReadHeader(k) => answer' = [answer EXCEPT ![cur].status = HeaderStatus]
  BY DEF ReadHeader
<1>5. PeerFree => \E v : answer' = [answer EXCEPT ![cur].end = v]
  BY DEF PeerFree
<1>6. ConnectFails \/ HeaderEof \/ HeaderTimeout
        => \E left, status : NextUpstream(left, status)
  BY DEF ConnectFails, HeaderEof, HeaderTimeout
<1>7. \/ UNCHANGED answer
      \/ \E v : answer' = [answer EXCEPT ![cur].status = v]
      \/ \E v : answer' = [answer EXCEPT ![cur].end = v]
  <2>1. CASE \/ UNCHANGED vars \/ CreateRequest \/ Connect \/ SendRequest
             \/ FilterNothing \/ FilterGarbage \/ BodyEof \/ BodyTimeout \/ ClientAbort
             \/ \E c \in Conns : ServerCloses(c) \/ IdleDrop(c)
    BY <2>1 DEF vars, history, CreateRequest, Connect, ConnectNew, ConnectCached,
                SendRequest, FilterNothing, FilterGarbage, BodyEof, BodyTimeout, EndBody,
                ClientAbort, ServerCloses, IdleDrop
  <2>2. CASE Read
    <3>1. PICK k : ReadHeaderAgain(k) \/ ReadHeader(k) \/ Recv(k)
      BY <2>2 DEF Read
    <3>2. ReadHeaderAgain(k) \/ Recv(k) => UNCHANGED answer
      BY DEF ReadHeaderAgain, Recv, history
    <3> QED BY <1>4, <3>1, <3>2
  <2> QED BY <1>3, <1>5, <1>6, <2>1, <2>2 DEF Next, Filter
<1>8. CASE \E v : answer' = [answer EXCEPT ![cur].status = v]
  BY <1>2, <1>8
<1>9. CASE \E v : answer' = [answer EXCEPT ![cur].end = v]
  BY <1>2, <1>9
<1> QED BY <1>1, <1>7, <1>8, <1>9

(* Every step goes on in the stream, if the pool's connections are clean.  *)
LEMMA NextFlow ==
  ASSUME Flow, PoolIsClean, [Next]_vars
  PROVE  Flow'
<1>0. Told' /\ Types /\ Place /\ InOrder
  BY NextTold DEF Flow, Told
<1>1. CASE FilterReply
  BY <1>0, <1>1, FilterReplyPlace DEF Flow
<1>2. ASSUME ~FilterReply PROVE InOrder'
  BY <1>0, <1>2, ItemsStay, InOrderStays
<1>3. ASSUME Connect \/ SendRequest \/ FilterNothing \/ FilterGarbage
      PROVE  Place'
  BY <1>0, <1>3, ConnectPlace, SendPlace, FilterOtherPlace
<1>4. ASSUME conn # 0 /\ Read
      PROVE  Place'
  BY <1>0, <1>4, ReadPlace DEF Flow
<1>5. ASSUME UNCHANGED vars \/ \E c \in Conns : IdleDrop(c)
      PROVE  Place'
  <2>1. UNCHANGED <<reqs, cur, conn, buf, wire, answer, pc, fin>>
    BY <1>5 DEF vars, history, uVars, netVars, IdleDrop
  <2> QED BY <1>0, <2>1, StillPlace
<1>6. ASSUME \E c \in Conns : ServerCloses(c)
      PROVE  Place'
  BY <1>0, <1>6, ClosePlace
<1>7. ASSUME \/ CreateRequest \/ ConnectFails \/ HeaderEof \/ HeaderTimeout
             \/ BodyEof \/ BodyTimeout \/ ClientAbort \/ PeerFree
      PROVE  Place'
  <2>1. pc' \in {"idle", "connect", "ok", "error"}
    BY <1>7 DEF CreateRequest, ConnectFails, HeaderEof, HeaderTimeout, NextUpstream,
                BodyEof, BodyTimeout, EndBody, ClientAbort, PeerFree
  <2> QED BY <2>1 DEF Place
<1>8. FilterReply \/ Place'
  BY <1>3, <1>4, <1>5, <1>6, <1>7 DEF Next, Filter
<1> QED BY <1>0, <1>1, <1>2, <1>8 DEF Flow

(* Nothing has been sent at first.                                         *)
LEMMA InitFlow == Init => Flow /\ idle = {}
<1> SUFFICES ASSUME Init PROVE Flow /\ idle = {}
  OBVIOUS
<1>1. Told
  BY InitTold
<1>2. Place /\ InOrder /\ idle = {}
  BY DEF Init, Place, InOrder, OwnReplies, AnsweredOnce
<1> QED BY <1>1, <1>2 DEF Flow

(* Without a keepalive pool there is nothing in it.                        *)
LEMMA NoPool ==
  ASSUME Keepalive = FALSE, idle = {}, [Next]_vars
  PROVE  idle' = {}
<1>1. CASE Read
  BY <1>1 DEF Read, ReadHeaderAgain, ReadHeader, Recv
<1>2. CASE ConnectFails \/ HeaderEof \/ HeaderTimeout
  BY <1>2 DEF ConnectFails, HeaderEof, HeaderTimeout, NextUpstream, netVars
<1>3. CASE UNCHANGED vars \/ CreateRequest \/ Connect \/ SendRequest \/ Filter
  BY <1>3 DEF vars, CreateRequest, Connect, ConnectNew, ConnectCached, SendRequest, Filter,
              FilterNothing, FilterReply, FilterGarbage, netVars
<1>4. CASE BodyEof \/ BodyTimeout \/ ClientAbort \/ PeerFree
           \/ \E c \in Conns : ServerCloses(c) \/ IdleDrop(c)
  BY <1>4 DEF BodyEof, BodyTimeout, EndBody, ClientAbort, PeerFree, ServerCloses, IdleDrop,
              netVars
<1> QED BY <1>1, <1>2, <1>3, <1>4 DEF Next

(* Without a keepalive pool clients are given replies to their own calls   *)
(* only, each once and in the order of the calls: whatever servers were    *)
(* tried, whatever they sent, closed or left out, and however their        *)
(* greetings came in.                                                      *)
THEOREM AnsweredOnceEver ==
  ASSUME Keepalive = FALSE
  PROVE  Spec => [](AnsweredOnce /\ OwnReplies)
<1>1. Flow /\ idle = {} /\ [Next]_vars => (Flow /\ idle = {})'
  <2>1. idle = {} => PoolIsClean
    BY DEF PoolIsClean
  <2> QED BY <2>1, NextFlow, NoPool
<1>2. Flow => AnsweredOnce /\ OwnReplies
  BY DEF Flow, InOrder
<1> QED BY <1>1, <1>2, InitFlow, PTL DEF Spec

-----------------------------------------------------------------------------
(* The regime the keepalive pool was made for: clients wait, greetings come*)
(* whole, nothing is sent twice and every reply can be transcoded.         *)
Orderly ==
  /\ Aborts = FALSE /\ SplitGreeting = FALSE /\ ResendAllowed = FALSE
  /\ \A q \in Requests : q.bad = {}

(* The context when l calls have been answered.                            *)
Counted(l) ==
  LET n == reqs[cur].n
  IN  /\ in_err = reqs[cur].rejected
      /\ batch_size = IF n > 1 THEN n ELSE 0
      /\ rest_batch_size = IF n > 1 THEN n - l ELSE 0

(* While the answer is being read, off units are worked off: the greeting  *)
(* and a reply for every item.  A rejected request has no items.           *)
Partly(off) ==
  LET items == answer[cur].items
  IN  /\ Counted(Len(items))
      /\ \A i \in 1..Len(items) : items[i] = WholeAnswer(cur)[i]
      /\ IF reqs[cur].rejected
           THEN off = 3 /\ items = <<>> /\ length = 0 /\ answer[cur].status = 400
           ELSE off = 3 + Len(items) /\ Len(items) < reqs[cur].n /\ length = -1

(* How far the request is.                                                 *)
Course ==
  /\ garbled = FALSE
  /\ pc \in {"connect", "send"} => ~request_sent
  /\ pc \in {"connect", "send", "header"} =>
       keepalive = FALSE /\ length = -1 /\ greeting = FALSE /\ Counted(0)
  /\ pc \in {"filter", "body"} => \E off \in Nat : Stands(off) /\ Partly(off)
  /\ pc = "filter" => buf # <<>>
  /\ pc = "body" => ~reqs[cur].rejected
  /\ pc = "ok" => conn # 0
  /\ pc = "ok" => \/ broken
                  \/ /\ keepalive => wire[conn] = <<>>
                     /\ answer[cur].status = 200 => answer[cur].items = WholeAnswer(cur)
  /\ pc = "error" => conn = 0 \/ broken

(* What has ended well is complete; what is served has not ended.          *)
Ended ==
  /\ CompleteAnswer
  /\ \A r \in 1..NReqs : r > cur \/ (r = cur /\ pc # "idle") => answer[r].end = "none"

Whole == Flow /\ PoolIsClean /\ Course /\ Ended

(* The answer a request should get depends on the requests only.           *)
LEMMA WholeAnswerStays ==
  ASSUME UNCHANGED reqs
  PROVE  \A r : WholeAnswer(r)' = WholeAnswer(r)
BY DEF WholeAnswer

(* The request that is served, in the orderly regime.                      *)
LEMMA OrderlyServed ==
  ASSUME Orderly, Types, pc # "idle"
  PROVE  /\ cur \in 1..NReqs /\ answer[cur] \in Answer
         /\ reqs[cur].n \in Nat \ {0} /\ reqs[cur].rejected \in BOOLEAN
         /\ reqs[cur].rejected => reqs[cur].n = 1
         /\ \A k : Transcodes(<<cur, k>>)
         /\ answer \in [1..NReqs -> Answer] /\ answer[cur].items \in Seq(Item)
<1>1. cur \in 1..NReqs /\ IsRequest(reqs[cur]) /\ answer[cur] \in Answer
  BY Served
<1>2. reqs[cur].bad = {}
  BY <1>1 DEF Orderly, Types, TypeOK
<1>3. \A k : Transcodes(<<cur, k>>)
  BY <1>2 DEF Transcodes
<1>4. answer \in [1..NReqs -> Answer] /\ answer[cur].items \in Seq(Item)
  BY <1>1 DEF Types, Answer
<1> QED BY <1>1, <1>3, <1>4 DEF IsRequest

(* A request is made and connected as create_request left it.              *)
LEMMA CreateCourse ==
  ASSUME Types, CreateRequest
  PROVE  Course'
<1>1. /\ UNCHANGED reqs /\ cur' = cur + 1 /\ in_err' = reqs[cur + 1].rejected
      /\ batch_size' = IF reqs[cur + 1].n > 1 THEN reqs[cur + 1].n ELSE 0
      /\ rest_batch_size' = batch_size' /\ request_sent' = FALSE /\ keepalive' = FALSE
      /\ length' = -1 /\ garbled' = FALSE /\ pc' = "connect" /\ cur < NReqs
      /\ greeting' = FALSE
  BY DEF CreateRequest
<1>2. cur + 1 \in 1..NReqs /\ IsRequest(reqs[cur + 1])
  <2>1. reqs \in [1..NReqs -> Requests] /\ cur \in 0..NReqs
    BY DEF Types, TypeOK
  <2>2. cur < NReqs
    BY <1>1
  <2> QED BY <2>1, <2>2, Constants, RequestsAssumption
<1>3. reqs[cur + 1].n \in Nat
  BY <1>2 DEF IsRequest
<1>4. Counted(0)'
  BY <1>1, <1>3 DEF Counted
<1> QED BY <1>1, <1>4 DEF Course

(* No reinit_request: the first server that was sent the request is the    *)
(* last one.                                                               *)
LEMMA ConnectCourse ==
  ASSUME Course, Connect
  PROVE  Course'
<1>1. /\ pc = "connect" /\ pc' = "send" /\ Reinit /\ UNCHANGED <<reqs, cur, length>>
  BY DEF Connect, ConnectNew, ConnectCached, history
<1>2. /\ ~request_sent /\ keepalive = FALSE /\ length = -1 /\ greeting = FALSE
      /\ Counted(0)
  BY <1>1 DEF Course
<1>3. /\ UNCHANGED <<in_err, batch_size, rest_batch_size, greeting>> /\ garbled' = FALSE
      /\ keepalive' = FALSE /\ request_sent' = FALSE
  BY <1>1, <1>2 DEF Reinit, ctxVars
<1>4. Counted(0)'
  BY <1>1, <1>2, <1>3 DEF Counted
<1> QED BY <1>1, <1>2, <1>3, <1>4 DEF Course

(* Sending leaves the context alone.                                       *)
LEMMA SendCourse ==
  ASSUME Course, SendRequest
  PROVE  Course'
<1>1. /\ pc = "send" /\ pc' = "header" /\ UNCHANGED <<reqs, cur, length, keepalive>>
      /\ UNCHANGED <<in_err, batch_size, rest_batch_size, greeting, garbled>>
  BY DEF SendRequest, ctxVars
<1>2. Counted(0)'
  BY <1>1 DEF Course, Counted
<1> QED BY <1>1, <1>2 DEF Course

(* Failures before the filter give the connection up.                      *)
LEMMA NextUpstreamCourse ==
  ASSUME Orderly, Told, Course, ConnectFails \/ HeaderEof \/ HeaderTimeout
  PROVE  Course'
<1>1. PICK left, status : NextUpstream(left, status)
  BY DEF ConnectFails, HeaderEof, HeaderTimeout
<1>2. /\ pc \in {"connect", "header"} /\ conn' = 0 /\ pc' \in {"connect", "error"}
      /\ pc' = "connect" => ~request_sent
      /\ UNCHANGED <<reqs, cur, in_err, batch_size, rest_batch_size, greeting>>
      /\ UNCHANGED <<request_sent, keepalive, length, garbled>>
  BY <1>1 DEF ConnectFails, HeaderEof, HeaderTimeout, NextUpstream, ctxVars, netVars, Orderly
<1>3. Counted(0)'
  BY <1>2 DEF Course, Counted
<1> QED BY <1>2, <1>3 DEF Course

(* The end of the body breaks the connection; clients do not go away.      *)
LEMMA EndsCourse ==
  ASSUME Orderly, Types, Course, BodyEof \/ BodyTimeout \/ ClientAbort \/ PeerFree
  PROVE  Course'
<1>1. garbled' = garbled
  BY DEF BodyEof, BodyTimeout, EndBody, ClientAbort, PeerFree, netVars
<1>2. \/ /\ pc = "body" /\ pc' \in {"ok", "error"} /\ broken' = TRUE
         /\ conn' = conn
      \/ pc' = "idle"
  BY DEF BodyEof, BodyTimeout, EndBody, ClientAbort, PeerFree, Orderly
<1>3. pc = "body" => conn # 0
  BY DEF Types, TypeOK
<1> QED BY <1>1, <1>2, <1>3 DEF Course

(* Reading a header: the greeting, if there is one, is whole; what is left *)
(* is the replies from the first one on.                                   *)
LEMMA ReadHeaderCourse ==
  ASSUME Orderly, Told, Place, Course, conn # 0, NEW k, ReadHeader(k)
  PROVE  Course'
<1> DEFINE b == Received(k)
           skip == read_greeting(b)
<1>1. /\ pc = "header" /\ k \in Readable(conn) /\ Delivered(k) /\ skip \in {0, 3}
      /\ UNCHANGED <<reqs, cur, conn, in_err, batch_size, rest_batch_size, state>>
      /\ UNCHANGED <<keepalive, broken, garbled>>
      /\ answer' = [answer EXCEPT ![cur].status = HeaderStatus]
      /\ length' = IF HeaderStatus # 200 THEN 0 ELSE -1
      /\ buf' = SubSeq(b, skip + 1, Len(b))
      /\ pc' = IF skip # Len(b) THEN "filter"
               ELSE IF HeaderStatus # 200 THEN "ok" ELSE "body"
      /\ ~(GreetingOnly(b) /\ state = "OK")
  BY DEF ReadHeader, read_greeting, GreetingSize
<1>2. /\ Types /\ FlagsType /\ buf = <<>> /\ keepalive = FALSE /\ Counted(0)
      /\ answer[cur].items = <<>>
  BY <1>1, TypeParts DEF Told, Place, Course, Fresh
<1>3. /\ conn \in Conns /\ k \in 1..Len(wire[conn]) /\ wire[conn] \in Seq(Unit)
      /\ cur \in 1..NReqs /\ answer[cur] \in Answer /\ answer \in [1..NReqs -> Answer]
      /\ reqs[cur].n \in Nat \ {0} /\ reqs[cur].rejected \in BOOLEAN
  BY <1>1, <1>2, Arrives, OrderlyServed
<1>4. b = SubSeq(wire[conn], 1, k) /\ Len(b) = k /\ b \in Seq(Unit) /\ b[1] = wire[conn][1]
  <2>1. /\ SubSeq(wire[conn], 1, k) \in Seq(Unit) /\ Len(SubSeq(wire[conn], 1, k)) = k
        /\ SubSeq(wire[conn], 1, k)[1] = wire[conn][1]
    BY <1>3
  <2> QED BY <1>2, <1>3, <2>1 DEF Received
<1>5. HeaderStatus = IF reqs[cur].rejected THEN 400 ELSE 200
  <2>1. state = "OK" <=> ~in_err
    BY <1>2, Zenon DEF FlagsType
  <2>2. in_err = reqs[cur].rejected
    BY <1>2 DEF Counted
  <2> QED BY <2>1, <2>2 DEF HeaderStatus
<1>6. /\ answer'[cur].items = <<>>
      /\ answer'[cur].status = IF reqs[cur].rejected THEN 400 ELSE 200
  BY <1>1, <1>2, <1>3, <1>5 DEF Answer
<1>7. Counted(0)'
  BY <1>1, <1>2 DEF Counted
<1>8. PICK off \in {0, 3} : Stands(off)
  BY <1>1 DEF Place
<1>s. ASSUME NEW s \in {0, 3}, buf' = SubSeq(SubSeq(wire[conn], 1, k), s + 1, k)
      PROVE  \E d \in 0..k : /\ d = (IF s <= k THEN s ELSE k)
                             /\ Stands(off + d)' /\ Len(buf') = k - d
  <2>1. pc # "idle" /\ Delivered(k) /\ UNCHANGED <<reqs, cur, conn>> /\ Types /\ off \in Nat
    BY <1>1, <1>2
  <2>2. conn \in Conns /\ buf = <<>> /\ k \in 1..Len(wire[conn])
    BY <1>2, <1>3
  <2> QED BY <1>8, <1>s, <2>1, <2>2, ArrivesBehind
<1>9. wire[conn][1] = StreamAt(off + 1)
  <2>1. wire[conn][1] = StreamAt(off + Len(buf) + 1)
    BY <1>3, <1>8 DEF Stands
  <2>2. off + Len(buf) + 1 = off + 1
    BY <1>2
  <2> QED BY <2>1, <2>2
<1>10. off + skip = 3 /\ skip <= k
  <2>1. CASE off = 0
    <3>1. wire[conn][1] = <<0, 1>>
      BY <1>9, <2>1 DEF StreamAt
    <3>2. k >= 3
      BY <1>1, <3>1 DEF Readable, Orderly, GreetingSize
    <3>3. greeting = FALSE
      BY <1>1 DEF Course
    <3> QED BY <1>4, <2>1, <3>1, <3>2, <3>3 DEF read_greeting, MagicSize, GreetingSize
  <2>2. CASE off = 3
    <3>1. StreamLen \in Nat /\ 4 <= StreamLen
      <4>1. StreamLen \in Nat /\ Len(wire[conn]) \in Nat
        BY <1>1, <1>2, <1>3, StreamLenNat
      <4>2. 3 + Len(wire[conn]) <= StreamLen
        BY <1>2, <1>8, <2>2 DEF Stands
      <4>3. Len(wire[conn]) >= 1
        BY <1>3
      <4> QED BY <4>1, <4>2, <4>3
    <3>2. StreamAt(4)[1] = cur
      BY <1>1, <1>2, <3>1, StreamReplies
    <3>3. b[1] # <<0, 1>>
      BY <1>3, <1>4, <1>9, <2>2, <3>2
    <3> QED BY <1>3, <2>2, <3>3 DEF read_greeting
  <2> QED BY <2>1, <2>2
<1>11. Stands(3)' /\ Len(buf') = k - skip
  <2> HIDE DEF skip, b
  <2>2. skip \in {0, 3} /\ buf' = SubSeq(SubSeq(wire[conn], 1, k), skip + 1, k)
    BY <1>1, <1>4
  <2>3. PICK d \in 0..k : /\ d = (IF skip <= k THEN skip ELSE k)
                          /\ Stands(off + d)' /\ Len(buf') = k - d
    BY <1>s, <2>2
  <2>4. d = skip
    BY <1>10, <2>3
  <2>5. off + d = 3
    BY <1>10, <2>4
  <2> QED BY <2>3, <2>4, <2>5
<1> HIDE DEF skip, b
<1>12. pc' = "filter" => buf' # <<>>
  <2>1. buf' = <<>> => k = skip
    <3>1. k \in Nat /\ skip \in {0, 3} /\ Len(buf') = k - skip
      BY <1>1, <1>3, <1>11
    <3> QED BY <3>1
  <2> QED BY <1>1, <1>4, <2>1
<1>13. pc' = "body" => FALSE
  <2>1. SUFFICES ASSUME pc' = "body" PROVE FALSE
    OBVIOUS
  <2>2. skip = Len(b) /\ HeaderStatus = 200
    BY <1>1, <2>1
  <2>3. state = "OK"
    BY <2>2 DEF HeaderStatus
  <2>4. GreetingOnly(b)
    BY <1>3, <1>4, <2>2 DEF skip, GreetingOnly
  <2> QED BY <1>1, <2>3, <2>4
<1>14. pc' = "filter" => Partly(3)'
  <2>1. /\ length' = IF reqs[cur].rejected THEN 0 ELSE -1
        /\ cur' = cur /\ reqs' = reqs /\ Len(answer'[cur].items) = 0
    BY <1>1, <1>5, <1>6
  <2>2. 0 < reqs[cur].n
    BY <1>3
  <2> QED BY <1>6, <1>7, <2>1, <2>2 DEF Partly
<1>15. pc' = "ok" => keepalive' = FALSE /\ answer'[cur'].status # 200
  BY <1>1, <1>2, <1>5, <1>6
<1>16. garbled' = FALSE
  BY <1>1 DEF Course
<1> QED BY <1>1, <1>11, <1>12, <1>13, <1>14, <1>15, <1>16 DEF Course

(* Reading more of the body, or after the greeting, changes no counter.    *)
LEMMA RecvCourse ==
  ASSUME Told, Place, Course, conn # 0, NEW k, ReadHeaderAgain(k) \/ Recv(k)
  PROVE  Course'
<1>1. CASE ReadHeaderAgain(k)
  <2>1. /\ pc = "header" /\ pc' = "header" /\ UNCHANGED <<reqs, cur, in_err, batch_size>>
        /\ UNCHANGED <<rest_batch_size, keepalive, length, greeting, garbled>>
    BY <1>1 DEF ReadHeaderAgain, history, ctxVars
  <2>2. Counted(0)'
    BY <2>1 DEF Course, Counted
  <2> QED BY <2>1, <2>2 DEF Course
<1>2. CASE Recv(k)
  <2>1. /\ pc = "body" /\ pc' = "filter" /\ UNCHANGED <<reqs, cur, in_err, batch_size>>
        /\ UNCHANGED <<rest_batch_size, keepalive, length, garbled, answer, conn>>
        /\ k \in Readable(conn) /\ Delivered(k) /\ buf' = Received(k)
    BY <1>2 DEF Recv, history, ctxVars
  <2>2. /\ conn \in Conns /\ k \in 1..Len(wire[conn]) /\ wire[conn] \in Seq(Unit)
        /\ Received(k) \in Seq(Unit) /\ Types /\ buf = <<>>
    BY <2>1, Arrives DEF Told, Place
  <2>3. PICK off \in Nat : Stands(off) /\ Partly(off)
    BY <2>1 DEF Course
  <2>4. /\ buf' = SubSeq(SubSeq(wire[conn], 1, k), 0 + 1, k)
    <3>1. SubSeq(wire[conn], 1, k) \in Seq(Unit) /\ Len(SubSeq(wire[conn], 1, k)) = k
      BY <2>2
    <3> QED BY <2>1, <2>2, <3>1 DEF Received
  <2>5. PICK d \in 0..k : /\ d = (IF 0 <= k THEN 0 ELSE k)
                          /\ Stands(off + d)' /\ Len(buf') = k - d
    BY <2>1, <2>2, <2>3, <2>4, ArrivesBehind
  <2>6. Stands(off)' /\ Len(buf') = k
    <3>1. d = 0
      BY <2>2, <2>5
    <3> QED BY <2>2, <2>5, <3>1
  <2>7. buf' # <<>>
    BY <2>2, <2>6
  <2>8. Partly(off)'
    BY <2>1, <2>3, WholeAnswerStays DEF Partly, Counted
  <2>9. garbled' = FALSE
    BY <2>1 DEF Course
  <2> QED BY <2>1, <2>6, <2>7, <2>8, <2>9 DEF Course
<1> QED BY <1>1, <1>2

(* The item that the filter makes of the next reply.                       *)
NextItem == [reply |-> Head(buf), open |-> Opens, tail |-> Closes]

(* The filter takes the next reply off the stream; if the request was not  *)
(* rejected it is the next one of its answer, framed as it should be.      *)
LEMMA FilterTakes ==
  ASSUME Orderly, Types, Course, Filter, NEW off \in Nat, Stands(off), Partly(off)
  PROVE  /\ UNCHANGED <<reqs, cur, conn, wire, in_err, garbled>> /\ buf' = Tail(buf)
         /\ CountReply /\ pc' \in {"filter", "ok", "body"}
         /\ buf' # <<>> => pc' = "filter"
         /\ buf' = <<>> => pc' = (IF length' = 0 THEN "ok" ELSE "body")
         /\ answer' = IF in_err THEN answer
                      ELSE [answer EXCEPT ![cur].items = Append(@, NextItem)]
         /\ ~reqs[cur].rejected =>
              NextItem = WholeAnswer(cur)[Len(answer[cur].items) + 1]
<1> DEFINE unit == Head(buf)
           items == answer[cur].items
           n == reqs[cur].n
           item == NextItem
<1>1. pc = "filter" /\ buf # <<>> /\ garbled = FALSE
  BY DEF Filter, FilterNothing, FilterReply, FilterGarbage, Course
<1>2. Stands(off) /\ Partly(off)
  OBVIOUS
<1>3. /\ conn \in Conns /\ cur \in 1..NReqs /\ answer \in [1..NReqs -> Answer]
      /\ n \in Nat \ {0} /\ reqs[cur].rejected \in BOOLEAN
      /\ reqs[cur].rejected => n = 1
      /\ \A k : Transcodes(<<cur, k>>)
      /\ items \in Seq(Item) /\ Len(items) \in Nat /\ unit \in Unit
      /\ buf \in Seq(Unit) /\ wire[conn] \in Seq(Unit)
  <2>1. conn \in Conns
    BY <1>1, TypeParts, Constants DEF ConnsType
  <2>2. buf \in Seq(Unit) /\ wire[conn] \in Seq(Unit)
    BY <2>1 DEF Types
  <2> QED BY <1>1, <2>1, <2>2, OrderlyServed
<1>4. off >= 3 /\ off + 1 > 3
  BY <1>3, <1>2 DEF Partly
<1>5. unit = StreamAt(off + 1) /\ off + 1 <= StreamLen
  <2>1. unit = buf[1] /\ Len(buf) \in Nat \ {0}
    BY <1>1, <1>3
  <2>2. buf[1] = StreamAt(off + 1)
    BY <1>2, <2>1 DEF Stands
  <2>3. off + Len(buf) + Len(wire[conn]) <= StreamLen /\ StreamLen \in Nat
    BY <1>1, <1>2, StreamLenNat DEF Stands
  <2>4. Len(wire[conn]) \in Nat
    BY <1>3
  <2>5. \A b, w, l \in Nat : b # 0 /\ off + b + w <= l => off + 1 <= l
    OBVIOUS
  <2> QED BY <2>1, <2>2, <2>3, <2>4, <2>5
<1>6. /\ unit[1] = cur /\ unit[1] # 0
      /\ IF reqs[cur].rejected THEN off + 1 = 4 /\ unit[2] = 0
         ELSE unit[2] = off + 1 - 3
  BY <1>1, <1>3, <1>4, <1>5, StreamReplies
<1>7. unit = <<cur, unit[2]>> /\ Transcodes(unit)
  <2>1. unit = <<cur, unit[2]>>
    BY <1>3, <1>6 DEF Unit
  <2> QED BY <1>3, <2>1
<1>8. FilterReply
  BY <1>1, <1>6 DEF Filter, FilterNothing, FilterGarbage
<1>9. /\ UNCHANGED <<reqs, cur, conn, wire, in_err, garbled>> /\ buf' = Tail(buf)
      /\ CountReply /\ pc' \in {"filter", "ok", "body"}
      /\ buf' # <<>> => pc' = "filter"
      /\ buf' = <<>> => pc' = (IF length' = 0 THEN "ok" ELSE "body")
      /\ answer' = IF in_err THEN answer
                   ELSE [answer EXCEPT ![cur].items = Append(@, item)]
  BY <1>7, <1>8 DEF FilterReply, FilterReturnsOk, AfterReply, netVars, NextItem
<1>10. ASSUME ~reqs[cur].rejected PROVE item = WholeAnswer(cur)[Len(items) + 1]
  <2>1. /\ off = 3 + Len(items) /\ Len(items) < n /\ length = -1
        /\ batch_size = (IF n > 1 THEN n ELSE 0)
        /\ rest_batch_size = (IF n > 1 THEN n - Len(items) ELSE 0)
        /\ \A i \in 1..Len(items) : items[i] = WholeAnswer(cur)[i]
    BY <1>2, <1>10 DEF Partly, Counted
  <2>2. unit = <<cur, Len(items) + 1>>
    BY <1>3, <1>6, <1>7, <1>10, <2>1
  <2>3. Opens = (n > 1 /\ Len(items) + 1 = 1)
    BY <1>3, <2>1 DEF Opens
  <2>4. Closes = IF n = 1 THEN "none" ELSE IF Len(items) + 1 = n THEN "close" ELSE "comma"
    <3>1. n \in Nat \ {0} /\ Len(items) \in Nat
      BY <1>3
    <3>2. \A l \in Nat : l < n /\ n > 1 =>
            /\ (n - l = 1) <=> (l + 1 = n)
            /\ n - l <= n /\ n # 0 /\ n # 1
      BY <3>1
    <3>3. CASE n > 1
      <4> HIDE DEF items, n
      <4>1. batch_size = n /\ rest_batch_size = n - Len(items) /\ Len(items) < n
        BY <2>1, <3>3
      <4> QED BY <3>1, <3>2, <3>3, <4>1 DEF Closes
    <3>4. CASE ~(n > 1)
      BY <2>1, <3>1, <3>4 DEF Closes
    <3> QED BY <3>3, <3>4
  <2>5. Len(items) + 1 \in 1..n
    BY <1>3, <2>1
  <2> QED BY <2>2, <2>3, <2>4, <2>5 DEF WholeAnswer, NextItem
<1> QED BY <1>9, <1>10

(* The filter takes the replies one after the other; the last one ends the *)
(* answer, and nothing is left behind it.                                  *)
LEMMA FilterCourse ==
  ASSUME Orderly, Types, Course, Filter
  PROVE  Course'
<1> DEFINE unit == Head(buf)
           items == answer[cur].items
           n == reqs[cur].n
           item == NextItem
<1>1. pc = "filter" /\ buf # <<>> /\ garbled = FALSE
  BY DEF Filter, FilterNothing, FilterReply, FilterGarbage, Course
<1>2. PICK off \in Nat : Stands(off) /\ Partly(off)
  BY <1>1 DEF Course
<1>3. /\ conn \in Conns /\ cur \in 1..NReqs /\ answer \in [1..NReqs -> Answer]
      /\ n \in Nat \ {0} /\ reqs[cur].rejected \in BOOLEAN
      /\ reqs[cur].rejected => n = 1
      /\ \A k : Transcodes(<<cur, k>>)
      /\ items \in Seq(Item) /\ Len(items) \in Nat /\ unit \in Unit
      /\ buf \in Seq(Unit) /\ wire[conn] \in Seq(Unit)
  <2>1. conn \in Conns
    BY <1>1, TypeParts, Constants DEF ConnsType
  <2>2. buf \in Seq(Unit) /\ wire[conn] \in Seq(Unit)
    BY <2>1 DEF Types
  <2> QED BY <1>1, <2>1, <2>2, OrderlyServed
<1>4. off >= 3 /\ off + 1 > 3
  BY <1>3, <1>2 DEF Partly
<1>5. unit = StreamAt(off + 1) /\ off + 1 <= StreamLen
  <2>1. unit = buf[1] /\ Len(buf) \in Nat \ {0}
    BY <1>1, <1>3
  <2>2. buf[1] = StreamAt(off + 1)
    BY <1>2, <2>1 DEF Stands
  <2>3. off + Len(buf) + Len(wire[conn]) <= StreamLen /\ StreamLen \in Nat
    BY <1>1, <1>2, StreamLenNat DEF Stands
  <2>4. Len(wire[conn]) \in Nat
    BY <1>3
  <2>5. \A b, w, l \in Nat : b # 0 /\ off + b + w <= l => off + 1 <= l
    OBVIOUS
  <2> QED BY <2>1, <2>2, <2>3, <2>4, <2>5
<1>9. /\ UNCHANGED <<reqs, cur, conn, wire, in_err, garbled>> /\ buf' = Tail(buf)
      /\ CountReply /\ pc' \in {"filter", "ok", "body"}
      /\ buf' # <<>> => pc' = "filter"
      /\ buf' = <<>> => pc' = (IF length' = 0 THEN "ok" ELSE "body")
      /\ answer' = IF in_err THEN answer
                   ELSE [answer EXCEPT ![cur].items = Append(@, item)]
  BY <1>2, FilterTakes
<1>10. Stands(off + 1)' /\ Len(buf') = Len(buf) - 1
  BY <1>1, <1>2, <1>3, <1>9, TailBehind
<1>11. (off + 1 = StreamLen) => buf' = <<>> /\ wire'[conn] = <<>>
  <2>1. Stands(off + 1)' => off + 1 + Len(buf') + Len(wire'[conn]) <= StreamLen
    <3>1. StreamLen' = StreamLen /\ conn' = conn
      BY <1>9, StreamStays
    <3> QED BY <3>1 DEF Stands
  <2>2. buf' \in Seq(Unit) /\ wire' = wire
    BY <1>1, <1>3, <1>9
  <2>3. Len(buf') \in Nat /\ Len(wire[conn]) \in Nat /\ StreamLen \in Nat
    BY <1>1, <1>3, <2>2, StreamLenNat
  <2>4. \A b, w, l \in Nat : off + 1 + b + w <= l /\ off + 1 = l => b = 0 /\ w = 0
    OBVIOUS
  <2>5. off + 1 = StreamLen => Len(buf') = 0 /\ Len(wire[conn]) = 0
    BY <1>10, <2>1, <2>2, <2>3, <2>4
  <2> QED BY <1>3, <2>2, <2>5
<1>12. in_err = reqs[cur].rejected
  BY <1>2 DEF Partly, Counted
<1>13. garbled' = FALSE /\ conn' # 0
  <2>1. conn # 0
    BY <1>3, Constants
  <2> QED BY <1>1, <1>9, <2>1
<1> HIDE DEF unit, item
<1>14. CASE reqs[cur].rejected
  <2>1. n = 1 /\ rest_batch_size = 0 /\ off = 3 /\ answer[cur].status = 400
    BY <1>2, <1>3, <1>14 DEF Partly, Counted
  <2>2. StreamLen = 4
    BY <1>14 DEF StreamLen, RepliesTo
  <2>3. length' = 0 /\ answer' = answer
    BY <1>9, <1>12, <1>14, <2>1 DEF CountReply, BatchDone
  <2>4. pc' = "ok" /\ wire'[conn] = <<>>
    BY <1>9, <1>11, <2>1, <2>2, <2>3
  <2>5. conn' = conn /\ answer'[cur'].status # 200
    BY <1>9, <2>1, <2>3
  <2> QED BY <1>13, <2>4, <2>5 DEF Course
<1>15. CASE ~reqs[cur].rejected
  <2>1. /\ off = 3 + Len(items) /\ Len(items) < n /\ length = -1
        /\ batch_size = (IF n > 1 THEN n ELSE 0)
        /\ rest_batch_size = (IF n > 1 THEN n - Len(items) ELSE 0)
        /\ \A i \in 1..Len(items) : items[i] = WholeAnswer(cur)[i]
    BY <1>2, <1>15 DEF Partly, Counted
  <2>2. StreamLen = 3 + n
    BY <1>3, <1>15 DEF StreamLen, RepliesTo
  <2> DEFINE new == Append(items, item)
  <2>3. answer'[cur].items = new
    <3>1. answer' = [answer EXCEPT ![cur].items = Append(@, item)]
      BY <1>9, <1>12, <1>15
    <3>2. answer[cur] \in Answer
      BY <1>3
    <3> QED BY <1>3, <3>1, <3>2 DEF Answer
  <2>10. item \in Item
    <3>1. Opens \in BOOLEAN /\ Closes \in {"none", "comma", "close"}
      BY DEF Opens, Closes
    <3>2. Head(buf) \in Unit
      BY <1>3 DEF unit
    <3> QED BY <3>1, <3>2 DEF item, NextItem, Item
  <2>4. /\ Len(new) = Len(items) + 1 /\ new[Len(items) + 1] = item
        /\ \A i \in 1..Len(items) : new[i] = items[i]
    <3>1. \A i \in Item, q \in Seq(Item) :
            /\ Len(Append(q, i)) = Len(q) + 1 /\ Append(q, i)[Len(q) + 1] = i
            /\ \A k \in 1..Len(q) : Append(q, i)[k] = q[k]
      OBVIOUS
    <3> HIDE DEF items
    <3> QED BY <1>3, <2>10, <3>1
  <2>5. item = WholeAnswer(cur)[Len(items) + 1]
    BY <1>2, <1>15, FilterTakes DEF item
  <2> HIDE DEF new
  <2>6. \A i \in 1..Len(new) : new[i] = WholeAnswer(cur)[i]
    <3> TAKE i \in 1..Len(new)
    <3>1. i \in 1..Len(items) \/ i = Len(items) + 1
      BY <1>3, <2>4
    <3> QED BY <2>1, <2>4, <2>5, <3>1
  <2>7. /\ cur' = cur /\ reqs' = reqs /\ in_err' = FALSE
        /\ WholeAnswer(cur)' = WholeAnswer(cur)
    BY <1>9, <1>12, <1>15, WholeAnswerStays
  <2>8. CASE Len(items) + 1 = n
    <3>1. length' = 0
      BY <1>3, <1>9, <2>1, <2>8 DEF CountReply, BatchDone
    <3>2. pc' = "ok" /\ wire'[conn] = <<>>
      <4>1. off + 1 = StreamLen
        BY <1>3, <2>1, <2>2, <2>8
      <4>2. buf' = <<>> /\ wire'[conn] = <<>>
        BY <1>11, <4>1, Zenon
      <4> QED BY <1>9, <3>1, <4>2
    <3>3. new = WholeAnswer(cur)
      <4>1. Len(new) = n
        BY <2>4, <2>8
      <4>2. new \in Seq(Item)
        <5> QED BY <1>3, <2>10 DEF new
      <4>3. WholeAnswer(cur) = [i \in 1..n |-> WholeAnswer(cur)[i]]
        BY DEF WholeAnswer
      <4>4. new = [i \in 1..n |-> new[i]]
        BY <4>1, <4>2
      <4>5. \A i \in 1..n : new[i] = WholeAnswer(cur)[i]
        BY <2>6, <4>1
      <4> QED BY <4>3, <4>4, <4>5
    <3>4. conn' = conn /\ (answer[cur].items = WholeAnswer(cur))'
      BY <1>9, <2>3, <2>7, <3>3
    <3> QED BY <1>13, <2>7, <3>2, <3>4 DEF Course
  <2>9. CASE Len(items) + 1 # n
    <3>1. Len(items) + 1 < n /\ n > 1
      BY <1>3, <2>1, <2>9
    <3>2. length' = -1 /\ batch_size' = n /\ rest_batch_size' = n - (Len(items) + 1)
      <4>1. rest_batch_size = n - Len(items) /\ batch_size = n /\ length = -1
        BY <2>1, <3>1
      <4>2. rest_batch_size - 1 = n - (Len(items) + 1) /\ ~(rest_batch_size - 1 <= 0)
        <5>1. \A k, l \in Nat : l + 1 < k =>
                (k - l) - 1 = k - (l + 1) /\ ~((k - l) - 1 <= 0)
          OBVIOUS
        <5>2. n \in Nat /\ Len(items) \in Nat
          BY <1>3
        <5> HIDE DEF n, items
        <5> QED BY <3>1, <4>1, <5>1, <5>2, Zenon
      <4> QED BY <1>9, <4>1, <4>2 DEF CountReply, BatchDone
    <3>3. Partly(off + 1)'
      <4>1. /\ reqs'[cur'].n = n /\ n > 1 /\ Len(answer'[cur'].items) = Len(items) + 1
            /\ in_err' = reqs'[cur'].rejected /\ ~reqs'[cur'].rejected
        BY <1>15, <1>9, <1>12, <2>3, <2>4, <2>7, <3>1
      <4>2. /\ batch_size' = (IF reqs'[cur'].n > 1 THEN reqs'[cur'].n ELSE 0)
            /\ rest_batch_size' = (IF reqs'[cur'].n > 1
                                     THEN reqs'[cur'].n - Len(answer'[cur'].items) ELSE 0)
        BY <3>2, <4>1
      <4>3. \A i \in 1..Len(answer'[cur'].items) :
              answer'[cur'].items[i] = WholeAnswer(cur)'[i]
        BY <2>3, <2>6, <2>7
      <4>4. off + 1 = 3 + (Len(items) + 1) /\ Len(items) + 1 < n
        BY <1>3, <2>1, <3>1
      <4> QED BY <3>2, <4>1, <4>2, <4>3, <4>4 DEF Partly, Counted
    <3>4. pc' \in {"filter", "body"} /\ (pc' = "filter" => buf' # <<>>)
      BY <1>9, <3>2
    <3>5. off + 1 \in Nat
      OBVIOUS
    <3> QED BY <1>10, <1>13, <1>15, <2>7, <3>3, <3>4, <3>5 DEF Course
  <2> QED BY <2>8, <2>9
<1> QED BY <1>3, <1>14, <1>15

(* Nothing happens to the request when the network does something.         *)
LEMMA EventCourse ==
  ASSUME Types, Course,
         UNCHANGED vars \/ \E c \in Conns : IdleDrop(c) \/ ServerCloses(c)
  PROVE  Course'
<1>1. /\ UNCHANGED <<reqs, cur, answer, pc, in_err, batch_size, rest_batch_size, greeting>>
      /\ UNCHANGED <<request_sent, keepalive, length, buf, conn, broken, garbled>>
  BY DEF vars, history, ctxVars, uVars, netVars, IdleDrop, ServerCloses
<1>2. pc \in {"filter", "body"} => conn # 0 /\ pc # "idle"
  BY DEF Types, TypeOK
<1>3. ASSUME NEW off \in Nat, Stands(off), pc \in {"filter", "body"} PROVE Stands(off)'
  <2>1. CASE UNCHANGED wire
    BY <1>1, <1>2, <1>3, <2>1, StillStands
  <2>2. CASE \E c \in Conns : ServerCloses(c)
    BY <1>2, <1>3, <2>2, CloseStands
  <2> QED BY <2>1, <2>2 DEF vars, netVars, IdleDrop
<1>4. \A off \in Nat : Partly(off) => Partly(off)'
  BY <1>1, WholeAnswerStays DEF Partly, Counted
<1>5. Counted(0) => Counted(0)'
  BY <1>1 DEF Counted
<1>6. conn \in Conns /\ wire[conn] = <<>> => wire'[conn] = <<>>
  <2>1. CASE UNCHANGED wire
    BY <2>1
  <2>2. ASSUME NEW c \in Conns, ServerCloses(c), conn \in Conns, wire[conn] = <<>>
        PROVE  wire'[conn] = <<>>
    <3>1. PICK k \in 0..Len(wire[c]) : wire' = [wire EXCEPT ![c] = SubSeq(@, 1, k)]
      BY <2>2 DEF ServerCloses
    <3>2. CASE c = conn
      <4>1. k = 0 /\ SubSeq(wire[c], 1, 0) = <<>>
        BY <2>2, <3>1, <3>2
      <4> QED BY <2>2, <3>1, <3>2, <4>1 DEF Types
    <3>3. CASE c # conn
      BY <2>2, <3>1, <3>3 DEF Types
    <3> QED BY <3>2, <3>3
  <2> QED BY <2>1, <2>2 DEF vars, netVars, IdleDrop
<1>7. conn = 0 \/ conn \in Conns
  BY Constants DEF Types, TypeOK
<1> QED BY <1>1, <1>3, <1>4, <1>5, <1>6, <1>7, WholeAnswerStays DEF Course

(* The pool is given connections with nothing left to deliver, and those   *)
(* in it are not written to.                                               *)
LEMMA PoolStaysClean ==
  ASSUME Orderly, Types, Course, PoolIsClean, [Next]_vars
  PROVE  PoolIsClean'
<1>1. /\ idle \subseteq 1..opened /\ conn \notin idle /\ opened \in Nat
      /\ wire \in [Conns -> Seq(Unit)] /\ idle \subseteq Conns
  BY Constants DEF Types, TypeOK
<1> DEFINE Kept == \A c \in idle : wire'[c] = <<>>
<1>2. CASE UNCHANGED vars
  BY <1>2 DEF vars, netVars, PoolIsClean
<1>3. CASE CreateRequest \/ Filter \/ BodyEof \/ BodyTimeout \/ ClientAbort
           \/ ConnectFails \/ HeaderEof \/ HeaderTimeout
  <2>1. UNCHANGED <<wire, idle>>
    BY <1>3 DEF CreateRequest, Filter, FilterNothing, FilterReply, FilterGarbage, BodyEof,
                BodyTimeout, EndBody, ClientAbort, ConnectFails, HeaderEof, HeaderTimeout,
                NextUpstream, netVars
  <2> QED BY <2>1 DEF PoolIsClean
<1>4. CASE SendRequest
  <2>1. /\ idle' = idle
        /\ wire' = wire \/ wire' = [wire EXCEPT ![conn] = @ \o RepliesTo(cur)]
    BY <1>4 DEF SendRequest
  <2>2. \A c \in idle : wire'[c] = wire[c]
    BY <1>1, <2>1
  <2> QED BY <2>1, <2>2 DEF PoolIsClean
<1>5. CASE Read
  <2>1. idle' = idle /\ \E k : Delivered(k)
    BY <1>5 DEF Read, ReadHeaderAgain, ReadHeader, Recv
  <2>2. \A c \in idle : wire'[c] = wire[c]
    BY <1>1, <2>1 DEF Delivered
  <2> QED BY <2>1, <2>2 DEF PoolIsClean
<1>6. CASE Connect
  <2>1. idle' \subseteq idle
    BY <1>6 DEF Connect, ConnectNew, ConnectCached
  <2>2. wire' = wire \/ wire' = [wire EXCEPT ![opened + 1] = Greeting]
    BY <1>6 DEF Connect, ConnectNew, ConnectCached
  <2>3. \A c \in idle : wire'[c] = wire[c]
    <3>1. opened + 1 \notin idle
      BY <1>1
    <3> QED BY <1>1, <2>2, <3>1
  <2> QED BY <2>1, <2>3 DEF PoolIsClean
<1>7. ASSUME NEW x \in Conns, ServerCloses(x) PROVE PoolIsClean'
  <2>1. PICK k \in 0..Len(wire[x]) : wire' = [wire EXCEPT ![x] = SubSeq(@, 1, k)]
    BY <1>7 DEF ServerCloses
  <2>2. ASSUME NEW c \in idle PROVE wire'[c] = <<>>
    <3>1. wire[c] = <<>> /\ c \in Conns
      BY <1>1 DEF PoolIsClean
    <3>2. CASE c = x
      <4>1. k = 0 /\ SubSeq(wire[x], 1, 0) = <<>>
        BY <3>1, <3>2
      <4> QED BY <1>1, <2>1, <3>1, <3>2, <4>1
    <3>3. CASE c # x
      BY <1>1, <2>1, <3>1, <3>3
    <3> QED BY <3>2, <3>3
  <2>3. idle' = idle
    BY <1>7 DEF ServerCloses
  <2> QED BY <2>2, <2>3 DEF PoolIsClean
<1>8. ASSUME NEW x \in Conns, IdleDrop(x) PROVE PoolIsClean'
  BY <1>8 DEF IdleDrop, PoolIsClean
<1>9. CASE PeerFree
  <2>1. wire' = wire /\ pc \in {"ok", "error"}
    BY <1>9 DEF PeerFree
  <2>2. CASE idle' = idle
    BY <2>1, <2>2 DEF PoolIsClean
  <2>3. CASE idle' # idle
    <3>1. /\ idle' = idle \cup {conn} /\ conn # 0 /\ keepalive /\ ~broken
      BY <1>9, <2>3 DEF PeerFree
    <3>2. wire[conn] = <<>>
      BY <2>1, <3>1 DEF Course
    <3> QED BY <2>1, <3>1, <3>2 DEF PoolIsClean
  <2> QED BY <2>2, <2>3
<1> QED BY <1>2, <1>3, <1>4, <1>5, <1>6, <1>7, <1>8, <1>9 DEF Next

(* What is written to one answer leaves the others, and how it ended.      *)
LEMMA EndStays ==
  ASSUME answer \in [1..NReqs -> Answer],
         \/ \E v : answer' = [answer EXCEPT ![cur].items = v]
         \/ \E v : answer' = [answer EXCEPT ![cur].status = v]
  PROVE  \A r \in 1..NReqs : /\ answer'[r].end = answer[r].end
                             /\ r # cur => answer'[r] = answer[r]
<1> TAKE r \in 1..NReqs
<1>1. answer[r] \in Answer
  OBVIOUS
<1>2. \A v : /\ [answer[r] EXCEPT !.items = v].end = answer[r].end
             /\ [answer[r] EXCEPT !.status = v].end = answer[r].end
  BY <1>1 DEF Answer
<1>3. CASE \E v : answer' = [answer EXCEPT ![cur].items = v]
  <2>1. PICK v : answer' = [answer EXCEPT ![cur].items = v]
    BY <1>3
  <2> QED BY <1>2, <2>1
<1>4. CASE \E v : answer' = [answer EXCEPT ![cur].status = v]
  <2>1. PICK v : answer' = [answer EXCEPT ![cur].status = v]
    BY <1>4
  <2> QED BY <1>2, <2>1
<1> QED BY <1>3, <1>4

(* How a request ended is said once, when it is complete.                  *)
LEMMA EndedStays ==
  ASSUME Orderly, Types, Course, Ended, [Next]_vars
  PROVE  Ended'
<1>1. reqs' = reqs /\ \A r : WholeAnswer(r)' = WholeAnswer(r)
  <2>1. reqs' = reqs
    BY DEF vars, history, Next, CreateRequest, Connect, ConnectNew, ConnectCached,
           SendRequest, Read, ReadHeaderAgain, ReadHeader, Recv, Filter, FilterNothing,
           FilterReply, FilterGarbage, ConnectFails, HeaderEof, HeaderTimeout,
           NextUpstream, BodyEof, BodyTimeout, EndBody, ClientAbort, ServerCloses,
           IdleDrop, PeerFree
  <2> QED BY <2>1, WholeAnswerStays
<1>2. answer \in [1..NReqs -> Answer] /\ cur \in 0..NReqs
  BY DEF Types, TypeOK
<1>3. CASE PeerFree
  <2>1. /\ cur' = cur /\ pc \in {"ok", "error"} /\ pc' = "idle" /\ cur \in 1..NReqs
        /\ answer[cur] \in Answer
    BY <1>3, OrderlyServed DEF PeerFree
  <2> DEFINE end == IF pc = "ok" /\ broken THEN "eof" ELSE pc
  <2>2. answer' = [answer EXCEPT ![cur].end = end]
    BY <1>3 DEF PeerFree
  <2>3. \A r \in 1..NReqs : r # cur => answer'[r] = answer[r]
    BY <1>2, <2>2
  <2>4. /\ answer'[cur].end = end /\ answer'[cur].status = answer[cur].status
        /\ answer'[cur].items = answer[cur].items
    BY <1>2, <2>1, <2>2 DEF Answer
  <2>5. end = "ok" => pc = "ok" /\ ~broken
    BY <2>1
  <2>6. ASSUME NEW r \in 1..NReqs, answer'[r].status = 200, answer'[r].end = "ok"
        PROVE  answer'[r].items = WholeAnswer(r)'
    <3>1. CASE r = cur
      BY <1>1, <2>4, <2>5, <2>6, <3>1 DEF Course
    <3>2. CASE r # cur
      BY <1>1, <2>3, <2>6, <3>2 DEF Ended, CompleteAnswer
    <3> QED BY <3>1, <3>2
  <2>7. \A r \in 1..NReqs : r > cur' => answer'[r].end = "none"
    BY <1>2, <2>1, <2>3 DEF Ended
  <2> QED BY <2>1, <2>6, <2>7 DEF Ended, CompleteAnswer
<1>4. CASE CreateRequest
  <2>1. answer' = answer /\ cur' = cur + 1 /\ cur < NReqs
    BY <1>4 DEF CreateRequest
  <2>2. \A r \in 1..NReqs : r >= cur + 1 => answer[r].end = "none"
    BY <1>2 DEF Ended
  <2> QED BY <1>1, <1>2, <2>1, <2>2 DEF Ended, CompleteAnswer
<1>5. CASE ~PeerFree /\ ~CreateRequest
  <2>1. /\ cur' = cur /\ (pc = "idle" => pc' = "idle")
        /\ \A r \in 1..NReqs : r # cur \/ pc = "idle" => answer'[r] = answer[r]
        /\ \A r \in 1..NReqs : answer'[r].end = answer[r].end
    <3>1. CASE UNCHANGED vars \/ Connect \/ SendRequest \/ FilterNothing \/ FilterGarbage
               \/ BodyEof \/ BodyTimeout \/ ClientAbort
               \/ \E c \in Conns : ServerCloses(c) \/ IdleDrop(c)
      BY <3>1 DEF vars, history, Connect, ConnectNew, ConnectCached, SendRequest,
                  FilterNothing, FilterGarbage, BodyEof, BodyTimeout, EndBody, ClientAbort,
                  ServerCloses, IdleDrop
    <3>2. CASE FilterReply
      <4>1. /\ cur' = cur /\ pc = "filter"
            /\ answer' = answer
               \/ \E v : answer' = [answer EXCEPT ![cur].items = v]
        BY <3>2 DEF FilterReply
      <4> QED BY <1>2, <4>1, EndStays
    <3>3. CASE Read
      <4>1. /\ cur' = cur /\ pc \in {"header", "body"}
            /\ answer' = answer
               \/ \E v : answer' = [answer EXCEPT ![cur].status = v]
        BY <3>3 DEF Read, ReadHeaderAgain, ReadHeader, Recv, history
      <4> QED BY <1>2, <4>1, EndStays
    <3>4. CASE ConnectFails \/ HeaderEof \/ HeaderTimeout
      <4>1. /\ cur' = cur /\ pc \in {"connect", "header"}
            /\ answer' = answer
               \/ \E v : answer' = [answer EXCEPT ![cur].status = v]
        BY <3>4 DEF ConnectFails, HeaderEof, HeaderTimeout, NextUpstream
      <4> QED BY <1>2, <4>1, EndStays
    <3> QED BY <1>5, <3>1, <3>2, <3>3, <3>4 DEF Next, Filter
  <2>2. ASSUME NEW r \in 1..NReqs, answer'[r].status = 200, answer'[r].end = "ok"
        PROVE  answer'[r].items = WholeAnswer(r)'
    <3>1. r # cur \/ pc = "idle"
      BY <2>1, <2>2 DEF Ended
    <3> QED BY <1>1, <2>1, <2>2, <3>1 DEF Ended, CompleteAnswer
  <2> QED BY <2>1, <2>2 DEF Ended, CompleteAnswer
<1> QED BY <1>3, <1>4, <1>5

(* Every step keeps all of it.                                             *)
LEMMA NextWhole ==
  ASSUME Orderly, Whole, [Next]_vars
  PROVE  Whole'
<1>1. /\ Flow /\ PoolIsClean /\ Course /\ Ended /\ Told /\ Types /\ Place
  BY DEF Whole, Flow, Told
<1>2. Flow' /\ PoolIsClean' /\ Ended'
  BY <1>1, NextFlow, PoolStaysClean, EndedStays
<1>3. CASE CreateRequest \/ Connect \/ SendRequest
  BY <1>1, <1>2, <1>3, CreateCourse, ConnectCourse, SendCourse DEF Whole
<1>4. CASE conn # 0 /\ Read
  <2>1. PICK k : ReadHeaderAgain(k) \/ ReadHeader(k) \/ Recv(k)
    BY <1>4 DEF Read
  <2> QED BY <1>1, <1>2, <1>4, <2>1, ReadHeaderCourse, RecvCourse DEF Whole
<1>5. CASE Filter
  BY <1>1, <1>2, <1>5, FilterCourse DEF Whole
<1>6. CASE ConnectFails \/ HeaderEof \/ HeaderTimeout
  BY <1>1, <1>2, <1>6, NextUpstreamCourse DEF Whole
<1>7. CASE BodyEof \/ BodyTimeout \/ ClientAbort \/ PeerFree
  BY <1>1, <1>2, <1>7, EndsCourse DEF Whole
<1>8. CASE UNCHANGED vars \/ \E c \in Conns : ServerCloses(c) \/ IdleDrop(c)
  <2>1. UNCHANGED vars \/ \E c \in Conns : IdleDrop(c) \/ ServerCloses(c)
    BY <1>8
  <2> QED BY <1>1, <1>2, <2>1, EventCourse DEF Whole
<1> QED BY <1>3, <1>4, <1>5, <1>6, <1>7, <1>8 DEF Next

(* It holds before the first request.                                      *)
LEMMA InitWhole == Init => Whole
<1> SUFFICES ASSUME Init PROVE Whole
  OBVIOUS
<1>1. Flow /\ idle = {}
  BY InitFlow
<1>2. PoolIsClean
  BY <1>1 DEF PoolIsClean
<1>3. Course
  BY DEF Init, Course
<1>4. Ended
  BY DEF Init, Ended, CompleteAnswer
<1> QED BY <1>1, <1>2, <1>3, <1>4 DEF Whole

(* In the orderly regime clients are given replies to their own calls only,*)
(* though connections go from request to request through the keepalive     *)
(* pool, and an answer of status 200 that ended well is complete, in order *)
(* and framed as the client of a batch expects it, however servers fail.   *)
THEOREM CompleteAnswerEver ==
  ASSUME Orderly
  PROVE  Spec => [](CompleteAnswer /\ OwnReplies)
<1>1. Whole /\ [Next]_vars => Whole'
  BY NextWhole
<1>2. Whole => CompleteAnswer /\ OwnReplies
  BY DEF Whole, Flow, InOrder, Ended
<1> QED BY <1>1, <1>2, InitWhole, PTL DEF Spec

(* Clients are given replies to their own calls only, in both regimes: in  *)
(* the orderly one with a keepalive pool, and without a pool in any, with  *)
(* aborts, split greetings, replies that cannot be read and second tries.  *)
THEOREM OwnRepliesEver ==
  ASSUME Orderly \/ Keepalive = FALSE
  PROVE  Spec => []OwnReplies
<1>1. CASE Orderly
  BY <1>1, CompleteAnswerEver, PTL
<1>2. CASE Keepalive = FALSE
  BY <1>2, AnsweredOnceEver, PTL
<1> QED BY <1>1, <1>2

(* In the orderly regime no connection goes back to the pool after an      *)
(* answer that ended well while a reply is still on its way on it.         *)
THEOREM OkReusesCleanEver ==
  ASSUME Orderly
  PROVE  Spec => OkReusesClean
<1>1. Whole /\ [Next]_vars => Whole'
  BY NextWhole
<1>2. Whole /\ [Next]_vars => [pc = "ok" /\ conn \in idle' => wire[conn] = <<>>]_vars
  <2>1. SUFFICES ASSUME Whole, Next, pc = "ok", conn \in idle' PROVE wire[conn] = <<>>
    OBVIOUS
  <2>2. Course /\ conn \notin idle
    BY <2>1 DEF Whole, Flow, Told, Types, TypeOK
  <2>3. PeerFree
    BY <2>1, <2>2 DEF Next, CreateRequest, Connect, ConnectNew, ConnectCached, SendRequest,
                      Read, ReadHeaderAgain, ReadHeader, Recv, Filter, FilterNothing,
                      FilterReply, FilterGarbage, ConnectFails, HeaderEof, HeaderTimeout,
                      BodyEof, BodyTimeout, ClientAbort, ServerCloses, IdleDrop, netVars
  <2>4. keepalive /\ ~broken
    BY <2>1, <2>2, <2>3 DEF PeerFree
  <2> QED BY <2>1, <2>2, <2>4 DEF Course
<1> QED BY <1>1, <1>2, InitWhole, PTL DEF Spec, OkReusesClean

-----------------------------------------------------------------------------
(* What the response header said, while the answer follows it.             *)
Reported ==
  /\ pc \in {"connect", "send", "header"} => answer[cur].status = 0
  /\ pc \in {"filter", "body", "ok"} =>
       answer[cur].status = (IF reqs[cur].rejected THEN 400 ELSE 200)

(* The response header of the request that is served.                      *)
LEMMA HeaderIsTrue ==
  ASSUME Orderly, Whole, pc = "header"
  PROVE  HeaderStatus = IF reqs[cur].rejected THEN 400 ELSE 200
<1>1. in_err = reqs[cur].rejected
  BY DEF Whole, Course, Counted
<1>2. FlagsType
  BY TypeParts DEF Whole, Flow, Told
<1>3. state = "OK" <=> ~in_err
  BY <1>2, Zenon DEF FlagsType
<1> QED BY <1>1, <1>3, Zenon DEF HeaderStatus

(* What is written to the answer that is served.                           *)
LEMMA ServedAnswer ==
  ASSUME Whole, pc # "idle"
  PROVE  cur \in 1..NReqs /\ answer[cur] \in Answer /\ cur \in DOMAIN answer
<1>1. Types
  BY DEF Whole, Flow, Told
<1>2. cur \in 1..NReqs
  BY <1>1, Served DEF Types
<1> QED BY <1>1, <1>2 DEF Types

(* The filter adds an item to the answer, the next one, or does nothing to *)
(* it.                                                                     *)
LEMMA FilterDelivers ==
  ASSUME Orderly, Whole, Filter
  PROVE  /\ pc = "filter" /\ pc' \in {"filter", "body", "ok"}
         /\ reqs' = reqs /\ cur' = cur
         /\ IF reqs[cur].rejected THEN answer' = answer
            ELSE LET k == Len(answer[cur].items) + 1
                 IN  /\ k <= reqs[cur].n
                     /\ answer' = [answer EXCEPT ![cur].items = Append(@, WholeAnswer(cur)[k])]
<1>1. Types /\ Course /\ pc = "filter"
  BY DEF Whole, Flow, Told, Filter, FilterNothing, FilterReply, FilterGarbage
<1>2. PICK off \in Nat : Stands(off) /\ Partly(off)
  BY <1>1 DEF Course
<1>3. /\ reqs' = reqs /\ cur' = cur /\ pc' \in {"filter", "body", "ok"}
      /\ answer' = IF in_err THEN answer
                   ELSE [answer EXCEPT ![cur].items = Append(@, NextItem)]
      /\ ~reqs[cur].rejected =>
           NextItem = WholeAnswer(cur)[Len(answer[cur].items) + 1]
  BY <1>1, <1>2, FilterTakes
<1>4. in_err = reqs[cur].rejected
  BY <1>2 DEF Partly, Counted
<1>5. CASE reqs[cur].rejected
  BY <1>1, <1>3, <1>4, <1>5
<1>6. CASE ~reqs[cur].rejected
  <2>1. Len(answer[cur].items) < reqs[cur].n
    BY <1>2, <1>6 DEF Partly
  <2>2. Len(answer[cur].items) \in Nat /\ reqs[cur].n \in Nat
    BY <1>1, OrderlyServed
  <2>3. Len(answer[cur].items) + 1 <= reqs[cur].n
    BY <2>1, <2>2
  <2> QED BY <1>1, <1>3, <1>4, <1>6, <2>3
<1> QED BY <1>5, <1>6

(* Every step keeps what the header said.                                  *)
LEMMA NextReported ==
  ASSUME Orderly, Whole, Reported, [Next]_vars
  PROVE  Reported'
<1>1. Types /\ Fresh
  BY DEF Whole, Flow, Told
<1>2. CASE CreateRequest
  <2>1. pc' = "connect" /\ cur' = cur + 1 /\ answer' = answer /\ cur < NReqs /\ pc = "idle"
    BY <1>2 DEF CreateRequest
  <2>2. cur + 1 \in 1..NReqs /\ cur + 1 > cur
    BY <1>1, <2>1, Constants DEF Types, TypeOK
  <2> QED BY <1>1, <2>1, <2>2 DEF Reported, Fresh
<1>3. CASE Connect \/ SendRequest
  BY <1>3 DEF Connect, ConnectNew, ConnectCached, SendRequest, history, Reported
<1>4. CASE conn # 0 /\ Read
  <2>1. PICK k : ReadHeaderAgain(k) \/ ReadHeader(k) \/ Recv(k)
    BY <1>4 DEF Read
  <2>2. CASE ReadHeaderAgain(k) \/ Recv(k)
    BY <2>2 DEF ReadHeaderAgain, Recv, history, Reported
  <2>3. CASE ReadHeader(k)
    <3>1. /\ pc = "header" /\ pc' \in {"filter", "body", "ok"} /\ reqs' = reqs /\ cur' = cur
          /\ answer' = [answer EXCEPT ![cur].status = HeaderStatus]
      BY <2>3 DEF ReadHeader
    <3>2. answer'[cur].status = HeaderStatus
      BY <3>1, ServedAnswer DEF Answer
    <3> QED BY <3>1, <3>2, HeaderIsTrue DEF Reported
  <2> QED BY <2>1, <2>2, <2>3
<1>5. CASE Filter
  <2>1. /\ pc = "filter" /\ pc' \in {"filter", "body", "ok"} /\ reqs' = reqs /\ cur' = cur
        /\ \/ answer' = answer
           \/ \E i : answer' = [answer EXCEPT ![cur].items = i]
    BY <1>5, FilterDelivers
  <2>2. answer'[cur].status = answer[cur].status
    BY <2>1, ServedAnswer DEF Answer
  <2> QED BY <2>1, <2>2 DEF Reported
<1>6. CASE ConnectFails \/ HeaderEof \/ HeaderTimeout
  BY <1>6 DEF ConnectFails, HeaderEof, HeaderTimeout, NextUpstream, Reported
<1>7. CASE BodyEof \/ BodyTimeout \/ ClientAbort \/ PeerFree
  BY <1>7 DEF BodyEof, BodyTimeout, EndBody, ClientAbort, PeerFree, history, Reported
<1>8. CASE UNCHANGED vars \/ \E c \in Conns : ServerCloses(c) \/ IdleDrop(c)
  BY <1>8 DEF vars, ServerCloses, IdleDrop, history, Reported
<1> QED BY <1>2, <1>3, <1>4, <1>5, <1>6, <1>7, <1>8 DEF Next

(* Every step is one of RpcProxy's, or none that a client sees.            *)
LEMMA NextRefines ==
  ASSUME Orderly, Whole, Reported, [Next]_vars
  PROVE  [Proxy!Next]_(Proxy!vars)
<1>1. /\ pc # "idle" => cur \in 1..NReqs /\ answer[cur] \in Answer /\ cur \in DOMAIN answer
      /\ \A r : Proxy!Whole(r) = WholeAnswer(r)
  BY ServedAnswer DEF Proxy!Whole, WholeAnswer
<1>2. CASE CreateRequest
  BY <1>2 DEF CreateRequest, Proxy!Next, Proxy!Accept
<1>3. ASSUME UNCHANGED <<reqs, cur, answer>>, (pc' = "idle") <=> (pc = "idle")
      PROVE  UNCHANGED Proxy!vars
  BY <1>3 DEF Proxy!vars
<1>4. CASE Connect \/ SendRequest
  BY <1>3, <1>4 DEF Connect, ConnectNew, ConnectCached, SendRequest, history
<1>5. CASE conn # 0 /\ Read
  <2>1. PICK k : ReadHeaderAgain(k) \/ ReadHeader(k) \/ Recv(k)
    BY <1>5 DEF Read
  <2>2. CASE ReadHeaderAgain(k) \/ Recv(k)
    BY <1>3, <2>2 DEF ReadHeaderAgain, Recv, history
  <2>3. CASE ReadHeader(k)
    <3>1. /\ pc = "header" /\ pc' # "idle" /\ reqs' = reqs /\ cur' = cur
          /\ answer' = [answer EXCEPT ![cur].status = HeaderStatus]
      BY <2>3 DEF ReadHeader
    <3> QED BY <3>1, HeaderIsTrue DEF Reported, Proxy!Next, Proxy!Respond, Proxy!Status
  <2> QED BY <2>1, <2>2, <2>3
<1>6. CASE Filter
  <2>1. /\ pc = "filter" /\ pc' # "idle" /\ reqs' = reqs /\ cur' = cur
        /\ reqs[cur].rejected => answer' = answer
        /\ ~reqs[cur].rejected =>
             LET k == Len(answer[cur].items) + 1
             IN  /\ k <= reqs[cur].n
                 /\ answer' = [answer EXCEPT ![cur].items = Append(@, WholeAnswer(cur)[k])]
    BY <1>6, FilterDelivers
  <2>2. CASE reqs[cur].rejected
    BY <1>3, <2>1, <2>2
  <2>3. CASE ~reqs[cur].rejected
    <3>1. answer[cur].status = 200
      BY <2>1, <2>3 DEF Reported
    <3> QED BY <1>1, <2>1, <2>3, <3>1 DEF Proxy!Next, Proxy!Deliver
  <2> QED BY <2>2, <2>3
<1>7. CASE ConnectFails \/ HeaderEof \/ HeaderTimeout
  <2>1. /\ pc \in {"connect", "header"} /\ pc' # "idle" /\ reqs' = reqs /\ cur' = cur
        /\ \/ answer' = answer
           \/ \E s \in {502, 504} : answer' = [answer EXCEPT ![cur].status = s]
    BY <1>7 DEF ConnectFails, HeaderEof, HeaderTimeout, NextUpstream
  <2>2. CASE answer' = answer
    BY <1>3, <2>1, <2>2
  <2>3. ASSUME NEW s \in {502, 504}, answer' = [answer EXCEPT ![cur].status = s]
        PROVE  Proxy!Fail
    <3>1. answer[cur].status = 0
      BY <2>1 DEF Reported
    <3>2. UNCHANGED <<reqs, cur, pc # "idle">>
      BY <2>1
    <3>3. Proxy!Status(s)
      BY <2>1, <2>3, <3>1, <3>2 DEF Proxy!Status
    <3> QED BY <3>3 DEF Proxy!Fail
  <2> QED BY <2>1, <2>2, <2>3 DEF Proxy!Next
<1>8. CASE BodyEof \/ BodyTimeout \/ ClientAbort
  BY <1>3, <1>8 DEF BodyEof, BodyTimeout, EndBody, ClientAbort, history
<1>9. CASE PeerFree
  <2> DEFINE how == IF pc = "ok" /\ broken THEN "eof" ELSE pc
  <2>1. /\ pc \in {"ok", "error"} /\ pc' = "idle" /\ reqs' = reqs /\ cur' = cur
        /\ answer' = [answer EXCEPT ![cur].end = how]
    BY <1>9 DEF PeerFree
  <2>2. how = "ok" => \/ answer[cur].status = 400
                      \/ answer[cur].status = 200 /\ answer[cur].items = WholeAnswer(cur)
    BY <2>1 DEF Reported, Whole, Course
  <2>3. how \in {"ok", "eof", "error"}
    BY <2>1
  <2> HIDE DEF how
  <2>4. Proxy!End(how)
    BY <1>1, <2>1, <2>2 DEF Proxy!End
  <2> QED BY <2>3, <2>4 DEF Proxy!Next
<1>10. CASE UNCHANGED vars \/ \E c \in Conns : ServerCloses(c) \/ IdleDrop(c)
  BY <1>3, <1>10 DEF vars, ServerCloses, IdleDrop, history
<1> QED BY <1>2, <1>4, <1>5, <1>6, <1>7, <1>8, <1>9, <1>10 DEF Next

(* In the orderly regime clients see what RpcProxy promises, request after *)
(* request, and nothing of the connections, the pool and the failures.     *)
THEOREM UpstreamImplementsProxy ==
  ASSUME Orderly
  PROVE  Spec => RefinesRpcProxy
<1>1. Whole /\ [Next]_vars => Whole'
  BY NextWhole
<1>2. Init => Reported /\ Proxy!Init
  BY DEF Init, Reported, Proxy!Init
<1>3. Whole /\ Reported /\ [Next]_vars => Reported'
  BY NextReported
<1>4. Whole /\ Reported /\ [Next]_vars => [Proxy!Next]_(Proxy!vars)
  BY NextRefines
<1> QED BY <1>1, <1>2, <1>3, <1>4, InitWhole, PTL DEF Spec, RefinesRpcProxy, Proxy!Spec
=============================================================================
