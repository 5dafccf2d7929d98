----------------------- MODULE TntReplyFilter_proofs -----------------------
(***************************************************************************)
(* Proofs about TntReplyFilter for every set of reply streams and every    *)
(* size of the receive buffer.                                             *)
(***************************************************************************)
EXTENDS TntReplyFilter, TLAPS

(***************************************************************************)
(* The inductive invariant.  While the request is alive the filter's       *)
(* position in the stream determines everything it keeps: seen replies     *)
(* have been taken, then fill bytes of the next header or a prefix of the  *)
(* next reply, and the batch counters are functions of seen.               *)
(***************************************************************************)
Stream ==
  /\ last <= wire.off[wire.n]
  /\ pc \in {"wait", "write"} => pos = last
  /\ pc = "filter" => pos < last
  /\ seen = wire.n => pos = wire.off[wire.n]

AtHeader ==
  pc = "header" =>
    /\ state = "OK" /\ fill = 0 /\ mem = {} /\ rest = 0 /\ cache_size = 0
    /\ base = 0 /\ pos = 0 /\ last = 0 /\ seen = 0
    /\ length = -1 /\ out = <<>>

InHeader ==
  pc # "done" /\ state = "READ_PAYLOAD" =>
    /\ pos = wire.off[seen] + fill
    /\ mem = Run(wire.off[seen], fill)
    /\ cache_size = 0

InBody ==
  pc # "done" /\ state = "READ_BODY" =>
    /\ seen < wire.n
    /\ fill = 0 /\ mem = {}
    /\ wire.off[seen] + HeaderSize <= pos
    /\ cache = wire.off[seen] .. (pos - 1)
    /\ payload_size = wire.off[seen + 1] - wire.off[seen]
    /\ cache_size = payload_size
    /\ rest = wire.off[seen + 1] - pos
    /\ rest > 0

Counters ==
  /\ batch_size = (IF wire.n > 1 /\ seen < wire.n THEN wire.n ELSE 0)
  /\ rest_batch_size = (IF wire.n > 1 /\ seen < wire.n THEN wire.n - seen ELSE 0)

Ending ==
  /\ pc # "header" => state # "OK" /\ (length = 0 <=> wire.inErr \/ seen = wire.n)
  /\ pc # "done" <=> result = "none"

Output ==
  /\ OneArray
  /\ wire.inErr => out = <<>>

IInv ==
  /\ TypeOK
  /\ Stream
  /\ AtHeader
  /\ InHeader
  /\ InBody
  /\ Counters
  /\ Ending
  /\ Output

-----------------------------------------------------------------------------
(* Facts about the stream and about what one call of the filter computes. *)

(* The current stream is one of those the assumption describes. *)
LEMMA WireFacts ==
  ASSUME TypeOK
  PROVE  IsWire(wire)
BY WiresAssumption DEF TypeOK

(* Replies follow one another, none shorter than its header. *)
LEMMA RepliesInOrder ==
  ASSUME IsWire(wire)
  PROVE  /\ wire.n \in Nat \ {0} /\ wire.off[0] = 0
         /\ \A k \in 0..wire.n : wire.off[k] \in Nat
         /\ \A j, k \in 0..wire.n : j < k => wire.off[j] + 5 <= wire.off[k]
<1>1. wire.n \in Nat \ {0} /\ wire.off[0] = 0
  BY DEF IsWire
<1>2. wire.off \in [0..wire.n -> Nat]
  BY DEF IsWire
<1>3. \A j, k \in 0..wire.n : j < k => wire.off[j] + 5 <= wire.off[k]
  BY DEF IsWire, HeaderSize
<1> QED BY <1>1, <1>2, <1>3

(* What a run is from its beginning and its end. *)
LEMMA RunEnds ==
  ASSUME NEW a \in Int, NEW n \in Int
  PROVE  Run(a, n) = a .. ((a + n) - 1)
<1>1. a + (n - 1) = (a + n) - 1
  OBVIOUS
<1> QED BY <1>1, Zenon DEF Run

(* A range of numbers, and the next one, are one range. *)
LEMMA Joined ==
  ASSUME NEW a \in Int, NEW b \in Int, NEW c \in Int, a <= b, b <= c
  PROVE  (a .. (b - 1)) \cup (b .. (c - 1)) = a .. (c - 1)
OBVIOUS

(* A range that is not empty begins with its least number. *)
LEMMA SameBeginning ==
  ASSUME NEW a \in Nat, NEW b \in Nat, NEW c \in Nat, NEW d \in Nat,
         a < c, b < d, a .. (c - 1) = b .. (d - 1)
  PROVE  a = b
<1>1. a \in a .. (c - 1) /\ b \in b .. (d - 1)
  OBVIOUS
<1>2. a \in b .. (d - 1) /\ b \in a .. (c - 1)
  BY <1>1
<1>3. b <= a /\ a <= b
  BY <1>2
<1> QED BY <1>3

(* tp_read_payload of a complete header is the size of the reply that      *)
(* carries it, or -1 when the header is not a length.                      *)
LEMMA ReadPayload ==
  ASSUME IsWire(wire), NEW k \in 1..wire.n
  PROVE  tp_read_payload(HeaderOf(k)) =
           IF k \in wire.junk THEN -1 ELSE wire.off[k] - wire.off[k - 1]
<1> DEFINE headers == {j \in (1..wire.n) \ wire.junk : HeaderOf(k) = HeaderOf(j)}
<1>1. ASSUME NEW j \in 1..wire.n, HeaderOf(k) = HeaderOf(j)
      PROVE  j = k
  <2> DEFINE a == wire.off[k - 1]
             b == wire.off[j - 1]
  <2>1. wire.n \in Nat /\ k - 1 \in 0..wire.n /\ j - 1 \in 0..wire.n
    BY RepliesInOrder
  <2>2. a \in Nat /\ b \in Nat /\ (j < k => b + 5 <= a) /\ (k < j => a + 5 <= b)
    BY <2>1, RepliesInOrder
  <2>3. a .. (a + 5 - 1) = b .. (b + 5 - 1)
    BY <1>1 DEF HeaderOf, Run, HeaderSize
  <2> HIDE DEF a, b
  <2>4. a = b
    <3>1. a + 5 \in Nat /\ b + 5 \in Nat /\ a < a + 5 /\ b < b + 5
      BY <2>2
    <3> QED BY <2>2, <2>3, <3>1, SameBeginning
  <2>5. ~(j < k) /\ ~(k < j)
    BY <2>2, <2>4
  <2> QED BY <2>1, <2>5
<1>2. CASE k \in wire.junk
  <2>1. headers = {}
    BY <1>1, <1>2
  <2>2. QED BY <1>2, <2>1 DEF tp_read_payload
<1>3. CASE k \notin wire.junk
  <2>1. headers = {k}
    BY <1>1, <1>3
  <2>2. (CHOOSE j \in headers : TRUE) = k
    BY <2>1
  <2>3. QED BY <1>3, <2>1, <2>2 DEF tp_read_payload
<1>4. QED BY <1>2, <1>3

(* Inside the filter some reply is still to come. *)
LEMMA SomeReplyIsLeft ==
  ASSUME IInv, pc = "filter"
  PROVE  /\ IsWire(wire)
         /\ seen \in Nat /\ seen + 1 \in 1..wire.n
         /\ wire.n \in Nat /\ seen < wire.n
         /\ wire.off[seen] \in Nat /\ wire.off[seen + 1] \in Nat
         /\ wire.off[seen] + HeaderSize <= wire.off[seen + 1]
         /\ wire.off[seen + 1] <= wire.off[wire.n]
         /\ pos \in Nat /\ last \in Nat /\ Bytes \in Nat \ {0}
         /\ state \in {"READ_PAYLOAD", "READ_BODY"}
<1>1. IsWire(wire)
  BY WireFacts DEF IInv
<1>2. seen \in Nat /\ seen < wire.n /\ wire.n \in Nat
  BY <1>1 DEF IInv, TypeOK, Stream, IsWire
<1>3. pos \in Nat /\ last \in Nat /\ Bytes \in Nat \ {0}
  BY DEF IInv, TypeOK, Stream, Bytes
<1>4. /\ seen \in 0..wire.n /\ seen + 1 \in 0..wire.n /\ wire.n \in 0..wire.n
      /\ seen + 1 \in 1..wire.n
  BY <1>2
<1>5. wire.off[seen] + HeaderSize <= wire.off[seen + 1]
  BY <1>1, <1>2, <1>4, RepliesInOrder DEF HeaderSize
<1>6. wire.off[seen + 1] <= wire.off[wire.n]
  <2>1. CASE seen + 1 = wire.n
    BY <1>1, <1>4, <2>1, RepliesInOrder
  <2>2. CASE seen + 1 < wire.n
    BY <1>1, <1>4, <2>2, RepliesInOrder
  <2>3. QED BY <1>2, <2>1, <2>2
<1>7. state \in {"READ_PAYLOAD", "READ_BODY"}
  BY DEF IInv, TypeOK, Ending
<1>8. QED BY <1>1, <1>2, <1>3, <1>4, <1>5, <1>6, <1>7 DEF IsWire

(* A header that stays incomplete takes every byte there is. *)
LEMMA IncompleteHeader ==
  ASSUME IInv, pc = "filter", ~HeaderKnown
  PROVE  /\ state = "READ_PAYLOAD"
         /\ HeaderTake = Bytes
         /\ fill \in Nat
         /\ fill + Bytes < HeaderSize
         /\ MemAfter = Run(wire.off[seen], fill + Bytes)
<1>1. state = "READ_PAYLOAD" /\ fill \in 0..(HeaderSize - 1)
  BY SomeReplyIsLeft DEF HeaderKnown, IInv, TypeOK
<1>2. HeaderTake = Bytes /\ fill + Bytes < HeaderSize
  BY <1>1, SomeReplyIsLeft DEF HeaderKnown, HeaderTake, Least, HeaderSize
<1>3. pos = wire.off[seen] + fill /\ mem = Run(wire.off[seen], fill)
  BY <1>1 DEF IInv, InHeader
<1>4. MemAfter = Run(wire.off[seen], fill + Bytes)
  <2>1. wire.off[seen] \in Nat /\ Bytes \in Nat /\ fill \in Nat
    BY <1>1, SomeReplyIsLeft DEF HeaderSize
  <2>2. MemAfter = Run(wire.off[seen], fill) \cup Run(wire.off[seen] + fill, Bytes)
    BY <1>2, <1>3 DEF MemAfter
  <2>3. Run(wire.off[seen], fill) \cup Run(wire.off[seen] + fill, Bytes)
          = Run(wire.off[seen], fill + Bytes)
    BY <2>1 DEF Run
  <2>4. QED BY <2>2, <2>3
<1>5. QED BY <1>1, <1>2, <1>4

(* A header that has just been completed is that of the next reply. *)
LEMMA CompleteHeader ==
  ASSUME IInv, pc = "filter", HeaderKnown, state = "READ_PAYLOAD"
  PROVE  /\ HeaderTake \in Nat
         /\ HeaderTake <= Bytes
         /\ pos + HeaderTake = wire.off[seen] + HeaderSize
         /\ MemAfter = HeaderOf(seen + 1)
<1>1. fill \in 0..(HeaderSize - 1)
  BY DEF IInv, TypeOK
<1>2. /\ HeaderTake = HeaderSize - fill
      /\ HeaderTake \in Nat /\ HeaderTake <= Bytes
  <2>1. HeaderTake = Least(HeaderSize - fill, Bytes)
    BY DEF HeaderTake
  <2>2. fill + HeaderTake = HeaderSize
    BY DEF HeaderKnown
  <2>3. Bytes \in Nat
    BY SomeReplyIsLeft
  <2>4. HeaderSize - fill <= Bytes
    BY <1>1, <2>1, <2>2, <2>3 DEF Least, HeaderSize
  <2>5. QED BY <1>1, <2>1, <2>3, <2>4 DEF Least, HeaderSize
<1>3. pos = wire.off[seen] + fill /\ mem = Run(wire.off[seen], fill)
  BY DEF IInv, InHeader
<1>4. MemAfter = HeaderOf(seen + 1)
  <2>1. /\ wire.off[seen] \in Nat /\ fill \in Nat
        /\ fill + HeaderTake = HeaderSize
    BY <1>1, <1>2, SomeReplyIsLeft DEF HeaderSize
  <2>2. MemAfter =
          Run(wire.off[seen], fill) \cup Run(wire.off[seen] + fill, HeaderTake)
    BY <1>3 DEF MemAfter
  <2>3. MemAfter = Run(wire.off[seen], HeaderSize)
    <3>1. HeaderSize = fill + HeaderTake /\ HeaderTake \in Nat
      BY <1>2, <2>1
    <3>2. Run(wire.off[seen], fill) \cup Run(wire.off[seen] + fill, HeaderTake)
            = Run(wire.off[seen], fill + HeaderTake)
      BY <2>1, <3>1 DEF Run
    <3>3. QED BY <2>2, <3>1, <3>2
  <2>4. (seen + 1) - 1 = seen
    BY SomeReplyIsLeft
  <2>5. QED BY <2>3, <2>4 DEF HeaderOf
<1>5. QED BY <1>1, <1>2, <1>3, <1>4, SomeReplyIsLeft DEF HeaderSize

(* Once the header is known the filter works on the next reply: its size,  *)
(* what is missing of it, and the part already collected are right.        *)
LEMMA KnownHeader ==
  ASSUME IInv, pc = "filter", HeaderKnown, SizeOk
  PROVE  /\ HeaderTake \in Nat
         /\ HeaderTake <= Bytes
         /\ wire.off[seen] + HeaderSize <= pos + HeaderTake
         /\ SizeNow = wire.off[seen + 1] - wire.off[seen]
         /\ RestNow = wire.off[seen + 1] - (pos + HeaderTake)
         /\ RestNow \in Nat
         /\ CacheNow = wire.off[seen] .. ((pos + HeaderTake) - 1)
<1>1. CASE state = "READ_PAYLOAD"
  <2>1. SizeNow = tp_read_payload(HeaderOf(seen + 1))
    BY <1>1, CompleteHeader DEF SizeNow
  <2>2. SizeNow > 0
    BY <1>1 DEF SizeOk
  <2>3. (seen + 1) - 1 = seen
    BY SomeReplyIsLeft
  <2>4. SizeNow = wire.off[seen + 1] - wire.off[seen]
    BY <2>1, <2>2, <2>3, ReadPayload, SomeReplyIsLeft
  <2>5. CacheNow = Run(wire.off[seen], HeaderSize)
    BY <1>1, <2>3, CompleteHeader DEF CacheNow, HeaderOf
  <2>6. RestNow = SizeNow - HeaderSize
    BY <1>1 DEF RestNow
  <2>7. /\ HeaderTake \in Nat /\ HeaderTake <= Bytes
        /\ pos + HeaderTake = wire.off[seen] + HeaderSize
    BY <1>1, CompleteHeader
  <2>8. CacheNow = wire.off[seen] .. ((pos + HeaderTake) - 1)
    <3>1. CacheNow = wire.off[seen] .. ((wire.off[seen] + HeaderSize) - 1)
      <4>1. wire.off[seen] \in Int /\ HeaderSize \in Int
        BY SomeReplyIsLeft DEF HeaderSize
      <4> QED BY <2>5, <4>1, RunEnds, Zenon
    <3>2. pos + HeaderTake = wire.off[seen] + HeaderSize
      BY <2>7
    <3> QED BY <3>1, <3>2, Zenon
  <2>9. /\ RestNow = wire.off[seen + 1] - (pos + HeaderTake) /\ RestNow \in Nat
        /\ wire.off[seen] + HeaderSize <= pos + HeaderTake
    <3> DEFINE a == wire.off[seen]
               b == wire.off[seen + 1]
               to == pos + HeaderTake
    <3>1. a \in Nat /\ b \in Nat /\ a + 5 <= b
      BY SomeReplyIsLeft DEF HeaderSize
    <3>2. to = a + 5 /\ RestNow = (b - a) - 5
      BY <2>4, <2>6, <2>7 DEF HeaderSize
    <3> HIDE DEF a, b, to
    <3>3. RestNow = b - to /\ RestNow \in Nat /\ a + 5 <= to
      BY <3>1, <3>2
    <3> QED BY <3>3 DEF a, b, to, HeaderSize
  <2>10. QED BY <2>4, <2>7, <2>8, <2>9
<1>2. CASE state = "READ_BODY"
  <2>1. /\ HeaderTake = 0 /\ SizeNow = payload_size
        /\ RestNow = rest /\ CacheNow = cache
    BY <1>2 DEF HeaderTake, SizeNow, RestNow, CacheNow
  <2>2. /\ wire.off[seen] + HeaderSize <= pos
        /\ cache = wire.off[seen] .. (pos - 1)
        /\ payload_size = wire.off[seen + 1] - wire.off[seen]
        /\ rest = wire.off[seen + 1] - pos
        /\ rest \in Nat
    BY <1>2 DEF IInv, InBody, TypeOK
  <2>3. pos + HeaderTake = pos /\ HeaderTake \in Nat /\ HeaderTake <= Bytes
    <3>1. pos \in Nat /\ Bytes \in Nat
      BY SomeReplyIsLeft
    <3>2. HeaderTake = 0
      BY <2>1
    <3> QED BY <3>1, <3>2
  <2>4. QED BY <2>1, <2>2, <2>3, Zenon
<1>3. state \in {"READ_PAYLOAD", "READ_BODY"}
  BY SomeReplyIsLeft
<1>4. QED BY <1>1, <1>2, <1>3

(* Then the numbers the filter works with are these. *)
LEMMA KnownNumbers ==
  ASSUME IInv, pc = "filter", HeaderKnown, SizeOk
  PROVE  /\ pos \in Nat /\ last \in Nat /\ HeaderTake \in Nat
         /\ wire.off[seen] \in Nat /\ wire.off[seen + 1] \in Nat
         /\ wire.off[seen] <= pos + HeaderTake
         /\ Avail \in Nat /\ last = pos + HeaderTake + Avail
         /\ RestNow \in Nat /\ wire.off[seen + 1] = pos + HeaderTake + RestNow
<1> DEFINE a == wire.off[seen]
           b == wire.off[seen + 1]
           n == Bytes
<1>1. pos \in Nat /\ last \in Nat /\ a \in Nat /\ b \in Nat /\ n \in Nat
  BY SomeReplyIsLeft
<1>2. HeaderTake \in Nat /\ HeaderTake <= n /\ a + 5 <= pos + HeaderTake
  BY KnownHeader DEF HeaderSize
<1>3. RestNow \in Nat /\ RestNow = b - (pos + HeaderTake)
  BY KnownHeader
<1>4. n = last - pos /\ Avail = n - HeaderTake
  BY DEF Avail, Bytes
<1> HIDE DEF a, b, n
<1>5. /\ a <= pos + HeaderTake /\ Avail \in Nat /\ last = pos + HeaderTake + Avail
      /\ b = pos + HeaderTake + RestNow
  BY <1>1, <1>2, <1>3, <1>4
<1> QED BY <1>1, <1>2, <1>3, <1>5 DEF a, b

(* What is copied of the body joins what the cache holds. *)
LEMMA CopiedBody ==
  ASSUME IInv, pc = "filter", HeaderKnown, SizeOk, BodyTake \in Nat
  PROVE  CacheAfter = wire.off[seen] .. (((pos + HeaderTake) + BodyTake) - 1)
<1> DEFINE a == wire.off[seen]
           b == pos + HeaderTake
           c == b + BodyTake
<1>1. a \in Int /\ b \in Int /\ a <= b
  BY KnownNumbers
<1>2. CacheNow = a .. (b - 1)
  BY KnownHeader, Zenon
<1>3. CacheAfter = CacheNow \cup (b .. (c - 1))
  <2>1. b \in Int /\ BodyTake \in Int
    BY <1>1
  <2>2. Run(b, BodyTake) = b .. (c - 1)
    BY <2>1, RunEnds, Zenon
  <2> QED BY <2>2, Zenon DEF CacheAfter
<1> HIDE DEF a, b
<1>4. c \in Int /\ b <= c
  BY <1>1
<1> HIDE DEF c
<1>5. (a .. (b - 1)) \cup (b .. (c - 1)) = a .. (c - 1)
  BY <1>1, <1>4, Joined, Zenon
<1>6. CacheAfter = a .. (c - 1)
  BY <1>2, <1>3, <1>5, Zenon
<1> QED BY <1>6, Zenon DEF a, b, c

(* A reply that is still incomplete takes every byte there is. *)
LEMMA IncompleteBody ==
  ASSUME IInv, pc = "filter", HeaderKnown, SizeOk, RestNow > Avail
  PROVE  /\ pos + HeaderTake + BodyTake = last
         /\ CacheAfter = wire.off[seen] .. (last - 1)
         /\ RestNow - Avail = wire.off[seen + 1] - last
<1>1. Avail \in Nat /\ RestNow \in Nat
  BY KnownNumbers
<1>2. BodyTake = Avail
  BY <1>1 DEF BodyTake, Least
<1>3. pos + HeaderTake + BodyTake = last
  BY <1>2, KnownNumbers
<1>4. CacheAfter = wire.off[seen] .. (last - 1)
  <2>1. BodyTake \in Nat
    BY <1>1, <1>2
  <2> QED BY <1>3, <2>1, CopiedBody, Zenon
<1>5. RestNow - Avail = wire.off[seen + 1] - last
  <2> DEFINE b == wire.off[seen + 1]
             at0 == pos + HeaderTake
  <2>1. at0 \in Nat /\ last = at0 + Avail /\ b = at0 + RestNow
    BY KnownNumbers
  <2> HIDE DEF b, at0
  <2>2. RestNow - Avail = b - last
    BY <1>1, <2>1
  <2> QED BY <2>2 DEF b
<1> QED BY <1>3, <1>4, <1>5

(* A reply that can be completed is, to the byte. *)
LEMMA CompleteBody ==
  ASSUME IInv, pc = "filter", HeaderKnown, SizeOk, RestNow <= Avail
  PROVE  /\ pos + HeaderTake + BodyTake = wire.off[seen + 1]
         /\ CacheAfter = ReplyOf(seen + 1)
         /\ wire.off[seen + 1] <= last
         /\ Avail > BodyTake <=> wire.off[seen + 1] < last
<1>1. Avail \in Nat /\ RestNow \in Nat
  BY KnownNumbers
<1>2. BodyTake = RestNow
  BY <1>1 DEF BodyTake, Least
<1>3. pos + HeaderTake + BodyTake = wire.off[seen + 1]
  BY <1>2, KnownNumbers
<1>4. CacheAfter = ReplyOf(seen + 1)
  <2>1. (seen + 1) - 1 = seen
    BY SomeReplyIsLeft
  <2>2. CacheAfter = wire.off[seen] .. (wire.off[seen + 1] - 1)
    <3>1. BodyTake \in Nat
      BY <1>1, <1>2
    <3> QED BY <1>3, <3>1, CopiedBody, Zenon
  <2> QED BY <2>1, <2>2, Zenon DEF ReplyOf
<1>5. /\ wire.off[seen + 1] <= last
      /\ Avail > BodyTake <=> wire.off[seen + 1] < last
  <2> DEFINE b == wire.off[seen + 1]
             at0 == pos + HeaderTake
  <2>1. at0 \in Nat /\ last = at0 + Avail /\ b = at0 + RestNow
    BY KnownNumbers
  <2> HIDE DEF b, at0
  <2>2. b <= last /\ (Avail > BodyTake <=> b < last)
    BY <1>1, <1>2, <2>1
  <2> QED BY <2>2 DEF b
<1> QED BY <1>3, <1>4, <1>5

-----------------------------------------------------------------------------
(* The invariant holds initially and every action preserves it. *)

(* Nothing has been received yet. *)
LEMMA InitIInv == Init => IInv
<1> SUFFICES ASSUME Init PROVE IInv
  OBVIOUS
<1>1. IsWire(wire) /\ wire \in Wires
  BY WiresAssumption DEF Init
<1>2. wire.n \in Nat \ {0} /\ 0 \in 0..wire.n /\ wire.n \in 0..wire.n
  BY <1>1 DEF IsWire
<1>3. TypeOK
  <2>1. batch_size \in 0..wire.n /\ rest_batch_size \in 0..wire.n
    BY <1>2 DEF Init
  <2>2. base \in Nat /\ pos \in base..last /\ last \in base..(base + BufSize)
    BY BufSizeAssumption DEF Init
  <2>3. out \in Seq([open  : BOOLEAN,
                    reply : SUBSET Nat,
                    tail  : {"none", "comma", "close"}])
    BY DEF Init
  <2>4. fill \in 0..(HeaderSize - 1) /\ seen \in 0..wire.n
    BY <1>2 DEF Init, HeaderSize
  <2>5. QED BY <1>1, <2>1, <2>2, <2>3, <2>4 DEF Init, TypeOK
<1>4. 0 <= wire.off[wire.n]
  BY <1>1, <1>2 DEF IsWire
<1>5. Stream /\ AtHeader /\ InHeader /\ InBody /\ Counters /\ Ending
  BY <1>2, <1>4 DEF Init, Stream, AtHeader, InHeader, InBody, Counters, Ending
<1>6. out = <<>> /\ seen = 0
  BY DEF Init
<1>7. Output
  BY <1>6 DEF Output, OneArray
<1>8. QED BY <1>3, <1>5, <1>7 DEF IInv

(* The request's response begins: ngx_http_upstream_send_response. *)
LEMMA SendResponseIInv ==
  ASSUME IInv, NEW n \in 0..BufSize, SendResponse(n)
  PROVE  IInv'
<1>1. IsWire(wire)
  BY WireFacts DEF IInv
<1>2. wire.n \in Nat \ {0} /\ 0 \in 0..wire.n /\ wire.n \in 0..wire.n
  BY <1>1 DEF IsWire
<1>3. wire.off[wire.n] \in Nat /\ wire.off[0] = 0 /\ wire.off[wire.n] > 0
  BY <1>1, <1>2 DEF IsWire, HeaderSize
<1>4. TypeOK'
  <2>1. last' = n /\ pos' = 0 /\ base' = 0
    BY BufSizeAssumption DEF IInv, AtHeader, SendResponse
  <2>2. base' \in Nat /\ pos' \in base'..last' /\ last' \in base'..(base' + BufSize)
    BY <2>1, BufSizeAssumption
  <2>3. /\ wire' = wire /\ out' = out /\ seen' = seen /\ fill' = fill
        /\ mem' = mem /\ cache' = cache /\ cache_size' = cache_size
        /\ batch_size' = batch_size /\ rest_batch_size' = rest_batch_size
        /\ result' = result /\ eof' = eof /\ keepalive' = keepalive
        /\ busy' \in BOOLEAN
        /\ pc' \in {"header", "wait", "filter", "write", "done"} /\ pc # "done"
        /\ state' = "READ_PAYLOAD" /\ payload_size' = 0 /\ rest' = 0
        /\ length' \in {-1, 0}
    BY <1>1 DEF SendResponse, filter_init, IsWire
  <2>4. QED BY <2>2, <2>3 DEF IInv, TypeOK
<1>5. Stream' /\ AtHeader'
  BY <1>2, <1>3
     DEF IInv, AtHeader, SendResponse, filter_init, ReceivedHere, Stream, AtHeader
<1>6. InHeader' /\ InBody'
  <2>1. Run(0, 0) = {}
    BY DEF Run
  <2>2. /\ state' = "READ_PAYLOAD" /\ pos' = 0 /\ fill' = 0 /\ mem' = {}
        /\ seen' = 0 /\ cache_size' = 0 /\ wire' = wire
    BY DEF IInv, AtHeader, SendResponse, filter_init
  <2>3. QED BY <1>3, <2>1, <2>2 DEF InHeader, InBody
<1>7. Counters' /\ Ending'
  BY <1>2 DEF IInv, AtHeader, SendResponse, filter_init, Counters, Ending
<1>8. Output'
  BY DEF IInv, Output, OneArray, RS!Element, SendResponse
<1>9. QED BY <1>4, <1>5, <1>6, <1>7, <1>8 DEF IInv

(* Bytes are received. *)
LEMMA RecvIInv ==
  ASSUME IInv, NEW n \in 1..BufSize, Recv(n)
  PROVE  IInv'
<1>1. TypeOK'
  BY BufSizeAssumption DEF IInv, TypeOK, Recv, ReceivedHere, ctxVars
<1>2. Stream' /\ AtHeader'
  BY DEF IInv, TypeOK, Stream, AtHeader, Recv, ReceivedHere, ctxVars
<1>3. InHeader' /\ InBody'
  BY DEF IInv, InHeader, InBody, Recv, ctxVars, Run
<1>4. Counters' /\ Ending'
  BY DEF IInv, Counters, Ending, Recv, ctxVars
<1>5. Output'
  BY DEF IInv, Output, OneArray, RS!Element, Recv, ctxVars
<1>6. QED BY <1>1, <1>2, <1>3, <1>4, <1>5 DEF IInv

(* The header is still incomplete. *)
LEMMA FilterReplyHeaderIInv ==
  ASSUME IInv, FilterReplyHeader
  PROVE  IInv'
<1>1. /\ pc = "filter" /\ ~HeaderKnown
      /\ wire' = wire /\ seen' = seen /\ state' = state /\ last' = last
      /\ mem' = MemAfter /\ fill' = fill + HeaderTake /\ pos' = pos + HeaderTake
      /\ pc' = "write" /\ keepalive' = TRUE
  BY DEF FilterReplyHeader, FilterReturnsOk
<1>2. /\ state = "READ_PAYLOAD" /\ HeaderTake = Bytes /\ fill \in Nat
      /\ fill + Bytes < HeaderSize
      /\ MemAfter = Run(wire.off[seen], fill + Bytes)
  BY <1>1, IncompleteHeader
<1>3. pos' = last /\ fill' = fill + Bytes
  <2>1. pos \in Nat /\ last \in Nat
    BY <1>1, SomeReplyIsLeft
  <2> QED BY <1>1, <1>2, <2>1 DEF Bytes
<1>4. mem' \in SUBSET Nat
  <2>1. wire.off[seen] \in Nat
    BY <1>1, SomeReplyIsLeft
  <2>2. \A a \in Nat, n \in Int : Run(a, n) \in SUBSET Nat
    BY DEF Run
  <2>3. fill + Bytes \in Int
    BY <1>1, <1>2, SomeReplyIsLeft
  <2> QED BY <1>1, <1>2, <2>1, <2>2, <2>3
<1>5. fill' \in 0..(HeaderSize - 1)
  BY <1>1, <1>2, SomeReplyIsLeft DEF HeaderSize
<1>6. TypeOK'
  <2>1. pos' \in base'..last'
    BY <1>1, <1>3 DEF IInv, TypeOK, FilterReplyHeader
  <2>2. QED BY <1>1, <1>4, <1>5, <2>1
            DEF IInv, TypeOK, FilterReplyHeader, FilterReturnsOk
<1>7. Stream' /\ AtHeader'
  BY <1>1, <1>3, SomeReplyIsLeft DEF IInv, Stream, AtHeader
<1>8. InHeader' /\ InBody'
  <2>1. pos = wire.off[seen] + fill
    BY <1>1, <1>2 DEF IInv, InHeader
  <2>2. pos' = wire'.off[seen'] + fill'
    BY <1>1, <1>2, <1>3, <2>1, SomeReplyIsLeft DEF Bytes
  <2>3. cache_size' = 0
    BY <1>1, <1>2 DEF IInv, InHeader, FilterReplyHeader
  <2>4. mem' = Run(wire'.off[seen'], fill')
    BY <1>1, <1>2, <1>3
  <2>5. QED BY <1>1, <1>2, <2>2, <2>3, <2>4 DEF InHeader, InBody
<1>9. Counters' /\ Ending'
  BY <1>1, <1>2 DEF IInv, Counters, Ending, FilterReplyHeader, FilterReturnsOk
<1>10. Output'
  BY DEF IInv, Output, OneArray, RS!Element, FilterReplyHeader
<1>11. QED BY <1>6, <1>7, <1>8, <1>9, <1>10 DEF IInv

(* The header is not a length. *)
LEMMA FilterReplyBadHeaderIInv ==
  ASSUME IInv, FilterReplyBadHeader
  PROVE  IInv'
<1>1. /\ pc = "filter" /\ HeaderKnown /\ state = "READ_PAYLOAD"
      /\ wire' = wire /\ seen' = seen /\ state' = state /\ last' = last
      /\ mem' = MemAfter /\ pos' = pos + HeaderTake
      /\ pc' = "done" /\ result' = "error" /\ cache_size' = 0 /\ cache' = {}
  BY SomeReplyIsLeft DEF FilterReplyBadHeader, Finalize, SizeOk
<1>2. /\ HeaderTake \in Nat /\ HeaderTake <= Bytes
      /\ pos + HeaderTake = wire.off[seen] + HeaderSize
      /\ MemAfter = HeaderOf(seen + 1)
  BY <1>1, CompleteHeader
<1>3. mem' \in SUBSET Nat
  <2>1. (seen + 1) - 1 = seen
    BY <1>1, SomeReplyIsLeft
  <2>2. MemAfter = wire.off[seen] .. (wire.off[seen] + HeaderSize - 1)
    BY <1>2, <2>1 DEF HeaderOf, Run
  <2>3. QED BY <1>1, <2>2, SomeReplyIsLeft
<1>4. pos' \in base..last
  BY <1>1, <1>2, SomeReplyIsLeft DEF Bytes, IInv, TypeOK
<1>5. TypeOK'
  BY <1>1, <1>3, <1>4 DEF IInv, TypeOK, FilterReplyBadHeader, Finalize
<1>6. Stream' /\ AtHeader' /\ InHeader' /\ InBody'
  BY <1>1, SomeReplyIsLeft DEF IInv, Stream, AtHeader, InHeader, InBody
<1>7. Counters' /\ Ending'
  BY <1>1 DEF IInv, Counters, Ending, FilterReplyBadHeader
<1>8. Output'
  BY DEF IInv, Output, OneArray, RS!Element, FilterReplyBadHeader
<1>9. QED BY <1>5, <1>6, <1>7, <1>8 DEF IInv

(* The body is still incomplete. *)
LEMMA FilterReplyBodyIInv ==
  ASSUME IInv, FilterReplyBody
  PROVE  IInv'
<1>1. /\ pc = "filter" /\ HeaderKnown /\ SizeOk /\ RestNow > Avail
      /\ wire' = wire /\ seen' = seen /\ last' = last /\ base' = base
      /\ state' = "READ_BODY" /\ fill' = 0 /\ mem' = {}
      /\ payload_size' = SizeNow /\ rest' = RestNow - Avail
      /\ cache_size' = SizeNow /\ cache' = CacheAfter
      /\ pos' = pos + HeaderTake + BodyTake
      /\ pc' = "write" /\ keepalive' = TRUE /\ result' = result
  BY DEF FilterReplyBody, FilterReturnsOk
<1>2. /\ pos' = last
      /\ cache' = wire.off[seen] .. (last - 1)
      /\ rest' = wire.off[seen + 1] - last
  BY <1>1, IncompleteBody
<1>3. /\ payload_size' = wire.off[seen + 1] - wire.off[seen]
      /\ cache_size' = payload_size'
      /\ HeaderTake \in Nat /\ HeaderTake <= Bytes
      /\ wire.off[seen] + HeaderSize <= pos + HeaderTake
  BY <1>1, KnownHeader
<1>14. /\ wire.off[seen] \in Nat /\ wire.off[seen + 1] \in Nat
       /\ wire.off[seen] + HeaderSize <= wire.off[seen + 1]
       /\ pos \in Nat /\ last \in Nat /\ Bytes \in Nat
  BY <1>1, SomeReplyIsLeft
<1>4. payload_size' \in Nat /\ payload_size' > 0
  BY <1>3, <1>14 DEF HeaderSize
<1>5. wire.off[seen] + HeaderSize <= last
  BY <1>1, <1>3, SomeReplyIsLeft DEF HeaderSize, Bytes
<1>13. rest' \in Nat /\ rest' > 0
  <2>1. RestNow \in Nat /\ Avail \in Nat
    BY <1>1, <1>3, <1>14, KnownHeader DEF Avail
  <2>2. QED BY <1>1, <2>1
<1>6. cache' \in SUBSET Nat
  BY <1>1, <1>2, SomeReplyIsLeft
<1>7. TypeOK'
  <2>1. pos' \in base'..last'
    BY <1>1, <1>2, <1>14 DEF IInv, TypeOK
  <2>2. /\ fill' \in 0..(HeaderSize - 1) /\ mem' \in SUBSET Nat
        /\ rest' \in Nat /\ payload_size' \in Nat /\ cache_size' \in Nat
    BY <1>1, <1>3, <1>4, <1>13 DEF HeaderSize
  <2>3. QED BY <1>1, <1>6, <2>1, <2>2 DEF IInv, TypeOK, FilterReplyBody
<1>8. Stream' /\ AtHeader'
  BY <1>1, <1>2, SomeReplyIsLeft DEF IInv, Stream, AtHeader
<1>9. InHeader' /\ InBody'
  <2>1. seen < wire.n
    BY <1>1, SomeReplyIsLeft
  <2>2. QED BY <1>1, <1>2, <1>3, <1>5, <1>13, <2>1 DEF InHeader, InBody
<1>10. Counters' /\ Ending'
  BY <1>1 DEF IInv, Counters, Ending, FilterReplyBody
<1>11. Output'
  BY DEF IInv, Output, OneArray, RS!Element, FilterReplyBody
<1>12. QED BY <1>7, <1>8, <1>9, <1>10, <1>11 DEF IInv

(* The output buffer made of a complete reply is the element the client is *)
(* due: the two batch counters put brackets and commas where they belong.  *)
LEMMA ChunkIsElement ==
  ASSUME IInv, pc = "filter", HeaderKnown, SizeOk, RestNow <= Avail
  PROVE  /\ Chunk = RS!Element(wire, seen + 1)
         /\ Chunk \in [open  : BOOLEAN,
                       reply : SUBSET Nat,
                       tail  : {"none", "comma", "close"}]
         /\ BatchDone <=> seen + 1 = wire.n
<1>1. /\ seen \in Nat /\ wire.n \in Nat /\ seen < wire.n
      /\ wire.off[seen] \in Nat /\ wire.off[seen + 1] \in Nat
  BY SomeReplyIsLeft
<1>2. /\ batch_size = (IF wire.n > 1 THEN wire.n ELSE 0)
      /\ rest_batch_size = (IF wire.n > 1 THEN wire.n - seen ELSE 0)
  BY <1>1 DEF IInv, Counters
<1>3. CacheAfter = wire.off[(seen + 1) - 1] .. (wire.off[seen + 1] - 1)
  BY CompleteBody DEF ReplyOf
<1>4. Opens <=> wire.n > 1 /\ seen + 1 = 1
  BY <1>1, <1>2 DEF Opens
<1>5. Closes = (IF wire.n = 1 THEN "none"
                ELSE IF seen + 1 = wire.n THEN "close" ELSE "comma")
  BY <1>1, <1>2 DEF Closes
<1>6. Opens \in BOOLEAN
  BY DEF Opens
<1>7. Chunk = RS!Element(wire, seen + 1)
  BY <1>3, <1>4, <1>5, <1>6 DEF Chunk, RS!Element
<1>8. CacheAfter \in SUBSET Nat
  <2>1. (seen + 1) - 1 = seen
    BY <1>1
  <2>2. QED BY <1>1, <1>3, <2>1
<1>9. Chunk \in [open  : BOOLEAN,
                reply : SUBSET Nat,
                tail  : {"none", "comma", "close"}]
  BY <1>5, <1>6, <1>8 DEF Chunk
<1>10. BatchDone <=> seen + 1 = wire.n
  BY <1>1, <1>2 DEF BatchDone
<1>11. QED BY <1>7, <1>9, <1>10

(* A sequence of elements that one more is put behind. *)
LEMMA AppendElement ==
  ASSUME NEW m \in Nat, NEW s, s = [k \in 1..m |-> RS!Element(wire, k)]
  PROVE  Append(s, RS!Element(wire, m + 1))
           = [k \in 1..(m + 1) |-> RS!Element(wire, k)]
OBVIOUS

(* What a FilterReplySend step does, by the return code of the call. *)
LEMMA SendStep ==
  ASSUME IInv, FilterReplySend
  PROVE  /\ wire' = wire /\ base' = base /\ last' = last /\ eof' = eof
         /\ state' = "READ_PAYLOAD" /\ fill' = 0 /\ mem' = {}
         /\ payload_size' = 0 /\ rest' = 0 /\ cache_size' = 0 /\ cache' = {}
         /\ seen' = seen + 1
         /\ pos' = wire.off[seen + 1] /\ pos' <= last
         /\ IF Transcodes(CacheAfter) /\ ~wire.inErr
              THEN out' = Append(out, RS!Element(wire, seen + 1)) /\ busy' = TRUE
              ELSE out' = out /\ busy' = busy
         /\ \/ pc' = "filter" /\ pos' < last /\ result' = result /\ keepalive' = keepalive
            \/ pc' = "write" /\ pos' = last /\ result' = result /\ keepalive' = TRUE
            \/ /\ pc' = "done" /\ pos' = last /\ result' = "error"
               /\ keepalive' = keepalive /\ ~Transcodes(CacheAfter)
<1>1. pc = "filter" /\ HeaderKnown /\ SizeOk /\ RestNow <= Avail
  BY DEF FilterReplySend
<1>2. /\ pos' = wire.off[seen + 1] /\ pos' <= last
      /\ Avail > BodyTake <=> pos' < last
  BY <1>1, CompleteBody DEF FilterReplySend
<1>3. Chunk = RS!Element(wire, seen + 1)
  BY <1>1, ChunkIsElement
<1>4. pos' \in Nat /\ last \in Nat
  BY <1>1, <1>2, SomeReplyIsLeft
<1>5. IF Transcodes(CacheAfter) /\ ~wire.inErr
        THEN out' = Append(out, RS!Element(wire, seen + 1)) /\ busy' = TRUE
        ELSE out' = out /\ busy' = busy
  BY <1>3 DEF FilterReplySend
<1>6. \/ pc' = "filter" /\ pos' < last /\ result' = result /\ keepalive' = keepalive
      \/ pc' = "write" /\ pos' = last /\ result' = result /\ keepalive' = TRUE
      \/ /\ pc' = "done" /\ pos' = last /\ result' = "error"
         /\ keepalive' = keepalive /\ ~Transcodes(CacheAfter)
  <2>1. CASE Avail > BodyTake
    BY <1>1, <1>2, <2>1 DEF FilterReplySend, RcAfterSend
  <2>2. CASE ~(Avail > BodyTake) /\ Transcodes(CacheAfter)
    <3>1. pos' = last
      BY <1>2, <1>4, <2>2
    <3>2. pc' = "write" /\ result' = result /\ keepalive' = TRUE
      BY <2>2 DEF FilterReplySend, RcAfterSend, FilterReturnsOk
    <3>3. QED BY <3>1, <3>2
  <2>3. CASE ~(Avail > BodyTake) /\ ~Transcodes(CacheAfter)
    <3>1. pos' = last
      BY <1>2, <1>4, <2>3
    <3>2. pc' = "done" /\ result' = "error" /\ keepalive' = keepalive
      BY <2>3 DEF FilterReplySend, RcAfterSend
    <3>3. QED BY <2>3, <3>1, <3>2
  <2>4. QED BY <2>1, <2>2, <2>3
<1>7. QED BY <1>2, <1>5, <1>6 DEF FilterReplySend

(* The reply is complete. *)
LEMMA FilterReplySendIInv ==
  ASSUME IInv, FilterReplySend
  PROVE  IInv'
<1>1. /\ pc = "filter" /\ HeaderKnown /\ SizeOk /\ RestNow <= Avail
  BY DEF FilterReplySend
<1>2. /\ seen \in Nat /\ wire.n \in Nat /\ seen < wire.n /\ seen + 1 \in 1..wire.n
      /\ wire.off[seen + 1] \in Nat /\ wire.off[seen + 1] <= wire.off[wire.n]
      /\ last \in Nat
  BY <1>1, SomeReplyIsLeft
<1>3. /\ batch_size' = (IF BatchDone THEN 0 ELSE batch_size)
      /\ rest_batch_size' = (IF BatchDone THEN 0 ELSE rest_batch_size - 1)
      /\ length' = (IF BatchDone THEN 0 ELSE length)
  BY DEF FilterReplySend
<1>4. BatchDone <=> seen + 1 = wire.n
  BY <1>1, ChunkIsElement
<1>5. Counters'
  <2>1. /\ batch_size = (IF wire.n > 1 THEN wire.n ELSE 0)
        /\ rest_batch_size = (IF wire.n > 1 THEN wire.n - seen ELSE 0)
    BY <1>2 DEF IInv, Counters
  <2>2. wire' = wire /\ seen' = seen + 1
    BY SendStep
  <2>3. batch_size' = (IF wire.n > 1 /\ seen + 1 < wire.n THEN wire.n ELSE 0)
    BY <1>2, <1>3, <1>4, <2>1
  <2>4. rest_batch_size' =
          (IF wire.n > 1 /\ seen + 1 < wire.n THEN wire.n - (seen + 1) ELSE 0)
    BY <1>2, <1>3, <1>4, <2>1
  <2>5. QED BY <2>2, <2>3, <2>4 DEF Counters
<1>6. TypeOK'
  <2>1. pos' \in base'..last'
    <3>1. base \in Nat /\ base <= pos
      BY DEF IInv, TypeOK
    <3>2. /\ base' = base /\ last' = last
          /\ pos' = wire.off[seen + 1] /\ pos' = pos + HeaderTake + RestNow
      BY <1>1, KnownNumbers, SendStep
    <3>3. pos \in Nat /\ HeaderTake \in Nat /\ RestNow \in Nat /\ pos' <= last
      BY <1>1, <3>2, KnownNumbers, CompleteBody
    <3>4. pos' \in Nat /\ pos <= pos'
      BY <3>2, <3>3
    <3> QED BY <1>2, <3>1, <3>2, <3>3, <3>4
  <2>2. out' \in Seq([open  : BOOLEAN,
                     reply : SUBSET Nat,
                     tail  : {"none", "comma", "close"}])
    <3> DEFINE Buffers == [open  : BOOLEAN,
                           reply : SUBSET Nat,
                           tail  : {"none", "comma", "close"}]
    <3>1. out \in Seq(Buffers)
      BY DEF IInv, TypeOK
    <3>2. RS!Element(wire, seen + 1) \in Buffers
      BY <1>1, ChunkIsElement
    <3>3. out' = out \/ out' = Append(out, RS!Element(wire, seen + 1))
      BY SendStep
    <3> HIDE DEF Buffers
    <3>4. out' \in Seq(Buffers)
      BY <3>1, <3>2, <3>3
    <3>5. QED BY <3>4 DEF Buffers
  <2>3. seen' \in 0..wire'.n /\ batch_size' \in 0..wire'.n /\ rest_batch_size' \in 0..wire'.n
    BY <1>2, <1>5, SendStep DEF Counters
  <2>4. length' \in {-1, 0} /\ busy' \in BOOLEAN /\ keepalive' \in BOOLEAN
    BY <1>3, SendStep DEF IInv, TypeOK
  <2>5. fill' \in 0..(HeaderSize - 1) /\ mem' \in SUBSET Nat /\ rest' \in Nat
    BY SendStep DEF HeaderSize
  <2>6. QED BY <2>1, <2>2, <2>3, <2>4, <2>5, SendStep DEF IInv, TypeOK
<1>7. Stream' /\ AtHeader'
  BY <1>1, <1>2, SendStep DEF IInv, Stream, AtHeader
<1>8. InHeader' /\ InBody'
  <2>1. Run(wire.off[seen + 1], 0) = {}
    BY <1>2 DEF Run
  <2>2. wire.off[seen + 1] = wire.off[seen + 1] + 0
    BY <1>2
  <2>3. QED BY <2>1, <2>2, SendStep DEF InHeader, InBody
<1>9. Ending'
  <2>1. length = 0 <=> wire.inErr
    BY <1>1, <1>2 DEF IInv, Ending
  <2>2. length' = 0 <=> wire.inErr \/ seen + 1 = wire.n
    BY <1>3, <1>4, <2>1
  <2>3. pc' # "done" <=> result' = "none"
    BY <1>1, SendStep DEF IInv, Ending
  <2>4. QED BY <2>2, <2>3, SendStep DEF Ending
<1>10. Output'
  <2>1. CASE wire.inErr
    BY <2>1, SendStep DEF IInv, Output, OneArray
  <2>2. CASE ~wire.inErr
    <3>1. ASSUME wire.bad \cap (1..(seen + 1)) = {}
          PROVE  out' = [k \in 1..(seen + 1) |-> RS!Element(wire, k)]
      <4>1. seen + 1 \notin wire.bad /\ wire.bad \cap (1..seen) = {}
        BY <1>2, <3>1
      <4>2. Transcodes(CacheAfter)
        BY <1>1, <1>2, <4>1, CompleteBody DEF Transcodes
      <4>3. out = [k \in 1..seen |-> RS!Element(wire, k)]
        BY <2>2, <4>1 DEF IInv, Output, OneArray
      <4>4. out' = Append(out, RS!Element(wire, seen + 1))
        BY <2>2, <4>2, SendStep
      <4>5. QED BY <1>2, <4>3, <4>4, AppendElement
    <3>2. OneArray'
      BY <3>1, SendStep DEF OneArray, RS!Element
    <3>3. QED BY <2>2, <3>2, SendStep DEF Output
  <2>3. QED BY <2>1, <2>2
<1>11. QED BY <1>5, <1>6, <1>7, <1>8, <1>9, <1>10 DEF IInv

(* Everything queued is written. *)
LEMMA DrainedIInv ==
  ASSUME IInv, pc \in {"wait", "write"}, Drained
  PROVE  IInv'
<1>1. /\ wire' = wire /\ state' = state /\ fill' = fill /\ mem' = mem
      /\ payload_size' = payload_size /\ rest' = rest /\ seen' = seen
      /\ batch_size' = batch_size /\ rest_batch_size' = rest_batch_size
      /\ length' = length /\ keepalive' = keepalive /\ out' = out
      /\ eof' = eof /\ last' = last /\ busy' = FALSE
  BY DEF Drained, bufVars
<1>2. pos = last
  BY DEF IInv, Stream
<1>3. \/ /\ pc' = "done" /\ result' = "ok" /\ base' = base /\ pos' = pos
         /\ cache_size' = 0 /\ cache' = {}
      \/ /\ pc' = "wait" /\ result' = result /\ base' = last /\ pos' = last
         /\ cache_size' = cache_size /\ cache' = cache
  BY DEF Drained, Finalize, bufVars
<1>4. /\ base' \in Nat /\ pos' \in base'..last' /\ last' \in base'..(base' + BufSize)
  BY <1>1, <1>2, <1>3, BufSizeAssumption DEF IInv, TypeOK
<1>5. TypeOK'
  <2>1. /\ pc' \in {"wait", "done"} /\ result' \in {"none", "ok", "error"}
        /\ cache' \in SUBSET Nat /\ cache_size' \in Nat
    <3>1. /\ result \in {"none", "ok", "error"}
          /\ cache \in SUBSET Nat /\ cache_size \in Nat
      BY DEF IInv, TypeOK
    <3>2. pc' \in {"wait", "done"} /\ result' \in {"none", "ok", "error"}
      BY <1>3, <3>1
    <3>3. \/ cache' = {} /\ cache_size' = 0
          \/ cache' = cache /\ cache_size' = cache_size
      BY <1>3
    <3>4. QED
      <4>1. CASE cache' = {} /\ cache_size' = 0
        BY <3>2, <4>1
      <4>2. CASE cache' = cache /\ cache_size' = cache_size
        BY <3>1, <3>2, <4>2
      <4>3. QED BY <3>3, <4>1, <4>2
  <2>2. /\ fill' \in 0..(HeaderSize - 1) \/ pc' = "done"
        /\ payload_size' \in Nat \/ pc' = "done"
    BY <1>1 DEF IInv, TypeOK
  <2>3. QED BY <1>1, <1>4, <2>1, <2>2 DEF IInv, TypeOK
<1>6. Stream' /\ AtHeader'
  BY <1>1, <1>2, <1>3 DEF IInv, Stream, AtHeader
<1>7. InHeader' /\ InBody'
  BY <1>1, <1>2, <1>3 DEF IInv, InHeader, InBody, Run
<1>8. Counters' /\ Ending'
  BY <1>1, <1>3 DEF IInv, Counters, Ending
<1>9. Output'
  BY <1>1 DEF IInv, Output, OneArray, RS!Element
<1>10. QED BY <1>5, <1>6, <1>7, <1>8, <1>9 DEF IInv

(* The client's socket is full. *)
LEMMA WriteBlocksIInv ==
  ASSUME IInv, WriteBlocks
  PROVE  IInv'
<1>1. TypeOK' /\ Stream' /\ AtHeader'
  BY DEF IInv, TypeOK, Stream, AtHeader, WriteBlocks, ctxVars, bufVars
<1>2. InHeader' /\ InBody'
  BY DEF IInv, InHeader, InBody, WriteBlocks, ctxVars, bufVars, Run
<1>3. Counters' /\ Ending'
  BY DEF IInv, Counters, Ending, WriteBlocks, ctxVars
<1>4. Output'
  BY DEF IInv, Output, OneArray, RS!Element, WriteBlocks
<1>5. QED BY <1>1, <1>2, <1>3, <1>4 DEF IInv

(* The upstream closes its connection. *)
LEMMA EofIInv ==
  ASSUME IInv, Eof
  PROVE  IInv'
<1>1. TypeOK' /\ Stream' /\ AtHeader'
  BY DEF IInv, TypeOK, Stream, AtHeader, Eof, ctxVars, bufVars
<1>2. InHeader' /\ InBody'
  BY DEF IInv, InHeader, InBody, Eof, ctxVars, bufVars, Run
<1>3. Counters' /\ Ending'
  BY DEF IInv, Counters, Ending, Eof, ctxVars
<1>4. Output'
  BY DEF IInv, Output, OneArray, RS!Element, Eof
<1>5. QED BY <1>1, <1>2, <1>3, <1>4 DEF IInv

(* The client goes away, or the read timer fires. *)
LEMMA GiveUpIInv ==
  ASSUME IInv, GiveUp
  PROVE  IInv'
<1>1. TypeOK' /\ Stream' /\ AtHeader'
  BY DEF IInv, TypeOK, Stream, AtHeader, GiveUp, Finalize, bufVars
<1>2. InHeader' /\ InBody'
  BY DEF InHeader, InBody, GiveUp, Finalize
<1>3. Counters' /\ Ending'
  BY DEF IInv, Counters, Ending, GiveUp, Finalize
<1>4. Output'
  BY DEF IInv, Output, OneArray, RS!Element, GiveUp
<1>5. QED BY <1>1, <1>2, <1>3, <1>4 DEF IInv

(* Nothing happens. *)
LEMMA StutterIInv ==
  ASSUME IInv, UNCHANGED vars
  PROVE  IInv'
<1>1. TypeOK' /\ Stream' /\ AtHeader'
  BY DEF IInv, TypeOK, Stream, AtHeader, vars, ctxVars, bufVars
<1>2. InHeader' /\ InBody'
  BY DEF IInv, InHeader, InBody, vars, ctxVars, bufVars, Run
<1>3. Counters' /\ Ending'
  BY DEF IInv, Counters, Ending, vars, ctxVars
<1>4. Output'
  BY DEF IInv, Output, OneArray, RS!Element, vars
<1>5. QED BY <1>1, <1>2, <1>3, <1>4 DEF IInv

(* Every step keeps the invariant. *)
LEMMA NextIInv == IInv /\ [Next]_vars => IInv'
<1> SUFFICES ASSUME IInv, [Next]_vars PROVE IInv'
  OBVIOUS
<1>1. ASSUME NEW n \in 0..BufSize, SendResponse(n) PROVE IInv'
  BY <1>1, SendResponseIInv
<1>2. ASSUME NEW n \in 1..BufSize, Recv(n) PROVE IInv'
  BY <1>2, RecvIInv
<1>3. CASE FilterReply
  BY <1>3, FilterReplyHeaderIInv, FilterReplyBadHeaderIInv, FilterReplyBodyIInv,
     FilterReplySendIInv DEF FilterReply
<1>4. CASE WriteAll \/ WriteEvent
  BY <1>4, DrainedIInv DEF WriteAll, WriteEvent
<1>5. CASE WriteBlocks
  BY <1>5, WriteBlocksIInv
<1>6. CASE Eof
  BY <1>6, EofIInv
<1>7. CASE GiveUp
  BY <1>7, GiveUpIInv
<1>8. CASE UNCHANGED vars
  BY <1>8, StutterIInv
<1>9. QED BY <1>1, <1>2, <1>3, <1>4, <1>5, <1>6, <1>7, <1>8 DEF Next

(***************************************************************************)
(* The strengthening: in every reachable state the position in the stream  *)
(* determines what the filter keeps.                                       *)
(***************************************************************************)
THEOREM Invariant == Spec => []IInv
<1>1. Init => IInv
  BY InitIInv
<1>2. IInv /\ [Next]_vars => IInv'
  BY NextIInv
<1>3. QED BY <1>1, <1>2, PTL DEF Spec

(* Type correctness of the reply path. *)
THEOREM TypeCorrect == Spec => []TypeOK
<1>1. IInv => TypeOK
  BY DEF IInv
<1>2. QED BY <1>1, Invariant, PTL

(* The client's bytes are a prefix of one well-formed array, for every     *)
(* segmentation of the stream: ngx_http_tnt_send_reply's brackets.         *)
THEOREM ClientSeesOneArray == Spec => []OneArray
<1>1. IInv => OneArray
  BY DEF IInv, Output
<1>2. QED BY <1>1, Invariant, PTL

(* nginx never rewinds a buffer that still holds unread bytes. *)
THEOREM NoByteIsLost == Spec => []NothingUnread
<1>1. IInv => NothingUnread
  BY DEF IInv, Stream, NothingUnread
<1>2. QED BY <1>1, Invariant, PTL

(* The response is ended exactly at the last reply of the request. *)
THEOREM EndsExactly == Spec => []EndsAtLastReply
<1>1. IInv => EndsAtLastReply
  BY DEF IInv, Stream, Ending, EndsAtLastReply
<1>2. QED BY <1>1, Invariant, PTL

(* tp_cache is never written beyond its allocation, and rest is what it    *)
(* still lacks.                                                            *)
THEOREM CacheNeverOverruns == Spec => []CacheIsReplyPrefix
<1>1. IInv => CacheIsReplyPrefix
  <2> SUFFICES ASSUME IInv, pc # "done"
               PROVE  /\ cache_size > 0 <=> state = "READ_BODY"
                      /\ state = "READ_BODY" =>
                           /\ seen < wire.n
                           /\ cache = wire.off[seen] .. (pos - 1)
                           /\ cache_size = wire.off[seen + 1] - wire.off[seen]
                           /\ rest = wire.off[seen + 1] - pos
    BY DEF CacheIsReplyPrefix
  <2>1. CASE state = "READ_BODY"
    <3>1. /\ seen < wire.n /\ seen \in 0..wire.n /\ wire.n \in Nat /\ IsWire(wire)
      BY <2>1, WireFacts DEF IInv, InBody, TypeOK, IsWire
    <3>2. wire.off[seen] + HeaderSize <= wire.off[seen + 1]
      BY <3>1 DEF IsWire
    <3>3. wire.off[seen] \in Nat /\ wire.off[seen + 1] \in Nat
      BY <3>1 DEF IsWire
    <3>4. QED BY <2>1, <3>1, <3>2, <3>3 DEF IInv, InBody, HeaderSize
  <2>2. CASE state # "READ_BODY"
    BY <2>2 DEF IInv, TypeOK, AtHeader, InHeader, Ending
  <2>3. QED BY <2>1, <2>2
<1>2. QED BY <1>1, Invariant, PTL

-----------------------------------------------------------------------------
(* The reply path implements ReplyStream. *)

(* Different replies are different bytes. *)
LEMMA RepliesDiffer ==
  ASSUME IsWire(wire), NEW j \in 1..wire.n, NEW k \in 1..wire.n,
         ReplyOf(j) = ReplyOf(k)
  PROVE  j = k
<1> DEFINE a == wire.off[j - 1]
           b == wire.off[k - 1]
           c == wire.off[j]
           d == wire.off[k]
<1>1. /\ wire.n \in Nat /\ j \in 0..wire.n /\ k \in 0..wire.n
      /\ j - 1 \in 0..wire.n /\ k - 1 \in 0..wire.n
  BY RepliesInOrder
<1>2. /\ {a, b, c, d} \subseteq Nat /\ a + 5 <= c /\ b + 5 <= d
      /\ (j < k => a + 5 <= b) /\ (k < j => b + 5 <= a)
  BY <1>1, RepliesInOrder
<1>3. a .. (c - 1) = b .. (d - 1)
  BY DEF ReplyOf
<1> HIDE DEF a, b, c, d
<1>4. a = b
  <2>1. a < c /\ b < d
    BY <1>2
  <2> QED BY <1>2, <1>3, <2>1, SameBeginning
<1>5. ~(j < k) /\ ~(k < j)
  BY <1>2, <1>4
<1> QED BY <1>1, <1>5

(* A reply that is complete is a step of the stream. *)
LEMMA SendRefines ==
  ASSUME IInv, FilterReplySend
  PROVE  RS!Deliver \/ RS!Drop
<1>1. pc = "filter" /\ HeaderKnown /\ SizeOk /\ RestNow <= Avail
  BY DEF FilterReplySend
<1>2. seen < wire.n /\ seen + 1 \in 1..wire.n /\ IsWire(wire)
  BY <1>1, SomeReplyIsLeft
<1>3. Transcodes(CacheAfter) <=> seen + 1 \notin wire.bad
  <2>1. CacheAfter = ReplyOf(seen + 1)
    BY <1>1, CompleteBody
  <2>2. ASSUME NEW k \in (1..wire.n) \ wire.bad, CacheAfter = ReplyOf(k)
        PROVE  seen + 1 \notin wire.bad
    BY <1>2, <2>1, <2>2, RepliesDiffer
  <2>3. QED BY <1>2, <2>1, <2>2 DEF Transcodes
<1>4. CASE Transcodes(CacheAfter) /\ ~wire.inErr
  BY <1>1, <1>2, <1>3, <1>4, SendStep DEF RS!Deliver
<1>5. CASE ~(Transcodes(CacheAfter) /\ ~wire.inErr)
  <2>1. seen + 1 \in wire.bad \/ wire.inErr
    BY <1>3, <1>5
  <2>2. pc' # "done" \/ result' = "error"
    BY SendStep
  <2>3. QED BY <1>1, <1>2, <1>5, <2>1, <2>2, SendStep DEF RS!Drop
<1>6. QED BY <1>4, <1>5

(* Writing all that is queued is a step of the stream, or none. *)
LEMMA DrainedRefines ==
  ASSUME IInv, pc \in {"wait", "write"}, Drained
  PROVE  RS!Complete \/ RS!Cut \/ UNCHANGED RS!vars
<1>1. /\ wire' = wire /\ seen' = seen /\ out' = out /\ length' = length
      /\ \/ pc' = "wait"
         \/ pc' = "done" /\ result' = "ok"
  BY DEF Drained, Finalize
<1>2. CASE pc' = "wait"
  BY <1>1, <1>2 DEF RS!vars
<1>3. CASE pc' = "done" /\ length = 0
  <2>1. wire.inErr \/ seen = wire.n
    BY <1>3 DEF IInv, Ending
  <2>2. QED BY <1>1, <1>3, <2>1 DEF RS!Complete
<1>4. CASE pc' = "done" /\ length # 0
  BY <1>1, <1>4 DEF RS!Cut
<1>5. QED BY <1>1, <1>2, <1>3, <1>4

(***************************************************************************)
(* The bytes, buffers and events of the filter implement the abstract      *)
(* reply stream: each reply is delivered once, in order, or dropped when   *)
(* it cannot be rendered, and the answer is complete only at the end.      *)
(***************************************************************************)
THEOREM FilterImplementsReplyStream == Spec => RefinesReplyStream
<1>1. Init => RS!Init
  BY DEF Init, RS!Init
<1>2. IInv /\ [Next]_vars => [RS!Next]_RS!vars
  <2> SUFFICES ASSUME IInv, [Next]_vars PROVE [RS!Next]_RS!vars
    OBVIOUS
  <2>1. ASSUME NEW n \in 0..BufSize, SendResponse(n) PROVE UNCHANGED RS!vars
    BY <2>1 DEF SendResponse, RS!vars
  <2>2. ASSUME NEW n \in 1..BufSize, Recv(n) PROVE UNCHANGED RS!vars
    BY <2>2 DEF Recv, RS!vars
  <2>3. CASE FilterReplyHeader
    BY <2>3 DEF FilterReplyHeader, FilterReturnsOk, RS!vars
  <2>4. CASE FilterReplyBadHeader
    BY <2>4 DEF FilterReplyBadHeader, Finalize, RS!Next, RS!Cut
  <2>5. CASE FilterReplyBody
    BY <2>5 DEF FilterReplyBody, FilterReturnsOk, RS!vars
  <2>6. CASE FilterReplySend
    BY <2>6, SendRefines DEF RS!Next
  <2>7. CASE WriteAll \/ WriteEvent
    BY <2>7, DrainedRefines DEF WriteAll, WriteEvent, RS!Next
  <2>8. CASE WriteBlocks
    BY <2>8 DEF WriteBlocks, RS!vars
  <2>9. CASE Eof
    BY <2>9 DEF Eof, RS!vars
  <2>10. CASE GiveUp
    BY <2>10 DEF GiveUp, Finalize, RS!Next, RS!Cut
  <2>11. CASE UNCHANGED vars
    BY <2>11 DEF vars, RS!vars
  <2>12. QED
    BY <2>1, <2>2, <2>3, <2>4, <2>5, <2>6, <2>7, <2>8, <2>9, <2>10, <2>11
       DEF Next, FilterReply
<1>3. QED
  BY <1>1, <1>2, Invariant, PTL DEF Spec, RS!Spec, RefinesReplyStream
=============================================================================
