-------------------------- MODULE TntJsonToTp_proofs --------------------------
(***************************************************************************)
(* Theorems about TntJsonToTp.  For any sequence of callbacks, be it of    *)
(* JSON-RPC or not, and any limits: the types, and that the stack stays    *)
(* within what was allocated for it.  For any bodies, whatever their calls *)
(* hold: that the stack has what is open, that the calls are counted, and  *)
(* where a body is refused for its size or depth.                          *)
(***************************************************************************)
EXTENDS JsonBody, Counting_proofs

Item == [ptr : Nat, count : Nat, type : {"map", "array"}]

Marks == {<<c>> : c \in {"func", "TUPLE", "slot", "data", "value", "key"}}
Tokens == Marks \cup ({"header", "array", "map"} \X Int)

(* What is allocated comes in chunks. *)
Chunks(n) == \E k \in Nat \ {0} : n = k * StackChunk

IInv ==
  /\ TypeOK
  /\ input \in Inputs /\ stack \in Seq(Item) /\ out \in Seq(Tokens)
  /\ StackFits /\ Chunks(allocated)

(* The limits are numbers, and a byte holds a whole number of chunks.      *)
LEMMA Limits ==
  /\ MAX_STACK_SIZE \in Nat /\ MAX_BATCH_SIZE \in Nat /\ UINT32_MAX \in Nat
  /\ StackChunk \in Nat \ {0} /\ ByteSize \in Nat \ {0}
  /\ StackChunk < ByteSize /\ MAX_STACK_SIZE < ByteSize
  /\ \E m \in Nat : ByteSize = m * StackChunk
<1>1. /\ MAX_STACK_SIZE \in Nat /\ MAX_BATCH_SIZE \in Nat /\ UINT32_MAX \in Nat
      /\ StackChunk \in Nat \ {0} /\ ByteSize \in Nat \ {0}
      /\ StackChunk < ByteSize /\ MAX_STACK_SIZE < ByteSize
      /\ ByteSize % StackChunk = 0
  BY LimitsAssumption
<1>2. ByteSize = StackChunk * (ByteSize \div StackChunk) + (ByteSize % StackChunk)
  BY <1>1
<1>3. ByteSize \div StackChunk \in Nat
  BY <1>1
<1> QED BY <1>1, <1>2, <1>3

(* A whole number of chunks below another one is so by a chunk.            *)
LEMMA ChunkMore ==
  ASSUME NEW c \in Nat \ {0}, NEW k \in Nat, NEW m \in Nat, k * c < m * c
  PROVE  k * c + c <= m * c /\ k * c + c = (k + 1) * c
<1>1. k * c + c = (k + 1) * c
  OBVIOUS
<1>2. k < m
  <2>1. SUFFICES ASSUME m <= k PROVE FALSE
    OBVIOUS
  <2>2. \A d \in Nat : d * c >= 0 /\ (m + d) * c = m * c + d * c
    OBVIOUS
  <2>3. k - m \in Nat /\ k = m + (k - m)
    BY <2>1
  <2> QED BY <2>2, <2>3
<1>3. \A d \in Nat : d * c >= 0 /\ (k + 1 + d) * c = (k + 1) * c + d * c
  OBVIOUS
<1>4. m - (k + 1) \in Nat /\ m = k + 1 + (m - (k + 1))
  BY <1>2
<1> QED BY <1>1, <1>3, <1>4

(* stack_push: where it succeeds the item has room, and the counter of     *)
(* what is allocated has not wrapped.                                      *)
LEMMA Grown ==
  ASSUME allocated \in 1..(ByteSize - 1), Chunks(allocated),
         NEW s, Len(s) \in Nat, Len(s) <= allocated, CanPush(s)
  PROVE  /\ NewAllocated(s) \in 1..(ByteSize - 1) /\ Chunks(NewAllocated(s))
         /\ Len(s) + 1 <= NewAllocated(s) /\ Len(s) + 1 <= MAX_STACK_SIZE
<1>1. Len(s) + 1 <= MAX_STACK_SIZE /\ NewAllocated(s) # 0
  BY Limits DEF CanPush
<1>2. CASE allocated # Len(s)
  BY <1>1, <1>2 DEF NewAllocated
<1>3. CASE allocated = Len(s)
  <2>1. PICK k \in Nat \ {0} : allocated = k * StackChunk
    BY DEF Chunks
  <2>2. PICK m \in Nat : ByteSize = m * StackChunk
    BY Limits
  <2>3. k * StackChunk < m * StackChunk
    BY <2>1, <2>2, Limits
  <2>4. allocated + StackChunk <= ByteSize /\ allocated + StackChunk = (k + 1) * StackChunk
    BY <2>1, <2>2, <2>3, Limits, ChunkMore
  <2>5. NewAllocated(s) = (allocated + StackChunk) % ByteSize
    BY <1>3 DEF NewAllocated
  <2>6. allocated + StackChunk # ByteSize
    <3>1. ByteSize % ByteSize = 0
      BY Limits
    <3> QED BY <1>1, <2>5, <3>1
  <2>7. (allocated + StackChunk) % ByteSize = allocated + StackChunk
    <3>1. \A a, b \in Nat : a < b => a % b = a
      OBVIOUS
    <3> QED BY <2>4, <2>6, <3>1, Limits
  <2>8. Chunks(NewAllocated(s))
    BY <2>4, <2>5, <2>7 DEF Chunks
  <2> QED BY <1>1, <1>3, <2>4, <2>5, <2>6, <2>7, <2>8, Limits
<1> QED BY <1>2, <1>3

(* stack_grow counts, and no more. *)
LEMMA Counted ==
  ASSUME NEW s \in Seq(Item), NEW type
  PROVE  stack_grow(s, type) \in Seq(Item) /\ Len(stack_grow(s, type)) = Len(s)
<1>1. CASE s # <<>> /\ s[Len(s)].type = type
  <2> DEFINE i == Len(s)
             x == [s[i] EXCEPT !.count = @ + 1]
  <2>1. i \in 1..Len(s) /\ s[i] \in Item
    BY <1>1
  <2>2. x \in Item
    BY <2>1 DEF Item
  <2>3. stack_grow(s, type) = [s EXCEPT ![i] = x]
    BY <1>1 DEF stack_grow
  <2> HIDE DEF i, x
  <2>4. [s EXCEPT ![i] = x] \in Seq(Item) /\ Len([s EXCEPT ![i] = x]) = Len(s)
    BY <2>1, <2>2
  <2> QED BY <2>3, <2>4, Zenon
<1>2. CASE ~(s # <<>> /\ s[Len(s)].type = type)
  BY <1>2 DEF stack_grow
<1> QED BY <1>1, <1>2

(* Everything has its type at first. *)
LEMMA InitIInv == Init => IInv
<1> SUFFICES ASSUME Init PROVE IInv
  OBVIOUS
<1>1. input.events \in Seq(Callbacks)
  BY InputsAssumption DEF Init
<1>2. 0 \in 0..Len(input.events)
  BY <1>1
<1>3. Chunks(StackChunk)
  BY Limits DEF Chunks
<1>4. stack = <<>> /\ out = <<>> /\ stack \in Seq(Item) /\ out \in Seq(Tokens) /\ Len(stack) = 0
      /\ Len(out) = 0
  BY DEF Init
<1>5. \A i \in 1..Len(stack) : FALSE
  BY <1>4
<1>6. allocated = StackChunk /\ StackChunk \in 1..(ByteSize - 1)
      /\ Len(stack) <= MAX_STACK_SIZE /\ Len(stack) <= StackChunk
  BY <1>4, Limits DEF Init
<1>7. /\ at = 0 /\ stage = "INIT" /\ been_stages = {} /\ batch_mode_on = FALSE
      /\ batch_size = 0 /\ sync = 0 /\ status = "parsing" /\ input \in Inputs
  BY DEF Init
<1>8. StackFits
  BY <1>6, Limits DEF StackFits
<1>9. TypeOK
  <2>1. /\ at \in 0..Len(input.events) /\ allocated \in 0..(ByteSize - 1)
        /\ batch_size \in Nat /\ sync \in 0..Len(out)
    BY <1>2, <1>4, <1>6, <1>7, Limits
  <2>2. \A i \in 1..Len(stack) : /\ stack[i].type \in {"map", "array"}
                                 /\ stack[i].count \in Nat /\ stack[i].ptr \in Nat
    BY <1>5
  <2> QED BY <1>7, <2>1, <2>2, Zenon DEF TypeOK
<1> QED BY <1>3, <1>4, <1>6, <1>7, <1>8, <1>9 DEF IInv

(* The typed state in parts. *)
LEMMA Parts ==
  ASSUME IInv
  PROVE  /\ input \in Inputs /\ input.events \in Seq(Callbacks)
         /\ at \in 0..Len(input.events) /\ sync \in 0..Len(out) /\ Len(out) \in Nat
         /\ stack \in Seq(Item) /\ out \in Seq(Tokens) /\ Len(stack) \in Nat
         /\ stage \in {"INIT", "WAIT_NEXT", "PARAMS", "ID", "METHOD"}
         /\ been_stages \subseteq {"PARAMS", "ID", "METHOD"}
         /\ allocated \in 1..(ByteSize - 1) /\ Chunks(allocated)
         /\ batch_mode_on \in BOOLEAN /\ batch_size \in Nat
         /\ Len(stack) <= MAX_STACK_SIZE /\ Len(stack) <= allocated
         /\ status \in {"parsing", "ok", "json", "id", "batch", "stack", "params"}
<1>1. /\ input \in Inputs /\ at \in 0..Len(input.events) /\ sync \in 0..Len(out)
      /\ stack \in Seq(Item) /\ out \in Seq(Tokens)
      /\ stage \in {"INIT", "WAIT_NEXT", "PARAMS", "ID", "METHOD"}
      /\ been_stages \subseteq {"PARAMS", "ID", "METHOD"}
      /\ allocated \in 0..(ByteSize - 1) /\ Chunks(allocated) /\ allocated # 0
      /\ batch_mode_on \in BOOLEAN /\ batch_size \in Nat
      /\ Len(stack) <= MAX_STACK_SIZE /\ Len(stack) <= allocated
      /\ status \in {"parsing", "ok", "json", "id", "batch", "stack", "params"}
  BY Zenon DEF IInv, TypeOK, StackFits
<1>2. input.events \in Seq(Callbacks)
  BY <1>1, InputsAssumption
<1>3. allocated \in 1..(ByteSize - 1)
  BY <1>1, Limits
<1>4. Len(stack) \in Nat /\ Len(out) \in Nat
  BY <1>1
<1> QED BY <1>1, <1>2, <1>3, <1>4, Zenon

(* The items of a typed stack. *)
LEMMA ItemTypes ==
  ASSUME NEW s \in Seq(Item)
  PROVE  \A i \in 1..Len(s) : /\ s[i].type \in {"map", "array"}
                              /\ s[i].count \in Nat /\ s[i].ptr \in Nat
<1> SUFFICES ASSUME NEW i \in 1..Len(s)
             PROVE  s[i].type \in {"map", "array"} /\ s[i].count \in Nat /\ s[i].ptr \in Nat
  OBVIOUS
<1>1. s[i] \in Item
  OBVIOUS
<1> QED BY <1>1 DEF Item

(* A step that pushes nothing. *)
LEMMA Kept ==
  ASSUME IInv, input' = input, at' \in 0..Len(input.events),
         stage' \in {"INIT", "WAIT_NEXT", "PARAMS", "ID", "METHOD"},
         been_stages' \subseteq {"PARAMS", "ID", "METHOD"},
         stack' \in Seq(Item), Len(stack') <= Len(stack), allocated' = allocated,
         batch_mode_on' \in BOOLEAN, batch_size' \in Nat,
         out' \in Seq(Tokens), sync' \in 0..Len(out'),
         status' \in {"parsing", "ok", "json", "id", "batch", "stack", "params"}
  PROVE  IInv'
<1>1. \A i \in 1..Len(stack') : /\ stack'[i].type \in {"map", "array"}
                                /\ stack'[i].count \in Nat
                                /\ stack'[i].ptr \in Nat
  BY ItemTypes
<1>2. Len(stack') \in Nat
  OBVIOUS
<1>3. Len(stack') <= MAX_STACK_SIZE /\ Len(stack') <= allocated
  BY <1>2, Parts, Limits
<1>4. input' \in Inputs /\ allocated' # 0 /\ allocated' \in 0..(ByteSize - 1)
      /\ Chunks(allocated)
  BY Parts, Limits
<1> QED BY <1>1, <1>3, <1>4 DEF IInv, TypeOK, StackFits, Chunks

(* A callback takes one event. *)
LEMMA Taken ==
  ASSUME IInv, NEW e, Callback(e)
  PROVE  /\ input' = input /\ at' \in 0..Len(input.events) /\ status = "parsing"
         /\ Event \in Callbacks /\ Event[1] = e
<1>1. /\ input' = input /\ at < Len(input.events) /\ at' = at + 1 /\ Event[1] = e
      /\ status = "parsing"
  BY DEF Callback
<1>2. at \in Nat /\ Len(input.events) \in Nat /\ at + 1 \in 1..Len(input.events)
  BY <1>1, Parts
<1>3. Event \in Callbacks
  BY <1>2, Parts DEF Event
<1> QED BY <1>1, <1>2, <1>3

(* What is written is longer, and of tokens. *)
LEMMA Written ==
  ASSUME IInv, NEW ts \in Seq(Tokens), out' = out \o ts
  PROVE  out' \in Seq(Tokens) /\ Len(out') = Len(out) + Len(ts)
BY Parts

(* An error leaves everything else as it is. *)
LEMMA Failed ==
  ASSUME IInv, input' = input, at' \in 0..Len(input.events),
         NEW why \in {"id", "batch", "stack", "params"}, Fail(why)
  PROVE  IInv'
<1>1. /\ status' = why
      /\ UNCHANGED <<stage, been_stages, stack, allocated, batch_mode_on, batch_size, out, sync>>
  BY DEF Fail, ctx
<1> QED BY <1>1, Parts, Kept

(* The marks are tokens. *)
LEMMA MarksAreTokens ==
  /\ \A c \in {"func", "TUPLE", "slot", "data", "value", "key"} : <<c>> \in Tokens
  /\ \A c \in {"header", "array", "map"}, n \in Int : <<c, n>> \in Tokens
BY Zenon DEF Tokens, Marks

(* Short sequences of tokens. *)
LEMMA Sequences ==
  /\ <<>> \in Seq(Tokens) /\ Len(<<>>) = 0
  /\ \A a \in Tokens : <<a>> \in Seq(Tokens) /\ Len(<<a>>) = 1
  /\ \A a, b \in Tokens : <<a, b>> \in Seq(Tokens) /\ Len(<<a, b>>) = 2
  /\ \A a, b, c \in Tokens : <<a, b, c>> \in Seq(Tokens) /\ Len(<<a, b, c>>) = 3
OBVIOUS

(* A scalar. *)
LEMMA ScalarIInv == ASSUME IInv, yajl_scalar PROVE IInv'
<1>1. /\ input' = input /\ at' \in 0..Len(input.events)
  BY Taken DEF yajl_scalar
<1>2. UNCHANGED <<stage, been_stages, allocated, batch_mode_on, batch_size, sync, status>>
  BY DEF yajl_scalar
<1>3. CASE stage = "PARAMS"
  <2>1. stack' = stack_grow(stack, "array") /\ out' = out \o << <<"value">> >>
    BY <1>3 DEF yajl_scalar, Write
  <2>2. stack' \in Seq(Item) /\ Len(stack') = Len(stack)
    BY <2>1, Counted, Parts
  <2>3. << <<"value">> >> \in Seq(Tokens) /\ Len(<< <<"value">> >>) = 1
    BY MarksAreTokens, Sequences, Zenon
  <2>4. out' \in Seq(Tokens) /\ Len(out') = Len(out) + 1
    BY <2>1, <2>3, Written
  <2> QED BY <1>1, <1>2, <2>2, <2>4, Parts, Kept
<1>4. CASE stage # "PARAMS"
  <2>1. stack' = stack /\ out' = out
    BY <1>4 DEF yajl_scalar
  <2> QED BY <1>1, <1>2, <2>1, Parts, Kept
<1> QED BY <1>3, <1>4

(* A token is put into the place of another one, if there is one. *)
LEMMA Overwritten ==
  ASSUME NEW o \in Seq(Tokens), NEW i, NEW t \in Tokens
  PROVE  [o EXCEPT ![i] = t] \in Seq(Tokens) /\ Len([o EXCEPT ![i] = t]) = Len(o)
<1>1. CASE i \in 1..Len(o)
  BY <1>1
<1>2. CASE i \notin 1..Len(o)
  <2>1. [o EXCEPT ![i] = t] = o
    BY <1>2
  <2> QED BY <2>1
<1> QED BY <1>1, <1>2

(* An integer comes with its value. *)
LEMMA IntegersAreInt ==
  ASSUME NEW ev \in Callbacks, ev[1] = "integer" PROVE ev[2] \in Int
BY DEF Callbacks

(* The lower bits of an id; those of an unsigned one that fits are it.     *)
LEMMA CutIsNumber ==
  ASSUME NEW v \in Int
  PROVE  /\ v % (UINT32_MAX + 1) \in Int
         /\ v >= 0 /\ v <= UINT32_MAX => v % (UINT32_MAX + 1) = v
<1> DEFINE m == UINT32_MAX + 1
<1>1. m \in Nat \ {0} /\ (v <= UINT32_MAX => v < m)
  BY Limits
<1> HIDE DEF m
<1>2. v % m \in Int
  BY <1>1
<1>3. v >= 0 /\ v < m => v % m = v
  BY <1>1
<1> QED BY <1>1, <1>2, <1>3 DEF m

(* An integer: an id too large is an error, another one is put into the    *)
(* header of the call.                                                     *)
LEMMA IntegerIInv == ASSUME IInv, yajl_integer PROVE IInv'
<1>1. /\ input' = input /\ at' \in 0..Len(input.events)
      /\ Event \in Callbacks /\ Event[1] = "integer"
  BY Taken DEF yajl_integer
<1>2. CASE stage = "ID" /\ ~IdOk(Event[2])
  BY <1>1, <1>2, Failed DEF yajl_integer
<1>3. CASE ~(stage = "ID" /\ ~IdOk(Event[2]))
  <2>1. /\ stack' = IF stage = "PARAMS" THEN stack_grow(stack, "array") ELSE stack
        /\ out' = CASE stage = "PARAMS" -> Append(out, <<"value">>)
                    [] stage = "ID" -> tp_reqid(Event[2])
                    [] OTHER -> out
        /\ stage' = IF stage = "ID" THEN "WAIT_NEXT" ELSE stage
        /\ been_stages' = IF stage = "ID" THEN been_stages \cup {"ID"} ELSE been_stages
        /\ UNCHANGED <<allocated, batch_mode_on, batch_size, sync, status>>
    BY <1>3 DEF yajl_integer
  <2>2. stack' \in Seq(Item) /\ Len(stack') = Len(stack)
    BY <2>1, Counted, Parts
  <2>3. out' \in Seq(Tokens) /\ Len(out') \in Nat /\ Len(out') >= Len(out)
    <3>1. CASE stage = "PARAMS"
      <4>1. out' = Append(out, <<"value">>)
        BY <2>1, <3>1
      <4>2. <<"value">> \in Tokens
        BY MarksAreTokens
      <4> QED BY <4>1, <4>2, Parts
    <3>2. CASE stage = "ID"
      <4> DEFINE cut == Event[2] % (UINT32_MAX + 1)
      <4>1. out' = [out EXCEPT ![sync] = <<"header", cut>>]
        BY <2>1, <3>2 DEF tp_reqid
      <4>2. <<"header", cut>> \in Tokens
        <5>1. Event[2] \in Int
          BY <1>1, IntegersAreInt
        <5>2. cut \in Int
          BY <5>1, CutIsNumber
        <5> HIDE DEF cut
        <5> QED BY <5>2, MarksAreTokens
      <4> HIDE DEF cut
      <4>3. out' \in Seq(Tokens) /\ Len(out') = Len(out)
        BY <4>1, <4>2, Overwritten, Parts, Zenon
      <4> QED BY <4>3, Parts
    <3>3. CASE stage # "PARAMS" /\ stage # "ID"
      BY <2>1, <3>3, Parts
    <3> QED BY <3>1, <3>2, <3>3
  <2>4. sync' \in 0..Len(out')
    BY <2>1, <2>3, Parts
  <2>5. /\ stage' \in {"INIT", "WAIT_NEXT", "PARAMS", "ID", "METHOD"}
        /\ been_stages' \subseteq {"PARAMS", "ID", "METHOD"}
    BY <2>1, Parts
  <2> QED BY <1>1, <2>1, <2>2, <2>3, <2>4, <2>5, Parts, Kept
<1> QED BY <1>2, <1>3

(* A string. *)
LEMMA StringIInv == ASSUME IInv, yajl_string PROVE IInv'
<1>1. /\ input' = input /\ at' \in 0..Len(input.events)
  BY Taken DEF yajl_string
<1>2. /\ stack' = IF stage = "PARAMS" THEN stack_grow(stack, "array") ELSE stack
      /\ \E t \in {<<"value">>, <<"func">>} : out' = out \/ out' = Append(out, t)
      /\ stage' = IF stage = "PARAMS" THEN stage ELSE "WAIT_NEXT"
      /\ \/ been_stages' = been_stages \cup {"METHOD"}
         \/ been_stages' = been_stages
      /\ UNCHANGED <<allocated, batch_mode_on, batch_size, sync, status>>
  BY DEF yajl_string
<1>3. stack' \in Seq(Item) /\ Len(stack') = Len(stack)
  BY <1>2, Counted, Parts
<1>4. out' = out \/ \E t \in Tokens : out' = Append(out, t)
  BY <1>2, MarksAreTokens, Zenon
<1>5. out' \in Seq(Tokens) /\ Len(out') \in Nat /\ Len(out') >= Len(out)
  <2>1. CASE out' = out
    BY <2>1, Parts
  <2>2. ASSUME NEW t \in Tokens, out' = Append(out, t)
        PROVE  out' \in Seq(Tokens) /\ Len(out') \in Nat /\ Len(out') >= Len(out)
    BY <2>2, Parts
  <2> QED BY <1>4, <2>1, <2>2
<1>6. sync' \in 0..Len(out')
  BY <1>2, <1>5, Parts
<1>7. /\ stage' \in {"INIT", "WAIT_NEXT", "PARAMS", "ID", "METHOD"}
      /\ been_stages' \subseteq {"PARAMS", "ID", "METHOD"}
  BY <1>2, Parts
<1> QED BY <1>1, <1>2, <1>3, <1>5, <1>6, <1>7, Parts, Kept

(* The first key of a call writes its header, and the method if preset. *)
LEMMA StartIsTokens == MessageStart \in Seq(Tokens) /\ (stage = "INIT" => Len(MessageStart) >= 1)
<1>1. <<"header", 0>> \in Tokens /\ <<"func">> \in Tokens
  BY MarksAreTokens
<1> DEFINE h == <<"header", 0>>
           f == <<"func">>
<1>2. \/ MessageStart = <<>> /\ stage # "INIT"
      \/ MessageStart = <<h>> \o <<>>
      \/ MessageStart = <<h>> \o <<f>>
  <2>1. CASE stage # "INIT"
    BY <2>1 DEF MessageStart
  <2>2. CASE stage = "INIT" /\ read_method
    BY <2>2 DEF MessageStart
  <2>3. CASE stage = "INIT" /\ ~read_method
    BY <2>3 DEF MessageStart
  <2> QED BY <2>1, <2>2, <2>3
<1>3. h \in Tokens /\ f \in Tokens
  BY <1>1
<1> HIDE DEF h, f
<1>4. /\ <<h>> \o <<>> \in Seq(Tokens) /\ Len(<<h>> \o <<>>) >= 1
      /\ <<h>> \o <<f>> \in Seq(Tokens) /\ Len(<<h>> \o <<f>>) >= 1
      /\ <<>> \in Seq(Tokens)
  BY <1>3
<1> QED BY <1>2, <1>4, Zenon

(* A key: one call too many is an error, the first key of a call starts    *)
(* its message.                                                            *)
LEMMA MapKeyIInv == ASSUME IInv, yajl_map_key PROVE IInv'
<1>1. input' = input /\ at' \in 0..Len(input.events)
  BY Taken DEF yajl_map_key
<1>2. CASE stage = "INIT" /\ TooManyCalls
  BY <1>1, <1>2, Failed DEF yajl_map_key
<1>3. CASE ~(stage = "INIT" /\ TooManyCalls)
  <2> DEFINE ts == CASE stage = "PARAMS" -> << <<"key">> >>
                     [] stage \in {"INIT", "WAIT_NEXT"} /\ Event[2] = "params" -> << <<"TUPLE">> >>
                     [] OTHER -> <<>>
  <2>1. /\ stage' = CASE stage = "PARAMS" -> "PARAMS"
                      [] stage \in {"INIT", "WAIT_NEXT"} -> KeyStage(Event[2])
                      [] OTHER -> "WAIT_NEXT"
        /\ out' = out \o (MessageStart \o ts)
        /\ stack' = IF stage = "PARAMS" THEN stack_grow(stack, "map") ELSE stack
        /\ sync' = IF stage = "INIT" THEN Len(out) + 1 ELSE sync
        /\ batch_size' = CallCount
        /\ UNCHANGED <<been_stages, allocated, batch_mode_on, status>>
    BY <1>3 DEF yajl_map_key, Write
  <2>2. stack' \in Seq(Item) /\ Len(stack') = Len(stack)
    BY <2>1, Counted, Parts
  <2>3. stage' \in {"INIT", "WAIT_NEXT", "PARAMS", "ID", "METHOD"}
    BY <2>1 DEF KeyStage
  <2>4. batch_size' \in Nat
    BY <2>1, Parts DEF CallCount
  <2>5. ts \in Seq(Tokens)
    <3>1. << <<"key">> >> \in Seq(Tokens) /\ << <<"TUPLE">> >> \in Seq(Tokens)
          /\ <<>> \in Seq(Tokens)
      BY MarksAreTokens, Sequences, Zenon
    <3> QED BY <3>1
  <2> HIDE DEF ts
  <2>6. /\ MessageStart \o ts \in Seq(Tokens) /\ Len(MessageStart \o ts) \in Nat
        /\ stage = "INIT" => Len(MessageStart \o ts) >= 1
    BY <2>5, StartIsTokens
  <2>7. out' \in Seq(Tokens) /\ Len(out') = Len(out) + Len(MessageStart \o ts)
    BY <2>1, <2>6, Written
  <2>8. sync' \in 0..Len(out')
    BY <2>1, <2>6, <2>7, Parts
  <2> QED BY <1>1, <2>1, <2>2, <2>3, <2>4, <2>7, <2>8, Parts, Kept
<1> QED BY <1>2, <1>3

(* A map or an array that opens is pushed, in room that was allocated. *)
LEMMA OpenIInv ==
  ASSUME IInv, input' = input, at' \in 0..Len(input.events),
         NEW type \in {"map", "array"}, Open(type)
  PROVE  IInv'
<1> DEFINE s == stack_grow(stack, "array")
<1>1. s \in Seq(Item) /\ Len(s) = Len(stack)
  BY Counted, Parts
<1>2. CASE ~CanPush(s)
  BY <1>2, Failed DEF Open
<1>3. CASE CanPush(s)
  <2> DEFINE item == [ptr |-> Len(out) + 1, count |-> 0, type |-> type]
  <2>1. /\ stack' = Append(s, item) /\ allocated' = NewAllocated(s)
        /\ UNCHANGED <<stage, been_stages, batch_mode_on, batch_size, sync, status>>
    BY <1>3 DEF Open, Pushed
  <2>2. \/ out' = out \o <<>> \/ out' = out \o << <<"slot">> >>
        \/ out' = out \o << <<"slot">>, <<"data">> >>
    BY <1>3 DEF Open, Write
  <2>3. item \in Item
    BY Parts DEF Item
  <2> HIDE DEF item, s
  <2>4. /\ NewAllocated(s) \in 1..(ByteSize - 1) /\ Chunks(NewAllocated(s))
        /\ Len(s) + 1 <= NewAllocated(s) /\ Len(s) + 1 <= MAX_STACK_SIZE
    BY <1>1, <1>3, Grown, Parts
  <2>5. stack' \in Seq(Item) /\ Len(stack') = Len(s) + 1
    BY <1>1, <2>1, <2>3
  <2>6. \E ts \in Seq(Tokens) : out' = out \o ts
    <3>1. /\ << <<"slot">> >> \in Seq(Tokens) /\ << <<"slot">>, <<"data">> >> \in Seq(Tokens)
          /\ <<>> \in Seq(Tokens)
      BY MarksAreTokens, Sequences, Zenon
    <3> QED BY <2>2, <3>1, Zenon
  <2>7. out' \in Seq(Tokens) /\ Len(out') \in Nat /\ Len(out') >= Len(out)
    BY <2>6, Written, Parts
  <2>8. sync' \in 0..Len(out')
    BY <2>1, <2>7, Parts
  <2>9. StackFits'
    BY <2>1, <2>4, <2>5 DEF StackFits
  <2>10. TypeOK'
    <3>1. allocated' \in 0..(ByteSize - 1)
      BY <2>1, <2>4, Limits
    <3>2. \A i \in 1..Len(stack') : /\ stack'[i].type \in {"map", "array"}
                                    /\ stack'[i].count \in Nat /\ stack'[i].ptr \in Nat
      BY <2>5, ItemTypes
    <3> QED BY <2>1, <2>8, <3>1, <3>2, Parts, Zenon DEF TypeOK
  <2> QED BY <2>1, <2>4, <2>5, <2>7, <2>9, <2>10, Parts DEF IInv, Chunks
<1> QED BY <1>2, <1>3

(* What is popped was there. *)
LEMMA Shorter ==
  ASSUME NEW s \in Seq(Item), s # <<>>
  PROVE  Popped(s) \in Seq(Item) /\ Len(Popped(s)) <= Len(s)
BY DEF Popped

(* A map that closes: what it was pushed for is replaced by its header. *)
LEMMA EndMapIInv == ASSUME IInv, yajl_end_map PROVE IInv'
<1>1. input' = input /\ at' \in 0..Len(input.events)
  BY Taken DEF yajl_end_map
<1>2. UNCHANGED <<allocated, batch_mode_on, batch_size, sync>>
  BY DEF yajl_end_map
<1> DEFINE n == Len(stack)
           item == stack[n]
<1>3. CASE n = 1
  <2>1. /\ stack' = <<>> /\ stage' = "INIT" /\ been_stages' = {} /\ status' = status
        /\ out' = out \o (IF "PARAMS" \in been_stages THEN <<>> ELSE EmptyParams)
    BY <1>3 DEF yajl_end_map, Write
  <2>2. EmptyParams \in Seq(Tokens)
    <3>1. /\ <<"TUPLE">> \in Tokens /\ <<"data">> \in Tokens
          /\ <<"array", 0>> \in Tokens /\ <<"array", 1>> \in Tokens
      BY MarksAreTokens
    <3>2. /\ << <<"TUPLE">>, <<"array", 0>> >> \in Seq(Tokens)
          /\ << <<"TUPLE">>, <<"array", 1>>, <<"data">> >> \in Seq(Tokens)
      BY <3>1, Sequences, Zenon
    <3> QED BY <3>2, Zenon DEF EmptyParams
  <2>3. \E ts \in Seq(Tokens) : out' = out \o ts
    <3>1. <<>> \in Seq(Tokens)
      OBVIOUS
    <3> QED BY <2>1, <2>2, <3>1, Zenon
  <2>4. out' \in Seq(Tokens) /\ Len(out') \in Nat /\ Len(out') >= Len(out)
    BY <2>3, Written, Parts
  <2>5. sync' \in 0..Len(out')
    BY <1>2, <2>4, Parts
  <2>6. stack' \in Seq(Item) /\ Len(stack') <= Len(stack)
    BY <1>3, <2>1
  <2>7. stage' \in {"INIT", "WAIT_NEXT", "PARAMS", "ID", "METHOD"}
        /\ been_stages' \subseteq {"PARAMS", "ID", "METHOD"}
    BY <2>1
  <2> QED BY <1>1, <1>2, <2>1, <2>4, <2>5, <2>6, <2>7, Parts, Kept
<1>4. CASE n > 1 /\ stage # "PARAMS"
  <2>1. stack' = Popped(stack) /\ UNCHANGED <<stage, been_stages, out, status>>
    BY <1>4 DEF yajl_end_map
  <2>2. stack' \in Seq(Item) /\ Len(stack') <= Len(stack)
    BY <1>4, <2>1, Shorter, Parts
  <2> QED BY <1>1, <1>2, <2>1, <2>2, Parts, Kept
<1>5. CASE n > 2 /\ stage = "PARAMS"
  <2>1. /\ stack' = Popped(stack) /\ UNCHANGED <<stage, been_stages, status>>
        /\ out' = [out EXCEPT ![item.ptr] = <<"map", item.count>>]
    BY <1>5 DEF yajl_end_map
  <2>2. stack' \in Seq(Item) /\ Len(stack') <= Len(stack)
    BY <1>5, <2>1, Shorter, Parts
  <2>3. <<"map", item.count>> \in Tokens
    <3>1. item.count \in Int
      BY <1>5, Parts, ItemTypes
    <3> HIDE DEF item
    <3> QED BY <3>1, MarksAreTokens
  <2>4. out' \in Seq(Tokens) /\ Len(out') = Len(out)
    BY <2>1, <2>3, Overwritten, Parts, Zenon
  <2>5. sync' \in 0..Len(out')
    BY <1>2, <2>4, Parts
  <2> QED BY <1>1, <1>2, <2>1, <2>2, <2>4, <2>5, Parts, Kept
<1>6. CASE ~(n = 1) /\ ~(n > 1 /\ stage # "PARAMS") /\ ~(n > 2 /\ stage = "PARAMS")
  <2>1. status' = "params" /\ UNCHANGED <<stack, stage, been_stages, out>>
    BY <1>6 DEF yajl_end_map
  <2> QED BY <1>1, <1>2, <2>1, Parts, Kept
<1> QED BY <1>3, <1>4, <1>5, <1>6

(* So does an array; the params array takes the bound data in its count. *)
LEMMA EndArrayIInv == ASSUME IInv, yajl_end_array PROVE IInv'
<1>1. input' = input /\ at' \in 0..Len(input.events)
  BY Taken DEF yajl_end_array
<1>2. UNCHANGED <<allocated, batch_mode_on, batch_size, sync>>
  BY DEF yajl_end_array
<1> DEFINE n == Len(stack)
           item == stack[n]
<1>3. CASE stage # "PARAMS"
  <2>1. /\ stack' = (IF n = 0 THEN stack ELSE Popped(stack))
        /\ UNCHANGED <<stage, been_stages, out, status>>
    BY <1>3 DEF yajl_end_array
  <2>2. stack' \in Seq(Item) /\ Len(stack') <= Len(stack)
    BY <2>1, Shorter, Parts
  <2> QED BY <1>1, <1>2, <2>1, <2>2, Parts, Kept
<1>4. CASE stage = "PARAMS" /\ n > 0
  <2>1. /\ stack' = Popped(stack) /\ status' = status
        /\ out' = [out EXCEPT ![item.ptr] = <<"array", ItemCount(n, item)>>]
        /\ stage' = IF n = 2 THEN "WAIT_NEXT" ELSE stage
        /\ been_stages' = IF n = 2 THEN been_stages \cup {"PARAMS"} ELSE been_stages
    BY <1>4 DEF yajl_end_array
  <2>2. stack' \in Seq(Item) /\ Len(stack') <= Len(stack)
    BY <1>4, <2>1, Shorter, Parts
  <2>3. <<"array", ItemCount(n, item)>> \in Tokens
    <3>1. item.count \in Int
      BY <1>4, Parts, ItemTypes
    <3> HIDE DEF item
    <3>2. ItemCount(n, item) \in Int
      BY <3>1 DEF ItemCount
    <3> QED BY <3>2, MarksAreTokens
  <2>4. out' \in Seq(Tokens) /\ Len(out') = Len(out)
    BY <2>1, <2>3, Overwritten, Parts, Zenon
  <2>5. sync' \in 0..Len(out')
    BY <1>2, <2>4, Parts
  <2>6. stage' \in {"INIT", "WAIT_NEXT", "PARAMS", "ID", "METHOD"}
        /\ been_stages' \subseteq {"PARAMS", "ID", "METHOD"}
    BY <2>1, Parts
  <2> QED BY <1>1, <1>2, <2>1, <2>2, <2>4, <2>5, <2>6, Parts, Kept
<1>5. CASE stage = "PARAMS" /\ ~(n > 0)
  <2>1. status' = "params" /\ UNCHANGED <<stack, stage, been_stages, out>>
    BY <1>5 DEF yajl_end_array
  <2> QED BY <1>1, <1>2, <2>1, Parts, Kept
<1> QED BY <1>3, <1>4, <1>5

(* Every step keeps the types, and the stack within its memory. *)
LEMMA NextIInv == IInv /\ [Next]_vars => IInv'
<1> SUFFICES ASSUME IInv, [Next]_vars PROVE IInv'
  OBVIOUS
<1>1. CASE yajl_scalar
  BY <1>1, ScalarIInv
<1>2. CASE yajl_integer
  BY <1>2, IntegerIInv
<1>3. CASE yajl_string
  BY <1>3, StringIInv
<1>4. CASE yajl_map_key
  BY <1>4, MapKeyIInv
<1>5. CASE yajl_start_map
  BY <1>5, Taken, OpenIInv DEF yajl_start_map
<1>6. CASE yajl_end_map
  BY <1>6, EndMapIInv
<1>7. CASE yajl_start_array
  <2>1. input' = input /\ at' \in 0..Len(input.events)
    BY <1>7, Taken DEF yajl_start_array
  <2>2. CASE stage = "INIT"
    <3>1. /\ batch_mode_on' = TRUE
          /\ UNCHANGED <<stage, been_stages, stack, allocated, batch_size, out, sync, status>>
      BY <1>7, <2>2 DEF yajl_start_array
    <3> QED BY <2>1, <3>1, Parts, Kept
  <2>3. CASE stage # "INIT"
    BY <1>7, <2>1, <2>3, OpenIInv DEF yajl_start_array
  <2> QED BY <2>2, <2>3
<1>8. CASE yajl_end_array
  BY <1>8, EndArrayIInv
<1>9. CASE RefuseEmpty \/ ParseError \/ Complete
  <2>1. /\ UNCHANGED <<input, at, stage, been_stages, stack, allocated, batch_mode_on,
                       batch_size, out, sync>>
        /\ status' \in {"json", "ok", "params"}
    BY <1>9 DEF RefuseEmpty, ParseError, Complete, ctx
  <2> QED BY <2>1, Parts, Kept
<1>10. CASE UNCHANGED vars
  <2>1. UNCHANGED <<input, at, stage, been_stages, stack, allocated, batch_mode_on,
                    batch_size, out, sync, status>>
    BY <1>10 DEF vars, ctx
  <2> QED BY <2>1, Parts, Kept
<1> QED BY <1>1, <1>2, <1>3, <1>4, <1>5, <1>6, <1>7, <1>8, <1>9, <1>10 DEF Next

(* However many maps and arrays a body opens, and whether it is well       *)
(* formed or not, no item of the stack is written where no memory was      *)
(* allocated, and the counter of the memory, which is too narrow for the   *)
(* limits, never is left wrapped.                                          *)
THEOREM StackNeverOverruns == Spec => []StackFits
<1>1. IInv => StackFits
  BY DEF IInv
<1> QED BY <1>1, InitIInv, NextIInv, PTL DEF Spec

(* The codec keeps the types of what it keeps. *)
THEOREM CodecTypes == Spec => []TypeOK
<1>1. IInv => TypeOK
  BY DEF IInv
<1> QED BY <1>1, InitIInv, NextIInv, PTL DEF Spec

-----------------------------------------------------------------------------
(* Where the codec is in the body *)

(* What the documents of the runs are seen to be: the bodies of requests,  *)
(* but for those that are refused before they are parsed.                  *)
OnlyBodies == \A in \in Inputs : in.compact \/ IsBody(in.events)

Change(e) ==
  IF e \in {"start_map", "start_array"} THEN 1
  ELSE IF e \in {"end_map", "end_array"} THEN -1 ELSE 0

(* Nothing is open at first, and each callback opens or closes one level.  *)
LEMMA NestingSteps ==
  ASSUME NEW ev \in Seq(Callbacks)
  PROVE  /\ Nesting(ev, 0) = 0
         /\ \A n \in Nat : Nesting(ev, n) \in Int
         /\ \A n \in 0..(Len(ev) - 1) :
              Nesting(ev, n + 1) = Nesting(ev, n) + Change(ev[n + 1][1])
<1> DEFINE O == Openings(ev)
           C == Closings(ev)
<1>1. O \in SUBSET (Nat \ {0}) /\ C \in SUBSET (Nat \ {0})
  BY DEF Openings, Closings
<1>2. \A n \in 0..(Len(ev) - 1) :
        /\ n + 1 \in O <=> ev[n + 1][1] \in {"start_map", "start_array"}
        /\ n + 1 \in C <=> ev[n + 1][1] \in {"end_map", "end_array"}
  BY DEF Openings, Closings
<1>3. \A n : Nesting(ev, n) = Place(n, O) - Place(n, C)
  BY DEF Nesting
<1> HIDE DEF O, C
<1>4. \A n \in Nat : Place(n, O) \in Nat /\ Place(n, C) \in Nat
  BY <1>1, PlaceType
<1>5. Place(0, O) = 0 /\ Place(0, C) = 0
  BY <1>1, PlaceZero
<1>6. ASSUME NEW n \in 0..(Len(ev) - 1)
      PROVE  Nesting(ev, n + 1) = Nesting(ev, n) + Change(ev[n + 1][1])
  <2>1. n \in Nat
    OBVIOUS
  <2>2. /\ Place(n + 1, O) = IF n + 1 \in O THEN Place(n, O) + 1 ELSE Place(n, O)
        /\ Place(n + 1, C) = IF n + 1 \in C THEN Place(n, C) + 1 ELSE Place(n, C)
    BY <1>1, <2>1, PlaceNext
  <2>3. Place(n, O) \in Nat /\ Place(n, C) \in Nat
    BY <1>4, <2>1
  <2> QED BY <1>2, <1>3, <2>2, <2>3 DEF Change
<1>7. \A n \in Nat : Nesting(ev, n) \in Int
  BY <1>3, <1>4
<1> QED BY <1>3, <1>5, <1>6, <1>7

(* What a callback of a body finds open and leaves open. *)
InBody(ev, n) ==
  LET e == ev[n + 1][1]
      open == Nesting(ev, n)
      next == Nesting(ev, n + 1)
  IN  /\ open \in Nat /\ next \in Nat /\ next = open + Change(e)
      /\ (open = 0) <=> (n = 0)
      /\ n = 0 => e = IF Level(ev) = 1 THEN "start_array" ELSE "start_map"
      /\ open = Level(ev) => e \in {"start_map", "end_array"}
      /\ next = Level(ev) /\ e \in {"end_map", "end_array"} => e = "end_map"
      /\ n \in CallStarts(ev) => e = "map_key" /\ open = Level(ev) + 1
      /\ (n + 1 \in CallStarts(ev)) <=> (e = "start_map" /\ open = Level(ev))

(* That is so of each callback. *)
LEMMA BodySteps ==
  ASSUME NEW ev \in Seq(Callbacks), IsBody(ev), NEW n \in 0..(Len(ev) - 1)
  PROVE  Level(ev) \in {0, 1} /\ InBody(ev, n)
<1> DEFINE e == ev[n + 1][1]
           open == Nesting(ev, n)
           next == Nesting(ev, n + 1)
           L == Level(ev)
<1>1. L \in {0, 1} /\ (L = 1 <=> ev[1][1] = "start_array")
  BY DEF Level
<1>2. n \in Nat /\ n + 1 \in 1..Len(ev) /\ n + 1 - 1 = n /\ 1..Len(ev) = DOMAIN ev
  OBVIOUS
<1>3. /\ ev[1][1] \in {"start_map", "start_array"}
      /\ IF n + 1 = Len(ev) THEN next = 0 ELSE next > 0
      /\ open = L => e \in {"start_map", "end_array"}
      /\ next = L /\ e \in {"end_map", "end_array"} => e = "end_map"
      /\ n \in CallStarts(ev) => e = "map_key"
  <2>1. n + 1 \in Closings(ev) <=> e \in {"end_map", "end_array"}
    BY <1>2 DEF Closings
  <2> QED BY <1>2, <2>1 DEF IsBody
<1>4. n # 0 => open > 0
  <2>1. n # 0 => n \in DOMAIN ev /\ n # Len(ev)
    OBVIOUS
  <2> QED BY <2>1 DEF IsBody
<1>5. open \in Int /\ next \in Int /\ Nesting(ev, 0) = 0 /\ next = open + Change(e)
  BY <1>2, NestingSteps
<1>6. (n + 1 \in CallStarts(ev)) <=> (e = "start_map" /\ open = L)
  BY <1>2 DEF CallStarts
<1>7. n \in CallStarts(ev) => open = L + 1
  <2> SUFFICES ASSUME n \in CallStarts(ev) PROVE open = L + 1
    OBVIOUS
  <2>1. n \in DOMAIN ev /\ ev[n][1] = "start_map" /\ Nesting(ev, n - 1) = L
    BY DEF CallStarts
  <2>2. n - 1 \in 0..(Len(ev) - 1) /\ n - 1 + 1 = n
    BY <2>1
  <2>3. open = Nesting(ev, n - 1) + Change(ev[n][1])
    BY <2>2, NestingSteps
  <2> QED BY <1>1, <2>1, <2>3 DEF Change
<1>8. n = 0 => e = IF L = 1 THEN "start_array" ELSE "start_map"
  BY <1>1, <1>3
<1>9. /\ open \in Nat /\ next \in Nat
      /\ (open = 0) <=> (n = 0)
  BY <1>2, <1>3, <1>4, <1>5
<1> HIDE DEF e, open, next, L
<1>10. /\ open \in Nat /\ next \in Nat /\ next = open + Change(e)
       /\ (open = 0) <=> (n = 0)
       /\ n = 0 => e = IF L = 1 THEN "start_array" ELSE "start_map"
       /\ open = L => e \in {"start_map", "end_array"}
       /\ next = L /\ e \in {"end_map", "end_array"} => e = "end_map"
       /\ n \in CallStarts(ev) => e = "map_key" /\ open = L + 1
       /\ (n + 1 \in CallStarts(ev)) <=> (e = "start_map" /\ open = L)
  BY <1>3, <1>5, <1>6, <1>7, <1>8, <1>9, Zenon
<1> QED BY <1>1, <1>10, Zenon DEF InBody, e, open, next, L

(* The calls that have begun after n callbacks: their first key was seen.  *)
Begun(ev, n) ==
  IF n \in CallStarts(ev) THEN Place(n, CallStarts(ev)) - 1 ELSE Place(n, CallStarts(ev))

(* A call has begun when the callback after that of its map was made.      *)
LEMMA BegunSteps ==
  ASSUME NEW ev \in Seq(Callbacks)
  PROVE  /\ Begun(ev, 0) = 0
         /\ \A n \in Nat :
              /\ Begun(ev, n) \in Int
              /\ \/ n \in CallStarts(ev) /\ n + 1 \in CallStarts(ev)
                 \/ Begun(ev, n + 1) =
                      IF n \in CallStarts(ev) THEN Begun(ev, n) + 1 ELSE Begun(ev, n)
<1> DEFINE T == CallStarts(ev)
<1>1. T \in SUBSET (Nat \ {0})
  BY DEF CallStarts
<1>2. \A n : Begun(ev, n) = IF n \in T THEN Place(n, T) - 1 ELSE Place(n, T)
  BY DEF Begun
<1> HIDE DEF T
<1>3. Place(0, T) = 0 /\ 0 \notin T
  BY <1>1, PlaceZero
<1>4. \A n \in Nat : Place(n, T) \in Nat
  BY <1>1, PlaceType
<1>5. \A n \in Nat : Place(n + 1, T) = IF n + 1 \in T THEN Place(n, T) + 1 ELSE Place(n, T)
  BY <1>1, PlaceNext
<1>6. ASSUME NEW n \in Nat
      PROVE  /\ Begun(ev, n) \in Int
             /\ \/ n \in T /\ n + 1 \in T
                \/ Begun(ev, n + 1) = IF n \in T THEN Begun(ev, n) + 1 ELSE Begun(ev, n)
  <2>1. Place(n, T) \in Nat /\ Place(n + 1, T) \in Nat
        /\ Place(n + 1, T) = IF n + 1 \in T THEN Place(n, T) + 1 ELSE Place(n, T)
    <3>1. n + 1 \in Nat
      OBVIOUS
    <3> QED BY <1>4, <1>5, <3>1, Zenon
  <2>2. /\ Begun(ev, n) = IF n \in T THEN Place(n, T) - 1 ELSE Place(n, T)
        /\ Begun(ev, n + 1) = IF n + 1 \in T THEN Place(n + 1, T) - 1 ELSE Place(n + 1, T)
    BY <1>2
  <2> QED BY <2>1, <2>2
<1> QED BY <1>2, <1>3, <1>6, Zenon DEF T

(* Where the codec is after n callbacks: the stack holds what is open,     *)
(* but for the array of the batch; between two calls, and at the map of a  *)
(* call that has just opened, it is at the beginning of a call; it counted *)
(* the calls that have begun.                                              *)
Placed(ev, n, on, len, been, stg, size) ==
  LET open == Nesting(ev, n)
  IN  /\ (on = TRUE) <=> (n > 0 /\ Level(ev) = 1)
      /\ len = IF open = 0 THEN 0 ELSE open - Level(ev)
      /\ len = 0 => been = {}
      /\ (stg = "INIT") <=> (len = 0 \/ n \in CallStarts(ev))
      /\ size = Begun(ev, n)

(* The code is at the beginning of a call where the body is, and no value  *)
(* is there.                                                               *)
LEMMA AtBeginning ==
  ASSUME NEW ev \in Seq(Callbacks), IsBody(ev), NEW n \in 0..(Len(ev) - 1),
         NEW on, NEW len \in Nat, NEW been, NEW stg, NEW size,
         Placed(ev, n, on, len, been, stg, size)
  PROVE  /\ stg # "INIT" => len > 0 /\ n \notin CallStarts(ev)
         /\ stg = "INIT" /\ len > 0 => ev[n + 1][1] = "map_key" /\ n \in CallStarts(ev)
         /\ len = 0 =>
              /\ n \notin CallStarts(ev) /\ stg = "INIT"
              /\ \/ ev[n + 1][1] = "start_map" /\ Nesting(ev, n) = Level(ev)
                 \/ ev[n + 1][1] = "start_array" /\ n = 0 /\ Level(ev) = 1
                 \/ ev[n + 1][1] = "end_array" /\ Nesting(ev, n) = 1 /\ Level(ev) = 1
<1>1. Level(ev) \in {0, 1} /\ InBody(ev, n)
  BY BodySteps
<1>2. n \in Nat
  OBVIOUS
<1> QED BY <1>1, <1>2 DEF Placed, InBody, Change

(* The counting, at a call's map and elsewhere. *)
LEMMA BegunOnce ==
  ASSUME NEW ev \in Seq(Callbacks), IsBody(ev), NEW n \in 0..(Len(ev) - 1)
  PROVE  /\ Begun(ev, n) \in Int
         /\ Begun(ev, n + 1) = IF n \in CallStarts(ev) THEN Begun(ev, n) + 1 ELSE Begun(ev, n)
<1>1. InBody(ev, n) /\ n \in Nat
  BY BodySteps
<1>2. ~(n \in CallStarts(ev) /\ n + 1 \in CallStarts(ev))
  BY <1>1 DEF InBody
<1> QED BY <1>1, <1>2, BegunSteps, Zenon

(* A value or a key within a call. *)
LEMMA PlacedWithin ==
  ASSUME NEW ev \in Seq(Callbacks), IsBody(ev), NEW n \in 0..(Len(ev) - 1),
         NEW on, NEW len \in Nat, NEW been, NEW stg, NEW size,
         Placed(ev, n, on, len, been, stg, size),
         ev[n + 1][1] \in {"scalar", "integer", "string", "map_key"}, stg # "INIT",
         NEW been2, NEW stg2, stg2 # "INIT"
  PROVE  Placed(ev, n + 1, on, len, been2, stg2, size)
<1>1. Level(ev) \in {0, 1} /\ InBody(ev, n) /\ n \in Nat
  BY BodySteps
<1>2. len > 0 /\ n \notin CallStarts(ev)
  BY AtBeginning
<1>3. Begun(ev, n + 1) = Begun(ev, n)
  BY <1>2, BegunOnce
<1>4. n > 0
  BY <1>1, <1>2 DEF Placed, InBody
<1> QED BY <1>1, <1>2, <1>3, <1>4 DEF Placed, InBody, Change

(* The first key of a call. *)
LEMMA PlacedFirstKey ==
  ASSUME NEW ev \in Seq(Callbacks), IsBody(ev), NEW n \in 0..(Len(ev) - 1),
         NEW on, NEW len \in Nat, NEW been, NEW stg, NEW size,
         Placed(ev, n, on, len, been, stg, size),
         ev[n + 1][1] = "map_key", stg = "INIT", NEW been2, NEW stg2, stg2 # "INIT"
  PROVE  n \in CallStarts(ev) /\ Placed(ev, n + 1, on, len, been2, stg2, size + 1)
<1>1. Level(ev) \in {0, 1} /\ InBody(ev, n) /\ n \in Nat
  BY BodySteps
<1>2. len > 0 /\ n \in CallStarts(ev)
  BY AtBeginning
<1>3. Begun(ev, n + 1) = Begun(ev, n) + 1
  BY <1>2, BegunOnce
<1>4. n > 0
  BY <1>1, <1>2 DEF Placed, InBody
<1> QED BY <1>1, <1>2, <1>3, <1>4 DEF Placed, InBody, Change

(* The array of a batch. *)
LEMMA PlacedBatch ==
  ASSUME NEW ev \in Seq(Callbacks), IsBody(ev), NEW n \in 0..(Len(ev) - 1),
         NEW on, NEW len \in Nat, NEW been, NEW stg, NEW size,
         Placed(ev, n, on, len, been, stg, size),
         ev[n + 1][1] = "start_array", stg = "INIT"
  PROVE  Placed(ev, n + 1, TRUE, len, been, stg, size)
<1>1. Level(ev) \in {0, 1} /\ InBody(ev, n) /\ n \in Nat
  BY BodySteps
<1>2. len = 0 /\ n = 0 /\ Level(ev) = 1 /\ n \notin CallStarts(ev)
  <2>1. len = 0
    BY AtBeginning
  <2> QED BY <2>1, AtBeginning
<1>3. Begun(ev, n + 1) = Begun(ev, n)
  BY <1>2, BegunOnce
<1> QED BY <1>1, <1>2, <1>3 DEF Placed, InBody, Change

(* A map or an array that opens. *)
LEMMA PlacedOpen ==
  ASSUME NEW ev \in Seq(Callbacks), IsBody(ev), NEW n \in 0..(Len(ev) - 1),
         NEW on, NEW len \in Nat, NEW been, NEW stg, NEW size,
         Placed(ev, n, on, len, been, stg, size),
         ev[n + 1][1] \in {"start_map", "start_array"},
         ev[n + 1][1] = "start_map" \/ stg # "INIT"
  PROVE  /\ Placed(ev, n + 1, on, len + 1, been, stg, size)
         /\ Nesting(ev, n + 1) = len + 1 + Level(ev)
<1>1. Level(ev) \in {0, 1} /\ InBody(ev, n) /\ n \in Nat
  BY BodySteps
<1>2. n \notin CallStarts(ev)
  BY <1>1 DEF InBody
<1>3. Begun(ev, n + 1) = Begun(ev, n)
  BY <1>2, BegunOnce
<1>4. CASE len = 0
  <2>1. /\ ev[n + 1][1] = "start_map" /\ Nesting(ev, n) = Level(ev) /\ stg = "INIT"
    BY <1>4, AtBeginning
  <2>2. n + 1 \in CallStarts(ev) /\ Nesting(ev, n + 1) = Level(ev) + 1
    BY <1>1, <2>1 DEF InBody, Change
  <2>3. (n > 0 /\ Level(ev) = 1) <=> (n + 1 > 0 /\ Level(ev) = 1)
    BY <1>1, <2>1 DEF InBody
  <2> QED BY <1>1, <1>3, <1>4, <2>1, <2>2, <2>3 DEF Placed
<1>5. CASE len > 0
  <2>1. /\ Nesting(ev, n) = Level(ev) + len /\ Nesting(ev, n + 1) = Level(ev) + len + 1
        /\ stg # "INIT" /\ n + 1 \notin CallStarts(ev) /\ n > 0
    <3>1. stg # "INIT"
      BY <1>5, AtBeginning
    <3>2. Nesting(ev, n) = Level(ev) + len /\ n > 0
      BY <1>1, <1>5 DEF Placed, InBody
    <3> QED BY <1>1, <1>5, <3>1, <3>2 DEF InBody, Change
  <2> QED BY <1>1, <1>3, <1>5, <2>1 DEF Placed
<1> QED BY <1>4, <1>5

(* The array of a batch that ends. *)
LEMMA PlacedLast ==
  ASSUME NEW ev \in Seq(Callbacks), IsBody(ev), NEW n \in 0..(Len(ev) - 1),
         NEW on, NEW been, NEW stg, NEW size,
         Placed(ev, n, on, 0, been, stg, size),
         ev[n + 1][1] \in {"end_map", "end_array"}
  PROVE  ev[n + 1][1] = "end_array" /\ Placed(ev, n + 1, on, 0, been, stg, size)
<1>1. Level(ev) \in {0, 1} /\ InBody(ev, n) /\ n \in Nat
  BY BodySteps
<1>2. /\ n \notin CallStarts(ev) /\ stg = "INIT" /\ ev[n + 1][1] = "end_array"
      /\ Nesting(ev, n) = 1 /\ Level(ev) = 1
  BY AtBeginning
<1>3. Begun(ev, n + 1) = Begun(ev, n)
  BY <1>2, BegunOnce
<1>4. Nesting(ev, n + 1) = 0 /\ n > 0
  BY <1>1, <1>2 DEF InBody, Change
<1> QED BY <1>1, <1>2, <1>3, <1>4 DEF Placed

(* A map or an array that ends: if it is the outermost, it is a call.      *)
LEMMA PlacedClose ==
  ASSUME NEW ev \in Seq(Callbacks), IsBody(ev), NEW n \in 0..(Len(ev) - 1),
         NEW on, NEW len \in Nat \ {0}, NEW been, NEW stg, NEW size,
         Placed(ev, n, on, len, been, stg, size),
         ev[n + 1][1] \in {"end_map", "end_array"},
         NEW been2, NEW stg2,
         IF len = 1 THEN stg2 = "INIT" /\ been2 = {} ELSE stg2 # "INIT"
  PROVE  Placed(ev, n + 1, on, len - 1, been2, stg2, size)
<1>1. Level(ev) \in {0, 1} /\ InBody(ev, n) /\ n \in Nat
  BY BodySteps
<1>2. n \notin CallStarts(ev) /\ n + 1 \notin CallStarts(ev)
  BY <1>1 DEF InBody
<1>3. Begun(ev, n + 1) = Begun(ev, n)
  BY <1>2, BegunOnce
<1>4. Nesting(ev, n) = Level(ev) + len /\ n > 0 /\ Nesting(ev, n + 1) = Level(ev) + len - 1
  BY <1>1 DEF Placed, InBody, Change
<1> QED BY <1>1, <1>2, <1>3, <1>4 DEF Placed

(* Within a call nothing is at its beginning; what ends the outermost map  *)
(* or array is the end of a map.                                           *)
LEMMA ClosesCall ==
  ASSUME NEW ev \in Seq(Callbacks), IsBody(ev), NEW n \in 0..(Len(ev) - 1),
         NEW on, NEW len \in Nat \ {0}, NEW been, NEW stg, NEW size,
         Placed(ev, n, on, len, been, stg, size),
         ev[n + 1][1] \in {"end_map", "end_array"}
  PROVE  stg # "INIT" /\ (len = 1 => ev[n + 1][1] = "end_map")
<1>1. Level(ev) \in {0, 1} /\ InBody(ev, n) /\ n \in Nat
  BY BodySteps
<1>2. stg # "INIT"
  BY AtBeginning
<1>3. Nesting(ev, n) = Level(ev) + len /\ Nesting(ev, n + 1) = Level(ev) + len - 1
  BY <1>1 DEF Placed, InBody, Change
<1> QED BY <1>1, <1>2, <1>3 DEF InBody

(* No more calls begin than there are, and in the end they all have. *)
LEMMA BegunOfAll ==
  ASSUME NEW ev \in Seq(Callbacks), IsBody(ev)
  PROVE  /\ Cardinality(CallStarts(ev)) \in Nat
         /\ Begun(ev, Len(ev)) = Cardinality(CallStarts(ev))
         /\ \A n \in 0..Len(ev) : n \in CallStarts(ev) =>
              Begun(ev, n) + 1 <= Cardinality(CallStarts(ev))
<1> DEFINE T == CallStarts(ev)
           N == Len(ev)
<1>1. T \in SUBSET Nat /\ N \in Nat /\ \A m \in T : m <= N
  BY DEF CallStarts
<1>2. N \notin T
  <2> SUFFICES ASSUME N \in T PROVE FALSE
    OBVIOUS
  <2>1. N \in DOMAIN ev /\ ev[N][1] = "start_map" /\ Nesting(ev, N - 1) = Level(ev)
    BY DEF CallStarts
  <2>2. Nesting(ev, N) = 0
    BY <2>1 DEF IsBody
  <2>3. N - 1 \in 0..(N - 1) /\ N - 1 + 1 = N
    BY <2>1
  <2>4. Nesting(ev, N) = Nesting(ev, N - 1) + Change(ev[N][1])
    BY <2>3, NestingSteps
  <2>5. Level(ev) \in {0, 1}
    BY DEF Level
  <2> QED BY <2>1, <2>2, <2>4, <2>5 DEF Change
<1>3. \A n : Begun(ev, n) = IF n \in T THEN Place(n, T) - 1 ELSE Place(n, T)
  BY DEF Begun
<1> HIDE DEF T, N
<1>4. IsFiniteSet(T) /\ Place(N, T) = Cardinality(T) /\ Place(N, T) \in Nat
  BY <1>1, PlaceOfAll, PlaceType
<1>5. ASSUME NEW n \in 0..N, n \in T PROVE Begun(ev, n) + 1 <= Cardinality(T)
  <2>1. n \in Nat /\ n <= N
    BY <1>1
  <2>2. Place(n, T) <= Place(N, T) /\ Place(n, T) \in Nat
    BY <1>1, <2>1, PlaceGrows, PlaceType
  <2> QED BY <1>3, <1>4, <1>5, <2>2
<1> QED BY <1>2, <1>3, <1>4, <1>5 DEF T, N

-----------------------------------------------------------------------------
(* The invariant: the stack and the counters follow the body, and a body   *)
(* that was refused is too large or too deep.                              *)
Where == Placed(input.events, at, batch_mode_on, Len(stack), been_stages, stage, batch_size)

JInv ==
  /\ IInv
  /\ status \in {"parsing", "ok"} => Where /\ batch_size <= MAX_BATCH_SIZE + 1
  /\ status = "ok" => at = Len(input.events)
  /\ status = "batch" => Cardinality(CallStarts(input.events)) > MAX_BATCH_SIZE + 1
  /\ status = "stack" => Nesting(input.events, at) - Level(input.events) > MaxDepth

(* At the beginning nothing is open. *)
LEMMA InitJInv == Init => JInv
<1> SUFFICES ASSUME Init PROVE JInv
  OBVIOUS
<1>1. IInv
  BY InitIInv
<1> DEFINE ev == input.events
<1>2. ev \in Seq(Callbacks)
  BY InputsAssumption DEF Init
<1>3. /\ at = 0 /\ batch_mode_on = FALSE /\ stack = <<>> /\ been_stages = {}
      /\ stage = "INIT" /\ batch_size = 0 /\ status = "parsing"
  BY DEF Init
<1> HIDE DEF ev
<1>4. Nesting(ev, 0) = 0 /\ Begun(ev, 0) = 0
  BY <1>2, NestingSteps, BegunSteps
<1>5. Placed(ev, 0, FALSE, 0, {}, "INIT", 0)
  BY <1>4 DEF Placed
<1>6. Where
  <2>1. Len(stack) = 0
    BY <1>3
  <2> QED BY <1>3, <1>5, <2>1 DEF Where, ev
<1> QED BY <1>1, <1>3, <1>6, Limits DEF JInv

(* What a callback finds. *)
LEMMA Here ==
  ASSUME IsBody(input.events), JInv, NEW e, Callback(e)
  PROVE  /\ input' = input /\ at' = at + 1 /\ status = "parsing"
         /\ input.events \in Seq(Callbacks) /\ IsBody(input.events)
         /\ at \in 0..(Len(input.events) - 1) /\ input.events[at + 1][1] = e
         /\ Placed(input.events, at, batch_mode_on, Len(stack), been_stages, stage, batch_size)
         /\ Len(stack) \in Nat /\ stack \in Seq(Item) /\ batch_size \in Nat
         /\ batch_size <= MAX_BATCH_SIZE + 1 /\ IInv
<1>1. /\ input' = input /\ at' = at + 1 /\ status = "parsing"
      /\ at < Len(input.events) /\ input.events[at + 1][1] = e
  BY DEF Callback, Event
<1>2. IInv /\ Where /\ batch_size <= MAX_BATCH_SIZE + 1
  BY <1>1 DEF JInv
<1>3. /\ input \in Inputs /\ input.events \in Seq(Callbacks) /\ at \in 0..Len(input.events)
      /\ Len(stack) \in Nat /\ stack \in Seq(Item) /\ batch_size \in Nat
  BY <1>2, Parts
<1>4. IsBody(input.events)
  OBVIOUS
<1>5. at \in 0..(Len(input.events) - 1)
  BY <1>1, <1>3
<1> QED BY <1>1, <1>2, <1>3, <1>4, <1>5, Zenon DEF Where

(* A callback that goes on. *)
LEMMA Onward ==
  ASSUME NEW e, IsBody(input.events), JInv, Callback(e), IInv', status' = status,
         Placed(input.events, at + 1, batch_mode_on', Len(stack'), been_stages', stage',
                batch_size'),
         batch_size' <= MAX_BATCH_SIZE + 1
  PROVE  JInv'
<1>1. input' = input /\ at' = at + 1 /\ status' = "parsing"
  BY Here
<1>2. Where'
  BY <1>1 DEF Where
<1> QED BY <1>1, <1>2 DEF JInv

(* A refusal for a reason of another kind. *)
LEMMA Otherwise ==
  ASSUME IInv', status' \in {"id", "params", "json"} PROVE JInv'
BY DEF JInv

(* A value or a key within a call leaves as many open. *)
LEMMA OnwardWithin ==
  ASSUME NEW e \in {"scalar", "integer", "string", "map_key"},
         IsBody(input.events), JInv, Callback(e), IInv', status' = status,
         stage # "INIT", stage' # "INIT", Len(stack') = Len(stack),
         batch_size' = batch_size, batch_mode_on' = batch_mode_on
  PROVE  JInv'
<1>1. /\ input.events \in Seq(Callbacks) /\ IsBody(input.events)
      /\ at \in 0..(Len(input.events) - 1) /\ input.events[at + 1][1] = e
      /\ Placed(input.events, at, batch_mode_on, Len(stack), been_stages, stage, batch_size)
      /\ Len(stack) \in Nat /\ batch_size <= MAX_BATCH_SIZE + 1
  BY Here
<1>2. Placed(input.events, at + 1, batch_mode_on, Len(stack), been_stages', stage', batch_size)
  BY <1>1, PlacedWithin
<1> QED BY <1>1, <1>2, Onward

(* Where there is a value, the code is within a call. *)
LEMMA ValueWithin ==
  ASSUME NEW e \in {"scalar", "integer", "string"}, IsBody(input.events), JInv, Callback(e)
  PROVE  stage # "INIT"
<1>1. /\ input.events \in Seq(Callbacks) /\ IsBody(input.events)
      /\ at \in 0..(Len(input.events) - 1) /\ input.events[at + 1][1] = e
      /\ Placed(input.events, at, batch_mode_on, Len(stack), been_stages, stage, batch_size)
      /\ Len(stack) \in Nat
  BY Here
<1>2. SUFFICES ASSUME stage = "INIT" PROVE FALSE
  OBVIOUS
<1>3. CASE Len(stack) = 0
  <2>1. e \in {"start_map", "start_array", "end_array"}
    BY <1>1, <1>3, AtBeginning
  <2> QED BY <2>1
<1>4. CASE Len(stack) > 0
  <2>1. e = "map_key"
    BY <1>1, <1>2, <1>4, AtBeginning
  <2> QED BY <2>1
<1> QED BY <1>1, <1>3, <1>4

(* Values leave as many open. *)
LEMMA ValueJInv ==
  ASSUME IsBody(input.events), JInv, yajl_scalar \/ yajl_integer \/ yajl_string PROVE JInv'
<1>1. stack \in Seq(Item) /\ IInv
  BY Parts DEF JInv
<1>2. Len(stack_grow(stack, "array")) = Len(stack)
  BY <1>1, Counted
<1>3. CASE yajl_scalar
  <2>1. Callback("scalar") /\ IInv'
    BY <1>1, <1>3, ScalarIInv DEF yajl_scalar
  <2>2. stage # "INIT"
    BY <2>1, ValueWithin
  <2>3. UNCHANGED <<stage, batch_mode_on, batch_size, status>> /\ Len(stack') = Len(stack)
    BY <1>2, <1>3 DEF yajl_scalar
  <2> QED BY <2>1, <2>2, <2>3, OnwardWithin
<1>4. CASE yajl_integer
  <2>1. Callback("integer") /\ IInv'
    BY <1>1, <1>4, IntegerIInv DEF yajl_integer
  <2>2. stage # "INIT"
    BY <2>1, ValueWithin
  <2>3. CASE stage = "ID" /\ ~IdOk(Event[2])
    <3>1. status' = "id"
      BY <1>4, <2>3 DEF yajl_integer, Fail
    <3> QED BY <2>1, <3>1, Otherwise
  <2>4. CASE ~(stage = "ID" /\ ~IdOk(Event[2]))
    <3>1. /\ stack' = IF stage = "PARAMS" THEN stack_grow(stack, "array") ELSE stack
          /\ stage' = IF stage = "ID" THEN "WAIT_NEXT" ELSE stage
          /\ UNCHANGED <<batch_mode_on, batch_size, status>>
      BY <1>4, <2>4 DEF yajl_integer
    <3>2. stage' # "INIT" /\ Len(stack') = Len(stack)
      BY <1>2, <2>2, <3>1
    <3> QED BY <2>1, <2>2, <3>1, <3>2, OnwardWithin
  <2> QED BY <2>3, <2>4
<1>5. CASE yajl_string
  <2>1. Callback("string") /\ IInv'
    BY <1>1, <1>5, StringIInv DEF yajl_string
  <2>2. stage # "INIT"
    BY <2>1, ValueWithin
  <2>3. /\ stack' = IF stage = "PARAMS" THEN stack_grow(stack, "array") ELSE stack
        /\ stage' = IF stage = "PARAMS" THEN stage ELSE "WAIT_NEXT"
        /\ UNCHANGED <<batch_mode_on, batch_size, status>>
    BY <1>5 DEF yajl_string
  <2>4. stage' # "INIT" /\ Len(stack') = Len(stack)
    BY <1>2, <2>2, <2>3
  <2> QED BY <2>1, <2>2, <2>3, <2>4, OnwardWithin
<1> QED BY <1>3, <1>4, <1>5

(* A key: the first of a call counts it, unless there are too many. *)
LEMMA KeyJInv == ASSUME IsBody(input.events), JInv, yajl_map_key PROVE JInv'
<1> DEFINE ev == input.events
<1>1. Callback("map_key")
  BY DEF yajl_map_key
<1>2. /\ input' = input /\ at' = at + 1 /\ ev \in Seq(Callbacks) /\ IsBody(ev)
      /\ at \in 0..(Len(ev) - 1) /\ ev[at + 1][1] = "map_key"
      /\ Placed(ev, at, batch_mode_on, Len(stack), been_stages, stage, batch_size)
      /\ Len(stack) \in Nat /\ stack \in Seq(Item) /\ batch_size \in Nat
      /\ batch_size <= MAX_BATCH_SIZE + 1 /\ IInv
  BY <1>1, Here
<1>3. IInv'
  BY <1>2, MapKeyIInv
<1>4. CASE stage = "INIT" /\ TooManyCalls
  <2>1. status' = "batch"
    BY <1>4 DEF yajl_map_key, Fail
  <2>2. at \in CallStarts(ev) /\ at \in 0..Len(ev)
    <3>1. Len(stack) > 0
      <4>1. Len(stack) = 0 => ev[at + 1][1] \in {"start_map", "start_array", "end_array"}
        BY <1>2, AtBeginning
      <4> QED BY <1>2, <4>1
    <3>2. at \in CallStarts(ev)
      BY <1>2, <1>4, <3>1, AtBeginning
    <3> QED BY <1>2, <3>2
  <2>3. batch_size = Begun(ev, at)
    BY <1>2 DEF Placed
  <2>4. batch_size + 1 <= Cardinality(CallStarts(ev)) /\ Cardinality(CallStarts(ev)) \in Nat
    BY <1>2, <2>2, <2>3, BegunOfAll
  <2>5. Cardinality(CallStarts(ev)) > MAX_BATCH_SIZE + 1
    BY <1>2, <1>4, <2>4, Limits DEF TooManyCalls
  <2> QED BY <1>2, <1>3, <2>1, <2>5 DEF JInv
<1>5. CASE ~(stage = "INIT" /\ TooManyCalls)
  <2>1. /\ stage' = CASE stage = "PARAMS" -> "PARAMS"
                      [] stage \in {"INIT", "WAIT_NEXT"} -> KeyStage(Event[2])
                      [] OTHER -> "WAIT_NEXT"
        /\ stack' = IF stage = "PARAMS" THEN stack_grow(stack, "map") ELSE stack
        /\ batch_size' = CallCount
        /\ UNCHANGED <<been_stages, batch_mode_on, status>>
    BY <1>5 DEF yajl_map_key
  <2>2. Len(stack') = Len(stack)
    BY <1>2, <2>1, Counted
  <2>3. stage' # "INIT"
    BY <2>1 DEF KeyStage
  <2>4. CASE stage = "INIT"
    <3>1. batch_size' = batch_size + 1 /\ batch_size' <= MAX_BATCH_SIZE + 1
      BY <1>2, <1>5, <2>1, <2>4, Limits DEF CallCount, TooManyCalls
    <3>2. Placed(ev, at + 1, batch_mode_on, Len(stack), been_stages, stage', batch_size + 1)
      BY <1>2, <2>3, <2>4, PlacedFirstKey
    <3> QED BY <1>1, <1>3, <2>1, <2>2, <3>1, <3>2, Onward
  <2>5. CASE stage # "INIT"
    <3>1. batch_size' = batch_size
      BY <2>1, <2>5 DEF CallCount
    <3> QED BY <1>1, <1>3, <2>1, <2>2, <2>3, <2>5, <3>1, OnwardWithin
  <2> QED BY <2>4, <2>5
<1> QED BY <1>4, <1>5

(* As deep as the stack can be: a whole number of chunks below what a byte *)
(* holds is allocated.                                                     *)
LEMMA Deepest ==
  ASSUME IInv
  PROVE  /\ MaxDepth \in Nat /\ Len(stack) <= MaxDepth
         /\ \A s : Len(s) = Len(stack) /\ ~CanPush(s) => Len(stack) >= MaxDepth
<1>1. /\ Len(stack) \in Nat /\ Len(stack) <= MAX_STACK_SIZE /\ Len(stack) <= allocated
      /\ allocated \in 1..(ByteSize - 1) /\ Chunks(allocated)
  BY Parts
<1>2. /\ MAX_STACK_SIZE \in Nat /\ StackChunk \in Nat \ {0} /\ ByteSize \in Nat
      /\ StackChunk < ByteSize
  BY Limits
<1>3. allocated + StackChunk <= ByteSize
  <2>1. PICK k \in Nat \ {0} : allocated = k * StackChunk
    BY <1>1 DEF Chunks
  <2>2. PICK m \in Nat : ByteSize = m * StackChunk
    BY Limits
  <2>3. k * StackChunk < m * StackChunk
    BY <1>1, <2>1, <2>2
  <2> QED BY <1>2, <2>1, <2>2, <2>3, ChunkMore
<1>4. MaxDepth \in Nat /\ Len(stack) <= MaxDepth
  BY <1>1, <1>2, <1>3 DEF MaxDepth
<1>5. ASSUME NEW s, Len(s) = Len(stack), ~CanPush(s) PROVE Len(stack) >= MaxDepth
  <2>1. CASE ~(Len(s) < MAX_STACK_SIZE)
    BY <1>1, <1>2, <1>5, <2>1 DEF MaxDepth
  <2>2. CASE NewAllocated(s) = 0
    <3>1. allocated = Len(s) /\ (allocated + StackChunk) % ByteSize = 0
      BY <1>1, <2>2 DEF NewAllocated
    <3>2. \A a, b \in Nat : a < b => a % b = a
      OBVIOUS
    <3>3. allocated + StackChunk = ByteSize
      BY <1>1, <1>2, <1>3, <3>1, <3>2
    <3> QED BY <1>1, <1>2, <1>5, <3>1, <3>3 DEF MaxDepth
  <2> QED BY <1>5, <2>1, <2>2 DEF CanPush
<1> QED BY <1>4, <1>5

(* What opens is pushed, or refused at the limit. *)
LEMMA OpenJInv ==
  ASSUME IsBody(input.events), JInv, NEW e \in {"start_map", "start_array"}, Callback(e),
         e = "start_map" \/ stage # "INIT",
         NEW type \in {"map", "array"}, Open(type)
  PROVE  JInv'
<1> DEFINE ev == input.events
           s == stack_grow(stack, "array")
<1>1. /\ input' = input /\ at' = at + 1 /\ ev \in Seq(Callbacks) /\ IsBody(ev)
      /\ at \in 0..(Len(ev) - 1) /\ ev[at + 1][1] = e
      /\ Placed(ev, at, batch_mode_on, Len(stack), been_stages, stage, batch_size)
      /\ Len(stack) \in Nat /\ stack \in Seq(Item)
      /\ batch_size <= MAX_BATCH_SIZE + 1 /\ IInv
  BY Here
<1>2. IInv'
  <2>1. at' \in 0..Len(ev)
    BY <1>1
  <2> QED BY <1>1, <2>1, OpenIInv
<1>3. s \in Seq(Item) /\ Len(s) = Len(stack)
  BY <1>1, Counted
<1>4. /\ Placed(ev, at + 1, batch_mode_on, Len(stack) + 1, been_stages, stage, batch_size)
      /\ Nesting(ev, at + 1) = Len(stack) + 1 + Level(ev)
  BY <1>1, PlacedOpen
<1>5. CASE ~CanPush(s)
  <2>1. status' = "stack"
    BY <1>5 DEF Open, Fail
  <2>2. Len(stack) >= MaxDepth /\ MaxDepth \in Nat
    BY <1>1, <1>3, <1>5, Deepest
  <2>3. Level(ev) \in {0, 1}
    BY DEF Level
  <2>4. Nesting(ev, at + 1) - Level(ev) > MaxDepth
    BY <1>1, <1>4, <2>2, <2>3
  <2>5. MaxDepth' = MaxDepth
    BY DEF MaxDepth
  <2> QED BY <1>1, <1>2, <2>1, <2>4 DEF JInv
<1>6. CASE CanPush(s)
  <2>1. stack' = Pushed(s, type)
        /\ UNCHANGED <<stage, been_stages, batch_mode_on, batch_size, status>>
    BY <1>6 DEF Open
  <2>2. Len(stack') = Len(stack) + 1
    BY <1>3, <2>1 DEF Pushed
  <2> QED BY <1>1, <1>2, <1>4, <2>1, <2>2, Onward
<1> QED BY <1>5, <1>6

(* The array of a batch is not pushed. *)
LEMMA StartJInv ==
  ASSUME IsBody(input.events), JInv, yajl_start_map \/ yajl_start_array PROVE JInv'
<1>1. CASE yajl_start_map
  BY <1>1, OpenJInv DEF yajl_start_map
<1>2. CASE yajl_start_array /\ stage # "INIT"
  BY <1>2, OpenJInv DEF yajl_start_array
<1>3. CASE yajl_start_array /\ stage = "INIT"
  <2>1. /\ batch_mode_on' = TRUE /\ Callback("start_array")
        /\ UNCHANGED <<stage, been_stages, stack, allocated, batch_size, out, sync, status>>
    BY <1>3 DEF yajl_start_array
  <2>2. /\ input.events \in Seq(Callbacks) /\ IsBody(input.events)
        /\ at \in 0..(Len(input.events) - 1) /\ input.events[at + 1][1] = "start_array"
        /\ Placed(input.events, at, batch_mode_on, Len(stack), been_stages, stage, batch_size)
        /\ Len(stack) \in Nat /\ batch_size <= MAX_BATCH_SIZE + 1
    BY <2>1, Here
  <2>3. Placed(input.events, at + 1, TRUE, Len(stack), been_stages, stage, batch_size)
    BY <1>3, <2>2, PlacedBatch
  <2>4. IInv'
    <3>1. IInv
      BY DEF JInv
    <3> QED BY <1>3, <3>1, NextIInv DEF Next
  <2> QED BY <2>1, <2>2, <2>3, <2>4, Onward
<1> QED BY <1>1, <1>2, <1>3

(* What ends is popped; the end of the outermost map is that of a call. *)
LEMMA EndJInv ==
  ASSUME IsBody(input.events), JInv, yajl_end_map \/ yajl_end_array PROVE JInv'
<1> DEFINE ev == input.events
           n == Len(stack)
<1>1. PICK e \in {"end_map", "end_array"} :
        Callback(e) /\ (e = "end_map" => yajl_end_map) /\ (e = "end_array" => yajl_end_array)
  BY DEF yajl_end_map, yajl_end_array
<1>2. /\ ev \in Seq(Callbacks) /\ IsBody(ev)
      /\ at \in 0..(Len(ev) - 1) /\ ev[at + 1][1] = e
      /\ Placed(ev, at, batch_mode_on, n, been_stages, stage, batch_size)
      /\ n \in Nat /\ stack \in Seq(Item)
      /\ batch_size <= MAX_BATCH_SIZE + 1 /\ IInv
  BY <1>1, Here
<1>3. IInv'
  BY <1>2, EndMapIInv, EndArrayIInv
<1>4. UNCHANGED <<batch_mode_on, batch_size>>
  BY DEF yajl_end_map, yajl_end_array
<1>5. ASSUME n > 0 PROVE Len(Popped(stack)) = n - 1
  <2>1. stack \in Seq(Item) /\ n \in Nat /\ n - 1 \in 0..n
    BY <1>2, <1>5
  <2>2. \A s \in Seq(Item), k \in Nat : k <= Len(s) => Len(SubSeq(s, 1, k)) = k
    OBVIOUS
  <2>3. n - 1 \in Nat /\ n - 1 <= n
    BY <2>1
  <2>4. Len(SubSeq(stack, 1, n - 1)) = n - 1
    BY <2>1, <2>2, <2>3
  <2> QED BY <2>4 DEF Popped
<1>6. CASE n = 0
  <2>1. /\ e = "end_array"
        /\ Placed(ev, at + 1, batch_mode_on, 0, been_stages, stage, batch_size)
    BY <1>2, <1>6, PlacedLast
  <2>2. stage = "INIT"
    BY <1>2, <1>6 DEF Placed
  <2>3. stack' = stack /\ UNCHANGED <<stage, been_stages, status>>
    BY <1>1, <1>6, <2>1, <2>2 DEF yajl_end_array
  <2> QED BY <1>1, <1>2, <1>3, <1>4, <1>6, <2>1, <2>3, Onward
<1>7. CASE n > 0
  <2>1. stage # "INIT" /\ (n = 1 => e = "end_map")
    <3>1. n \in Nat \ {0}
      BY <1>2, <1>7
    <3> QED BY <1>2, <3>1, ClosesCall
  <2>2. CASE status' = "params"
    BY <1>3, <2>2, Otherwise
  <2>3. CASE status' # "params"
    <3>1. /\ status' = status
          /\ Len(stack') = n - 1
          /\ IF n = 1 THEN stage' = "INIT" /\ been_stages' = {} ELSE stage' # "INIT"
      <4>1. CASE e = "end_map" /\ n = 1
        <5>1. stack' = <<>> /\ stage' = "INIT" /\ been_stages' = {} /\ status' = status
          BY <1>1, <4>1 DEF yajl_end_map
        <5> QED BY <4>1, <5>1
      <4>2. CASE e = "end_map" /\ n # 1
        <5>1. stack' = Popped(stack) /\ UNCHANGED <<stage, status>>
          BY <1>1, <1>2, <1>7, <2>3, <4>2 DEF yajl_end_map
        <5> QED BY <1>5, <1>7, <2>1, <4>2, <5>1
      <4>3. CASE e = "end_array"
        <5>1. stack' = Popped(stack) /\ status' = status /\ stage' \in {stage, "WAIT_NEXT"}
          BY <1>1, <1>7, <2>3, <4>3 DEF yajl_end_array
        <5> QED BY <1>5, <1>7, <2>1, <4>3, <5>1
      <4> QED BY <4>1, <4>2, <4>3
    <3>2. n \in Nat \ {0}
      BY <1>2, <1>7
    <3>3. Placed(ev, at + 1, batch_mode_on, n - 1, been_stages', stage', batch_size)
      BY <1>2, <3>1, <3>2, PlacedClose
    <3> QED BY <1>1, <1>2, <1>3, <1>4, <3>1, <3>3, Onward
  <2> QED BY <2>2, <2>3
<1> QED BY <1>2, <1>6, <1>7

(* Every step keeps up with the body. *)
LEMMA NextJInv == IsBody(input.events) /\ JInv /\ [Next]_vars => JInv'
<1> SUFFICES ASSUME IsBody(input.events), JInv, [Next]_vars PROVE JInv'
  OBVIOUS
<1>1. IInv /\ IInv'
  BY NextIInv DEF JInv
<1>2. CASE yajl_scalar \/ yajl_integer \/ yajl_string
  BY <1>2, ValueJInv
<1>3. CASE yajl_map_key
  BY <1>3, KeyJInv
<1>4. CASE yajl_start_map \/ yajl_start_array
  BY <1>4, StartJInv
<1>5. CASE yajl_end_map \/ yajl_end_array
  BY <1>5, EndJInv
<1>6. CASE RefuseEmpty \/ ParseError
  BY <1>1, <1>6, Otherwise DEF RefuseEmpty, ParseError
<1>7. CASE Complete
  <2>1. /\ UNCHANGED <<input, at, stage, been_stages, stack, batch_mode_on, batch_size>>
        /\ status = "parsing" /\ status' = "ok" /\ at = Len(input.events)
    BY <1>7 DEF Complete, ctx
  <2>2. Where' = Where
    BY <2>1 DEF Where
  <2> QED BY <1>1, <2>1, <2>2 DEF JInv
<1>8. CASE UNCHANGED vars
  <2>1. UNCHANGED <<input, at, stage, been_stages, stack, batch_mode_on, batch_size, status>>
    BY <1>8 DEF vars, ctx
  <2>2. Where' = Where
    BY <2>1 DEF Where
  <2> QED BY <1>1, <2>1, <2>2 DEF JInv, MaxDepth
<1> QED BY <1>2, <1>3, <1>4, <1>5, <1>6, <1>7, <1>8 DEF Next

-----------------------------------------------------------------------------
(* What the stack says of the body in a state of the invariant. *)
LEMMA Mirrors ==
  ASSUME IsBody(input.events) \/ at = 0, JInv PROVE StackMirrorsNesting
<1> DEFINE ev == input.events
           open == Nesting(ev, at)
<1> SUFFICES ASSUME status \in {"parsing", "ok"}
             PROVE  /\ Len(stack) = open - (IF batch_mode_on /\ open > 0 THEN 1 ELSE 0)
                    /\ stack = <<>> => stage = "INIT" /\ been_stages = {}
  BY DEF StackMirrorsNesting
<1>1. IInv /\ Where
  BY DEF JInv
<1>2. /\ input \in Inputs /\ ev \in Seq(Callbacks) /\ at \in 0..Len(ev)
      /\ stack \in Seq(Item) /\ batch_mode_on \in BOOLEAN
  BY <1>1, Parts
<1>3. open \in Int /\ (at = 0 => open = 0) /\ (at > 0 => open >= 0) /\ Level(ev) \in {0, 1}
  <2>1. at \in Nat /\ (at > 0 => at \in DOMAIN ev)
    BY <1>2
  <2>2. open \in Int /\ Nesting(ev, 0) = 0
    BY <1>2, <2>1, NestingSteps
  <2>3. at > 0 => open = 0 \/ open > 0
    <3> SUFFICES ASSUME IsBody(ev) PROVE at > 0 => open = 0 \/ open > 0
      OBVIOUS
    <3> QED BY <1>2, <2>1 DEF IsBody
  <2>4. Level(ev) \in {0, 1}
    BY DEF Level
  <2> QED BY <2>2, <2>3, <2>4
<1>4. /\ (batch_mode_on = TRUE) <=> (at > 0 /\ Level(ev) = 1)
      /\ Len(stack) = IF open = 0 THEN 0 ELSE open - Level(ev)
      /\ Len(stack) = 0 => stage = "INIT" /\ been_stages = {}
  BY <1>1 DEF Where, Placed
<1>5. Len(stack) = open - (IF batch_mode_on /\ open > 0 THEN 1 ELSE 0)
  BY <1>2, <1>3, <1>4
<1> QED BY <1>4, <1>5

(* A body that is plainly empty is refused before it is read.              *)
Unread == input.compact => at = 0 /\ status \in {"parsing", "params"}

BInv == JInv /\ Unread

(* If only bodies are given the invariant holds of them all. *)
LEMMA BodiesInit == Init => BInv
BY InitJInv DEF Init, BInv, Unread

(* So does every step keep it. *)
LEMMA BodiesNext == ASSUME OnlyBodies PROVE BInv /\ [Next]_vars => BInv'
<1> SUFFICES ASSUME BInv, [Next]_vars PROVE BInv'
  OBVIOUS
<1>1. input \in Inputs /\ JInv /\ Unread
  BY DEF BInv, JInv, IInv
<1>2. CASE ~input.compact
  <2>1. JInv'
    BY <1>1, <1>2, NextJInv DEF OnlyBodies
  <2>2. input' = input
    BY DEF Next, vars, yajl_scalar, yajl_integer, yajl_string, yajl_map_key, yajl_start_map,
           yajl_start_array, yajl_end_map, yajl_end_array, Callback, RefuseEmpty, ParseError,
           Complete
  <2> QED BY <1>2, <2>1, <2>2 DEF BInv, Unread
<1>3. CASE input.compact
  <2>1. RefuseEmpty \/ UNCHANGED vars
    BY <1>3 DEF Next, yajl_scalar, yajl_integer, yajl_string, yajl_map_key, yajl_start_map,
           yajl_start_array, yajl_end_map, yajl_end_array, Callback, ParseError, Complete
  <2>2. IInv'
    BY <1>1, NextIInv DEF JInv
  <2>3. CASE RefuseEmpty
    BY <1>1, <2>2, <2>3, Otherwise DEF RefuseEmpty, BInv, Unread
  <2>4. CASE UNCHANGED vars
    <3>1. UNCHANGED <<input, at, stage, been_stages, stack, batch_mode_on, batch_size, status>>
      BY <2>4 DEF vars, ctx
    <3>2. Where' = Where
      BY <3>1 DEF Where
    <3>3. JInv'
      BY <1>1, <2>2, <3>1, <3>2 DEF JInv, MaxDepth
    <3> QED BY <1>1, <3>1, <3>3 DEF BInv, Unread
  <2> QED BY <2>1, <2>3, <2>4
<1> QED BY <1>2, <1>3

(* However the values of a body nest and whichever keys they hold, the     *)
(* stack of the codec has exactly the maps and arrays that are open, and   *)
(* nothing of a call is left when the next one begins.                     *)
THEOREM StackFollowsTheBody == ASSUME OnlyBodies PROVE Spec => []StackMirrorsNesting
<1>1. Init => BInv
  BY BodiesInit
<1>2. BInv /\ [Next]_vars => BInv'
  BY BodiesNext
<1>3. BInv => StackMirrorsNesting
  BY Mirrors DEF BInv, Unread, JInv, IInv, OnlyBodies
<1> QED BY <1>1, <1>2, <1>3, PTL DEF Spec

(* The number of replies that the filter will wait for is that of the maps *)
(* of the body that are calls, whatever is in them.                        *)
THEOREM RepliesExpectedAreCalls == ASSUME OnlyBodies PROVE Spec => []BatchSizeIsCalls
<1>1. Init => BInv
  BY BodiesInit
<1>2. BInv /\ [Next]_vars => BInv'
  BY BodiesNext
<1>3. BInv => BatchSizeIsCalls
  <2> SUFFICES ASSUME BInv, status = "ok"
               PROVE  batch_size = Cardinality(CallStarts(input.events))
    BY DEF BatchSizeIsCalls
  <2>1. IInv /\ Where /\ at = Len(input.events) /\ ~input.compact
    BY DEF BInv, Unread, JInv
  <2>2. input.events \in Seq(Callbacks) /\ IsBody(input.events)
    BY <2>1, Parts DEF OnlyBodies
  <2>3. batch_size = Begun(input.events, at)
    BY <2>1 DEF Where, Placed
  <2> QED BY <2>1, <2>2, <2>3, BegunOfAll
<1> QED BY <1>1, <1>2, <1>3, PTL DEF Spec

(* A body within the limits is never refused for its calls or its depth,   *)
(* and a deeper one always: 240 levels with a byte and chunks of 16.       *)
THEOREM LimitsHold == ASSUME OnlyBodies PROVE Spec => []RefusedBeyondLimits
<1>1. Init => BInv
  BY BodiesInit
<1>2. BInv /\ [Next]_vars => BInv'
  BY BodiesNext
<1>3. BInv => RefusedBeyondLimits
  <2> SUFFICES ASSUME BInv PROVE RefusedBeyondLimits
    OBVIOUS
  <2> DEFINE ev == input.events
             calls == Cardinality(CallStarts(ev))
             open == Nesting(ev, at)
  <2>1. IInv /\ JInv
    BY DEF BInv, JInv
  <2>2. /\ ev \in Seq(Callbacks) /\ at \in 0..Len(ev) /\ stack \in Seq(Item)
    BY <2>1, Parts
  <2>3. open \in Int /\ Level(ev) \in {0, 1} /\ Len(stack) \in Nat
    <3>1. Level(ev) \in {0, 1} /\ at \in Nat
      BY <2>2 DEF Level
    <3> QED BY <2>2, <3>1, NestingSteps
  <2>4. MaxDepth \in Nat /\ Len(stack) <= MaxDepth
    BY <2>1, Deepest
  <2>5. status \in {"parsing", "ok"} => open - Level(ev) <= MaxDepth
    <3> SUFFICES ASSUME status \in {"parsing", "ok"} PROVE open - Level(ev) <= MaxDepth
      OBVIOUS
    <3>1. Len(stack) = IF open = 0 THEN 0 ELSE open - Level(ev)
      BY <2>1 DEF JInv, Where, Placed
    <3> QED BY <2>3, <2>4, <3>1
  <2>6. status = "batch" => calls > MAX_BATCH_SIZE
    <3> SUFFICES ASSUME status = "batch" PROVE calls > MAX_BATCH_SIZE
      OBVIOUS
    <3>1. calls > MAX_BATCH_SIZE + 1
      BY <2>1 DEF JInv
    <3>2. calls \in Nat
      <4>1. CallStarts(ev) \in SUBSET (1..Len(ev)) /\ Len(ev) \in Nat
        BY <2>2 DEF CallStarts
      <4>2. IsFiniteSet(CallStarts(ev))
        <5>1. IsFiniteSet(1..Len(ev)) /\ CallStarts(ev) \subseteq 1..Len(ev)
          BY <4>1, FS_Interval
        <5> QED BY <5>1, FS_Subset
      <4> QED BY <4>2, FS_CardinalityType
    <3> HIDE DEF calls
    <3> QED BY <3>1, <3>2, Limits
  <2>7. status = "stack" => open - Level(ev) > MaxDepth
    BY <2>1 DEF JInv
  <2> QED BY <2>5, <2>6, <2>7 DEF RefusedBeyondLimits
<1> QED BY <1>1, <1>2, <1>3, PTL DEF Spec
=============================================================================
