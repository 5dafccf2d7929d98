------------------------ MODULE TntReplyToJson_proofs ------------------------
(***************************************************************************)
(* Theorems about TntReplyToJson, for replies of any length and depth and  *)
(* buffers of any size: the types, with what the two flags of all levels   *)
(* mean; that brackets balance; and that what is written is the text which *)
(* ReplyText defines by counting, whenever there is room for it.           *)
(***************************************************************************)
EXTENDS ReplyText, Counting_proofs, FiniteSetTheorems, SequenceTheorems, TLAPS

Punctuation == {<<c>> : c \in {"[", "]", "{", "}", ",", ":", "result", "error"}}
Codes == {"code"} \X Int
Values == {"quoted", "plain"} \X Tokens
JsonTokens == Punctuation \cup Codes \cup Values

Frame == [for : {"skip", "array", "map"}, left : Nat, len : Int]

MapWaits == \E i \in 1..Len(stack) : stack[i].for = "map"
KeyWaits == \E i \in 1..Len(stack) : stack[i].for = "map" /\ stack[i].left % 2 = 1

(* The types, and: the flag of maps is set only while a map is open, that  *)
(* of keys only while a map waits for a key.                               *)
Types ==
  /\ TypeOK
  /\ out \in Seq(JsonTokens)
  /\ stack \in Seq(Frame)
  /\ "MAP" \in state => MapWaits
  /\ "KEY" \in state => KeyWaits

(* The size of the buffer is a number. *)
LEMMA SizeNat == ASSUME IsReply(input) PROVE Size \in Nat
BY RoomsAssumption DEF IsReply, Size

(* Punctuation and names are JSON. *)
LEMMA Marks ==
  \A c \in {"[", "]", "{", "}", ",", ":", "result", "error"} : <<c>> \in JsonTokens
BY Zenon DEF JsonTokens, Punctuation

(* What an answer begins with is JSON, and takes room.                     *)
LEMMA HeadType ==
  ASSUME IsReply(input)
  PROVE  Head0 \in Seq(JsonTokens) /\ Head0Size \in Nat
<1>1. Head0 \in Seq(JsonTokens)
  <2>1. code_conv(input.error) \in Int
    BY DEF IsReply, code_conv
  <2> DEFINE code == code_conv(input.error)
  <2> HIDE DEF code
  <2>2. <<"code", code>> \in JsonTokens
    <3>1. code \in Int
      BY <2>1 DEF code
    <3>2. <<"code", code>> \in Codes
      BY <3>1 DEF Codes
    <3> QED BY <3>2 DEF JsonTokens
  <2>3. /\ <<"{">> \in JsonTokens /\ <<"}">> \in JsonTokens
        /\ <<"error">> \in JsonTokens /\ <<"result">> \in JsonTokens
    BY Marks
  <2>4. /\ << <<"{">>, <<"result">> >> \in Seq(JsonTokens)
        /\ << <<"{">>, <<"error">>, <<"{">>, <<"code", code>>, <<"}">> >> \in Seq(JsonTokens)
        /\ <<>> \in Seq(JsonTokens)
    <3>1. \A a, b, c, d, e \in JsonTokens :
            <<a, b>> \in Seq(JsonTokens) /\ <<a, b, c, d, e>> \in Seq(JsonTokens)
      OBVIOUS
    <3>2. <<>> \in Seq(JsonTokens)
      OBVIOUS
    <3> QED BY <2>2, <2>3, <3>1, <3>2, Zenon
  <2> QED BY <2>4, Zenon DEF Head0, code
<1>2. Head0Size \in Nat
  BY RoomsAssumption DEF Head0Size, IsReply
<1> QED BY <1>1, <1>2

(* Everything has its type at first. *)
LEMMA InitTypes == Init => Types
<1> SUFFICES ASSUME Init PROVE Types
  OBVIOUS
<1>1. IsReply(input)
  BY RepliesAssumption DEF Init
<1>2. Head0 \in Seq(JsonTokens) /\ Head0Size \in Nat
  BY <1>1, HeadType
<1>3. input.multireturn_skip_count \in Nat
  BY <1>1 DEF IsReply
<1> QED BY <1>1, <1>2, <1>3 DEF Init, Types, TypeOK, IsReply

(* The next token is one. *)
LEMMA TokenType ==
  ASSUME Types, at < Len(input.tokens)
  PROVE  /\ Token \in Tokens /\ at + 1 \in 0..Len(input.tokens)
         /\ Token[1] \in {"array", "map"} => Token[2] \in Nat
         /\ Token[1] \notin {"array", "map", "ext"} =>
              Width(Token) \in Nat /\ Printed(Token) \in JsonTokens
<1>1. /\ at \in Nat /\ at + 1 \in 1..Len(input.tokens) /\ at + 1 \in 0..Len(input.tokens)
      /\ input.tokens \in Seq(Tokens)
  BY DEF Types, TypeOK, IsReply
<1>2. Token \in Tokens
  BY <1>1 DEF Token
<1>3. Token[1] = "nil" \/ Token[1] = "ext" \/ Token[2] \in Nat
  BY <1>2 DEF Tokens
<1>4. Printed(Token) \in JsonTokens
  <2>1. Printed(Token) \in Values
    BY <1>2 DEF Printed, Values
  <2> QED BY <2>1 DEF JsonTokens
<1> QED BY <1>1, <1>2, <1>3, <1>4 DEF Width

(* What writing w characters does to the position. *)
LEMMA Advances ==
  ASSUME Types, NEW w \in Nat, NEW next, Advance(w, next)
  PROVE  pos' \in Nat /\ pc' \in {next, "overrun"}
BY DEF Types, TypeOK, Advance

(* What is written is JSON. *)
LEMMA Writes ==
  ASSUME Types, NEW t \in JsonTokens, out' = Append(out, t)
  PROVE  out' \in Seq(JsonTokens)
BY DEF Types

(* A call that is made waits with the types it should have. *)
LEMMA Calls ==
  ASSUME Types, NEW for \in {"skip", "array", "map"}, NEW left \in Nat
  PROVE  /\ Call(for, left) \in Frame /\ Call(for, left).len < Size
         /\ Call(for, left).for = for /\ Call(for, left).left = left
<1>1. Size \in Nat /\ pos \in Nat
  BY SizeNat DEF Types, TypeOK
<1> QED BY <1>1 DEF Call, Room, Frame

(* The stack with a call more. *)
LEMMA Pushed ==
  ASSUME Types, NEW c \in Frame, c.len < Size
  PROVE  LET s == Append(stack, c)
         IN  /\ s \in Seq(Frame) /\ Len(s) = Len(stack) + 1 /\ s[Len(s)] = c
             /\ \A i \in 1..Len(stack) : s[i] = stack[i]
             /\ \A i \in 1..Len(s) : s[i].len < Size
<1>1. stack \in Seq(Frame) /\ \A i \in 1..Len(stack) : stack[i].len < Size
  BY DEF Types, TypeOK
<1>2. \A i \in 1..(Len(stack) + 1) : i \in 1..Len(stack) \/ i = Len(stack) + 1
  BY <1>1
<1> QED BY <1>1, <1>2

(* A sequence without its last element. *)
LEMMA Shortening ==
  ASSUME NEW S, NEW s \in Seq(S), Len(s) # 0
  PROVE  /\ SubSeq(s, 1, Len(s) - 1) \in Seq(S) /\ Len(SubSeq(s, 1, Len(s) - 1)) = Len(s) - 1
         /\ \A i \in 1..(Len(s) - 1) : SubSeq(s, 1, Len(s) - 1)[i] = s[i]
<1> DEFINE k == Len(s) - 1
<1>1. k \in Nat /\ \A i \in 1..k : i \in 1..Len(s)
  OBVIOUS
<1>2. \A i \in 1..k : s[i] \in S
  BY <1>1
<1> HIDE DEF k
<1>3. k \in Int /\ 1 \in Int
  BY <1>1
<1>4. /\ SubSeq(s, 1, k) \in Seq(S) /\ Len(SubSeq(s, 1, k)) = IF 1 <= k THEN k - 1 + 1 ELSE 0
      /\ \A i \in 1..(k - 1 + 1) : SubSeq(s, 1, k)[i] = s[1 + i - 1]
  BY <1>2, <1>3, SubSeqProperties
<1>5. (IF 1 <= k THEN k - 1 + 1 ELSE 0) = k /\ k - 1 + 1 = k /\ \A i \in 1..k : 1 + i - 1 = i
  BY <1>1
<1>6. \A i \in 1..k : SubSeq(s, 1, k)[i] = s[i]
  <2> TAKE i \in 1..k
  <2>1. i \in 1..(k - 1 + 1) /\ 1 + i - 1 = i
    BY <1>5
  <2> QED BY <1>4, <2>1
<1> QED BY <1>4, <1>5, <1>6 DEF k

(* The stack without its last call. *)
LEMMA Popped ==
  ASSUME Types, stack # <<>>
  PROVE  /\ Below \in Seq(Frame) /\ Len(Below) = Len(stack) - 1
         /\ Top \in Frame /\ Len(stack) \in Nat \ {0}
         /\ \A i \in 1..Len(Below) : Below[i] = stack[i] /\ Below[i].len < Size
<1>1. stack \in Seq(Frame) /\ \A i \in 1..Len(stack) : stack[i].len < Size
  BY DEF Types, TypeOK
<1>2. Len(stack) \in Nat \ {0}
  BY <1>1
<1>3. Top \in Frame
  BY <1>1, <1>2 DEF Top
<1>4. /\ Below \in Seq(Frame) /\ Len(Below) = Len(stack) - 1
      /\ \A i \in 1..Len(Below) : Below[i] = stack[i]
  <2>1. Len(stack) # 0
    BY <1>2
  <2>2. /\ Below \in Seq(Frame) /\ Len(Below) = Len(stack) - 1
        /\ \A i \in 1..(Len(stack) - 1) : Below[i] = stack[i]
    BY <1>1, <2>1, Shortening DEF Below
  <2> QED BY <2>2
<1>5. \A i \in 1..(Len(stack) - 1) : i \in 1..Len(stack)
  BY <1>2
<1> QED BY <1>1, <1>2, <1>3, <1>4, <1>5

(* The last call makes one call more. *)
LEMMA CalledAgain ==
  ASSUME Types, stack # <<>>, Top.left > 0
  PROVE  /\ CallAgain \in Seq(Frame) /\ Len(CallAgain) = Len(stack)
         /\ \A i \in 1..Len(stack) :
              /\ CallAgain[i].for = stack[i].for /\ CallAgain[i].len < Size
              /\ i # Len(stack) => CallAgain[i] = stack[i]
         /\ CallAgain[Len(stack)].left = Top.left - 1
         /\ CallAgain[Len(stack)].len = Top.len - 1
<1>1. /\ stack \in Seq(Frame) /\ \A i \in 1..Len(stack) : stack[i].len < Size
      /\ Len(stack) \in Nat \ {0} /\ Len(stack) \in 1..Len(stack) /\ Size \in Nat
  BY SizeNat DEF Types, TypeOK
<1> DEFINE again == [for |-> Top.for, left |-> Top.left - 1, len |-> Top.len - 1]
<1>2. Top \in Frame /\ Top = stack[Len(stack)] /\ Top.len < Size
  BY <1>1 DEF Top
<1>3. Top.left - 1 \in Nat /\ Top.len - 1 \in Int /\ Top.len - 1 < Size
  BY <1>1, <1>2 DEF Frame
<1>4. again \in Frame
  BY <1>2, <1>3 DEF Frame
<1>5. CallAgain = [stack EXCEPT ![Len(stack)] = again]
  BY DEF CallAgain
<1>6. again.for = Top.for /\ again.left = Top.left - 1 /\ again.len = Top.len - 1
  OBVIOUS
<1> HIDE DEF again
<1>7. /\ CallAgain \in Seq(Frame) /\ Len(CallAgain) = Len(stack)
      /\ CallAgain[Len(stack)] = again
      /\ \A i \in 1..Len(stack) : i # Len(stack) => CallAgain[i] = stack[i]
  BY <1>1, <1>4, <1>5
<1> QED BY <1>1, <1>2, <1>3, <1>6, <1>7

(* What was open stays open where the stack grows, and what is pushed      *)
(* joins it.                                                               *)
LEMMA FlagsPushed ==
  ASSUME Types, NEW c \in Frame, c.len < Size, stack' = Append(stack, c)
  PROVE  /\ MapWaits => MapWaits'
         /\ KeyWaits => KeyWaits'
         /\ c.for = "map" => MapWaits'
         /\ c.for = "map" /\ c.left % 2 = 1 => KeyWaits'
<1>1. /\ stack' \in Seq(Frame) /\ Len(stack') = Len(stack) + 1 /\ stack'[Len(stack')] = c
      /\ \A i \in 1..Len(stack) : stack'[i] = stack[i]
  BY Pushed
<1>2. Len(stack) \in Nat
  BY DEF Types
<1>3. /\ Len(stack') \in 1..Len(stack')
      /\ \A i \in 1..Len(stack) : i \in 1..Len(stack')
  BY <1>1, <1>2
<1>4. MapWaits => MapWaits'
  BY <1>1, <1>3 DEF MapWaits
<1>5. KeyWaits => KeyWaits'
  BY <1>1, <1>3 DEF KeyWaits
<1>6. c.for = "map" => MapWaits'
  BY <1>1, <1>3 DEF MapWaits
<1>7. c.for = "map" /\ c.left % 2 = 1 => KeyWaits'
  BY <1>1, <1>3 DEF KeyWaits
<1> QED BY <1>4, <1>5, <1>6, <1>7

(* What does not end keeps the rest of the types.                          *)
LEMMA TypesKept ==
  ASSUME Types, input' = input, at' \in 0..Len(input.tokens), pos' \in Nat,
         todo' \in 0..2, multireturn_skiped' \in 0..input.multireturn_skip_count,
         out' \in Seq(JsonTokens), stack' \in Seq(Frame),
         \A i \in 1..Len(stack') : stack'[i].len < Size,
         state' \subseteq {"MAP", "KEY"},
         "MAP" \in state' => MapWaits', "KEY" \in state' => KeyWaits',
         pc' \in {"call", "return", "done", "oom", "empty", "overrun"},
         pc' = "done" => state' = {} /\ stack' = <<>>
  PROVE  Types'
<1>1. Size' = Size
  BY DEF Size
<1>2. \A i \in DOMAIN stack' : /\ stack'[i].for \in {"skip", "array", "map"}
                               /\ stack'[i].left \in Nat /\ stack'[i].len < Size
  <2>1. DOMAIN stack' = 1..Len(stack')
    OBVIOUS
  <2>2. \A i \in 1..Len(stack') : stack'[i] \in Frame
    OBVIOUS
  <2> QED BY <2>1, <2>2 DEF Frame
<1>3. IsReply(input)'
  BY DEF Types, TypeOK, IsReply
<1> QED BY <1>1, <1>2, <1>3 DEF Types, TypeOK

(* What a type-correct state is, in parts.                                 *)
LEMMA Parts ==
  ASSUME Types
  PROVE  /\ at \in 0..Len(input.tokens) /\ pos \in Nat /\ todo \in 0..2
         /\ input.multireturn_skip_count \in Nat
         /\ multireturn_skiped \in 0..input.multireturn_skip_count
         /\ out \in Seq(JsonTokens) /\ stack \in Seq(Frame)
         /\ \A i \in 1..Len(stack) : stack[i].len < Size
         /\ state \subseteq {"MAP", "KEY"}
BY DEF Types, TypeOK, IsReply

(* A step that pushes a call and writes one bracket, or none.              *)
LEMMA PushKeeps ==
  ASSUME Types, input' = input, todo' = todo, at' \in 0..Len(input.tokens),
         NEW c \in Frame, c.len < Size, stack' = Append(stack, c),
         pos' \in Nat, out' \in Seq(JsonTokens),
         pc' \in {"call", "return", "overrun"},
         multireturn_skiped' \in 0..input.multireturn_skip_count,
         state' \subseteq {"MAP", "KEY"},
         "MAP" \in state' => "MAP" \in state \/ c.for = "map",
         "KEY" \in state' => "KEY" \in state \/ (c.for = "map" /\ c.left % 2 = 1)
  PROVE  Types'
<1>1. stack' \in Seq(Frame) /\ \A i \in 1..Len(stack') : stack'[i].len < Size
  BY Pushed
<1>2. ("MAP" \in state' => MapWaits') /\ ("KEY" \in state' => KeyWaits')
  BY FlagsPushed DEF Types
<1> QED BY <1>1, <1>2, Parts, TypesKept

(* A step that leaves the calls that wait alone.                           *)
LEMMA LevelKeeps ==
  ASSUME Types, input' = input, todo' \in 0..2, at' \in 0..Len(input.tokens),
         stack' = stack, state' = state, multireturn_skiped' = multireturn_skiped,
         pos' \in Nat, out' \in Seq(JsonTokens),
         pc' \in {"call", "return", "oom", "empty", "overrun"}
                 \cup (IF stack = <<>> THEN {"done"} ELSE {})
  PROVE  Types'
<1>1. (MapWaits' <=> MapWaits) /\ (KeyWaits' <=> KeyWaits)
  BY DEF MapWaits, KeyWaits
<1>2. stack = <<>> => state = {}
  BY DEF Types, TypeOK, MapWaits, KeyWaits
<1> QED BY <1>1, <1>2, Parts, TypesKept DEF Types

(* A token is decoded. *)
LEMMA DecodeTypes ==
  ASSUME Types, Decode
  PROVE  Types'
<1>1. /\ input' = input /\ todo' = todo /\ at < Len(input.tokens)
      /\ at' \in {at, at + 1}
  BY DEF Decode
<1>2. at' \in 0..Len(input.tokens)
  BY <1>1, Parts, TokenType
<1>3. CASE OOM
  BY <1>1, <1>2, <1>3, Parts, LevelKeeps DEF OOM
<1>4. CASE Extension(Token)
  BY <1>1, <1>2, <1>4, Parts, LevelKeeps DEF Extension
<1>5. CASE Scalar(Token)
  <2>1. /\ Width(Token) \in Nat /\ Printed(Token) \in JsonTokens
        /\ Advance(Width(Token), "return") /\ out' = Append(out, Printed(Token))
        /\ UNCHANGED <<state, multireturn_skiped, stack>>
    BY <1>1, <1>5, TokenType DEF Scalar
  <2>2. pos' \in Nat /\ pc' \in {"return", "overrun"}
    BY <2>1, Advances
  <2>3. out' \in Seq(JsonTokens)
    BY <2>1, Parts
  <2> QED BY <1>1, <1>2, <2>1, <2>2, <2>3, Parts, LevelKeeps
<1>6. CASE SkipArray(Token)
  <2>1. /\ stack' = Append(stack, Call("skip", 0)) /\ pc' = "call"
        /\ multireturn_skiped > 0 /\ multireturn_skiped' = multireturn_skiped - 1
        /\ UNCHANGED <<out, pos, state>>
    BY <1>6 DEF SkipArray, Skips
  <2>2. multireturn_skiped' \in 0..input.multireturn_skip_count
    BY <2>1, Parts
  <2>3. Call("skip", 0) \in Frame /\ Call("skip", 0).len < Size
    BY Calls
  <2> QED BY <1>1, <1>2, <2>1, <2>2, <2>3, Parts, PushKeeps
<1>7. CASE Array(Token)
  <2> DEFINE left == IF Token[2] = 0 THEN 0 ELSE Token[2] - 1
             next == IF Token[2] = 0 THEN "return" ELSE "call"
  <2>1. /\ Token[1] = "array" /\ out' = Append(out, <<"[">>)
        /\ stack' = Append(stack, Call("array", left)) /\ Advance(1, next)
        /\ UNCHANGED <<state, multireturn_skiped>>
    BY <1>7 DEF Array
  <2>2. left \in Nat
    BY <1>1, <2>1, TokenType
  <2>3. next \in {"return", "call"}
    OBVIOUS
  <2> HIDE DEF left, next
  <2>4. Call("array", left) \in Frame /\ Call("array", left).len < Size
    BY <2>2, Calls
  <2>5. pos' \in Nat /\ pc' \in {next, "overrun"}
    BY <2>1, Advances
  <2>6. out' \in Seq(JsonTokens)
    BY <2>1, Marks, Writes, Zenon
  <2> QED BY <1>1, <1>2, <2>1, <2>3, <2>4, <2>5, <2>6, Parts, PushKeeps
<1>8. CASE Map(Token)
  <2> DEFINE left == IF Token[2] = 0 THEN 0 ELSE 2 * Token[2] - 1
             next == IF Token[2] = 0 THEN "return" ELSE "call"
  <2>1. /\ Token[1] = "map" /\ out' = Append(out, <<"{">>)
        /\ stack' = Append(stack, Call("map", left)) /\ Advance(1, next)
        /\ state' = state \cup (IF Token[2] = 0 THEN {"MAP"} ELSE {"MAP", "KEY"})
        /\ UNCHANGED multireturn_skiped
    BY <1>8 DEF Map
  <2>2. left \in Nat /\ (Token[2] # 0 => left % 2 = 1)
    <3>1. \A n \in Nat \ {0} : 2 * n - 1 \in Nat /\ (2 * n - 1) % 2 = 1
      OBVIOUS
    <3> QED BY <1>1, <2>1, <3>1, TokenType
  <2>3. next \in {"return", "call"}
    OBVIOUS
  <2> HIDE DEF left, next
  <2>4. /\ Call("map", left) \in Frame /\ Call("map", left).len < Size
        /\ Call("map", left).for = "map" /\ Call("map", left).left = left
    BY <2>2, Calls
  <2>5. pos' \in Nat /\ pc' \in {next, "overrun"}
    BY <2>1, Advances
  <2>6. out' \in Seq(JsonTokens)
    BY <2>1, Marks, Writes, Zenon
  <2>7. /\ state' \subseteq {"MAP", "KEY"}
        /\ "KEY" \in state' => "KEY" \in state \/ Token[2] # 0
    BY <2>1, Parts
  <2> QED
    BY <1>1, <1>2, <2>1, <2>2, <2>3, <2>4, <2>5, <2>6, <2>7, Parts, PushKeeps
<1> QED BY <1>3, <1>4, <1>5, <1>6, <1>7, <1>8 DEF Decode

(* Put writes one character, or gives up.                                  *)
LEMMA Puts ==
  ASSUME Types, NEW ch, <<ch>> \in JsonTokens, NEW next, NEW frames, NEW flags,
         Put(<<ch>>, next, frames, flags)
  PROVE  \/ OOM
         \/ /\ pos' \in Nat /\ pc' \in {next, "overrun"} /\ out' = Append(out, <<ch>>)
            /\ out' \in Seq(JsonTokens) /\ stack' = frames /\ state' = flags
            /\ multireturn_skiped' = multireturn_skiped
<1>1. CASE Top.len < 1
  BY <1>1 DEF Put
<1>2. CASE ~(Top.len < 1)
  <2>1. /\ out' = Append(out, <<ch>>) /\ Advance(1, next) /\ stack' = frames
        /\ state' = flags /\ multireturn_skiped' = multireturn_skiped
    BY <1>2 DEF Put
  <2>2. pos' \in Nat /\ pc' \in {next, "overrun"}
    BY <2>1, Advances
  <2>3. out' \in Seq(JsonTokens)
    BY <2>1, Parts
  <2> QED BY <2>1, <2>2, <2>3
<1> QED BY <1>1, <1>2

(* The call that returned is the last one, of an array or to be skipped:   *)
(* maps stay open.                                                         *)
LEMMA FlagsPopped ==
  ASSUME Types, stack # <<>>, stack' = Below
  PROVE  /\ Top.for # "map" => (MapWaits => MapWaits')
         /\ Top.for # "map" \/ Top.left % 2 # 1 => (KeyWaits => KeyWaits')
<1>1. /\ Len(Below) = Len(stack) - 1 /\ Len(stack) \in Nat \ {0}
      /\ \A i \in 1..Len(Below) : Below[i] = stack[i]
  BY Popped
<1>2. \A i \in 1..Len(stack) : i \in 1..Len(Below) \/ stack[i] = Top
  <2>1. \A i \in 1..Len(stack) : i \in 1..(Len(stack) - 1) \/ i = Len(stack)
    BY <1>1
  <2> QED BY <1>1, <2>1 DEF Top
<1>3. \A i \in 1..Len(Below) : i \in 1..Len(stack')
  OBVIOUS
<1>4. Top.for # "map" => (MapWaits => MapWaits')
  BY <1>1, <1>2, <1>3 DEF MapWaits
<1>5. Top.for # "map" \/ Top.left % 2 # 1 => (KeyWaits => KeyWaits')
  BY <1>1, <1>2, <1>3 DEF KeyWaits
<1> QED BY <1>4, <1>5

(* The last call makes another: no call ends.                              *)
LEMMA FlagsAgain ==
  ASSUME Types, stack # <<>>, Top.left > 0, stack' = CallAgain
  PROVE  /\ MapWaits => MapWaits'
         /\ Top.for # "map" => (KeyWaits => KeyWaits')
         /\ Top.for = "map" /\ Top.left % 2 = 0 => KeyWaits'
<1>1. /\ Len(stack') = Len(stack) /\ Len(stack) \in Nat \ {0}
      /\ \A i \in 1..Len(stack) :
           stack'[i].for = stack[i].for /\ (i # Len(stack) => stack'[i] = stack[i])
      /\ stack'[Len(stack)].left = Top.left - 1 /\ Top.left \in Nat
  BY CalledAgain, Popped DEF Frame
<1>2. MapWaits => MapWaits'
  BY <1>1 DEF MapWaits
<1>3. Top.for # "map" => (KeyWaits => KeyWaits')
  BY <1>1 DEF KeyWaits, Top
<1>4. ASSUME Top.for = "map", Top.left % 2 = 0 PROVE KeyWaits'
  <2>1. \A l \in Nat : l > 0 /\ l % 2 = 0 => (l - 1) % 2 = 1
    OBVIOUS
  <2>2. stack'[Len(stack)].left % 2 = 1
    BY <1>1, <1>4, <2>1
  <2>4. stack'[Len(stack)].for = "map"
    BY <1>1, <1>4 DEF Top
  <2>3. Len(stack) \in 1..Len(stack')
    BY <1>1
  <2> QED BY <2>2, <2>3, <2>4 DEF KeyWaits
<1> QED BY <1>2, <1>3, <1>4

(* A call returns.                                                         *)
LEMMA ReturnTypes ==
  ASSUME Types, Return
  PROVE  Types'
<1>1. /\ pc = "return" /\ stack # <<>> /\ UNCHANGED <<input, at, todo>>
      /\ at' \in 0..Len(input.tokens) /\ todo' \in 0..2
  BY Parts DEF Return
<1>2. /\ Below \in Seq(Frame) /\ Top \in Frame
      /\ Len(Below) \in Nat
      /\ \A i \in 1..Len(Below) : Below[i].len < Size
  BY <1>1, Popped
<1>3. Top.left > 0 =>
        /\ CallAgain \in Seq(Frame)
        /\ \A i \in 1..Len(CallAgain) : CallAgain[i].len < Size
  BY <1>1, CalledAgain
<1>4. CASE OOM
  BY <1>1, <1>4, Parts, LevelKeeps DEF OOM
<1>5. CASE ReturnToSkip
  <2>1. /\ Top.for = "skip" /\ stack' = Below
        /\ UNCHANGED <<pc, out, pos, state, multireturn_skiped>>
    BY <1>5 DEF ReturnToSkip
  <2>2. Top.for # "map"
    BY <2>1
  <2>3. ("MAP" \in state' => MapWaits') /\ ("KEY" \in state' => KeyWaits')
    BY <1>1, <2>1, <2>2, FlagsPopped DEF Types
  <2> QED BY <1>1, <1>2, <2>1, <2>3, Parts, TypesKept
<1>6. CASE NextItem
  <2>1. Top.for = "array" /\ Top.left > 0 /\ Put(<<",">>, "call", CallAgain, state)
    BY <1>6 DEF NextItem
  <2>2. \/ OOM
        \/ /\ pos' \in Nat /\ pc' \in {"call", "overrun"}
           /\ out' \in Seq(JsonTokens) /\ stack' = CallAgain /\ state' = state
           /\ multireturn_skiped' = multireturn_skiped
    BY <2>1, Marks, Puts
  <2>3. CASE ~OOM
    <3>1. Top.for # "map" /\ stack' = CallAgain
      BY <2>1, <2>2, <2>3
    <3>2. ("MAP" \in state' => MapWaits') /\ ("KEY" \in state' => KeyWaits')
      BY <1>1, <2>1, <2>2, <2>3, <3>1, FlagsAgain DEF Types
    <3> QED BY <1>1, <1>3, <2>1, <2>2, <2>3, <3>2, Parts, TypesKept
  <2> QED BY <1>4, <2>3
<1>7. CASE EndArray
  <2>1. Top.for = "array" /\ Put(<<"]">>, "return", Below, state)
    BY <1>7 DEF EndArray
  <2>2. \/ OOM
        \/ /\ pos' \in Nat /\ pc' \in {"return", "overrun"}
           /\ out' \in Seq(JsonTokens) /\ stack' = Below /\ state' = state
           /\ multireturn_skiped' = multireturn_skiped
    BY <2>1, Marks, Puts
  <2>3. CASE ~OOM
    <3>1. Top.for # "map" /\ stack' = Below
      BY <2>1, <2>2, <2>3
    <3>2. ("MAP" \in state' => MapWaits') /\ ("KEY" \in state' => KeyWaits')
      BY <1>1, <2>2, <2>3, <3>1, FlagsPopped DEF Types
    <3> QED BY <1>1, <1>2, <2>1, <2>2, <2>3, <3>2, Parts, TypesKept
  <2> QED BY <1>4, <2>3
<1>8. CASE AfterKey
  <2>1. Top.for = "map" /\ Top.left % 2 = 1 /\ Put(<<":">>, "call", CallAgain, StateAfterKey)
    BY <1>8 DEF AfterKey
  <2>2. \/ OOM
        \/ /\ pos' \in Nat /\ pc' \in {"call", "overrun"}
           /\ out' \in Seq(JsonTokens) /\ stack' = CallAgain /\ state' = state \ {"KEY"}
           /\ multireturn_skiped' = multireturn_skiped
    BY <2>1, Marks, Puts DEF StateAfterKey
  <2>3. CASE ~OOM
    <3>1. Top.left > 0
      <4>1. Top.left \in Nat
        BY <1>2 DEF Frame
      <4> QED BY <2>1, <4>1
    <3>2. ("MAP" \in state' => MapWaits') /\ "KEY" \notin state'
      BY <1>1, <2>2, <2>3, <3>1, FlagsAgain DEF Types
    <3> QED BY <1>1, <1>3, <2>2, <2>3, <3>1, <3>2, Parts, TypesKept
  <2> QED BY <1>4, <2>3
<1>9. CASE NextPair
  <2>1. /\ Top.for = "map" /\ Top.left > 0 /\ Top.left % 2 = 0
        /\ Put(<<",">>, "call", CallAgain, state \cup {"KEY"})
    BY <1>9 DEF NextPair
  <2>2. \/ OOM
        \/ /\ pos' \in Nat /\ pc' \in {"call", "overrun"}
           /\ out' \in Seq(JsonTokens) /\ stack' = CallAgain /\ state' = state \cup {"KEY"}
           /\ multireturn_skiped' = multireturn_skiped
    BY <2>1, Marks, Puts
  <2>3. CASE ~OOM
    <3>1. ("MAP" \in state' => MapWaits') /\ KeyWaits'
      BY <1>1, <2>1, <2>2, <2>3, FlagsAgain DEF Types
    <3> QED BY <1>1, <1>3, <2>1, <2>2, <2>3, <3>1, Parts, TypesKept
  <2> QED BY <1>4, <2>3
<1>10. CASE EndMap
  <2>1. Top.for = "map" /\ Top.left = 0 /\ Put(<<"}">>, "return", Below, StateAfterMap)
    BY <1>10 DEF EndMap
  <2>2. \/ OOM
        \/ /\ pos' \in Nat /\ pc' \in {"return", "overrun"}
           /\ out' \in Seq(JsonTokens) /\ stack' = Below /\ state' = state \ {"MAP"}
           /\ multireturn_skiped' = multireturn_skiped
    BY <2>1, Marks, Puts DEF StateAfterMap
  <2>3. CASE ~OOM
    <3>1. Top.left % 2 # 1
      <4>1. Top.left = 0
        BY <2>1
      <4>2. 0 % 2 # 1
        OBVIOUS
      <4> QED BY <4>1, <4>2
    <3>2. "MAP" \notin state' /\ ("KEY" \in state' => KeyWaits')
      BY <1>1, <2>2, <2>3, <3>1, FlagsPopped DEF Types
    <3> QED BY <1>1, <1>2, <2>1, <2>2, <2>3, <3>2, Parts, TypesKept
  <2> QED BY <1>4, <2>3
<1> QED BY <1>5, <1>6, <1>7, <1>8, <1>9, <1>10 DEF Return

(* The types are kept by every step.                                       *)
LEMMA NextTypes == Types /\ [Next]_vars => Types'
<1> SUFFICES ASSUME Types, [Next]_vars PROVE Types'
  OBVIOUS
<1>1. CASE Decode
  BY <1>1, DecodeTypes
<1>2. CASE DecodeNothing
  BY <1>2, Parts, LevelKeeps DEF DecodeNothing
<1>3. CASE Return
  BY <1>3, ReturnTypes
<1>4. CASE NextValue
  <2>1. todo' \in 0..2
    BY <1>4, Parts DEF NextValue
  <2> QED BY <1>4, <2>1, Parts, LevelKeeps DEF NextValue
<1>5. CASE Complete
  <2>1. /\ stack = <<>> /\ UNCHANGED <<input, state, multireturn_skiped, at, stack, todo>>
        /\ IF Closes THEN out' = Append(out, <<"}">>) /\ Advance(1, "done")
           ELSE /\ pc' \in {"empty", "done"} /\ UNCHANGED <<out, pos>>
    BY <1>5 DEF Complete
  <2>2. CASE Closes
    <3>1. out' = Append(out, <<"}">>) /\ Advance(1, "done")
      BY <2>1, <2>2
    <3>2. pos' \in Nat /\ pc' \in {"done", "overrun"}
      BY <3>1, Advances
    <3>4. out' \in Seq(JsonTokens)
      BY <3>1, Marks, Writes, Zenon
    <3> QED BY <2>1, <3>2, <3>4, Parts, LevelKeeps
  <2>3. CASE ~Closes
    BY <2>1, <2>3, Parts, LevelKeeps
  <2> QED BY <2>2, <2>3
<1>6. CASE UNCHANGED vars
  <2>1. UNCHANGED <<input, out, pos, state, multireturn_skiped, at, stack, todo, pc>>
    BY <1>6 DEF vars
  <2>2. Size' = Size /\ (MapWaits' <=> MapWaits) /\ (KeyWaits' <=> KeyWaits)
    BY <2>1 DEF Size, MapWaits, KeyWaits
  <2> QED BY <2>1, <2>2 DEF Types, TypeOK, IsReply
<1> QED BY <1>1, <1>2, <1>3, <1>4, <1>5, <1>6 DEF Next

(* Types are kept; in particular both flags are down when a reply has been *)
(* printed, however deep its maps and arrays nest, and no more arrays are  *)
(* skipped than asked for.                                                 *)
THEOREM ReplyTypes == Spec => []TypeOK
<1>1. Types => TypeOK
  BY DEF Types
<1> QED BY <1>1, InitTypes, NextTypes, PTL DEF Spec

-----------------------------------------------------------------------------
(* Brackets *)

Count(s, t) == Cardinality({i \in 1..Len(s) : s[i] = t})
CountFor(s, f) == Cardinality({i \in 1..Len(s) : s[i].for = f})

(* A set of numbers up to n, with n + 1 or without it.                     *)
LEMMA OneMore ==
  ASSUME NEW n \in Nat, NEW A \in SUBSET (1..n), NEW b \in BOOLEAN,
         NEW B, B = A \cup (IF b THEN {n + 1} ELSE {})
  PROVE  /\ Cardinality(A) \in Nat
         /\ Cardinality(B) = Cardinality(A) + (IF b THEN 1 ELSE 0)
<1>1. IsFiniteSet(1..n)
  BY FS_Interval
<1>2. IsFiniteSet(A)
  BY <1>1, FS_Subset
<1>3. Cardinality(A) \in Nat
  BY <1>2, FS_CardinalityType
<1>4. n + 1 \notin A
  OBVIOUS
<1>5. CASE b
  <2>1. B = A \cup {n + 1}
    BY <1>5
  <2>2. Cardinality(A \cup {n + 1}) = Cardinality(A) + 1
    BY <1>2, <1>4, FS_AddElement
  <2> QED BY <1>3, <1>5, <2>1, <2>2
<1>6. CASE ~b
  <2>1. B = A
    BY <1>6
  <2> QED BY <1>3, <1>6, <2>1
<1> QED BY <1>5, <1>6

(* A token more. *)
LEMMA CountAdded ==
  ASSUME NEW s \in Seq(JsonTokens), NEW t \in JsonTokens, NEW u
  PROVE  /\ Count(s, u) \in Nat
         /\ t = u => Count(Append(s, t), u) = Count(s, u) + 1
         /\ t # u => Count(Append(s, t), u) = Count(s, u)
<1> DEFINE A == {i \in 1..Len(s) : s[i] = u}
           r == Append(s, t)
           B == {i \in 1..Len(r) : r[i] = u}
<1>1. /\ Len(s) \in Nat /\ Len(r) = Len(s) + 1 /\ r[Len(s) + 1] = t
      /\ \A i \in 1..Len(s) : r[i] = s[i]
  OBVIOUS
<1>2. \A i : i \in 1..(Len(s) + 1) <=> i \in 1..Len(s) \/ i = Len(s) + 1
  BY <1>1
<1> HIDE DEF r
<1>3. B = A \cup (IF t = u THEN {Len(s) + 1} ELSE {})
  BY <1>1, <1>2
<1>4. A \in SUBSET (1..Len(s)) /\ (t = u) \in BOOLEAN
  OBVIOUS
<1> HIDE DEF A, B
<1> DEFINE b == t = u
<1> HIDE DEF b
<1>5. Cardinality(A) \in Nat /\ Cardinality(B) = Cardinality(A) + (IF b THEN 1 ELSE 0)
  BY <1>1, <1>3, <1>4, OneMore DEF b
<1>6. /\ b => Cardinality(B) = Cardinality(A) + 1
      /\ ~b => Cardinality(B) = Cardinality(A)
  BY <1>5
<1> QED BY <1>5, <1>6, Zenon DEF Count, A, B, b, r

(* A call more. *)
LEMMA CountForAdded ==
  ASSUME NEW s \in Seq(Frame), NEW r, Len(r) = Len(s) + 1,
         \A i \in 1..Len(s) : r[i] = s[i], NEW f
  PROVE  /\ CountFor(s, f) \in Nat
         /\ CountFor(r, f) = CountFor(s, f) + (IF r[Len(s) + 1].for = f THEN 1 ELSE 0)
<1> DEFINE A == {i \in 1..Len(s) : s[i].for = f}
           B == {i \in 1..Len(r) : r[i].for = f}
           b == r[Len(s) + 1].for = f
<1>1. Len(s) \in Nat
  OBVIOUS
<1>2. \A i : i \in 1..(Len(s) + 1) <=> i \in 1..Len(s) \/ i = Len(s) + 1
  BY <1>1
<1>3. B = A \cup (IF b THEN {Len(s) + 1} ELSE {})
  BY <1>1, <1>2
<1>4. A \in SUBSET (1..Len(s)) /\ b \in BOOLEAN
  OBVIOUS
<1> HIDE DEF A, B, b
<1>5. Cardinality(A) \in Nat /\ Cardinality(B) = Cardinality(A) + (IF b THEN 1 ELSE 0)
  BY <1>1, <1>3, <1>4, OneMore
<1> QED BY <1>5 DEF CountFor, A, B, b

(* Brackets are no values. *)
LEMMA Brackets ==
  /\ \A tok, c : Printed(tok) # <<c>>
  /\ \A c, d : c # d => <<c>> # <<d>>
<1>1. \A a, b, c : <<a, b>> # <<c>>
  <2> SUFFICES ASSUME NEW a, NEW b, NEW c, <<a, b>> = <<c>> PROVE FALSE
    OBVIOUS
  <2>1. Len(<<a, b>>) = 2 /\ Len(<<c>>) = 1
    OBVIOUS
  <2> QED BY <2>1
<1>2. \A c, d : c # d => <<c>> # <<d>>
  OBVIOUS
<1> QED BY <1>1, <1>2 DEF Printed

Marked(o, c) == Count(o, <<c>>)

(* Brackets written, calls that wait, and e objects open besides.          *)
Even(o, s, e) ==
  /\ Marked(o, "[") = Marked(o, "]") + CountFor(s, "array")
  /\ Marked(o, "{") = Marked(o, "}") + CountFor(s, "map") + e

Envelope == IF Closes /\ pc # "done" THEN 1 ELSE 0

(* Balanced in these words. *)
LEMMA BalancedIsEven == Balanced <=> (pc # "overrun" => Even(out, stack, Envelope))
BY DEF Balanced, Even, Marked, Written, Waiting, Count, CountFor, Envelope

(* The same in the next state. *)
LEMMA EvenIsBalanced ==
  ASSUME NEW o, NEW s, NEW e, Even(o, s, e), out' = o, stack' = s, Envelope' = e
  PROVE  Balanced'
BY DEF Balanced, Even, Marked, Written, Waiting, Count, CountFor, Envelope

(* Counts of brackets and of calls, as numbers.                            *)
EvenNumbers(ao, ac, a, mo, mc, m, e) == ao = ac + a /\ mo = mc + m + e

(* Even is about these numbers. *)
LEMMA EvenIs ==
  ASSUME NEW o, NEW s, NEW e
  PROVE  Even(o, s, e) <=>
           EvenNumbers(Marked(o, "["), Marked(o, "]"), CountFor(s, "array"),
                       Marked(o, "{"), Marked(o, "}"), CountFor(s, "map"), e)
BY Zenon DEF Even, EvenNumbers

(* A token that is no bracket. *)
LEMMA EvenWithToken ==
  ASSUME NEW o \in Seq(JsonTokens), NEW s, NEW e, Even(o, s, e), NEW t \in JsonTokens,
         \A c \in {"[", "]", "{", "}"} : t # <<c>>
  PROVE  Even(Append(o, t), s, e)
<1>1. ASSUME NEW c \in {"[", "]", "{", "}"} PROVE Marked(Append(o, t), c) = Marked(o, c)
  <2> DEFINE u == <<c>>
  <2>1. t # u
    BY Zenon
  <2> HIDE DEF u
  <2>2. Count(Append(o, t), u) = Count(o, u)
    BY <2>1, CountAdded, Zenon
  <2> QED BY <2>2 DEF Marked, u
<1>2. /\ Marked(Append(o, t), "[") = Marked(o, "[") /\ Marked(Append(o, t), "]") = Marked(o, "]")
      /\ Marked(Append(o, t), "{") = Marked(o, "{") /\ Marked(Append(o, t), "}") = Marked(o, "}")
  BY <1>1, Zenon
<1> QED BY <1>2, EvenIs, Zenon

(* What a bracket adds to the counts. *)
LEMMA BracketCounts ==
  ASSUME NEW o \in Seq(JsonTokens), NEW b \in {"[", "]", "{", "}"},
         NEW c \in {"[", "]", "{", "}"}
  PROVE  /\ Marked(o, c) \in Nat
         /\ b = c => Marked(Append(o, <<b>>), c) = Marked(o, c) + 1
         /\ b # c => Marked(Append(o, <<b>>), c) = Marked(o, c)
<1> DEFINE t == <<b>>
           u == <<c>>
<1>1. t \in JsonTokens /\ ((t = u) <=> (b = c))
  BY Marks, Brackets
<1> HIDE DEF t, u
<1>2. /\ Count(o, u) \in Nat
      /\ b = c => Count(Append(o, t), u) = Count(o, u) + 1
      /\ b # c => Count(Append(o, t), u) = Count(o, u)
  BY <1>1, CountAdded, Zenon
<1> QED BY <1>2 DEF Marked, t, u

(* The brackets are different. *)
LEMMA FourBrackets ==
  /\ "[" # "]" /\ "[" # "{" /\ "[" # "}" /\ "]" # "{" /\ "]" # "}" /\ "{" # "}"
  /\ "array" # "map" /\ "skip" # "array" /\ "skip" # "map"
OBVIOUS

(* A bracket of an array that is opened or closed.                         *)
LEMMA ArrayBracket ==
  ASSUME NEW o \in Seq(JsonTokens), NEW s, NEW s1, NEW e,
         CountFor(s, "array") \in Nat, CountFor(s1, "array") \in Nat,
         CountFor(s1, "map") = CountFor(s, "map"), Even(o, s, e)
  PROVE  /\ CountFor(s1, "array") = CountFor(s, "array") + 1 => Even(Append(o, <<"[">>), s1, e)
         /\ CountFor(s, "array") = CountFor(s1, "array") + 1 => Even(Append(o, <<"]">>), s1, e)
<1> DEFINE opened == Append(o, <<"[">>)
           closed == Append(o, <<"]">>)
<1>1. /\ Marked(opened, "[") = Marked(o, "[") + 1 /\ Marked(opened, "]") = Marked(o, "]")
      /\ Marked(opened, "{") = Marked(o, "{") /\ Marked(opened, "}") = Marked(o, "}")
  BY BracketCounts, FourBrackets, Zenon
<1>2. /\ Marked(closed, "[") = Marked(o, "[") /\ Marked(closed, "]") = Marked(o, "]") + 1
      /\ Marked(closed, "{") = Marked(o, "{") /\ Marked(closed, "}") = Marked(o, "}")
  BY BracketCounts, FourBrackets, Zenon
<1>3. Marked(o, "[") \in Nat /\ Marked(o, "]") \in Nat
  BY BracketCounts, Zenon
<1>4. \A mo, mc, m : \A ao, ac, a, a1 \in Nat :
        EvenNumbers(ao, ac, a, mo, mc, m, e) =>
          /\ a1 = a + 1 => EvenNumbers(ao + 1, ac, a1, mo, mc, m, e)
          /\ a = a1 + 1 => EvenNumbers(ao, ac + 1, a1, mo, mc, m, e)
  BY DEF EvenNumbers
<1> HIDE DEF opened, closed
<1>5. EvenNumbers(Marked(o, "["), Marked(o, "]"), CountFor(s, "array"),
                  Marked(o, "{"), Marked(o, "}"), CountFor(s, "map"), e)
  BY EvenIs, Zenon
<1>6. CountFor(s1, "array") = CountFor(s, "array") + 1 => Even(opened, s1, e)
  <2>1. ASSUME CountFor(s1, "array") = CountFor(s, "array") + 1
        PROVE  EvenNumbers(Marked(o, "[") + 1, Marked(o, "]"), CountFor(s1, "array"),
                           Marked(o, "{"), Marked(o, "}"), CountFor(s, "map"), e)
    BY <1>3, <1>4, <1>5, <2>1
  <2> QED BY <1>1, <2>1, EvenIs
<1>7. CountFor(s, "array") = CountFor(s1, "array") + 1 => Even(closed, s1, e)
  <2>1. ASSUME CountFor(s, "array") = CountFor(s1, "array") + 1
        PROVE  EvenNumbers(Marked(o, "["), Marked(o, "]") + 1, CountFor(s1, "array"),
                           Marked(o, "{"), Marked(o, "}"), CountFor(s, "map"), e)
    BY <1>3, <1>4, <1>5, <2>1
  <2> QED BY <1>2, <2>1, EvenIs
<1> QED BY <1>6, <1>7 DEF opened, closed

(* A bracket of a map, or of the object around an answer.                  *)
LEMMA MapBracket ==
  ASSUME NEW o \in Seq(JsonTokens), NEW s, NEW s1, NEW e \in Nat, NEW e1 \in Nat,
         CountFor(s, "map") \in Nat, CountFor(s1, "map") \in Nat,
         CountFor(s1, "array") = CountFor(s, "array"), Even(o, s, e)
  PROVE  /\ CountFor(s1, "map") + e1 = CountFor(s, "map") + e + 1 => Even(Append(o, <<"{">>), s1, e1)
         /\ CountFor(s, "map") + e = CountFor(s1, "map") + e1 + 1 => Even(Append(o, <<"}">>), s1, e1)
<1> DEFINE opened == Append(o, <<"{">>)
           closed == Append(o, <<"}">>)
<1>1. /\ Marked(opened, "{") = Marked(o, "{") + 1 /\ Marked(opened, "}") = Marked(o, "}")
      /\ Marked(opened, "[") = Marked(o, "[") /\ Marked(opened, "]") = Marked(o, "]")
  BY BracketCounts, FourBrackets, Zenon
<1>2. /\ Marked(closed, "{") = Marked(o, "{") /\ Marked(closed, "}") = Marked(o, "}") + 1
      /\ Marked(closed, "[") = Marked(o, "[") /\ Marked(closed, "]") = Marked(o, "]")
  BY BracketCounts, FourBrackets, Zenon
<1>3. Marked(o, "{") \in Nat /\ Marked(o, "}") \in Nat
  BY BracketCounts, Zenon
<1>4. \A mo, mc, m, m1 \in Nat : \A ao, ac, a :
        EvenNumbers(ao, ac, a, mo, mc, m, e) =>
          /\ m1 + e1 = m + e + 1 => EvenNumbers(ao, ac, a, mo + 1, mc, m1, e1)
          /\ m + e = m1 + e1 + 1 => EvenNumbers(ao, ac, a, mo, mc + 1, m1, e1)
  BY DEF EvenNumbers
<1> HIDE DEF opened, closed
<1>5. EvenNumbers(Marked(o, "["), Marked(o, "]"), CountFor(s, "array"),
                  Marked(o, "{"), Marked(o, "}"), CountFor(s, "map"), e)
  BY EvenIs, Zenon
<1>6. CountFor(s1, "map") + e1 = CountFor(s, "map") + e + 1 => Even(opened, s1, e1)
  <2>1. ASSUME CountFor(s1, "map") + e1 = CountFor(s, "map") + e + 1
        PROVE  EvenNumbers(Marked(o, "["), Marked(o, "]"), CountFor(s, "array"),
                           Marked(o, "{") + 1, Marked(o, "}"), CountFor(s1, "map"), e1)
    BY <1>3, <1>4, <1>5, <2>1
  <2> QED BY <1>1, <2>1, EvenIs
<1>7. CountFor(s, "map") + e = CountFor(s1, "map") + e1 + 1 => Even(closed, s1, e1)
  <2>1. ASSUME CountFor(s, "map") + e = CountFor(s1, "map") + e1 + 1
        PROVE  EvenNumbers(Marked(o, "["), Marked(o, "]"), CountFor(s, "array"),
                           Marked(o, "{"), Marked(o, "}") + 1, CountFor(s1, "map"), e1)
    BY <1>3, <1>4, <1>5, <2>1
  <2> QED BY <1>2, <2>1, EvenIs
<1> QED BY <1>6, <1>7 DEF opened, closed

(* Calls that wait, with one more on the stack.                            *)
LEMMA WaitingFor ==
  ASSUME NEW s \in Seq(Frame), NEW r, Len(r) = Len(s) + 1,
         \A i \in 1..Len(s) : r[i] = s[i], NEW f, r[Len(s) + 1].for = f
  PROVE  /\ CountFor(s, "array") \in Nat /\ CountFor(s, "map") \in Nat
         /\ CountFor(r, "array") \in Nat /\ CountFor(r, "map") \in Nat
         /\ f = "array" => /\ CountFor(r, "array") = CountFor(s, "array") + 1
                           /\ CountFor(r, "map") = CountFor(s, "map")
         /\ f = "map" => /\ CountFor(r, "map") = CountFor(s, "map") + 1
                         /\ CountFor(r, "array") = CountFor(s, "array")
         /\ f = "skip" => /\ CountFor(r, "array") = CountFor(s, "array")
                          /\ CountFor(r, "map") = CountFor(s, "map")
<1>1. \A g : /\ CountFor(s, g) \in Nat
             /\ CountFor(r, g) = CountFor(s, g) + (IF f = g THEN 1 ELSE 0)
  <2> TAKE g
  <2>1. /\ CountFor(s, g) \in Nat
        /\ CountFor(r, g) = CountFor(s, g) + (IF r[Len(s) + 1].for = g THEN 1 ELSE 0)
    BY CountForAdded
  <2> QED BY <2>1, Zenon
<1>2. /\ CountFor(s, "array") \in Nat
      /\ CountFor(r, "array") = CountFor(s, "array") + (IF f = "array" THEN 1 ELSE 0)
  BY <1>1
<1>3. /\ CountFor(s, "map") \in Nat
      /\ CountFor(r, "map") = CountFor(s, "map") + (IF f = "map" THEN 1 ELSE 0)
  BY <1>1
<1> QED BY <1>2, <1>3

(* A bracket is opened for a call that is pushed.                          *)
LEMMA EvenPushed ==
  ASSUME NEW o \in Seq(JsonTokens), NEW s \in Seq(Frame), NEW e \in Nat, Even(o, s, e),
         NEW c \in Frame
  PROVE  /\ c.for = "array" => Even(Append(o, <<"[">>), Append(s, c), e)
         /\ c.for = "map" => Even(Append(o, <<"{">>), Append(s, c), e)
         /\ c.for = "skip" => Even(o, Append(s, c), e)
<1> DEFINE r == Append(s, c)
           opened == Append(o, <<"[">>)
           object == Append(o, <<"{">>)
<1>1. /\ Len(r) = Len(s) + 1 /\ r[Len(s) + 1] = c
      /\ \A i \in 1..Len(s) : r[i] = s[i]
  OBVIOUS
<1> HIDE DEF r
<1>2. /\ CountFor(s, "array") \in Nat /\ CountFor(s, "map") \in Nat
      /\ CountFor(r, "array") \in Nat /\ CountFor(r, "map") \in Nat
      /\ c.for = "array" => /\ CountFor(r, "array") = CountFor(s, "array") + 1
                            /\ CountFor(r, "map") = CountFor(s, "map")
      /\ c.for = "map" => /\ CountFor(r, "map") = CountFor(s, "map") + 1
                          /\ CountFor(r, "array") = CountFor(s, "array")
      /\ c.for = "skip" => /\ CountFor(r, "array") = CountFor(s, "array")
                           /\ CountFor(r, "map") = CountFor(s, "map")
  BY <1>1, WaitingFor
<1>3. c.for = "array" => Even(opened, r, e)
  BY <1>2, ArrayBracket, Zenon
<1>4. c.for = "map" => CountFor(r, "map") + e = CountFor(s, "map") + e + 1
  BY <1>2
<1>5. c.for = "map" => Even(object, r, e)
  BY <1>2, <1>4, MapBracket, Zenon
<1>6. c.for = "skip" => Even(o, r, e)
  BY <1>2, EvenIs, Zenon
<1> QED BY <1>3, <1>5, <1>6 DEF r

(* A bracket is closed for a call that returns.                            *)
LEMMA EvenPopped ==
  ASSUME Types, stack # <<>>, NEW e \in Nat, Even(out, stack, e)
  PROVE  /\ Top.for = "array" => Even(Append(out, <<"]">>), Below, e)
         /\ Top.for = "map" => Even(Append(out, <<"}">>), Below, e)
         /\ Top.for = "skip" => Even(out, Below, e)
<1> DEFINE closed == Append(out, <<"]">>)
           object == Append(out, <<"}">>)
<1>1. /\ Below \in Seq(Frame) /\ Len(Below) = Len(stack) - 1 /\ Len(stack) \in Nat \ {0}
      /\ \A i \in 1..Len(Below) : Below[i] = stack[i]
  BY Popped
<1>2. /\ Len(stack) = Len(Below) + 1 /\ Top = stack[Len(Below) + 1]
      /\ \A i \in 1..Len(Below) : stack[i] = Below[i]
  BY <1>1 DEF Top
<1>3. /\ CountFor(stack, "array") \in Nat /\ CountFor(stack, "map") \in Nat
      /\ CountFor(Below, "array") \in Nat /\ CountFor(Below, "map") \in Nat
      /\ Top.for = "array" => /\ CountFor(stack, "array") = CountFor(Below, "array") + 1
                              /\ CountFor(stack, "map") = CountFor(Below, "map")
      /\ Top.for = "map" => /\ CountFor(stack, "map") = CountFor(Below, "map") + 1
                            /\ CountFor(stack, "array") = CountFor(Below, "array")
      /\ Top.for = "skip" => /\ CountFor(stack, "array") = CountFor(Below, "array")
                             /\ CountFor(stack, "map") = CountFor(Below, "map")
  BY <1>1, <1>2, WaitingFor
<1>4. out \in Seq(JsonTokens)
  BY Parts
<1>5. Top.for = "array" => Even(closed, Below, e)
  BY <1>3, <1>4, ArrayBracket, Zenon
<1>6. Top.for = "map" => CountFor(stack, "map") + e = CountFor(Below, "map") + e + 1
  BY <1>3
<1>7. Top.for = "map" => Even(object, Below, e)
  BY <1>3, <1>4, <1>6, MapBracket, Zenon
<1>8. Top.for = "skip" => Even(out, Below, e)
  BY <1>3, EvenIs, Zenon
<1> QED BY <1>5, <1>7, <1>8

(* A call that makes another stays what it was.                            *)
LEMMA EvenAgain ==
  ASSUME Types, stack # <<>>, Top.left > 0, NEW o, NEW e, Even(o, stack, e)
  PROVE  Even(o, CallAgain, e)
<1>1. /\ Len(CallAgain) = Len(stack)
      /\ \A i \in 1..Len(stack) : CallAgain[i].for = stack[i].for
  BY CalledAgain
<1>2. \A f : CountFor(CallAgain, f) = CountFor(stack, f)
  BY <1>1 DEF CountFor
<1> QED BY <1>2 DEF Even

(* The object around an answer, or an error's, is opened and closed.       *)
LEMMA ObjectBracket ==
  ASSUME NEW o \in Seq(JsonTokens), NEW s, NEW e \in Nat,
         CountFor(s, "map") \in Nat, CountFor(s, "array") \in Nat
  PROVE  /\ Even(o, s, e) => Even(Append(o, <<"{">>), s, e + 1)
         /\ Even(o, s, e + 1) => Even(Append(o, <<"}">>), s, e)
<1>1. /\ CountFor(s, "map") + (e + 1) = CountFor(s, "map") + e + 1
      /\ e + 1 \in Nat
  OBVIOUS
<1>2. Even(o, s, e) => Even(Append(o, <<"{">>), s, e + 1)
  BY <1>1, MapBracket, Zenon
<1>3. Even(o, s, e + 1) => Even(Append(o, <<"}">>), s, e)
  BY <1>1, MapBracket, Zenon
<1> QED BY <1>2, <1>3

(* A step after which the answer is still to be completed.                 *)
LEMMA StaysEven ==
  ASSUME input' = input, pc # "done", pc' # "done", Even(out', stack', Envelope)
  PROVE  Balanced'
<1>1. Envelope' = Envelope
  BY DEF Envelope, Closes
<1> QED BY <1>1, EvenIsBalanced, Zenon

(* At most one object is open besides.                                     *)
LEMMA EnvelopeNat == Envelope \in Nat
BY DEF Envelope

(* Commas and colons are no brackets, nor is what a value prints.          *)
LEMMA NoBrackets ==
  /\ \A c \in {"[", "]", "{", "}"} : <<",">> # <<c>> /\ <<":">> # <<c>>
  /\ \A tok : \A c \in {"[", "]", "{", "}"} : Printed(tok) # <<c>>
<1>1. \A c \in {"[", "]", "{", "}"} : "," # c /\ ":" # c
  OBVIOUS
<1> QED BY <1>1, Brackets, Zenon

(* Brackets balance when an answer is begun.                               *)
LEMMA InitBalanced == Init => Balanced
<1> SUFFICES ASSUME Init PROVE Balanced
  OBVIOUS
<1>1. /\ stack = <<>> /\ out = Head0 /\ pc # "done" /\ input.error \in Nat
  BY RepliesAssumption DEF Init, IsReply
<1>2. CountFor(stack, "array") = 0 /\ CountFor(stack, "map") = 0
  <2>1. \A f : {i \in 1..Len(<<>>) : <<>>[i].for = f} = {}
    OBVIOUS
  <2> QED BY <1>1, <2>1, FS_EmptySet, Zenon DEF CountFor
<1> DEFINE e0 == <<>>
           e1 == Append(e0, <<"{">>)
           r2 == Append(e1, <<"result">>)
           f2 == Append(e1, <<"error">>)
           f3 == Append(f2, <<"{">>)
           f4 == Append(f3, <<"code", code_conv(input.error)>>)
           f5 == Append(f4, <<"}">>)
<1>3. /\ e0 \in Seq(JsonTokens) /\ e1 \in Seq(JsonTokens) /\ r2 \in Seq(JsonTokens)
      /\ f2 \in Seq(JsonTokens) /\ f3 \in Seq(JsonTokens) /\ f4 \in Seq(JsonTokens)
  <2>1. code_conv(input.error) \in Int
    BY <1>1 DEF code_conv
  <2>2. <<"code", code_conv(input.error)>> \in JsonTokens
    BY <2>1, Zenon DEF JsonTokens, Codes
  <2>3. \A s \in Seq(JsonTokens), t \in JsonTokens : Append(s, t) \in Seq(JsonTokens)
    OBVIOUS
  <2>4. e0 \in Seq(JsonTokens)
    OBVIOUS
  <2> HIDE DEF e0
  <2>5. e1 \in Seq(JsonTokens)
    BY <2>3, <2>4, Marks, Zenon
  <2>6. r2 \in Seq(JsonTokens) /\ f2 \in Seq(JsonTokens)
    BY <2>3, <2>5, Marks, Zenon
  <2>7. f3 \in Seq(JsonTokens)
    BY <2>3, <2>6, Marks, Zenon
  <2>8. f4 \in Seq(JsonTokens)
    BY <2>2, <2>3, <2>7, Zenon
  <2> QED BY <2>4, <2>5, <2>6, <2>7, <2>8
<1>4. /\ << <<"{">>, <<"result">> >> = r2
      /\ << <<"{">>, <<"error">>, <<"{">>, <<"code", code_conv(input.error)>>, <<"}">> >> = f5
  <2> DEFINE obj == <<"{">>
             res == <<"result">>
             err == <<"error">>
             cod == <<"code", code_conv(input.error)>>
             end == <<"}">>
  <2>1. <<obj, res>> = Append(Append(<<>>, obj), res)
    <3> HIDE DEF obj, res
    <3> QED OBVIOUS
  <2>2. <<obj, err, obj, cod, end>> =
          Append(Append(Append(Append(Append(<<>>, obj), err), obj), cod), end)
    <3> HIDE DEF obj, err, cod, end
    <3> QED OBVIOUS
  <2> QED BY <2>1, <2>2, Zenon
<1>5. Even(e0, stack, 0)
  <2>1. \A c : Marked(<<>>, c) = 0
    <3>1. \A c : {i \in 1..Len(<<>>) : <<>>[i] = <<c>>} = {}
      OBVIOUS
    <3> QED BY <3>1, FS_EmptySet, Zenon DEF Marked, Count
  <2>2. EvenNumbers(0, 0, 0, 0, 0, 0, 0)
    BY DEF EvenNumbers
  <2> QED BY <1>2, <2>1, <2>2, EvenIs, Zenon
<1> HIDE DEF e0
<1>6. /\ CountFor(stack, "map") \in Nat /\ CountFor(stack, "array") \in Nat
      /\ 0 \in Nat /\ 1 \in Nat /\ 0 + 1 = 1 /\ 1 + 1 = 2
  BY <1>2
<1>7. Even(e1, stack, 1)
  <2>1. Even(e1, stack, 0 + 1)
    BY <1>3, <1>5, <1>6, ObjectBracket, Zenon
  <2> QED BY <1>6, <2>1, Zenon
<1>8. \A c \in {"[", "]", "{", "}"} : "result" # c /\ "error" # c
  OBVIOUS
<1>9. Even(r2, stack, 1) /\ Even(f2, stack, 1)
  BY <1>3, <1>7, <1>8, Marks, Brackets, EvenWithToken, Zenon
<1>10. Even(f3, stack, 2)
  <2>1. Even(f3, stack, 1 + 1)
    BY <1>3, <1>6, <1>9, ObjectBracket, Zenon
  <2> QED BY <1>6, <2>1, Zenon
<1>11. Even(f4, stack, 2)
  <2>1. \A c \in {"[", "]", "{", "}"} : <<"code", code_conv(input.error)>> # <<c>>
    OBVIOUS
  <2>2. <<"code", code_conv(input.error)>> \in JsonTokens
    <3>1. code_conv(input.error) \in Int
      BY <1>1 DEF code_conv
    <3> QED BY <3>1, Zenon DEF JsonTokens, Codes
  <2> HIDE DEF f3
  <2> QED BY <1>3, <1>10, <2>1, <2>2, EvenWithToken, Zenon
<1>12. Even(f5, stack, 1)
  <2>1. Even(f4, stack, 1 + 1)
    BY <1>6, <1>11, Zenon
  <2> QED BY <1>3, <1>6, <2>1, ObjectBracket, Zenon
<1>13. \/ Head0 = e0 /\ Envelope = 0
       \/ Head0 = r2 /\ Envelope = 1
       \/ Head0 = f5 /\ Envelope = 1
  <2>1. input.codec \in {"reply", "dump"} /\ input.pure_result \in BOOLEAN
    BY RepliesAssumption DEF Init, IsReply
  <2> HIDE DEF r2, f5
  <2> QED BY <1>1, <1>4, <2>1 DEF Head0, Envelope, Closes, e0
<1>14. Even(Head0, stack, Envelope)
  <2> HIDE DEF r2, f5
  <2> QED BY <1>5, <1>9, <1>12, <1>13, Zenon
<1> QED BY <1>1, <1>14, BalancedIsEven, Zenon

(* Decoding a token keeps the balance. *)
LEMMA DecodeBalanced ==
  ASSUME Types, Balanced, Decode
  PROVE  Balanced'
<1>1. /\ pc = "call" /\ input' = input /\ at < Len(input.tokens)
  BY DEF Decode
<1>2. Even(out, stack, Envelope)
  BY <1>1, BalancedIsEven
<1>3. out \in Seq(JsonTokens) /\ stack \in Seq(Frame) /\ Envelope \in Nat
  BY Parts, EnvelopeNat
<1>4. CASE OOM
  <2>1. out' = out /\ stack' = stack /\ pc' = "oom"
    BY <1>4 DEF OOM
  <2> QED BY <1>1, <1>2, <2>1, StaysEven
<1>5. CASE Extension(Token)
  <2>1. out' = out /\ stack' = stack /\ pc' = "return"
    BY <1>5 DEF Extension
  <2> QED BY <1>1, <1>2, <2>1, StaysEven
<1>6. CASE Scalar(Token)
  <2>1. /\ Width(Token) \in Nat /\ Printed(Token) \in JsonTokens
        /\ Advance(Width(Token), "return") /\ out' = Append(out, Printed(Token))
        /\ stack' = stack
    BY <1>1, <1>6, TokenType DEF Scalar
  <2>2. pc' # "done"
    BY <2>1, Advances
  <2>3. Even(Append(out, Printed(Token)), stack, Envelope)
    BY <1>2, <1>3, <2>1, NoBrackets, EvenWithToken, Zenon
  <2> QED BY <1>1, <2>1, <2>2, <2>3, StaysEven
<1>7. CASE SkipArray(Token)
  <2>1. /\ stack' = Append(stack, Call("skip", 0)) /\ pc' = "call" /\ out' = out
    BY <1>7 DEF SkipArray
  <2>2. Call("skip", 0) \in Frame /\ Call("skip", 0).for = "skip"
    BY Calls
  <2>3. Even(out, Append(stack, Call("skip", 0)), Envelope)
    BY <1>2, <1>3, <2>2, EvenPushed, Zenon
  <2> QED BY <1>1, <2>1, <2>3, StaysEven
<1>8. CASE Array(Token)
  <2> DEFINE left == IF Token[2] = 0 THEN 0 ELSE Token[2] - 1
             next == IF Token[2] = 0 THEN "return" ELSE "call"
             c == Call("array", left)
  <2>1. /\ Token[1] = "array" /\ out' = Append(out, <<"[">>)
        /\ stack' = Append(stack, c) /\ Advance(1, next)
    BY <1>8 DEF Array
  <2>2. left \in Nat /\ next # "done"
    BY <1>1, <2>1, TokenType
  <2> HIDE DEF left, next
  <2>3. c \in Frame /\ c.for = "array"
    BY <2>2, Calls
  <2> HIDE DEF c
  <2>4. pc' # "done"
    BY <2>1, <2>2, Advances
  <2>5. Even(Append(out, <<"[">>), Append(stack, c), Envelope)
    BY <1>2, <1>3, <2>3, EvenPushed, Zenon
  <2> QED BY <1>1, <2>1, <2>4, <2>5, StaysEven, Zenon
<1>9. CASE Map(Token)
  <2> DEFINE left == IF Token[2] = 0 THEN 0 ELSE 2 * Token[2] - 1
             next == IF Token[2] = 0 THEN "return" ELSE "call"
             c == Call("map", left)
  <2>1. /\ Token[1] = "map" /\ out' = Append(out, <<"{">>)
        /\ stack' = Append(stack, c) /\ Advance(1, next)
    BY <1>9 DEF Map
  <2>2. left \in Nat /\ next # "done"
    <3>1. \A n \in Nat : n = 0 \/ 2 * n - 1 \in Nat
      OBVIOUS
    <3>2. Token[2] \in Nat
      BY <1>1, <2>1, TokenType
    <3> QED BY <3>1, <3>2
  <2> HIDE DEF left, next
  <2>3. c \in Frame /\ c.for = "map"
    BY <2>2, Calls
  <2> HIDE DEF c
  <2>4. pc' # "done"
    BY <2>1, <2>2, Advances
  <2>5. Even(Append(out, <<"{">>), Append(stack, c), Envelope)
    BY <1>2, <1>3, <2>3, EvenPushed, Zenon
  <2> QED BY <1>1, <2>1, <2>4, <2>5, StaysEven, Zenon
<1> QED BY <1>4, <1>5, <1>6, <1>7, <1>8, <1>9 DEF Decode

(* A return keeps the balance. *)
LEMMA ReturnBalanced ==
  ASSUME Types, Balanced, Return
  PROVE  Balanced'
<1>1. /\ pc = "return" /\ stack # <<>> /\ input' = input
  BY DEF Return
<1>2. Even(out, stack, Envelope)
  BY <1>1, BalancedIsEven
<1>3. out \in Seq(JsonTokens) /\ stack \in Seq(Frame) /\ Envelope \in Nat
  BY Parts, EnvelopeNat
<1>4. CASE OOM
  <2>1. out' = out /\ stack' = stack /\ pc' = "oom"
    BY <1>4 DEF OOM
  <2> QED BY <1>1, <1>2, <2>1, StaysEven
<1>5. CASE ReturnToSkip
  <2>1. Top.for = "skip" /\ stack' = Below /\ out' = out /\ pc' = pc
    BY <1>5 DEF ReturnToSkip
  <2>2. Even(out, Below, Envelope)
    BY <1>1, <1>2, <1>3, <2>1, EvenPopped, Zenon
  <2> QED BY <1>1, <2>1, <2>2, StaysEven
<1>6. ASSUME NEW ch \in {",", ":"}, NEW flags, Top.left > 0,
             Put(<<ch>>, "call", CallAgain, flags)
      PROVE  Balanced'
  <2>1. <<ch>> \in JsonTokens
    BY <1>6, Marks
  <2>2. \/ OOM
        \/ pc' # "done" /\ out' = Append(out, <<ch>>) /\ stack' = CallAgain
    <3>1. \/ OOM
          \/ pc' \in {"call", "overrun"} /\ out' = Append(out, <<ch>>) /\ stack' = CallAgain
      BY <1>6, <2>1, Puts, Zenon
    <3> QED BY <3>1
  <2>3. Even(Append(out, <<ch>>), stack, Envelope)
    BY <1>2, <1>3, <1>6, <2>1, NoBrackets, EvenWithToken
  <2>4. Even(Append(out, <<ch>>), CallAgain, Envelope)
    BY <1>1, <1>6, <2>3, EvenAgain
  <2> QED BY <1>1, <1>4, <2>2, <2>4, StaysEven
<1>7. CASE NextItem
  <2>1. Top.left > 0 /\ Put(<<",">>, "call", CallAgain, state)
    BY <1>7 DEF NextItem
  <2> QED BY <1>6, <2>1
<1>8. CASE AfterKey
  <2>1. Put(<<":">>, "call", CallAgain, StateAfterKey) /\ Top.left % 2 = 1
    BY <1>8 DEF AfterKey
  <2>2. Top.left > 0
    <3>1. Top.left \in Nat
      BY <1>1, Popped DEF Frame
    <3>2. \A n \in Nat : n % 2 = 1 => n > 0
      OBVIOUS
    <3> QED BY <2>1, <3>1, <3>2
  <2> QED BY <1>6, <2>1, <2>2
<1>9. CASE NextPair
  <2>1. Top.left > 0 /\ Put(<<",">>, "call", CallAgain, state \cup {"KEY"})
    BY <1>9 DEF NextPair
  <2> QED BY <1>6, <2>1
<1>10. CASE EndArray
  <2>1. Top.for = "array" /\ Put(<<"]">>, "return", Below, state)
    BY <1>10 DEF EndArray
  <2>2. \/ OOM
        \/ pc' # "done" /\ out' = Append(out, <<"]">>) /\ stack' = Below
    <3>1. \/ OOM
          \/ pc' \in {"return", "overrun"} /\ out' = Append(out, <<"]">>) /\ stack' = Below
      BY <2>1, Marks, Puts, Zenon
    <3> QED BY <3>1
  <2>3. Even(Append(out, <<"]">>), Below, Envelope)
    BY <1>1, <1>2, <1>3, <2>1, EvenPopped, Zenon
  <2> QED BY <1>1, <1>4, <2>2, <2>3, StaysEven
<1>11. CASE EndMap
  <2>1. Top.for = "map" /\ Put(<<"}">>, "return", Below, StateAfterMap)
    BY <1>11 DEF EndMap
  <2>2. \/ OOM
        \/ pc' # "done" /\ out' = Append(out, <<"}">>) /\ stack' = Below
    <3>1. \/ OOM
          \/ pc' \in {"return", "overrun"} /\ out' = Append(out, <<"}">>) /\ stack' = Below
      BY <2>1, Marks, Puts, Zenon
    <3> QED BY <3>1
  <2>3. Even(Append(out, <<"}">>), Below, Envelope)
    BY <1>1, <1>2, <1>3, <2>1, EvenPopped, Zenon
  <2> QED BY <1>1, <1>4, <2>2, <2>3, StaysEven
<1> QED BY <1>5, <1>7, <1>8, <1>9, <1>10, <1>11 DEF Return

(* The answer's own object is closed last.                                 *)
LEMMA CompleteBalanced ==
  ASSUME Types, Balanced, Complete
  PROVE  Balanced'
<1>1. /\ pc = "return" /\ stack' = stack /\ input' = input
      /\ IF Closes THEN out' = Append(out, <<"}">>) /\ Advance(1, "done")
         ELSE pc' \in {"empty", "done"} /\ out' = out
  BY DEF Complete
<1>2. Even(out, stack, Envelope)
  BY <1>1, BalancedIsEven
<1>3. out \in Seq(JsonTokens) /\ stack \in Seq(Frame)
  BY Parts
<1>4. CASE Closes
  <2>1. out' = Append(out, <<"}">>) /\ pc' \in {"done", "overrun"}
    BY <1>1, <1>4, Advances
  <2>2. Envelope = 1 /\ (pc' = "done" => Envelope' = 0)
    BY <1>1, <1>4 DEF Envelope
  <2>3. CountFor(stack, "map") \in Nat /\ CountFor(stack, "array") \in Nat
    <3>1. stack = <<>>
      BY DEF Complete
    <3>2. \A f : {i \in 1..Len(<<>>) : <<>>[i].for = f} = {}
      OBVIOUS
    <3> QED BY <3>1, <3>2, FS_EmptySet DEF CountFor
  <2>4. Even(Append(out, <<"}">>), stack, 0)
    <3>1. Even(out, stack, 0 + 1) /\ 0 \in Nat
      BY <1>2, <2>2
    <3> QED BY <1>3, <2>3, <3>1, ObjectBracket, Zenon
  <2>5. CASE pc' = "done"
    BY <1>1, <2>1, <2>2, <2>4, <2>5, EvenIsBalanced
  <2>6. CASE pc' = "overrun"
    BY <2>6 DEF Balanced
  <2> QED BY <2>1, <2>5, <2>6
<1>5. CASE ~Closes
  <2>1. out' = out /\ Envelope = 0 /\ Envelope' = 0
    BY <1>1, <1>5 DEF Envelope, Closes
  <2> QED BY <1>1, <1>2, <2>1, EvenIsBalanced
<1> QED BY <1>4, <1>5

(* Every step keeps the balance. *)
LEMMA NextBalanced == Types /\ Balanced /\ [Next]_vars => Balanced'
<1> SUFFICES ASSUME Types, Balanced, [Next]_vars PROVE Balanced'
  OBVIOUS
<1>1. CASE Decode
  BY <1>1, DecodeBalanced
<1>2. CASE Return
  BY <1>2, ReturnBalanced
<1>3. CASE Complete
  BY <1>3, CompleteBalanced
<1>4. ASSUME DecodeNothing \/ NextValue
      PROVE  Balanced'
  <2>1. /\ input' = input /\ out' = out /\ stack' = stack
        /\ pc \in {"call", "return"} /\ pc' \in {"call", "return"}
    BY <1>4 DEF DecodeNothing, NextValue
  <2>2. Even(out, stack, Envelope)
    BY <2>1, BalancedIsEven
  <2> QED BY <2>1, <2>2, StaysEven
<1>5. CASE UNCHANGED vars
  BY <1>5 DEF vars, Balanced, Written, Waiting, Closes
<1> QED BY <1>1, <1>2, <1>3, <1>4, <1>5 DEF Next

(* A reply of any depth, with arrays skipped in any place, is printed with *)
(* brackets that match: tp2json_transcode_internal's calls close what they *)
(* opened and nothing else, and Complete the object around the answer.     *)
THEOREM BracketsBalance == Spec => []Balanced
<1> QED BY InitTypes, NextTypes, InitBalanced, NextBalanced, PTL DEF Spec

-----------------------------------------------------------------------------
(* The text of a reply: sums over its tokens *)

(* What adds up numbers step by step is defined. *)
LEMMA SumExists ==
  ASSUME NEW N \in Nat, NEW w, \A n \in 1..N : w[n] \in Nat
  PROVE  \E f : f = [n \in 0..N |-> IF n = 0 THEN 0 ELSE f[n - 1] + w[n]]
<1> DEFINE step == [n \in 1..N |-> [d \in Nat |-> d + w[n]]]
<1>1. \A n \in 1..N : \A d \in Nat : step[n][d] = d + w[n] /\ step[n][d] \in Nat
  OBVIOUS
<1>2. PICK f \in [0..N -> Nat] : IsRun(f, 0, step, N)
  <2> HIDE DEF step
  <2>1. StaysIn(Nat, step, N)
    BY <1>1 DEF StaysIn
  <2> QED BY <2>1, Recursion
<1>3. \A n \in 1..N : n - 1 \in 0..N /\ n # 0 /\ n \in 0..N
  OBVIOUS
<1>4. f[0] = 0 /\ \A n \in 1..N : f[n] = f[n - 1] + w[n]
  <2> HIDE DEF step
  <2> QED BY <1>1, <1>2, <1>3 DEF IsRun
<1>5. f = [n \in 0..N |-> IF n = 0 THEN 0 ELSE f[n - 1] + w[n]]
  <2>1. \A n \in 0..N : n # 0 => n \in 1..N
    OBVIOUS
  <2> QED BY <1>2, <1>4, <2>1
<1> QED BY <1>5

(* What it adds up to is a number, and more with every step. *)
LEMMA SumSteps ==
  ASSUME NEW N \in Nat, NEW w, \A n \in 1..N : w[n] \in Nat,
         NEW f, f[0] = 0, \A n \in 1..N : f[n] = f[n - 1] + w[n]
  PROVE  /\ \A n \in 0..N : f[n] \in Nat
         /\ \A n \in 0..(N - 1) : f[n + 1] = f[n] + w[n + 1]
<1>2. \A n \in 0..(N - 1) : f[n + 1] = f[n] + w[n + 1]
  <2> SUFFICES ASSUME NEW n \in 0..(N - 1) PROVE f[n + 1] = f[n] + w[n + 1]
    OBVIOUS
  <2> DEFINE k == n + 1
  <2>1. k \in 1..N /\ k - 1 = n
    OBVIOUS
  <2> HIDE DEF k
  <2>2. f[k] = f[k - 1] + w[k]
    BY <2>1
  <2>3. f[k] = f[n] + w[k]
    BY <2>1, <2>2
  <2> QED BY <2>3 DEF k
<1>3. \A n \in 0..N : f[n] \in Nat
  <2> DEFINE S == {n \in Nat : n <= N => f[n] \in Nat}
  <2>1. 0 \in S
    OBVIOUS
  <2>2. ASSUME NEW n \in Nat, n \in S PROVE n + 1 \in S
    <3> SUFFICES ASSUME n + 1 <= N PROVE f[n + 1] \in Nat
      OBVIOUS
    <3>1. n + 1 \in 1..N /\ n \in 0..(N - 1) /\ n <= N
      OBVIOUS
    <3>2. f[n] \in Nat /\ w[n + 1] \in Nat /\ f[n + 1] = f[n] + w[n + 1]
      BY <1>2, <2>2, <3>1
    <3> QED BY <3>2
  <2> HIDE DEF S
  <2>3. Nat \subseteq S
    BY <2>1, <2>2, Induction
  <2> QED BY <2>3 DEF S
<1> QED BY <1>2, <1>3

(* What does not fall from one position to the next does not fall. *)
LEMMA NeverFalls ==
  ASSUME NEW N \in Nat, NEW f, \A n \in 0..N : f[n] \in Int,
         \A n \in 0..(N - 1) : f[n] <= f[n + 1],
         NEW m \in 0..N, NEW n \in m..N
  PROVE  f[m] <= f[n]
<1> DEFINE S == {d \in Nat : m + d <= N => f[m] <= f[m + d]}
<1>0. m \in Nat /\ m + 0 = m /\ m \in 0..N
  OBVIOUS
<1>1. 0 \in S
  BY <1>0
<1>2. ASSUME NEW d \in Nat, d \in S PROVE d + 1 \in S
  <2> SUFFICES ASSUME m + (d + 1) <= N PROVE f[m] <= f[m + (d + 1)]
    OBVIOUS
  <2> DEFINE k == m + d
  <2>1. k \in 0..(N - 1) /\ k \in 0..N /\ k + 1 \in 0..N /\ k + 1 = m + (d + 1) /\ k <= N
    BY <1>0
  <2>2. f[m] <= f[k]
    BY <1>2, <2>1
  <2> HIDE DEF k
  <2>3. f[k] <= f[k + 1] /\ f[m] \in Int /\ f[k] \in Int /\ f[k + 1] \in Int
    BY <1>0, <2>1
  <2>4. f[m] <= f[k + 1]
    BY <2>2, <2>3
  <2> QED BY <2>1, <2>4
<1> HIDE DEF S
<1>3. Nat \subseteq S
  BY <1>1, <1>2, Induction
<1>4. n - m \in Nat /\ m + (n - m) = n /\ n <= N
  BY <1>0
<1>5. n - m \in S
  BY <1>3, <1>4
<1>6. m + (n - m) <= N => f[m] <= f[m + (n - m)]
  BY <1>5 DEF S
<1> QED BY <1>4, <1>6

(* The tokens of a reply: what one announces is a number, and nothing is   *)
(* printed of a part that is skipped.                                      *)
LEMMA ReplyTokens ==
  ASSUME NEW q, IsReply(q)
  PROVE  /\ Len(q.tokens) \in Nat /\ Begin(q) \in 1..3
         /\ \A n \in 1..Len(q.tokens) : q.tokens[n] \in Tokens /\ Holds(q.tokens[n]) \in Nat
         /\ Boxes(q) \subseteq 1..Len(q.tokens)
<1>1. q.tokens \in Seq(Tokens) /\ q.multireturn_skip_count \in 0..2
  BY DEF IsReply
<1>2. Len(q.tokens) \in Nat /\ \A n \in 1..Len(q.tokens) : q.tokens[n] \in Tokens
  BY <1>1
<1>3. \A tok \in Tokens : Holds(tok) \in Nat
  <2> SUFFICES ASSUME NEW tok \in Tokens PROVE Holds(tok) \in Nat
    OBVIOUS
  <2>1. tok[1] \in {"array", "map"} => tok[2] \in Nat
    BY DEF Tokens
  <2>2. CASE tok[1] = "array"
    BY <2>1, <2>2 DEF Holds
  <2>3. CASE tok[1] = "map"
    <3>1. tok[1] # "array" /\ 2 * tok[2] \in Nat
      BY <2>1, <2>3
    <3> QED BY <2>3, <3>1 DEF Holds
  <2>4. CASE tok[1] # "array" /\ tok[1] # "map"
    BY <2>4 DEF Holds
  <2> QED BY <2>2, <2>3, <2>4
<1>4. Begin(q) \in 1..3
  BY <1>1 DEF Begin
<1> QED BY <1>2, <1>3, <1>4 DEF Boxes

(* How many values are announced, token by token. *)
LEMMA AnnouncedSteps ==
  ASSUME NEW q, IsReply(q)
  PROVE  LET announced == Announced(q.tokens)
         IN  /\ announced[0] = 0
             /\ \A n \in 0..Len(q.tokens) : announced[n] \in Nat
             /\ \A n \in 0..(Len(q.tokens) - 1) :
                  announced[n + 1] = announced[n] + Holds(q.tokens[n + 1])
<1> DEFINE N == Len(q.tokens)
           w == [n \in 1..N |-> Holds(q.tokens[n])]
           Body(g) == [n \in 0..N |-> IF n = 0 THEN 0 ELSE g[n - 1] + Holds(q.tokens[n])]
           WBody(g) == [n \in 0..N |-> IF n = 0 THEN 0 ELSE g[n - 1] + w[n]]
           upTo == CHOOSE g : g = Body(g)
<1>1. Announced(q.tokens) = upTo
  BY DEF Announced
<1>2. N \in Nat /\ \A n \in 1..N : Holds(q.tokens[n]) \in Nat
  BY ReplyTokens
<1> HIDE DEF N
<1>3. \A n \in 1..N : w[n] = Holds(q.tokens[n]) /\ w[n] \in Nat
  BY <1>2
<1> HIDE DEF w
<1>4. \A g : Body(g) = WBody(g)
  <2>1. \A n \in 0..N : n # 0 => n \in 1..N
    BY <1>2
  <2> QED BY <1>3, <2>1
<1>5. \E g : g = Body(g)
  <2>1. \E g : g = WBody(g)
    BY <1>2, <1>3, SumExists
  <2> HIDE DEF Body, WBody
  <2> QED BY <1>4, <2>1
<1>6. upTo = Body(upTo)
  <2> HIDE DEF Body
  <2> QED BY <1>5
<1> HIDE DEF upTo
<1>7. upTo[0] = 0 /\ \A n \in 1..N : upTo[n] = upTo[n - 1] + w[n]
  <2>1. 0 \in 0..N /\ \A n \in 1..N : n \in 0..N /\ n # 0
    BY <1>2
  <2> QED BY <1>3, <1>6, <2>1
<1>8. /\ \A n \in 0..N : upTo[n] \in Nat
      /\ \A n \in 0..(N - 1) : upTo[n + 1] = upTo[n] + w[n + 1]
  BY <1>2, <1>3, <1>7, SumSteps
<1>9. \A n \in 0..(N - 1) : upTo[n + 1] = upTo[n] + Holds(q.tokens[n + 1])
  <2>1. \A n \in 0..(N - 1) : n + 1 \in 1..N
    BY <1>2
  <2> QED BY <1>3, <1>8, <2>1
<1> QED BY <1>1, <1>7, <1>8, <1>9 DEF N

(* What a value lacks changes by what the next token announces. *)
LEMMA MissingSteps ==
  ASSUME NEW q, IsReply(q), NEW c \in 1..Len(q.tokens)
  PROVE  LET announced == Announced(q.tokens)
         IN  /\ Missing(announced, c, c) = Holds(q.tokens[c])
             /\ \A n \in c..Len(q.tokens) : Missing(announced, c, n) \in Int
             /\ \A n \in c..(Len(q.tokens) - 1) :
                  Missing(announced, c, n + 1)
                  = Missing(announced, c, n) + (Holds(q.tokens[n + 1]) - 1)
<1> DEFINE A == Announced(q.tokens)
           N == Len(q.tokens)
<1>1. N \in Nat /\ \A n \in 1..N : Holds(q.tokens[n]) \in Nat
  BY ReplyTokens
<1>2. /\ \A n \in 0..N : A[n] \in Nat
      /\ \A n \in 0..(N - 1) : A[n + 1] = A[n] + Holds(q.tokens[n + 1])
  BY AnnouncedSteps
<1>3. c \in Nat /\ c - 1 \in 0..N /\ c - 1 \in 0..(N - 1) /\ c - 1 + 1 = c /\ c \in 1..N /\ c \in 0..N
  BY <1>1
<1> HIDE DEF A, N
<1>4. A[c] = A[c - 1] + Holds(q.tokens[c]) /\ A[c - 1] \in Nat /\ A[c] \in Nat
  <2>1. A[c - 1 + 1] = A[c - 1] + Holds(q.tokens[c - 1 + 1])
    BY <1>2, <1>3
  <2> QED BY <1>2, <1>3, <2>1
<1>5. Missing(A, c, c) = Holds(q.tokens[c])
  <2>1. Holds(q.tokens[c]) \in Nat
    BY <1>1, <1>3
  <2> QED BY <1>3, <1>4, <2>1 DEF Missing
<1>6. \A n \in c..N : Missing(A, c, n) \in Int
  <2> SUFFICES ASSUME NEW n \in c..N PROVE Missing(A, c, n) \in Int
    OBVIOUS
  <2>1. n \in 0..N /\ n \in Int
    BY <1>1, <1>3
  <2>2. A[n] \in Nat
    BY <1>2, <2>1
  <2> QED BY <1>3, <1>4, <2>1, <2>2 DEF Missing
<1>7. \A n \in c..(N - 1) : Missing(A, c, n + 1) = Missing(A, c, n) + (Holds(q.tokens[n + 1]) - 1)
  <2> SUFFICES ASSUME NEW n \in c..(N - 1)
               PROVE  Missing(A, c, n + 1) = Missing(A, c, n) + (Holds(q.tokens[n + 1]) - 1)
    OBVIOUS
  <2>1. n \in 0..(N - 1) /\ n \in 0..N /\ n \in Int /\ n + 1 \in 1..N
    BY <1>1, <1>3
  <2>2. A[n + 1] = A[n] + Holds(q.tokens[n + 1]) /\ A[n] \in Nat /\ Holds(q.tokens[n + 1]) \in Nat
    BY <1>1, <1>2, <2>1
  <2> DEFINE h == Holds(q.tokens[n + 1])
             a == A[n]
             z == A[c - 1]
  <2>3. a \in Nat /\ h \in Nat /\ z \in Nat
    BY <1>4, <2>2
  <2>4. Missing(A, c, n + 1) = (a + h) - z - (n + 1 - c) /\ Missing(A, c, n) = a - z - (n - c)
    BY <2>2 DEF Missing
  <2> HIDE DEF a, h, z
  <2>5. (a + h) - z - (n + 1 - c) = (a - z - (n - c)) + (h - 1)
    BY <1>3, <2>1, <2>3
  <2> QED BY <2>4, <2>5 DEF h
<1> QED BY <1>5, <1>6, <1>7 DEF A, N

(* So does what the reply lacks, and it lacks not less than what is yet to *)
(* come.                                                                   *)
LEMMA LackingSteps ==
  ASSUME NEW q, IsReply(q), Begin(q) - 1 <= Len(q.tokens)
  PROVE  /\ Lacking(q, Begin(q) - 1) = (IF q.codec = "dump" THEN 3 ELSE 1)
         /\ \A n \in (Begin(q) - 1)..Len(q.tokens) : Lacking(q, n) \in Int
         /\ \A n \in (Begin(q) - 1)..(Len(q.tokens) - 1) :
              Lacking(q, n + 1) = Lacking(q, n) + (Holds(q.tokens[n + 1]) - 1)
         /\ \A m \in (Begin(q) - 1)..Len(q.tokens) : \A n \in m..Len(q.tokens) :
              Lacking(q, m) <= Lacking(q, n) + (n - m)
<1> DEFINE A == Announced(q.tokens)
           N == Len(q.tokens)
           b == Begin(q)
           W == IF q.codec = "dump" THEN 3 ELSE 1
<1>1. N \in Nat /\ b \in 1..3 /\ \A n \in 1..N : Holds(q.tokens[n]) \in Nat
  BY ReplyTokens
<1>2. /\ \A n \in 0..N : A[n] \in Nat
      /\ \A n \in 0..(N - 1) : A[n + 1] = A[n] + Holds(q.tokens[n + 1])
  BY AnnouncedSteps
<1>3. \A n : Lacking(q, n) = W + (A[n] - A[b - 1]) - (n + 1 - b)
  BY DEF Lacking
<1>4. b - 1 <= N /\ W \in Nat /\ b \in Nat
  BY <1>1
<1> HIDE DEF A, N, b, W
<1>5. b - 1 \in 0..N /\ A[b - 1] \in Nat
  <2>1. b - 1 \in 0..N
    BY <1>1, <1>4
  <2> QED BY <1>2, <2>1
<1>6. \A n \in (b - 1)..N : n \in 0..N /\ n \in Nat /\ A[n] \in Nat
  <2>1. \A n \in (b - 1)..N : n \in 0..N /\ n \in Nat
    BY <1>1
  <2> QED BY <1>2, <2>1
<1>7. Lacking(q, b - 1) = W
  <2>1. A[b - 1] - A[b - 1] = 0 /\ b - 1 + 1 - b = 0
    BY <1>4, <1>5
  <2> QED BY <1>3, <1>4, <2>1
<1>8. \A n \in (b - 1)..N : Lacking(q, n) \in Int
  <2> TAKE n \in (b - 1)..N
  <2>1. A[n] \in Int /\ A[b - 1] \in Int /\ n \in Int /\ W \in Int /\ b \in Int
    BY <1>4, <1>5, <1>6
  <2>2. W + (A[n] - A[b - 1]) - (n + 1 - b) \in Int
    BY ONLY <2>1
  <2> QED BY <1>3, <2>2
<1>9. ASSUME NEW n \in (b - 1)..(N - 1)
      PROVE  Lacking(q, n + 1) = Lacking(q, n) + (Holds(q.tokens[n + 1]) - 1)
  <2>1. n \in 0..(N - 1) /\ n \in (b - 1)..N /\ n \in Int /\ n + 1 \in 1..N
    BY <1>1
  <2> DEFINE h == Holds(q.tokens[n + 1])
             a == A[n]
             z == A[b - 1]
  <2>2. A[n + 1] = a + h /\ a \in Nat /\ h \in Nat /\ z \in Nat
    BY <1>1, <1>2, <1>5, <1>6, <2>1
  <2>3. Lacking(q, n + 1) = W + (a + h - z) - (n + 1 + 1 - b) /\ Lacking(q, n) = W + (a - z) - (n + 1 - b)
    BY <1>3, <2>2
  <2> HIDE DEF a, h, z
  <2>4. W + (a + h - z) - (n + 1 + 1 - b) = (W + (a - z) - (n + 1 - b)) + (h - 1)
    BY <1>4, <2>1, <2>2
  <2> QED BY <2>3, <2>4 DEF h
<1>10. ASSUME NEW m \in (b - 1)..N, NEW n \in m..N
       PROVE  Lacking(q, m) <= Lacking(q, n) + (n - m)
  <2>1. m \in 0..N /\ n \in m..N /\ n \in (b - 1)..N /\ n \in Nat /\ m \in Nat
    BY <1>1, <1>4
  <2>2. \A k \in 0..(N - 1) : k \in 0..N /\ k + 1 \in 1..N /\ k + 1 \in 0..N
    BY <1>1
  <2>3. \A k \in 0..(N - 1) : A[k] <= A[k + 1]
    <3> TAKE k \in 0..(N - 1)
    <3>1. A[k + 1] = A[k] + Holds(q.tokens[k + 1]) /\ A[k] \in Nat /\ Holds(q.tokens[k + 1]) \in Nat
      BY <1>1, <1>2, <2>2
    <3> QED BY <3>1
  <2>4. \A k \in 0..N : A[k] \in Int
    BY <1>2
  <2>5. A[m] <= A[n]
    BY <1>1, <2>1, <2>3, <2>4, NeverFalls
  <2>6. A[m] \in Nat /\ A[n] \in Nat
    BY <1>6, <2>1
  <2>7. /\ Lacking(q, m) = W + (A[m] - A[b - 1]) - (m + 1 - b)
        /\ Lacking(q, n) = W + (A[n] - A[b - 1]) - (n + 1 - b)
    BY <1>3
  <2>8. W \in Int /\ b \in Int /\ A[b - 1] \in Int /\ m \in Int /\ n \in Int
    BY <1>4, <1>5, <2>1
  <2> QED BY ONLY <2>5, <2>6, <2>7, <2>8
<1> QED BY <1>7, <1>8, <1>9, <1>10 DEF A, N, b, W

-----------------------------------------------------------------------------
(* The JSON that takes room. *)
TextTokens == {t \in JsonTokens : Chars(t) \in Nat \ {0}}

(* What a scalar takes is that of null, or the width of its token, and of  *)
(* two quotes if it is an integer in them.                                 *)
LEMMA CharsOfScalar ==
  ASSUME NEW tok \in Tokens, tok[1] \notin {"array", "map"}, NEW kind \in {"quoted", "plain"}
  PROVE  /\ <<kind, tok>> \in TextTokens
         /\ tok[1] \notin {"nil", "ext"} => tok[2] \in Nat \ {0}
         /\ Chars(<<kind, tok>>) =
              IF tok[1] \in {"nil", "ext"} THEN 4
              ELSE IF kind = "quoted" /\ tok[1] = "int" THEN tok[2] + 2 ELSE tok[2]
<1>1. <<kind, tok>> \in JsonTokens
  BY DEF JsonTokens, Values
<1> DEFINE t == <<kind, tok>>
<1>2. t[1] = kind /\ t[2] = tok
  OBVIOUS
<1>3. CASE tok = <<"nil">> \/ tok = <<"ext">>
  <2>1. Len(tok) = 1 /\ tok[1] \in {"nil", "ext"}
    BY <1>3
  <2>2. Chars(t) = 4
    BY <1>2, <2>1 DEF Chars
  <2> QED BY <1>1, <2>1, <2>2 DEF TextTokens
<1>4. CASE tok \in {"bool", "int", "double", "str"} \X (Nat \ {0})
  <2>1. Len(tok) = 2 /\ tok[1] \in {"bool", "int", "double", "str"} /\ tok[2] \in Nat \ {0}
    BY <1>4
  <2>2. Chars(t) = IF kind = "quoted" /\ tok[1] = "int" THEN tok[2] + 2 ELSE tok[2]
    BY <1>2, <2>1 DEF Chars
  <2> QED BY <1>1, <2>1, <2>2 DEF TextTokens
<1> QED BY <1>3, <1>4 DEF Tokens

(* Punctuation is one character each. *)
LEMMA MarksTakeRoom ==
  \A c \in {"[", "]", "{", "}", ",", ":"} : <<c>> \in TextTokens /\ Chars(<<c>>) = 1
<1>0. 1 \in Nat \ {0}
  OBVIOUS
<1> SUFFICES ASSUME NEW c \in {"[", "]", "{", "}", ",", ":"}
             PROVE  <<c>> \in TextTokens /\ Chars(<<c>>) = 1
  OBVIOUS
<1>1. <<c>> \in JsonTokens
  BY Marks
<1>2. <<c>>[1] = c
  OBVIOUS
<1>3. Chars(<<c>>) = 1
  BY <1>2 DEF Chars
<1>4. Chars(<<c>>) \in Nat \ {0}
  BY <1>0, <1>3, Zenon
<1> QED BY <1>1, <1>3, <1>4, Zenon DEF TextTokens

(* Not more values end at a token than there are. *)
LEMMA EndedFinite ==
  ASSUME NEW q, IsReply(q), NEW n
  PROVE  IsFiniteSet(Ended(q, n)) /\ Cardinality(Ended(q, n)) \in Nat /\ Ended(q, n) \subseteq Boxes(q)
<1>1. Ended(q, n) \subseteq Boxes(q)
  BY DEF Ended
<1>2. Ended(q, n) \subseteq 1..Len(q.tokens) /\ Len(q.tokens) \in Nat
  BY <1>1, ReplyTokens
<1>3. IsFiniteSet(1..Len(q.tokens))
  BY <1>2, FS_Interval
<1>4. IsFiniteSet(Ended(q, n))
  BY <1>2, <1>3, FS_Subset
<1> QED BY <1>1, <1>4, FS_CardinalityType

(* What is written for a token is JSON that takes room. *)
LEMMA MeaningType ==
  ASSUME NEW q, IsReply(q), NEW n \in 1..Len(q.tokens)
  PROVE  /\ Separator(q, n) \in Seq(TextTokens)
         /\ Own(q, n) \in TextTokens
         /\ Closers(q, n) \in Seq(TextTokens) /\ Len(Closers(q, n)) = Cardinality(Ended(q, n))
         /\ Meaning(q, n) \in Seq(TextTokens)
         /\ n < Begin(q) => Meaning(q, n) = <<>>
         /\ n >= Begin(q) =>
              Meaning(q, n) = (Separator(q, n) \o << Own(q, n) >>) \o Closers(q, n)
<1>1. \A c \in {"[", "]", "{", "}", ",", ":"} : <<c>> \in TextTokens
  BY MarksTakeRoom
<1>2. Separator(q, n) \in Seq(TextTokens)
  <2>1. /\ <<>> \in Seq(TextTokens)
        /\ << <<":">> >> \in Seq(TextTokens) /\ << <<",">> >> \in Seq(TextTokens)
    <3>1. \A t \in TextTokens : <<t>> \in Seq(TextTokens)
      OBVIOUS
    <3>2. <<>> \in Seq(TextTokens)
      OBVIOUS
    <3> QED BY <1>1, <3>1, <3>2, Zenon
  <2> QED BY <2>1, Zenon DEF Separator
<1>3. Own(q, n) \in TextTokens
  <2> DEFINE tok == q.tokens[n]
  <2>1. tok \in Tokens
    BY ReplyTokens
  <2> HIDE DEF tok
  <2>2. CASE tok[1] = "array"
    <3>1. Own(q, n) = <<"[">>
      BY <2>2 DEF Own, tok
    <3> QED BY <1>1, <3>1
  <2>3. CASE tok[1] = "map"
    <3>1. Own(q, n) = <<"{">>
      BY <2>3 DEF Own, tok
    <3> QED BY <1>1, <3>1
  <2>4. CASE tok[1] \notin {"array", "map"}
    <3>1. Own(q, n) = <<"quoted", tok>> \/ Own(q, n) = <<"plain", tok>>
      BY <2>4 DEF Own, tok
    <3> QED BY <2>1, <2>4, <3>1, CharsOfScalar
  <2> QED BY <2>2, <2>3, <2>4
<1>4. Closers(q, n) \in Seq(TextTokens) /\ Len(Closers(q, n)) = Cardinality(Ended(q, n))
  <2> DEFINE K == Cardinality(Ended(q, n))
             w(i) == IF q.tokens[Closed(q, n, i)][1] = "map" THEN <<"}">> ELSE <<"]">>
  <2>1. K \in Nat
    BY EndedFinite
  <2>2. \A i \in 1..K : w(i) \in TextTokens
    BY <1>1, Zenon
  <2>3. Closers(q, n) = [i \in 1..K |-> w(i)]
    BY DEF Closers
  <2> HIDE DEF K, w
  <2> QED BY <2>1, <2>2, <2>3 DEF K
<1>5. \A t \in TextTokens : <<t>> \in Seq(TextTokens)
  OBVIOUS
<1>6. (Separator(q, n) \o << Own(q, n) >>) \o Closers(q, n) \in Seq(TextTokens)
  <2>1. Separator(q, n) \o << Own(q, n) >> \in Seq(TextTokens)
    BY <1>2, <1>3, <1>5, ConcatProperties
  <2> QED BY <1>4, <2>1, ConcatProperties
<1>7. /\ n < Begin(q) => Meaning(q, n) = <<>>
      /\ n >= Begin(q) => Meaning(q, n) = (Separator(q, n) \o << Own(q, n) >>) \o Closers(q, n)
  <2>1. ~(n < Begin(q) /\ n >= Begin(q)) /\ (n < Begin(q) \/ n >= Begin(q))
    BY ReplyTokens
  <2> QED BY <2>1, Zenon DEF Meaning
<1>8. <<>> \in Seq(TextTokens)
  OBVIOUS
<1>9. Meaning(q, n) \in Seq(TextTokens)
  BY <1>6, <1>8, Zenon DEF Meaning
<1> QED BY <1>2, <1>3, <1>4, <1>7, <1>9

(* The text grows by what each token means. *)
LEMMA TextSteps ==
  ASSUME NEW q, IsReply(q)
  PROVE  /\ Text(q)[0] = <<>>
         /\ \A n \in 0..Len(q.tokens) : Text(q)[n] \in Seq(TextTokens)
         /\ \A n \in 0..(Len(q.tokens) - 1) :
              Text(q)[n + 1] = Text(q)[n] \o Meaning(q, n + 1)
<1> DEFINE N == Len(q.tokens)
           D == Seq(TextTokens)
           M(n) == Meaning(q, n)
           step == [n \in 1..N |-> [d \in D |-> d \o M(n)]]
           Body(g) == [n \in 0..N |-> IF n = 0 THEN <<>> ELSE g[n - 1] \o M(n)]
           upTo == CHOOSE g : g = Body(g)
<1>1. Text(q) = upTo
  BY DEF Text
<1>2. N \in Nat /\ \A n \in 1..N : M(n) \in D
  BY MeaningType, ReplyTokens
<1> HIDE DEF N, M
<1>3. \A n \in 1..N : \A d \in D : step[n][d] = d \o M(n) /\ step[n][d] \in D
  BY <1>2
<1>4. <<>> \in D
  OBVIOUS
<1>5. PICK f \in [0..N -> D] : IsRun(f, <<>>, step, N)
  <2> HIDE DEF D, step
  <2>1. StaysIn(D, step, N)
    BY <1>3 DEF StaysIn
  <2> QED BY <1>2, <1>4, <2>1, Recursion
<1>6. \A n \in 1..N : n - 1 \in 0..N /\ n # 0 /\ n \in 0..N
  BY <1>2
<1>7. f[0] = <<>> /\ \A n \in 1..N : f[n] = f[n - 1] \o M(n)
  <2> HIDE DEF D, step
  <2> QED BY <1>3, <1>5, <1>6 DEF IsRun
<1>8. f = Body(f)
  <2>1. \A n \in 0..N : n # 0 => n \in 1..N
    BY <1>2
  <2> HIDE DEF D
  <2> QED BY <1>5, <1>7, <2>1
<1>9. upTo = Body(upTo)
  <2> HIDE DEF Body
  <2> QED BY <1>8
<1> HIDE DEF upTo
<1>10. 0 \in 0..N
  BY <1>2
<1>11. upTo[0] = <<>>
  BY <1>9, <1>10
<1>12. \A n \in 0..(N - 1) : upTo[n + 1] = upTo[n] \o M(n + 1)
  <2>1. \A n \in 1..N : upTo[n] = upTo[n - 1] \o M(n)
    BY <1>6, <1>9
  <2> SUFFICES ASSUME NEW n \in 0..(N - 1) PROVE upTo[n + 1] = upTo[n] \o M(n + 1)
    OBVIOUS
  <2>2. n + 1 \in 1..N /\ n + 1 - 1 = n
    BY <1>2
  <2> DEFINE k == n + 1
  <2>3. k - 1 = n /\ k \in 1..N
    BY <2>2
  <2> HIDE DEF M, k
  <2>4. upTo[k] = upTo[k - 1] \o M(k)
    BY <2>1, <2>3
  <2>5. upTo[k] = upTo[n] \o M(k)
    BY <2>3, <2>4
  <2> QED BY <2>5 DEF k
<1>13. \A n \in 0..N : upTo[n] \in D
  <2> DEFINE S == {n \in Nat : n <= N => upTo[n] \in D}
  <2>1. 0 \in S
    BY <1>4, <1>11
  <2>2. ASSUME NEW n \in Nat, n \in S PROVE n + 1 \in S
    <3> SUFFICES ASSUME n + 1 <= N PROVE upTo[n + 1] \in D
      OBVIOUS
    <3>1. n + 1 \in 1..N /\ n \in 0..(N - 1) /\ n <= N
      BY <1>2
    <3>2. upTo[n] \in D /\ M(n + 1) \in D
      BY <1>2, <2>2, <3>1
    <3>3. upTo[n + 1] = upTo[n] \o M(n + 1)
      BY <1>12, <3>1
    <3> HIDE DEF M
    <3> QED BY <3>2, <3>3
  <2> HIDE DEF S
  <2>3. Nat \subseteq S
    BY <2>1, <2>2, Induction
  <2> QED BY <1>2, <2>3 DEF S
<1> QED BY <1>1, <1>11, <1>12, <1>13 DEF N, M

(* Of the parts that are skipped there is no text. *)
LEMMA NoTextYet ==
  ASSUME NEW q, IsReply(q), NEW n \in 0..Len(q.tokens), n < Begin(q)
  PROVE  Text(q)[n] = <<>>
<1> DEFINE S == {k \in Nat : k <= n => Text(q)[k] = <<>>}
<1>1. 0 \in S
  BY TextSteps
<1>2. ASSUME NEW k \in Nat, k \in S PROVE k + 1 \in S
  <2> SUFFICES ASSUME k + 1 <= n PROVE Text(q)[k + 1] = <<>>
    OBVIOUS
  <2>1. Len(q.tokens) \in Nat /\ Begin(q) \in Nat
    BY ReplyTokens
  <2>2. k \in 0..(Len(q.tokens) - 1) /\ k + 1 \in 1..Len(q.tokens) /\ k + 1 < Begin(q) /\ k <= n
    BY <2>1
  <2>3. Text(q)[k + 1] = Text(q)[k] \o Meaning(q, k + 1) /\ Meaning(q, k + 1) = <<>>
    BY <2>2, TextSteps, MeaningType
  <2>4. Text(q)[k] = <<>>
    BY <1>2, <2>2
  <2>5. <<>> \o <<>> = <<>>
    OBVIOUS
  <2> QED BY <2>3, <2>4, <2>5
<1> HIDE DEF S
<1>3. Nat \subseteq S
  BY <1>1, <1>2, Induction
<1> QED BY <1>3 DEF S

(* The room that text takes adds up. *)
LEMMA SizesSteps ==
  ASSUME NEW text \in Seq(TextTokens)
  PROVE  /\ Sizes(text)[0] = 0
         /\ \A n \in 0..Len(text) : Sizes(text)[n] \in Nat
         /\ \A n \in 0..(Len(text) - 1) : Sizes(text)[n + 1] = Sizes(text)[n] + Chars(text[n + 1])
<1> DEFINE N == Len(text)
           w == [n \in 1..N |-> Chars(text[n])]
           Body(g) == [n \in 0..N |-> IF n = 0 THEN 0 ELSE g[n - 1] + Chars(text[n])]
           WBody(g) == [n \in 0..N |-> IF n = 0 THEN 0 ELSE g[n - 1] + w[n]]
           upTo == CHOOSE g : g = Body(g)
<1>1. Sizes(text) = upTo
  BY DEF Sizes
<1>2. N \in Nat /\ \A n \in 1..N : Chars(text[n]) \in Nat
  <2>1. \A n \in 1..N : text[n] \in TextTokens
    OBVIOUS
  <2> QED BY <2>1 DEF TextTokens
<1> HIDE DEF N
<1>3. \A n \in 1..N : w[n] = Chars(text[n]) /\ w[n] \in Nat
  BY <1>2
<1> HIDE DEF w
<1>4. \A g : Body(g) = WBody(g)
  <2>1. \A n \in 0..N : n # 0 => n \in 1..N
    BY <1>2
  <2> QED BY <1>3, <2>1
<1>5. \E g : g = Body(g)
  <2>1. \E g : g = WBody(g)
    BY <1>2, <1>3, SumExists
  <2> HIDE DEF Body, WBody
  <2> QED BY <1>4, <2>1
<1>6. upTo = Body(upTo)
  <2> HIDE DEF Body
  <2> QED BY <1>5
<1> HIDE DEF upTo
<1>7. upTo[0] = 0 /\ \A n \in 1..N : upTo[n] = upTo[n - 1] + w[n]
  <2>1. 0 \in 0..N /\ \A n \in 1..N : n \in 0..N /\ n # 0
    BY <1>2
  <2> QED BY <1>3, <1>6, <2>1
<1>8. /\ \A n \in 0..N : upTo[n] \in Nat
      /\ \A n \in 0..(N - 1) : upTo[n + 1] = upTo[n] + w[n + 1]
  BY <1>2, <1>3, <1>7, SumSteps
<1>9. \A n \in 0..(N - 1) : upTo[n + 1] = upTo[n] + Chars(text[n + 1])
  <2>1. \A n \in 0..(N - 1) : n + 1 \in 1..N
    BY <1>2
  <2> QED BY <1>3, <1>8, <2>1
<1> QED BY <1>1, <1>7, <1>8, <1>9 DEF N

(* Texts that begin alike take as much room so far. *)
LEMMA SizesAgree ==
  ASSUME NEW s \in Seq(TextTokens), NEW t \in Seq(TextTokens),
         NEW n \in Nat, n <= Len(s), n <= Len(t), \A i \in 1..n : s[i] = t[i]
  PROVE  Sizes(s)[n] = Sizes(t)[n]
<1> DEFINE S == {k \in Nat : k <= n => Sizes(s)[k] = Sizes(t)[k]}
<1>1. 0 \in S
  <2>1. Sizes(s)[0] = 0 /\ Sizes(t)[0] = 0
    BY SizesSteps
  <2> QED BY <2>1
<1>2. ASSUME NEW k \in Nat, k \in S PROVE k + 1 \in S
  <2> SUFFICES ASSUME k + 1 <= n PROVE Sizes(s)[k + 1] = Sizes(t)[k + 1]
    OBVIOUS
  <2>1. Len(s) \in Nat /\ Len(t) \in Nat
    OBVIOUS
  <2>2. k \in 0..(Len(s) - 1) /\ k \in 0..(Len(t) - 1) /\ k + 1 \in 1..n /\ k <= n
    BY <2>1
  <2>3. /\ Sizes(s)[k + 1] = Sizes(s)[k] + Chars(s[k + 1])
        /\ Sizes(t)[k + 1] = Sizes(t)[k] + Chars(t[k + 1])
    BY <2>2, SizesSteps
  <2>4. Sizes(s)[k] = Sizes(t)[k] /\ s[k + 1] = t[k + 1]
    BY <1>2, <2>2
  <2> QED BY <2>3, <2>4, Zenon
<1> HIDE DEF S
<1>3. Nat \subseteq S
  BY <1>1, <1>2, Induction
<1> QED BY <1>3 DEF S

(* The room that a text takes: none, what another character string adds,   *)
(* and not less than there are strings in it.                              *)
LEMMA JsonSizeType ==
  ASSUME NEW s \in Seq(TextTokens)
  PROVE  JsonSize(s) \in Nat /\ (s = <<>> => JsonSize(s) = 0)
<1>1. Len(s) \in 0..Len(s) /\ (s = <<>> => Len(s) = 0)
  OBVIOUS
<1> QED BY <1>1, SizesSteps DEF JsonSize

(* What one string more takes is added. *)
LEMMA JsonSizeOneMore ==
  ASSUME NEW s \in Seq(TextTokens), NEW t \in TextTokens
  PROVE  /\ s \o <<t>> \in Seq(TextTokens)
         /\ JsonSize(s \o <<t>>) = JsonSize(s) + Chars(t)
<1> DEFINE u == s \o <<t>>
           n == Len(s)
<1>1. u \in Seq(TextTokens) /\ Len(u) = n + 1 /\ n \in Nat /\ u[n + 1] = t /\ \A i \in 1..n : u[i] = s[i]
  <2>1. <<t>> \in Seq(TextTokens) /\ Len(<<t>>) = 1 /\ <<t>>[1] = t
    OBVIOUS
  <2>2. n \in Nat
    OBVIOUS
  <2>3. n + 1 \in 1..(n + 1) /\ ~(n + 1 <= n) /\ (n + 1) - n = 1 /\ \A i \in 1..n : i \in 1..(n + 1) /\ i <= n
    BY <2>2
  <2>4. /\ u \in Seq(TextTokens) /\ Len(u) = n + 1
        /\ \A i \in 1..(n + 1) : u[i] = IF i <= n THEN s[i] ELSE <<t>>[i - n]
    BY <2>1, ConcatProperties
  <2> QED BY <2>1, <2>2, <2>3, <2>4
<1> HIDE DEF u
<1>2. n <= Len(u) /\ n <= Len(s) /\ n \in 0..(Len(u) - 1)
  BY <1>1
<1>3. Sizes(u)[n + 1] = Sizes(u)[n] + Chars(u[n + 1])
  BY <1>1, <1>2, SizesSteps
<1>4. Sizes(u)[n] = Sizes(s)[n]
  BY <1>1, <1>2, SizesAgree
<1> QED BY <1>1, <1>3, <1>4, Zenon DEF JsonSize, u

(* Each string takes room. *)
LEMMA JsonSizeGrows ==
  ASSUME NEW s \in Seq(TextTokens), NEW t \in Seq(TextTokens)
  PROVE  s \o t \in Seq(TextTokens) /\ JsonSize(s) + Len(t) <= JsonSize(s \o t)
<1> DEFINE u == s \o t
           n == Len(s)
           N == Len(u)
           f == [k \in 0..N |-> Sizes(u)[k] - k]
<1>1. u \in Seq(TextTokens) /\ N = n + Len(t) /\ n \in Nat /\ Len(t) \in Nat /\ \A i \in 1..n : u[i] = s[i]
  <2>1. n \in Nat /\ Len(t) \in Nat
    OBVIOUS
  <2>2. \A i \in 1..n : i \in 1..(n + Len(t)) /\ i <= n
    BY <2>1
  <2>3. /\ u \in Seq(TextTokens) /\ N = n + Len(t)
        /\ \A i \in 1..(n + Len(t)) : u[i] = IF i <= n THEN s[i] ELSE t[i - n]
    BY ConcatProperties
  <2> QED BY <2>1, <2>2, <2>3
<1> HIDE DEF u
<1>2. N \in Nat /\ n \in 0..N /\ N \in n..N /\ n <= N /\ n <= Len(s)
  BY <1>1
<1>3. \A k \in 0..N : Sizes(u)[k] \in Nat
  BY <1>1, SizesSteps
<1>4. \A k \in 0..N : f[k] \in Int /\ f[k] = Sizes(u)[k] - k
  BY <1>2, <1>3
<1>5. \A k \in 0..(N - 1) : f[k] <= f[k + 1]
  <2> SUFFICES ASSUME NEW k \in 0..(N - 1) PROVE f[k] <= f[k + 1]
    OBVIOUS
  <2>1. k \in 0..N /\ k + 1 \in 0..N /\ k + 1 \in 1..N /\ k \in Int
    BY <1>2
  <2>2. Sizes(u)[k + 1] = Sizes(u)[k] + Chars(u[k + 1])
    BY <1>1, SizesSteps
  <2>3. u[k + 1] \in TextTokens
    BY <1>1, <2>1
  <2>4. Chars(u[k + 1]) \in Nat \ {0} /\ Sizes(u)[k] \in Nat
    BY <1>3, <2>1, <2>3 DEF TextTokens
  <2> HIDE DEF N
  <2>5. f[k] = Sizes(u)[k] - k /\ f[k + 1] = Sizes(u)[k + 1] - (k + 1)
    BY <1>4, <2>1
  <2> HIDE DEF f
  <2> QED BY <2>1, <2>2, <2>4, <2>5
<1> HIDE DEF f
<1>6. f[n] <= f[N]
  BY <1>2, <1>4, <1>5, NeverFalls
<1>7. Sizes(u)[n] = Sizes(s)[n]
  BY <1>1, <1>2, SizesAgree
<1>8. f[n] = Sizes(u)[n] - n /\ f[N] = Sizes(u)[N] - N /\ Sizes(u)[n] \in Nat /\ Sizes(u)[N] \in Nat
  <2>1. N \in 0..N
    BY <1>2
  <2> QED BY <1>2, <1>3, <1>4, <2>1
<1>9. Sizes(u)[n] + Len(t) <= Sizes(u)[N]
  <2>1. n \in Nat /\ N = n + Len(t) /\ Len(t) \in Nat
    BY <1>1
  <2> QED BY ONLY <1>6, <1>8, <2>1
<1> QED BY <1>1, <1>7, <1>9, Zenon DEF JsonSize, u

(* With every token that is printed the text takes more room. *)
LEMMA TextGrows ==
  ASSUME NEW q, IsReply(q), NEW m \in (Begin(q) - 1)..Len(q.tokens), NEW n \in m..Len(q.tokens)
  PROVE  JsonSize(Text(q)[m]) + (n - m) <= JsonSize(Text(q)[n])
<1> DEFINE N == Len(q.tokens)
           b == Begin(q)
           z(k) == JsonSize(Text(q)[k])
           f == [k \in 0..N |-> IF k < b THEN 1 - b ELSE z(k) - k]
<1>1. N \in Nat /\ b \in 1..3 /\ b \in Nat /\ m \in 0..N /\ n \in m..N
  BY ReplyTokens
<1>2. \A k \in 0..N : z(k) \in Nat /\ (k < b => z(k) = 0)
  <2> TAKE k \in 0..N
  <2>1. Text(q)[k] \in Seq(TextTokens)
    BY TextSteps
  <2>2. k < b => Text(q)[k] = <<>>
    BY NoTextYet
  <2> QED BY <2>1, <2>2, JsonSizeType
<1>3. ASSUME NEW k \in 0..(N - 1), k + 1 >= b PROVE z(k) + 1 <= z(k + 1)
  <2> DEFINE mean == Meaning(q, k + 1)
  <2>1. k + 1 \in 1..N /\ k \in 0..N
    BY <1>1
  <2>2. /\ Separator(q, k + 1) \in Seq(TextTokens) /\ Closers(q, k + 1) \in Seq(TextTokens)
        /\ Own(q, k + 1) \in TextTokens /\ mean \in Seq(TextTokens)
        /\ mean = (Separator(q, k + 1) \o << Own(q, k + 1) >>) \o Closers(q, k + 1)
    BY <1>3, <2>1, MeaningType
  <2>3. Len(mean) >= 1
    <3>1. << Own(q, k + 1) >> \in Seq(TextTokens) /\ Len(<< Own(q, k + 1) >>) = 1
      BY <2>2
    <3>2. /\ Separator(q, k + 1) \o << Own(q, k + 1) >> \in Seq(TextTokens)
          /\ Len(Separator(q, k + 1) \o << Own(q, k + 1) >>) = Len(Separator(q, k + 1)) + 1
      BY <2>2, <3>1, ConcatProperties
    <3>3. Len(mean) = Len(Separator(q, k + 1)) + 1 + Len(Closers(q, k + 1))
      BY <2>2, <3>2, ConcatProperties
    <3>4. Len(Separator(q, k + 1)) \in Nat /\ Len(Closers(q, k + 1)) \in Nat
      BY <2>2, LenProperties
    <3> QED BY <3>3, <3>4
  <2>4. Text(q)[k] \in Seq(TextTokens) /\ Text(q)[k + 1] = Text(q)[k] \o mean
    BY <2>1, TextSteps
  <2>5. z(k) + Len(mean) <= z(k + 1)
    BY <2>2, <2>4, JsonSizeGrows
  <2>6. Len(mean) \in Nat
    BY <2>2, LenProperties
  <2>7. z(k) \in Nat /\ z(k + 1) \in Nat
    <3>1. k + 1 \in 0..N
      BY <1>1
    <3> QED BY <1>2, <2>1, <3>1
  <2> HIDE DEF z, mean
  <2> QED BY <2>3, <2>5, <2>6, <2>7
<1> HIDE DEF N, b, z
<1>4. \A k \in 0..N : f[k] \in Int /\ f[k] = IF k < b THEN 1 - b ELSE z(k) - k
  BY <1>1, <1>2
<1> HIDE DEF f
<1>5. \A k \in 0..(N - 1) : f[k] <= f[k + 1]
  <2> SUFFICES ASSUME NEW k \in 0..(N - 1) PROVE f[k] <= f[k + 1]
    OBVIOUS
  <2>1. k \in 0..N /\ k + 1 \in 0..N /\ k \in Int
    BY <1>1
  <2>2. /\ f[k] = IF k < b THEN 1 - b ELSE z(k) - k
        /\ f[k + 1] = IF k + 1 < b THEN 1 - b ELSE z(k + 1) - (k + 1)
        /\ z(k) \in Nat /\ z(k + 1) \in Nat /\ (k < b => z(k) = 0)
    BY <1>2, <1>4, <2>1
  <2>3. CASE k + 1 < b
    BY <1>1, <2>1, <2>2, <2>3
  <2>4. CASE k + 1 >= b
    <3>1. z(k) + 1 <= z(k + 1)
      BY <1>3, <2>4
    <3>2. CASE k < b
      <4>1. k + 1 = b /\ ~(k + 1 < b)
        BY <1>1, <2>1, <2>4, <3>2
      <4> QED BY <1>1, <2>1, <2>2, <3>1, <3>2, <4>1
    <3>3. CASE ~(k < b)
      <4>1. ~(k + 1 < b)
        BY <1>1, <2>1, <3>3
      <4> QED BY <1>1, <2>1, <2>2, <3>1, <3>3, <4>1
    <3> QED BY <3>2, <3>3
  <2> QED BY <1>1, <2>1, <2>3, <2>4
<1>6. f[m] <= f[n]
  BY <1>1, <1>4, <1>5, NeverFalls
<1>7. /\ n \in 0..N /\ m \in Int /\ n \in Int /\ b - 1 <= m /\ m <= n
      /\ z(m) \in Nat /\ z(n) \in Nat
      /\ (m < b => z(m) = 0) /\ (n < b => z(n) = 0)
  <2>1. n \in 0..N /\ m \in Int /\ n \in Int /\ b - 1 <= m /\ m <= n
    BY <1>1 DEF N, b
  <2> QED BY <1>1, <1>2, <2>1
<1>8. z(m) + (n - m) <= z(n)
  <2>1. /\ f[m] = (IF m < b THEN 1 - b ELSE z(m) - m)
        /\ f[n] = (IF n < b THEN 1 - b ELSE z(n) - n)
    BY <1>1, <1>4, <1>7
  <2>2. m < b => m = b - 1
    BY <1>1, <1>7
  <2>3. f[m] = z(m) - m
    BY <1>1, <1>7, <2>1, <2>2
  <2>4. f[n] = z(n) - n
    BY <1>1, <1>7, <2>1
  <2> QED BY <1>6, <1>7, <2>3, <2>4
<1> QED BY <1>8 DEF z

(* The text up to what is written for the token at n itself, and with the  *)
(* first j of the brackets that close what ends there.                     *)
Opened(q, n) == (Text(q)[n - 1] \o Separator(q, n)) \o << Own(q, n) >>
Shut(q, n, j) == Opened(q, n) \o SubSeq(Closers(q, n), 1, j)

(* Texts are joined in any order. *)
LEMMA Regrouped ==
  ASSUME NEW x \in Seq(TextTokens), NEW y \in Seq(TextTokens), NEW z \in Seq(TextTokens)
  PROVE  (x \o y) \o z = x \o (y \o z)
BY ConcatAssociative

(* Bracket by bracket it becomes the text up to n. *)
LEMMA ShutSteps ==
  ASSUME NEW q, IsReply(q), NEW n \in Begin(q)..Len(q.tokens)
  PROVE  LET k == Cardinality(Ended(q, n))
         IN  /\ Text(q)[n - 1] \o Separator(q, n) \in Seq(TextTokens)
             /\ Opened(q, n) \in Seq(TextTokens)
             /\ Shut(q, n, 0) = Opened(q, n)
             /\ Shut(q, n, k) = Text(q)[n]
             /\ \A j \in 0..k : Shut(q, n, j) \in Seq(TextTokens)
             /\ \A j \in 0..(k - 1) : Shut(q, n, j + 1) = Shut(q, n, j) \o << Closers(q, n)[j + 1] >>
<1> DEFINE k == Cardinality(Ended(q, n))
           t == Text(q)[n - 1]
           sep == Separator(q, n)
           own == << Own(q, n) >>
           o == Opened(q, n)
           c == Closers(q, n)
           D == Seq(TextTokens)
<1>1. n \in 1..Len(q.tokens) /\ n - 1 \in 0..(Len(q.tokens) - 1) /\ n - 1 \in 0..Len(q.tokens)
      /\ n - 1 + 1 = n /\ n >= Begin(q)
  BY ReplyTokens
<1>2. /\ sep \in D /\ own \in D /\ c \in D /\ Len(c) = k
      /\ Meaning(q, n) = (sep \o own) \o c
  BY <1>1, MeaningType
<1>3. t \in D /\ Text(q)[n] = t \o ((sep \o own) \o c)
  <2>1. Text(q)[n - 1 + 1] = Text(q)[n - 1] \o Meaning(q, n - 1 + 1)
    BY <1>1, TextSteps
  <2>2. t \in D
    BY <1>1, TextSteps
  <2> QED BY <1>1, <1>2, <2>1, <2>2
<1>4. o = (t \o sep) \o own
  BY DEF Opened
<1>5. k \in Nat
  BY EndedFinite
<1>6. \A j : Shut(q, n, j) = o \o SubSeq(c, 1, j)
  BY DEF Shut
<1> HIDE DEF t, sep, own, o, c, k, D
<1>7. t \o sep \in D /\ o \in D /\ sep \o own \in D
  BY <1>2, <1>3, <1>4, ConcatProperties DEF D
<1>8. Text(q)[n] = o \o c
  <2>1. (t \o sep) \o own = t \o (sep \o own)
    BY <1>2, <1>3, Regrouped DEF D
  <2>2. (t \o (sep \o own)) \o c = t \o ((sep \o own) \o c)
    <3>1. t \in D /\ sep \o own \in D /\ c \in D
      BY <1>2, <1>3, <1>7
    <3> QED BY <3>1, Regrouped DEF D
  <2> QED BY <1>3, <1>4, <2>1, <2>2, Zenon
<1>9. Shut(q, n, 0) = o
  <2>1. SubSeq(c, 1, 0) = <<>>
    BY SubSeqEmpty
  <2>2. o \o <<>> = o
    BY <1>7, ConcatEmptySeq DEF D
  <2> QED BY <1>6, <2>1, <2>2
<1>10. Shut(q, n, k) = Text(q)[n]
  <2>1. SubSeq(c, 1, Len(c)) = c
    BY <1>2, SubSeqFull DEF D
  <2> QED BY <1>2, <1>6, <1>8, <2>1
<1>11. \A j \in 0..k : SubSeq(c, 1, j) \in D
  <2> TAKE j \in 0..k
  <2>1. \A i \in 1..j : c[i] \in TextTokens
    <3>1. \A i \in 1..j : i \in 1..Len(c)
      BY <1>2, <1>5
    <3> QED BY <1>2, <3>1, ElementOfSeq DEF D
  <2>2. 1 \in Int /\ j \in Int
    OBVIOUS
  <2> QED BY <2>1, <2>2, SubSeqProperties DEF D
<1>12. \A j \in 0..k : Shut(q, n, j) \in D
  BY <1>6, <1>7, <1>11, ConcatProperties DEF D
<1>13. \A j \in 0..(k - 1) : Shut(q, n, j + 1) = Shut(q, n, j) \o << c[j + 1] >>
  <2> SUFFICES ASSUME NEW j \in 0..(k - 1) PROVE Shut(q, n, j + 1) = Shut(q, n, j) \o << c[j + 1] >>
    OBVIOUS
  <2>1. j + 1 \in 1..Len(c) /\ j \in 0..k /\ 1 \in 1..Len(c) /\ j + 1 \in 1..Len(c) /\ j + 1 - 1 = j
    BY <1>2, <1>5
  <2>2. SubSeq(c, 1, j + 1) = SubSeq(c, 1, j + 1 - 1) \o << c[j + 1] >>
    BY <1>2, <2>1, SubSeqRecursiveSecond DEF D
  <2>3. c[j + 1] \in TextTokens
    BY <1>2, <2>1, ElementOfSeq DEF D
  <2>4. << c[j + 1] >> \in D
    BY <2>3 DEF D
  <2>5. (o \o SubSeq(c, 1, j)) \o << c[j + 1] >> = o \o (SubSeq(c, 1, j) \o << c[j + 1] >>)
    <3>1. o \in D /\ SubSeq(c, 1, j) \in D
      BY <1>7, <1>11, <2>1
    <3> QED BY <2>4, <3>1, Regrouped DEF D
  <2> QED BY <1>6, <2>1, <2>2, <2>5
<1> QED BY <1>7, <1>9, <1>10, <1>12, <1>13 DEF t, sep, o, c, k, D

-----------------------------------------------------------------------------
(* What is so of a reply that has a JSON, when n of its tokens have been   *)
(* decoded: st are the calls that wait, s[i] is the token that the i-th is *)
(* about, ph the phase, fl the flags and td the values to transcode after  *)
(* this one.                                                               *)

Coming(ph) == IF ph = "call" THEN 1 ELSE 0
Lacks(q, c, n) == Missing(Announced(q.tokens), c, n)
Rest(q, n, s, ph, i) == IF i <= Len(s) THEN Lacks(q, s[i], n) ELSE Coming(ph)
Innermost(q, s) == IF Len(s) >= Begin(q) THEN s[Len(s)] ELSE 0
Named(q, st) == Len(st) >= Begin(q) /\ st[Len(st)].for = "map" /\ st[Len(st)].left % 2 = 1

(* A call waits for what its token lacks: the calls it will make, and what *)
(* the one it made lacks.                                                  *)
Waits(q, n, st, s, ph, i) ==
  /\ s[i] \in Boxes(q) /\ s[i] <= n /\ st[i].for = q.tokens[s[i]][1]
  /\ IsOpen(Announced(q.tokens), s[i], n - 1)
  /\ Lacks(q, s[i], n) = st[i].left + Rest(q, n, s, ph, i + 1)
  /\ Lacks(q, s[i], n) >= Coming(ph)
  /\ st[i].left + Place(n, ItemsOf(q, s[i]))
     = Holds(q.tokens[s[i]]) - (IF i = Len(s) THEN Coming(ph) ELSE 0)
  /\ st[i].left < Holds(q.tokens[s[i]]) \/ st[i].left = 0

(* A value for which no call waits has ended, and before those in it       *)
(* began.                                                                  *)
Over(q, n, s, c) ==
  \E m \in c..n :
    EndsAt(Announced(q.tokens), c, m) /\ \A i \in Begin(q)..Len(s) : c < s[i] => m < s[i]
Past(q, n, s) ==
  \A c \in Boxes(q) : c <= n => (\E i \in Begin(q)..Len(s) : c = s[i]) \/ Over(q, n, s, c)

Flags(q, n, st, s, ph, fl) ==
  /\ "KEY" \in fl => Named(q, st)
  /\ ph = "call" /\ Named(q, st) => "KEY" \in fl
  /\ \A i \in Begin(q)..Len(s) :
       q.tokens[s[i]][1] = "map" /\ (\A m \in (s[i] + 1)..n : q.tokens[m][1] # "map")
         => "MAP" \in fl

Reads(q, n, st, s, ph, fl, td) ==
  /\ n \in 0..Final(q) /\ s \in Seq(Nat) /\ Len(s) = Len(st)
  /\ n < Begin(q) => ph = "call" /\ Len(s) = n /\ td = IF q.codec = "dump" THEN 2 ELSE 0
  /\ n >= Begin(q) /\ ph = "call" => Len(s) >= Begin(q) - 1
  /\ td > 0 => q.codec = "dump"
  /\ n >= Begin(q) - 1 => Lacking(q, n) = td + Rest(q, n, s, ph, Begin(q))
  /\ \A i \in 1..Len(s) : i < Begin(q) => st[i].for = "skip"
  /\ \A i \in Begin(q)..Len(s) : Waits(q, n, st, s, ph, i)
  /\ \A i, j \in Begin(q)..Len(s) :
       i < j => s[i] < s[j] /\ Lacks(q, s[j], n) <= Lacks(q, s[i], n)
  /\ Past(q, n, s)
  /\ Flags(q, n, st, s, ph, fl)

(* The last token of a reply that has a JSON. *)
LEMMA FinalToken ==
  ASSUME NEW q, IsReply(q), IsLegible(q)
  PROVE  /\ Final(q) \in Begin(q)..Len(q.tokens) /\ Final(q) \in Nat
         /\ Lacking(q, Final(q)) = 0
         /\ \A n \in Begin(q)..Len(q.tokens) : Lacking(q, n) = 0 => Final(q) <= n
<1>1. Wholes(q) # {} /\ Wholes(q) \in SUBSET Nat
  <2>1. Wholes(q) # {}
    BY DEF IsLegible
  <2>2. Begin(q)..Len(q.tokens) \subseteq Nat
    BY ReplyTokens
  <2> QED BY <2>1, <2>2 DEF Wholes
<1>2. First(Wholes(q)) \in Wholes(q) /\ \A m \in Wholes(q) : First(Wholes(q)) <= m
  BY <1>1, FirstIsLeast
<1> QED BY <1>1, <1>2 DEF Final, Wholes

(* What a reply that is being read is, in types. *)
Known(q, n, st, s, ph) ==
  /\ n \in Nat /\ n <= Final(q) /\ n \in 0..Len(q.tokens)
  /\ Begin(q) \in 1..3 /\ Begin(q) \in Nat
  /\ s \in Seq(Nat) /\ Len(s) = Len(st) /\ Len(st) \in Nat
  /\ \A i \in Begin(q)..Len(s) :
       /\ i \in 1..Len(s) /\ s[i] \in 1..Len(q.tokens) /\ s[i] \in Boxes(q) /\ s[i] \in 1..n
       /\ st[i].left \in Nat /\ st[i] \in Frame
       /\ Lacks(q, s[i], n) \in Int /\ Holds(q.tokens[s[i]]) \in Nat
  /\ Coming(ph) \in 0..1
  /\ \A i \in Begin(q)..Len(s) : Waits(q, n, st, s, ph, i)
  /\ \A i, j \in Begin(q)..Len(s) :
       i < j => s[i] < s[j] /\ Lacks(q, s[j], n) <= Lacks(q, s[i], n)

(* It is so of every one. *)
LEMMA ReadTypes ==
  ASSUME NEW q, IsReply(q), IsLegible(q), NEW n, NEW st \in Seq(Frame), NEW s, NEW ph,
         NEW fl, NEW td \in Nat, Reads(q, n, st, s, ph, fl, td)
  PROVE  Known(q, n, st, s, ph)
<1>1. /\ n \in 0..Final(q) /\ s \in Seq(Nat) /\ Len(s) = Len(st)
      /\ \A i \in Begin(q)..Len(s) : Waits(q, n, st, s, ph, i)
      /\ \A i, j \in Begin(q)..Len(s) :
           i < j => s[i] < s[j] /\ Lacks(q, s[j], n) <= Lacks(q, s[i], n)
  BY DEF Reads
<1>2. Begin(q) \in 1..3 /\ Begin(q) \in Nat /\ Len(q.tokens) \in Nat
  BY ReplyTokens
<1>3. n \in Nat /\ n <= Final(q) /\ n \in 0..Len(q.tokens)
  BY <1>1, <1>2, FinalToken
<1>4. Len(st) \in Nat
  OBVIOUS
<1>5. ASSUME NEW i \in Begin(q)..Len(s)
      PROVE  /\ i \in 1..Len(s) /\ s[i] \in 1..Len(q.tokens) /\ s[i] \in Boxes(q) /\ s[i] \in 1..n
             /\ st[i].left \in Nat /\ st[i] \in Frame
             /\ Lacks(q, s[i], n) \in Int /\ Holds(q.tokens[s[i]]) \in Nat
  <2>1. i \in 1..Len(s) /\ i \in 1..Len(st)
    BY <1>1, <1>2, <1>4
  <2>2. s[i] \in Boxes(q) /\ s[i] <= n
    BY <1>1 DEF Waits
  <2>3. s[i] \in 1..Len(q.tokens) /\ Holds(q.tokens[s[i]]) \in Nat
    BY <2>2, ReplyTokens
  <2>4. s[i] \in 1..n /\ n \in s[i]..Len(q.tokens)
    BY <1>2, <1>3, <2>2, <2>3
  <2>5. st[i] \in Frame
    BY <2>1
  <2>6. st[i].left \in Nat
    BY <2>5 DEF Frame
  <2>7. Lacks(q, s[i], n) \in Int
    BY <2>3, <2>4, MissingSteps DEF Lacks
  <2> QED BY <2>1, <2>2, <2>3, <2>4, <2>5, <2>6, <2>7
<1>6. Coming(ph) \in 0..1
  BY DEF Coming
<1> QED BY <1>1, <1>2, <1>3, <1>4, <1>5, <1>6 DEF Known

(* A call that is about to be made has a token to decode. *)
LEMMA NotYet ==
  ASSUME NEW q, IsReply(q), IsLegible(q), NEW n, NEW st \in Seq(Frame), NEW s, NEW ph,
         NEW fl, NEW td \in Nat, Reads(q, n, st, s, ph, fl, td), ph = "call"
  PROVE  /\ n < Final(q) /\ n + 1 \in 1..Len(q.tokens) /\ n \in 0..(Len(q.tokens) - 1)
         /\ n + 1 \in 0..Final(q)
         /\ n >= Begin(q) - 1 => Lacking(q, n) >= 1
         /\ n >= Begin(q) - 1 => Len(s) >= Begin(q) - 1
<1>1. /\ n \in Nat /\ n <= Final(q) /\ Begin(q) \in Nat /\ Len(s) \in Nat
  <2>1. Known(q, n, st, s, ph)
    BY ReadTypes
  <2> QED BY <2>1 DEF Known
<1>2. Final(q) \in Nat /\ Begin(q) <= Final(q) /\ Final(q) <= Len(q.tokens) /\ Len(q.tokens) \in Nat
  BY FinalToken, ReplyTokens
<1>3. ASSUME n >= Begin(q) - 1 PROVE Lacking(q, n) >= 1
  <2>1. Lacking(q, n) = td + Rest(q, n, s, ph, Begin(q))
    BY <1>3 DEF Reads
  <2>2. Rest(q, n, s, ph, Begin(q)) \in Int /\ Rest(q, n, s, ph, Begin(q)) >= 1
    <3>1. CASE Begin(q) <= Len(s)
      <4>1. Begin(q) \in Begin(q)..Len(s)
        BY <1>1, <3>1
      <4>2. Lacks(q, s[Begin(q)], n) >= Coming(ph) /\ Lacks(q, s[Begin(q)], n) \in Int
        BY <4>1, ReadTypes DEF Waits, Known
      <4> QED BY <3>1, <4>2 DEF Rest, Coming
    <3>2. CASE ~(Begin(q) <= Len(s))
      BY <3>2 DEF Rest, Coming
    <3> QED BY <3>1, <3>2
  <2> QED BY <2>1, <2>2
<1>4. n # Final(q)
  <2>1. CASE n >= Begin(q) - 1
    BY <1>3, <2>1, FinalToken
  <2>2. CASE ~(n >= Begin(q) - 1)
    BY <1>1, <1>2, <2>2
  <2> QED BY <2>1, <2>2
<1>5. n >= Begin(q) - 1 => Len(s) >= Begin(q) - 1
  BY <1>1 DEF Reads
<1> QED BY <1>1, <1>2, <1>3, <1>4, <1>5

(* An array or map that is open is one that a call waits about.            *)
LEMMA OpenWaits ==
  ASSUME NEW q, IsReply(q), IsLegible(q), NEW n, NEW st \in Seq(Frame), NEW s, NEW ph,
         NEW fl, NEW td \in Nat, Reads(q, n, st, s, ph, fl, td), ph = "call"
  PROVE  Around(q, n + 1) = {s[i] : i \in Begin(q)..Len(s)}
<1> DEFINE A == Announced(q.tokens)
<1>1. n \in Nat /\ \A i \in Begin(q)..Len(s) : s[i] \in 1..n /\ s[i] \in Boxes(q) /\ Lacks(q, s[i], n) \in Int
  <2>1. Known(q, n, st, s, ph)
    BY ReadTypes
  <2> QED BY <2>1 DEF Known
<1>2. Boxes(q) \subseteq Nat
  BY ReplyTokens
<1>3. (n + 1) - 1 = n
  BY <1>1
<1>4. Around(q, n + 1) = {c \in Boxes(q) : c < n + 1 /\ IsOpen(A, c, n)}
  <2>1. Around(q, n + 1) = {c \in Boxes(q) : c < n + 1 /\ IsOpen(A, c, (n + 1) - 1)}
    BY DEF Around
  <2> QED BY <1>3, <2>1, Zenon
<1>5. ASSUME NEW c \in Boxes(q), c < n + 1, IsOpen(A, c, n)
      PROVE  \E i \in Begin(q)..Len(s) : c = s[i]
  <2>1. c <= n
    BY <1>1, <1>2, <1>5
  <2>2. ASSUME NEW m \in c..n, EndsAt(A, c, m) PROVE FALSE
    <3>1. Missing(A, c, m) = 0 /\ Missing(A, c, m) > 0
      BY <1>5, <2>2 DEF EndsAt, IsOpen
    <3> QED BY <3>1
  <2> QED BY <2>1, <2>2 DEF Reads, Past, Over
<1>6. ASSUME NEW i \in Begin(q)..Len(s) PROVE s[i] < n + 1 /\ IsOpen(A, s[i], n)
  <2>1. IsOpen(A, s[i], n - 1) /\ Lacks(q, s[i], n) >= Coming(ph)
    BY ReadTypes DEF Waits, Known
  <2>2. Missing(A, s[i], n) > 0
    BY <1>1, <2>1 DEF Coming, Lacks
  <2>3. \A m \in s[i]..n : m \in s[i]..(n - 1) \/ m = n
    BY <1>1
  <2>4. IsOpen(A, s[i], n)
    BY <2>1, <2>2, <2>3 DEF IsOpen
  <2>5. s[i] < n + 1
    BY <1>1
  <2> QED BY <2>4, <2>5
<1> HIDE DEF A
<1> QED BY <1>1, <1>4, <1>5, <1>6

(* What the next value is directly in is what the innermost call is about. *)
LEMMA InsideNext ==
  ASSUME NEW q, IsReply(q), IsLegible(q), NEW n, NEW st \in Seq(Frame), NEW s, NEW ph,
         NEW fl, NEW td \in Nat, Reads(q, n, st, s, ph, fl, td), ph = "call"
  PROVE  Inside(q, n + 1) = Innermost(q, s)
<1> DEFINE around == Around(q, n + 1)
<1>1. around = {s[i] : i \in Begin(q)..Len(s)}
  BY OpenWaits
<1>2. /\ n \in Nat /\ Begin(q) \in Nat /\ Len(s) \in Nat
      /\ \A i \in Begin(q)..Len(s) : s[i] \in 1..n
      /\ \A i, j \in Begin(q)..Len(s) : i < j => s[i] < s[j]
  <2>1. Known(q, n, st, s, ph)
    BY ReadTypes
  <2> QED BY <2>1 DEF Known
<1>3. Inside(q, n + 1) = IF around = {} THEN 0 ELSE Latest(n + 1, around)
  BY DEF Inside
<1> HIDE DEF around
<1>4. CASE Len(s) >= Begin(q)
  <2>1. Len(s) \in Begin(q)..Len(s)
    BY <1>2, <1>4
  <2>2. s[Len(s)] \in around /\ around \in SUBSET Nat /\ s[Len(s)] <= n + 1 /\ n + 1 \in Nat
    BY <1>1, <1>2, <2>1
  <2>3. \A i \in Begin(q)..Len(s) : s[i] <= s[Len(s)]
    <3> TAKE i \in Begin(q)..Len(s)
    <3>1. i = Len(s) \/ i < Len(s)
      BY <1>2
    <3>2. s[i] \in Nat /\ s[Len(s)] \in Nat
      BY <1>2, <2>1
    <3>3. i < Len(s) => s[i] < s[Len(s)]
      BY <1>2, <2>1
    <3>4. CASE i = Len(s)
      <4>1. s[i] = s[Len(s)]
        BY <3>4
      <4> QED BY <3>2, <4>1
    <3>5. CASE i < Len(s)
      BY <3>2, <3>3, <3>5
    <3> QED BY <3>1, <3>4, <3>5
  <2>4. \A k \in around : k <= n + 1 => k <= s[Len(s)]
    BY <1>1, <2>3
  <2>5. Latest(n + 1, around) = s[Len(s)]
    BY <2>2, <2>4, LatestIs
  <2> QED BY <1>3, <1>4, <2>2, <2>5 DEF Innermost
<1>5. CASE ~(Len(s) >= Begin(q))
  <2>1. Begin(q)..Len(s) = {}
    BY <1>2, <1>5
  <2> QED BY <1>1, <1>3, <1>5, <2>1 DEF Innermost
<1> QED BY <1>4, <1>5

(* The values in an array or map come after it.                            *)
LEMMA ItemsFollow ==
  ASSUME NEW q, IsReply(q), NEW c \in Nat \ {0}
  PROVE  /\ ItemsOf(q, c) \in SUBSET Nat
         /\ \A k \in ItemsOf(q, c) : c < k
         /\ Place(c, ItemsOf(q, c)) = 0
<1> DEFINE items == ItemsOf(q, c)
<1>1. items \in SUBSET Nat /\ \A k \in items : k \in Nat /\ Inside(q, k) = c
  <2>1. Begin(q)..Len(q.tokens) \subseteq Nat
    BY ReplyTokens
  <2> QED BY <2>1 DEF ItemsOf
<1>2. ASSUME NEW k \in items PROVE c < k
  <2> DEFINE around == Around(q, k)
  <2>1. around \in SUBSET Nat /\ \A m \in around : m < k
    <3>1. Boxes(q) \in SUBSET Nat
      BY ReplyTokens
    <3> QED BY <3>1 DEF Around
  <2>2. c = IF around = {} THEN 0 ELSE Latest(k, around)
    BY <1>1 DEF Inside
  <2> HIDE DEF around, items
  <2>3. around # {} /\ c = Latest(k, around)
    BY <2>2
  <2>4. PICK j \in around : TRUE
    BY <2>3
  <2>5. j <= k /\ k \in Nat
    BY <1>1, <2>1
  <2>6. Latest(k, around) \in around
    BY <2>1, <2>5, LatestExists
  <2> QED BY <2>1, <2>3, <2>6
<1> HIDE DEF items
<1>3. {m \in items : m <= c} = {}
  <2>1. \A m \in items : ~(m <= c)
    BY <1>1, <1>2
  <2> QED BY <2>1
<1>4. Place(c, items) = 0
  BY <1>3, FS_EmptySet DEF Place
<1> QED BY <1>1, <1>2, <1>4 DEF items

(* The next value is one more of what the innermost call is about, and of  *)
(* no other. *)
LEMMA PlaceOfNext ==
  ASSUME NEW q, IsReply(q), IsLegible(q), NEW n, NEW st \in Seq(Frame), NEW s, NEW ph,
         NEW fl, NEW td \in Nat, Reads(q, n, st, s, ph, fl, td), ph = "call",
         n + 1 >= Begin(q), NEW i \in Begin(q)..Len(s)
  PROVE  /\ Place(n, ItemsOf(q, s[i])) \in Nat
         /\ Place(n + 1, ItemsOf(q, s[i]))
            = Place(n, ItemsOf(q, s[i])) + (IF i = Len(s) THEN 1 ELSE 0)
<1> DEFINE items == ItemsOf(q, s[i])
<1>1. /\ n \in Nat /\ Begin(q) \in Nat /\ Len(s) \in Nat
      /\ \A j \in Begin(q)..Len(s) : s[j] \in 1..n
      /\ \A k, j \in Begin(q)..Len(s) : k < j => s[k] < s[j]
  <2>1. Known(q, n, st, s, ph)
    BY ReadTypes
  <2> QED BY <2>1 DEF Known
<1>2. i \in Nat /\ i <= Len(s) /\ Len(s) \in Begin(q)..Len(s) /\ Len(s) >= Begin(q)
  BY <1>1
<1>3. s[i] \in Nat \ {0} /\ s[Len(s)] \in Nat
  BY <1>1, <1>2
<1>4. items \in SUBSET Nat
  BY <1>3, ItemsFollow
<1>5. n + 1 \in items <=> s[i] = s[Len(s)]
  <2>1. Inside(q, n + 1) = s[Len(s)]
    BY <1>2, InsideNext DEF Innermost
  <2>2. n + 1 \in Begin(q)..Len(q.tokens)
    <3>1. n + 1 \in 1..Len(q.tokens)
      BY NotYet
    <3> QED BY <1>1, <3>1
  <2> QED BY <2>1, <2>2, Zenon DEF ItemsOf
<1>6. s[i] = s[Len(s)] <=> i = Len(s)
  <2>1. i < Len(s) => s[i] < s[Len(s)]
    BY <1>1, <1>2
  <2>2. i < Len(s) \/ i = Len(s)
    BY <1>1, <1>2
  <2>3. ~(s[i] < s[Len(s)] /\ s[i] = s[Len(s)])
    BY <1>3
  <2> QED BY <2>1, <2>2, <2>3
<1> HIDE DEF items
<1>7. Place(n, items) \in Nat /\ Place(n + 1, items) = IF n + 1 \in items THEN Place(n, items) + 1 ELSE Place(n, items)
  BY <1>1, <1>4, PlaceType, PlaceNext
<1> QED BY <1>5, <1>6, <1>7 DEF items

(* Its place is told by the calls that are left to make, and whether it is *)
(* a key by what the innermost call waits for.                             *)
LEMMA NthOfNext ==
  ASSUME NEW q, IsReply(q), IsLegible(q), NEW n, NEW st \in Seq(Frame), NEW s, NEW ph,
         NEW fl, NEW td \in Nat, Reads(q, n, st, s, ph, fl, td), ph = "call",
         n + 1 >= Begin(q)
  PROVE  /\ IsName(q, n + 1) <=> Named(q, st)
         /\ Len(st) >= Begin(q) =>
              /\ Inside(q, n + 1) = s[Len(st)] /\ s[Len(st)] # 0
              /\ InMap(q, n + 1) <=> st[Len(st)].for = "map"
              /\ Nth(q, n + 1) = Holds(q.tokens[s[Len(st)]]) - st[Len(st)].left
         /\ Len(st) < Begin(q) => Inside(q, n + 1) = 0
<1> DEFINE l == Len(st)
           c == s[l]
<1>1. /\ n \in Nat /\ Begin(q) \in Nat /\ Len(s) = l /\ l \in Nat
      /\ \A i \in Begin(q)..Len(s) :
           /\ s[i] \in 1..n /\ st[i].left \in Nat /\ Holds(q.tokens[s[i]]) \in Nat
           /\ Waits(q, n, st, s, ph, i)
  <2>1. Known(q, n, st, s, ph)
    BY ReadTypes
  <2> QED BY <2>1 DEF Known
<1>2. Inside(q, n + 1) = Innermost(q, s)
  BY InsideNext
<1>3. CASE l >= Begin(q)
  <2>1. l \in Begin(q)..Len(s)
    BY <1>1, <1>3
  <2>2. /\ c \in Boxes(q) /\ st[l].for = q.tokens[c][1]
        /\ st[l].left + Place(n, ItemsOf(q, c)) = Holds(q.tokens[c]) - 1
        /\ c \in 1..n /\ st[l].left \in Nat /\ Holds(q.tokens[c]) \in Nat
    BY <1>1, <2>1 DEF Waits, Coming
  <2>3. Place(n, ItemsOf(q, c)) \in Nat /\ Place(n + 1, ItemsOf(q, c)) = Place(n, ItemsOf(q, c)) + 1
    <3>1. l = Len(s)
      BY <1>1
    <3> QED BY <2>1, <3>1, PlaceOfNext
  <2>4. Inside(q, n + 1) = c
    BY <1>1, <1>2, <1>3 DEF Innermost
  <2>5. Nth(q, n + 1) = Holds(q.tokens[c]) - st[l].left
    <3>1. Nth(q, n + 1) = Place(n + 1, ItemsOf(q, c))
      BY <2>4 DEF Nth
    <3> QED BY <2>2, <2>3, <3>1
  <2>6. InMap(q, n + 1) <=> st[l].for = "map"
    BY <2>2, <2>4 DEF InMap
  <2>7. IsName(q, n + 1) <=> Named(q, st)
    <3>1. CASE st[l].for = "map"
      <4>1. q.tokens[c][1] = "map" /\ q.tokens[c][1] # "array"
        BY <2>2, <3>1
      <4>2. Holds(q.tokens[c]) = 2 * q.tokens[c][2]
        BY <4>1 DEF Holds
      <4>3. q.tokens[c][2] \in Nat
        <5>1. q.tokens[c] \in Tokens
          <6>1. c \in 1..Len(q.tokens)
            BY <2>2, ReplyTokens
          <6> QED BY <6>1, ReplyTokens
        <5> QED BY <4>1, <5>1 DEF Tokens
      <4> DEFINE k == q.tokens[c][2]
                 left == st[l].left
      <4>4. k \in Nat /\ left \in Nat /\ Nth(q, n + 1) = 2 * k - left
        BY <2>2, <2>5, <4>2, <4>3
      <4> HIDE DEF k, left
      <4>5. (2 * k - left) % 2 = 1 <=> left % 2 = 1
        BY <4>4
      <4>6. Nth(q, n + 1) % 2 = 1 <=> st[l].left % 2 = 1
        BY <4>4, <4>5 DEF left
      <4> QED BY <1>3, <2>6, <3>1, <4>6 DEF IsName, Named
    <3>2. CASE st[l].for # "map"
      BY <2>6, <3>2 DEF IsName, Named
    <3> QED BY <3>1, <3>2
  <2>8. c # 0 /\ ~(l < Begin(q))
    BY <1>1, <1>3, <2>2
  <2> QED BY <1>3, <2>4, <2>5, <2>6, <2>7, <2>8, Zenon
<1>4. CASE ~(l >= Begin(q))
  <2>1. Inside(q, n + 1) = 0
    BY <1>1, <1>2, <1>4 DEF Innermost
  <2>2. ~InMap(q, n + 1)
    <3>1. 0 \notin Boxes(q)
      BY ReplyTokens
    <3> QED BY <2>1, <3>1 DEF InMap
  <2> QED BY <1>1, <1>4, <2>1, <2>2 DEF IsName, Named
<1> QED BY <1>3, <1>4

(* What every call waits for when one more token has been decoded.         *)
LEMMA StillWaits ==
  ASSUME NEW q, IsReply(q), IsLegible(q), NEW n, NEW st \in Seq(Frame), NEW s, NEW ph,
         NEW fl, NEW td \in Nat, Reads(q, n, st, s, ph, fl, td), ph = "call",
         NEW i \in Begin(q)..Len(s)
  PROVE  /\ IsOpen(Announced(q.tokens), s[i], n)
         /\ Lacks(q, s[i], n) >= 1
         /\ Lacks(q, s[i], n + 1) = Lacks(q, s[i], n) + (Holds(q.tokens[n + 1]) - 1)
<1> DEFINE A == Announced(q.tokens)
<1>1. /\ n \in Nat /\ s[i] \in 1..n /\ s[i] \in 1..Len(q.tokens) /\ Lacks(q, s[i], n) \in Int
      /\ Waits(q, n, st, s, ph, i)
  <2>1. Known(q, n, st, s, ph)
    BY ReadTypes
  <2> QED BY <2>1 DEF Known
<1>2. n \in 0..(Len(q.tokens) - 1)
  BY NotYet
<1>3. IsOpen(A, s[i], n - 1) /\ Lacks(q, s[i], n) >= 1
  BY <1>1 DEF Waits, Coming
<1>4. IsOpen(A, s[i], n)
  <2>1. \A m \in s[i]..n : m \in s[i]..(n - 1) \/ m = n
    BY <1>1
  <2>2. Missing(A, s[i], n) > 0
    BY <1>1, <1>3 DEF Lacks
  <2> HIDE DEF A
  <2> QED BY <1>3, <2>1, <2>2 DEF IsOpen
<1>5. n \in s[i]..(Len(q.tokens) - 1)
  BY <1>1, <1>2
<1>6. Lacks(q, s[i], n + 1) = Lacks(q, s[i], n) + (Holds(q.tokens[n + 1]) - 1)
  BY <1>1, <1>5, MissingSteps DEF Lacks
<1> QED BY <1>3, <1>4, <1>6

(* What has ended before stays past.                                       *)
LEMMA PastNext ==
  ASSUME NEW q, IsReply(q), NEW n \in Nat, NEW s, NEW s2, Past(q, n, s),
         \A i \in Begin(q)..Len(s) : \E j \in Begin(q)..Len(s2) : s2[j] = s[i],
         \A j \in Begin(q)..Len(s2) : s2[j] = n + 1 \/ \E i \in Begin(q)..Len(s) : s2[j] = s[i],
         n + 1 \in Boxes(q) => \E j \in Begin(q)..Len(s2) : s2[j] = n + 1
  PROVE  Past(q, n + 1, s2)
<1> SUFFICES ASSUME NEW c \in Boxes(q), c <= n + 1
             PROVE  (\E j \in Begin(q)..Len(s2) : c = s2[j]) \/ Over(q, n + 1, s2, c)
  BY DEF Past
<1>1. c \in Nat
  BY ReplyTokens
<1>2. CASE c = n + 1
  BY <1>2
<1>3. CASE c # n + 1
  <2>1. c <= n
    BY <1>1, <1>3
  <2>2. CASE \E i \in Begin(q)..Len(s) : c = s[i]
    BY <2>2
  <2>3. CASE Over(q, n, s, c)
    <3>1. PICK m \in c..n : /\ EndsAt(Announced(q.tokens), c, m)
                            /\ \A i \in Begin(q)..Len(s) : c < s[i] => m < s[i]
      BY <2>3 DEF Over
    <3>2. m \in c..(n + 1) /\ m < n + 1
      BY <1>1
    <3>3. \A j \in Begin(q)..Len(s2) : c < s2[j] => m < s2[j]
      BY <3>1, <3>2
    <3> QED BY <3>1, <3>2, <3>3 DEF Over
  <2> QED BY <2>1, <2>2, <2>3 DEF Past
<1> QED BY <1>2, <1>3

(* A scalar is decoded: its call returns.                                  *)
LEMMA ReadScalar ==
  ASSUME NEW q, IsReply(q), IsLegible(q), NEW n, NEW st \in Seq(Frame), NEW s, NEW ph,
         NEW fl, NEW td \in Nat, Reads(q, n, st, s, ph, fl, td), ph = "call",
         n + 1 >= Begin(q), q.tokens[n + 1][1] \notin {"array", "map"}
  PROVE  Reads(q, n + 1, st, s, "return", fl, td)
<1> DEFINE l == Len(s)
           b == Begin(q)
<1>1. /\ n \in Nat /\ b \in Nat /\ b \in 1..3 /\ l = Len(st) /\ l \in Nat /\ s \in Seq(Nat)
      /\ \A i \in b..l : /\ s[i] \in 1..n /\ st[i].left \in Nat /\ Lacks(q, s[i], n) \in Int
                         /\ Holds(q.tokens[s[i]]) \in Nat
                         /\ Waits(q, n, st, s, ph, i)
      /\ \A i, j \in b..l : i < j => s[i] < s[j] /\ Lacks(q, s[j], n) <= Lacks(q, s[i], n)
  <2>1. Known(q, n, st, s, ph)
    BY ReadTypes
  <2> QED BY <2>1 DEF Known
<1>2. /\ n + 1 \in 0..Final(q) /\ n + 1 \in 1..Len(q.tokens) /\ Lacking(q, n) >= 1
      /\ n \in (b - 1)..(Len(q.tokens) - 1)
  <2>1. n >= b - 1
    BY <1>1
  <2>2. /\ n + 1 \in 0..Final(q) /\ n + 1 \in 1..Len(q.tokens) /\ Lacking(q, n) >= 1
        /\ n \in 0..(Len(q.tokens) - 1)
    BY <2>1, NotYet
  <2>3. n \in (b - 1)..(Len(q.tokens) - 1)
    BY <1>1, <2>1, <2>2
  <2> QED BY <2>2, <2>3
<1>3. Holds(q.tokens[n + 1]) = 0
  BY DEF Holds
<1>4. \A i \in b..l : /\ IsOpen(Announced(q.tokens), s[i], n)
                      /\ Lacks(q, s[i], n) >= 1 /\ Lacks(q, s[i], n + 1) = Lacks(q, s[i], n) - 1
  <2> TAKE i \in b..l
  <2>1. /\ IsOpen(Announced(q.tokens), s[i], n) /\ Lacks(q, s[i], n) >= 1
        /\ Lacks(q, s[i], n + 1) = Lacks(q, s[i], n) + (0 - 1)
    BY <1>3, StillWaits
  <2> QED BY <1>1, <2>1
<1>5. \A i \in b..(l + 1) :
        /\ Rest(q, n, s, "call", i) \in Int
        /\ Rest(q, n + 1, s, "return", i) = Rest(q, n, s, "call", i) - 1
  <2> TAKE i \in b..(l + 1)
  <2>1. CASE i <= l
    <3>1. i \in b..l
      BY <1>1, <2>1
    <3> QED BY <1>1, <1>4, <2>1, <3>1 DEF Rest
  <2>2. CASE ~(i <= l)
    BY <2>2 DEF Rest, Coming
  <2> QED BY <2>1, <2>2
<1>6. Lacking(q, n + 1) = td + Rest(q, n + 1, s, "return", b)
  <2>1. Lacking(q, n) = td + Rest(q, n, s, "call", b)
    BY <1>1, <1>2 DEF Reads
  <2>2. Lacking(q, n + 1) = Lacking(q, n) + (0 - 1)
    <3>1. b - 1 <= Len(q.tokens)
      BY <1>1, <1>2, ReplyTokens
    <3>2. Lacking(q, n + 1) = Lacking(q, n) + (Holds(q.tokens[n + 1]) - 1)
      BY <1>2, <3>1, LackingSteps, Zenon
    <3> QED BY <1>3, <3>2
  <2>3. Rest(q, n, s, "call", b) \in Int /\ Rest(q, n + 1, s, "return", b) = Rest(q, n, s, "call", b) - 1
    <3>1. CASE b <= l + 1
      <4>1. b \in b..(l + 1)
        BY <1>1, <3>1
      <4> QED BY <1>5, <4>1
    <3>2. CASE ~(b <= l + 1)
      <4>1. ~(b <= l)
        BY <1>1, <3>2
      <4> QED BY <4>1 DEF Rest, Coming
    <3> QED BY <3>1, <3>2
  <2> QED BY <2>1, <2>2, <2>3
<1>7. ASSUME NEW i \in b..l PROVE Waits(q, n + 1, st, s, "return", i)
  <2>1. Waits(q, n, st, s, "call", i)
    BY <1>1
  <2>2. /\ s[i] \in Boxes(q) /\ s[i] <= n + 1 /\ st[i].for = q.tokens[s[i]][1]
        /\ st[i].left < Holds(q.tokens[s[i]]) \/ st[i].left = 0
    <3>1. /\ s[i] \in Boxes(q) /\ s[i] <= n /\ st[i].for = q.tokens[s[i]][1]
          /\ st[i].left < Holds(q.tokens[s[i]]) \/ st[i].left = 0
      BY <2>1, Zenon DEF Waits
    <3>2. s[i] \in 1..n /\ n \in Nat
      BY <1>1
    <3>3. s[i] <= n + 1
      BY ONLY <3>1, <3>2
    <3> QED BY <3>1, <3>3
  <2>3. IsOpen(Announced(q.tokens), s[i], (n + 1) - 1)
    <3>1. (n + 1) - 1 = n
      BY <1>1
    <3> QED BY <1>4, <3>1
  <2>4. /\ Lacks(q, s[i], n + 1) = st[i].left + Rest(q, n + 1, s, "return", i + 1)
        /\ Lacks(q, s[i], n + 1) >= 0
    <3>1. Lacks(q, s[i], n) = st[i].left + Rest(q, n, s, "call", i + 1)
      BY <2>1 DEF Waits
    <3>2. i + 1 \in b..(l + 1)
      BY <1>1
    <3>3. Rest(q, n, s, "call", i + 1) \in Int /\ Rest(q, n + 1, s, "return", i + 1) = Rest(q, n, s, "call", i + 1) - 1
      BY <1>5, <3>2
    <3>4. Lacks(q, s[i], n) >= 1 /\ Lacks(q, s[i], n + 1) = Lacks(q, s[i], n) - 1 /\ st[i].left \in Nat
      BY <1>1, <1>4
    <3> QED BY <3>1, <3>3, <3>4
  <2>5. st[i].left + Place(n + 1, ItemsOf(q, s[i])) = Holds(q.tokens[s[i]])
    <3>1. st[i].left + Place(n, ItemsOf(q, s[i])) = Holds(q.tokens[s[i]]) - (IF i = l THEN 1 ELSE 0)
      BY <2>1 DEF Waits, Coming
    <3>2. /\ Place(n, ItemsOf(q, s[i])) \in Nat
          /\ Place(n + 1, ItemsOf(q, s[i])) = Place(n, ItemsOf(q, s[i])) + (IF i = l THEN 1 ELSE 0)
      BY PlaceOfNext
    <3>3. st[i].left \in Nat /\ Holds(q.tokens[s[i]]) \in Nat
      BY <1>1
    <3> QED BY ONLY <3>1, <3>2, <3>3
  <2>6. Coming("return") = 0 /\ Holds(q.tokens[s[i]]) - 0 = Holds(q.tokens[s[i]])
    BY <1>1 DEF Coming
  <2> QED BY <2>2, <2>3, <2>4, <2>5, <2>6 DEF Waits
<1>8. \A i, j \in b..l :
        i < j => s[i] < s[j] /\ Lacks(q, s[j], n + 1) <= Lacks(q, s[i], n + 1)
  <2> TAKE i, j \in b..l
  <2> HAVE i < j
  <2>1. s[i] < s[j] /\ Lacks(q, s[j], n) <= Lacks(q, s[i], n)
    BY <1>1
  <2>2. /\ Lacks(q, s[j], n + 1) = Lacks(q, s[j], n) - 1 /\ Lacks(q, s[i], n + 1) = Lacks(q, s[i], n) - 1
        /\ Lacks(q, s[j], n) \in Int /\ Lacks(q, s[i], n) \in Int
    BY <1>1, <1>4
  <2> QED BY <2>1, <2>2
<1>9. Past(q, n + 1, s)
  <2>1. n + 1 \notin Boxes(q)
    BY DEF Boxes
  <2>2. Past(q, n, s)
    BY DEF Reads
  <2> QED BY <1>1, <2>1, <2>2, PastNext
<1>10. Flags(q, n + 1, st, s, "return", fl)
  <2>1. Flags(q, n, st, s, ph, fl)
    BY DEF Reads
  <2>2. \A i \in b..l : \A m \in (s[i] + 1)..n : m \in (s[i] + 1)..(n + 1)
    BY <1>1
  <2> QED BY <2>1, <2>2 DEF Flags
<1>11. ~(n + 1 < b) /\ "return" # "call"
  BY <1>1
<1>12. (\A i \in 1..l : i < b => st[i].for = "skip") /\ (td > 0 => q.codec = "dump")
  BY DEF Reads
<1> QED BY <1>1, <1>2, <1>6, <1>7, <1>8, <1>9, <1>10, <1>11, <1>12 DEF Reads

(* A sequence of numbers with one more.                                    *)
LEMMA Appending ==
  ASSUME NEW s \in Seq(Nat), NEW x \in Nat
  PROVE  /\ Append(s, x) \in Seq(Nat) /\ Len(Append(s, x)) = Len(s) + 1 /\ Len(s) \in Nat
         /\ Append(s, x)[Len(s) + 1] = x
         /\ \A i \in 1..Len(s) : Append(s, x)[i] = s[i]
BY AppendProperties

(* An array or map is decoded that is to be printed: unless it is empty,   *)
(* the call makes one for its first item.                                  *)
Opens(q, n, st, fl, st2, fl2, ph2) ==
  LET tok == q.tokens[n + 1]
  IN  /\ tok[1] \in {"array", "map"}
      /\ Len(st2) = Len(st) + 1
      /\ \A i \in 1..Len(st) : st2[i] = st[i]
      /\ st2[Len(st) + 1].for = tok[1]
      /\ st2[Len(st) + 1].left = IF Holds(tok) = 0 THEN 0 ELSE Holds(tok) - 1
      /\ "MAP" \in fl \/ tok[1] = "map" => "MAP" \in fl2
      /\ "KEY" \in fl2 <=> "KEY" \in fl \/ (tok[1] = "map" /\ Holds(tok) # 0)
      /\ ph2 = IF Holds(tok) = 0 THEN "return" ELSE "call"

(* Such a call waits for what its token lacks. *)
LEMMA ReadBox ==
  ASSUME NEW q, IsReply(q), IsLegible(q), NEW n, NEW st \in Seq(Frame), NEW s, NEW ph,
         NEW fl, NEW td \in Nat, Reads(q, n, st, s, ph, fl, td), ph = "call",
         n + 1 >= Begin(q),
         NEW st2 \in Seq(Frame), NEW fl2, NEW ph2, Opens(q, n, st, fl, st2, fl2, ph2)
  PROVE  Reads(q, n + 1, st2, Append(s, n + 1), ph2, fl2, td)
<1> DEFINE h == Holds(q.tokens[n + 1])
           tok == q.tokens[n + 1]
<1>0. /\ tok[1] \in {"array", "map"}
      /\ Len(st2) = Len(st) + 1 /\ \A i \in 1..Len(st) : st2[i] = st[i]
      /\ st2[Len(st) + 1].for = tok[1]
      /\ st2[Len(st) + 1].left = IF h = 0 THEN 0 ELSE h - 1
      /\ "MAP" \in fl \/ tok[1] = "map" => "MAP" \in fl2
      /\ "KEY" \in fl2 <=> "KEY" \in fl \/ (tok[1] = "map" /\ h # 0)
      /\ ph2 = IF h = 0 THEN "return" ELSE "call"
  BY DEF Opens
<1> DEFINE l == Len(s)
           b == Begin(q)
           s2 == Append(s, n + 1)
<1>1. /\ n \in Nat /\ b \in Nat /\ b \in 1..3 /\ l = Len(st) /\ l \in Nat /\ s \in Seq(Nat)
      /\ \A i \in b..l : /\ i \in 1..l
                         /\ s[i] \in 1..n /\ st[i].left \in Nat /\ Lacks(q, s[i], n) \in Int
                         /\ Holds(q.tokens[s[i]]) \in Nat
                         /\ Waits(q, n, st, s, ph, i)
      /\ \A i, j \in b..l : i < j => s[i] < s[j] /\ Lacks(q, s[j], n) <= Lacks(q, s[i], n)
  <2>1. Known(q, n, st, s, ph)
    BY ReadTypes
  <2> QED BY <2>1 DEF Known
<1>2. /\ n + 1 \in 0..Final(q) /\ n + 1 \in 1..Len(q.tokens) /\ Lacking(q, n) >= 1
      /\ n \in (b - 1)..(Len(q.tokens) - 1)
  <2>1. n >= b - 1
    BY <1>1
  <2>2. /\ n + 1 \in 0..Final(q) /\ n + 1 \in 1..Len(q.tokens) /\ Lacking(q, n) >= 1
        /\ n \in 0..(Len(q.tokens) - 1)
    BY <2>1, NotYet
  <2>3. n \in (b - 1)..(Len(q.tokens) - 1)
    BY <1>1, <2>1, <2>2
  <2> QED BY <2>2, <2>3
<1>3. h \in Nat
  BY <1>2, ReplyTokens
<1>4. /\ s2 \in Seq(Nat) /\ Len(s2) = l + 1 /\ s2[l + 1] = n + 1
      /\ \A i \in 1..l : s2[i] = s[i]
  BY <1>1, Appending
<1>5. n + 1 \in Boxes(q)
  <2>1. n + 1 \in Begin(q)..Len(q.tokens)
    BY <1>1, <1>2
  <2> QED BY <1>0, <2>1 DEF Boxes
<1> HIDE DEF s2, h, tok
<1>6. \A i \in b..l : /\ IsOpen(Announced(q.tokens), s[i], n) /\ Lacks(q, s[i], n) >= 1
                      /\ Lacks(q, s[i], n + 1) = Lacks(q, s[i], n) + (h - 1)
  BY StillWaits DEF h
<1>7. Lacks(q, n + 1, n + 1) = h
  BY <1>2, MissingSteps DEF Lacks, h
<1>8. Coming("call") = 1 /\ Coming("return") = 0 /\ Coming(ph2) = (IF h = 0 THEN 0 ELSE 1) /\ Coming(ph2) \in Nat
  BY <1>0 DEF Coming
<1>9. \A i \in b..(l + 1) :
        /\ Rest(q, n, s, "call", i) \in Int
        /\ Rest(q, n + 1, s2, ph2, i) = Rest(q, n, s, "call", i) + (h - 1)
  <2> TAKE i \in b..(l + 1)
  <2>1. CASE i <= l
    <3>1. i \in b..l /\ i \in 1..l /\ i <= l + 1
      BY <1>1, <2>1
    <3>2. Rest(q, n, s, "call", i) = Lacks(q, s[i], n)
      BY <2>1 DEF Rest
    <3>3. Rest(q, n + 1, s2, ph2, i) = Lacks(q, s[i], n + 1)
      BY <1>4, <3>1 DEF Rest
    <3> QED BY <1>1, <1>6, <3>1, <3>2, <3>3
  <2>2. CASE ~(i <= l)
    <3>1. i = l + 1 /\ i <= Len(s2)
      BY <1>1, <1>4, <2>2
    <3>2. Rest(q, n, s, "call", i) = 1
      BY <1>8, <2>2 DEF Rest
    <3>3. Rest(q, n + 1, s2, ph2, i) = Lacks(q, s2[i], n + 1)
      BY <3>1 DEF Rest
    <3>4. s2[i] = n + 1
      BY <1>4, <3>1
    <3> QED BY <1>3, <1>7, <3>2, <3>3, <3>4
  <2> QED BY <2>1, <2>2
<1>10. Lacking(q, n + 1) = td + Rest(q, n + 1, s2, ph2, b)
  <2>1. Lacking(q, n) = td + Rest(q, n, s, "call", b)
    BY <1>1, <1>2 DEF Reads
  <2>2. Lacking(q, n + 1) = Lacking(q, n) + (h - 1)
    <3>1. b - 1 <= Len(q.tokens)
      BY <1>1, <1>2, ReplyTokens
    <3> QED BY <1>2, <3>1, LackingSteps, Zenon DEF h
  <2>3. b \in b..(l + 1)
    <3>1. n >= b - 1
      BY <1>1
    <3>2. l >= b - 1
      BY <3>1, NotYet
    <3> QED BY <1>1, <3>2
  <2>4. Rest(q, n, s, "call", b) \in Int /\ Rest(q, n + 1, s2, ph2, b) = Rest(q, n, s, "call", b) + (h - 1)
    BY <1>9, <2>3
  <2> QED BY <1>3, <2>1, <2>2, <2>4
<1>11. l + 1 >= b
  <2>1. n >= b - 1
    BY <1>1
  <2>2. l >= b - 1
    BY <2>1, NotYet
  <2> QED BY <1>1, <2>2
<1>12. ASSUME NEW i \in b..l PROVE Waits(q, n + 1, st2, s2, ph2, i)
  <2>1. Waits(q, n, st, s, "call", i)
    BY <1>1
  <2>2. s2[i] = s[i] /\ st2[i] = st[i] /\ i # l + 1 /\ i \in 1..l
    <3>1. i \in 1..l
      BY <1>1
    <3> QED BY <1>0, <1>1, <1>4, <3>1
  <2>3. /\ s[i] \in Boxes(q) /\ s[i] <= n + 1 /\ st[i].for = q.tokens[s[i]][1]
        /\ st[i].left < Holds(q.tokens[s[i]]) \/ st[i].left = 0
    <3>1. /\ s[i] \in Boxes(q) /\ s[i] <= n /\ st[i].for = q.tokens[s[i]][1]
          /\ st[i].left < Holds(q.tokens[s[i]]) \/ st[i].left = 0
      BY <2>1, Zenon DEF Waits
    <3>2. s[i] \in 1..n /\ n \in Nat
      BY <1>1
    <3>3. s[i] <= n + 1
      BY ONLY <3>1, <3>2
    <3> QED BY <3>1, <3>3
  <2>4. IsOpen(Announced(q.tokens), s[i], (n + 1) - 1)
    <3>1. (n + 1) - 1 = n
      BY <1>1
    <3> QED BY <1>6, <3>1
  <2>5. /\ Lacks(q, s[i], n + 1) = st[i].left + Rest(q, n + 1, s2, ph2, i + 1)
        /\ Lacks(q, s[i], n + 1) >= Coming(ph2)
    <3>1. Lacks(q, s[i], n) = st[i].left + Rest(q, n, s, "call", i + 1)
      BY <2>1 DEF Waits
    <3>2. i + 1 \in b..(l + 1)
      BY <1>1
    <3>3. Rest(q, n, s, "call", i + 1) \in Int /\ Rest(q, n + 1, s2, ph2, i + 1) = Rest(q, n, s, "call", i + 1) + (h - 1)
      BY <1>9, <3>2
    <3>4. Lacks(q, s[i], n) >= 1 /\ Lacks(q, s[i], n + 1) = Lacks(q, s[i], n) + (h - 1) /\ st[i].left \in Nat
      BY <1>1, <1>6
    <3>5. Lacks(q, s[i], n) \in Int
      BY <1>1
    <3> DEFINE x == Lacks(q, s[i], n)
               x2 == Lacks(q, s[i], n + 1)
               r == Rest(q, n, s, "call", i + 1)
               r2 == Rest(q, n + 1, s2, ph2, i + 1)
               left == st[i].left
               coming == Coming(ph2)
    <3>6. /\ x = left + r /\ r \in Int /\ r2 = r + (h - 1) /\ x >= 1 /\ x2 = x + (h - 1)
          /\ left \in Nat /\ x \in Int /\ h \in Nat /\ coming = (IF h = 0 THEN 0 ELSE 1)
      BY <1>3, <1>8, <3>1, <3>3, <3>4, <3>5, Zenon
    <3> HIDE DEF x, x2, r, r2, left, coming
    <3>7. x2 = left + r2 /\ x2 >= coming
      BY <3>6
    <3> QED BY <3>7 DEF x, x2, r2, left, coming
  <2>6. st[i].left + Place(n + 1, ItemsOf(q, s[i])) = Holds(q.tokens[s[i]])
    <3>1. st[i].left + Place(n, ItemsOf(q, s[i])) = Holds(q.tokens[s[i]]) - (IF i = l THEN 1 ELSE 0)
      BY <2>1 DEF Waits, Coming
    <3>2. /\ Place(n, ItemsOf(q, s[i])) \in Nat
          /\ Place(n + 1, ItemsOf(q, s[i])) = Place(n, ItemsOf(q, s[i])) + (IF i = l THEN 1 ELSE 0)
      BY PlaceOfNext
    <3>3. st[i].left \in Nat /\ Holds(q.tokens[s[i]]) \in Nat
      BY <1>1
    <3> DEFINE p == Place(n, ItemsOf(q, s[i]))
               p2 == Place(n + 1, ItemsOf(q, s[i]))
               left == st[i].left
               hold == Holds(q.tokens[s[i]])
    <3>4. /\ left + p = hold - (IF i = l THEN 1 ELSE 0) /\ p \in Nat
          /\ p2 = p + (IF i = l THEN 1 ELSE 0) /\ left \in Nat /\ hold \in Nat
      BY <3>1, <3>2, <3>3
    <3> HIDE DEF p, p2, left, hold
    <3>5. left + p2 = hold
      BY <3>4
    <3> QED BY <3>5 DEF p2, left, hold
  <2>7. Holds(q.tokens[s[i]]) - 0 = Holds(q.tokens[s[i]]) /\ i # Len(s2)
    BY <1>1, <1>4, <2>2
  <2> QED BY <2>2, <2>3, <2>4, <2>5, <2>6, <2>7 DEF Waits
<1>13. Waits(q, n + 1, st2, s2, ph2, l + 1)
  <2>1. s2[l + 1] = n + 1 /\ st2[l + 1].for = q.tokens[n + 1][1] /\ n + 1 \in Nat \ {0}
    BY <1>0, <1>1, <1>4 DEF tok
  <2>2. IsOpen(Announced(q.tokens), n + 1, (n + 1) - 1)
    <3>1. (n + 1)..((n + 1) - 1) = {}
      BY <1>1
    <3> QED BY <3>1 DEF IsOpen
  <2>3. st2[l + 1].left = IF h = 0 THEN 0 ELSE h - 1
    BY <1>0, <1>1
  <2>4. Rest(q, n + 1, s2, ph2, (l + 1) + 1) = Coming(ph2)
    <3>1. ~((l + 1) + 1 <= Len(s2))
      BY <1>1, <1>4
    <3> QED BY <3>1 DEF Rest
  <2>5. Place(n + 1, ItemsOf(q, n + 1)) = 0
    BY <2>1, ItemsFollow
  <2>6. /\ Lacks(q, n + 1, n + 1) = st2[l + 1].left + Coming(ph2)
        /\ Lacks(q, n + 1, n + 1) >= Coming(ph2)
        /\ st2[l + 1].left + 0 = h - Coming(ph2)
        /\ st2[l + 1].left < h \/ st2[l + 1].left = 0
    BY <1>3, <1>7, <1>8, <2>3
  <2>7. n + 1 <= n + 1 /\ l + 1 = Len(s2)
    BY <1>1, <1>4
  <2>8. Holds(q.tokens[n + 1]) = h
    BY DEF h
  <2> QED BY <1>5, <2>1, <2>2, <2>4, <2>5, <2>6, <2>7, <2>8 DEF Waits
<1>24. n \in Nat /\ b \in Nat /\ b \in 1..3 /\ l \in Nat
  BY <1>1
<1>14. \A i \in b..(l + 1) : i \in b..l \/ i = l + 1
  BY <1>1
<1>15. ASSUME NEW i \in b..(l + 1), NEW j \in b..(l + 1), i < j
       PROVE  s2[i] < s2[j] /\ Lacks(q, s2[j], n + 1) <= Lacks(q, s2[i], n + 1)
  <2>1. i \in b..l /\ i \in 1..l /\ s2[i] = s[i]
    <3>1. i \in b..l /\ i \in 1..l
      BY ONLY <1>15, <1>24
    <3> QED BY <1>4, <3>1
  <2>2. /\ Lacks(q, s[i], n + 1) = Lacks(q, s[i], n) + (h - 1) /\ Lacks(q, s[i], n) >= 1
        /\ Lacks(q, s[i], n) \in Int /\ s[i] \in 1..n
    BY <1>1, <1>6, <2>1
  <2>3. CASE j = l + 1
    <3>1. s2[j] = n + 1
      BY <1>4, <2>3
    <3>2. Lacks(q, n + 1, n + 1) <= Lacks(q, s[i], n + 1)
      BY <1>3, <1>7, <2>2
    <3>3. s[i] < n + 1
      BY <1>1, <2>2
    <3> QED BY <2>1, <3>1, <3>2, <3>3
  <2>4. CASE j # l + 1
    <3>1. j \in b..l /\ j \in 1..l /\ s2[j] = s[j]
      <4>1. j \in b..l /\ j \in 1..l
        BY ONLY <1>15, <1>24, <2>4
      <4> QED BY <1>4, <4>1
    <3>2. s[i] < s[j] /\ Lacks(q, s[j], n) <= Lacks(q, s[i], n)
      BY <1>1, <1>15, <2>1, <3>1
    <3>3. Lacks(q, s[j], n + 1) = Lacks(q, s[j], n) + (h - 1) /\ Lacks(q, s[j], n) \in Int
      BY <1>1, <1>6, <3>1
    <3>4. Lacks(q, s[j], n + 1) <= Lacks(q, s[i], n + 1)
      BY <1>3, <2>2, <3>2, <3>3
    <3> QED BY <2>1, <3>1, <3>2, <3>4
  <2> QED BY <2>3, <2>4
<1>16. Past(q, n + 1, s2)
  <2>1. Past(q, n, s)
    BY DEF Reads
  <2>2. \A i \in b..l : i \in b..(l + 1) /\ s2[i] = s[i]
    <3>1. \A i \in b..l : i \in b..(l + 1) /\ i \in 1..l
      BY <1>1
    <3> QED BY <1>4, <3>1
  <2>3. l + 1 \in b..(l + 1)
    BY <1>1, <1>11
  <2>4. \A i \in b..l : \E j \in b..Len(s2) : s2[j] = s[i]
    BY <1>4, <2>2
  <2>5. \A j \in b..Len(s2) : s2[j] = n + 1 \/ \E i \in b..l : s2[j] = s[i]
    BY <1>4, <1>14, <2>2
  <2>6. \E j \in b..Len(s2) : s2[j] = n + 1
    BY <1>4, <2>3
  <2> QED BY <1>1, <2>1, <2>4, <2>5, <2>6, PastNext
<1>17. "KEY" \notin fl
  <2>1. SUFFICES ASSUME "KEY" \in fl PROVE FALSE
    OBVIOUS
  <2>2. Named(q, st)
    BY <2>1 DEF Reads, Flags
  <2>3. IsName(q, n + 1)
    BY <2>2, NthOfNext
  <2>4. n + 1 \in Begin(q)..Final(q)
    <3>1. Final(q) \in Nat
      BY FinalToken
    <3> QED BY <1>1, <1>2, <3>1
  <2>5. q.tokens[n + 1][1] = "str" \/ q.tokens[n + 1][1] = "int"
    BY <2>3, <2>4 DEF IsLegible
  <2> QED BY <1>0, <2>5 DEF tok
<1>18. Flags(q, n + 1, st2, s2, ph2, fl2)
  <2>1. Named(q, st2) <=> tok[1] = "map" /\ h # 0
    <3>1. Named(q, st2) <=> st2[l + 1].for = "map" /\ st2[l + 1].left % 2 = 1
      <4>1. Len(st2) = l + 1 /\ Len(st2) >= Begin(q)
        BY <1>0, <1>1, <1>11
      <4> QED BY <4>1 DEF Named
    <3>2. st2[l + 1].for = tok[1] /\ st2[l + 1].left = IF h = 0 THEN 0 ELSE h - 1
      BY <1>0, <1>1
    <3>3. tok[1] = "map" => ((IF h = 0 THEN 0 ELSE h - 1) % 2 = 1 <=> h # 0)
      <4> SUFFICES ASSUME tok[1] = "map"
                   PROVE  (IF h = 0 THEN 0 ELSE h - 1) % 2 = 1 <=> h # 0
        OBVIOUS
      <4> DEFINE k == tok[2]
      <4>1. k \in Nat
        <5>1. tok \in Tokens
          BY <1>2, ReplyTokens DEF tok
        <5> QED BY <5>1 DEF Tokens
      <4>2. h = 2 * k
        BY DEF Holds, h, tok
      <4> HIDE DEF k
      <4>3. k # 0 => (2 * k - 1) % 2 = 1
        BY <4>1
      <4>4. 0 % 2 # 1 /\ (2 * k = 0 <=> k = 0)
        BY <4>1
      <4> QED BY <4>2, <4>3, <4>4
    <3> QED BY <3>1, <3>2, <3>3
  <2>2. "KEY" \in fl2 <=> Named(q, st2)
    BY <1>0, <1>17, <2>1
  <2>3. ASSUME NEW i \in b..(l + 1), q.tokens[s2[i]][1] = "map",
               \A m \in (s2[i] + 1)..(n + 1) : q.tokens[m][1] # "map"
        PROVE  "MAP" \in fl2
    <3>1. CASE i = l + 1
      BY <1>0, <1>4, <2>3, <3>1 DEF tok
    <3>2. CASE i # l + 1
      <4>1. i \in b..l /\ i \in 1..l /\ s2[i] = s[i]
        <5>1. i \in b..l /\ i \in 1..l
          BY ONLY <1>24, <2>3, <3>2
        <5> QED BY <1>4, <5>1
      <4>2. \A m \in (s[i] + 1)..n : m \in (s[i] + 1)..(n + 1)
        BY <1>1, <4>1
      <4>3. "MAP" \in fl
        BY <2>3, <4>1, <4>2 DEF Reads, Flags
      <4> QED BY <1>0, <4>3
    <3> QED BY <3>1, <3>2
  <2> QED BY <1>4, <2>2, <2>3 DEF Flags
<1>19. \A i \in 1..(l + 1) : i < b => st2[i].for = "skip"
  <2> TAKE i \in 1..(l + 1)
  <2> HAVE i < b
  <2>1. i \in 1..l
    BY <1>1, <1>11
  <2> QED BY <1>0, <1>1, <2>1 DEF Reads
<1>20. \A i \in b..(l + 1) : Waits(q, n + 1, st2, s2, ph2, i)
  BY <1>12, <1>13, <1>14
<1>21. ~(n + 1 < b) /\ l + 1 >= b - 1 /\ Len(s2) = Len(st2)
  BY <1>0, <1>1, <1>4, <1>11
<1>22. td > 0 => q.codec = "dump"
  BY DEF Reads
<1>23. Reads(q, n + 1, st2, s2, ph2, fl2, td)
  BY <1>2, <1>4, <1>10, <1>15, <1>16, <1>18, <1>19, <1>20, <1>21, <1>22 DEF Reads
<1> QED BY <1>23 DEF s2

(* An array that is to be skipped is decoded.                              *)
LEMMA ReadSkip ==
  ASSUME NEW q, IsReply(q), IsLegible(q), NEW n, NEW st \in Seq(Frame), NEW s, NEW ph,
         NEW fl, NEW td \in Nat, Reads(q, n, st, s, ph, fl, td), ph = "call",
         n + 1 < Begin(q),
         NEW st2 \in Seq(Frame), Len(st2) = Len(st) + 1,
         \A i \in 1..Len(st) : st2[i] = st[i],
         st2[Len(st) + 1].for = "skip"
  PROVE  Reads(q, n + 1, st2, Append(s, n + 1), "call", fl, td)
<1> DEFINE l == Len(s)
           b == Begin(q)
           s2 == Append(s, n + 1)
<1>1. n \in Nat /\ b \in Nat /\ b \in 1..3 /\ l = Len(st) /\ l \in Nat /\ s \in Seq(Nat)
  <2>1. Known(q, n, st, s, ph)
    BY ReadTypes
  <2> QED BY <2>1 DEF Known
<1>2. n + 1 \in 0..Final(q) /\ n + 1 \in 1..Len(q.tokens)
  BY NotYet
<1>3. /\ s2 \in Seq(Nat) /\ Len(s2) = l + 1 /\ s2[l + 1] = n + 1
      /\ \A i \in 1..l : s2[i] = s[i]
  BY <1>1, Appending
<1>4. l = n /\ td = (IF q.codec = "dump" THEN 2 ELSE 0) /\ (td > 0 => q.codec = "dump")
  <2>1. n < b
    BY <1>1
  <2> QED BY <2>1 DEF Reads
<1> HIDE DEF s2
<1>5. Len(s2) = n + 1 /\ ~(Len(s2) >= b) /\ b..Len(s2) = {} /\ n + 1 < b /\ ~(n + 1 >= b)
  BY <1>1, <1>3, <1>4
<1>6. ASSUME n + 1 >= b - 1 PROVE Lacking(q, n + 1) = td + Rest(q, n + 1, s2, "call", b)
  <2>1. n + 1 = b - 1
    BY <1>1, <1>6
  <2>2. b - 1 <= Len(q.tokens)
    BY <1>2, <2>1
  <2>3. Lacking(q, b - 1) = IF q.codec = "dump" THEN 3 ELSE 1
    BY <2>2, LackingSteps
  <2>4. ~(b <= Len(s2))
    BY <1>1, <1>5
  <2>5. Rest(q, n + 1, s2, "call", b) = 1
    BY <2>4 DEF Rest, Coming
  <2>6. td + 1 = IF q.codec = "dump" THEN 3 ELSE 1
    BY <1>4
  <2> QED BY <2>1, <2>3, <2>5, <2>6
<1>7. Past(q, n + 1, s2)
  <2>1. ASSUME NEW c \in Boxes(q), c <= n + 1 PROVE FALSE
    <3>1. c \in Nat /\ c >= b
      BY <1>1 DEF Boxes
    <3> QED BY <1>1, <1>5, <2>1, <3>1
  <2> QED BY <2>1 DEF Past
<1>8. Flags(q, n + 1, st2, s2, "call", fl)
  <2>1. ~(Len(st2) >= b) /\ ~(Len(st) >= b)
    BY <1>1, <1>4, <1>5
  <2>2. ~Named(q, st2) /\ ~Named(q, st)
    BY <2>1 DEF Named
  <2>3. "KEY" \notin fl
    BY <2>2 DEF Reads, Flags
  <2> QED BY <1>5, <2>2, <2>3 DEF Flags
<1>9. \A i \in 1..Len(s2) : st2[i].for = "skip"
  <2> TAKE i \in 1..Len(s2)
  <2>1. i \in 1..l \/ i = l + 1
    BY <1>1, <1>3
  <2>2. CASE i \in 1..l
    <3>1. i < b /\ st2[i] = st[i]
      BY <1>1, <1>4, <2>2
    <3>2. st[i].for = "skip"
      BY <2>2, <3>1 DEF Reads
    <3> QED BY <3>1, <3>2
  <2>3. CASE i = l + 1
    BY <1>1, <2>3
  <2> QED BY <2>1, <2>2, <2>3
<1>10. Len(s2) = Len(st2)
  BY <1>1, <1>3
<1>11. Reads(q, n + 1, st2, s2, "call", fl, td)
  BY <1>2, <1>3, <1>4, <1>5, <1>6, <1>7, <1>8, <1>9, <1>10 DEF Reads
<1> QED BY <1>11 DEF s2

(* The innermost call makes one for its next item.                         *)
Repeats(q, st, st2, fl, fl2) ==
  /\ Len(st2) = Len(st) /\ Len(st) >= Begin(q) /\ st[Len(st)].left > 0
  /\ \A i \in 1..Len(st) : st2[i].for = st[i].for /\ (i # Len(st) => st2[i].left = st[i].left)
  /\ st2[Len(st)].left = st[Len(st)].left - 1
  /\ "MAP" \in fl => "MAP" \in fl2
  /\ "KEY" \in fl2 <=> Named(q, st2)

(* It waits for one value less by itself, and for one more by that call.   *)
LEMMA ReadAgain ==
  ASSUME NEW q, IsReply(q), IsLegible(q), NEW n, NEW st \in Seq(Frame), NEW s, NEW ph,
         NEW fl, NEW td \in Nat, Reads(q, n, st, s, ph, fl, td), ph = "return",
         NEW st2 \in Seq(Frame), NEW fl2, Repeats(q, st, st2, fl, fl2)
  PROVE  Reads(q, n, st2, s, "call", fl2, td)
<1> DEFINE l == Len(s)
           b == Begin(q)
<1>1. /\ n \in Nat /\ b \in Nat /\ b \in 1..3 /\ l = Len(st) /\ l \in Nat /\ s \in Seq(Nat)
      /\ \A i \in b..l : /\ i \in 1..l
                         /\ s[i] \in 1..n /\ st[i].left \in Nat /\ Lacks(q, s[i], n) \in Int
                         /\ Holds(q.tokens[s[i]]) \in Nat
                         /\ Waits(q, n, st, s, ph, i)
      /\ \A i, j \in b..l : i < j => s[i] < s[j] /\ Lacks(q, s[j], n) <= Lacks(q, s[i], n)
  <2>1. Known(q, n, st, s, ph)
    BY ReadTypes
  <2> QED BY <2>1 DEF Known
<1>2. /\ Len(st2) = l /\ l >= b /\ st[l].left > 0 /\ l \in b..l /\ l \in 1..l
      /\ \A i \in 1..l : st2[i].for = st[i].for /\ (i # l => st2[i].left = st[i].left)
      /\ st2[l].left = st[l].left - 1
      /\ "MAP" \in fl => "MAP" \in fl2
      /\ "KEY" \in fl2 <=> Named(q, st2)
  BY <1>1 DEF Repeats
<1>3. Coming("call") = 1 /\ Coming("return") = 0
  BY DEF Coming
<1>4. ~(n < b) /\ ~(l < b - 1)
  <2>1. n < b => ph = "call"
    BY DEF Reads
  <2> QED BY <1>1, <1>2, <2>1
<1>5. \A i \in b..l : Rest(q, n, s, "call", i) = Rest(q, n, s, "return", i)
  BY <1>1 DEF Rest
<1>6. Rest(q, n, s, "call", l + 1) = 1 /\ Rest(q, n, s, "return", l + 1) = 0
  BY <1>1, <1>3 DEF Rest
<1>7. Lacks(q, s[l], n) >= 1
  <2>1. Lacks(q, s[l], n) = st[l].left + Rest(q, n, s, "return", l + 1)
    BY <1>1, <1>2 DEF Waits
  <2>2. Lacks(q, s[l], n) = st[l].left + 0 /\ st[l].left \in Nat
    BY <1>1, <1>2, <1>6, <2>1
  <2> QED BY <1>2, <2>2
<1>8. \A i \in b..l : Lacks(q, s[i], n) >= 1
  <2> TAKE i \in b..l
  <2>1. Lacks(q, s[l], n) <= Lacks(q, s[i], n) \/ i = l
    <3>1. i < l \/ i = l
      BY <1>1
    <3> QED BY <1>1, <1>2, <3>1
  <2>2. Lacks(q, s[l], n) \in Int /\ Lacks(q, s[i], n) \in Int
    BY <1>1, <1>2
  <2> QED BY <1>7, <2>1, <2>2
<1>9. ASSUME NEW i \in b..l PROVE Waits(q, n, st2, s, "call", i)
  <2>1. Waits(q, n, st, s, "return", i)
    BY <1>1
  <2> DEFINE left == st[i].left
             left2 == st2[i].left
             hold == Holds(q.tokens[s[i]])
  <2>2. st2[i].for = st[i].for /\ left2 = (IF i = l THEN left - 1 ELSE left) /\ left \in Nat
    BY <1>1, <1>2
  <2>3. /\ s[i] \in Boxes(q) /\ s[i] <= n /\ st[i].for = q.tokens[s[i]][1]
        /\ IsOpen(Announced(q.tokens), s[i], n - 1)
        /\ left < hold \/ left = 0
        /\ Lacks(q, s[i], n) = left + Rest(q, n, s, "return", i + 1)
    BY <2>1 DEF Waits
  <2>4. left + Place(n, ItemsOf(q, s[i])) = hold
    <3>1. left + Place(n, ItemsOf(q, s[i])) = hold - 0
      BY <1>3, <2>1 DEF Waits
    <3>2. hold \in Nat
      BY <1>1
    <3> QED BY <3>1, <3>2
  <2>5. Place(n, ItemsOf(q, s[i])) \in Nat /\ hold \in Nat /\ n \in Nat
    <3>1. s[i] \in Nat \ {0}
      BY <1>1
    <3>2. ItemsOf(q, s[i]) \in SUBSET Nat
      BY <3>1, ItemsFollow
    <3> QED BY <1>1, <3>2, PlaceType
  <2>6. Lacks(q, s[i], n) = left2 + Rest(q, n, s, "call", i + 1)
    <3>1. CASE i = l
      <4>1. Rest(q, n, s, "return", i + 1) = 0 /\ Rest(q, n, s, "call", i + 1) = 1
        BY <1>6, <3>1
      <4> HIDE DEF left, left2
      <4> QED BY <2>2, <2>3, <3>1, <4>1
    <3>2. CASE i # l
      <4>1. i + 1 \in b..l
        BY <1>1, <3>2
      <4>2. Rest(q, n, s, "call", i + 1) = Rest(q, n, s, "return", i + 1)
        BY <1>5, <4>1
      <4> HIDE DEF left, left2
      <4> QED BY <2>2, <2>3, <3>2, <4>2
    <3> QED BY <3>1, <3>2
  <2>7. /\ left2 + Place(n, ItemsOf(q, s[i])) = hold - (IF i = l THEN 1 ELSE 0)
        /\ left2 < hold \/ left2 = 0
    <3> DEFINE p == Place(n, ItemsOf(q, s[i]))
    <3>1. p \in Nat /\ left + p = hold
      BY <2>4, <2>5
    <3> HIDE DEF left, left2, hold, p
    <3>2. left2 + p = hold - (IF i = l THEN 1 ELSE 0) /\ (left2 < hold \/ left2 = 0)
      BY <2>2, <2>3, <2>5, <3>1
    <3> QED BY <3>2 DEF p
  <2>8. Lacks(q, s[i], n) >= Coming("call")
    BY <1>3, <1>8
  <2> QED BY <1>3, <2>2, <2>3, <2>6, <2>7, <2>8 DEF Waits
<1>10. Lacking(q, n) = td + Rest(q, n, s, "call", b)
  <2>1. Lacking(q, n) = td + Rest(q, n, s, "return", b)
    BY <1>1, <1>4 DEF Reads
  <2>2. b \in b..l
    BY <1>1, <1>2
  <2> QED BY <1>5, <2>1, <2>2
<1>11. Flags(q, n, st2, s, "call", fl2)
  BY <1>2 DEF Reads, Flags
<1>12. /\ n \in 0..Final(q) /\ Past(q, n, s) /\ (td > 0 => q.codec = "dump")
       /\ \A i \in 1..l : i < b => st2[i].for = "skip"
  <2>1. \A i \in 1..l : i < b => st[i].for = "skip"
    BY DEF Reads
  <2> QED BY <1>2, <2>1 DEF Reads
<1>13. l >= b - 1
  BY <1>1, <1>2
<1> QED BY <1>1, <1>2, <1>4, <1>9, <1>10, <1>11, <1>12, <1>13 DEF Reads

(* The innermost call has made its last one, and what it is about has its  *)
(* last token just here.                                                   *)
LEMMA TopEnds ==
  ASSUME NEW q, IsReply(q), IsLegible(q), NEW n, NEW st \in Seq(Frame), NEW s, NEW ph,
         NEW fl, NEW td \in Nat, Reads(q, n, st, s, ph, fl, td), ph = "return",
         Len(st) >= Begin(q), st[Len(st)].left = 0
  PROVE  Lacks(q, s[Len(s)], n) = 0 /\ EndsAt(Announced(q.tokens), s[Len(s)], n)
<1> DEFINE l == Len(s)
<1>1. /\ n \in Nat /\ l = Len(st) /\ l \in Nat /\ Begin(q) \in Nat
      /\ \A i \in Begin(q)..l : s[i] \in 1..n /\ Waits(q, n, st, s, ph, i)
  <2>1. Known(q, n, st, s, ph)
    BY ReadTypes
  <2> QED BY <2>1 DEF Known
<1>2. l \in Begin(q)..l
  BY <1>1
<1>3. Rest(q, n, s, ph, l + 1) = 0
  BY <1>1 DEF Rest, Coming
<1>4. Lacks(q, s[l], n) = 0 + 0
  BY <1>1, <1>2, <1>3 DEF Waits
<1>5. IsOpen(Announced(q.tokens), s[l], n - 1)
  BY <1>1, <1>2 DEF Waits
<1> QED BY <1>4, <1>5 DEF EndsAt, IsOpen, Lacks

(* It returns.                                                             *)
Returns(st, st2, fl, fl2) ==
  /\ st # <<>> /\ Len(st2) = Len(st) - 1
  /\ \A i \in 1..Len(st2) : st2[i] = st[i]
  /\ fl2 = IF st[Len(st)].for = "map" THEN fl \ {"MAP"} ELSE fl

(* The call returns, and nobody waits for what it was about.               *)
LEMMA ReadEnd ==
  ASSUME NEW q, IsReply(q), IsLegible(q), NEW n, NEW st \in Seq(Frame), NEW s, NEW ph,
         NEW fl, NEW td \in Nat, Reads(q, n, st, s, ph, fl, td), ph = "return",
         Len(st) >= Begin(q), st[Len(st)].left = 0,
         NEW st2 \in Seq(Frame), NEW fl2, Returns(st, st2, fl, fl2)
  PROVE  Reads(q, n, st2, SubSeq(s, 1, Len(s) - 1), "return", fl2, td)
<1> DEFINE l == Len(s)
           b == Begin(q)
           k == l - 1
           s2 == SubSeq(s, 1, l - 1)
<1>1. /\ n \in Nat /\ b \in Nat /\ b \in 1..3 /\ l = Len(st) /\ l \in Nat /\ s \in Seq(Nat)
      /\ \A i \in b..l : /\ i \in 1..l
                         /\ s[i] \in 1..n /\ st[i].left \in Nat /\ Lacks(q, s[i], n) \in Int
                         /\ Holds(q.tokens[s[i]]) \in Nat
                         /\ Waits(q, n, st, s, ph, i)
      /\ \A i, j \in b..l : i < j => s[i] < s[j] /\ Lacks(q, s[j], n) <= Lacks(q, s[i], n)
  <2>1. Known(q, n, st, s, ph)
    BY ReadTypes
  <2> QED BY <2>1 DEF Known
<1>2. l >= b /\ l \in b..l /\ l # 0 /\ k \in Nat /\ k + 1 = l
  BY <1>1
<1>20. n \in Nat /\ b \in Nat /\ b \in 1..3 /\ l \in Nat /\ k \in Nat /\ k + 1 = l /\ l >= b
  BY <1>1, <1>2
<1>3. /\ s2 \in Seq(Nat) /\ Len(s2) = k /\ \A i \in 1..k : s2[i] = s[i]
  BY <1>1, <1>2, Shortening
<1>4. /\ Len(st2) = k /\ \A i \in 1..k : st2[i] = st[i]
      /\ fl2 = IF st[l].for = "map" THEN fl \ {"MAP"} ELSE fl
  BY <1>1 DEF Returns
<1> HIDE DEF s2, k
<1>5. Lacks(q, s[l], n) = 0 /\ EndsAt(Announced(q.tokens), s[l], n)
  BY TopEnds
<1>6. ~(n < b) /\ "return" # "call"
  <2>1. n < b => ph = "call"
    BY DEF Reads
  <2> QED BY <2>1
<1>7. \A i \in b..k : i \in b..l /\ i \in 1..k /\ i # l /\ s2[i] = s[i] /\ st2[i] = st[i] /\ i < l
  <2>1. \A i \in b..k : i \in b..l /\ i \in 1..k /\ i # l /\ i < l
    BY ONLY <1>20
  <2> QED BY <1>3, <1>4, <2>1
<1>8. \A i \in b..l : Rest(q, n, s2, "return", i) = Rest(q, n, s, "return", i)
  <2> TAKE i \in b..l
  <2>1. i <= l /\ (i <= k <=> i # l)
    BY ONLY <1>20, i \in b..l
  <2>2. CASE i = l
    <3>1. ~(i <= Len(s2))
      BY <1>3, <2>1, <2>2
    <3>2. Rest(q, n, s2, "return", i) = 0
      BY <3>1 DEF Rest, Coming
    <3>3. Rest(q, n, s, "return", i) = Lacks(q, s[i], n)
      BY <2>1 DEF Rest
    <3> QED BY <1>5, <2>2, <3>2, <3>3
  <2>3. CASE i # l
    <3>1. i <= Len(s2) /\ i \in b..k
      BY ONLY <1>3, <1>20, <2>1, <2>3, i \in b..l
    <3>2. s2[i] = s[i]
      BY <1>7, <3>1
    <3> QED BY <2>1, <3>1, <3>2 DEF Rest
  <2> QED BY <2>2, <2>3
<1>9. ASSUME NEW i \in b..k PROVE Waits(q, n, st2, s2, "return", i)
  <2>1. Waits(q, n, st, s, "return", i) /\ s2[i] = s[i] /\ st2[i] = st[i] /\ i \in b..l
    BY <1>1, <1>7
  <2>2. i + 1 \in b..l
    BY ONLY <1>20, i \in b..k
  <2>3. Rest(q, n, s2, "return", i + 1) = Rest(q, n, s, "return", i + 1)
    BY <1>8, <2>2
  <2>4. Coming("return") = 0
    BY DEF Coming
  <2> QED BY <2>1, <2>3, <2>4 DEF Waits
<1>10. Lacking(q, n) = td + Rest(q, n, s2, "return", b)
  <2>1. Lacking(q, n) = td + Rest(q, n, s, "return", b)
    BY <1>1, <1>6 DEF Reads
  <2>2. b \in b..l
    BY <1>1, <1>2
  <2> QED BY <1>8, <2>1, <2>2
<1>11. Past(q, n, s2)
  <2> SUFFICES ASSUME NEW c \in Boxes(q), c <= n
               PROVE  (\E i \in b..k : c = s2[i]) \/ Over(q, n, s2, c)
    BY <1>3 DEF Past
  <2>1. CASE c = s[l]
    <3>1. \A i \in b..k : ~(s[l] < s2[i])
      <4> TAKE i \in b..k
      <4>1. i \in b..l /\ i < l /\ s2[i] = s[i]
        BY <1>7
      <4>2. s[i] < s[l]
        BY <1>1, <1>2, <4>1
      <4>3. s[i] \in 1..n /\ s[l] \in 1..n
        BY <1>1, <1>2, <4>1
      <4>4. s[i] \in Int /\ s[l] \in Int
        BY <1>1, <4>3
      <4> QED BY <4>1, <4>2, <4>4
    <3>2. n \in c..n
      BY <1>1, <1>2, <2>1
    <3> QED BY <1>3, <1>5, <2>1, <3>1, <3>2 DEF Over
  <2>2. ASSUME NEW i \in b..l, c = s[i], c # s[l] PROVE \E j \in b..k : c = s2[j]
    <3>1. i # l
      BY <2>2
    <3>2. i \in b..k
      BY ONLY <1>20, <2>2, <3>1
    <3> QED BY <1>7, <2>2, <3>2
  <2>3. ASSUME Over(q, n, s, c) PROVE Over(q, n, s2, c)
    <3>1. PICK m \in c..n : EndsAt(Announced(q.tokens), c, m) /\ \A i \in b..l : c < s[i] => m < s[i]
      BY <2>3 DEF Over
    <3>2. \A i \in b..k : c < s2[i] => m < s2[i]
      BY <1>7, <3>1
    <3> QED BY <1>3, <3>1, <3>2 DEF Over
  <2>4. (\E i \in b..l : c = s[i]) \/ Over(q, n, s, c)
    BY DEF Reads, Past
  <2> QED BY <2>1, <2>2, <2>3, <2>4
<1>12. Flags(q, n, st2, s2, "return", fl2)
  <2>1. "KEY" \notin fl
    <3>1. "KEY" \in fl => Named(q, st)
      BY DEF Reads, Flags
    <3>2. 0 % 2 # 1
      OBVIOUS
    <3> QED BY <3>1, <3>2 DEF Named
  <2>2. ASSUME NEW i \in b..k, q.tokens[s2[i]][1] = "map",
               \A m \in (s2[i] + 1)..n : q.tokens[m][1] # "map"
        PROVE  "MAP" \in fl2
    <3>1. s2[i] = s[i] /\ i \in b..l /\ s[i] < s[l] /\ s[i] \in Nat /\ s[l] \in 1..n /\ s[l] \in Nat
      <4>1. i \in b..l /\ i < l /\ s2[i] = s[i]
        BY <1>7
      <4>2. s[i] < s[l]
        BY <1>1, <1>2, <4>1
      <4>3. s[i] \in 1..n /\ s[l] \in 1..n
        BY <1>1, <1>2, <4>1
      <4>4. s[i] \in Nat /\ s[l] \in Nat
        BY ONLY <1>20, <4>3
      <4> QED BY <4>1, <4>2, <4>3, <4>4
    <3>2. s[l] \in (s2[i] + 1)..n
      BY ONLY <1>20, <3>1
    <3>3. st[l].for # "map"
      <4>1. st[l].for = q.tokens[s[l]][1]
        BY <1>1, <1>2 DEF Waits
      <4> QED BY <2>2, <3>2, <4>1
    <3>4. "MAP" \in fl
      BY <2>2, <3>1 DEF Reads, Flags
    <3> QED BY <1>4, <3>3, <3>4
  <2> QED BY <1>3, <1>4, <2>1, <2>2 DEF Flags
<1>13. /\ n \in 0..Final(q) /\ (td > 0 => q.codec = "dump")
       /\ \A i \in 1..k : i < b => st2[i].for = "skip"
  <2>1. \A i \in 1..k : i \in 1..l
    BY <1>1, <1>2
  <2>2. \A i \in 1..l : i < b => st[i].for = "skip"
    BY DEF Reads
  <2> QED BY <1>4, <2>1, <2>2 DEF Reads
<1>14. \A i, j \in b..k :
         i < j => s2[i] < s2[j] /\ Lacks(q, s2[j], n) <= Lacks(q, s2[i], n)
  BY <1>1, <1>7
<1>15. Reads(q, n, st2, s2, "return", fl2, td)
  BY <1>3, <1>4, <1>6, <1>9, <1>10, <1>11, <1>12, <1>13, <1>14 DEF Reads
<1> QED BY <1>15 DEF s2

(* The call returns that waits for what is printed of a skipped array.     *)
LEMMA ReadUnskip ==
  ASSUME NEW q, IsReply(q), IsLegible(q), NEW n, NEW st \in Seq(Frame), NEW s, NEW ph,
         NEW fl, NEW td \in Nat, Reads(q, n, st, s, ph, fl, td), ph = "return",
         Len(st) < Begin(q), NEW st2 \in Seq(Frame), Returns(st, st2, fl, fl)
  PROVE  Reads(q, n, st2, SubSeq(s, 1, Len(s) - 1), "return", fl, td)
<1> DEFINE l == Len(s)
           b == Begin(q)
           s2 == SubSeq(s, 1, l - 1)
<1>1. n \in Nat /\ b \in Nat /\ l = Len(st) /\ l \in Nat /\ s \in Seq(Nat)
  <2>1. Known(q, n, st, s, ph)
    BY ReadTypes
  <2> QED BY <2>1 DEF Known
<1>2. st # <<>> /\ Len(st2) = Len(st) - 1 /\ \A i \in 1..Len(st2) : st2[i] = st[i]
  BY DEF Returns
<1>3. l # 0
  <2>1. Len(st) # 0
    BY <1>2
  <2> QED BY <1>1, <2>1
<1>4. s2 \in Seq(Nat) /\ Len(s2) = l - 1
  BY <1>1, <1>3, Shortening
<1> HIDE DEF s2
<1>5. ~(Len(s) >= b) /\ ~(Len(s2) >= b) /\ b..Len(s) = {} /\ b..Len(s2) = {}
      /\ ~(b <= Len(s)) /\ ~(b <= Len(s2)) /\ Len(s2) = Len(st2)
  BY <1>1, <1>2, <1>4
<1>6. ~(n < b) /\ "return" # "call"
  <2>1. n < b => ph = "call"
    BY DEF Reads
  <2> QED BY <1>1, <2>1
<1>7. Lacking(q, n) = td + Rest(q, n, s2, "return", b)
  <2>1. Lacking(q, n) = td + Rest(q, n, s, "return", b)
    BY <1>1, <1>6 DEF Reads
  <2>2. Rest(q, n, s2, "return", b) = Rest(q, n, s, "return", b)
    BY <1>5 DEF Rest
  <2> QED BY <2>1, <2>2
<1>8. Past(q, n, s2)
  <2>1. \A c \in Boxes(q) : c <= n => Over(q, n, s, c)
    BY <1>5 DEF Reads, Past
  <2>2. \A c : Over(q, n, s, c) => Over(q, n, s2, c)
    BY <1>5 DEF Over
  <2> QED BY <2>1, <2>2 DEF Past
<1>9. Flags(q, n, st2, s2, "return", fl)
  <2>1. ~Named(q, st)
    BY <1>1, <1>5 DEF Named
  <2> QED BY <1>5, <2>1 DEF Reads, Flags
<1>10. /\ n \in 0..Final(q) /\ (td > 0 => q.codec = "dump")
       /\ \A i \in 1..Len(s2) : i < b => st2[i].for = "skip"
  <2>1. \A i \in 1..Len(s2) : i \in 1..l /\ st2[i] = st[i]
    BY <1>1, <1>2, <1>4
  <2>2. \A i \in 1..l : i < b => st[i].for = "skip"
    BY DEF Reads
  <2> QED BY <2>1, <2>2 DEF Reads
<1>11. Reads(q, n, st2, s2, "return", fl, td)
  BY <1>4, <1>5, <1>6, <1>7, <1>8, <1>9, <1>10 DEF Reads
<1> QED BY <1>11 DEF s2

(* The next of a dump's values is begun.                                   *)
LEMMA ReadNextValue ==
  ASSUME NEW q, IsReply(q), IsLegible(q), NEW n, NEW st \in Seq(Frame), NEW s, NEW ph,
         NEW fl, NEW td \in Nat, Reads(q, n, st, s, ph, fl, td), ph = "return",
         Len(st) = 0, td > 0
  PROVE  Reads(q, n, st, s, "call", fl, td - 1)
<1> DEFINE b == Begin(q)
<1>1. n \in Nat /\ b \in Nat /\ Len(s) = 0 /\ Len(st) = 0 /\ s \in Seq(Nat) /\ b >= 1
  <2>1. /\ n \in Nat /\ b \in Nat /\ b \in 1..3 /\ Len(s) = Len(st) /\ s \in Seq(Nat)
    <3>1. Known(q, n, st, s, ph)
      BY ReadTypes
    <3> QED BY <3>1 DEF Known
  <2> QED BY <2>1
<1>2. q.codec = "dump" /\ b = 1
  <2>1. q.codec = "dump"
    BY DEF Reads
  <2> QED BY <2>1 DEF Begin
<1>3. ~(n < b)
  <2>1. n < b => ph = "call"
    BY DEF Reads
  <2> QED BY <2>1
<1>4. b..Len(s) = {} /\ ~(b <= Len(s)) /\ Len(s) >= b - 1 /\ ~(Len(st) >= b) /\ 1..Len(s) = {}
  BY <1>1, <1>2
<1>5. Lacking(q, n) = (td - 1) + Rest(q, n, s, "call", b)
  <2>1. Lacking(q, n) = td + Rest(q, n, s, "return", b)
    BY <1>1, <1>3 DEF Reads
  <2>2. Rest(q, n, s, "return", b) = 0 /\ Rest(q, n, s, "call", b) = 1
    BY <1>4 DEF Rest, Coming
  <2> QED BY <2>1, <2>2
<1>6. Flags(q, n, st, s, "call", fl)
  <2>1. ~Named(q, st)
    BY <1>4 DEF Named
  <2> QED BY <1>4, <2>1 DEF Reads, Flags
<1> QED BY <1>1, <1>2, <1>3, <1>4, <1>5, <1>6 DEF Reads

-----------------------------------------------------------------------------
(* What has been printed when so much has been read: behind the last token *)
(* the brackets of what ended there and was in no call that still waits,   *)
(* and before the next one what separates it.                              *)
Deep(q, n, s) == {d \in Ended(q, n) : d > Innermost(q, s)}
Sofar(q, n, s, ph) ==
  IF ph = "call" THEN Text(q)[n] \o Separator(q, n + 1)
  ELSE Shut(q, n, Cardinality(Deep(q, n, s)))

(* What a call is about is not before any other's.                         *)
LEMMA InnermostIsLast ==
  ASSUME NEW q, IsReply(q), IsLegible(q), NEW n, NEW st \in Seq(Frame), NEW s, NEW ph,
         NEW fl, NEW td \in Nat, Reads(q, n, st, s, ph, fl, td)
  PROVE  /\ Innermost(q, s) \in 0..n
         /\ \A i \in Begin(q)..Len(s) : s[i] <= Innermost(q, s) /\ s[i] \in 1..n
         /\ Innermost(q, s) # 0 =>
              Len(s) \in Begin(q)..Len(s) /\ Innermost(q, s) = s[Len(s)]
         /\ Len(s) >= Begin(q) => Innermost(q, s) = s[Len(s)]
<1> DEFINE l == Len(s)
           b == Begin(q)
<1>1. /\ n \in Nat /\ b \in Nat /\ l \in Nat
      /\ \A i \in b..l : s[i] \in 1..n
      /\ \A i, j \in b..l : i < j => s[i] < s[j]
  <2>1. Known(q, n, st, s, ph)
    BY ReadTypes
  <2> QED BY <2>1 DEF Known
<1>2. CASE l >= b
  <2>1. l \in b..l
    BY <1>1, <1>2
  <2>2. Innermost(q, s) = s[l]
    BY <1>2 DEF Innermost
  <2>3. \A i \in b..l : s[i] <= s[l]
    <3> TAKE i \in b..l
    <3>1. i < l \/ i = l
      BY <1>1
    <3>2. s[i] < s[l] \/ s[i] = s[l]
      BY <1>1, <2>1, <3>1
    <3>3. s[i] \in 1..n /\ s[l] \in 1..n
      BY <1>1, <2>1
    <3> QED BY <3>2, <3>3
  <2> QED BY <1>1, <2>1, <2>2, <2>3
<1>3. CASE ~(l >= b)
  <2>1. b..l = {} /\ Innermost(q, s) = 0
    BY <1>1, <1>3 DEF Innermost
  <2> QED BY <1>1, <1>3, <2>1
<1> QED BY <1>2, <1>3

(* A value ends once. *)
LEMMA EndsOnce ==
  ASSUME NEW a, NEW c \in Nat, NEW m \in Nat, NEW n \in Nat, c <= m, c <= n,
         EndsAt(a, c, m), EndsAt(a, c, n)
  PROVE  m = n
<1>1. Missing(a, c, m) = 0 /\ Missing(a, c, n) = 0
  BY DEF EndsAt
<1>2. ASSUME m < n PROVE FALSE
  <2>1. m \in c..(n - 1)
    BY <1>2
  <2>2. Missing(a, c, m) > 0
    BY <2>1 DEF EndsAt
  <2> QED BY <1>1, <2>2
<1>3. ASSUME n < m PROVE FALSE
  <2>1. n \in c..(m - 1)
    BY <1>3
  <2>2. Missing(a, c, n) > 0
    BY <2>1 DEF EndsAt
  <2> QED BY <1>1, <2>2
<1> QED BY <1>2, <1>3

(* What ends at the last token read is what a call waits for, or in all of *)
(* those.                                                                  *)
LEMMA EndedWas ==
  ASSUME NEW q, IsReply(q), IsLegible(q), NEW n, NEW st \in Seq(Frame), NEW s, NEW ph,
         NEW fl, NEW td \in Nat, Reads(q, n, st, s, ph, fl, td), NEW d \in Ended(q, n)
  PROVE  /\ d \in Nat \ {0} /\ d <= n /\ Lacks(q, d, n) = 0
         /\ (\E i \in Begin(q)..Len(s) : d = s[i]) \/ Innermost(q, s) < d
<1> DEFINE a == Announced(q.tokens)
<1>1. n \in Nat /\ Begin(q) \in Nat /\ Begin(q) \in 1..3 /\ Boxes(q) \subseteq 1..Len(q.tokens)
  BY ReadTypes, ReplyTokens DEF Known
<1>2. d \in Boxes(q) /\ d <= n /\ EndsAt(a, d, n)
  BY DEF Ended
<1>3. d \in Nat \ {0} /\ Lacks(q, d, n) = 0
  BY <1>1, <1>2 DEF EndsAt, Lacks
<1>4. ASSUME Over(q, n, s, d) PROVE Innermost(q, s) < d \/ \E i \in Begin(q)..Len(s) : d = s[i]
  <2>1. PICK m \in d..n : EndsAt(a, d, m) /\ \A i \in Begin(q)..Len(s) : d < s[i] => m < s[i]
    BY <1>4 DEF Over
  <2>2. m \in Nat /\ d <= m /\ d \in Nat
    BY <1>1, <1>3, <2>1
  <2>3. m = n
    <3> HIDE DEF a
    <3> QED BY <1>1, <1>2, <2>1, <2>2, EndsOnce
  <2>4. CASE Innermost(q, s) = 0
    BY <1>3, <2>4
  <2>5. CASE Innermost(q, s) # 0
    <3>1. Len(s) \in Begin(q)..Len(s) /\ Innermost(q, s) = s[Len(s)] /\ Innermost(q, s) \in 0..n
      BY <2>5, InnermostIsLast
    <3>2. ~(d < s[Len(s)])
      BY <1>1, <2>1, <2>3, <3>1
    <3> QED BY <1>1, <1>3, <3>1, <3>2
  <2> QED BY <2>4, <2>5
<1>5. (\E i \in Begin(q)..Len(s) : d = s[i]) \/ Over(q, n, s, d)
  BY <1>2 DEF Reads, Past
<1> QED BY <1>2, <1>3, <1>4, <1>5

(* What ends at the next one is that itself, or what a call waits for.     *)
LEMMA EndedNext ==
  ASSUME NEW q, IsReply(q), IsLegible(q), NEW n, NEW st \in Seq(Frame), NEW s, NEW ph,
         NEW fl, NEW td \in Nat, Reads(q, n, st, s, ph, fl, td), ph = "call",
         NEW d \in Ended(q, n + 1)
  PROVE  /\ d \in Boxes(q) /\ d \in Nat \ {0} /\ Lacks(q, d, n + 1) = 0
         /\ d = n + 1 \/ \E i \in Begin(q)..Len(s) : d = s[i]
<1> DEFINE a == Announced(q.tokens)
<1>1. n \in Nat /\ Boxes(q) \subseteq 1..Len(q.tokens)
  BY ReadTypes, ReplyTokens DEF Known
<1>2. d \in Boxes(q) /\ d <= n + 1 /\ EndsAt(a, d, n + 1)
  BY DEF Ended
<1>3. d \in Nat \ {0} /\ Lacks(q, d, n + 1) = 0
  BY <1>1, <1>2 DEF EndsAt, Lacks
<1>4. ASSUME d <= n, Over(q, n, s, d) PROVE FALSE
  <2>1. PICK m \in d..n : EndsAt(a, d, m)
    BY <1>4 DEF Over
  <2>2. m \in Nat /\ d <= m /\ d \in Nat /\ n + 1 \in Nat /\ m <= n
    BY <1>1, <1>3, <2>1
  <2>3. m = n + 1
    <3> HIDE DEF a
    <3> QED BY <1>1, <1>2, <2>1, <2>2, EndsOnce
  <2> QED BY <1>1, <2>2, <2>3
<1>5. d <= n => (\E i \in Begin(q)..Len(s) : d = s[i]) \/ Over(q, n, s, d)
  BY <1>2 DEF Reads, Past
<1>6. d <= n \/ d = n + 1
  BY <1>1, <1>2, <1>3
<1> QED BY <1>2, <1>3, <1>4, <1>5, <1>6

(* Of a value with nothing to close behind it, itself is printed.          *)
LEMMA OpenedIs ==
  ASSUME NEW q, IsReply(q), IsLegible(q), NEW n, NEW st \in Seq(Frame), NEW s, NEW ph,
         NEW fl, NEW td \in Nat, Reads(q, n, st, s, ph, fl, td), ph = "call",
         n + 1 >= Begin(q)
  PROVE  /\ n + 1 \in Begin(q)..Len(q.tokens) /\ n + 1 \in Nat
         /\ Opened(q, n + 1) = Sofar(q, n, s, "call") \o << Own(q, n + 1) >>
         /\ \A t : Deep(q, n + 1, t) = {} => Sofar(q, n + 1, t, "return") = Opened(q, n + 1)
<1>1. n \in Nat /\ n + 1 \in 1..Len(q.tokens) /\ (n + 1) - 1 = n /\ Begin(q) \in Nat
  <2>1. n \in Nat /\ Begin(q) \in Nat
    <3>1. Known(q, n, st, s, ph)
      BY ReadTypes
    <3> QED BY <3>1 DEF Known
  <2>2. n + 1 \in 1..Len(q.tokens)
    BY NotYet
  <2>3. (n + 1) - 1 = n
    BY <2>1
  <2> QED BY <2>1, <2>2, <2>3
<1>2. n + 1 \in Begin(q)..Len(q.tokens)
  BY <1>1, ReplyTokens
<1>3. Shut(q, n + 1, 0) = Opened(q, n + 1)
  BY <1>2, ShutSteps
<1>4. Sofar(q, n, s, "call") = Text(q)[n] \o Separator(q, n + 1)
  BY DEF Sofar
<1>5. Opened(q, n + 1) = (Text(q)[(n + 1) - 1] \o Separator(q, n + 1)) \o << Own(q, n + 1) >>
  BY DEF Opened
<1>6. ASSUME NEW t, Deep(q, n + 1, t) = {}
      PROVE  Sofar(q, n + 1, t, "return") = Opened(q, n + 1)
  <2>1. Sofar(q, n + 1, t, "return") = Shut(q, n + 1, Cardinality(Deep(q, n + 1, t)))
    BY DEF Sofar
  <2>2. Cardinality({}) = 0
    BY FS_EmptySet
  <2> QED BY <1>3, <1>6, <2>1, <2>2
<1>7. Opened(q, n + 1) = Sofar(q, n, s, "call") \o << Own(q, n + 1) >>
  <2>1. Text(q)[(n + 1) - 1] = Text(q)[n]
    BY <1>1
  <2> QED BY <1>4, <1>5, <2>1, Zenon
<1> QED BY <1>1, <1>2, <1>6, <1>7

(* A scalar is printed behind what separates it from what is before it.    *)
LEMMA PrintsScalar ==
  ASSUME NEW q, IsReply(q), IsLegible(q), NEW n, NEW st \in Seq(Frame), NEW s, NEW ph,
         NEW fl, NEW td \in Nat, Reads(q, n, st, s, ph, fl, td), ph = "call",
         n + 1 >= Begin(q), q.tokens[n + 1][1] \notin {"array", "map"}
  PROVE  Sofar(q, n + 1, s, "return") = Sofar(q, n, s, "call") \o << Own(q, n + 1) >>
<1>1. n \in Nat
  <2>1. Known(q, n, st, s, ph)
    BY ReadTypes
  <2> QED BY <2>1 DEF Known
<1>2. n + 1 \notin Boxes(q)
  BY DEF Boxes
<1>3. Deep(q, n + 1, s) = {}
  <2> SUFFICES ASSUME NEW d \in Ended(q, n + 1), d > Innermost(q, s) PROVE FALSE
    BY DEF Deep
  <2>1. d \in Boxes(q) /\ d \in Nat /\ (d = n + 1 \/ \E i \in Begin(q)..Len(s) : d = s[i])
    BY EndedNext
  <2>2. PICK i \in Begin(q)..Len(s) : d = s[i]
    BY <1>2, <2>1
  <2>3. s[i] <= Innermost(q, s) /\ Innermost(q, s) \in 0..n
    BY InnermostIsLast
  <2> QED BY <1>1, <2>1, <2>2, <2>3
<1> QED BY <1>3, OpenedIs

(* So is the bracket of an array or map; it is all there is to print, and  *)
(* nothing separates the first item from it.                               *)
LEMMA PrintsBox ==
  ASSUME NEW q, IsReply(q), IsLegible(q), NEW n, NEW st \in Seq(Frame), NEW s, NEW ph,
         NEW fl, NEW td \in Nat, Reads(q, n, st, s, ph, fl, td), ph = "call",
         n + 1 >= Begin(q),
         NEW st2 \in Seq(Frame), NEW fl2, NEW ph2, Opens(q, n, st, fl, st2, fl2, ph2)
  PROVE  Sofar(q, n + 1, Append(s, n + 1), ph2) = Sofar(q, n, s, "call") \o << Own(q, n + 1) >>
<1> DEFINE h == Holds(q.tokens[n + 1])
           s2 == Append(s, n + 1)
           b == Begin(q)
           k == n + 1
<1>1. /\ n \in Nat /\ b \in Nat /\ s \in Seq(Nat) /\ Len(s) = Len(st) /\ Len(s) \in Nat
      /\ k \in 1..Len(q.tokens) /\ h \in Nat /\ k \in Nat /\ k \in b..Len(q.tokens)
  <2>1. n \in Nat /\ b \in Nat /\ s \in Seq(Nat) /\ Len(s) = Len(st) /\ Len(s) \in Nat
    <3>1. Known(q, n, st, s, ph)
      BY ReadTypes
    <3> QED BY <3>1 DEF Known
  <2>2. k \in b..Len(q.tokens) /\ k \in Nat
    BY OpenedIs
  <2>3. k \in 1..Len(q.tokens)
    BY NotYet
  <2>4. h \in Nat
    BY <2>3, ReplyTokens
  <2> QED BY <2>1, <2>2, <2>3, <2>4
<1>2. s2 \in Seq(Nat) /\ Len(s2) = Len(s) + 1 /\ s2[Len(s) + 1] = k
  BY <1>1, Appending
<1>3. /\ q.tokens[k][1] \in {"array", "map"} /\ Len(st2) = Len(st) + 1
      /\ st2[Len(st) + 1].left = IF h = 0 THEN 0 ELSE h - 1
      /\ ph2 = IF h = 0 THEN "return" ELSE "call"
  BY DEF Opens
<1>4. Opened(q, k) = Sofar(q, n, s, "call") \o << Own(q, k) >>
  BY OpenedIs
<1>5. Len(s) >= b - 1
  <2>1. n >= Begin(q) - 1
    BY <1>1
  <2> QED BY <2>1, NotYet
<1>6. Reads(q, k, st2, s2, ph2, fl2, td)
  BY ReadBox
<1>7. CASE h = 0
  <2>1. Innermost(q, s2) = k
    BY <1>1, <1>2, <1>5 DEF Innermost
  <2>2. Deep(q, k, s2) = {}
    <3> SUFFICES ASSUME NEW d \in Ended(q, k), d > Innermost(q, s2) PROVE FALSE
      BY DEF Deep
    <3>1. d \in Nat /\ d <= k
      BY <1>6, EndedWas
    <3> QED BY <1>1, <2>1, <3>1
  <2>3. Sofar(q, k, s2, "return") = Opened(q, k)
    BY <2>2, OpenedIs
  <2> QED BY <1>3, <1>4, <1>7, <2>3
<1>8. CASE h # 0
  <2>1. Ended(q, k) = {}
    <3> SUFFICES ASSUME NEW d \in Ended(q, k) PROVE FALSE
      OBVIOUS
    <3>1. /\ d \in Boxes(q) /\ d \in Nat \ {0} /\ Lacks(q, d, k) = 0
          /\ d = k \/ \E i \in b..Len(s) : d = s[i]
      BY EndedNext
    <3>2. CASE d = k
      <4>1. Missing(Announced(q.tokens), k, k) = h
        BY <1>1, MissingSteps
      <4> QED BY <1>8, <3>1, <3>2, <4>1 DEF Lacks
    <3>3. ASSUME NEW i \in b..Len(s), d = s[i] PROVE FALSE
      <4>1. Lacks(q, s[i], n) >= 1 /\ Lacks(q, s[i], k) = Lacks(q, s[i], n) + (h - 1)
        BY StillWaits
      <4>2. Lacks(q, s[i], n) \in Int
        <5>1. Known(q, n, st, s, ph)
          BY ReadTypes
        <5> QED BY <5>1 DEF Known
      <4> QED BY <1>1, <1>8, <3>1, <3>3, <4>1, <4>2
    <3> QED BY <3>1, <3>2, <3>3
  <2>2. Text(q)[k] = Opened(q, k)
    <3>1. Cardinality({}) = 0
      BY FS_EmptySet
    <3>2. Shut(q, k, 0) = Opened(q, k) /\ Shut(q, k, Cardinality(Ended(q, k))) = Text(q)[k]
      BY <1>1, ShutSteps
    <3> QED BY <2>1, <3>1, <3>2
  <2>3. Separator(q, k + 1) = <<>>
    <3>1. Len(st2) >= b /\ k + 1 >= b /\ Len(st2) = Len(s) + 1 /\ ph2 = "call"
      BY <1>1, <1>3, <1>5, <1>8
    <3>2. /\ Inside(q, k + 1) = s2[Len(st2)]
          /\ Nth(q, k + 1) = Holds(q.tokens[s2[Len(st2)]]) - st2[Len(st2)].left
      BY <1>6, <3>1, NthOfNext
    <3>3. s2[Len(st2)] = k /\ st2[Len(st2)].left = h - 1
      BY <1>1, <1>2, <1>3, <1>8, <3>1
    <3>4. Nth(q, k + 1) = 1
      <4>1. Nth(q, k + 1) = h - (h - 1)
        BY <3>2, <3>3
      <4> HIDE DEF h
      <4> QED BY <1>1, <4>1
    <3> QED BY <3>4 DEF Separator
  <2>4. Opened(q, k) \o <<>> = Opened(q, k)
    <3>1. Opened(q, k) \in Seq(TextTokens)
      BY <1>1, ShutSteps
    <3> QED BY <3>1, ConcatEmptySeq
  <2> QED BY <1>3, <1>4, <1>8, <2>2, <2>3, <2>4 DEF Sofar
<1> QED BY <1>7, <1>8

(* Nothing is printed of what is skipped. *)
LEMMA PrintsNothingYet ==
  ASSUME NEW q, IsReply(q), IsLegible(q), NEW n, NEW st \in Seq(Frame), NEW s, NEW ph,
         NEW fl, NEW td \in Nat, Reads(q, n, st, s, ph, fl, td), n < Begin(q)
  PROVE  Sofar(q, n, s, "call") = <<>>
<1>1. ph = "call" /\ Len(s) = n /\ n \in 0..Len(q.tokens)
  <2>1. ph = "call" /\ Len(s) = n
    BY DEF Reads
  <2> QED BY <2>1, ReadTypes DEF Known
<1>2. Text(q)[n] = <<>>
  BY <1>1, NoTextYet
<1>3. Inside(q, n + 1) = 0
  <2>1. Inside(q, n + 1) = Innermost(q, s)
    BY <1>1, InsideNext
  <2>2. ~(Len(s) >= Begin(q))
    <3>1. n \in Nat /\ Begin(q) \in Nat
      <4>1. Known(q, n, st, s, ph)
        BY ReadTypes
      <4> QED BY <4>1 DEF Known
    <3> QED BY <1>1, <3>1
  <2> QED BY <2>1, <2>2 DEF Innermost
<1>4. Separator(q, n + 1) = <<>>
  BY <1>3 DEF Separator
<1>5. Sofar(q, n, s, "call") = <<>> \o <<>>
  BY <1>2, <1>4 DEF Sofar
<1>6. <<>> \o <<>> = <<>>
  <2>1. <<>> \in Seq(TextTokens)
    OBVIOUS
  <2> QED BY <2>1, ConcatEmptySeq
<1> QED BY <1>5, <1>6

(* Before the next value all is closed that ended.                         *)
LEMMA AllIsShut ==
  ASSUME NEW q, IsReply(q), IsLegible(q), NEW n \in Begin(q)..Len(q.tokens), NEW s,
         Deep(q, n, s) = Ended(q, n)
  PROVE  Sofar(q, n, s, "return") = Text(q)[n]
<1>1. Sofar(q, n, s, "return") = Shut(q, n, Cardinality(Ended(q, n)))
  BY DEF Sofar
<1> QED BY <1>1, ShutSteps

(* So it is before every call, and when no call waits.                     *)
LEMMA PrintsAll ==
  ASSUME NEW q, IsReply(q), IsLegible(q), NEW n, NEW st \in Seq(Frame), NEW s, NEW ph,
         NEW fl, NEW td \in Nat, Reads(q, n, st, s, ph, fl, td),
         ph = "call" \/ Len(st) = 0, n >= Begin(q)
  PROVE  Sofar(q, n, s, "return") = Text(q)[n]
<1>1. n \in Begin(q)..Len(q.tokens) /\ Begin(q) \in Nat /\ Begin(q) # 0 /\ Len(s) = Len(st)
  <2>1. n \in 0..Len(q.tokens) /\ Begin(q) \in 1..3 /\ Len(s) = Len(st)
    <3>1. Known(q, n, st, s, ph)
      BY ReadTypes
    <3> QED BY <3>1 DEF Known
  <2> QED BY <2>1, ReplyTokens
<1>2. ASSUME NEW d \in Ended(q, n) PROVE d > Innermost(q, s)
  <2>1. /\ d \in Nat \ {0} /\ Lacks(q, d, n) = 0
        /\ (\E i \in Begin(q)..Len(s) : d = s[i]) \/ Innermost(q, s) < d
    BY EndedWas
  <2>2. ASSUME ph = "call", NEW i \in Begin(q)..Len(s), d = s[i] PROVE FALSE
    <3>1. Lacks(q, s[i], n) >= 1
      BY <2>2, StillWaits
    <3> QED BY <2>1, <2>2, <3>1
  <2>3. CASE ph = "call"
    <3>1. Innermost(q, s) < d
      BY <2>1, <2>2, <2>3
    <3>2. Innermost(q, s) \in 0..n /\ n \in Nat
      BY InnermostIsLast, ReadTypes DEF Known
    <3> QED BY <2>1, <3>1, <3>2
  <2>4. CASE Len(st) = 0
    <3>1. ~(Len(s) >= Begin(q))
      BY <1>1, <2>4
    <3>2. Innermost(q, s) = 0
      BY <3>1 DEF Innermost
    <3> QED BY <2>1, <3>2
  <2> QED BY <2>3, <2>4
<1>3. Deep(q, n, s) = Ended(q, n)
  BY <1>2 DEF Deep
<1> QED BY <1>1, <1>3, AllIsShut

(* A key is followed by a colon, an item that is not the last by a comma.  *)
LEMMA PrintsAgain ==
  ASSUME NEW q, IsReply(q), IsLegible(q), NEW n, NEW st \in Seq(Frame), NEW s, NEW ph,
         NEW fl, NEW td \in Nat, Reads(q, n, st, s, ph, fl, td), ph = "return",
         NEW st2 \in Seq(Frame), NEW fl2, Repeats(q, st, st2, fl, fl2)
  PROVE  Sofar(q, n, s, "call") = Sofar(q, n, s, "return")
           \o << IF st[Len(st)].for = "map" /\ st[Len(st)].left % 2 = 1
                   THEN <<":">> ELSE <<",">> >>
<1> DEFINE l == Len(st)
           b == Begin(q)
           h == Holds(q.tokens[s[l]])
           left == st[l].left
<1>1. /\ n \in Nat /\ b \in Nat /\ Len(s) = l /\ l \in Nat
      /\ \A i \in b..Len(s) : /\ st[i].left \in Nat /\ Holds(q.tokens[s[i]]) \in Nat
                              /\ i \in 1..Len(s) /\ Waits(q, n, st, s, ph, i)
  <2>1. Known(q, n, st, s, ph)
    BY ReadTypes
  <2> QED BY <2>1 DEF Known
<1>2. /\ Len(st2) = l /\ l >= b /\ left > 0
      /\ \A i \in 1..l : st2[i].for = st[i].for
      /\ st2[l].left = left - 1
  BY DEF Repeats
<1>3. l \in b..Len(s) /\ l \in 1..l
  BY <1>1, <1>2
<1>4. h \in Nat /\ left \in Nat /\ left < h
  <2>1. left < h \/ left = 0
    BY <1>1, <1>3 DEF Waits
  <2> QED BY <1>1, <1>2, <1>3, <2>1
<1>5. Reads(q, n, st2, s, "call", fl2, td)
  BY ReadAgain
<1>6. n >= b
  <2>1. n < b => ph = "call"
    BY DEF Reads
  <2>2. ~(n < b)
    BY <2>1
  <2> QED BY <1>1, <2>2
<1>7. Sofar(q, n, s, "return") = Text(q)[n]
  BY <1>5, <1>6, PrintsAll
<1>8. /\ IsName(q, n + 1) <=> Named(q, st2)
      /\ Inside(q, n + 1) = s[l] /\ s[l] # 0
      /\ InMap(q, n + 1) <=> st2[l].for = "map"
      /\ Nth(q, n + 1) = Holds(q.tokens[s[l]]) - st2[l].left
  <2>1. n + 1 >= b /\ Len(st2) >= b
    BY <1>1, <1>2, <1>6
  <2> QED BY <1>2, <1>5, <2>1, NthOfNext
<1>9. Nth(q, n + 1) # 1
  <2>1. Nth(q, n + 1) = h - (left - 1)
    BY <1>2, <1>8
  <2> HIDE DEF h, left
  <2> QED BY <1>4, <2>1
<1>10. Named(q, st2) <=> st[l].for = "map" /\ left % 2 # 1
  <2>1. Named(q, st2) <=> st[l].for = "map" /\ (left - 1) % 2 = 1
    BY <1>2, <1>3 DEF Named
  <2>2. \A m \in Nat : m > 0 => ((m - 1) % 2 = 1 <=> m % 2 # 1)
    OBVIOUS
  <2>3. (left - 1) % 2 = 1 <=> left % 2 # 1
    <3> HIDE DEF left
    <3> QED BY <1>2, <1>4, <2>2
  <2> QED BY <2>1, <2>3
<1>11. InMap(q, n + 1) <=> st[l].for = "map"
  BY <1>2, <1>3, <1>8
<1>12. Separator(q, n + 1) = << IF st[l].for = "map" /\ left % 2 = 1 THEN <<":">> ELSE <<",">> >>
  BY <1>8, <1>9, <1>10, <1>11 DEF Separator
<1> QED BY <1>7, <1>12 DEF Sofar

(* A dump's values are printed behind one another.                         *)
LEMMA PrintsNextValue ==
  ASSUME NEW q, IsReply(q), IsLegible(q), NEW n, NEW st \in Seq(Frame), NEW s, NEW ph,
         NEW fl, NEW td \in Nat, Reads(q, n, st, s, ph, fl, td), ph = "return",
         Len(st) = 0, td > 0
  PROVE  Sofar(q, n, s, "call") = Sofar(q, n, s, "return")
<1>1. n \in Nat /\ Begin(q) \in Nat /\ Begin(q) \in 1..3 /\ n >= Begin(q) /\ n \in 0..Len(q.tokens)
  <2>1. n < Begin(q) => ph = "call"
    BY DEF Reads
  <2>2. ~(n < Begin(q))
    BY <2>1
  <2>3. n \in Nat /\ Begin(q) \in Nat /\ Begin(q) \in 1..3 /\ n \in 0..Len(q.tokens)
    <3>1. Known(q, n, st, s, ph)
      BY ReadTypes
    <3> QED BY <3>1 DEF Known
  <2> QED BY <2>2, <2>3
<1>2. Reads(q, n, st, s, "call", fl, td - 1) /\ td - 1 \in Nat
  <2>1. Reads(q, n, st, s, "call", fl, td - 1)
    BY ReadNextValue
  <2>2. td - 1 \in Nat
    OBVIOUS
  <2> QED BY <2>1, <2>2
<1>3. Sofar(q, n, s, "return") = Text(q)[n]
  BY <1>1, PrintsAll
<1>4. Inside(q, n + 1) = 0
  <2>1. n + 1 >= Begin(q) /\ Len(st) < Begin(q)
    BY <1>1
  <2> QED BY <1>2, <2>1, NthOfNext
<1>5. Separator(q, n + 1) = <<>>
  BY <1>4 DEF Separator
<1>6. Text(q)[n] \o <<>> = Text(q)[n]
  <2>1. Text(q)[n] \in Seq(TextTokens)
    BY <1>1, TextSteps
  <2> QED BY <2>1, ConcatEmptySeq
<1> QED BY <1>3, <1>5, <1>6 DEF Sofar

(* When the outermost call has returned, the reply's text is printed.      *)
LEMMA PrintsTheText ==
  ASSUME NEW q, IsReply(q), IsLegible(q), NEW n, NEW st \in Seq(Frame), NEW s, NEW ph,
         NEW fl, NEW td \in Nat, Reads(q, n, st, s, ph, fl, td), ph = "return",
         Len(st) = 0, td = 0
  PROVE  n = Final(q) /\ Sofar(q, n, s, "return") = Text(q)[Final(q)]
<1>1. /\ n \in Nat /\ Begin(q) \in Nat /\ Begin(q) \in 1..3 /\ n >= Begin(q) /\ n \in 0..Len(q.tokens)
      /\ n <= Final(q) /\ Len(s) = 0
  <2>1. n < Begin(q) => ph = "call"
    BY DEF Reads
  <2>2. ~(n < Begin(q))
    BY <2>1
  <2>3. /\ n \in Nat /\ Begin(q) \in Nat /\ Begin(q) \in 1..3 /\ n \in 0..Len(q.tokens)
        /\ n <= Final(q) /\ Len(s) = Len(st)
    <3>1. Known(q, n, st, s, ph)
      BY ReadTypes
    <3> QED BY <3>1 DEF Known
  <2> QED BY <2>2, <2>3
<1>2. Sofar(q, n, s, "return") = Text(q)[n]
  BY <1>1, PrintsAll
<1>3. Lacking(q, n) = 0
  <2>1. Lacking(q, n) = td + Rest(q, n, s, ph, Begin(q))
    BY <1>1 DEF Reads
  <2>2. Rest(q, n, s, ph, Begin(q)) = 0
    <3>1. ~(Begin(q) <= Len(s))
      BY <1>1
    <3> QED BY <3>1 DEF Rest, Coming
  <2> QED BY <2>1, <2>2
<1>4. Final(q) <= n /\ Final(q) \in Nat
  <2>1. n \in Begin(q)..Len(q.tokens)
    BY <1>1, ReplyTokens
  <2> QED BY <1>3, <2>1, FinalToken
<1>5. n = Final(q)
  BY <1>1, <1>4
<1> QED BY <1>2, <1>5

(* Of what ends at a token, that is the i-th to be closed which only i - 1 *)
(* others are in.                                                          *)
LEMMA ClosedIs ==
  ASSUME NEW q, IsReply(q), NEW n, NEW c \in Ended(q, n), NEW i,
         Cardinality({d \in Ended(q, n) : d >= c}) = i
  PROVE  Closed(q, n, i) = c /\ i \in 1..Cardinality(Ended(q, n))
<1> DEFINE E == Ended(q, n)
           From(x) == {d \in E : d >= x}
<1>1. IsFiniteSet(E) /\ Cardinality(E) \in Nat /\ E \subseteq Nat
  <2>1. Boxes(q) \subseteq 1..Len(q.tokens)
    BY ReplyTokens
  <2>2. 1..Len(q.tokens) \subseteq Nat
    OBVIOUS
  <2> QED BY <2>1, <2>2, EndedFinite
<1> HIDE DEF E
<1>2. \A x \in E : IsFiniteSet(From(x)) /\ Cardinality(From(x)) \in Nat
                   /\ Cardinality(From(x)) <= Cardinality(E)
  <2> TAKE x \in E
  <2>1. From(x) \in SUBSET E
    OBVIOUS
  <2> HIDE DEF From
  <2> QED BY <1>1, <2>1, FS_Subset, FS_CardinalityType
<1>3. c \in E /\ Cardinality(From(c)) = i
  BY DEF E
<1>4. i \in 1..Cardinality(E)
  <2>1. c \in From(c)
    BY <1>1, <1>3
  <2>2. Cardinality(From(c)) # 0
    <3> HIDE DEF From
    <3> QED BY <1>2, <1>3, <2>1, FS_EmptySet
  <2> HIDE DEF From
  <2> QED BY <1>1, <1>2, <1>3, <2>2
<1>5. ASSUME NEW x \in E, NEW y \in E, x < y, Cardinality(From(x)) = Cardinality(From(y)) PROVE FALSE
  <2>1. From(y) \in SUBSET From(x) /\ x \in From(x) /\ x \notin From(y)
    <3>1. x \in Nat /\ y \in Nat /\ x < y /\ x \in E
      BY <1>1, <1>5
    <3>2. \A d \in E : d \in Nat /\ (d >= y => d >= x)
      BY <1>1, <3>1
    <3>3. ~(x >= y) /\ x >= x
      BY <3>1
    <3>4. \A d : d \in From(y) => d \in From(x)
      BY <3>2, Zenon
    <3>5. x \in From(x) /\ x \notin From(y)
      BY <3>1, <3>3, Zenon
    <3> QED BY <3>4, <3>5
  <2> HIDE DEF From
  <2>2. From(x) = From(y)
    BY <1>2, <1>5, <2>1, FS_Subset
  <2> QED BY <2>1, <2>2
<1>6. \A x \in E : Cardinality(From(x)) = i => x = c
  <2> SUFFICES ASSUME NEW x \in E, Cardinality(From(x)) = i PROVE x = c
    OBVIOUS
  <2>1. x < c \/ c < x \/ x = c
    BY <1>1, <1>3
  <2> HIDE DEF From
  <2> QED BY <1>3, <1>5, <2>1
<1>7. Closed(q, n, i) = CHOOSE x \in E : Cardinality(From(x)) = i
  BY DEF Closed, E
<1>8. (CHOOSE x \in E : Cardinality(From(x)) = i) = c
  <2> HIDE DEF From
  <2> QED BY <1>3, <1>6
<1> QED BY <1>4, <1>7, <1>8 DEF E

(* An array or map is closed when all in it is that ended with it.         *)
LEMMA PrintsEnd ==
  ASSUME NEW q, IsReply(q), IsLegible(q), NEW n, NEW st \in Seq(Frame), NEW s, NEW ph,
         NEW fl, NEW td \in Nat, Reads(q, n, st, s, ph, fl, td), ph = "return",
         Len(st) >= Begin(q), st[Len(st)].left = 0
  PROVE  Sofar(q, n, SubSeq(s, 1, Len(s) - 1), "return") = Sofar(q, n, s, "return")
           \o << IF st[Len(st)].for = "map" THEN <<"}">> ELSE <<"]">> >>
<1> DEFINE l == Len(s)
           b == Begin(q)
           s2 == SubSeq(s, 1, l - 1)
           E == Ended(q, n)
           c == s[l]
           D == Deep(q, n, s)
           D2 == Deep(q, n, s2)
           j == Cardinality(D)
<1>1. /\ n \in Nat /\ b \in Nat /\ b # 0 /\ l = Len(st) /\ l \in Nat /\ s \in Seq(Nat)
      /\ n \in 0..Len(q.tokens)
      /\ \A i \in b..l : s[i] \in 1..n /\ s[i] \in Boxes(q) /\ Waits(q, n, st, s, ph, i)
      /\ \A i, k \in b..l : i < k => s[i] < s[k]
  <2>1. b \in 1..3
    <3>1. Known(q, n, st, s, ph)
      BY ReadTypes
    <3> QED BY <3>1 DEF Known
  <2>2. /\ n \in Nat /\ b \in Nat /\ l = Len(st) /\ Len(st) \in Nat /\ s \in Seq(Nat)
        /\ n \in 0..Len(q.tokens)
    <3>1. Known(q, n, st, s, ph)
      BY ReadTypes
    <3> QED BY <3>1 DEF Known
  <2>3. /\ \A i \in b..l : s[i] \in 1..n /\ s[i] \in Boxes(q) /\ Waits(q, n, st, s, ph, i)
        /\ \A i, k \in b..l : i < k => s[i] < s[k]
    <3>1. Known(q, n, st, s, ph)
      BY ReadTypes
    <3> QED BY <3>1 DEF Known
  <2> QED BY <2>1, <2>2, <2>3
<1>2. l >= b /\ l \in b..l /\ l # 0 /\ Len(st) = l
  BY <1>1
<1>3. s2 \in Seq(Nat) /\ Len(s2) = l - 1 /\ \A i \in 1..(l - 1) : s2[i] = s[i]
  BY <1>1, <1>2, Shortening
<1> HIDE DEF s2
<1>4. n \in b..Len(q.tokens)
  <2>1. n < b => ph = "call"
    BY DEF Reads
  <2>2. ~(n < b)
    BY <2>1
  <2> QED BY <1>1, <2>2, ReplyTokens
<1>5. c \in E /\ c \in 1..n /\ c \in Boxes(q)
  <2>1. EndsAt(Announced(q.tokens), c, n)
    BY TopEnds
  <2>2. c \in Boxes(q) /\ c \in 1..n
    BY <1>1, <1>2
  <2>3. c <= n
    BY <1>1, <2>2
  <2> QED BY <2>1, <2>2, <2>3 DEF Ended
<1>6. Innermost(q, s) = c
  BY <1>2 DEF Innermost
<1>7. \A d \in E : d \in Nat /\ ((\E i \in b..l : d = s[i]) \/ c < d)
  BY <1>6, EndedWas
<1>8. Innermost(q, s2) \in Nat /\ Innermost(q, s2) < c /\ \A i \in b..(l - 1) : s[i] <= Innermost(q, s2)
  <2>1. CASE l - 1 >= b
    <3>1. l - 1 \in b..l /\ l - 1 < l /\ l - 1 \in 1..(l - 1) /\ Len(s2) >= b
      BY <1>1, <1>2, <1>3, <2>1
    <3>2. Innermost(q, s2) = s[l - 1]
      BY <1>3, <3>1 DEF Innermost
    <3>3. s[l - 1] < s[l] /\ s[l - 1] \in 1..n
      BY <1>1, <1>2, <3>1
    <3>4. ASSUME NEW i \in b..(l - 1) PROVE s[i] <= s[l - 1]
      <4>1. i < l - 1 \/ i = l - 1
        BY <1>1
      <4>2. i \in b..l
        BY <1>1
      <4>3. s[i] < s[l - 1] \/ i = l - 1
        BY <1>1, <3>1, <4>1, <4>2
      <4>4. s[i] \in 1..n
        BY <1>1, <4>2
      <4> QED BY <3>3, <4>3, <4>4
    <3> QED BY <3>2, <3>3, <3>4
  <2>2. CASE ~(l - 1 >= b)
    <3>1. ~(Len(s2) >= b) /\ b..(l - 1) = {}
      BY <1>1, <1>3, <2>2
    <3>2. Innermost(q, s2) = 0
      BY <3>1 DEF Innermost
    <3> QED BY <1>5, <3>1, <3>2
  <2> QED BY <2>1, <2>2
<1>9. \A d \in E : d > Innermost(q, s2) <=> d >= c
  <2> TAKE d \in E
  <2>1. d \in Nat /\ c \in Nat
    BY <1>5, <1>7
  <2>2. ASSUME d > Innermost(q, s2), ~(c < d) PROVE d = c
    <3>1. PICK i \in b..l : d = s[i]
      BY <1>7, <2>2
    <3>2. i = l \/ i \in b..(l - 1)
      BY <1>1
    <3>3. ~(s[i] <= Innermost(q, s2))
      BY <1>8, <2>1, <2>2, <3>1
    <3> QED BY <1>8, <3>1, <3>2, <3>3
  <2> QED BY <1>8, <2>1, <2>2
<1>10. D2 = {d \in E : d >= c} /\ D2 = D \cup {c} /\ c \notin D /\ D \in SUBSET E
  <2>1. D2 = {d \in E : d >= c}
    BY <1>9 DEF Deep
  <2>2. D = {d \in E : d > c}
    BY <1>6 DEF Deep
  <2>3. c \in Nat /\ \A d \in E : d \in Nat
    BY <1>5, <1>7
  <2> HIDE DEF D, D2, E, c
  <2>4. \A d \in E : d >= c <=> (d > c \/ d = c)
    BY <2>3
  <2>5. c \notin D
    BY <2>2, <2>3
  <2>6. c \in E
    BY <1>5 DEF c, E
  <2>7. \A d : d \in D2 <=> d \in D \cup {c}
    BY <2>1, <2>2, <2>4, <2>6
  <2> QED BY <2>1, <2>2, <2>5, <2>7
<1>11. j \in Nat /\ Cardinality(D2) = j + 1
  <2>1. IsFiniteSet(E)
    BY EndedFinite
  <2> HIDE DEF E, D, D2, c
  <2>2. IsFiniteSet(D)
    BY <1>10, <2>1, FS_Subset
  <2> QED BY <1>10, <2>2, FS_AddElement, FS_CardinalityType
<1>12. Closed(q, n, j + 1) = c /\ j + 1 \in 1..Cardinality(E)
  <2>1. Cardinality({d \in Ended(q, n) : d >= c}) = j + 1
    BY <1>10, <1>11
  <2> HIDE DEF j, c
  <2>2. c \in Ended(q, n)
    BY <1>5
  <2> QED BY <2>1, <2>2, ClosedIs
<1>13. Closers(q, n)[j + 1] = IF st[Len(st)].for = "map" THEN <<"}">> ELSE <<"]">>
  <2>1. st[l].for = q.tokens[c][1]
    BY <1>1, <1>2 DEF Waits
  <2> HIDE DEF j, c
  <2>2. Closers(q, n)[j + 1] = IF q.tokens[Closed(q, n, j + 1)][1] = "map" THEN <<"}">> ELSE <<"]">>
    BY <1>12 DEF Closers
  <2> QED BY <1>2, <1>12, <2>1, <2>2
<1>14. Sofar(q, n, s, "return") = Shut(q, n, j) /\ Sofar(q, n, s2, "return") = Shut(q, n, j + 1)
  <2>1. Sofar(q, n, s, "return") = Shut(q, n, j)
    BY DEF Sofar
  <2>2. Sofar(q, n, s2, "return") = Shut(q, n, Cardinality(D2))
    BY DEF Sofar
  <2> QED BY <1>11, <2>1, <2>2
<1>15. Shut(q, n, j + 1) = Shut(q, n, j) \o << Closers(q, n)[j + 1] >>
  <2> HIDE DEF j
  <2>1. j \in 0..(Cardinality(E) - 1)
    BY <1>11, <1>12, EndedFinite
  <2> QED BY <1>4, <2>1, ShutSteps
<1>16. Sofar(q, n, s2, "return") = Sofar(q, n, s, "return") \o << Closers(q, n)[j + 1] >>
  BY <1>14, <1>15
<1> QED BY <1>13, <1>16 DEF s2

(* Nothing is printed when the call for a skipped array returns.           *)
LEMMA PrintsUnskip ==
  ASSUME NEW q, IsReply(q), IsLegible(q), NEW n, NEW st \in Seq(Frame), NEW s, NEW ph,
         NEW fl, NEW td \in Nat, Reads(q, n, st, s, ph, fl, td), ph = "return",
         Len(st) < Begin(q), NEW st2 \in Seq(Frame), Returns(st, st2, fl, fl)
  PROVE  Sofar(q, n, SubSeq(s, 1, Len(s) - 1), "return") = Sofar(q, n, s, "return")
<1> DEFINE s2 == SubSeq(s, 1, Len(s) - 1)
<1>1. Begin(q) \in Nat /\ Len(s) = Len(st) /\ Len(s) \in Nat /\ s \in Seq(Nat)
  <2>1. Begin(q) \in Nat /\ Len(s) = Len(st) /\ s \in Seq(Nat)
    <3>1. Known(q, n, st, s, ph)
      BY ReadTypes
    <3> QED BY <3>1 DEF Known
  <2>2. Len(st) \in Nat
    OBVIOUS
  <2> QED BY <2>1, <2>2
<1>2. Len(s2) = Len(s) - 1
  <2>1. Len(s) # 0
    <3>1. st # <<>>
      BY DEF Returns
    <3>2. Len(st) # 0
      BY <3>1
    <3> QED BY <1>1, <3>2
  <2> QED BY <1>1, <2>1, Shortening
<1> HIDE DEF s2
<1>3. ~(Len(s) >= Begin(q)) /\ ~(Len(s2) >= Begin(q))
  BY <1>1, <1>2
<1>4. Innermost(q, s) = 0 /\ Innermost(q, s2) = 0
  BY <1>3 DEF Innermost
<1>5. Deep(q, n, s2) = Deep(q, n, s)
  BY <1>4 DEF Deep
<1>6. Sofar(q, n, s2, "return") = Sofar(q, n, s, "return")
  BY <1>5 DEF Sofar
<1> QED BY <1>6 DEF s2

(* What has been printed of what ends at n is part of the text up to n.    *)
LEMMA ShutFits ==
  ASSUME NEW q, IsReply(q), NEW n \in Begin(q)..Len(q.tokens),
         NEW j \in 0..Cardinality(Ended(q, n))
  PROVE  JsonSize(Shut(q, n, j)) <= JsonSize(Text(q)[n])
<1> DEFINE k == Cardinality(Ended(q, n))
           f == [i \in 0..k |-> JsonSize(Shut(q, n, i))]
<1>1. k \in Nat /\ j \in 0..k
  BY EndedFinite
<1>2. /\ \A i \in 0..k : Shut(q, n, i) \in Seq(TextTokens)
      /\ \A i \in 0..(k - 1) : Shut(q, n, i + 1) = Shut(q, n, i) \o << Closers(q, n)[i + 1] >>
      /\ Shut(q, n, k) = Text(q)[n]
  BY ShutSteps
<1>3. Closers(q, n) \in Seq(TextTokens) /\ Len(Closers(q, n)) = k
  <2>1. n \in 1..Len(q.tokens)
    BY ReplyTokens
  <2> QED BY <2>1, MeaningType
<1> HIDE DEF k
<1>4. \A i \in 0..k : f[i] = JsonSize(Shut(q, n, i)) /\ f[i] \in Int
  BY <1>2, JsonSizeType
<1>5. ASSUME NEW i \in 0..(k - 1) PROVE f[i] <= f[i + 1]
  <2>1. i \in 0..k /\ i + 1 \in 0..k /\ i + 1 \in 1..k
    BY <1>1
  <2>2. Closers(q, n)[i + 1] \in TextTokens
    BY <1>3, <2>1, ElementOfSeq
  <2>3. JsonSize(Shut(q, n, i + 1)) = JsonSize(Shut(q, n, i)) + Chars(Closers(q, n)[i + 1])
    BY <1>2, <2>1, <2>2, JsonSizeOneMore
  <2>4. Chars(Closers(q, n)[i + 1]) \in Nat
    BY <2>2 DEF TextTokens
  <2> HIDE DEF f
  <2> QED BY <1>4, <2>1, <2>3, <2>4
<1>6. f[j] <= f[k]
  <2>1. k \in j..k
    BY <1>1
  <2> HIDE DEF f
  <2> QED BY <1>1, <1>4, <1>5, <2>1, NeverFalls
<1>7. k \in 0..k
  BY <1>1
<1> HIDE DEF f
<1> QED BY <1>1, <1>2, <1>4, <1>6, <1>7

(* The next token and one more for each that follows it have room in what  *)
(* the whole text takes.                                                   *)
LEMMA SofarLeaves ==
  ASSUME NEW q, IsReply(q), IsLegible(q), NEW n, NEW st \in Seq(Frame), NEW s, NEW ph,
         NEW fl, NEW td \in Nat, Reads(q, n, st, s, ph, fl, td), ph = "call",
         n + 1 >= Begin(q)
  PROVE  /\ Sofar(q, n, s, "call") \in Seq(TextTokens) /\ Own(q, n + 1) \in TextTokens
         /\ JsonSize(Sofar(q, n, s, "call")) \in Nat /\ JsonSize(Text(q)[Final(q)]) \in Nat
         /\ JsonSize(Sofar(q, n, s, "call")) + Chars(Own(q, n + 1)) + (Final(q) - (n + 1))
              <= JsonSize(Text(q)[Final(q)])
<1> DEFINE f == Final(q)
           k == n + 1
           z == JsonSize(Sofar(q, n, s, "call"))
           o == JsonSize(Opened(q, k))
           t == JsonSize(Text(q)[k])
           x == JsonSize(Text(q)[f])
           c == Chars(Own(q, k))
<1>1. /\ n \in Nat /\ k \in Begin(q)..Len(q.tokens) /\ k \in Nat /\ (k - 1) = n
      /\ Opened(q, k) = Sofar(q, n, s, "call") \o << Own(q, k) >>
  <2>1. n \in Nat
    <3>1. Known(q, n, st, s, ph)
      BY ReadTypes
    <3> QED BY <3>1 DEF Known
  <2>2. k - 1 = n
    BY <2>1
  <2> QED BY <2>1, <2>2, OpenedIs
<1>2. Sofar(q, n, s, "call") \in Seq(TextTokens) /\ Own(q, k) \in TextTokens
  <2>1. Text(q)[k - 1] \o Separator(q, k) \in Seq(TextTokens)
    BY <1>1, ShutSteps
  <2>2. Sofar(q, n, s, "call") = Text(q)[k - 1] \o Separator(q, k)
    BY <1>1 DEF Sofar
  <2>3. k \in 1..Len(q.tokens)
    BY NotYet
  <2>4. Own(q, k) \in TextTokens
    BY <2>3, MeaningType
  <2> QED BY <2>1, <2>2, <2>4
<1>3. o = z + c /\ z \in Nat /\ c \in Nat
  <2>1. c \in Nat
    BY <1>2 DEF TextTokens
  <2> QED BY <1>1, <1>2, <2>1, JsonSizeOneMore, JsonSizeType
<1>4. o <= t /\ t \in Nat
  <2>1. 0 \in 0..Cardinality(Ended(q, k)) /\ Shut(q, k, 0) = Opened(q, k)
    BY <1>1, EndedFinite, ShutSteps
  <2>2. Text(q)[k] \in Seq(TextTokens)
    <3>1. k \in 0..Len(q.tokens)
      BY <1>1
    <3> QED BY <3>1, TextSteps
  <2> QED BY <1>1, <2>1, <2>2, ShutFits, JsonSizeType
<1>5. f \in Begin(q)..Len(q.tokens) /\ f \in Nat /\ k <= f
  <2>1. n < f
    BY NotYet
  <2>2. f \in Begin(q)..Len(q.tokens) /\ f \in Nat
    BY FinalToken
  <2> HIDE DEF f
  <2> QED BY <1>1, <2>1, <2>2
<1>6. t + (f - k) <= x
  <2>1. k \in (Begin(q) - 1)..Len(q.tokens) /\ f \in k..Len(q.tokens)
    <3>1. Begin(q) \in Nat
      BY ReplyTokens
    <3> HIDE DEF f
    <3> QED BY <1>1, <1>5, <3>1
  <2> HIDE DEF f, k
  <2> QED BY <2>1, TextGrows DEF f, k
<1>7. x \in Nat
  <2>1. f \in 0..Len(q.tokens)
    <3> HIDE DEF f
    <3> QED BY <1>5, ReplyTokens
  <2> QED BY <2>1, TextSteps, JsonSizeType
<1>8. z + c + (f - k) <= x
  <2> HIDE DEF z, c, f, k, x, o, t
  <2> QED BY <1>1, <1>3, <1>4, <1>5, <1>6, <1>7
<1> QED BY <1>2, <1>3, <1>7, <1>8

(* What has been printed takes no more room than the whole text.           *)
LEMMA SofarFits ==
  ASSUME NEW q, IsReply(q), IsLegible(q), NEW n, NEW st \in Seq(Frame), NEW s, NEW ph,
         NEW fl, NEW td \in Nat, Reads(q, n, st, s, ph, fl, td), ph \in {"call", "return"}
  PROVE  /\ Sofar(q, n, s, ph) \in Seq(TextTokens)
         /\ JsonSize(Sofar(q, n, s, ph)) \in Nat
         /\ JsonSize(Text(q)[Final(q)]) \in Nat
         /\ JsonSize(Sofar(q, n, s, ph)) <= JsonSize(Text(q)[Final(q)])
<1> DEFINE x == JsonSize(Text(q)[Final(q)])
           z == JsonSize(Sofar(q, n, s, ph))
<1>1. /\ n \in Nat /\ n <= Final(q) /\ n \in 0..Len(q.tokens) /\ Begin(q) \in Nat
      /\ Final(q) \in Begin(q)..Len(q.tokens) /\ Final(q) \in Nat
  <2>1. Known(q, n, st, s, ph)
    BY ReadTypes
  <2> QED BY <2>1, FinalToken DEF Known
<1>2. x \in Nat
  <2>1. Final(q) \in 0..Len(q.tokens)
    BY <1>1, ReplyTokens
  <2> QED BY <2>1, TextSteps, JsonSizeType
<1>3. CASE ph = "call" /\ n < Begin(q)
  <2>1. Sofar(q, n, s, ph) = <<>> /\ <<>> \in Seq(TextTokens)
    BY <1>3, PrintsNothingYet
  <2>2. z = 0
    BY <2>1, JsonSizeType
  <2> HIDE DEF x, z
  <2>3. z <= x /\ z \in Nat
    BY <1>2, <2>2
  <2> QED BY <1>2, <2>1, <2>3 DEF x, z
<1>4. CASE ph = "call" /\ ~(n < Begin(q))
  <2> DEFINE c == Chars(Own(q, n + 1))
             d == Final(q) - (n + 1)
  <2>1. /\ Sofar(q, n, s, "call") \in Seq(TextTokens) /\ Own(q, n + 1) \in TextTokens
        /\ z \in Nat /\ z + c + d <= x
    <3>1. n + 1 >= Begin(q)
      BY <1>1, <1>4
    <3> QED BY <1>4, <3>1, SofarLeaves
  <2>2. c \in Nat
    BY <2>1 DEF TextTokens
  <2>3. d \in Nat
    <3>1. n < Final(q)
      BY <1>4, NotYet
    <3> QED BY <1>1, <3>1
  <2> HIDE DEF x, z, c, d
  <2>4. z <= x
    BY <1>2, <2>1, <2>2, <2>3
  <2> QED BY <1>2, <1>4, <2>1, <2>4 DEF x, z
<1>5. CASE ph = "return"
  <2>1. n \in Begin(q)..Len(q.tokens)
    <3>1. n < Begin(q) => ph = "call"
      BY DEF Reads
    <3>2. ~(n < Begin(q))
      BY <1>5, <3>1
    <3> QED BY <1>1, <3>2
  <2> DEFINE j == Cardinality(Deep(q, n, s))
             t == JsonSize(Text(q)[n])
  <2>2. j \in 0..Cardinality(Ended(q, n))
    <3>1. Deep(q, n, s) \in SUBSET Ended(q, n)
      BY DEF Deep
    <3>2. IsFiniteSet(Ended(q, n)) /\ Cardinality(Ended(q, n)) \in Nat
      BY EndedFinite
    <3>3. IsFiniteSet(Deep(q, n, s)) /\ j <= Cardinality(Ended(q, n))
      BY <3>1, <3>2, FS_Subset
    <3>4. j \in Nat
      BY <3>3, FS_CardinalityType
    <3> HIDE DEF j
    <3> QED BY <3>2, <3>3, <3>4
  <2>3. Sofar(q, n, s, ph) = Shut(q, n, j)
    BY <1>5 DEF Sofar
  <2> HIDE DEF j
  <2>4. Sofar(q, n, s, ph) \in Seq(TextTokens) /\ z <= t
    BY <2>1, <2>2, <2>3, ShutFits, ShutSteps
  <2>5. z \in Nat /\ t \in Nat
    BY <1>1, <2>4, TextSteps, JsonSizeType
  <2>6. t + (Final(q) - n) <= x
    <3>1. n \in (Begin(q) - 1)..Len(q.tokens) /\ Final(q) \in n..Len(q.tokens)
      BY <1>1, <2>1
    <3> QED BY <3>1, TextGrows
  <2>7. z <= x
    <3> DEFINE d == Final(q) - n
    <3>1. d \in Nat
      BY <1>1
    <3> HIDE DEF x, z, t, d
    <3>2. t + d <= x
      BY <2>6 DEF d
    <3> QED BY <1>2, <2>4, <2>5, <3>1, <3>2
  <2> QED BY <1>2, <2>4, <2>5, <2>7
<1> QED BY <1>3, <1>4, <1>5

-----------------------------------------------------------------------------
(* What is so of every reply as it is printed.  One with an error has its  *)
(* answer at once.  Of one that has a JSON, what has been written is its   *)
(* text so far, and no call takes the buffer for smaller than it is.       *)
ReadsOn(s) ==
  /\ Reads(input, at, stack, s, pc, state, todo)
  /\ multireturn_skiped = IF at < Begin(input) THEN (Begin(input) - 1) - at ELSE 0
  /\ out = Head0 \o Sofar(input, at, s, pc)
  /\ pos = Head0Size + JsonSize(Sofar(input, at, s, pc))
  /\ \A i \in Begin(input)..Len(stack) : Size <= pos + stack[i].len

Whole == Text(input)[Final(input)]
TooSmall == Size < Head0Size + 1 + NumRoom + JsonSize(Whole)

Reports ==
  input.error # 0 =>
    /\ pc \in {"return", "done"}
    /\ pc = "return" => stack = <<>> /\ todo = 0 /\ out = Head0 /\ pos = Head0Size
    /\ pc = "done" => out = Wrapped(input, <<>>)

Prints ==
  IsLegible(input) =>
    /\ pc \in {"call", "return"} => \E s : ReadsOn(s)
    /\ pc = "done" => out = Wrapped(input, Whole)
    /\ pc \in {"oom", "overrun", "empty"} => TooSmall

(* At first nothing has been read. *)
LEMMA ReadsNothing ==
  ASSUME NEW q, IsReply(q), IsLegible(q)
  PROVE  Reads(q, 0, <<>>, <<>>, "call", {}, IF q.codec = "dump" THEN 2 ELSE 0)
<1> DEFINE td == IF q.codec = "dump" THEN 2 ELSE 0
           b == Begin(q)
<1>1. b \in Nat /\ b \in 1..3 /\ Final(q) \in b..Len(q.tokens) /\ Final(q) \in Nat /\ Len(q.tokens) \in Nat
  BY ReplyTokens, FinalToken
<1>2. 0 \in 0..Final(q) /\ <<>> \in Seq(Nat) /\ Len(<<>>) = 0
  BY <1>1
<1>3. b..Len(<<>>) = {} /\ 1..Len(<<>>) = {} /\ ~(b <= Len(<<>>)) /\ ~(Len(<<>>) >= b) /\ ~(0 >= b) /\ 0 < b
  BY <1>1, <1>2
<1>4. 0 >= b - 1 => Lacking(q, 0) = td + Rest(q, 0, <<>>, "call", b)
  <2> SUFFICES ASSUME 0 >= b - 1 PROVE Lacking(q, 0) = td + Rest(q, 0, <<>>, "call", b)
    OBVIOUS
  <2>1. b - 1 = 0 /\ b - 1 <= Len(q.tokens)
    BY <1>1
  <2>2. Lacking(q, b - 1) = IF q.codec = "dump" THEN 3 ELSE 1
    BY <2>1, LackingSteps
  <2>3. Rest(q, 0, <<>>, "call", b) = 1
    BY <1>3 DEF Rest, Coming
  <2> QED BY <2>1, <2>2, <2>3
<1>5. Past(q, 0, <<>>)
  <2>1. \A c \in Boxes(q) : ~(c <= 0)
    <3>1. Boxes(q) \subseteq 1..Len(q.tokens)
      BY ReplyTokens
    <3> QED BY <3>1
  <2> QED BY <2>1 DEF Past
<1>6. Flags(q, 0, <<>>, <<>>, "call", {})
  <2>1. ~Named(q, <<>>)
    BY <1>3 DEF Named
  <2> QED BY <1>3, <2>1 DEF Flags
<1>7. td > 0 => q.codec = "dump"
  OBVIOUS
<1> HIDE DEF td
<1>8. td = (IF q.codec = "dump" THEN 2 ELSE 0)
  BY DEF td
<1>9. Reads(q, 0, <<>>, <<>>, "call", {}, td)
  BY <1>2, <1>3, <1>4, <1>5, <1>6, <1>7, <1>8 DEF Reads
<1> QED BY <1>9 DEF td

(* What is written before the first token. *)
LEMMA InitPrints == Init => Reports /\ Prints
<1> SUFFICES ASSUME Init PROVE Reports /\ Prints
  OBVIOUS
<1>1. /\ IsReply(input) /\ at = 0 /\ stack = <<>> /\ state = {} /\ out = Head0 /\ pos = Head0Size
      /\ todo = (IF input.codec = "dump" THEN 2 ELSE 0)
      /\ pc = IF input.codec = "reply" /\ input.error # 0 THEN "return" ELSE "call"
      /\ multireturn_skiped = IF input.codec = "reply" THEN input.multireturn_skip_count ELSE 0
  BY RepliesAssumption DEF Init
<1>2. Reports
  <2>1. input.error # 0 => input.codec = "reply" /\ input.codec # "dump"
    BY <1>1 DEF IsReply
  <2> QED BY <1>1, <2>1 DEF Reports
<1>3. ASSUME IsLegible(input) PROVE \E s : ReadsOn(s)
  <2> DEFINE z == Sofar(input, 0, <<>>, "call")
  <2>1. pc = "call"
    BY <1>1, <1>3 DEF IsLegible
  <2>2. Reads(input, 0, <<>>, <<>>, "call", {}, todo) /\ todo \in Nat
    BY <1>1, <1>3, ReadsNothing
  <2>3. Begin(input) \in Nat /\ Begin(input) \in 1..3 /\ 0 < Begin(input)
    BY <1>1, ReplyTokens
  <2>4. z = <<>>
    <3>1. <<>> \in Seq(Frame)
      OBVIOUS
    <3> QED BY <1>1, <1>3, <2>2, <2>3, <3>1, PrintsNothingYet
  <2>5. JsonSize(z) = 0
    <3>1. <<>> \in Seq(TextTokens)
      OBVIOUS
    <3> QED BY <2>4, <3>1, JsonSizeType
  <2>6. Head0 \o z = Head0 /\ Head0Size \in Nat
    BY <1>1, <2>4, HeadType, ConcatEmptySeq
  <2>7. multireturn_skiped = IF at < Begin(input) THEN (Begin(input) - 1) - at ELSE 0
    <3>1. input.multireturn_skip_count \in Nat
      BY <1>1 DEF IsReply
    <3>2. at < Begin(input)
      BY <1>1, <2>3
    <3>3. (Begin(input) - 1) - at = IF input.codec = "reply" THEN input.multireturn_skip_count ELSE 0
      BY <1>1, <3>1 DEF Begin
    <3> QED BY <1>1, <3>2, <3>3
  <2>8. Begin(input)..Len(stack) = {}
    <3>1. Len(stack) = 0
      BY <1>1
    <3> QED BY <2>3, <3>1
  <2> HIDE DEF z
  <2>9. pos = Head0Size + JsonSize(z)
    BY <1>1, <2>5, <2>6
  <2>10. ReadsOn(<<>>)
    BY <1>1, <2>1, <2>2, <2>6, <2>7, <2>8, <2>9 DEF ReadsOn, z
  <2> QED BY <2>10
<1>4. Prints
  <2>1. pc \in {"call", "return"}
    BY <1>1
  <2> QED BY <1>3, <2>1 DEF Prints
<1> QED BY <1>2, <1>4

(* What the input says does not change.                                    *)
LEMMA SameInput ==
  ASSUME input' = input
  PROVE  /\ Head0' = Head0 /\ Head0Size' = Head0Size /\ Size' = Size /\ Whole' = Whole
         /\ TooSmall' <=> TooSmall
<1>1. Head0' = Head0
  BY DEF Head0
<1>2. Head0Size' = Head0Size
  BY <1>1 DEF Head0Size
<1>3. Size' = Size /\ Whole' = Whole
  BY DEF Size, Whole
<1> QED BY <1>1, <1>2, <1>3 DEF TooSmall

(* A token written behind the text so far.                                 *)
LEMMA OutGrows ==
  ASSUME NEW h \in Seq(JsonTokens), NEW z \in Seq(TextTokens), NEW t \in TextTokens
  PROVE  Append(h \o z, t) = h \o (z \o <<t>>)
<1>1. TextTokens \subseteq JsonTokens
  BY DEF TextTokens
<1>2. z \in Seq(JsonTokens) /\ t \in JsonTokens /\ <<t>> \in Seq(JsonTokens)
  BY <1>1
<1>3. h \o z \in Seq(JsonTokens)
  BY <1>2, ConcatProperties
<1>4. Append(h \o z, t) = (h \o z) \o <<t>>
  BY <1>2, <1>3, AppendIsConcat
<1>5. (h \o z) \o <<t>> = h \o (z \o <<t>>)
  BY <1>2, ConcatAssociative
<1> QED BY <1>4, <1>5

(* Where the printing of a reply has come to, in numbers.                  *)
LEMMA ReadsOnTypes ==
  ASSUME Types, IsLegible(input), NEW s, ReadsOn(s), pc \in {"call", "return"}
  PROVE  /\ IsReply(input) /\ stack \in Seq(Frame) /\ todo \in Nat /\ pos \in Nat /\ Size \in Nat
         /\ Reads(input, at, stack, s, pc, state, todo)
         /\ Head0 \in Seq(JsonTokens) /\ Head0Size \in Nat
         /\ Sofar(input, at, s, pc) \in Seq(TextTokens)
         /\ JsonSize(Sofar(input, at, s, pc)) \in Nat /\ JsonSize(Whole) \in Nat
         /\ JsonSize(Sofar(input, at, s, pc)) <= JsonSize(Whole)
         /\ pos = Head0Size + JsonSize(Sofar(input, at, s, pc))
         /\ pos <= Head0Size + JsonSize(Whole)
         /\ Begin(input) \in Nat /\ Begin(input) \in 1..3 /\ at \in Nat /\ NumRoom \in Nat
         /\ Len(stack) \in Nat
<1>1. IsReply(input) /\ stack \in Seq(Frame) /\ todo \in Nat /\ pos \in Nat
  BY DEF Types, TypeOK
<1>2. Size \in Nat /\ Head0 \in Seq(JsonTokens) /\ Head0Size \in Nat
  BY <1>1, SizeNat, HeadType
<1>3. /\ Reads(input, at, stack, s, pc, state, todo)
      /\ pos = Head0Size + JsonSize(Sofar(input, at, s, pc))
  BY DEF ReadsOn
<1>4. /\ Sofar(input, at, s, pc) \in Seq(TextTokens)
      /\ JsonSize(Sofar(input, at, s, pc)) \in Nat /\ JsonSize(Whole) \in Nat
      /\ JsonSize(Sofar(input, at, s, pc)) <= JsonSize(Whole)
  BY <1>1, <1>3, SofarFits DEF Whole
<1>5. pos <= Head0Size + JsonSize(Whole)
  BY <1>2, <1>3, <1>4
<1>6. Begin(input) \in Nat /\ Begin(input) \in 1..3 /\ at \in Nat
  BY <1>1, <1>3, ReadTypes DEF Known
<1>7. NumRoom \in Nat /\ Len(stack) \in Nat
  BY <1>1, RoomsAssumption
<1> QED BY <1>1, <1>2, <1>3, <1>4, <1>5, <1>6, <1>7

(* A step that writes the next token of the text.                          *)
LEMMA StepWrites ==
  ASSUME Types, Types', IsLegible(input), input' = input,
         NEW s, ReadsOn(s), pc \in {"call", "return"},
         NEW t \in TextTokens, NEW ph \in {"call", "return"}, NEW s2,
         out' = Append(out, t), Advance(Chars(t), ph),
         Reads(input, at', stack', s2, ph, state', todo'),
         Sofar(input, at', s2, ph) = Sofar(input, at, s, pc) \o <<t>>,
         multireturn_skiped' = IF at' < Begin(input) THEN (Begin(input) - 1) - at' ELSE 0,
         \A i \in Begin(input)..Len(stack') : Size <= pos + Chars(t) + stack'[i].len
  PROVE  Prints'
<1> DEFINE z == Sofar(input, at, s, pc)
           z2 == Sofar(input, at', s2, ph)
<1>1. /\ IsReply(input) /\ pos \in Nat /\ Size \in Nat
      /\ Head0 \in Seq(JsonTokens) /\ Head0Size \in Nat /\ NumRoom \in Nat
      /\ z \in Seq(TextTokens) /\ JsonSize(z) \in Nat
      /\ pos = Head0Size + JsonSize(z)
  BY ReadsOnTypes
<1>2. stack' \in Seq(Frame) /\ todo' \in Nat
  BY DEF Types, TypeOK
<1>3. JsonSize(z2) \in Nat /\ JsonSize(Whole) \in Nat /\ JsonSize(z2) <= JsonSize(Whole)
  BY <1>1, <1>2, SofarFits DEF Whole
<1>4. JsonSize(z2) = JsonSize(z) + Chars(t) /\ Chars(t) \in Nat
  BY <1>1, JsonSizeOneMore DEF TextTokens
<1>5. pos' = pos + Chars(t) /\ pc' = IF pos + Chars(t) > Size THEN "overrun" ELSE ph
  BY DEF Advance
<1>6. pos' = Head0Size + JsonSize(z2)
  <2>1. /\ Head0Size \in Nat /\ JsonSize(z) \in Nat /\ pos = Head0Size + JsonSize(z)
        /\ pos' = pos + Chars(t)
    BY <1>1, <1>5
  <2> QED BY ONLY <1>4, <2>1
<1>7. out' = Head0 \o z2
  <2>1. out = Head0 \o z
    BY DEF ReadsOn
  <2>2. Append(Head0 \o z, t) = Head0 \o (z \o <<t>>)
    BY <1>1, OutGrows
  <2> QED BY <2>1, <2>2
<1>8. /\ Head0' = Head0 /\ Head0Size' = Head0Size /\ Size' = Size /\ Whole' = Whole
      /\ TooSmall' <=> TooSmall
  BY SameInput
<1> HIDE DEF z, z2
<1>9. CASE pos + Chars(t) > Size
  <2>1. TooSmall
    <3>1. Size < Head0Size + JsonSize(z2)
      BY <1>5, <1>6, <1>9
    <3>2. Size \in Nat /\ Head0Size \in Nat /\ NumRoom \in Nat
      BY <1>1
    <3>3. Size < Head0Size + 1 + NumRoom + JsonSize(Whole)
      BY ONLY <1>3, <3>1, <3>2
    <3> QED BY <3>3 DEF TooSmall
  <2>2. pc' = "overrun"
    BY <1>5, <1>9
  <2> QED BY <1>8, <2>1, <2>2 DEF Prints
<1>10. CASE ~(pos + Chars(t) > Size)
  <2>1. pc' = ph
    BY <1>5, <1>10
  <2>2. \A i \in Begin(input)..Len(stack') : Size <= pos' + stack'[i].len
    BY <1>5
  <2>3. ReadsOn(s2)'
    BY <1>6, <1>7, <1>8, <2>1, <2>2 DEF ReadsOn, z2
  <2>4. pc' \in {"call", "return"} /\ pc' # "done" /\ pc' \notin {"oom", "overrun", "empty"}
    BY <2>1
  <2> QED BY <2>3, <2>4 DEF Prints
<1> QED BY <1>9, <1>10

(* A step that writes nothing.                                             *)
LEMMA StepReads ==
  ASSUME Types, IsLegible(input), input' = input,
         NEW s, ReadsOn(s), pc \in {"call", "return"}, NEW s2,
         pc' \in {"call", "return"}, out' = out, pos' = pos,
         Reads(input, at', stack', s2, pc', state', todo'),
         Sofar(input, at', s2, pc') = Sofar(input, at, s, pc),
         multireturn_skiped' = IF at' < Begin(input) THEN (Begin(input) - 1) - at' ELSE 0,
         \A i \in Begin(input)..Len(stack') : Size <= pos + stack'[i].len
  PROVE  Prints'
<1>1. Head0' = Head0 /\ Head0Size' = Head0Size /\ Size' = Size
  BY SameInput
<1>2. /\ out = Head0 \o Sofar(input, at, s, pc)
      /\ pos = Head0Size + JsonSize(Sofar(input, at, s, pc))
  BY DEF ReadsOn
<1>3. ReadsOn(s2)'
  BY <1>1, <1>2 DEF ReadsOn
<1>4. pc' # "done" /\ pc' \notin {"oom", "overrun", "empty"}
  OBVIOUS
<1> QED BY <1>3, <1>4 DEF Prints

(* A step that finds no room, when there is too little.                    *)
LEMMA StepGivesUp ==
  ASSUME input' = input, pc' = "oom", TooSmall
  PROVE  Prints'
<1>1. TooSmall'
  BY SameInput
<1> QED BY <1>1 DEF Prints

(* The token to be decoded, of a reply that has a JSON.                    *)
LEMMA LegibleNext ==
  ASSUME NEW q, IsReply(q), IsLegible(q), NEW n, NEW st \in Seq(Frame), NEW s, NEW ph,
         NEW fl, NEW td \in Nat, Reads(q, n, st, s, ph, fl, td), ph = "call"
  PROVE  /\ n < Len(q.tokens) /\ q.tokens[n + 1] \in Tokens
         /\ n + 1 < Begin(q) => q.tokens[n + 1][1] = "array"
         /\ ~(n + 1 < Begin(q)) => n + 1 >= Begin(q) /\ q.tokens[n + 1][1] # "ext"
<1>1. n \in Nat /\ Begin(q) \in Nat /\ n + 1 \in 1..Len(q.tokens) /\ n + 1 \in 0..Final(q)
      /\ Len(q.tokens) \in Nat /\ Final(q) \in Nat
  <2>1. n \in Nat /\ Begin(q) \in Nat
    <3>1. Known(q, n, st, s, ph)
      BY ReadTypes
    <3> QED BY <3>1 DEF Known
  <2>2. n + 1 \in 1..Len(q.tokens) /\ n + 1 \in 0..Final(q)
    BY NotYet
  <2> QED BY <2>1, <2>2, ReplyTokens, FinalToken
<1>2. q.tokens[n + 1] \in Tokens /\ n < Len(q.tokens)
  <2>1. q.tokens[n + 1] \in Tokens
    BY <1>1, ReplyTokens, Zenon
  <2>2. n < Len(q.tokens)
    BY ONLY <1>1
  <2> QED BY <2>1, <2>2
<1>3. ASSUME n + 1 < Begin(q) PROVE q.tokens[n + 1][1] = "array"
  <2>1. n + 1 \in 1..(Begin(q) - 1)
    BY <1>1, <1>3
  <2> QED BY <2>1 DEF IsLegible
<1>4. ASSUME ~(n + 1 < Begin(q)) PROVE n + 1 >= Begin(q) /\ q.tokens[n + 1][1] # "ext"
  <2>1. n + 1 \in Begin(q)..Final(q) /\ n + 1 >= Begin(q)
    BY <1>1, <1>4
  <2> QED BY <2>1 DEF IsLegible
<1> QED BY <1>2, <1>3, <1>4

(* An integer is taken for a key just where it is one: the flag of maps,   *)
(* which a map that ended may have cleared, is set where one is a key.     *)
LEMMA KeyFlags ==
  ASSUME NEW q, IsReply(q), IsLegible(q), NEW n, NEW st \in Seq(Frame), NEW s, NEW ph,
         NEW fl, NEW td \in Nat, Reads(q, n, st, s, ph, fl, td), ph = "call",
         n + 1 >= Begin(q), q.tokens[n + 1][1] = "int"
  PROVE  {"MAP", "KEY"} \subseteq fl <=> IsName(q, n + 1)
<1> DEFINE l == Len(st)
           b == Begin(q)
<1>1. IsName(q, n + 1) <=> Named(q, st)
  BY NthOfNext
<1>2. ("KEY" \in fl => Named(q, st)) /\ (Named(q, st) => "KEY" \in fl)
  BY DEF Reads, Flags
<1>3. ASSUME Named(q, st), IsName(q, n + 1) PROVE "MAP" \in fl
  <2>1. l >= b /\ st[l].for = "map"
    BY <1>3 DEF Named
  <2>2. /\ n \in Nat /\ b \in Nat /\ Len(s) = l /\ l \in Nat /\ Final(q) \in Nat
        /\ \A i \in b..Len(s) : s[i] \in 1..n /\ Waits(q, n, st, s, ph, i)
    <3>1. Known(q, n, st, s, ph)
      BY ReadTypes
    <3> QED BY <3>1, FinalToken DEF Known
  <2>3. l \in b..Len(s)
    BY <2>1, <2>2
  <2>4. q.tokens[s[l]][1] = "map" /\ s[l] \in 1..n
    BY <2>1, <2>2, <2>3 DEF Waits
  <2>5. Inside(q, n + 1) = s[l]
    BY <2>1, NthOfNext
  <2>6. n + 1 \in b..Final(q)
    <3>1. n + 1 \in 0..Final(q)
      BY NotYet
    <3> QED BY <2>2, <3>1
  <2>7. \A m \in (s[l] + 1)..(n + 1) : q.tokens[m][1] # "map"
    BY <1>3, <2>5, <2>6 DEF IsLegible
  <2>8. \A m \in (s[l] + 1)..n : m \in (s[l] + 1)..(n + 1)
    BY <2>2, <2>4
  <2>9. \A m \in (s[l] + 1)..n : q.tokens[m][1] # "map"
    BY <2>7, <2>8
  <2> QED BY <2>2, <2>3, <2>4, <2>9 DEF Reads, Flags
<1> QED BY <1>1, <1>2, <1>3

(* What a call wants to find before it writes is there when the text has   *)
(* room, but for what an integer or a double wants more than it takes: a   *)
(* bracket with as many characters behind it as values are announced.      *)
LEMMA NeedsFit ==
  ASSUME NEW q, IsReply(q), IsLegible(q), NEW n, NEW st \in Seq(Frame), NEW s, NEW ph,
         NEW fl, NEW td \in Nat, Reads(q, n, st, s, ph, fl, td), ph = "call",
         n + 1 >= Begin(q)
  PROVE  /\ Needs(q.tokens[n + 1]) \in Nat
         /\ Needs(q.tokens[n + 1])
              <= Chars(Own(q, n + 1)) + (Final(q) - (n + 1)) + 1 + NumRoom
<1> DEFINE tok == q.tokens[n + 1]
           k == n + 1
           c == Chars(Own(q, k))
           f == Final(q)
           d == f - k
           h == Holds(tok)
<1>1. n \in Nat /\ k \in 1..Len(q.tokens) /\ tok \in Tokens /\ tok[1] # "ext" /\ f \in Nat
      /\ n < f /\ n \in 0..(Len(q.tokens) - 1) /\ f <= Len(q.tokens) /\ f \in 0..Len(q.tokens)
  <2>1. n \in Nat /\ Begin(q) \in Nat
    <3>1. Known(q, n, st, s, ph)
      BY ReadTypes
    <3> QED BY <3>1 DEF Known
  <2>2. ~(n + 1 < Begin(q))
    BY <2>1
  <2>3. tok \in Tokens /\ tok[1] # "ext"
    BY <2>2, LegibleNext
  <2>4. k \in 1..Len(q.tokens) /\ n < f /\ n \in 0..(Len(q.tokens) - 1)
    BY NotYet
  <2>5. f \in Begin(q)..Len(q.tokens) /\ f \in Nat
    BY FinalToken
  <2> QED BY <2>1, <2>3, <2>4, <2>5
<1>2. c \in Nat \ {0} /\ d \in Nat /\ NumRoom \in Nat /\ DoubleRoom \in Nat /\ DoubleRoom <= NumRoom
  <2>1. Own(q, k) \in TextTokens
    BY <1>1, MeaningType
  <2>2. c \in Nat \ {0}
    BY <2>1 DEF TextTokens
  <2> QED BY <1>1, <2>2, RoomsAssumption
<1>3. CASE tok[1] \in {"array", "map"}
  <2>1. tok[2] \in Nat /\ Needs(tok) = tok[2] + 2 /\ h \in Nat /\ tok[2] <= h
    <3>1. tok[2] \in Nat
      BY <1>1, <1>3 DEF Tokens
    <3>2. h = IF tok[1] = "array" THEN tok[2] ELSE 2 * tok[2]
      BY <1>3 DEF Holds
    <3>3. Needs(tok) = tok[2] + 2
      BY <1>3 DEF Needs
    <3> HIDE DEF h, tok
    <3> QED BY <3>1, <3>2, <3>3
  <2>2. Lacking(q, k) = Lacking(q, n) + (h - 1) /\ Lacking(q, k) <= Lacking(q, f) + d
        /\ Lacking(q, n) \in Int /\ Lacking(q, k) \in Int
    <3>1. Begin(q) \in Nat /\ Len(q.tokens) \in Nat /\ Begin(q) - 1 <= Len(q.tokens)
          /\ n \in (Begin(q) - 1)..(Len(q.tokens) - 1) /\ k \in (Begin(q) - 1)..Len(q.tokens)
          /\ n \in (Begin(q) - 1)..Len(q.tokens) /\ f \in k..Len(q.tokens)
      <4>1. Begin(q) \in Nat /\ Len(q.tokens) \in Nat
        BY ReplyTokens
      <4> HIDE DEF f
      <4> QED BY <1>1, <4>1
    <3> HIDE DEF f
    <3> QED BY <3>1, LackingSteps
  <2>3. Lacking(q, n) >= 1 /\ Lacking(q, f) = 0
    <3>1. n >= Begin(q) - 1
      <4>1. Begin(q) \in Nat
        BY ReplyTokens
      <4> QED BY <1>1, <4>1
    <3> QED BY <3>1, NotYet, FinalToken
  <2> HIDE DEF tok, c, d, h, f, k
  <2>4. h <= d
    BY <1>2, <2>1, <2>2, <2>3
  <2>5. Needs(tok) \in Nat /\ Needs(tok) <= c + d + 1 + NumRoom
    BY <1>2, <2>1, <2>4
  <2> QED BY <2>5 DEF tok, c, d, f, k
<1>4. CASE tok[1] \in {"int", "double"}
  <2>1. Needs(tok) \in Nat /\ Needs(tok) <= NumRoom
    BY <1>2, <1>4 DEF Needs
  <2> HIDE DEF tok, c, d, f, k
  <2> QED BY <1>2, <2>1 DEF tok, c, d, f, k
<1>5. CASE tok[1] \in {"nil", "bool", "str"}
  <2>1. PICK kind \in {"quoted", "plain"} : Own(q, k) = <<kind, tok>>
    BY <1>5 DEF Own
  <2>2. c = IF tok[1] \in {"nil", "ext"} THEN 4
            ELSE IF kind = "quoted" /\ tok[1] = "int" THEN tok[2] + 2 ELSE tok[2]
    <3> HIDE DEF tok
    <3>1. tok[1] \notin {"array", "map"}
      BY <1>5
    <3> QED BY <1>1, <2>1, <3>1, CharsOfScalar
  <2>3. Needs(tok) = c
    BY <1>5, <2>2 DEF Needs
  <2> HIDE DEF tok, c, d, f, k
  <2> QED BY <1>2, <2>3 DEF tok, c, d, f, k
<1>6. tok[1] \in {"array", "map", "int", "double", "nil", "bool", "str"}
  BY <1>1 DEF Tokens
<1> QED BY <1>3, <1>4, <1>5, <1>6

(* Arrays are skipped before what is to be printed, and only there.        *)
LEMMA SkipsWhat ==
  ASSUME Types, IsLegible(input), NEW s, ReadsOn(s), pc \in {"call", "return"}
  PROVE  Skips <=> at + 1 < Begin(input)
<1>1. Begin(input) \in Nat /\ at \in Nat
  BY ReadsOnTypes
<1>2. multireturn_skiped = IF at < Begin(input) THEN (Begin(input) - 1) - at ELSE 0
  BY DEF ReadsOn
<1> QED BY <1>1, <1>2 DEF Skips

(* A call that finds the buffer full, or less room than it wants.          *)
LEMMA DecodeGivesUp ==
  ASSUME Types, IsLegible(input), NEW s, ReadsOn(s), pc = "call",
         pos = Size \/ (~(Token[1] = "array" /\ Skips) /\ Room < Needs(Token))
  PROVE  TooSmall
<1> DEFINE b == Begin(input)
           z == JsonSize(Sofar(input, at, s, pc))
           x == JsonSize(Whole)
<1>1. /\ IsReply(input) /\ stack \in Seq(Frame) /\ todo \in Nat /\ pos \in Nat /\ Size \in Nat
      /\ Reads(input, at, stack, s, pc, state, todo)
      /\ Head0Size \in Nat /\ z \in Nat /\ x \in Nat /\ z <= x /\ pos = Head0Size + z
      /\ b \in Nat /\ at \in Nat /\ NumRoom \in Nat
  BY ReadsOnTypes
<1>2. CASE pos = Size
  <2> HIDE DEF z, x
  <2>1. Size < Head0Size + 1 + NumRoom + x
    BY <1>1, <1>2
  <2> QED BY <2>1 DEF TooSmall, x
<1>3. CASE ~(Token[1] = "array" /\ Skips) /\ Room < Needs(Token)
  <2>1. at + 1 >= b
    <3>1. Skips <=> at + 1 < b
      BY SkipsWhat
    <3>2. at + 1 < b => input.tokens[at + 1][1] = "array"
      BY <1>1, LegibleNext
    <3>3. ~(at + 1 < b)
      BY <1>3, <3>1, <3>2 DEF Token
    <3> QED BY <1>1, <3>3
  <2> DEFINE c == Chars(Own(input, at + 1))
             d == Final(input) - (at + 1)
             w == Needs(Token)
  <2>2. w \in Nat /\ w <= c + d + 1 + NumRoom
    BY <1>1, <2>1, NeedsFit DEF Token
  <2>3. z + c + d <= x /\ Own(input, at + 1) \in TextTokens
    BY <1>1, <2>1, SofarLeaves DEF Whole
  <2>4. c \in Nat /\ d \in Int
    <3>1. Final(input) \in Int
      BY <1>1, FinalToken
    <3> QED BY <1>1, <2>3, <3>1 DEF TextTokens
  <2>5. Size - pos < w
    BY <1>3 DEF Room
  <2> HIDE DEF z, x, c, d, w
  <2>6. Size < Head0Size + 1 + NumRoom + x
    BY <1>1, <2>2, <2>3, <2>4, <2>5
  <2> QED BY <2>6 DEF TooSmall, x
<1> QED BY <1>2, <1>3

(* A scalar is decoded and printed.                                        *)
LEMMA ScalarPrints ==
  ASSUME Types, Types', IsLegible(input), input' = input, NEW s, ReadsOn(s), pc = "call",
         at' = at + 1, todo' = todo, Scalar(Token)
  PROVE  Prints'
<1> DEFINE b == Begin(input)
           t == Printed(Token)
<1>1. /\ IsReply(input) /\ stack \in Seq(Frame) /\ todo \in Nat /\ pos \in Nat /\ Size \in Nat
      /\ Reads(input, at, stack, s, pc, state, todo)
      /\ b \in Nat /\ at \in Nat
  BY ReadsOnTypes
<1>2. /\ Token[1] \notin {"array", "map", "ext"} /\ out' = Append(out, t)
      /\ Advance(Width(Token), "return")
      /\ state' = state /\ multireturn_skiped' = multireturn_skiped /\ stack' = stack
  BY DEF Scalar
<1>3. at + 1 >= b /\ Token \in Tokens
  <2>1. at + 1 < b => input.tokens[at + 1][1] = "array"
    BY <1>1, LegibleNext
  <2>2. ~(at + 1 < b)
    BY <1>2, <2>1 DEF Token
  <2>3. Token \in Tokens
    BY <1>1, LegibleNext DEF Token
  <2> QED BY <1>1, <2>2, <2>3
<1>4. Token[1] = "int" => (IsKey <=> IsName(input, at + 1))
  <2> SUFFICES ASSUME Token[1] = "int" PROVE IsKey <=> IsName(input, at + 1)
    OBVIOUS
  <2>1. input.tokens[at + 1][1] = "int"
    BY DEF Token
  <2>2. {"MAP", "KEY"} \subseteq state <=> IsName(input, at + 1)
    BY <1>1, <1>3, <2>1, KeyFlags
  <2> QED BY <2>2 DEF IsKey
<1>5. t = Own(input, at + 1)
  <2>1. Own(input, at + 1)
        = IF Token[1] = "str" \/ (Token[1] = "int" /\ IsName(input, at + 1))
            THEN <<"quoted", Token>> ELSE <<"plain", Token>>
    BY <1>2 DEF Own, Token
  <2> QED BY <1>4, <2>1 DEF Printed
<1>6. t \in TextTokens /\ Chars(t) = Width(Token)
  <2>1. PICK kind \in {"quoted", "plain"} :
          t = <<kind, Token>>
          /\ (kind = "quoted" <=> Token[1] = "str" \/ (Token[1] = "int" /\ IsKey))
    BY DEF Printed
  <2>2. Token[1] \notin {"array", "map"}
    BY <1>2
  <2>3. /\ <<kind, Token>> \in TextTokens
        /\ Chars(<<kind, Token>>) =
             IF Token[1] \in {"nil", "ext"} THEN 4
             ELSE IF kind = "quoted" /\ Token[1] = "int" THEN Token[2] + 2 ELSE Token[2]
    BY <1>3, <2>2, CharsOfScalar
  <2>4. Width(Token) = IF Token[1] = "nil" THEN 4
                       ELSE IF Token[1] = "int" /\ IsKey THEN Token[2] + 2 ELSE Token[2]
    BY DEF Width
  <2> QED BY <1>2, <2>1, <2>3, <2>4
<1> HIDE DEF t
<1>7. Reads(input, at', stack', s, "return", state', todo')
  <2>1. input.tokens[at + 1][1] \notin {"array", "map"}
    BY <1>2 DEF Token
  <2>2. Reads(input, at + 1, stack, s, "return", state, todo)
    BY <1>1, <1>3, <2>1, ReadScalar
  <2> QED BY <1>2, <2>2
<1>8. Sofar(input, at', s, "return") = Sofar(input, at, s, pc) \o <<t>>
  <2>1. input.tokens[at + 1][1] \notin {"array", "map"}
    BY <1>2 DEF Token
  <2>2. Sofar(input, at + 1, s, "return") = Sofar(input, at, s, "call") \o << Own(input, at + 1) >>
    BY <1>1, <1>3, <2>1, PrintsScalar
  <2> QED BY <1>5, <2>2
<1>9. multireturn_skiped' = IF at' < b THEN (b - 1) - at' ELSE 0
  <2>1. multireturn_skiped = IF at < b THEN (b - 1) - at ELSE 0
    BY DEF ReadsOn
  <2> QED BY <1>1, <1>2, <1>3, <2>1
<1>10. \A i \in b..Len(stack') : Size <= pos + Chars(t) + stack'[i].len
  <2> SUFFICES ASSUME NEW i \in b..Len(stack) PROVE Size <= pos + Chars(t) + stack[i].len
    BY <1>2
  <2>1. Size <= pos + stack[i].len
    BY DEF ReadsOn
  <2>2. stack[i].len \in Int
    <3>1. stack[i] \in Frame
      <4>1. Known(input, at, stack, s, pc)
        BY <1>1, ReadTypes
      <4> QED BY <4>1 DEF Known
    <3> QED BY <3>1 DEF Frame
  <2>3. Chars(t) \in Nat
    BY <1>6 DEF TextTokens
  <2>4. Size \in Nat /\ pos \in Nat
    BY <1>1
  <2> QED BY ONLY <2>1, <2>2, <2>3, <2>4
<1>11. pc \in {"call", "return"} /\ "return" \in {"call", "return"} /\ Advance(Chars(t), "return")
  BY <1>2, <1>6
<1> QED BY <1>2, <1>6, <1>7, <1>8, <1>9, <1>10, <1>11, StepWrites DEF t

(* An array is skipped. *)
LEMMA SkipPrints ==
  ASSUME Types, Types', IsLegible(input), input' = input, NEW s, ReadsOn(s), pc = "call",
         at' = at + 1, todo' = todo, SkipArray(Token)
  PROVE  Prints'
<1> DEFINE b == Begin(input)
           c == Call("skip", 0)
<1>1. /\ IsReply(input) /\ stack \in Seq(Frame) /\ todo \in Nat /\ pos \in Nat /\ Size \in Nat
      /\ Reads(input, at, stack, s, pc, state, todo)
      /\ b \in Nat /\ at \in Nat /\ Len(stack) \in Nat
  BY ReadsOnTypes
<1>2. /\ Skips /\ multireturn_skiped' = multireturn_skiped - 1
      /\ stack' = Append(stack, c) /\ pc' = "call" /\ out' = out /\ pos' = pos /\ state' = state
  BY DEF SkipArray
<1>3. at + 1 < b
  BY <1>2, SkipsWhat
<1>4. c \in Frame /\ c.for = "skip" /\ stack' \in Seq(Frame)
  <2>1. c \in Frame /\ c.for = "skip"
    BY Calls
  <2> QED BY <2>1 DEF Types
<1> HIDE DEF c
<1>5. Len(stack') = Len(stack) + 1 /\ (\A i \in 1..Len(stack) : stack'[i] = stack[i])
      /\ stack'[Len(stack) + 1].for = "skip"
  BY <1>1, <1>2, <1>4, AppendProperties
<1>6. PICK s2 : s2 = Append(s, at + 1)
  OBVIOUS
<1>7. Reads(input, at + 1, stack', s2, "call", state, todo)
  BY <1>1, <1>3, <1>4, <1>5, <1>6, ReadSkip
<1>8. Sofar(input, at + 1, s2, "call") = Sofar(input, at, s, pc)
  <2>1. Sofar(input, at + 1, s2, "call") = <<>>
    BY <1>1, <1>3, <1>4, <1>7, PrintsNothingYet
  <2>2. Sofar(input, at, s, "call") = <<>>
    <3>1. at < b
      BY <1>1, <1>3
    <3> QED BY <1>1, <3>1, PrintsNothingYet
  <2> QED BY <2>1, <2>2
<1>9. multireturn_skiped' = IF at' < b THEN (b - 1) - at' ELSE 0
  <2>1. multireturn_skiped = IF at < b THEN (b - 1) - at ELSE 0
    BY DEF ReadsOn
  <2> QED BY <1>1, <1>2, <1>3, <2>1
<1>10. b..Len(stack') = {}
  <2>1. Len(s) = at /\ Len(s) = Len(stack)
    <3>1. at < b
      BY <1>1, <1>3
    <3> QED BY <1>1, <3>1 DEF Reads
  <2> QED BY <1>1, <1>3, <1>5, <2>1
<1>11. pc \in {"call", "return"} /\ pc' \in {"call", "return"}
  BY <1>2
<1>12. Reads(input, at', stack', s2, pc', state', todo') /\ Sofar(input, at', s2, pc') = Sofar(input, at, s, pc)
  BY <1>2, <1>7, <1>8
<1>13. \A i \in b..Len(stack') : Size <= pos + stack'[i].len
  BY <1>10
<1>14. /\ Types /\ IsLegible(input) /\ input' = input /\ ReadsOn(s) /\ out' = out /\ pos' = pos
       /\ multireturn_skiped' = IF at' < Begin(input) THEN (Begin(input) - 1) - at' ELSE 0
  BY <1>2, <1>9
<1> QED BY ONLY <1>11, <1>12, <1>13, <1>14, StepReads

(* The call for an array or map that is printed, and what it does.         *)
Boxing(c, ph) ==
  /\ c \in Frame /\ stack' = Append(stack, c) /\ c.for = Token[1] /\ c.len = Room - 1
  /\ c.left = IF Holds(Token) = 0 THEN 0 ELSE Holds(Token) - 1
  /\ ph = IF Holds(Token) = 0 THEN "return" ELSE "call"
  /\ out' = Append(out, IF Token[1] = "array" THEN <<"[">> ELSE <<"{">>)
  /\ Advance(1, ph)
  /\ "MAP" \in state \/ Token[1] = "map" => "MAP" \in state'
  /\ "KEY" \in state' <=> "KEY" \in state \/ (Token[1] = "map" /\ Holds(Token) # 0)
  /\ multireturn_skiped' = multireturn_skiped

(* An array or map that is to be printed is opened.                        *)
LEMMA BoxPrints ==
  ASSUME Types, Types', IsLegible(input), input' = input, NEW s, ReadsOn(s), pc = "call",
         at' = at + 1, todo' = todo, Token[1] \in {"array", "map"}, at + 1 >= Begin(input),
         NEW c, NEW ph, Boxing(c, ph)
  PROVE  Prints'
<1> DEFINE b == Begin(input)
           t == IF Token[1] = "array" THEN <<"[">> ELSE <<"{">>
<1>1. /\ IsReply(input) /\ stack \in Seq(Frame) /\ todo \in Nat /\ pos \in Nat /\ Size \in Nat
      /\ Reads(input, at, stack, s, pc, state, todo)
      /\ b \in Nat /\ at \in Nat /\ Len(stack) \in Nat
  BY ReadsOnTypes
<1>2. /\ c \in Frame /\ stack' = Append(stack, c) /\ c.for = Token[1] /\ c.len = Room - 1
      /\ c.left = IF Holds(Token) = 0 THEN 0 ELSE Holds(Token) - 1
      /\ ph = IF Holds(Token) = 0 THEN "return" ELSE "call"
      /\ out' = Append(out, t) /\ Advance(1, ph)
      /\ "MAP" \in state \/ Token[1] = "map" => "MAP" \in state'
      /\ "KEY" \in state' <=> "KEY" \in state \/ (Token[1] = "map" /\ Holds(Token) # 0)
      /\ multireturn_skiped' = multireturn_skiped
  BY DEF Boxing
<1>3. t = Own(input, at + 1)
  BY DEF Own, Token
<1>4. t \in TextTokens /\ Chars(t) = 1
  <2>1. t = <<"[">> \/ t = <<"{">>
    OBVIOUS
  <2> QED BY <2>1, MarksTakeRoom
<1> HIDE DEF t
<1>5. /\ stack' \in Seq(Frame) /\ Len(stack') = Len(stack) + 1
      /\ (\A i \in 1..Len(stack) : stack'[i] = stack[i]) /\ stack'[Len(stack) + 1] = c
  BY <1>1, <1>2, AppendProperties
<1>6. Opens(input, at, stack, state, stack', state', ph)
  <2>1. Token = input.tokens[at + 1]
    BY DEF Token
  <2> QED BY <1>2, <1>5, <2>1 DEF Opens
<1>7. PICK s2 : s2 = Append(s, at + 1)
  OBVIOUS
<1>8. Reads(input, at + 1, stack', s2, ph, state', todo)
  BY <1>1, <1>5, <1>6, <1>7, ReadBox
<1>9. Sofar(input, at + 1, s2, ph) = Sofar(input, at, s, pc) \o <<t>>
  <2>1. Sofar(input, at + 1, Append(s, at + 1), ph)
        = Sofar(input, at, s, "call") \o << Own(input, at + 1) >>
    <3> HIDE DEF b
    <3>1. /\ IsReply(input) /\ IsLegible(input) /\ stack \in Seq(Frame) /\ todo \in Nat
          /\ Reads(input, at, stack, s, "call", state, todo) /\ at + 1 >= Begin(input)
          /\ stack' \in Seq(Frame) /\ Opens(input, at, stack, state, stack', state', ph)
      BY <1>1, <1>5, <1>6
    <3> QED BY ONLY <3>1, PrintsBox
  <2> QED BY <1>3, <1>7, <2>1
<1>10. multireturn_skiped' = IF at' < b THEN (b - 1) - at' ELSE 0
  <2>1. multireturn_skiped = IF at < b THEN (b - 1) - at ELSE 0
    BY DEF ReadsOn
  <2> QED BY <1>1, <1>2, <2>1
<1>11. \A i \in b..Len(stack') : Size <= pos + Chars(t) + stack'[i].len
  <2> SUFFICES ASSUME NEW i \in b..Len(stack') PROVE Size <= pos + 1 + stack'[i].len
    BY <1>4
  <2>1. CASE i = Len(stack) + 1
    <3>1. stack'[i].len = (Size - pos) - 1
      BY <1>2, <1>5, <2>1 DEF Room
    <3> QED BY <1>1, <3>1
  <2>2. CASE i # Len(stack) + 1
    <3>1. i \in b..Len(stack)
      BY <1>1, <1>5, <2>2
    <3>2. Size <= pos + stack[i].len
      BY <3>1 DEF ReadsOn
    <3>3. i \in 1..Len(stack) /\ stack[i] \in Frame
      <4>1. Len(s) = Len(stack)
        <5>1. Known(input, at, stack, s, pc)
          BY <1>1, ReadTypes
        <5> QED BY <5>1 DEF Known
      <4> QED BY <1>1, <3>1, <4>1, ReadTypes DEF Known
    <3>4. stack[i].len \in Int /\ stack'[i] = stack[i]
      BY <1>5, <3>3 DEF Frame
    <3>5. Size \in Nat /\ pos \in Nat
      BY <1>1
    <3> QED BY ONLY <3>2, <3>4, <3>5
  <2> QED BY <2>1, <2>2
<1>12. pc \in {"call", "return"} /\ ph \in {"call", "return"} /\ Advance(Chars(t), ph)
  BY <1>2, <1>4
<1>13. /\ Reads(input, at', stack', s2, ph, state', todo')
       /\ Sofar(input, at', s2, ph) = Sofar(input, at, s, pc) \o <<t>>
  BY <1>8, <1>9
<1> QED BY <1>2, <1>4, <1>10, <1>11, <1>12, <1>13, StepWrites

(* A token is decoded. *)
LEMMA DecodePrints ==
  ASSUME Types, Prints, Decode, IsLegible(input)
  PROVE  Prints'
<1>1. /\ pc = "call" /\ input' = input /\ todo' = todo /\ at < Len(input.tokens)
      /\ at' = IF pos = Size THEN at ELSE at + 1
      /\ IF pos = Size \/ (~(Token[1] = "array" /\ Skips) /\ Room < Needs(Token))
           THEN OOM
           ELSE \/ Scalar(Token) \/ Extension(Token)
                \/ SkipArray(Token) \/ Array(Token) \/ Map(Token)
  BY DEF Decode
<1>2. PICK s : ReadsOn(s)
  BY <1>1 DEF Prints
<1>3. Types'
  BY DecodeTypes
<1>4. CASE pos = Size \/ (~(Token[1] = "array" /\ Skips) /\ Room < Needs(Token))
  <2>1. TooSmall
    BY <1>1, <1>2, <1>4, DecodeGivesUp
  <2>2. pc' = "oom"
    BY <1>1, <1>4 DEF OOM
  <2> QED BY <1>1, <2>1, <2>2, StepGivesUp
<1>5. CASE ~(pos = Size \/ (~(Token[1] = "array" /\ Skips) /\ Room < Needs(Token)))
  <2>1. /\ at' = at + 1
        /\ Scalar(Token) \/ Extension(Token) \/ SkipArray(Token) \/ Array(Token) \/ Map(Token)
    BY <1>1, <1>5
  <2>2. CASE Scalar(Token)
    BY <1>1, <1>2, <1>3, <2>1, <2>2, ScalarPrints
  <2>3. CASE SkipArray(Token)
    BY <1>1, <1>2, <1>3, <2>1, <2>3, SkipPrints
  <2>4. /\ Skips <=> at + 1 < Begin(input)
        /\ at + 1 < Begin(input) => Token[1] = "array"
        /\ ~(at + 1 < Begin(input)) => at + 1 >= Begin(input) /\ Token[1] # "ext"
        /\ Token \in Tokens
    <3>1. pc \in {"call", "return"}
      BY <1>1
    <3>2. /\ IsReply(input) /\ stack \in Seq(Frame) /\ todo \in Nat
          /\ Reads(input, at, stack, s, pc, state, todo)
      BY <1>2, <3>1, ReadsOnTypes
    <3>3. /\ input.tokens[at + 1] \in Tokens
          /\ at + 1 < Begin(input) => input.tokens[at + 1][1] = "array"
          /\ ~(at + 1 < Begin(input)) => at + 1 >= Begin(input) /\ input.tokens[at + 1][1] # "ext"
      BY <1>1, <3>2, LegibleNext
    <3>4. Skips <=> at + 1 < Begin(input)
      BY <1>2, <3>1, SkipsWhat
    <3> QED BY <3>3, <3>4 DEF Token
  <2>5. CASE Extension(Token)
    <3>1. Token[1] = "ext" /\ "ext" # "array"
      BY <2>5 DEF Extension
    <3> QED BY <2>4, <3>1
  <2>6. CASE Array(Token)
    <3> DEFINE left == IF Token[2] = 0 THEN 0 ELSE Token[2] - 1
               ph == IF Token[2] = 0 THEN "return" ELSE "call"
    <3>1. /\ Token[1] = "array" /\ ~Skips /\ out' = Append(out, <<"[">>)
          /\ stack' = Append(stack, Call("array", left)) /\ Advance(1, ph)
          /\ state' = state /\ multireturn_skiped' = multireturn_skiped
      BY <2>6 DEF Array
    <3>2. Holds(Token) = Token[2]
      BY <3>1 DEF Holds
    <3>3. left \in Nat
      BY <1>1, <3>1, TokenType
    <3>4. left = (IF Holds(Token) = 0 THEN 0 ELSE Holds(Token) - 1)
          /\ ph = IF Holds(Token) = 0 THEN "return" ELSE "call"
      BY <3>2
    <3> HIDE DEF left, ph
    <3>5. /\ Call("array", left) \in Frame /\ Call("array", left).for = "array"
          /\ Call("array", left).left = left /\ Call("array", left).len = Room - 1
      BY <3>3, Calls DEF Call
    <3>6. PICK c, p : c = Call("array", left) /\ p = ph
      OBVIOUS
    <3>7. Boxing(c, p)
      BY <3>1, <3>4, <3>5, <3>6 DEF Boxing
    <3>8. at + 1 >= Begin(input) /\ Token[1] \in {"array", "map"}
      BY <2>4, <3>1
    <3> QED BY ONLY Types, <1>1, <1>2, <1>3, <2>1, <3>7, <3>8, IsLegible(input), BoxPrints
  <2>7. CASE Map(Token)
    <3> DEFINE left == IF Token[2] = 0 THEN 0 ELSE 2 * Token[2] - 1
               ph == IF Token[2] = 0 THEN "return" ELSE "call"
    <3>1. /\ Token[1] = "map" /\ out' = Append(out, <<"{">>)
          /\ stack' = Append(stack, Call("map", left)) /\ Advance(1, ph)
          /\ state' = state \cup (IF Token[2] = 0 THEN {"MAP"} ELSE {"MAP", "KEY"})
          /\ multireturn_skiped' = multireturn_skiped
      BY <2>7 DEF Map
    <3>2. Token[2] \in Nat /\ Holds(Token) = 2 * Token[2]
      BY <1>1, <3>1, TokenType DEF Holds
    <3>3. (Holds(Token) = 0 <=> Token[2] = 0) /\ Token[1] # "array"
      <4>1. \A m \in Nat : 2 * m = 0 <=> m = 0
        OBVIOUS
      <4>2. Holds(Token) = 0 <=> Token[2] = 0
        BY <3>2, <4>1
      <4> QED BY <3>1, <4>2
    <3>4. /\ left \in Nat /\ left = (IF Holds(Token) = 0 THEN 0 ELSE Holds(Token) - 1)
          /\ ph = IF Holds(Token) = 0 THEN "return" ELSE "call"
      <4>1. \A n \in Nat : n # 0 => 2 * n - 1 \in Nat
        OBVIOUS
      <4>2. left \in Nat
        BY <3>2, <4>1
      <4>3. left = IF Holds(Token) = 0 THEN 0 ELSE Holds(Token) - 1
        BY <3>2, <3>3
      <4>4. ph = IF Holds(Token) = 0 THEN "return" ELSE "call"
        BY <3>3
      <4> QED BY <4>2, <4>3, <4>4
    <3> HIDE DEF left, ph
    <3>5. /\ Call("map", left) \in Frame /\ Call("map", left).for = "map"
          /\ Call("map", left).left = left /\ Call("map", left).len = Room - 1
      BY <3>4, Calls DEF Call
    <3>6. PICK c, p : c = Call("map", left) /\ p = ph
      OBVIOUS
    <3>7. /\ "MAP" \in state'
          /\ "KEY" \in state' <=> "KEY" \in state \/ Holds(Token) # 0
      BY <3>1, <3>3
    <3>8. Boxing(c, p)
      BY <3>1, <3>3, <3>4, <3>5, <3>6, <3>7 DEF Boxing
    <3>9. at + 1 >= Begin(input) /\ Token[1] \in {"array", "map"}
      BY <2>4, <3>1
    <3> QED BY ONLY Types, <1>1, <1>2, <1>3, <2>1, <3>8, <3>9, IsLegible(input), BoxPrints
  <2> QED BY <2>1, <2>2, <2>3, <2>5, <2>6, <2>7
<1> QED BY <1>4, <1>5

-----------------------------------------------------------------------------
(* The calls that are not for skipped arrays are those that print.         *)
LEMMA TopPrints ==
  ASSUME Types, IsLegible(input), NEW s, ReadsOn(s), pc = "return", stack # <<>>
  PROVE  /\ Top.for # "skip" <=> Len(stack) >= Begin(input)
         /\ Len(stack) >= Begin(input) => (Top.len < 1 => TooSmall)
         /\ at' = at =>
              multireturn_skiped = IF at' < Begin(input) THEN (Begin(input) - 1) - at' ELSE 0
<1> DEFINE b == Begin(input)
           l == Len(stack)
           x == JsonSize(Whole)
<1>1. /\ IsReply(input) /\ stack \in Seq(Frame) /\ todo \in Nat /\ pos \in Nat /\ Size \in Nat
      /\ Reads(input, at, stack, s, pc, state, todo)
      /\ b \in Nat /\ at \in Nat /\ l \in Nat /\ pos <= Head0Size + x
      /\ Head0Size \in Nat /\ x \in Nat /\ NumRoom \in Nat
  BY ReadsOnTypes
<1>2. Top \in Frame /\ Top = stack[l] /\ l # 0
  BY Popped DEF Top
<1>0. /\ Len(s) = l
      /\ \A i \in b..Len(s) : s[i] \in Boxes(input) /\ Waits(input, at, stack, s, pc, i)
  <2>1. Known(input, at, stack, s, pc)
    BY ONLY <1>1, IsLegible(input), ReadTypes
  <2> QED BY <2>1 DEF Known
<1>3. ASSUME l >= b
      PROVE  Top.for # "skip" /\ (Top.len < 1 => TooSmall)
  <2>1. l \in b..l /\ Len(s) = l
    BY <1>0, <1>1, <1>3
  <2>2. s[l] \in Boxes(input) /\ stack[l].for = input.tokens[s[l]][1]
    BY <1>0, <2>1 DEF Waits
  <2>3. Top.for \in {"array", "map"}
    BY <1>2, <2>2 DEF Boxes
  <2>4. Size <= pos + Top.len
    BY <1>2, <2>1 DEF ReadsOn
  <2>5. Top.len < 1 => TooSmall
    <3>1. Top.len \in Int
      BY <1>2 DEF Frame
    <3> HIDE DEF x
    <3>2. Top.len < 1 => Size < Head0Size + 1 + NumRoom + x
      BY <1>1, <2>4, <3>1
    <3> QED BY <3>2 DEF TooSmall, x
  <2> QED BY <2>3, <2>5
<1>4. ASSUME ~(l >= b) PROVE Top.for = "skip"
  <2>1. l \in 1..Len(s) /\ l < b
    <3> QED BY <1>0, <1>1, <1>2, <1>4
  <2> QED BY <1>1, <1>2, <2>1 DEF Reads
<1>5. at' = at => multireturn_skiped = IF at' < b THEN (b - 1) - at' ELSE 0
  BY DEF ReadsOn
<1> QED BY <1>3, <1>4, <1>5

(* What Put writes, when it does, and that it gives up only for want of    *)
(* room.                                                                   *)
LEMMA PutPrints ==
  ASSUME Types, IsLegible(input), NEW s, ReadsOn(s), pc = "return", stack # <<>>,
         Top.for # "skip", input' = input, NEW ch, NEW next, NEW frames, NEW flags,
         Put(ch, next, frames, flags)
  PROVE  \/ Prints'
         \/ /\ out' = Append(out, ch) /\ Advance(1, next) /\ stack' = frames /\ state' = flags
            /\ multireturn_skiped' = multireturn_skiped
<1>1. CASE Top.len < 1
  <2>1. pc' = "oom" /\ TooSmall
    BY <1>1, TopPrints DEF Put, OOM
  <2> QED BY <2>1, StepGivesUp
<1>2. CASE ~(Top.len < 1)
  BY <1>2 DEF Put
<1> QED BY <1>1, <1>2

(* Behind a key, and only there, an odd number of calls is left.           *)
LEMMA OneFewer == \A m \in Nat : m > 0 => ((m - 1) % 2 = 1 <=> m % 2 = 0)
OBVIOUS

(* The last call makes one more. *)
LEMMA AgainPrints ==
  ASSUME Types, Types', IsLegible(input), NEW s, ReadsOn(s), pc = "return", stack # <<>>,
         Top.for # "skip", Top.left > 0, input' = input, at' = at, todo' = todo,
         NEW ch, ch = (IF Top.for = "map" /\ Top.left % 2 = 1 THEN <<":">> ELSE <<",">>),
         NEW flags, "MAP" \in state => "MAP" \in flags,
         "KEY" \in flags <=> Top.for = "map" /\ Top.left % 2 = 0,
         Put(ch, "call", CallAgain, flags)
  PROVE  Prints'
<1> DEFINE b == Begin(input)
           l == Len(stack)
<1>1. /\ IsReply(input) /\ stack \in Seq(Frame) /\ todo \in Nat /\ pos \in Nat /\ Size \in Nat
      /\ Reads(input, at, stack, s, pc, state, todo)
      /\ b \in Nat /\ at \in Nat /\ l \in Nat
  BY ReadsOnTypes
<1>2. Top \in Frame /\ Top = stack[l] /\ l # 0 /\ l >= b /\ Top.left \in Nat
  <2>1. Top \in Frame
    BY Popped
  <2>2. l >= b
    BY TopPrints
  <2>3. l # 0
    BY Popped
  <2> QED BY <2>1, <2>2, <2>3 DEF Top, Frame
<1>3. /\ CallAgain \in Seq(Frame) /\ Len(CallAgain) = l
      /\ \A i \in 1..l : /\ CallAgain[i].for = stack[i].for
                         /\ i # l => CallAgain[i] = stack[i]
      /\ CallAgain[l].left = Top.left - 1 /\ CallAgain[l].len = Top.len - 1
  BY CalledAgain
<1>4. SUFFICES ASSUME out' = Append(out, ch), Advance(1, "call"), stack' = CallAgain,
                      state' = flags, multireturn_skiped' = multireturn_skiped
               PROVE  Prints'
  <2>1. /\ Types /\ IsLegible(input) /\ ReadsOn(s) /\ pc = "return" /\ stack # <<>>
        /\ Top.for # "skip" /\ input' = input /\ Put(ch, "call", CallAgain, flags)
    OBVIOUS
  <2>2. \/ Prints'
        \/ /\ out' = Append(out, ch) /\ Advance(1, "call") /\ stack' = CallAgain /\ state' = flags
           /\ multireturn_skiped' = multireturn_skiped
    BY ONLY <2>1, PutPrints
  <2> QED BY <2>2
<1>5. stack' \in Seq(Frame) /\ Len(stack') = l
  BY <1>3, <1>4
<1>6. Repeats(input, stack, stack', state, state')
  <2>1. /\ Len(stack') = l /\ l >= b /\ stack[l].left > 0
        /\ \A i \in 1..l : stack'[i].for = stack[i].for /\ (i # l => stack'[i].left = stack[i].left)
        /\ stack'[l].left = stack[l].left - 1
    BY <1>2, <1>3, <1>4
  <2>2. "KEY" \in state' <=> Named(input, stack')
    <3>2. (Top.left - 1) % 2 = 1 <=> Top.left % 2 = 0
      <4>1. Top.left \in Nat /\ Top.left > 0
        BY <1>2
      <4> QED BY ONLY <4>1, OneFewer
    <3>3. l \in 1..l
      BY ONLY <1>1, <1>2
    <3>4. stack'[l].for = Top.for /\ stack'[l].left = Top.left - 1
      BY <1>2, <1>3, <1>4, <3>3
    <3>5. Named(input, stack') <=> Top.for = "map" /\ (Top.left - 1) % 2 = 1
      BY <1>2, <1>5, <3>4 DEF Named
    <3> QED BY <1>4, <3>2, <3>5
  <2> QED BY <1>4, <2>1, <2>2 DEF Repeats
<1>7. Reads(input, at, stack', s, "call", state', todo)
  BY ONLY <1>1, <1>5, <1>6, IsLegible(input), pc = "return", ReadAgain
<1>8. Sofar(input, at, s, "call") = Sofar(input, at, s, pc) \o <<ch>>
  <2>1. Sofar(input, at, s, "call") = Sofar(input, at, s, "return")
           \o << IF stack[Len(stack)].for = "map" /\ stack[Len(stack)].left % 2 = 1
                   THEN <<":">> ELSE <<",">> >>
    BY ONLY <1>1, <1>5, <1>6, IsLegible(input), pc = "return", PrintsAgain
  <2>2. stack[Len(stack)] = Top
    BY <1>2
  <2> QED BY <2>1, <2>2
<1>9. ch \in TextTokens /\ Chars(ch) = 1
  <2>1. ch = <<":">> \/ ch = <<",">>
    OBVIOUS
  <2> QED BY <2>1, MarksTakeRoom
<1>10. \A i \in b..Len(stack') : Size <= pos + Chars(ch) + stack'[i].len
  <2> SUFFICES ASSUME NEW i \in b..l PROVE Size <= pos + 1 + stack'[i].len
    BY <1>5, <1>9
  <2>1. Size <= pos + stack[i].len
    BY DEF ReadsOn
  <2>2. i \in 1..l /\ stack[i] \in Frame
    <3>1. Len(s) = l /\ \A k \in b..Len(s) : k \in 1..Len(s) /\ stack[k] \in Frame
      <4>1. Known(input, at, stack, s, pc)
        BY ONLY <1>1, IsLegible(input), ReadTypes
      <4> QED BY <4>1 DEF Known
    <3> QED BY <3>1
  <2>3. stack[i].len \in Int
    BY <2>2 DEF Frame
  <2>4. stack'[i].len = stack[i].len \/ stack'[i].len = stack[i].len - 1
    BY <1>2, <1>3, <1>4, <2>2
  <2>5. Size \in Nat /\ pos \in Nat
    BY <1>1
  <2> QED BY ONLY <2>1, <2>3, <2>4, <2>5
<1>11. /\ Types /\ Types' /\ IsLegible(input) /\ input' = input /\ ReadsOn(s)
       /\ pc \in {"call", "return"} /\ "call" \in {"call", "return"}
       /\ out' = Append(out, ch) /\ Advance(Chars(ch), "call")
       /\ multireturn_skiped' = IF at' < Begin(input) THEN (Begin(input) - 1) - at' ELSE 0
  <2>1. multireturn_skiped = IF at' < Begin(input) THEN (Begin(input) - 1) - at' ELSE 0
    BY TopPrints
  <2> QED BY <1>4, <1>9, <2>1
<1>12. /\ Reads(input, at', stack', s, "call", state', todo')
       /\ Sofar(input, at', s, "call") = Sofar(input, at, s, pc) \o <<ch>>
  BY <1>7, <1>8
<1> QED BY ONLY <1>9, <1>10, <1>11, <1>12, StepWrites

(* The last call returns, and closes what it printed.                      *)
LEMMA EndPrints ==
  ASSUME Types, Types', IsLegible(input), NEW s, ReadsOn(s), pc = "return", stack # <<>>,
         Top.for # "skip", Top.left = 0, input' = input, at' = at, todo' = todo,
         NEW ch, ch = (IF Top.for = "map" THEN <<"}">> ELSE <<"]">>),
         NEW flags, flags = (IF Top.for = "map" THEN state \ {"MAP"} ELSE state),
         Put(ch, "return", Below, flags)
  PROVE  Prints'
<1> DEFINE b == Begin(input)
           l == Len(stack)
<1>1. /\ IsReply(input) /\ stack \in Seq(Frame) /\ todo \in Nat /\ pos \in Nat /\ Size \in Nat
      /\ Reads(input, at, stack, s, pc, state, todo)
      /\ b \in Nat /\ at \in Nat /\ l \in Nat
  BY ReadsOnTypes
<1>2. Top = stack[l] /\ l # 0 /\ l >= b
  <2>1. l >= b
    BY TopPrints
  <2>2. l # 0
    BY Popped
  <2> QED BY <2>1, <2>2 DEF Top
<1>3. /\ Below \in Seq(Frame) /\ Len(Below) = l - 1
      /\ \A i \in 1..Len(Below) : Below[i] = stack[i]
  BY Popped
<1>4. SUFFICES ASSUME out' = Append(out, ch), Advance(1, "return"), stack' = Below,
                      state' = flags, multireturn_skiped' = multireturn_skiped
               PROVE  Prints'
  <2>1. /\ Types /\ IsLegible(input) /\ ReadsOn(s) /\ pc = "return" /\ stack # <<>>
        /\ Top.for # "skip" /\ input' = input /\ Put(ch, "return", Below, flags)
    OBVIOUS
  <2>2. \/ Prints'
        \/ /\ out' = Append(out, ch) /\ Advance(1, "return") /\ stack' = Below /\ state' = flags
           /\ multireturn_skiped' = multireturn_skiped
    BY ONLY <2>1, PutPrints
  <2> QED BY <2>2
<1>5. stack' \in Seq(Frame) /\ Returns(stack, stack', state, state')
  BY <1>2, <1>3, <1>4 DEF Returns
<1>6. PICK s2 : s2 = SubSeq(s, 1, Len(s) - 1)
  OBVIOUS
<1>7. Len(stack) >= Begin(input) /\ stack[Len(stack)].left = 0
  BY <1>2
<1>8. Reads(input, at, stack', s2, "return", state', todo)
  BY ONLY <1>1, <1>5, <1>6, <1>7, IsLegible(input), pc = "return", ReadEnd
<1>9. Sofar(input, at, s2, "return") = Sofar(input, at, s, pc) \o <<ch>>
  <2>1. Sofar(input, at, SubSeq(s, 1, Len(s) - 1), "return") = Sofar(input, at, s, "return")
           \o << IF stack[Len(stack)].for = "map" THEN <<"}">> ELSE <<"]">> >>
    BY ONLY <1>1, <1>7, IsLegible(input), pc = "return", PrintsEnd
  <2>2. stack[Len(stack)] = Top
    BY <1>2
  <2> QED BY <1>6, <2>1, <2>2
<1>10. ch \in TextTokens /\ Chars(ch) = 1
  <2>1. ch = <<"}">> \/ ch = <<"]">>
    OBVIOUS
  <2> QED BY <2>1, MarksTakeRoom
<1>11. \A i \in b..Len(stack') : Size <= pos + Chars(ch) + stack'[i].len
  <2> SUFFICES ASSUME NEW i \in b..(l - 1) PROVE Size <= pos + 1 + stack'[i].len
    BY <1>3, <1>4, <1>10
  <2>1. i \in b..l
    BY ONLY <1>1, i \in b..(l - 1)
  <2>2. Size <= pos + stack[i].len
    BY <2>1 DEF ReadsOn
  <2>3. i \in 1..l /\ stack[i] \in Frame
    <3>1. Len(s) = l /\ \A k \in b..Len(s) : k \in 1..Len(s) /\ stack[k] \in Frame
      <4>1. Known(input, at, stack, s, pc)
        BY ONLY <1>1, IsLegible(input), ReadTypes
      <4> QED BY <4>1 DEF Known
    <3> QED BY <2>1, <3>1
  <2>4. stack[i].len \in Int
    BY <2>3 DEF Frame
  <2>5. stack'[i] = stack[i]
    <3>1. i \in 1..Len(Below)
      BY ONLY <1>1, <1>3, <2>3, i \in b..(l - 1)
    <3> QED BY <1>3, <1>4, <3>1
  <2>6. Size \in Nat /\ pos \in Nat
    BY <1>1
  <2> QED BY ONLY <2>2, <2>4, <2>5, <2>6
<1>12. /\ Types /\ Types' /\ IsLegible(input) /\ input' = input /\ ReadsOn(s)
       /\ pc \in {"call", "return"} /\ "return" \in {"call", "return"}
       /\ out' = Append(out, ch) /\ Advance(Chars(ch), "return")
       /\ multireturn_skiped' = IF at' < Begin(input) THEN (Begin(input) - 1) - at' ELSE 0
  <2>1. multireturn_skiped = IF at' < Begin(input) THEN (Begin(input) - 1) - at' ELSE 0
    BY TopPrints
  <2> QED BY <1>4, <1>10, <2>1
<1>13. /\ Reads(input, at', stack', s2, "return", state', todo')
       /\ Sofar(input, at', s2, "return") = Sofar(input, at, s, pc) \o <<ch>>
  BY <1>8, <1>9
<1> QED BY ONLY <1>10, <1>11, <1>12, <1>13, StepWrites

(* The call for a skipped array returns. *)
LEMMA UnskipPrints ==
  ASSUME Types, IsLegible(input), NEW s, ReadsOn(s), pc = "return", stack # <<>>,
         input' = input, at' = at, todo' = todo, ReturnToSkip
  PROVE  Prints'
<1> DEFINE b == Begin(input)
<1>1. /\ IsReply(input) /\ stack \in Seq(Frame) /\ todo \in Nat
      /\ Reads(input, at, stack, s, pc, state, todo)
      /\ b \in Nat /\ at \in Nat /\ Len(stack) \in Nat
  BY ReadsOnTypes
<1>2. /\ Top.for = "skip" /\ stack' = Below /\ pc' = pc /\ out' = out /\ pos' = pos
      /\ state' = state /\ multireturn_skiped' = multireturn_skiped
  BY DEF ReturnToSkip
<1>3. Len(stack) < b
  <2>1. ~(Len(stack) >= b)
    BY <1>2, TopPrints
  <2> QED BY <1>1, <2>1
<1>4. /\ Below \in Seq(Frame) /\ Len(Below) = Len(stack) - 1
      /\ \A i \in 1..Len(Below) : Below[i] = stack[i]
      /\ Top = stack[Len(stack)]
  BY Popped DEF Top
<1>5. stack' \in Seq(Frame) /\ Returns(stack, stack', state, state)
  BY <1>2, <1>4 DEF Returns
<1>6. PICK s2 : s2 = SubSeq(s, 1, Len(s) - 1)
  OBVIOUS
<1>7. /\ Reads(input, at, stack', s2, "return", state, todo)
      /\ Sofar(input, at, s2, "return") = Sofar(input, at, s, "return")
  BY ONLY <1>1, <1>3, <1>5, <1>6, IsLegible(input), pc = "return", ReadUnskip, PrintsUnskip
<1>8. /\ Reads(input, at', stack', s2, pc', state', todo')
      /\ Sofar(input, at', s2, pc') = Sofar(input, at, s, pc)
  BY <1>2, <1>7
<1>9. b..Len(stack') = {}
  <2>1. Len(stack') = Len(stack) - 1
    BY <1>2, <1>4
  <2> QED BY ONLY <1>1, <1>3, <2>1
<1>10. \A i \in Begin(input)..Len(stack') : Size <= pos + stack'[i].len
  BY <1>9
<1>11. /\ Types /\ IsLegible(input) /\ input' = input /\ ReadsOn(s)
       /\ pc \in {"call", "return"} /\ pc' \in {"call", "return"} /\ out' = out /\ pos' = pos
       /\ multireturn_skiped' = IF at' < Begin(input) THEN (Begin(input) - 1) - at' ELSE 0
  <2>1. multireturn_skiped = IF at' < Begin(input) THEN (Begin(input) - 1) - at' ELSE 0
    BY TopPrints
  <2> QED BY <1>2, <2>1
<1> QED BY ONLY <1>8, <1>10, <1>11, StepReads

(* A call returns. *)
LEMMA ReturnPrints ==
  ASSUME Types, Prints, Return, IsLegible(input)
  PROVE  Prints'
<1>1. /\ pc = "return" /\ stack # <<>> /\ input' = input /\ at' = at /\ todo' = todo
      /\ ReturnToSkip \/ NextItem \/ EndArray \/ AfterKey \/ NextPair \/ EndMap
  BY DEF Return
<1>2. PICK s : ReadsOn(s)
  BY <1>1 DEF Prints
<1>3. Types'
  BY ReturnTypes
<1>4. Types /\ Types' /\ IsLegible(input) /\ ReadsOn(s)
  BY <1>2, <1>3
<1>5. "KEY" \in state => Top.for = "map"
  <2>1. Reads(input, at, stack, s, pc, state, todo)
    BY <1>2 DEF ReadsOn
  <2>2. "KEY" \in state => Named(input, stack)
    BY <2>1 DEF Reads, Flags
  <2> QED BY <2>2 DEF Named, Top
<1>6. Top.left \in Nat
  <2>1. Top \in Frame
    BY <1>1, Popped
  <2> QED BY <2>1 DEF Frame
<1>7. CASE ReturnToSkip
  BY ONLY <1>1, <1>4, <1>7, UnskipPrints
<1>8. CASE NextItem
  <2>1. Top.for = "array" /\ Top.left > 0 /\ Put(<<",">>, "call", CallAgain, state)
    BY <1>8 DEF NextItem
  <2>2. PICK ch : ch = <<",">>
    OBVIOUS
  <2>3. /\ Put(ch, "call", CallAgain, state) /\ Top.for # "skip"
        /\ ch = IF Top.for = "map" /\ Top.left % 2 = 1 THEN <<":">> ELSE <<",">>
        /\ "KEY" \in state <=> Top.for = "map" /\ Top.left % 2 = 0
    BY <1>5, <2>1, <2>2
  <2> QED BY ONLY <1>1, <1>4, <2>1, <2>3, AgainPrints
<1>9. CASE EndArray
  <2>1. Top.for = "array" /\ Top.left = 0 /\ Put(<<"]">>, "return", Below, state)
    BY <1>9 DEF EndArray
  <2>2. PICK ch, flags : ch = <<"]">> /\ flags = state
    OBVIOUS
  <2>3. /\ Put(ch, "return", Below, flags) /\ Top.for # "skip"
        /\ ch = IF Top.for = "map" THEN <<"}">> ELSE <<"]">>
        /\ flags = IF Top.for = "map" THEN state \ {"MAP"} ELSE state
    BY <2>1, <2>2
  <2> QED BY ONLY <1>1, <1>4, <2>1, <2>3, EndPrints
<1>10. CASE AfterKey
  <2>1. Top.for = "map" /\ Top.left % 2 = 1 /\ Put(<<":">>, "call", CallAgain, StateAfterKey)
    BY <1>10 DEF AfterKey
  <2>2. PICK ch, flags : ch = <<":">> /\ flags = StateAfterKey
    OBVIOUS
  <2>3. Top.left > 0
    <3>1. Top.left # 0
      BY <2>1
    <3> QED BY <1>6, <3>1
  <2>4. Top.left % 2 # 0
    BY <2>1
  <2>5. /\ Put(ch, "call", CallAgain, flags) /\ Top.for # "skip"
        /\ ch = IF Top.for = "map" /\ Top.left % 2 = 1 THEN <<":">> ELSE <<",">>
        /\ "MAP" \in state => "MAP" \in flags
        /\ "KEY" \in flags <=> Top.for = "map" /\ Top.left % 2 = 0
    <3>1. flags = state \ {"KEY"}
      BY <2>2 DEF StateAfterKey
    <3> QED BY <2>1, <2>2, <2>4, <3>1
  <2> QED BY ONLY <1>1, <1>4, <2>3, <2>5, AgainPrints
<1>11. CASE NextPair
  <2>1. /\ Top.for = "map" /\ Top.left > 0 /\ Top.left % 2 = 0
        /\ Put(<<",">>, "call", CallAgain, state \cup {"KEY"})
    BY <1>11 DEF NextPair
  <2>2. PICK ch, flags : ch = <<",">> /\ flags = state \cup {"KEY"}
    OBVIOUS
  <2>3. Top.left % 2 # 1
    <3>1. Top.left % 2 = 0
      BY <2>1
    <3>2. 0 # 1
      OBVIOUS
    <3> QED BY ONLY <3>1, <3>2
  <2>4. /\ Put(ch, "call", CallAgain, flags) /\ Top.for # "skip"
        /\ ch = IF Top.for = "map" /\ Top.left % 2 = 1 THEN <<":">> ELSE <<",">>
        /\ "MAP" \in state => "MAP" \in flags
        /\ "KEY" \in flags <=> Top.for = "map" /\ Top.left % 2 = 0
    BY <2>1, <2>2, <2>3
  <2> QED BY ONLY <1>1, <1>4, <2>1, <2>4, AgainPrints
<1>12. CASE EndMap
  <2>1. Top.for = "map" /\ Top.left = 0 /\ Put(<<"}">>, "return", Below, StateAfterMap)
    BY <1>12 DEF EndMap
  <2>2. PICK ch, flags : ch = <<"}">> /\ flags = StateAfterMap
    OBVIOUS
  <2>3. /\ Put(ch, "return", Below, flags) /\ Top.for # "skip"
        /\ ch = IF Top.for = "map" THEN <<"}">> ELSE <<"]">>
        /\ flags = IF Top.for = "map" THEN state \ {"MAP"} ELSE state
    BY <2>1, <2>2 DEF StateAfterMap
  <2> QED BY ONLY <1>1, <1>4, <2>1, <2>3, EndPrints
<1> QED BY <1>1, <1>7, <1>8, <1>9, <1>10, <1>11, <1>12

(* The next of a dump's values is called for. *)
LEMMA NextValuePrints ==
  ASSUME Types, Prints, NextValue, IsLegible(input)
  PROVE  Prints'
<1>1. /\ pc = "return" /\ stack = <<>> /\ todo > 0 /\ todo' = todo - 1 /\ pc' = "call"
      /\ UNCHANGED <<input, out, pos, state, multireturn_skiped, at, stack>>
  BY DEF NextValue
<1>2. PICK s : ReadsOn(s)
  BY <1>1 DEF Prints
<1>3. pc \in {"call", "return"} /\ pc' \in {"call", "return"}
  BY <1>1
<1>4. /\ IsReply(input) /\ stack \in Seq(Frame) /\ todo \in Nat
      /\ Reads(input, at, stack, s, pc, state, todo) /\ Begin(input) \in Nat
      /\ Begin(input) \in 1..3
  BY <1>2, <1>3, ReadsOnTypes
<1>5. Len(stack) = 0
  BY <1>1
<1>6. /\ Reads(input, at, stack, s, "call", state, todo - 1)
      /\ Sofar(input, at, s, "call") = Sofar(input, at, s, "return")
  BY ONLY <1>1, <1>4, <1>5, IsLegible(input), ReadNextValue, PrintsNextValue
<1>7. /\ Reads(input, at', stack', s, pc', state', todo')
      /\ Sofar(input, at', s, pc') = Sofar(input, at, s, pc)
  BY <1>1, <1>6
<1>8. \A i \in Begin(input)..Len(stack') : Size <= pos + stack'[i].len
  <2>1. Begin(input)..Len(stack') = {}
    BY <1>1, <1>4, <1>5
  <2> QED BY <2>1
<1>9. /\ Types /\ IsLegible(input) /\ input' = input /\ ReadsOn(s) /\ out' = out /\ pos' = pos
      /\ multireturn_skiped' = IF at' < Begin(input) THEN (Begin(input) - 1) - at' ELSE 0
  <2>1. multireturn_skiped = IF at < Begin(input) THEN (Begin(input) - 1) - at ELSE 0
    BY <1>2 DEF ReadsOn
  <2> QED BY <1>1, <1>2, <2>1
<1> QED BY ONLY <1>3, <1>7, <1>8, <1>9, StepReads

(* A reply that has a JSON has a token for each call.                      *)
LEMMA NothingIsMissed ==
  ASSUME Types, Prints, IsLegible(input)
  PROVE  ~DecodeNothing
<1> SUFFICES ASSUME DecodeNothing PROVE FALSE
  OBVIOUS
<1>1. pc = "call" /\ at = Len(input.tokens)
  BY DEF DecodeNothing
<1>2. PICK s : ReadsOn(s)
  BY <1>1 DEF Prints
<1>3. pc \in {"call", "return"}
  BY <1>1
<1>4. /\ IsReply(input) /\ stack \in Seq(Frame) /\ todo \in Nat
      /\ Reads(input, at, stack, s, pc, state, todo) /\ at \in Nat
  BY <1>2, <1>3, ReadsOnTypes
<1>5. at < Len(input.tokens)
  BY ONLY <1>1, <1>4, IsLegible(input), LegibleNext
<1> QED BY <1>1, <1>4, <1>5

(* What is sent for a reply, case by case.                                 *)
LEMMA WrappedIs ==
  ASSUME NEW q, NEW text
  PROVE  /\ q.codec = "dump" => Wrapped(q, text) = text
         /\ q.codec # "dump" /\ q.error = 0 /\ q.pure_result => Wrapped(q, text) = text
         /\ q.codec # "dump" /\ q.error = 0 /\ ~q.pure_result =>
              Wrapped(q, text) = (<< <<"{">>, <<"result">> >> \o text) \o << <<"}">> >>
         /\ q.codec # "dump" /\ q.error # 0 =>
              Wrapped(q, text) = << <<"{">>, <<"error">>, <<"{">>, <<"code", code_conv(q.error)>>,
                                    <<"}">>, <<"}">> >>
<1> DEFINE c == IF q.error = 32801 THEN -32601 ELSE -q.error
           e == << <<"{">>, <<"error">>, <<"{">>, <<"code", c>>, <<"}">>, <<"}">> >>
           r == (<< <<"{">>, <<"result">> >> \o text) \o << <<"}">> >>
<1>1. code_conv(q.error) = c
  BY DEF code_conv
<1>2. Wrapped(q, text) = IF q.codec = "dump" THEN text
                         ELSE IF q.error # 0 THEN e ELSE IF q.pure_result THEN text ELSE r
  BY DEF Wrapped
<1> HIDE DEF c, e, r
<1>3. /\ q.codec = "dump" => Wrapped(q, text) = text
      /\ q.codec # "dump" /\ q.error = 0 /\ q.pure_result => Wrapped(q, text) = text
      /\ q.codec # "dump" /\ q.error = 0 /\ ~q.pure_result => Wrapped(q, text) = r
      /\ q.codec # "dump" /\ q.error # 0 => Wrapped(q, text) = e
  BY <1>2, SMT
<1> QED BY <1>1, <1>3, Zenon DEF e, r

(* The outermost call has returned, and the object is closed.              *)
LEMMA CompletePrints ==
  ASSUME Types, Prints, Complete, IsLegible(input)
  PROVE  Prints'
<1> DEFINE x == JsonSize(Whole)
<1>1. /\ pc = "return" /\ stack = <<>> /\ todo = 0 /\ input' = input
      /\ IF Closes THEN out' = Append(out, <<"}">>) /\ Advance(1, "done")
         ELSE pc' = (IF pos = 0 THEN "empty" ELSE "done") /\ out' = out
  BY DEF Complete
<1>2. PICK s : ReadsOn(s)
  BY <1>1 DEF Prints
<1>3. pc \in {"call", "return"}
  BY <1>1
<1>4. /\ IsReply(input) /\ stack \in Seq(Frame) /\ todo \in Nat /\ pos \in Nat /\ Size \in Nat
      /\ Reads(input, at, stack, s, pc, state, todo)
      /\ Head0 \in Seq(JsonTokens) /\ Head0Size \in Nat /\ x \in Nat /\ NumRoom \in Nat
      /\ Begin(input) \in Nat
  BY <1>2, <1>3, ReadsOnTypes
<1>5. Len(stack) = 0
  BY <1>1
<1>6. Sofar(input, at, s, "return") = Whole
  <2>1. Sofar(input, at, s, "return") = Text(input)[Final(input)]
    BY ONLY <1>1, <1>4, <1>5, IsLegible(input), PrintsTheText
  <2> QED BY <2>1 DEF Whole
<1>7. out = Head0 \o Whole /\ pos = Head0Size + x
  BY <1>1, <1>2, <1>6 DEF ReadsOn
<1>8. /\ Final(input) \in (Begin(input) - 1)..Len(input.tokens) /\ Final(input) - (Begin(input) - 1) >= 1
      /\ Begin(input) - 1 \in (Begin(input) - 1)..Len(input.tokens)
      /\ Final(input) \in 0..Len(input.tokens) /\ Begin(input) - 1 \in 0..Len(input.tokens)
  <2>1. /\ Final(input) \in Begin(input)..Len(input.tokens) /\ Final(input) \in Nat
        /\ Begin(input) \in 1..3 /\ Len(input.tokens) \in Nat
    BY ONLY <1>4, IsLegible(input), FinalToken, ReplyTokens
  <2> QED BY <1>4, <2>1
<1>9. x >= 1 /\ Whole \in Seq(TextTokens)
  <2> DEFINE y == JsonSize(Text(input)[Begin(input) - 1])
             d == Final(input) - (Begin(input) - 1)
  <2>1. y + d <= x
    <3>1. Final(input) \in (Begin(input) - 1)..Len(input.tokens)
      BY <1>8
    <3> QED BY <1>4, <1>8, <3>1, TextGrows DEF Whole
  <2>2. y \in Nat /\ Whole \in Seq(TextTokens)
    BY <1>4, <1>8, TextSteps, JsonSizeType DEF Whole
  <2>3. d \in Int /\ d >= 1
    BY <1>4, <1>8
  <2> HIDE DEF x, y, d
  <2>4. x >= 1
    BY <1>4, <2>1, <2>2, <2>3
  <2> QED BY <2>2, <2>4
<1>10. Whole' = Whole /\ (TooSmall' <=> TooSmall)
  BY <1>1, SameInput
<1>11. Whole \in Seq(JsonTokens)
  <2>1. TextTokens \subseteq JsonTokens
    BY DEF TextTokens
  <2> QED BY <1>9, <2>1
<1>12. input.error = 0
  BY DEF IsLegible
<1> HIDE DEF x
<1>13. CASE Closes
  <2>1. input.codec # "dump" /\ ~input.pure_result
    <3>1. input.codec = "reply" /\ ~input.pure_result
      BY <1>12, <1>13 DEF Closes
    <3> QED BY <3>1
  <2>2. Head0 = << <<"{">>, <<"result">> >>
    BY <1>12, <2>1 DEF Head0
  <2>3. Wrapped(input, Whole) = (Head0 \o Whole) \o << <<"}">> >>
    BY <1>12, <2>1, <2>2, WrappedIs
  <2>4. out' = Wrapped(input, Whole)
    <3>1. Head0 \o Whole \in Seq(JsonTokens)
      BY <1>4, <1>11, ConcatProperties
    <3>2. <<"}">> \in JsonTokens
      BY MarksTakeRoom DEF TextTokens
    <3>3. Append(Head0 \o Whole, <<"}">>) = (Head0 \o Whole) \o << <<"}">> >>
      BY <3>1, <3>2, AppendIsConcat
    <3> QED BY <1>1, <1>7, <1>13, <2>3, <3>3
  <2>5. Advance(1, "done")
    BY <1>1, <1>13
  <2>6. CASE pos + 1 > Size
    <3>1. pc' = "overrun"
      BY <2>5, <2>6 DEF Advance
    <3>2. Size < Head0Size + 1 + NumRoom + x
      BY <1>4, <1>7, <2>6
    <3>3. TooSmall
      BY <3>2 DEF TooSmall, x
    <3> QED BY <1>10, <3>1, <3>3 DEF Prints
  <2>7. CASE ~(pos + 1 > Size)
    <3>1. pc' = "done"
      BY <2>5, <2>7 DEF Advance
    <3>2. out' = Wrapped(input, Whole)'
      BY <1>1, <1>10, <2>4
    <3> QED BY <3>1, <3>2 DEF Prints
  <2> QED BY <2>6, <2>7
<1>14. CASE ~Closes
  <2>1. pc' = "done" /\ out' = out
    <3>1. pos # 0
      BY <1>4, <1>7, <1>9
    <3> QED BY <1>1, <1>14, <3>1
  <2>2. input.codec = "dump" \/ (input.codec = "reply" /\ input.pure_result)
    <3>1. input.codec \in {"reply", "dump"}
      BY <1>4 DEF IsReply
    <3> QED BY <1>14, <3>1 DEF Closes
  <2>3. Head0 = <<>> /\ Wrapped(input, Whole) = Whole
    <3>1. Head0 = <<>>
      BY <1>12, <2>2 DEF Head0
    <3>2. Wrapped(input, Whole) = Whole
      BY <1>12, <2>2, WrappedIs
    <3> QED BY <3>1, <3>2
  <2>4. out = Whole
    BY <1>7, <1>11, <2>3, ConcatEmptySeq
  <2>5. out' = Wrapped(input, Whole)'
    BY <1>1, <1>10, <2>1, <2>3, <2>4
  <2> QED BY <2>1, <2>5 DEF Prints
<1> QED BY <1>13, <1>14

(* What is printed of a reply that has a JSON is what it means at each step. *)
LEMMA NextPrints ==
  ASSUME Types, Prints, [Next]_vars
  PROVE  Prints'
<1>1. CASE ~IsLegible(input)
  <2>1. input' = input
    BY DEF Next, Decode, DecodeNothing, Return, NextValue, Complete, vars
  <2> QED BY <1>1, <2>1 DEF Prints
<1>2. CASE IsLegible(input)
  <2>1. CASE Decode
    BY <1>2, <2>1, DecodePrints
  <2>2. CASE DecodeNothing
    BY <1>2, <2>2, NothingIsMissed
  <2>3. CASE Return
    BY <1>2, <2>3, ReturnPrints
  <2>4. CASE NextValue
    BY <1>2, <2>4, NextValuePrints
  <2>5. CASE Complete
    BY <1>2, <2>5, CompletePrints
  <2>6. CASE UNCHANGED vars
    BY <2>6 DEF vars, Prints, ReadsOn, Whole, TooSmall, Head0, Head0Size, Size
  <2> QED BY <2>1, <2>2, <2>3, <2>4, <2>5, <2>6 DEF Next
<1> QED BY <1>1, <1>2

(* The smallest buffer has room for an error.                              *)
LEMMA ErrorsFit ==
  ASSUME IsReply(input), input.error # 0
  PROVE  Head0Size + 1 <= Size
<1>1. /\ input.bytes \in Nat \ {0} /\ input.out_multiplier \in Nat \ {0} /\ input.codec # "dump"
      /\ ErrorHead \in Nat /\ Overhead \in Nat /\ ErrorHead < Overhead
  BY RoomsAssumption DEF IsReply
<1>2. Head0Size <= ErrorHead + input.bytes
  <2>1. Head0 # <<>>
    BY <1>1 DEF Head0
  <2> QED BY <1>1, <2>1 DEF Head0Size
<1>3. \A a \in Nat, m \in Nat \ {0} : a <= a * m
  <2> TAKE a \in Nat, m \in Nat \ {0}
  <2>1. m - 1 \in Nat /\ a * (m - 1) \in Nat /\ a * m = a * (m - 1) + a
    OBVIOUS
  <2> QED BY <2>1
<1>4. input.bytes + Overhead <= Size
  <2>1. input.bytes + Overhead \in Nat
    BY <1>1
  <2> QED BY <1>1, <1>3, <2>1 DEF Size
<1>5. Head0Size \in Nat /\ Size \in Nat
  BY HeadType, SizeNat
<1> QED BY <1>1, <1>2, <1>4, <1>5

(* A token more. *)
LEMMA SixTokens ==
  ASSUME NEW a, NEW b, NEW c, NEW d, NEW e, NEW f
  PROVE  Append(<<a, b, c, d, e>>, f) = <<a, b, c, d, e, f>>
<1> DEFINE S == {a, b, c, d, e, f}
           s == <<a, b, c, d, e>>
           u == <<a, b, c, d, e, f>>
<1>1. s \in Seq(S) /\ Len(s) = 5 /\ s[1] = a /\ s[2] = b /\ s[3] = c /\ s[4] = d /\ s[5] = e
  OBVIOUS
<1>2. /\ u \in Seq(S) /\ Len(u) = 6
      /\ u[1] = a /\ u[2] = b /\ u[3] = c /\ u[4] = d /\ u[5] = e /\ u[6] = f
  OBVIOUS
<1>3. f \in S
  OBVIOUS
<1> HIDE DEF s, u, S
<1> PICK w : w = Append(s, f)
  OBVIOUS
<1>4. /\ w \in Seq(S) /\ Len(w) = 6 /\ \A i \in 1..5 : w[i] = s[i]
      /\ w[6] = f
  <2>1. /\ w \in Seq(S) /\ Len(w) = Len(s) + 1 /\ w[Len(s) + 1] = f
        /\ \A i \in 1..Len(s) : w[i] = s[i]
    <3>1. s \in Seq(S)
      BY <1>1
    <3> QED BY ONLY <3>1, <1>3, w = Append(s, f), AppendProperties
  <2>2. Len(s) + 1 = 6
    BY <1>1
  <2> QED BY <1>1, <2>1, <2>2
<1>5. \A i \in 1..6 : w[i] = u[i]
  BY <1>1, <1>2, <1>4
<1>6. w = u
  BY <1>2, <1>4, <1>5, SeqEqual
<1> QED BY <1>6 DEF s, u

(* An error is answered at once.                                           *)
LEMMA NextReports ==
  ASSUME Types, Reports, [Next]_vars
  PROVE  Reports'
<1>1. IsReply(input)
  BY DEF Types, TypeOK
<1>2. input' = input
  BY DEF Next, Decode, DecodeNothing, Return, NextValue, Complete, vars
<1> SUFFICES ASSUME input.error # 0 PROVE Reports'
  BY <1>2 DEF Reports
<1>3. /\ pc \in {"return", "done"}
      /\ pc = "return" => stack = <<>> /\ todo = 0 /\ out = Head0 /\ pos = Head0Size
      /\ pc = "done" => out = Wrapped(input, <<>>)
  BY DEF Reports
<1>4. Head0' = Head0 /\ Head0Size' = Head0Size
  BY <1>2, SameInput
<1>5. CASE Complete
  <2>1. pc = "return" /\ Closes /\ out' = Append(Head0, <<"}">>) /\ Advance(1, "done") /\ pos = Head0Size
    <3>1. Closes
      BY <1>1 DEF Closes, IsReply
    <3> QED BY <1>3, <1>5, <3>1 DEF Complete
  <2>2. pc' = "done"
    <3>1. ~(pos + 1 > Size)
      <4>1. Head0Size + 1 <= Size /\ Head0Size \in Nat /\ Size \in Nat
        BY <1>1, ErrorsFit, HeadType, SizeNat
      <4>2. pos = Head0Size
        BY <2>1
      <4> QED BY ONLY <4>1, <4>2
    <3> QED BY <2>1, <3>1 DEF Advance
  <2>3. out' = Wrapped(input, <<>>)
    <3> DEFINE c == <<"code", code_conv(input.error)>>
    <3>1. input.codec # "dump"
      BY <1>1 DEF IsReply
    <3>2. Head0 = << <<"{">>, <<"error">>, <<"{">>, c, <<"}">> >>
      BY <3>1, Zenon DEF Head0
    <3>3. Wrapped(input, <<>>) = << <<"{">>, <<"error">>, <<"{">>, c, <<"}">>, <<"}">> >>
      BY <3>1, WrappedIs
    <3> HIDE DEF c
    <3>4. Append(Head0, <<"}">>) = << <<"{">>, <<"error">>, <<"{">>, c, <<"}">>, <<"}">> >>
      BY ONLY <3>2, SixTokens
    <3> QED BY <2>1, <3>3, <3>4
  <2>4. Wrapped(input, <<>>)' = Wrapped(input, <<>>)
    BY <1>2 DEF Wrapped
  <2> QED BY <2>2, <2>3, <2>4 DEF Reports
<1>6. CASE UNCHANGED vars
  <2>1. pc' = pc /\ stack' = stack /\ todo' = todo /\ out' = out /\ pos' = pos
    BY <1>6 DEF vars
  <2>2. Wrapped(input, <<>>)' = Wrapped(input, <<>>)
    BY <1>2 DEF Wrapped
  <2> QED BY <1>3, <1>4, <2>1, <2>2 DEF Reports
<1>7. ~Decode /\ ~DecodeNothing /\ ~Return /\ ~NextValue
  BY <1>3 DEF Decode, DecodeNothing, Return, NextValue
<1> QED BY <1>5, <1>6, <1>7 DEF Next

(* So it is in every state. *)
LEMMA SpecPrints == Spec => [](Types /\ Reports /\ Prints)
<1>1. Init => Types /\ Reports /\ Prints
  BY InitTypes, InitPrints
<1>2. Types /\ Reports /\ Prints /\ [Next]_vars => Types' /\ Reports' /\ Prints'
  BY NextTypes, NextReports, NextPrints
<1> QED BY <1>1, <1>2, PTL DEF Spec

(* Whatever arrays and maps a reply of Tarantool holds and however they    *)
(* nest, its JSON is what its tokens mean, and an error is an object of    *)
(* JSON-RPC: tp2json_transcode_internal counts right what is left in each, *)
(* its flags for maps and keys serve all levels, and what is skipped or    *)
(* left out around the result is just that.                                *)
THEOREM TheReplyIsWritten == Spec => []WritesTheTokens
<1>1. Types /\ Reports /\ Prints => WritesTheTokens
  BY DEF Reports, Prints, WritesTheTokens, Whole
<1> QED BY <1>1, SpecPrints, PTL

(* A buffer with room for the answer and for the widest integer besides is *)
(* large enough: no call of tp2json_transcode_internal refuses it, nothing *)
(* is written behind its end, and the answer is not empty.                 *)
THEOREM WhatFitsIsWritten == Spec => []FitsIsWritten
<1>1. Types /\ Reports /\ Prints => FitsIsWritten
  BY DEF Reports, Prints, FitsIsWritten, TooSmall, Whole
<1> QED BY <1>1, SpecPrints, PTL
=============================================================================
