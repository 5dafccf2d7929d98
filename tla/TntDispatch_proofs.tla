-------------------------- MODULE TntDispatch_proofs --------------------------
(***************************************************************************)
(* Theorems about TntDispatch and the encoder of TntRequestData in it, for *)
(* any number of requests, any locations and settings, any buffer.         *)
(*                                                                         *)
(* The inductive invariant says of the encoder what is counted so far and  *)
(* which headers are final, of a request what its handler fixed for it,    *)
(* and of the worker whose map is being written.  On top of it, MapInv has *)
(* the keys that are in the map as a function of the step, and the list    *)
(* that is open as the pairs up to where its loop is.                      *)
(***************************************************************************)
EXTENDS TntDispatch, TLAPS

Keys == {"proto", "method", "uri", "args", "headers", "args_urlencoded", "body"}
Entry == [key : Keys, head : Int, items : Seq(Nat)]

Steps == {"idle", "line", "args", "arg", "headers", "header", "form", "field", "body",
          "done", "error", "overrun"}

(* The encoder's variables, without what is announced. *)
EncoderType ==
  /\ step \in Steps
  /\ data \in Seq(Entry)
  /\ root_head \in Int
  /\ {root_items, map_items, at, used} \subseteq Nat
  /\ root_items = Len(data)

Closed(n) == \A i \in 1..n : Announced(data[i])

(* An open list: everything before it is final, and what is counted stands *)
(* in it.                                                                  *)
OpenList(key) ==
  /\ Len(data) > 0
  /\ data[Len(data)].key = key
  /\ Closed(Len(data) - 1)
  /\ \/ map_items = Len(data[Len(data)].items)
     \/ key = "args_urlencoded" /\ used >= BufSize

Counted ==
  /\ step = "arg" => OpenList("args")
  /\ step = "header" => OpenList("headers")
  /\ step = "field" => OpenList("args_urlencoded")
  /\ step \in {"args", "headers", "form", "body", "done"} => Closed(Len(data))
  /\ step = "line" => data = <<>>
  /\ step = "done" => root_head = Len(data)

EncoderInv == EncoderType /\ Counted

(* What the encoder does to its entries keeps their type.                  *)
LEMMA EntryTypes ==
  /\ \A k \in Keys : Scalar(k) \in Entry
  /\ \A e \in Entry, n \in Nat : WithHead(e, n) \in Entry
  /\ \A e \in Entry, n \in Nat : WithItem(e, n) \in Entry
BY DEF Entry, Scalar, WithHead, WithItem

(* What is final stays so: only used enters into it, and it never falls.   *)
LEMMA AnnouncedStays ==
  ASSUME EncoderType, used' \in Nat, used' >= used, data' \in Seq(Entry),
         NEW i \in 1..Len(data), Announced(data[i]),
         i \in 1..Len(data'), data'[i] = data[i]
  PROVE  Announced(data[i])'
BY BufSizeAssumption DEF EncoderType, Announced, Entry

(* Nothing but step changes.                                               *)
LEMMA GotoKeeps ==
  ASSUME EncoderType, NEW next \in Steps, Goto(next)
  PROVE  /\ EncoderType' /\ step' = next
         /\ Closed(Len(data)) => Closed(Len(data))'
<1>1. EncoderType'
  BY DEF EncoderType, Goto
<1>2. ASSUME Closed(Len(data)) PROVE Closed(Len(data))'
  BY <1>2 DEF Closed, Goto, Announced
<1> QED BY <1>1, <1>2 DEF Goto

(* A list that is opened is empty, behind what is final.                   *)
LEMMA OpenOpens ==
  ASSUME EncoderType, Closed(Len(data)), NEW key \in Keys, NEW next \in Steps,
         Open(key, next)
  PROVE  /\ EncoderType'
         /\ \/ step' = "error"
            \/ step' \in {next, "overrun"} /\ OpenList(key)'
<1> USE BufSizeAssumption
<1>1. CASE ~Fits(1)
  BY <1>1, GotoKeeps DEF Open, Goto, Steps
<1>2. CASE Fits(1)
  <2>1. /\ data' = Append(data, Scalar(key))
        /\ root_items' = root_items + 1 /\ map_items' = 0 /\ at' = 0
        /\ used' = used + 2 /\ root_head' = root_head
        /\ step' \in {next, "overrun"}
    BY <1>2 DEF Open, Slot
  <2>2. Scalar(key) \in Entry
    BY EntryTypes
  <2>3. /\ data' \in Seq(Entry) /\ Len(data') = Len(data) + 1
        /\ \A i \in 1..Len(data) : data'[i] = data[i]
        /\ data'[Len(data')] = Scalar(key)
    BY <2>1, <2>2 DEF EncoderType
  <2>4. EncoderType'
    BY <2>1, <2>3 DEF EncoderType, Steps
  <2>5. \A i \in 1..Len(data) : Announced(data[i])'
    BY <2>1, <2>3, AnnouncedStays DEF EncoderType, Closed
  <2>6. OpenList(key)'
    BY <2>1, <2>3, <2>5 DEF OpenList, Closed, Scalar, EncoderType
  <2> QED BY <2>1, <2>4, <2>6
<1> QED BY <1>1, <1>2

(* A list that is closed is final.                                         *)
LEMMA CloseCloses ==
  ASSUME EncoderType, NEW key \in {"args", "headers", "args_urlencoded"},
         OpenList(key), NEW next \in Steps, Close(next)
  PROVE  EncoderType' /\ Closed(Len(data))' /\ step' = next
<1> USE BufSizeAssumption
<1>1. /\ step' = next /\ UNCHANGED <<root_head, root_items, map_items, at, used>>
      /\ data' = [data EXCEPT ![Len(data)] = WithHead(data[Len(data)], map_items)]
  BY DEF Close
<1>2. Len(data) \in 1..Len(data) /\ data[Len(data)] \in Entry /\ map_items \in Nat
  BY DEF OpenList, EncoderType
<1>3. WithHead(data[Len(data)], map_items) \in Entry
  BY <1>2, EntryTypes
<1>4. /\ data' \in Seq(Entry) /\ Len(data') = Len(data)
      /\ \A i \in 1..(Len(data) - 1) : data'[i] = data[i]
      /\ data'[Len(data)] = WithHead(data[Len(data)], map_items)
  BY <1>1, <1>2, <1>3 DEF EncoderType
<1>5. EncoderType'
  BY <1>1, <1>4 DEF EncoderType
<1>6. \A i \in 1..(Len(data) - 1) : Announced(data[i])'
  BY <1>1, <1>2, <1>4, AnnouncedStays DEF EncoderType, OpenList, Closed
<1>7. ASSUME NEW i \in 1..Len(data), i = Len(data) PROVE Announced(data[i])'
  <2>1. /\ data'[i].head = map_items
        /\ data'[i].key = key
        /\ data'[i].items = data[i].items
    BY <1>2, <1>4, <1>7 DEF OpenList, WithHead
  <2>2. map_items = Len(data[i].items) \/ (key = "args_urlencoded" /\ used >= BufSize)
    BY <1>7 DEF OpenList
  <2> QED BY <1>1, <2>1, <2>2 DEF Announced
<1>8. \A i \in 1..Len(data) : Announced(data[i])'
  BY <1>2, <1>6, <1>7 DEF EncoderType
<1>9. Closed(Len(data))'
  BY <1>4, <1>8 DEF Closed, Announced
<1> QED BY <1>1, <1>5, <1>9

(* An item is counted and written, or there is no room for it.             *)
LEMMA ItemCounts ==
  ASSUME EncoderType, NEW key \in {"args", "headers", "args_urlencoded"},
         OpenList(key), NEW n \in Nat \ {0}, Item(n), step \in Steps
  PROVE  EncoderType' /\ (step' = "error" \/ (step' = step /\ OpenList(key)'))
<1> USE BufSizeAssumption
<1>1. CASE ~Fits(n)
  BY <1>1, GotoKeeps DEF Item, Goto, Steps
<1>2. CASE Fits(n)
  <2>1. /\ step' = step /\ UNCHANGED <<root_head, root_items>>
        /\ map_items' = map_items + 1 /\ used' = used + n /\ at' = at + 1
        /\ data' = [data EXCEPT ![Len(data)] = WithItem(data[Len(data)], at + 1)]
    BY <1>2 DEF Item
  <2>2. Len(data) \in 1..Len(data) /\ data[Len(data)] \in Entry /\ at + 1 \in Nat
    BY DEF OpenList, EncoderType
  <2>3. WithItem(data[Len(data)], at + 1) \in Entry
    BY <2>2, EntryTypes
  <2>4. /\ data' \in Seq(Entry) /\ Len(data') = Len(data)
        /\ \A i \in 1..(Len(data) - 1) : data'[i] = data[i]
        /\ data'[Len(data)] = WithItem(data[Len(data)], at + 1)
    BY <2>1, <2>2, <2>3 DEF EncoderType
  <2>5. EncoderType'
    BY <2>1, <2>4 DEF EncoderType
  <2>6. \A i \in 1..(Len(data) - 1) : Announced(data[i])'
    <3>1. used \in Nat /\ used' = used + n
      BY <2>1 DEF EncoderType
    <3>2. used' \in Nat /\ used' >= used
      BY <3>1
    <3> TAKE i \in 1..(Len(data) - 1)
    <3>3. i \in 1..Len(data) /\ i \in 1..Len(data') /\ data'[i] = data[i]
      BY <2>2, <2>4
    <3>4. Announced(data[i])
      BY DEF OpenList, Closed
    <3> QED BY <2>4, <3>2, <3>3, <3>4, AnnouncedStays
  <2>7. /\ data'[Len(data)].key = key
        /\ Len(data'[Len(data)].items) = Len(data[Len(data)].items) + 1
    BY <2>2, <2>4 DEF OpenList, WithItem, Entry
  <2>8. map_items = Len(data[Len(data)].items)
    BY <1>2 DEF Fits, OpenList, EncoderType
  <2>9. Closed(Len(data) - 1)'
    BY <2>4, <2>6 DEF Closed, Announced
  <2> QED BY <2>1, <2>2, <2>4, <2>5, <2>7, <2>8, <2>9 DEF OpenList, EncoderType
<1> QED BY <1>1, <1>2

(* An element that is passed over changes nothing that is counted.         *)
LEMMA SkipKeeps ==
  ASSUME EncoderType, NEW key \in {"args", "headers", "args_urlencoded"},
         OpenList(key), SkipItem
  PROVE  EncoderType' /\ step' = step /\ OpenList(key)'
BY DEF EncoderType, OpenList, SkipItem, Closed, Announced

(* The encoder's steps keep its invariant.                                 *)
LEMMA EncodeCounts ==
  ASSUME EncoderInv, Encode
  PROVE  EncoderInv'
<1> USE BufSizeAssumption
<1>0. EncoderType /\ Counted /\ step \in Steps
  BY DEF EncoderInv, EncoderType
<1>1. CASE EncodeLine
  <2>1. CASE Fits(1) /\ ~Fits(7)
    BY <1>0, <1>1, <2>1, GotoKeeps DEF EncodeLine, Steps, Counted, EncoderInv
  <2>2. CASE ~(Fits(1) /\ ~Fits(7))
    <3>1. /\ data' = <<Scalar("proto"), Scalar("method"), Scalar("uri")>>
          /\ root_items' = 3 /\ used' = used + 7 /\ step' \in {"args", "overrun"}
          /\ UNCHANGED <<root_head, map_items, at>>
      BY <1>1, <2>2 DEF EncodeLine, Slot
    <3>2. /\ Scalar("proto") \in Entry /\ Scalar("method") \in Entry
          /\ Scalar("uri") \in Entry
      BY EntryTypes DEF Keys
    <3>3. EncoderType'
      BY <1>0, <3>1, <3>2 DEF EncoderType, Steps
    <3>4. Closed(Len(data))'
      BY <3>1 DEF Closed, Announced, Scalar
    <3> QED BY <3>1, <3>3, <3>4 DEF EncoderInv, Counted
  <2> QED BY <2>1, <2>2
<1>2. CASE BeginArgs
  BY <1>0, <1>2, OpenOpens, GotoKeeps DEF BeginArgs, Counted, EncoderInv, Steps, Keys
<1>3. CASE EncodeArg
  BY <1>0, <1>3, ItemCounts, SkipKeeps DEF EncodeArg, Counted, EncoderInv
<1>4. CASE EndArgs
  BY <1>0, <1>4, CloseCloses DEF EndArgs, Counted, EncoderInv, Steps
<1>5. CASE BeginHeaders
  BY <1>0, <1>5, OpenOpens DEF BeginHeaders, Counted, EncoderInv, Steps, Keys
<1>6. CASE EncodeHeader
  BY <1>0, <1>6, ItemCounts DEF EncodeHeader, Counted, EncoderInv
<1>7. CASE EndHeaders
  BY <1>0, <1>7, CloseCloses DEF EndHeaders, Counted, EncoderInv, Steps
<1>8. CASE BeginForm
  BY <1>0, <1>8, OpenOpens, GotoKeeps DEF BeginForm, Counted, EncoderInv, Steps, Keys
<1>9. CASE EncodeField
  <2>1. CASE http.form[at + 1] = "pair" /\ ~Fits(1)
    <3>1. /\ map_items' = map_items + 1 /\ at' = at + 1 /\ used >= BufSize
          /\ UNCHANGED <<step, data, root_head, root_items, used>>
      BY <1>0, <1>9, <2>1 DEF EncodeField, Fits, EncoderType
    <3> QED BY <1>0, <1>9, <3>1
            DEF EncodeField, EncoderInv, EncoderType, Counted, OpenList, Closed, Announced
  <2>2. CASE ~(http.form[at + 1] = "pair" /\ ~Fits(1))
    BY <1>0, <1>9, <2>2, ItemCounts, SkipKeeps DEF EncodeField, Counted, EncoderInv
  <2> QED BY <2>1, <2>2
<1>10. CASE EndForm
  BY <1>0, <1>10, CloseCloses DEF EndForm, Counted, EncoderInv, Steps
<1>11. CASE EncodeBody
  <2>1. CASE ~("PASS_BODY" \in http.flags /\ http.body)
    BY <1>0, <1>11, <2>1
       DEF EncodeBody, EncoderInv, EncoderType, Counted, Closed, Announced, Steps
  <2>2. CASE /\ "PASS_BODY" \in http.flags /\ http.body
             /\ http.in_file \/ ~Fits(2)
    BY <1>0, <1>11, <2>2, GotoKeeps DEF EncodeBody, Counted, EncoderInv, Steps
  <2>3. CASE /\ "PASS_BODY" \in http.flags /\ http.body
             /\ ~(http.in_file \/ ~Fits(2))
    <3>1. /\ data' = Append(data, Scalar("body")) /\ root_items' = root_items + 1
          /\ step' = "done" /\ used' = used + 2 /\ root_head' = root_items + 1
          /\ UNCHANGED <<map_items, at>> /\ step = "body"
      BY <1>11, <2>3 DEF EncodeBody
    <3>2. Scalar("body") \in Entry
      BY EntryTypes DEF Keys
    <3>3. /\ data' \in Seq(Entry) /\ Len(data') = Len(data) + 1
          /\ \A i \in 1..Len(data) : data'[i] = data[i]
          /\ data'[Len(data) + 1] = Scalar("body")
      BY <1>0, <3>1, <3>2 DEF EncoderType
    <3>4. EncoderType'
      BY <1>0, <3>1, <3>3 DEF EncoderType, Steps
    <3>5. \A i \in 1..Len(data) : Announced(data[i])'
      BY <1>0, <3>1, <3>3, AnnouncedStays DEF EncoderType, Closed, Counted
    <3>6. ASSUME NEW i \in 1..Len(data'), i = Len(data) + 1 PROVE Announced(data[i])'
      BY <3>3, <3>6 DEF Announced, Scalar
    <3>7. Closed(Len(data))'
      <4>1. \A i \in 1..Len(data') : i \in 1..Len(data) \/ i = Len(data) + 1
        BY <1>0, <3>3 DEF EncoderType
      <4> QED BY <3>5, <3>6, <4>1 DEF Closed
    <3> QED BY <1>0, <3>1, <3>3, <3>4, <3>7 DEF EncoderInv, Counted, EncoderType
  <2> QED BY <2>1, <2>2, <2>3
<1> QED
  BY <1>1, <1>2, <1>3, <1>4, <1>5, <1>6, <1>7, <1>8, <1>9, <1>10, <1>11 DEF Encode

(* Why the encoder gave up, and which parts of a body are in the map.      *)
Passed ==
  /\ step = "error" => http.in_file \/ ~Fits(7)
  /\ ( step \in {"field", "body", "done"} /\ http.body
       /\ "PARSE_URLENCODED" \in http.flags ) => HasKey(data, "args_urlencoded")
  /\ ( step = "done" /\ http.body
       /\ "PASS_BODY" \in http.flags ) => HasKey(data, "body")

(* No entry of the map is ever taken back.                                 *)
LEMMA KeysStay ==
  ASSUME EncoderInv, Encode, NEW key, HasKey(data, key)
  PROVE  HasKey(data, key)'
<1>1. PICK i \in 1..Len(data) : data[i].key = key
  BY DEF HasKey
<1>2. /\ data \in Seq(Entry) /\ EncoderInv' /\ data' \in Seq(Entry) /\ map_items \in Nat
      /\ at \in Nat
  BY EncodeCounts DEF EncoderInv, EncoderType
<1>3. step # "line"
  BY <1>1 DEF EncoderInv, Counted
<1>4. CASE UNCHANGED data
  BY <1>1, <1>4 DEF HasKey
<1>5. ASSUME NEW k, data' = Append(data, Scalar(k)) PROVE HasKey(data, key)'
  BY <1>1, <1>2, <1>5 DEF HasKey
<1>6. CASE data' = [data EXCEPT ![Len(data)] = WithHead(data[Len(data)], map_items)]
  <2>1. Len(data') = Len(data) /\ data'[i].key = key
    BY <1>1, <1>2, <1>6 DEF WithHead
  <2> QED BY <1>1, <2>1 DEF HasKey
<1>7. CASE data' = [data EXCEPT ![Len(data)] = WithItem(data[Len(data)], at + 1)]
  <2>1. Len(data') = Len(data) /\ data'[i].key = key
    BY <1>1, <1>2, <1>7 DEF WithItem
  <2> QED BY <1>1, <2>1 DEF HasKey
<1> QED
  BY <1>3, <1>4, <1>5, <1>6, <1>7
     DEF Encode, EncodeLine, BeginArgs, EncodeArg, EndArgs, BeginHeaders, EncodeHeader,
         EndHeaders, BeginForm, EncodeField, EndForm, EncodeBody, Open, Close, Item,
         SkipItem, Goto

(* The encoder's steps keep Passed.                                        *)
LEMMA EncodePasses ==
  ASSUME EncoderInv, Passed, Encode
  PROVE  Passed'
<1> USE BufSizeAssumption
<1>1. /\ EncoderInv' /\ http' = http /\ used \in Nat /\ used' \in Nat /\ step \in Steps
      /\ data \in Seq(Entry) /\ data' \in Seq(Entry)
  BY EncodeCounts DEF EncoderInv, EncoderType, Encode
<1>2. ASSUME step' = "error" PROVE http.in_file \/ ~Fits(7)'
  <2>0. ASSUME used' = used, NEW n \in 1..7, ~Fits(n) PROVE ~Fits(7)'
    BY <1>1, <2>0 DEF Fits
  <2>1. CASE EncodeLine
    BY <1>2, <2>0, <2>1 DEF EncodeLine, Goto, Slot
  <2>2. CASE BeginArgs \/ BeginHeaders
    BY <1>2, <2>0, <2>2 DEF BeginArgs, BeginHeaders, Open, Goto, Slot
  <2>3. CASE BeginForm
    BY <1>2, <2>0, <2>3 DEF BeginForm, Open, Goto, Slot
  <2>4. CASE EncodeArg \/ EncodeHeader \/ EncodeField
    <3>1. step # "error"
      BY <2>4 DEF EncodeArg, EncodeHeader, EncodeField
    <3>2. PICK n \in 1..7 : Item(n)
      BY <1>2, <2>4, <3>1 DEF EncodeArg, EncodeHeader, EncodeField, SkipItem
    <3> QED BY <1>2, <2>0, <3>1, <3>2 DEF Item, Goto
  <2>5. CASE EndArgs \/ EndHeaders \/ EndForm
    BY <1>2, <2>5 DEF EndArgs, EndHeaders, EndForm, Close
  <2>6. CASE EncodeBody
    <3>1. http.in_file \/ (~Fits(2) /\ used' = used)
      BY <1>2, <2>6 DEF EncodeBody, Goto
    <3> QED BY <2>0, <3>1
  <2> QED BY <2>1, <2>2, <2>3, <2>4, <2>5, <2>6 DEF Encode
<1>3. ASSUME step' \in {"field", "body", "done"}, http.body,
             "PARSE_URLENCODED" \in http.flags
      PROVE  HasKey(data, "args_urlencoded")'
  <2>1. CASE step \in {"field", "body", "done"}
    BY <1>3, <2>1, KeysStay DEF Passed
  <2>2. CASE step \notin {"field", "body", "done"}
    <3>1. BeginForm /\ data' = Append(data, Scalar("args_urlencoded"))
      BY <1>1, <1>3, <2>2
         DEF Encode, EncodeLine, BeginArgs, EncodeArg, EndArgs, BeginHeaders, EncodeHeader,
             EndHeaders, BeginForm, EncodeField, EndForm, EncodeBody, Open, Close, Item,
             SkipItem, Goto, Slot
    <3>2. Len(data') = Len(data) + 1 /\ data'[Len(data) + 1] = Scalar("args_urlencoded")
      BY <1>1, <3>1
    <3> QED BY <1>1, <3>2 DEF HasKey, Scalar
  <2> QED BY <2>1, <2>2
<1>4. ASSUME step' = "done", http.body, "PASS_BODY" \in http.flags
      PROVE  HasKey(data, "body")'
  <2>1. EncodeBody /\ data' = Append(data, Scalar("body"))
    BY <1>1, <1>4
       DEF Encode, EncodeLine, BeginArgs, EncodeArg, EndArgs, BeginHeaders, EncodeHeader,
           EndHeaders, BeginForm, EncodeField, EndForm, EncodeBody, Open, Close, Item,
           SkipItem, Goto, Slot, Steps
  <2>2. Len(data') = Len(data) + 1 /\ data'[Len(data) + 1] = Scalar("body")
    BY <1>1, <2>1
  <2> QED BY <1>1, <2>2 DEF HasKey, Scalar
<1> QED BY <1>1, <1>2, <1>3, <1>4 DEF Passed, Fits

-----------------------------------------------------------------------------
(* What the configuration of a location is, nested or not.                 *)
LEMMA ConfOfLocation ==
  ASSUME NEW l \in Locations
  PROVE  /\ Conf[l].method = "set" <=> MethodIsSet(l)
         /\ Conf[l].http_methods \subseteq AllowedMethods
         /\ Conf[l].http_rest_methods \subseteq AllowedMethods
<1>1. IsRaw(raw[l]) /\ (raw[l].outer # Unset => IsRaw(raw[raw[l].outer]))
  BY LocationsAssumption DEF IsRaw
<1>2. Conf[l] = IF raw[l].outer = Unset THEN Merge(Server, raw[l])
                ELSE Merge(Merge(Server, raw[raw[l].outer]), raw[l])
  BY DEF Conf
<1>3. CASE raw[l].outer = Unset
  BY <1>1, <1>2, <1>3
     DEF Merge, MergePtr, MergeMask, Server, IsRaw, MethodIsSet, AllowedMethods, Unset
<1>4. CASE raw[l].outer # Unset
  <2> DEFINE o == raw[raw[l].outer]
             c == Merge(Server, o)
  <2>1. /\ c.method = o.method
        /\ c.http_methods \subseteq AllowedMethods
        /\ c.http_rest_methods \subseteq AllowedMethods
    BY <1>1, <1>4
       DEF Merge, MergePtr, MergeMask, Server, IsRaw, AllowedMethods, Unset
  <2>2. Conf[l] = Merge(c, raw[l])
    BY <1>2, <1>4
  <2> HIDE DEF c
  <2> QED BY <1>1, <1>4, <2>1, <2>2
          DEF Merge, MergePtr, MergeMask, IsRaw, MethodIsSet, AllowedMethods, Unset
<1> QED BY <1>3, <1>4

(* What the handler has fixed for a request that it accepted.              *)
Accepted(r) ==
  /\ preset_method[r] = OwnName(reqs[r])
  /\ create_request[r] = init_handlers(reqs[r])
  /\ Listed(reqs[r])

(* What the encoder writes is the running request's.                       *)
Running ==
  running # Nobody =>
    /\ http.flags = Flags(running)
    /\ http.body = reqs[running].length
    /\ \/ create_request[running] = "query"
       \/ create_request[running] = "body" /\ "ON" \in Flags(running)

Named(r) ==
  result[r].method =
    IF OwnName(reqs[r]) = <<>> /\ ReadsJson(reqs[r]) THEN <<"in JSON">>
    ELSE OwnName(reqs[r])

Served(r) ==
  ( /\ reqs[r].length
    /\ "PARSE_URLENCODED" \in Flags(r) => Flags(r) \cap {"ON", "PASS_BODY"} # {} )
  => \/ result[r].body
     \/ HasKey(result[r].data, "body")
     \/ HasKey(result[r].data, "args_urlencoded")

(* What became of a request. *)
Outcome(r) ==
  LET q == reqs[r]
  IN  /\ result[r].kind = "call" => Named(r) /\ Served(r)
      /\ result[r].kind \notin {"none", "refused"} => Listed(q)
      /\ result[r].kind = "refused" =>
           \/ ~Listed(q)
           \/ Conf[q.loc].req_type = "dml" /\ q.content_type = "other"
           \/ q.uri = <<>> /\ ~(MethodIsSet(q.loc) /\ q.method # <<>>)
      /\ result[r].kind = "too large" => q.length /\ in_file[r]
      /\ result[r].kind = "parse failed" => q.length /\ q.body = "bad"

(* A location without tnt_method never gets a name. *)
MethodsInv == \A l \in Locations : ~MethodIsSet(l) => method[l] = <<>>

IInv ==
  /\ TypeOK /\ DOMAIN result = R
  /\ EncoderInv /\ Passed /\ Running /\ MethodsInv
  /\ \A r \in R : pc[r] \in {"reading", "ready", "encoding"} => Accepted(r)
  /\ \A r \in R : Outcome(r)

(* The invariant holds at first. *)
LEMMA InitIInv == Init => IInv
<1> SUFFICES ASSUME Init PROVE IInv
  OBVIOUS
<1> USE NobodyAssumption, BufSizeAssumption DEF Init
<1>1. DOMAIN reqs = R /\ \A r \in R : IsHttpRequest(reqs[r])
  BY TrafficAssumption
<1>2. TypeOK /\ DOMAIN result = R
  BY <1>1 DEF TypeOK, NoResult, Nobody, IsHttp, IsHttpRequest
<1>3. EncoderInv /\ Passed
  BY DEF EncoderIdle, EncoderInv, EncoderType, Steps, Counted, Passed
<1>4. Running /\ MethodsInv
  BY DEF Running, Nobody, MethodsInv
<1>5. \A r \in R : pc[r] = "new" /\ Outcome(r)
  BY DEF Outcome, NoResult
<1> QED BY <1>2, <1>3, <1>4, <1>5 DEF IInv

(* Where the encoder does nothing its invariants stay.                     *)
LEMMA EncoderStutters ==
  ASSUME EncoderInv, Passed, UNCHANGED encoderVars
  PROVE  EncoderInv' /\ Passed'
BY DEF encoderVars, EncoderInv, EncoderType, Counted, OpenList, Closed, Announced, Passed,
       HasKey, Fits

(* An outcome depends on the request, its result and its body's place.     *)
LEMMA OutcomeStays ==
  ASSUME NEW r, Outcome(r), UNCHANGED reqs, result'[r] = result[r], in_file'[r] = in_file[r]
  PROVE  Outcome(r)'
BY DEF Outcome, Named, Served, Flags, HasKey, Listed

(* What the handler reads in the location's configuration is the value it  *)
(* has just stored there, or nothing.                                      *)
LEMMA NameOfRequest ==
  ASSUME NEW q, IsHttpRequest(q), MethodsInv, DOMAIN method = Locations,
         method' = Evaluated(q)
  PROVE  /\ method'[q.loc] = IF MethodIsSet(q.loc) THEN q.method ELSE <<>>
         /\ set_method(q, method'[q.loc]) = OwnName(q)
         /\ MethodsInv' /\ DOMAIN method' = Locations
<1>1. q.loc \in Locations
  BY DEF IsHttpRequest
<1>2. Conf[q.loc].method = "set" <=> MethodIsSet(q.loc)
  BY <1>1, ConfOfLocation
<1>3. method'[q.loc] = IF MethodIsSet(q.loc) THEN q.method ELSE <<>>
  BY <1>1, <1>2 DEF Evaluated, MethodsInv
<1>4. MethodsInv' /\ DOMAIN method' = Locations
  BY <1>1, <1>2 DEF Evaluated, MethodsInv, MethodIsSet
<1>5. set_method(q, method'[q.loc]) = OwnName(q)
  BY <1>3 DEF set_method, OwnName
<1> QED BY <1>3, <1>4, <1>5

(* ngx_http_tnt_handler keeps the invariant.                               *)
LEMMA HandlerKeeps ==
  ASSUME IInv, running = Nobody, NEW r \in R, Handler(r)
  PROVE  IInv'
<1> DEFINE q == reqs[r]
<1>1. /\ pc[r] = "new" /\ method' = Evaluated(q) /\ process_headers(r)
      /\ UNCHANGED <<reqs, in_file, running>> /\ UNCHANGED encoderVars
  BY DEF Handler
<1>2. /\ TypeOK /\ DOMAIN result = R /\ IsHttpRequest(q) /\ MethodsInv
      /\ DOMAIN method = Locations /\ Outcome(r)
      /\ \A s \in R : pc[s] \in {"reading", "ready", "encoding"} => Accepted(s)
  BY DEF IInv, TypeOK
<1>3. /\ method'[q.loc] = IF MethodIsSet(q.loc) THEN q.method ELSE <<>>
      /\ set_method(q, method'[q.loc]) = OwnName(q)
      /\ MethodsInv' /\ DOMAIN method' = Locations
  BY <1>1, <1>2, NameOfRequest
<1>4. EncoderInv' /\ Passed' /\ Running'
  BY <1>1, EncoderStutters DEF IInv, Running
<1>5. headers_in' \in [R -> Nat]
  <2>1. Conf[q.loc].headers \in Nat
    BY <1>2, LocationsAssumption DEF Conf, Merge, Server, IsRaw, IsHttpRequest
  <2> QED BY <1>1, <1>2, <2>1 DEF process_headers, TypeOK
<1>6. CASE Refuse(r)
  <2>1. /\ NotAllowed(q, method'[q.loc])
        /\ result' = [result EXCEPT ![r] = [NoResult EXCEPT !.kind = "refused"]]
        /\ pc' = [pc EXCEPT ![r] = "end"] /\ UNCHANGED <<preset_method, create_request>>
    BY <1>6 DEF Refuse, Ends
  <2>2. TypeOK' /\ DOMAIN result' = R
    BY <1>1, <1>2, <1>3, <1>5, <2>1 DEF TypeOK, NoResult, Nobody
  <2>3. \A s \in R : s # r => Outcome(s)'
    BY <1>1, <1>2, <2>1, OutcomeStays DEF IInv
  <2>4. Outcome(r)'
    <3>1. /\ result'[r].kind = "refused" /\ reqs' = reqs
      BY <1>1, <1>2, <2>1 DEF NoResult
    <3>2. \/ ~Listed(q)
          \/ Conf[q.loc].req_type = "dml" /\ q.content_type = "other"
          \/ q.uri = <<>> /\ ~(MethodIsSet(q.loc) /\ q.method # <<>>)
      BY <1>2, <1>3, <2>1, ConfOfLocation DEF NotAllowed, Listed, IsHttpRequest
    <3> QED BY <3>1, <3>2 DEF Outcome, Listed
  <2>5. \A s \in R : pc'[s] \in {"reading", "ready", "encoding"} => Accepted(s)'
    BY <1>1, <1>2, <2>1 DEF TypeOK, Accepted, Listed
  <2> QED BY <1>3, <1>4, <2>2, <2>3, <2>4, <2>5 DEF IInv
<1>7. CASE Accept(r)
  <2>1. /\ ~NotAllowed(q, method'[q.loc])
        /\ preset_method' = [preset_method EXCEPT ![r] = set_method(q, method'[q.loc])]
        /\ create_request' = [create_request EXCEPT ![r] = init_handlers(q)]
        /\ pc' = [pc EXCEPT ![r] = "reading"] /\ UNCHANGED result
    BY <1>7 DEF Accept
  <2>2. TypeOK' /\ DOMAIN result' = R
    BY <1>1, <1>2, <1>3, <1>5, <2>1 DEF TypeOK, init_handlers, Nobody
  <2>3. \A s \in R : Outcome(s)'
    BY <1>1, <2>1, OutcomeStays DEF IInv
  <2>4. Accepted(r)'
    BY <1>1, <1>2, <1>3, <2>1 DEF TypeOK, Accepted, Listed, NotAllowed
  <2>5. \A s \in R : pc'[s] \in {"reading", "ready", "encoding"} => Accepted(s)'
    BY <1>1, <1>2, <2>1, <2>4 DEF TypeOK, Accepted, Listed
  <2> QED BY <1>3, <1>4, <2>2, <2>3, <2>5 DEF IInv
<1> QED BY <1>6, <1>7 DEF Handler

(* Reading a body moves one request, to a place where it has no outcome.   *)
LEMMA ReadBodyKeeps ==
  ASSUME IInv, running = Nobody, NEW r \in R, ReadBody(r)
  PROVE  IInv'
<1>1. /\ pc[r] = "reading" /\ pc' = [pc EXCEPT ![r] = "ready"]
      /\ \E f \in {FALSE, reqs[r].body # "none"} : in_file' = [in_file EXCEPT ![r] = f]
      /\ UNCHANGED <<reqs, method, headers_in, preset_method, create_request, result,
                     running>>
      /\ UNCHANGED encoderVars
  BY DEF ReadBody
<1>2. /\ TypeOK /\ DOMAIN result = R /\ EncoderInv /\ Passed /\ Running /\ MethodsInv
      /\ \A s \in R : pc[s] \in {"reading", "ready", "encoding"} => Accepted(s)
      /\ \A s \in R : Outcome(s)
  BY DEF IInv
<1>3. TypeOK'
  <2>1. pc' \in [R -> {"new", "reading", "ready", "encoding", "end"}]
    BY <1>1, <1>2 DEF TypeOK
  <2>2. in_file' \in [R -> BOOLEAN]
    <3>1. PICK f \in {FALSE, reqs[r].body # "none"} : in_file' = [in_file EXCEPT ![r] = f]
      BY <1>1
    <3>2. f \in BOOLEAN
      OBVIOUS
    <3> QED BY <1>2, <3>1, <3>2 DEF TypeOK
  <2>3. /\ \A s \in R : pc'[s] = "encoding" <=> pc[s] = "encoding"
        /\ \A s \in R : pc'[s] = "end" <=> pc[s] = "end"
    BY <1>1, <1>2 DEF TypeOK
  <2> QED BY <1>1, <1>2, <2>1, <2>2, <2>3 DEF TypeOK
<1>4. EncoderInv' /\ Passed' /\ Running' /\ MethodsInv'
  BY <1>1, <1>2, EncoderStutters DEF Running, MethodsInv
<1>5. \A s \in R : pc'[s] \in {"reading", "ready", "encoding"} => Accepted(s)'
  BY <1>1, <1>2 DEF TypeOK, Accepted, Listed
<1>6. \A s \in R : s # r => Outcome(s)'
  <2> TAKE s \in R
  <2> HAVE s # r
  <2>1. in_file'[s] = in_file[s] /\ result' = result /\ reqs' = reqs
    BY <1>1, <1>2 DEF TypeOK
  <2> QED BY <1>2, <2>1, OutcomeStays
<1>7. Outcome(r)'
  BY <1>1, <1>2 DEF TypeOK, Outcome
<1> QED BY <1>1, <1>2, <1>3, <1>4, <1>5, <1>6, <1>7 DEF IInv

(* What body_handler makes of a body, with a map or without.               *)
LEMMA TranscodeServes ==
  ASSUME IInv, NEW r \in R, Accepted(r), create_request[r] = "body", NEW bound,
         "ON" \in Flags(r) /\ "PARSE_URLENCODED" \in Flags(r)
           => HasKey(bound, "args_urlencoded"),
         Transcode(r, bound), UNCHANGED <<reqs, in_file>>
  PROVE  /\ Outcome(r)' /\ result'[r].kind # "none"
         /\ \E res : Ends(r, res)
<1> DEFINE q == reqs[r]
           F == Flags(r)
           res == IF "PARSE_URLENCODED" \in F
                    THEN [kind |-> "call", method |-> CallName(r), data |-> bound,
                          body |-> FALSE]
                  ELSE IF in_file[r] THEN [NoResult EXCEPT !.kind = "too large"]
                  ELSE IF q.body = "bad" THEN [NoResult EXCEPT !.kind = "parse failed"]
                  ELSE [kind |-> "call", data |-> bound, body |-> TRUE,
                        method |-> IF CallName(r) = <<>> THEN <<"in JSON">>
                                   ELSE CallName(r)]
<1>1. Ends(r, res)
  BY DEF Transcode
<1>2. q.length /\ "PASS_BODY" \notin F /\ Listed(q) /\ CallName(r) = OwnName(q)
  BY DEF Accepted, init_handlers, Flags, CallName
<1>3. ReadsJson(q) <=> "PARSE_URLENCODED" \notin F
  BY <1>2 DEF ReadsJson, Flags
<1>4. result'[r] = res /\ reqs' = reqs /\ in_file' = in_file
  BY <1>1 DEF Ends, IInv
<1>5. CASE "PARSE_URLENCODED" \in F
  <2>1. /\ result'[r].kind = "call" /\ result'[r].method = OwnName(q)
        /\ result'[r].data = bound
    BY <1>2, <1>4, <1>5
  <2>2. Named(r)'
    BY <1>3, <1>4, <1>5, <2>1 DEF Named
  <2>3. Served(r)'
    BY <1>2, <1>4, <1>5, <2>1 DEF Served, Flags
  <2> QED BY <1>1, <1>2, <1>4, <2>1, <2>2, <2>3 DEF Outcome, Listed
<1>6. CASE "PARSE_URLENCODED" \notin F /\ in_file[r]
  BY <1>1, <1>2, <1>4, <1>6 DEF Outcome, Listed, NoResult
<1>7. CASE "PARSE_URLENCODED" \notin F /\ ~in_file[r] /\ q.body = "bad"
  BY <1>1, <1>2, <1>4, <1>7 DEF Outcome, Listed, NoResult
<1>8. CASE "PARSE_URLENCODED" \notin F /\ ~in_file[r] /\ q.body # "bad"
  <2>0. res = [kind |-> "call", data |-> bound, body |-> TRUE,
               method |-> IF CallName(r) = <<>> THEN <<"in JSON">> ELSE CallName(r)]
    BY <1>8
  <2> HIDE DEF res
  <2>1. /\ result'[r].kind = "call" /\ result'[r].body
        /\ result'[r].method = IF OwnName(q) = <<>> THEN <<"in JSON">> ELSE OwnName(q)
    <3>1. result'[r] = res
      BY <1>4
    <3>2. res.kind = "call" /\ res.body = TRUE
      BY <2>0
    <3>3. res.method = IF CallName(r) = <<>> THEN <<"in JSON">> ELSE CallName(r)
      BY <2>0
    <3>4. res.method = IF OwnName(q) = <<>> THEN <<"in JSON">> ELSE OwnName(q)
      BY <1>2, <3>3
    <3> QED BY <3>1, <3>2, <3>4
  <2>2. Named(r)'
    BY <1>3, <1>4, <1>8, <2>1 DEF Named
  <2>3. Served(r)'
    BY <2>1 DEF Served
  <2> QED BY <1>1, <1>2, <1>4, <2>1, <2>2, <2>3 DEF Outcome, Listed
<1> QED BY <1>5, <1>6, <1>7, <1>8

(* A request that ends, and leaves the worker, with its own outcome.       *)
LEMMA EndKeeps ==
  ASSUME IInv, NEW r \in R, pc[r] \in {"ready", "encoding"},
         running \in {r, Nobody}, NEW res, Ends(r, res), running' = Nobody,
         UNCHANGED <<reqs, method, headers_in, preset_method, create_request, in_file>>,
         EncoderInv', Passed', Outcome(r)', result'[r].kind # "none"
  PROVE  IInv'
<1>1. /\ TypeOK /\ DOMAIN result = R /\ MethodsInv
      /\ \A s \in R : pc[s] \in {"reading", "ready", "encoding"} => Accepted(s)
      /\ \A s \in R : Outcome(s)
  BY DEF IInv
<1>2. pc' = [pc EXCEPT ![r] = "end"] /\ result' = [result EXCEPT ![r] = res]
  BY DEF Ends
<1>3. TypeOK' /\ DOMAIN result' = R
  BY <1>1, <1>2, NobodyAssumption DEF TypeOK, Nobody
<1>4. MethodsInv' /\ Running'
  BY <1>1 DEF MethodsInv, Running
<1>5. \A s \in R : pc'[s] \in {"reading", "ready", "encoding"} => Accepted(s)'
  BY <1>1, <1>2 DEF TypeOK, Accepted, Listed
<1>6. \A s \in R : s # r => Outcome(s)'
  BY <1>1, <1>2, OutcomeStays
<1> QED BY <1>3, <1>4, <1>5, <1>6 DEF IInv

(* create_request keeps the invariant.                                     *)
LEMMA CreateRequestKeeps ==
  ASSUME IInv, NEW r \in R, CreateRequest(r)
  PROVE  IInv'
<1>1. /\ running = Nobody /\ pc[r] = "ready"
      /\ UNCHANGED <<reqs, method, headers_in, preset_method, create_request, in_file>>
  BY DEF CreateRequest
<1>2. /\ TypeOK /\ DOMAIN result = R /\ MethodsInv /\ EncoderInv /\ Passed
      /\ \A s \in R : pc[s] \in {"reading", "ready", "encoding"} => Accepted(s)
      /\ \A s \in R : Outcome(s) /\ Accepted(r)
  BY <1>1 DEF IInv
<1>3. CASE dml_handler(r)
  <2>1. /\ Ends(r, [NoResult EXCEPT !.kind = "dml"]) /\ running' = Nobody
        /\ UNCHANGED encoderVars
    BY <1>1, <1>3 DEF dml_handler
  <2>2. result'[r].kind = "dml"
    BY <1>2, <2>1 DEF Ends, NoResult
  <2>3. Outcome(r)'
    BY <1>1, <1>2, <2>2 DEF Outcome, Accepted, Listed
  <2>4. EncoderInv' /\ Passed'
    BY <1>2, <2>1, EncoderStutters
  <2> QED BY <1>1, <2>1, <2>2, <2>3, <2>4, EndKeeps
<1>4. CASE body_handler(r)
  <2>1. /\ create_request[r] = "body" /\ "ON" \notin Flags(r) /\ Transcode(r, <<>>)
        /\ running' = Nobody /\ UNCHANGED encoderVars
    BY <1>1, <1>4 DEF body_handler
  <2>2. /\ Outcome(r)' /\ result'[r].kind # "none"
        /\ \E res : Ends(r, res)
    BY <1>1, <1>2, <2>1, TranscodeServes
  <2>3. EncoderInv' /\ Passed'
    BY <1>2, <2>1, EncoderStutters
  <2> QED BY <1>1, <2>1, <2>2, <2>3, EndKeeps
<1>5. CASE StartMap(r)
  <2> DEFINE h == [reqs[r].http EXCEPT !.flags = Flags(r), !.in_file = in_file[r],
                                       !.headers_in = headers_in[r]]
  <2>1. /\ create_request[r] = "query" \/ (create_request[r] = "body" /\ "ON" \in Flags(r))
        /\ running' = r /\ pc' = [pc EXCEPT ![r] = "encoding"] /\ UNCHANGED result
        /\ GetRequestData(h, IF create_request[r] = "query" THEN CallHeader ELSE 0)
    BY <1>5 DEF StartMap
  <2>2. /\ http' = h /\ step' = "line" /\ data' = <<>> /\ root_head' = -1
        /\ root_items' = 0 /\ map_items' = 0 /\ at' = 0 /\ used' \in Nat
    BY <2>1, CallHeaderAssumption, BufSizeAssumption DEF GetRequestData
  <2>3. EncoderInv' /\ Passed'
    BY <2>2 DEF EncoderInv, EncoderType, Steps, Counted, Passed
  <2>4. Running'
    <3>1. IsHttp(reqs[r].http) /\ reqs[r].http.body = reqs[r].length
      BY <1>2 DEF TypeOK, IsHttpRequest
    <3>2. h.flags = Flags(r) /\ h.body = reqs[r].length
      BY <3>1 DEF IsHttp
    <3>3. Flags(r)' = Flags(r)
      BY <1>1 DEF Flags
    <3> QED BY <1>1, <2>1, <2>2, <3>2, <3>3 DEF Running, Flags
  <2>5. TypeOK' /\ DOMAIN result' = R
    BY <1>1, <1>2, <2>1, NobodyAssumption DEF TypeOK, Nobody
  <2>6. \A s \in R : Outcome(s)'
    BY <1>1, <1>2, <2>1, OutcomeStays
  <2>7. \A s \in R : pc'[s] \in {"reading", "ready", "encoding"} => Accepted(s)'
    BY <1>1, <1>2, <2>1 DEF TypeOK, Accepted, Listed
  <2>8. MethodsInv'
    BY <1>1, <1>2 DEF MethodsInv
  <2> QED BY <2>3, <2>4, <2>5, <2>6, <2>7, <2>8 DEF IInv
<1> QED BY <1>1, <1>3, <1>4, <1>5 DEF CreateRequest

(* A turn of the encoder touches the encoder's variables only.             *)
LEMMA EncodeMapKeeps ==
  ASSUME IInv, EncodeMap
  PROVE  IInv'
<1>1. Encode /\ UNCHANGED dispatchVars /\ EncoderInv /\ Passed
  BY DEF EncodeMap, IInv
<1>2. /\ UNCHANGED <<reqs, method, pc, headers_in, preset_method, create_request, in_file>>
      /\ UNCHANGED <<result, running>> /\ http' = http
  BY <1>1 DEF dispatchVars, Encode
<1>3. EncoderInv' /\ Passed'
  BY <1>1, EncodeCounts, EncodePasses
<1>4. TypeOK' /\ Running' /\ MethodsInv'
  BY <1>2 DEF IInv, TypeOK, Running, MethodsInv, Flags
<1>5. \A s \in R : Outcome(s)'
  BY <1>2, OutcomeStays DEF IInv
<1>6. \A s \in R : pc'[s] \in {"reading", "ready", "encoding"} => Accepted(s)'
  BY <1>2 DEF IInv, Accepted, Listed
<1> QED BY <1>2, <1>3, <1>4, <1>5, <1>6 DEF IInv

(* The end of the map, and of create_request.                              *)
LEMMA MapEnds ==
  ASSUME IInv, NEW r \in R, MapFails(r) \/ MapDone(r)
  PROVE  IInv'
<1>1. /\ running = r /\ running' = Nobody /\ step \in {"error", "done"}
      /\ UNCHANGED <<reqs, method, headers_in, preset_method, create_request, in_file>>
      /\ UNCHANGED encoderVars
  BY DEF MapFails, MapDone
<1>2. /\ TypeOK /\ DOMAIN result = R /\ EncoderInv /\ Passed /\ Running
      /\ pc[r] = "encoding" /\ Accepted(r) /\ r # Nobody
  BY <1>1, NobodyAssumption DEF IInv, TypeOK, Nobody
<1>3. EncoderInv' /\ Passed'
  BY <1>1, <1>2, EncoderStutters
<1>4. /\ http.flags = Flags(r) /\ http.body = reqs[r].length
      /\ create_request[r] = "query" \/ (create_request[r] = "body" /\ "ON" \in Flags(r))
  BY <1>1, <1>2 DEF Running
<1>5. CASE MapFails(r)
  <2>1. Ends(r, [NoResult EXCEPT !.kind = "failed"])
    BY <1>5 DEF MapFails
  <2>2. result'[r].kind = "failed"
    BY <1>2, <2>1 DEF Ends, NoResult
  <2>3. Outcome(r)'
    BY <1>1, <1>2, <2>2 DEF Outcome, Accepted, Listed
  <2> QED BY <1>1, <1>2, <1>3, <2>1, <2>2, <2>3, EndKeeps
<1>6. CASE MapDone(r) /\ create_request[r] = "body"
  <2>1. Transcode(r, data) /\ step = "done"
    BY <1>6 DEF MapDone
  <2>2. reqs[r].length
    BY <1>2, <1>6 DEF Accepted, init_handlers
  <2>3. "PARSE_URLENCODED" \in Flags(r) => HasKey(data, "args_urlencoded")
    BY <1>2, <1>4, <2>1, <2>2 DEF Passed
  <2>4. /\ Outcome(r)' /\ result'[r].kind # "none"
        /\ \E res : Ends(r, res)
    BY <1>1, <1>2, <1>6, <2>1, <2>3, TranscodeServes
  <2> QED BY <1>1, <1>2, <1>3, <2>4, EndKeeps
<1>7. CASE MapDone(r) /\ create_request[r] # "body"
  <2> DEFINE res == [kind |-> "call", method |-> CallName(r), data |-> data, body |-> FALSE]
             q == reqs[r]
  <2>1. Ends(r, res) /\ step = "done"
    BY <1>7 DEF MapDone
  <2>2. /\ result'[r].kind = "call" /\ result'[r].method = OwnName(q)
        /\ result'[r].data = data /\ reqs' = reqs
    BY <1>1, <1>2, <2>1 DEF Ends, CallName, Accepted
  <2>3. create_request[r] = "query" /\ (q.length => "PASS_BODY" \in Flags(r)) /\ Listed(q)
    BY <1>2, <1>4, <1>7 DEF Accepted, init_handlers, Flags
  <2>4. Named(r)'
    BY <2>2, <2>3 DEF Named, ReadsJson, Flags
  <2>5. q.length => HasKey(data, "body")
    BY <1>2, <1>4, <2>1, <2>3 DEF Passed
  <2>6. Served(r)'
    BY <2>2, <2>5 DEF Served, HasKey
  <2>7. Outcome(r)'
    BY <2>2, <2>3, <2>4, <2>6 DEF Outcome, Listed
  <2> HIDE DEF res
  <2> QED BY <1>1, <1>2, <1>3, <2>1, <2>2, <2>7, EndKeeps
<1> QED BY <1>5, <1>6, <1>7

(* The invariant is inductive.                                             *)
LEMMA NextIInv == IInv /\ [Next]_vars => IInv'
<1> SUFFICES ASSUME IInv, [Next]_vars PROVE IInv'
  OBVIOUS
<1>1. CASE UNCHANGED vars
  <2>1. /\ UNCHANGED <<reqs, method, pc, headers_in, preset_method, create_request>>
        /\ UNCHANGED <<in_file, result, running>> /\ UNCHANGED encoderVars
    BY <1>1 DEF vars, dispatchVars
  <2>2. EncoderInv' /\ Passed'
    BY <2>1, EncoderStutters DEF IInv
  <2>3. TypeOK' /\ Running' /\ MethodsInv'
    BY <2>1 DEF IInv, TypeOK, Running, MethodsInv, Flags, encoderVars
  <2>4. \A s \in R : Outcome(s)'
    BY <2>1, OutcomeStays DEF IInv
  <2>5. \A s \in R : pc'[s] \in {"reading", "ready", "encoding"} => Accepted(s)'
    BY <2>1 DEF IInv, Accepted, Listed
  <2> QED BY <2>1, <2>2, <2>3, <2>4, <2>5 DEF IInv
<1>2. CASE running = Nobody /\ \E r \in R : Handler(r) \/ ReadBody(r) \/ CreateRequest(r)
  BY <1>2, HandlerKeeps, ReadBodyKeeps, CreateRequestKeeps
<1>3. CASE EncodeMap
  BY <1>3, EncodeMapKeeps
<1>4. CASE \E r \in R : MapFails(r) \/ MapDone(r)
  BY <1>4, MapEnds
<1> QED BY <1>1, <1>2, <1>3, <1>4 DEF Next

(* The invariant holds in every behaviour.                                 *)
LEMMA SpecIInv == Spec => []IInv
BY InitIInv, NextIInv, PTL DEF Spec

(* Types are kept, and create_request runs for one request at a time.      *)
THEOREM DispatchTypes == Spec => []TypeOK
<1>1. IInv => TypeOK
  BY DEF IInv
<1> QED BY <1>1, SpecIInv, PTL

(* A request calls the function it asked for, though the value of          *)
(* tnt_method is stored in the location that all requests share, however   *)
(* many of them the worker serves in between.                              *)
THEOREM CallsItsOwnAlways == Spec => []CallsItsOwn
<1>1. IInv => CallsItsOwn
  BY DEF IInv, Outcome, Named, CallsItsOwn
<1> QED BY <1>1, SpecIInv, PTL

(* No body that came with a Content-Length is dropped, in any location.    *)
THEOREM BodyIsServedAlways == Spec => []BodyIsServed
<1>1. IInv => BodyIsServed
  BY DEF IInv, Outcome, Served, BodyIsServed
<1> QED BY <1>1, SpecIInv, PTL

(* Requests are refused, and maps given up, for a cause only; what is      *)
(* served has a verb its location lists.                                   *)
THEOREM RejectedForCauseAlways == Spec => []RejectedForCause
<1>1. IInv => RejectedForCause
  BY DEF IInv, Outcome, Passed, Listed, RejectedForCause
<1> QED BY <1>1, SpecIInv, PTL

(* Every header of the map announces what stands behind it, for every      *)
(* buffer size and any number of arguments, headers and fields.            *)
THEOREM HeadersAnnounceAlways == Spec => []HeadersAnnounceItems
<1>1. IInv => HeadersAnnounceItems
  BY DEF IInv, EncoderInv, Counted, Closed, HeadersAnnounceItems
<1> QED BY <1>1, SpecIInv, PTL

-----------------------------------------------------------------------------
(* What the map holds.  The keys so far are a function of the step and of  *)
(* what the request is; an open list holds the pairs that are behind us.   *)
Key(given, key) == IF given THEN <<key>> ELSE <<>>

Line == <<"proto", "method", "uri">>
WithArgs(h) == Line \o Key("PARSE_ARGS" \in h.flags, "args")
WithHeaders(h) == WithArgs(h) \o <<"headers">>
WithForm(h) ==
  WithHeaders(h) \o Key("PARSE_URLENCODED" \in h.flags /\ h.body, "args_urlencoded")
WithBody(h) == WithForm(h) \o Key("PASS_BODY" \in h.flags /\ h.body, "body")

Keyed(d, keys) == Len(d) = Len(keys) /\ \A i \in 1..Len(d) : d[i].key = keys[i]

PairsUpTo(items, list, n) ==
  /\ {items[k] : k \in 1..Len(items)} = {i \in 1..n : list[i] = "pair"}
  /\ \A j, k \in 1..Len(items) : j < k => items[j] < items[k]

HeadersOf(h) ==
  h.headers_in + (IF "PASS_HEADERS_OUT" \in h.flags THEN h.headers_out ELSE 0)

(* What an entry holds when it is final, u units being used. *)
Content(h, u, e) ==
  CASE e.key = "args" -> ArePairs(e.items, h.args)
    [] e.key = "args_urlencoded" -> ArePairs(e.items, h.form) \/ u >= BufSize
    [] e.key = "headers" -> Len(e.items) = HeadersOf(h)
    [] OTHER -> TRUE
Filled(d, h, u, n) == \A i \in 1..n : Content(h, u, d[i])

Last(d) == d[Len(d)]

HttpLists ==
  /\ http.args \in Seq({"pair", "empty"}) /\ http.form \in Seq({"pair", "empty"})
  /\ HeadersOf(http) \in Nat

KeysInv ==
  /\ step = "args" => Keyed(data, Line)
  /\ step \in {"arg", "headers"} => Keyed(data, WithArgs(http))
  /\ step \in {"header", "form"} => Keyed(data, WithHeaders(http))
  /\ step \in {"field", "body"} => Keyed(data, WithForm(http))
  /\ step = "done" => Keyed(data, WithBody(http))

ListsInv ==
  /\ step \in {"args", "headers", "form", "body", "done"}
       => Filled(data, http, used, Len(data))
  /\ step \in {"arg", "header", "field"} => Filled(data, http, used, Len(data) - 1)
  /\ step = "arg" =>
       /\ at <= Len(http.args)
       /\ PairsUpTo(Last(data).items, http.args, at)
  /\ step = "header" => at <= HeadersOf(http) /\ Len(Last(data).items) = at
  /\ step = "field" =>
       /\ at <= Len(http.form)
       /\ PairsUpTo(Last(data).items, http.form, at) \/ used >= BufSize

MapInv == HttpLists /\ KeysInv /\ ListsInv

(* The keys are sequences of keys.                                         *)
LEMMA KeysTyped ==
  ASSUME NEW h
  PROVE  /\ Line \in Seq(Keys) /\ WithArgs(h) \in Seq(Keys)
         /\ WithHeaders(h) \in Seq(Keys) /\ WithForm(h) \in Seq(Keys)
         /\ WithBody(h) \in Seq(Keys)
<1>1. ASSUME NEW b, NEW k \in Keys PROVE Key(b, k) \in Seq(Keys)
  <2>1. <<>> \in Seq(Keys) /\ <<k>> \in Seq(Keys)
    OBVIOUS
  <2> QED  BY <2>1 DEF Key
<1>2. Line \in Seq(Keys)
  BY DEF Line, Keys
<1>3. WithArgs(h) \in Seq(Keys)
  <2>1. Key("PARSE_ARGS" \in h.flags, "args") \in Seq(Keys)
    <3>1. "args" \in Keys
      BY DEF Keys
    <3> QED  BY <1>1, <3>1
  <2> QED  BY <1>2, <2>1 DEF WithArgs
<1>4. WithHeaders(h) \in Seq(Keys)
  <2>1. <<"headers">> \in Seq(Keys)
    BY DEF Keys
  <2> QED  BY <1>3, <2>1 DEF WithHeaders
<1>5. WithForm(h) \in Seq(Keys)
  <2>1. Key("PARSE_URLENCODED" \in h.flags /\ h.body, "args_urlencoded") \in Seq(Keys)
    <3>1. "args_urlencoded" \in Keys
      BY DEF Keys
    <3> QED  BY <1>1, <3>1
  <2> QED  BY <1>4, <2>1 DEF WithForm
<1>6. WithBody(h) \in Seq(Keys)
  <2>1. Key("PASS_BODY" \in h.flags /\ h.body, "body") \in Seq(Keys)
    <3>1. "body" \in Keys
      BY DEF Keys
    <3> QED  BY <1>1, <3>1
  <2> QED  BY <1>5, <2>1 DEF WithBody
<1> QED  BY <1>2, <1>3, <1>4, <1>5, <1>6

(* No key, or one.                                                         *)
LEMMA KeyAdds ==
  ASSUME NEW keys \in Seq(Keys), NEW k
  PROVE  /\ keys \o Key(FALSE, k) = keys
         /\ keys \o Key(TRUE, k) = Append(keys, k)
BY DEF Key

(* The keys behind which a list is opened.                                 *)
LEMMA KeysGiven ==
  ASSUME NEW h
  PROVE  /\ WithArgs(h) = IF "PARSE_ARGS" \in h.flags THEN Append(Line, "args") ELSE Line
         /\ WithHeaders(h) = Append(WithArgs(h), "headers")
         /\ WithForm(h) = IF "PARSE_URLENCODED" \in h.flags /\ h.body
                            THEN Append(WithHeaders(h), "args_urlencoded")
                          ELSE WithHeaders(h)
         /\ WithBody(h) = IF "PASS_BODY" \in h.flags /\ h.body
                            THEN Append(WithForm(h), "body") ELSE WithForm(h)
<1>1. /\ Line \in Seq(Keys) /\ WithArgs(h) \in Seq(Keys)
      /\ WithHeaders(h) \in Seq(Keys) /\ WithForm(h) \in Seq(Keys)
  BY KeysTyped
<1>2. \A keys \in Seq(Keys), k \in Keys, b \in BOOLEAN :
        keys \o Key(b, k) = IF b THEN Append(keys, k) ELSE keys
  BY KeyAdds
<1>3. WithArgs(h) = IF "PARSE_ARGS" \in h.flags THEN Append(Line, "args") ELSE Line
  <2> DEFINE b == ("PARSE_ARGS" \in h.flags)
  <2>1. b \in BOOLEAN
    OBVIOUS
  <2>2. "args" \in Keys
    BY DEF Keys
  <2>3. WithArgs(h) = Line \o Key(b, "args")
    BY DEF WithArgs
  <2> HIDE DEF b
  <2>4. WithArgs(h) = IF b THEN Append(Line, "args") ELSE Line
    BY <1>1, <1>2, <2>1, <2>2, <2>3
  <2> QED  BY <2>4 DEF b
<1>4. WithHeaders(h) = Append(WithArgs(h), "headers")
  BY <1>1, KeyAdds DEF WithHeaders, Key
<1>5. WithForm(h) = IF "PARSE_URLENCODED" \in h.flags /\ h.body
                      THEN Append(WithHeaders(h), "args_urlencoded")
                    ELSE WithHeaders(h)
  <2> DEFINE b == ("PARSE_URLENCODED" \in h.flags /\ h.body)
  <2>1. b \in BOOLEAN
    OBVIOUS
  <2>2. "args_urlencoded" \in Keys
    BY DEF Keys
  <2>3. WithForm(h) = WithHeaders(h) \o Key(b, "args_urlencoded")
    BY DEF WithForm
  <2> HIDE DEF b
  <2>4. WithForm(h) = IF b THEN Append(WithHeaders(h), "args_urlencoded") ELSE WithHeaders(h)
    BY <1>1, <1>2, <2>1, <2>2, <2>3
  <2> QED  BY <2>4 DEF b
<1>6. WithBody(h) = IF "PASS_BODY" \in h.flags /\ h.body
                      THEN Append(WithForm(h), "body") ELSE WithForm(h)
  <2> DEFINE b == ("PASS_BODY" \in h.flags /\ h.body)
  <2>1. b \in BOOLEAN
    OBVIOUS
  <2>2. "body" \in Keys
    BY DEF Keys
  <2>3. WithBody(h) = WithForm(h) \o Key(b, "body")
    BY DEF WithBody
  <2> HIDE DEF b
  <2>4. WithBody(h) = IF b THEN Append(WithForm(h), "body") ELSE WithForm(h)
    BY <1>1, <1>2, <2>1, <2>2, <2>3
  <2> QED  BY <2>4 DEF b
<1> QED  BY <1>3, <1>4, <1>5, <1>6

(* An entry more, a key more.                                              *)
LEMMA KeyedGrows ==
  ASSUME NEW d \in Seq(Entry), NEW keys \in Seq(Keys), Keyed(d, keys), NEW k \in Keys
  PROVE  Keyed(Append(d, Scalar(k)), Append(keys, k))
<1>1. Scalar(k) \in Entry /\ Scalar(k).key = k
  BY EntryTypes DEF Scalar
<1>2. Len(Append(d, Scalar(k))) = Len(Append(keys, k))
  BY <1>1 DEF Keyed
<1>3. ASSUME NEW i \in 1..Len(Append(d, Scalar(k)))
      PROVE  Append(d, Scalar(k))[i].key = Append(keys, k)[i]
  BY <1>1 DEF Keyed
<1> QED  BY <1>2, <1>3 DEF Keyed

(* Entries that are final stay so, whatever is written behind them.        *)
LEMMA FilledStays ==
  ASSUME NEW d, NEW e, NEW h, NEW n, NEW u, NEW v, u >= BufSize => v >= BufSize,
         Filled(d, h, u, n), \A i \in 1..n : e[i] = d[i]
  PROVE  Filled(e, h, v, n)
<1>1. ASSUME NEW i \in 1..n PROVE Content(h, v, e[i])
  <2>1. Content(h, u, d[i]) /\ e[i] = d[i]
    BY DEF Filled
  <2> QED  BY <2>1 DEF Content
<1> QED  BY <1>1 DEF Filled

(* One more entry is final when it is. *)
LEMMA FilledNext ==
  ASSUME NEW d, NEW h, NEW u, NEW n \in Nat, n > 0,
         Filled(d, h, u, n - 1), Content(h, u, d[n])
  PROVE  Filled(d, h, u, n)
BY DEF Filled

(* At first no argument has been looked at. *)
LEMMA PairsNone == ASSUME NEW list PROVE PairsUpTo(<<>>, list, 0)
BY DEF PairsUpTo

(* In the end all have been. *)
LEMMA PairsOfAll ==
  ASSUME NEW items, NEW list, PairsUpTo(items, list, Len(list))
  PROVE  ArePairs(items, list)
BY DEF PairsUpTo, ArePairs

(* What is no pair is left out. *)
LEMMA PairsSkip ==
  ASSUME NEW items, NEW list, NEW n \in Nat, PairsUpTo(items, list, n),
         list[n + 1] # "pair"
  PROVE  PairsUpTo(items, list, n + 1)
<1>1. \A i : i \in 1..(n + 1) <=> i \in 1..n \/ i = n + 1
  OBVIOUS
<1>2. {i \in 1..(n + 1) : list[i] = "pair"} = {i \in 1..n : list[i] = "pair"}
  BY <1>1
<1> QED  BY <1>2 DEF PairsUpTo

(* A pair is written behind those before it. *)
LEMMA PairsMore ==
  ASSUME NEW items \in Seq(Nat), NEW list, NEW n \in Nat, PairsUpTo(items, list, n),
         list[n + 1] = "pair"
  PROVE  PairsUpTo(Append(items, n + 1), list, n + 1)
<1> DEFINE more == Append(items, n + 1)
           N == Len(items)
<1>1. /\ N \in Nat /\ more \in Seq(Nat) /\ Len(more) = N + 1 /\ more[N + 1] = n + 1
      /\ \A k \in 1..N : more[k] = items[k]
      /\ \A k \in 1..N : items[k] \in Nat
  OBVIOUS
<1>2. \A i : i \in 1..(n + 1) <=> i \in 1..n \/ i = n + 1
  OBVIOUS
<1>3. \A i : i \in 1..(N + 1) <=> i \in 1..N \/ i = N + 1
  BY <1>1
<1> HIDE DEF more
<1>4. {more[k] : k \in 1..Len(more)} = {i \in 1..(n + 1) : list[i] = "pair"}
  <2>1. {more[k] : k \in 1..(N + 1)} = {items[k] : k \in 1..N} \cup {n + 1}
    BY <1>1, <1>3
  <2>2. {i \in 1..(n + 1) : list[i] = "pair"} = {i \in 1..n : list[i] = "pair"} \cup {n + 1}
    BY <1>2
  <2> QED  BY <1>1, <2>1, <2>2 DEF PairsUpTo
<1>5. \A k \in 1..N : items[k] <= n
  <2>1. \A k \in 1..N : items[k] \in 1..n
    BY DEF PairsUpTo
  <2> QED  BY <2>1
<1>6. ASSUME NEW j \in 1..Len(more), NEW k \in 1..Len(more), j < k
      PROVE  more[j] < more[k]
  <2>1. j \in 1..N
    BY <1>1, <1>6
  <2>2. CASE k \in 1..N
    BY <1>1, <1>6, <2>1, <2>2 DEF PairsUpTo
  <2>3. CASE k = N + 1
    <3>1. more[j] = items[j] /\ more[k] = n + 1 /\ items[j] <= n /\ items[j] \in Nat
      BY <1>1, <1>5, <2>1, <2>3
    <3> QED  BY <3>1
  <2> QED  BY <1>1, <1>3, <2>2, <2>3
<1> QED  BY <1>4, <1>6 DEF PairsUpTo, more

(* Where the encoder stops nothing is said of what it has written.         *)
LEMMA StopKeeps ==
  ASSUME HttpLists, http' = http, step' \in {"error", "overrun"}
  PROVE  MapInv'
BY DEF MapInv, HttpLists, KeysInv, ListsInv

(* A list that is opened: its key is the next one, and it is empty.        *)
LEMMA OpenAdds ==
  ASSUME EncoderType, NEW key \in Keys, NEW next, Open(key, next), http' = http,
         NEW keys \in Seq(Keys), Keyed(data, keys), Filled(data, http, used, Len(data))
  PROVE  \/ step' = "error"
         \/ /\ step' \in {next, "overrun"} /\ at' = 0
            /\ Keyed(data', Append(keys, key))
            /\ Filled(data', http', used', Len(data') - 1)
            /\ Last(data').items = <<>>
<1>1. CASE ~Fits(1)
  BY <1>1 DEF Open, Goto
<1>2. CASE Fits(1)
  <2>1. /\ data' = Append(data, Scalar(key)) /\ at' = 0 /\ used' = used + 2
        /\ step' \in {next, "overrun"} /\ data \in Seq(Entry) /\ used \in Nat
    BY <1>2 DEF Open, Slot, EncoderType
  <2>2. Keyed(data', Append(keys, key))
    BY <2>1, KeyedGrows
  <2>3. Scalar(key) \in Entry
    BY EntryTypes
  <2>4. /\ Len(data') = Len(data) + 1 /\ Len(data) \in Nat
        /\ \A i \in 1..Len(data) : data'[i] = data[i]
        /\ data'[Len(data')] = Scalar(key)
    BY <2>1, <2>3
  <2>5. Filled(data', http, used', Len(data))
    <3>1. used >= BufSize => used' >= BufSize
      BY <2>1, BufSizeAssumption
    <3> QED  BY <2>4, <3>1, FilledStays
  <2>6. Last(data').items = <<>>
    BY <2>4 DEF Last, Scalar
  <2> QED  BY <2>1, <2>2, <2>4, <2>5, <2>6
<1> QED  BY <1>1, <1>2

(* A list that is closed is final when it holds what it is to hold.        *)
LEMMA CloseFills ==
  ASSUME EncoderType, NEW key, OpenList(key), NEW next, Close(next), http' = http,
         NEW keys \in Seq(Keys), Keyed(data, keys),
         Filled(data, http, used, Len(data) - 1), Content(http, used, Last(data))
  PROVE  /\ step' = next /\ Keyed(data', keys)
         /\ Filled(data', http', used', Len(data'))
<1>1. /\ step' = next /\ used' = used
      /\ data' = [data EXCEPT ![Len(data)] = WithHead(data[Len(data)], map_items)]
      /\ data \in Seq(Entry) /\ used \in Nat /\ map_items \in Nat
  BY DEF Close, EncoderType
<1>2. Len(data) \in 1..Len(data) /\ data[Len(data)] \in Entry
  BY <1>1 DEF OpenList
<1>3. WithHead(data[Len(data)], map_items) \in Entry
  BY <1>1, <1>2, EntryTypes
<1>4. /\ Len(data') = Len(data)
      /\ \A i \in 1..(Len(data) - 1) : data'[i] = data[i]
      /\ data'[Len(data)] = WithHead(data[Len(data)], map_items)
  BY <1>1, <1>2, <1>3
<1>5. /\ data'[Len(data)].key = data[Len(data)].key
      /\ data'[Len(data)].items = data[Len(data)].items
  BY <1>4 DEF WithHead
<1>6. Keyed(data', keys)
  <2>1. ASSUME NEW i \in 1..Len(data') PROVE data'[i].key = keys[i]
    <3>1. i \in 1..(Len(data) - 1) \/ i = Len(data)
      BY <1>2, <1>4
    <3>2. data[i].key = keys[i]
      BY <1>4 DEF Keyed
    <3> QED  BY <1>4, <1>5, <3>1, <3>2
  <2> QED  BY <1>4, <2>1 DEF Keyed
<1>7. Filled(data', http, used, Len(data) - 1)
  BY <1>4, FilledStays
<1>8. Content(http, used, data'[Len(data)])
  BY <1>5 DEF Content, Last
<1>9. Filled(data', http, used, Len(data))
  <2>1. Len(data) \in Nat /\ Len(data) > 0
    BY <1>1, <1>2
  <2> QED  BY <1>1, <1>7, <1>8, <2>1, FilledNext
<1> QED  BY <1>1, <1>4, <1>6, <1>9

(* An item more, numbered as the element that it is.                       *)
LEMMA ItemAdds ==
  ASSUME EncoderType, NEW key, OpenList(key), NEW n \in Nat, Item(n), http' = http,
         NEW keys \in Seq(Keys), Keyed(data, keys), Filled(data, http, used, Len(data) - 1)
  PROVE  \/ step' = "error"
         \/ /\ step' = step /\ at' = at + 1 /\ used' >= used
            /\ Keyed(data', keys)
            /\ Filled(data', http', used', Len(data') - 1)
            /\ Last(data).items \in Seq(Nat)
            /\ Last(data').items = Append(Last(data).items, at + 1)
<1>1. CASE ~Fits(n)
  BY <1>1 DEF Item, Goto
<1>2. CASE Fits(n)
  <2>1. /\ step' = step /\ used' = used + n /\ at' = at + 1
        /\ data' = [data EXCEPT ![Len(data)] = WithItem(data[Len(data)], at + 1)]
        /\ data \in Seq(Entry) /\ used \in Nat /\ at + 1 \in Nat
    BY <1>2 DEF Item, EncoderType
  <2>2. Len(data) \in 1..Len(data) /\ data[Len(data)] \in Entry
    BY <2>1 DEF OpenList
  <2>3. WithItem(data[Len(data)], at + 1) \in Entry
    BY <2>1, <2>2, EntryTypes
  <2>4. /\ Len(data') = Len(data)
        /\ \A i \in 1..(Len(data) - 1) : data'[i] = data[i]
        /\ data'[Len(data)] = WithItem(data[Len(data)], at + 1)
    BY <2>1, <2>2, <2>3
  <2>5. /\ data'[Len(data)].key = data[Len(data)].key
        /\ data'[Len(data)].items = Append(data[Len(data)].items, at + 1)
        /\ data[Len(data)].items \in Seq(Nat)
    BY <2>2, <2>4 DEF WithItem, Entry
  <2>6. Keyed(data', keys)
    <3>1. ASSUME NEW i \in 1..Len(data') PROVE data'[i].key = keys[i]
      <4>1. i \in 1..(Len(data) - 1) \/ i = Len(data)
        BY <2>2, <2>4
      <4>2. data[i].key = keys[i]
        BY <2>4 DEF Keyed
      <4> QED  BY <2>4, <2>5, <4>1, <4>2
    <3> QED  BY <2>4, <3>1 DEF Keyed
  <2>7. Filled(data', http, used', Len(data) - 1)
    <3>1. used >= BufSize => used' >= BufSize
      BY <2>1, BufSizeAssumption
    <3> QED  BY <2>4, <3>1, FilledStays
  <2>8. used' >= used
    BY <2>1
  <2> QED  BY <2>1, <2>4, <2>5, <2>6, <2>7, <2>8 DEF Last
<1> QED  BY <1>1, <1>2

(* The map's first three entries.                                          *)
LEMMA LineHolds ==
  ASSUME EncoderInv, HttpLists, EncodeLine, http' = http
  PROVE  MapInv'
<1>1. CASE Fits(1) /\ ~Fits(7)
  BY <1>1, StopKeeps DEF EncodeLine, Goto
<1>2. CASE ~(Fits(1) /\ ~Fits(7))
  <2>1. /\ data' = <<Scalar("proto"), Scalar("method"), Scalar("uri")>>
        /\ step' \in {"args", "overrun"}
    BY <1>2 DEF EncodeLine, Slot
  <2>2. Keyed(data', Line)
    BY <2>1 DEF Keyed, Line, Scalar
  <2>3. Filled(data', http', used', Len(data'))
    <3>1. ASSUME NEW i \in 1..Len(data') PROVE Content(http', used', data'[i])
      <4>1. data'[i].key \in {"proto", "method", "uri"}
        BY <2>1 DEF Scalar
      <4> QED  BY <4>1 DEF Content
    <3> QED  BY <3>1 DEF Filled
  <2>4. CASE step' = "args"
    BY <2>2, <2>3, <2>4 DEF MapInv, HttpLists, KeysInv, ListsInv
  <2> QED  BY <2>1, <2>4, StopKeeps
<1> QED  BY <1>1, <1>2

(* A list is begun, or there is none.                                      *)
LEMMA BeginHolds ==
  ASSUME EncoderInv, MapInv, BeginArgs \/ BeginHeaders \/ BeginForm, http' = http
  PROVE  MapInv'
<1>1. EncoderType /\ HttpLists /\ KeysInv /\ ListsInv /\ HttpLists'
  BY DEF EncoderInv, MapInv, HttpLists
<1>2. /\ Line \in Seq(Keys) /\ WithArgs(http) \in Seq(Keys)
      /\ WithHeaders(http) \in Seq(Keys)
  BY KeysTyped
<1>3. CASE BeginArgs
  <2>1. step = "args" /\ Keyed(data, Line) /\ Filled(data, http, used, Len(data))
    BY <1>1, <1>3 DEF BeginArgs, KeysInv, ListsInv
  <2>2. CASE "PARSE_ARGS" \in http.flags
    <3>1. Open("args", "arg") /\ WithArgs(http) = Append(Line, "args")
      BY <1>3, <2>2, KeysGiven DEF BeginArgs
    <3>2. \/ step' = "error"
          \/ /\ step' \in {"arg", "overrun"} /\ at' = 0
             /\ Keyed(data', Append(Line, "args"))
             /\ Filled(data', http', used', Len(data') - 1)
             /\ Last(data').items = <<>>
      <4>1. "args" \in Keys
        BY DEF Keys
      <4> QED  BY <1>1, <1>2, <2>1, <3>1, <4>1, OpenAdds
    <3>3. CASE step' \in {"error", "overrun"}
      BY <1>1, <3>3, StopKeeps
    <3>4. CASE step' = "arg"
      <4>1. Keyed(data', WithArgs(http'))
        BY <3>1, <3>2, <3>4
      <4>2. at' <= Len(http'.args) /\ PairsUpTo(Last(data').items, http'.args, at')
        BY <1>1, <3>2, <3>4, PairsNone DEF HttpLists
      <4> QED  BY <1>1, <3>2, <3>4, <4>1, <4>2 DEF MapInv, KeysInv, ListsInv
    <3> QED  BY <3>2, <3>3, <3>4
  <2>3. CASE "PARSE_ARGS" \notin http.flags
    <3>1. step' = "headers" /\ data' = data /\ used' = used /\ WithArgs(http) = Line
      BY <1>3, <2>3, KeysGiven DEF BeginArgs, Goto
    <3> QED  BY <1>1, <2>1, <3>1 DEF MapInv, KeysInv, ListsInv
  <2> QED  BY <2>2, <2>3
<1>4. CASE BeginHeaders
  <2>1. /\ step = "headers" /\ Keyed(data, WithArgs(http))
        /\ Filled(data, http, used, Len(data))
    BY <1>1, <1>4 DEF BeginHeaders, KeysInv, ListsInv
  <2>2. /\ Open("headers", "header")
        /\ WithHeaders(http) = Append(WithArgs(http), "headers")
    BY <1>4, KeysGiven DEF BeginHeaders
  <2>3. \/ step' = "error"
        \/ /\ step' \in {"header", "overrun"} /\ at' = 0
           /\ Keyed(data', Append(WithArgs(http), "headers"))
           /\ Filled(data', http', used', Len(data') - 1)
           /\ Last(data').items = <<>>
    <3>1. "headers" \in Keys
      BY DEF Keys
    <3> QED  BY <1>1, <1>2, <2>1, <2>2, <3>1, OpenAdds
  <2>4. CASE step' \in {"error", "overrun"}
    BY <1>1, <2>4, StopKeeps
  <2>5. CASE step' = "header"
    <3>1. Keyed(data', WithHeaders(http'))
      BY <2>2, <2>3, <2>5
    <3>2. at' <= HeadersOf(http') /\ Len(Last(data').items) = at'
      BY <1>1, <2>3, <2>5 DEF HttpLists
    <3> QED  BY <1>1, <2>3, <2>5, <3>1, <3>2 DEF MapInv, KeysInv, ListsInv
  <2> QED  BY <2>3, <2>4, <2>5
<1>5. CASE BeginForm
  <2>1. /\ step = "form" /\ Keyed(data, WithHeaders(http))
        /\ Filled(data, http, used, Len(data))
    BY <1>1, <1>5 DEF BeginForm, KeysInv, ListsInv
  <2>2. CASE "PARSE_URLENCODED" \in http.flags /\ http.body
    <3> DEFINE next == IF http.in_file THEN "error" ELSE "field"
    <3>1. /\ Open("args_urlencoded", next)
          /\ WithForm(http) = Append(WithHeaders(http), "args_urlencoded")
      BY <1>5, <2>2, KeysGiven DEF BeginForm
    <3>2. \/ step' = "error"
          \/ /\ step' \in {next, "overrun"} /\ at' = 0
             /\ Keyed(data', Append(WithHeaders(http), "args_urlencoded"))
             /\ Filled(data', http', used', Len(data') - 1)
             /\ Last(data').items = <<>>
      <4>1. "args_urlencoded" \in Keys
        BY DEF Keys
      <4> HIDE DEF next
      <4> QED  BY <1>1, <1>2, <2>1, <3>1, <4>1, OpenAdds
    <3>3. CASE step' \in {"error", "overrun"}
      BY <1>1, <3>3, StopKeeps
    <3>4. CASE step' = "field"
      <4>1. Keyed(data', WithForm(http'))
        BY <3>1, <3>2, <3>4
      <4>2. at' <= Len(http'.form) /\ PairsUpTo(Last(data').items, http'.form, at')
        BY <1>1, <3>2, <3>4, PairsNone DEF HttpLists
      <4> QED  BY <1>1, <3>2, <3>4, <4>1, <4>2 DEF MapInv, KeysInv, ListsInv
    <3> QED  BY <3>2, <3>3, <3>4
  <2>3. CASE ~("PARSE_URLENCODED" \in http.flags /\ http.body)
    <3>1. step' = "body" /\ data' = data /\ used' = used /\ WithForm(http) = WithHeaders(http)
      BY <1>5, <2>3, KeysGiven DEF BeginForm, Goto
    <3> QED  BY <1>1, <2>1, <3>1 DEF MapInv, KeysInv, ListsInv
  <2> QED  BY <2>2, <2>3
<1> QED  BY <1>3, <1>4, <1>5

(* A turn of a loop: the list holds the pairs up to one element more.      *)
LEMMA TurnHolds ==
  ASSUME EncoderInv, MapInv, EncodeArg \/ EncodeHeader \/ EncodeField, http' = http
  PROVE  MapInv'
<1>1. EncoderType /\ HttpLists /\ KeysInv /\ ListsInv /\ HttpLists'
  BY DEF EncoderInv, MapInv, HttpLists
<1>2. /\ WithArgs(http) \in Seq(Keys) /\ WithHeaders(http) \in Seq(Keys)
      /\ WithForm(http) \in Seq(Keys) /\ at \in Nat
  BY <1>1, KeysTyped DEF EncoderType
<1>3. CASE EncodeArg
  <2>1. /\ step = "arg" /\ at < Len(http.args) /\ OpenList("args")
        /\ Keyed(data, WithArgs(http)) /\ Filled(data, http, used, Len(data) - 1)
        /\ PairsUpTo(Last(data).items, http.args, at)
    BY <1>1, <1>3 DEF EncodeArg, KeysInv, ListsInv, EncoderInv, Counted
  <2>2. at + 1 <= Len(http.args)
    BY <1>1, <1>2, <2>1 DEF HttpLists
  <2>3. CASE http.args[at + 1] = "pair"
    <3>1. Item(2)
      BY <1>3, <2>3 DEF EncodeArg
    <3>2. \/ step' = "error"
          \/ /\ step' = step /\ at' = at + 1 /\ used' >= used
             /\ Keyed(data', WithArgs(http))
             /\ Filled(data', http', used', Len(data') - 1)
             /\ Last(data).items \in Seq(Nat)
             /\ Last(data').items = Append(Last(data).items, at + 1)
      BY <1>1, <1>2, <2>1, <3>1, ItemAdds
    <3>3. CASE step' = "error"
      BY <1>1, <3>3, StopKeeps
    <3>4. CASE step' # "error"
      <4>1. PairsUpTo(Last(data').items, http.args, at')
        <5>1. PairsUpTo(Append(Last(data).items, at + 1), http.args, at + 1)
          BY <1>2, <2>1, <2>3, <3>2, <3>4, PairsMore
        <5> QED  BY <3>2, <3>4, <5>1
      <4> QED  BY <1>1, <2>1, <2>2, <3>2, <3>4, <4>1 DEF MapInv, KeysInv, ListsInv
    <3> QED  BY <3>3, <3>4
  <2>4. CASE http.args[at + 1] # "pair"
    <3>1. step' = "arg" /\ data' = data /\ used' = used /\ at' = at + 1
      BY <1>3, <2>1, <2>4 DEF EncodeArg, SkipItem
    <3>2. PairsUpTo(Last(data).items, http.args, at + 1)
      BY <1>2, <2>1, <2>4, PairsSkip
    <3> QED  BY <1>1, <2>1, <2>2, <3>1, <3>2 DEF MapInv, KeysInv, ListsInv
  <2> QED  BY <2>3, <2>4
<1>4. CASE EncodeHeader
  <2>1. /\ step = "header" /\ at < HeadersOf(http) /\ OpenList("headers") /\ Item(2)
        /\ Keyed(data, WithHeaders(http)) /\ Filled(data, http, used, Len(data) - 1)
        /\ Len(Last(data).items) = at
    BY <1>1, <1>4
       DEF EncodeHeader, Headers, HeadersOf, KeysInv, ListsInv, EncoderInv, Counted
  <2>2. at + 1 <= HeadersOf(http)
    BY <1>1, <1>2, <2>1 DEF HttpLists
  <2>3. \/ step' = "error"
        \/ /\ step' = step /\ at' = at + 1 /\ used' >= used
           /\ Keyed(data', WithHeaders(http))
           /\ Filled(data', http', used', Len(data') - 1)
           /\ Last(data).items \in Seq(Nat)
           /\ Last(data').items = Append(Last(data).items, at + 1)
    BY <1>1, <1>2, <2>1, ItemAdds
  <2>4. CASE step' = "error"
    BY <1>1, <2>4, StopKeeps
  <2>5. CASE step' # "error"
    <3>1. Len(Last(data').items) = at'
      BY <1>2, <2>1, <2>3, <2>5
    <3> QED  BY <1>1, <2>1, <2>2, <2>3, <2>5, <3>1 DEF MapInv, KeysInv, ListsInv
  <2> QED  BY <2>4, <2>5
<1>5. CASE EncodeField
  <2>1. /\ step = "field" /\ at < Len(http.form) /\ OpenList("args_urlencoded")
        /\ Keyed(data, WithForm(http)) /\ Filled(data, http, used, Len(data) - 1)
        /\ PairsUpTo(Last(data).items, http.form, at) \/ used >= BufSize
    BY <1>1, <1>5 DEF EncodeField, KeysInv, ListsInv, EncoderInv, Counted
  <2>2. at + 1 <= Len(http.form)
    BY <1>1, <1>2, <2>1 DEF HttpLists
  <2>3. CASE http.form[at + 1] = "pair" /\ Fits(1)
    <3>1. Item(3)
      BY <1>5, <2>3 DEF EncodeField
    <3>2. \/ step' = "error"
          \/ /\ step' = step /\ at' = at + 1 /\ used' >= used
             /\ Keyed(data', WithForm(http))
             /\ Filled(data', http', used', Len(data') - 1)
             /\ Last(data).items \in Seq(Nat)
             /\ Last(data').items = Append(Last(data).items, at + 1)
      BY <1>1, <1>2, <2>1, <3>1, ItemAdds
    <3>3. CASE step' = "error"
      BY <1>1, <3>3, StopKeeps
    <3>4. CASE step' # "error"
      <4>0. ~(used >= BufSize)
        BY <1>1, <2>3, BufSizeAssumption DEF Fits, EncoderType
      <4>1. PairsUpTo(Last(data').items, http.form, at')
        <5>1. PairsUpTo(Append(Last(data).items, at + 1), http.form, at + 1)
          BY <1>2, <2>1, <2>3, <3>2, <3>4, <4>0, PairsMore
        <5> QED  BY <3>2, <3>4, <5>1
      <4> QED  BY <1>1, <2>1, <2>2, <3>2, <3>4, <4>1 DEF MapInv, KeysInv, ListsInv
    <3> QED  BY <3>3, <3>4
  <2>4. CASE http.form[at + 1] # "pair"
    <3>1. step' = "field" /\ data' = data /\ used' = used /\ at' = at + 1
      BY <1>5, <2>1, <2>4 DEF EncodeField, SkipItem
    <3>2. PairsUpTo(Last(data).items, http.form, at + 1) \/ used >= BufSize
      BY <1>2, <2>1, <2>4, PairsSkip
    <3> QED  BY <1>1, <2>1, <2>2, <3>1, <3>2 DEF MapInv, KeysInv, ListsInv
  <2>5. CASE http.form[at + 1] = "pair" /\ ~Fits(1)
    <3>1. step' = "field" /\ data' = data /\ used' = used /\ at' = at + 1
      BY <1>5, <2>1, <2>5 DEF EncodeField
    <3>2. used >= BufSize
      BY <1>1, <2>5, BufSizeAssumption DEF Fits, EncoderType
    <3> QED  BY <1>1, <2>1, <2>2, <3>1, <3>2 DEF MapInv, KeysInv, ListsInv
  <2> QED  BY <2>3, <2>4, <2>5
<1> QED  BY <1>3, <1>4, <1>5

(* The end of a list: it holds them all.                                   *)
LEMMA EndHolds ==
  ASSUME EncoderInv, MapInv, EndArgs \/ EndHeaders \/ EndForm, http' = http
  PROVE  MapInv'
<1>1. EncoderType /\ HttpLists /\ KeysInv /\ ListsInv /\ HttpLists'
  BY DEF EncoderInv, MapInv, HttpLists
<1>2. /\ WithArgs(http) \in Seq(Keys) /\ WithHeaders(http) \in Seq(Keys)
      /\ WithForm(http) \in Seq(Keys)
  BY KeysTyped
<1>3. CASE EndArgs
  <2>1. /\ step = "arg" /\ at = Len(http.args) /\ OpenList("args") /\ Close("headers")
        /\ Keyed(data, WithArgs(http)) /\ Filled(data, http, used, Len(data) - 1)
        /\ PairsUpTo(Last(data).items, http.args, at)
    BY <1>1, <1>3 DEF EndArgs, KeysInv, ListsInv, EncoderInv, Counted
  <2>2. Content(http, used, Last(data))
    <3>1. ArePairs(Last(data).items, http.args)
      BY <2>1, PairsOfAll
    <3> QED  BY <2>1, <3>1 DEF Content, Last, OpenList
  <2>3. /\ step' = "headers" /\ Keyed(data', WithArgs(http))
        /\ Filled(data', http', used', Len(data'))
    BY <1>1, <1>2, <2>1, <2>2, CloseFills
  <2> QED  BY <1>1, <2>3 DEF MapInv, KeysInv, ListsInv
<1>4. CASE EndHeaders
  <2>1. /\ step = "header" /\ at = HeadersOf(http) /\ OpenList("headers") /\ Close("form")
        /\ Keyed(data, WithHeaders(http)) /\ Filled(data, http, used, Len(data) - 1)
        /\ Len(Last(data).items) = at
    BY <1>1, <1>4
       DEF EndHeaders, Headers, HeadersOf, KeysInv, ListsInv, EncoderInv, Counted
  <2>2. Content(http, used, Last(data))
    BY <2>1 DEF Content, Last, OpenList
  <2>3. /\ step' = "form" /\ Keyed(data', WithHeaders(http))
        /\ Filled(data', http', used', Len(data'))
    BY <1>1, <1>2, <2>1, <2>2, CloseFills
  <2> QED  BY <1>1, <2>3 DEF MapInv, KeysInv, ListsInv
<1>5. CASE EndForm
  <2>1. /\ step = "field" /\ at = Len(http.form) /\ OpenList("args_urlencoded")
        /\ Close("body")
        /\ Keyed(data, WithForm(http)) /\ Filled(data, http, used, Len(data) - 1)
        /\ PairsUpTo(Last(data).items, http.form, at) \/ used >= BufSize
    BY <1>1, <1>5 DEF EndForm, KeysInv, ListsInv, EncoderInv, Counted
  <2>2. Content(http, used, Last(data))
    <3>1. ArePairs(Last(data).items, http.form) \/ used >= BufSize
      BY <2>1, PairsOfAll
    <3> QED  BY <2>1, <3>1 DEF Content, Last, OpenList
  <2>3. /\ step' = "body" /\ Keyed(data', WithForm(http))
        /\ Filled(data', http', used', Len(data'))
    BY <1>1, <1>2, <2>1, <2>2, CloseFills
  <2> QED  BY <1>1, <2>3 DEF MapInv, KeysInv, ListsInv
<1> QED  BY <1>3, <1>4, <1>5

(* The body, and with it the whole map.                                    *)
LEMMA BodyHolds ==
  ASSUME EncoderInv, MapInv, EncodeBody, http' = http
  PROVE  MapInv'
<1>1. EncoderType /\ HttpLists /\ KeysInv /\ ListsInv /\ HttpLists'
  BY DEF EncoderInv, MapInv, HttpLists
<1>2. /\ Keyed(data, WithForm(http)) /\ Filled(data, http, used, Len(data))
      /\ WithForm(http) \in Seq(Keys) /\ data \in Seq(Entry)
  BY <1>1, KeysTyped DEF EncodeBody, KeysInv, ListsInv, EncoderType
<1>3. CASE ~("PASS_BODY" \in http.flags /\ http.body)
  <2>1. step' = "done" /\ data' = data /\ used' = used /\ WithBody(http) = WithForm(http)
    BY <1>3, KeysGiven DEF EncodeBody
  <2> QED  BY <1>1, <1>2, <2>1 DEF MapInv, KeysInv, ListsInv
<1>4. CASE ("PASS_BODY" \in http.flags /\ http.body) /\ (http.in_file \/ ~Fits(2))
  BY <1>1, <1>4, StopKeeps DEF EncodeBody, Goto
<1>5. CASE ("PASS_BODY" \in http.flags /\ http.body) /\ ~(http.in_file \/ ~Fits(2))
  <2>1. /\ step' = "done" /\ data' = Append(data, Scalar("body")) /\ used' = used + 2
        /\ WithBody(http) = Append(WithForm(http), "body")
    BY <1>5, KeysGiven DEF EncodeBody
  <2>2. Scalar("body") \in Entry /\ "body" \in Keys
    BY EntryTypes DEF Keys
  <2>3. Keyed(data', WithBody(http))
    BY <1>2, <2>1, <2>2, KeyedGrows
  <2>4. /\ Len(data') = Len(data) + 1 /\ Len(data) \in Nat
        /\ \A i \in 1..Len(data) : data'[i] = data[i]
        /\ data'[Len(data')] = Scalar("body")
    BY <1>2, <2>1, <2>2
  <2>5. used >= BufSize => used' >= BufSize
    BY <1>1, <2>1, BufSizeAssumption DEF EncoderType
  <2>6. Filled(data', http, used', Len(data))
    BY <1>2, <2>4, <2>5, FilledStays
  <2>7. Content(http, used', data'[Len(data')])
    BY <2>4 DEF Content, Scalar
  <2>8. Filled(data', http, used', Len(data'))
    <3>1. \A i \in 1..Len(data') : i \in 1..Len(data) \/ i = Len(data')
      BY <2>4
    <3> QED  BY <2>6, <2>7, <3>1 DEF Filled
  <2> QED  BY <1>1, <2>1, <2>3, <2>8 DEF MapInv, KeysInv, ListsInv
<1> QED  BY <1>3, <1>4, <1>5

(* The encoder's steps keep what is said of the map.                       *)
LEMMA EncodeHolds ==
  ASSUME EncoderInv, MapInv, Encode
  PROVE  MapInv'
<1>1. http' = http /\ HttpLists
  BY DEF Encode, MapInv
<1> QED  BY <1>1, LineHolds, BeginHolds, TurnHolds, EndHolds, BodyHolds DEF Encode

(* The request whose map is written, as get_request_data is given it.      *)
HttpOf(r) ==
  [reqs[r].http EXCEPT !.flags = Flags(r), !.in_file = in_file[r],
                       !.headers_in = headers_in[r]]

(* A request has the headers it came with; the handler added the location's. *)
HeadersInv ==
  \A r \in R :
    headers_in[r] = reqs[r].http.headers_in
                      + (IF pc[r] # "new" /\ reqs[r].values
                           THEN SetHeaders(reqs[r].loc) ELSE 0)

OwnMap ==
  /\ MapInv /\ HeadersInv
  /\ running # Nobody => http = HttpOf(running)

(* tnt_set_header is inherited as a whole, where there is none inside.     *)
LEMMA HeadersOfLocation ==
  ASSUME NEW l \in Locations
  PROVE  Conf[l].headers = SetHeaders(l) /\ SetHeaders(l) \in Nat
<1>1. IsRaw(raw[l]) /\ (raw[l].outer # Unset => IsRaw(raw[raw[l].outer]))
  BY LocationsAssumption DEF IsRaw
<1>2. Conf[l] = IF raw[l].outer = Unset THEN Merge(Server, raw[l])
                ELSE Merge(Merge(Server, raw[raw[l].outer]), raw[l])
  BY DEF Conf
<1>3. CASE raw[l].outer = Unset
  BY <1>1, <1>2, <1>3 DEF Merge, Server, IsRaw, SetHeaders
<1>4. CASE raw[l].outer # Unset
  <2> DEFINE o == raw[raw[l].outer]
             c == Merge(Server, o)
  <2>1. c.headers = o.headers
    BY <1>1, <1>4 DEF Merge, Server, IsRaw
  <2>2. Conf[l] = Merge(c, raw[l])
    BY <1>2, <1>4
  <2> HIDE DEF c
  <2> QED  BY <1>1, <1>4, <2>1, <2>2 DEF Merge, IsRaw, SetHeaders
<1> QED  BY <1>3, <1>4

(* The map is the request's at first. *)
LEMMA InitOwn == Init => OwnMap
<1> SUFFICES ASSUME Init PROVE OwnMap
  OBVIOUS
<1>1. \A r \in R : IsHttpRequest(reqs[r])
  BY TrafficAssumption DEF Init
<1>2. HeadersInv
  <2>1. ASSUME NEW r \in R
        PROVE  headers_in[r] = reqs[r].http.headers_in /\ headers_in[r] \in Nat
               /\ pc[r] = "new"
    BY <1>1 DEF Init, IsHttpRequest, IsHttp
  <2> QED  BY <2>1 DEF HeadersInv
<1>3. MapInv
  <2>1. HttpLists
    BY DEF Init, EncoderIdle, NoHttp, HttpLists, HeadersOf
  <2> QED  BY <2>1 DEF Init, EncoderIdle, MapInv, KeysInv, ListsInv
<1> QED  BY <1>2, <1>3 DEF OwnMap, Init

(* Where the encoder does nothing the map stays.                           *)
LEMMA MapStutters ==
  ASSUME MapInv, UNCHANGED encoderVars
  PROVE  MapInv'
<1>1. /\ http' = http /\ step' = step /\ data' = data /\ at' = at /\ used' = used
  BY DEF encoderVars
<1> QED  BY <1>1 DEF MapInv, HttpLists, KeysInv, ListsInv

(* Headers are added once, by the handler.                                 *)
LEMMA HeadersStay ==
  ASSUME HeadersInv, UNCHANGED <<reqs, headers_in>>,
         \A r \in R : pc'[r] = "new" <=> pc[r] = "new"
  PROVE  HeadersInv'
BY DEF HeadersInv

(* Every step keeps what the map holds the running request's.              *)
LEMMA NextOwn ==
  ASSUME IInv, OwnMap, [Next]_vars
  PROVE  OwnMap'
<1>1. /\ TypeOK /\ EncoderInv /\ MapInv /\ HeadersInv
      /\ running # Nobody => http = HttpOf(running)
  BY DEF IInv, OwnMap
<1>2. /\ \A r \in R : IsHttpRequest(reqs[r])
      /\ headers_in \in [R -> Nat] /\ DOMAIN headers_in = R /\ DOMAIN pc = R
  BY <1>1 DEF TypeOK
<1>3. CASE UNCHANGED vars
  <2>1. /\ UNCHANGED encoderVars /\ UNCHANGED <<reqs, headers_in>>
        /\ UNCHANGED <<pc, running, in_file>>
    BY <1>3 DEF vars, dispatchVars
  <2>2. MapInv' /\ HeadersInv'
    BY <1>1, <2>1, MapStutters, HeadersStay
  <2> QED  BY <1>1, <2>1, <2>2 DEF OwnMap, HttpOf, Flags, encoderVars
<1>4. ASSUME running = Nobody, NEW r \in R, Handler(r) PROVE OwnMap'
  <2>1. /\ pc[r] = "new" /\ UNCHANGED <<reqs, in_file, running>>
        /\ UNCHANGED encoderVars /\ process_headers(r)
        /\ \E p \in {"end", "reading"} : pc' = [pc EXCEPT ![r] = p]
    BY <1>4 DEF Handler, Refuse, Accept, Ends
  <2>2. reqs[r].loc \in Locations
    BY <1>2 DEF IsHttpRequest
  <2>3. HeadersInv'
    <3>1. ASSUME NEW s \in R
          PROVE  headers_in'[s] = reqs[s].http.headers_in
                                    + (IF pc'[s] # "new" /\ reqs[s].values
                                         THEN SetHeaders(reqs[s].loc) ELSE 0)
      <4>1. CASE s = r
        <5>1. pc'[r] # "new" /\ headers_in[r] = reqs[r].http.headers_in
          <6>1. headers_in[r] = reqs[r].http.headers_in + 0
            BY <1>1, <2>1 DEF HeadersInv
          <6>2. reqs[r].http.headers_in \in Nat
            BY <1>2 DEF IsHttpRequest, IsHttp
          <6> QED  BY <1>2, <2>1, <6>1, <6>2
        <5>2. headers_in'[r] =
                headers_in[r] + IF reqs[r].values THEN Conf[reqs[r].loc].headers ELSE 0
          BY <1>2, <2>1 DEF process_headers
        <5> QED  BY <2>2, <4>1, <5>1, <5>2, HeadersOfLocation
      <4>2. CASE s # r
        <5>1. headers_in'[s] = headers_in[s] /\ pc'[s] = pc[s]
          BY <1>2, <2>1, <4>2 DEF process_headers
        <5> QED  BY <1>1, <5>1 DEF HeadersInv
      <4> QED  BY <4>1, <4>2
    <3> QED  BY <2>1, <3>1 DEF HeadersInv
  <2>4. MapInv'
    BY <1>1, <2>1, MapStutters
  <2> QED  BY <1>4, <2>1, <2>3, <2>4 DEF OwnMap
<1>5. ASSUME running = Nobody, NEW r \in R, ReadBody(r) PROVE OwnMap'
  <2>1. /\ pc[r] = "reading" /\ pc' = [pc EXCEPT ![r] = "ready"]
        /\ UNCHANGED encoderVars /\ UNCHANGED <<reqs, headers_in>> /\ UNCHANGED running
    BY <1>5 DEF ReadBody
  <2>2. \A s \in R : pc'[s] = "new" <=> pc[s] = "new"
    BY <1>2, <2>1
  <2>3. MapInv' /\ HeadersInv'
    BY <1>1, <2>1, <2>2, MapStutters, HeadersStay
  <2> QED  BY <1>5, <2>1, <2>3 DEF OwnMap
<1>6. ASSUME NEW r \in R, CreateRequest(r) PROVE OwnMap'
  <2>1. /\ running = Nobody /\ pc[r] = "ready"
        /\ UNCHANGED <<reqs, headers_in>> /\ UNCHANGED in_file
        /\ dml_handler(r) \/ body_handler(r) \/ StartMap(r)
    BY <1>6 DEF CreateRequest
  <2>2. \E p \in {"end", "encoding"} : pc' = [pc EXCEPT ![r] = p]
    BY <2>1 DEF dml_handler, body_handler, StartMap, Transcode, Ends
  <2>3. \A s \in R : pc'[s] = "new" <=> pc[s] = "new"
    BY <1>2, <2>1, <2>2
  <2>4. HeadersInv'
    BY <1>1, <2>1, <2>3, HeadersStay
  <2>5. CASE dml_handler(r) \/ body_handler(r)
    <3>1. UNCHANGED encoderVars /\ running' = Nobody
      BY <2>1, <2>5 DEF dml_handler, body_handler
    <3> QED  BY <1>1, <2>4, <3>1, MapStutters DEF OwnMap
  <2>6. CASE StartMap(r)
    <3>1. http' = HttpOf(r) /\ running' = r /\ step' = "line"
      BY <2>6 DEF StartMap, GetRequestData, HttpOf
    <3>2. HttpOf(r)' = HttpOf(r)
      BY <2>1 DEF HttpOf, Flags
    <3>3. HttpLists'
      <4>1. IsHttp(reqs[r].http) /\ headers_in[r] \in Nat
        BY <1>2 DEF IsHttpRequest
      <4>2. /\ HttpOf(r).args = reqs[r].http.args /\ HttpOf(r).form = reqs[r].http.form
            /\ HttpOf(r).headers_in = headers_in[r]
            /\ HttpOf(r).headers_out = reqs[r].http.headers_out
        BY <4>1 DEF HttpOf, IsHttp
      <4>3. /\ reqs[r].http.args \in Seq({"pair", "empty"})
            /\ reqs[r].http.form \in Seq({"pair", "empty"})
            /\ reqs[r].http.headers_out \in Nat
        BY <4>1 DEF IsHttp
      <4> QED  BY <3>1, <4>1, <4>2, <4>3 DEF HttpLists, HeadersOf
    <3>4. MapInv'
      BY <3>1, <3>3 DEF MapInv, KeysInv, ListsInv
    <3> QED  BY <2>4, <3>1, <3>2, <3>4 DEF OwnMap
  <2> QED  BY <2>1, <2>5, <2>6
<1>7. CASE EncodeMap
  <2>1. Encode /\ UNCHANGED dispatchVars
    BY <1>7 DEF EncodeMap
  <2>2. /\ UNCHANGED <<reqs, headers_in>> /\ UNCHANGED <<pc, running, in_file>>
        /\ http' = http
    BY <2>1 DEF dispatchVars, Encode
  <2>3. MapInv'
    BY <1>1, <2>1, EncodeHolds
  <2>4. HeadersInv'
    BY <1>1, <2>2, HeadersStay
  <2> QED  BY <1>1, <2>2, <2>3, <2>4 DEF OwnMap, HttpOf, Flags
<1>8. ASSUME NEW r \in R, MapFails(r) \/ MapDone(r) PROVE OwnMap'
  <2>1. /\ running = r /\ running' = Nobody /\ UNCHANGED encoderVars
        /\ UNCHANGED <<reqs, headers_in>> /\ pc' = [pc EXCEPT ![r] = "end"]
    BY <1>8 DEF MapFails, MapDone, Transcode, Ends
  <2>2. pc[r] = "encoding"
    BY <1>1, <2>1 DEF TypeOK
  <2>3. \A s \in R : pc'[s] = "new" <=> pc[s] = "new"
    BY <1>2, <2>1, <2>2
  <2> QED  BY <1>1, <2>1, <2>3, MapStutters, HeadersStay DEF OwnMap
<1> QED  BY <1>3, <1>4, <1>5, <1>6, <1>7, <1>8 DEF Next

(* What is written when the map is done is the running request's.          *)
LEMMA OwnIsTheRequest == IInv /\ OwnMap => MapIsTheRequest
<1> SUFFICES ASSUME IInv, OwnMap, NEW r \in R, running = r, step = "done"
             PROVE  /\ [i \in 1..Len(data) |-> data[i].key] = WithBody(http)
                    /\ \A i \in 1..Len(data) : Contents(reqs[r], data[i])
                    /\ http.flags = Flags(r) /\ http.body = reqs[r].length
  BY DEF MapIsTheRequest, WithBody, WithForm, WithHeaders, WithArgs, Line, Key
<1>1. /\ TypeOK /\ r # Nobody /\ HeadersInv /\ http = HttpOf(r)
      /\ Keyed(data, WithBody(http)) /\ Filled(data, http, used, Len(data))
  BY NobodyAssumption DEF IInv, OwnMap, MapInv, KeysInv, ListsInv, Nobody
<1>2. http.flags = Flags(r) /\ http.body = reqs[r].length
  BY <1>1 DEF IInv, Running
<1>3. [i \in 1..Len(data) |-> data[i].key] = WithBody(http)
  <2>1. WithBody(http) \in Seq(Keys)
    BY KeysTyped
  <2> QED  BY <1>1, <2>1 DEF Keyed
<1>4. /\ http.args = reqs[r].http.args /\ http.form = reqs[r].http.form
      /\ http.headers_in = headers_in[r] /\ http.headers_out = reqs[r].http.headers_out
  <2>1. IsHttp(reqs[r].http)
    BY <1>1 DEF TypeOK, IsHttpRequest
  <2> QED  BY <1>1, <2>1 DEF HttpOf, IsHttp
<1>5. HeadersOf(http) =
        reqs[r].http.headers_in + (IF reqs[r].values THEN SetHeaders(reqs[r].loc) ELSE 0)
        + IF "PASS_HEADERS_OUT" \in Flags(r) THEN reqs[r].http.headers_out ELSE 0
  <2>1. pc[r] = "encoding"
    BY <1>1 DEF TypeOK
  <2> QED  BY <1>1, <1>2, <1>4, <2>1 DEF HeadersOf, HeadersInv
<1>6. ASSUME NEW i \in 1..Len(data) PROVE Contents(reqs[r], data[i])
  <2>1. Content(http, used, data[i])
    BY <1>1 DEF Filled
  <2> QED  BY <1>4, <1>5, <2>1 DEF Content, Contents, Flags
<1> QED  BY <1>2, <1>3, <1>6

(* The map that Tarantool gets as the call's first argument is this very   *)
(* request's: the keys that its location asks for, the arguments that have *)
(* a value, each once and in order, as many headers as came with it and as *)
(* the location adds, however many other requests the worker serves.       *)
THEOREM MapIsTheRequestAlways == Spec => []MapIsTheRequest
<1>1. Spec => [](IInv /\ OwnMap)
  <2>1. Init => IInv /\ OwnMap
    BY InitIInv, InitOwn
  <2>2. IInv /\ OwnMap /\ [Next]_vars => (IInv /\ OwnMap)'
    BY NextIInv, NextOwn
  <2> QED  BY <2>1, <2>2, PTL DEF Spec
<1> QED  BY <1>1, OwnIsTheRequest, PTL
=============================================================================
