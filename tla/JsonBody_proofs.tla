---------------------------- MODULE JsonBody_proofs ----------------------------
(***************************************************************************)
(* What TntJsonToTp writes, for requests of any number of calls, size and  *)
(* depth: the theorems that it is what the callbacks mean, and that what   *)
(* the errors say of an id and of params is so.                            *)
(*                                                                         *)
(* The argument: the stack, the stage and what has been written are        *)
(* determined by the callbacks made so far (Follows), so the first half is *)
(* about these, the other about the code.                                  *)
(***************************************************************************)
EXTENDS TntJsonToTp_proofs

-----------------------------------------------------------------------------
(* What is open in a body *)

Depths(ev, d) == {m \in Openings(ev) : Nesting(ev, m) = d}

(* The kinds of callbacks. *)
LEMMA Kinds ==
  ASSUME NEW ev \in Seq(Callbacks)
  PROVE  /\ Openings(ev) \in SUBSET (1..Len(ev)) /\ CallKeys(ev) \in SUBSET (1..Len(ev))
         /\ MapKeys(ev) \in SUBSET (1..Len(ev)) /\ Values(ev) \in SUBSET (1..Len(ev))
         /\ \A n \in 0..(Len(ev) - 1) :
              /\ n + 1 \in Openings(ev) <=> ev[n + 1][1] \in {"start_map", "start_array"}
              /\ n + 1 \in Closings(ev) <=> ev[n + 1][1] \in {"end_map", "end_array"}
              /\ n + 1 \in MapKeys(ev) <=> ev[n + 1][1] = "map_key"
              /\ n + 1 \in Values(ev) <=>
                   ev[n + 1][1] \notin {"map_key", "end_map", "end_array"}
<1>1. \A n \in 0..(Len(ev) - 1) : n + 1 \in 1..Len(ev)
  OBVIOUS
<1>2. DOMAIN ev = 1..Len(ev)
  OBVIOUS
<1> QED BY <1>1, <1>2 DEF Openings, Closings, MapKeys, Values, CallKeys

(* Something is open until the end. *)
LEMMA OpenUntilEnd ==
  ASSUME NEW ev \in Seq(Callbacks), IsBody(ev)
  PROVE  /\ Level(ev) \in {0, 1} /\ Len(ev) \in Nat /\ Len(ev) > 0
         /\ \A n \in 0..Len(ev) : /\ Nesting(ev, n) \in Nat
                                  /\ (Nesting(ev, n) = 0) <=> (n = 0 \/ n = Len(ev))
<1>1. Level(ev) \in {0, 1} /\ Len(ev) \in Nat /\ Len(ev) > 0
  BY DEF Level, IsBody
<1>2. ASSUME NEW n \in 0..Len(ev)
      PROVE  /\ Nesting(ev, n) \in Nat
             /\ (Nesting(ev, n) = 0) <=> (n = 0 \/ n = Len(ev))
  <2>1. CASE n = 0
    BY <2>1, NestingSteps
  <2>2. CASE n # 0
    <3>1. n \in DOMAIN ev /\ n \in Nat
      BY <2>2
    <3>2. IF n = Len(ev) THEN Nesting(ev, n) = 0 ELSE Nesting(ev, n) > 0
      BY <3>1 DEF IsBody
    <3>3. Nesting(ev, n) \in Int
      BY <3>1, NestingSteps
    <3> QED BY <2>2, <3>2, <3>3
  <2> QED BY <2>1, <2>2
<1> QED BY <1>1, <1>2

(* The change of depth, and what makes it. *)
LEMMA NestingNext ==
  ASSUME NEW ev \in Seq(Callbacks), IsBody(ev), NEW n \in 0..(Len(ev) - 1)
  PROVE  /\ Nesting(ev, n) \in Nat /\ Nesting(ev, n + 1) \in Nat
         /\ Nesting(ev, n + 1) = (IF n + 1 \in Openings(ev) THEN Nesting(ev, n) + 1
                                  ELSE IF n + 1 \in Closings(ev) THEN Nesting(ev, n) - 1
                                  ELSE Nesting(ev, n))
         /\ ~(n + 1 \in Openings(ev) /\ n + 1 \in Closings(ev))
<1>1. Nesting(ev, n) \in Nat /\ Nesting(ev, n + 1) \in Nat
  BY OpenUntilEnd
<1>2. Nesting(ev, n + 1) = Nesting(ev, n) + Change(ev[n + 1][1])
  BY NestingSteps
<1> QED BY <1>1, <1>2, Kinds DEF Change

(* Where the depth has grown to d, something opened at that depth. *)
LEMMA Reopened ==
  ASSUME NEW ev \in Seq(Callbacks), IsBody(ev), NEW a \in 0..Len(ev), NEW b \in 0..Len(ev),
         a < b, NEW d \in Nat, Nesting(ev, a) < d, d <= Nesting(ev, b)
  PROVE  \E m \in Depths(ev, d) : a < m /\ m <= b
<1> DEFINE U == {k \in 0..Len(ev) : a <= k /\ d <= Nesting(ev, k)}
<1>1. U \in SUBSET Nat /\ b \in U
  OBVIOUS
<1>2. PICK m \in U : \A k \in U : m <= k
  BY <1>1, Least
<1>3. m \in 0..Len(ev) /\ a <= m /\ d <= Nesting(ev, m) /\ m <= b
  BY <1>1, <1>2
<1>4. m # a
  <2>1. Nesting(ev, a) \in Nat
    BY OpenUntilEnd
  <2> QED BY <1>3, <2>1
<1>5. m - 1 \in 0..(Len(ev) - 1) /\ a <= m - 1 /\ m - 1 + 1 = m /\ m - 1 < m /\ m - 1 \in 0..Len(ev)
  BY <1>3, <1>4
<1>6. ~(d <= Nesting(ev, m - 1))
  <2>1. m - 1 \notin U
    BY <1>2, <1>5
  <2> QED BY <1>5, <2>1
<1>7. /\ Nesting(ev, m - 1) \in Nat /\ Nesting(ev, m) \in Nat
      /\ Nesting(ev, m) = (IF m \in Openings(ev) THEN Nesting(ev, m - 1) + 1
                           ELSE IF m \in Closings(ev) THEN Nesting(ev, m - 1) - 1
                           ELSE Nesting(ev, m - 1))
  BY <1>5, NestingNext
<1>8. m \in Openings(ev) /\ Nesting(ev, m) = d
  BY <1>3, <1>6, <1>7
<1> QED BY <1>3, <1>4, <1>8 DEF Depths

(* The opener of each depth up to the present one. *)
IsOpener(ev, n, d, o) ==
  /\ o \in Openings(ev) /\ o \in 1..n /\ Nesting(ev, o) = d
  /\ \A k \in Depths(ev, d) : k <= n => k <= o

(* There is one. *)
LEMMA Openers ==
  ASSUME NEW ev \in Seq(Callbacks), IsBody(ev), NEW n \in 0..Len(ev),
         NEW d \in 1..Nesting(ev, n)
  PROVE  IsOpener(ev, n, d, Opener(ev, n, d))
<1>1. Nesting(ev, n) \in Nat /\ Nesting(ev, 0) = 0 /\ 0 \in 0..Len(ev) /\ n # 0
  <2>1. Nesting(ev, n) \in Nat /\ 0 \in 0..Len(ev)
    BY OpenUntilEnd
  <2>2. Nesting(ev, 0) = 0
    BY NestingSteps
  <2> QED BY <2>1, <2>2
<1>2. d \in Nat /\ 0 < n /\ Nesting(ev, 0) < d /\ d <= Nesting(ev, n)
  BY <1>1
<1>3. PICK m \in Depths(ev, d) : 0 < m /\ m <= n
  BY <1>1, <1>2, Reopened
<1>4. Depths(ev, d) \in SUBSET Nat /\ n \in Nat
  BY Kinds DEF Depths
<1>5. Opener(ev, n, d) = Latest(n, Depths(ev, d))
  BY DEF Opener, Depths
<1>6. /\ Latest(n, Depths(ev, d)) \in Depths(ev, d) /\ Latest(n, Depths(ev, d)) <= n
      /\ \A k \in Depths(ev, d) : k <= n => k <= Latest(n, Depths(ev, d))
  BY <1>3, <1>4, LatestExists
<1>7. Depths(ev, d) \in SUBSET (1..Len(ev))
  BY Kinds DEF Depths
<1>8. Opener(ev, n, d) \in 1..n
  BY <1>5, <1>6, <1>7
<1> QED BY <1>5, <1>6, <1>8 DEF Depths, IsOpener

(* It is the only one. *)
LEMMA OpenerIs ==
  ASSUME NEW ev \in Seq(Callbacks), NEW n \in Nat, NEW d, NEW o, IsOpener(ev, n, d, o)
  PROVE  Opener(ev, n, d) = o
<1>1. Depths(ev, d) \in SUBSET Nat
  BY Kinds DEF Depths
<1>2. o \in Depths(ev, d) /\ o <= n
  BY DEF Depths, IsOpener
<1>3. Opener(ev, n, d) = Latest(n, Depths(ev, d))
  BY DEF Opener, Depths
<1> QED BY <1>1, <1>2, <1>3, LatestIs DEF IsOpener

(* What was opened stays so until it is closed. *)
LEMMA OpenerNext ==
  ASSUME NEW ev \in Seq(Callbacks), IsBody(ev), NEW n \in 0..(Len(ev) - 1),
         NEW d \in 1..Nesting(ev, n + 1)
  PROVE  IF n + 1 \in Openings(ev) /\ d = Nesting(ev, n + 1)
           THEN Opener(ev, n + 1, d) = n + 1
           ELSE d \in 1..Nesting(ev, n) /\ Opener(ev, n + 1, d) = Opener(ev, n, d)
<1>1. /\ Nesting(ev, n) \in Nat /\ Nesting(ev, n + 1) \in Nat
      /\ Nesting(ev, n + 1) = (IF n + 1 \in Openings(ev) THEN Nesting(ev, n) + 1
                               ELSE IF n + 1 \in Closings(ev) THEN Nesting(ev, n) - 1
                               ELSE Nesting(ev, n))
      /\ n \in 0..Len(ev) /\ n + 1 \in Nat /\ n \in Nat
  BY NestingNext
<1>2. \A k \in Depths(ev, d) : k \in Nat
  BY Kinds DEF Depths
<1>3. CASE n + 1 \in Openings(ev) /\ d = Nesting(ev, n + 1)
  <2>1. IsOpener(ev, n + 1, d, n + 1)
    BY <1>1, <1>3 DEF IsOpener
  <2> QED BY <1>1, <1>3, <2>1, OpenerIs
<1>4. CASE ~(n + 1 \in Openings(ev) /\ d = Nesting(ev, n + 1))
  <2>1. d \in 1..Nesting(ev, n) /\ n + 1 \notin Depths(ev, d)
    BY <1>1, <1>4 DEF Depths
  <2>2. IsOpener(ev, n, d, Opener(ev, n, d))
    BY <1>1, <2>1, Openers
  <2>3. \A k \in Depths(ev, d) : k <= n + 1 => k <= n
    BY <1>1, <1>2, <2>1
  <2>4. IsOpener(ev, n + 1, d, Opener(ev, n, d))
    BY <1>1, <2>2, <2>3 DEF IsOpener
  <2>5. Opener(ev, n + 1, d) = Opener(ev, n, d)
    BY <1>1, <2>4, OpenerIs
  <2> QED BY <1>4, <2>1, <2>5
<1> QED BY <1>3, <1>4

(* The items of what closes all come before. *)
LEMMA NoMoreItems ==
  ASSUME NEW ev \in Seq(Callbacks), IsBody(ev), NEW n \in 0..(Len(ev) - 1),
         n + 1 \in Closings(ev), NEW m \in 1..Len(ev), n + 1 < m
  PROVE  Inside(ev, m) # Opener(ev, n, Nesting(ev, n))
<1> DEFINE d == Nesting(ev, n)
           b == m - 1
           e == Nesting(ev, b)
<1>1. /\ d \in Nat /\ Nesting(ev, n + 1) = d - 1 /\ d - 1 \in Nat /\ n \in 0..Len(ev)
      /\ n + 1 \in 0..Len(ev)
  BY NestingNext
<1>2. b \in 0..Len(ev) /\ n + 1 <= b /\ b # Len(ev) /\ b # 0
  OBVIOUS
<1>3. e \in Nat /\ e # 0
  BY <1>2, OpenUntilEnd
<1>4. d \in 1..d /\ e \in 1..e
  BY <1>1, <1>3
<1>5. Inside(ev, m) = Opener(ev, b, e)
  BY DEF Inside
<1>6. IsOpener(ev, n, d, Opener(ev, n, d)) /\ IsOpener(ev, b, e, Opener(ev, b, e))
  BY <1>1, <1>2, <1>4, Openers
<1> SUFFICES ASSUME Inside(ev, m) = Opener(ev, n, d) PROVE FALSE
  OBVIOUS
<1>7. d = e /\ Opener(ev, b, e) = Opener(ev, n, d) /\ Opener(ev, n, d) \in 1..n
  BY <1>5, <1>6 DEF IsOpener
<1>8. n + 1 < b
  BY <1>1, <1>2, <1>7
<1>9. PICK k \in Depths(ev, d) : n + 1 < k /\ k <= b
  <2>1. Nesting(ev, n + 1) < d /\ d <= Nesting(ev, b)
    BY <1>1, <1>7
  <2> HIDE DEF b
  <2> QED BY <1>1, <1>2, <1>8, <2>1, Reopened
<1>10. k <= Opener(ev, n, d)
  BY <1>6, <1>7, <1>9 DEF IsOpener
<1>11. k \in Nat
  BY <1>9, Kinds DEF Depths
<1> HIDE DEF d
<1> QED BY <1>7, <1>9, <1>10, <1>11

(* An item comes after what it is in has opened. *)
LEMMA ItemsLater ==
  ASSUME NEW ev \in Seq(Callbacks), IsBody(ev), NEW m \in 1..Len(ev), m > 1
  PROVE  /\ IsOpener(ev, m - 1, Nesting(ev, m - 1), Inside(ev, m))
         /\ Inside(ev, m) \in 1..(m - 1)
<1> DEFINE b == m - 1
<1>1. b \in 0..Len(ev) /\ b # Len(ev) /\ b # 0
  OBVIOUS
<1>2. Nesting(ev, b) \in Nat /\ Nesting(ev, b) # 0
  BY <1>1, OpenUntilEnd
<1>3. Nesting(ev, b) \in 1..Nesting(ev, b)
  BY <1>2
<1>4. IsOpener(ev, b, Nesting(ev, b), Opener(ev, b, Nesting(ev, b)))
  BY <1>1, <1>3, Openers
<1> QED BY <1>4 DEF Inside, IsOpener

(* The items of what is open. *)
LEMMA ItemNext ==
  ASSUME NEW ev \in Seq(Callbacks), IsBody(ev), NEW n \in 0..(Len(ev) - 1),
         NEW d \in 1..Nesting(ev, n)
  PROVE  n + 1 \in Items(ev, Opener(ev, n, d)) <=>
           /\ d = Nesting(ev, n)
           /\ IF ev[Opener(ev, n, d)][1] = "start_map" THEN n + 1 \in MapKeys(ev)
              ELSE n + 1 \in Values(ev)
<1>1. /\ Nesting(ev, n) \in Nat /\ Nesting(ev, n) # 0 /\ n \in 0..Len(ev)
      /\ Nesting(ev, n) \in 1..Nesting(ev, n) /\ n \in Nat
  BY OpenUntilEnd
<1>2. n # 0
  BY <1>1, NestingSteps
<1>3. Inside(ev, n + 1) = Opener(ev, n, Nesting(ev, n))
  <2>1. n + 1 - 1 = n
    OBVIOUS
  <2> QED BY <2>1 DEF Inside
<1>4. /\ Nesting(ev, Opener(ev, n, d)) = d
      /\ Nesting(ev, Opener(ev, n, Nesting(ev, n))) = Nesting(ev, n)
  BY <1>1, Openers DEF IsOpener
<1>5. Inside(ev, n + 1) = Opener(ev, n, d) <=> d = Nesting(ev, n)
  BY <1>3, <1>4
<1>6. n + 1 > 1
  BY <1>1, <1>2
<1> QED BY <1>5, <1>6 DEF Items

-----------------------------------------------------------------------------
(* The calls and their fields *)

(* The call that callback n is in. *)
CallOf(ev, n) == Opener(ev, n, Level(ev) + 1)
KeyOf(ev, n) == Latest(n, CallKeys(ev))

(* What is open at the depth of the calls is a call. *)
LEMMA CallIsOpen ==
  ASSUME NEW ev \in Seq(Callbacks), IsBody(ev), NEW n \in 0..Len(ev),
         Nesting(ev, n) > Level(ev)
  PROVE  /\ IsOpener(ev, n, Level(ev) + 1, CallOf(ev, n))
         /\ CallOf(ev, n) \in CallStarts(ev) /\ ev[CallOf(ev, n)][1] = "start_map"
         /\ n \notin CallStarts(ev) => CallOf(ev, n) < n
         /\ CallOf(ev, n) + 1 \in CallKeys(ev)
<1> DEFINE L == Level(ev)
           c == CallOf(ev, n)
<1>1. L \in {0, 1} /\ Nesting(ev, n) \in Nat /\ L + 1 \in 1..Nesting(ev, n)
  BY OpenUntilEnd
<1>2. IsOpener(ev, n, L + 1, c)
  BY <1>1, Openers DEF CallOf
<1>3. c \in Openings(ev) /\ c \in 1..n /\ Nesting(ev, c) = L + 1
  BY <1>2 DEF IsOpener
<1> HIDE DEF c
<1>4. c - 1 \in 0..(Len(ev) - 1) /\ c - 1 + 1 = c /\ c \in 0..Len(ev)
  BY <1>3
<1>5. Nesting(ev, c - 1) = L
  BY <1>1, <1>3, <1>4, NestingNext
<1>6. ev[c][1] = "start_map" /\ c \in CallStarts(ev)
  <2>1. InBody(ev, c - 1)
    BY <1>4, BodySteps
  <2>2. ev[c][1] \in {"start_map", "start_array"}
    BY <1>3, <1>4, Kinds
  <2> QED BY <1>4, <1>5, <2>1, <2>2 DEF InBody
<1>7. c + 1 \in CallKeys(ev)
  <2>1. c # Len(ev) /\ c # 0
    BY <1>1, <1>3, <1>4, OpenUntilEnd
  <2>2. c \in 0..(Len(ev) - 1)
    BY <1>4, <2>1
  <2>3. ev[c + 1][1] = "map_key"
    BY <1>6, <2>2, BodySteps DEF InBody
  <2>4. c + 1 \in MapKeys(ev) /\ Nesting(ev, c + 1) = L + 1
    BY <1>3, <2>2, <2>3, Kinds, NestingNext
  <2> QED BY <2>4 DEF CallKeys
<1>8. n \notin CallStarts(ev) => c < n
  BY <1>3, <1>6
<1> QED BY <1>2, <1>6, <1>7, <1>8 DEF c

(* The last key of a call that has begun is one of its items. *)
LEMMA Keyed ==
  ASSUME NEW ev \in Seq(Callbacks), IsBody(ev), NEW n \in 0..Len(ev),
         Nesting(ev, n) > Level(ev), n \notin CallStarts(ev)
  PROVE  /\ KeyOf(ev, n) \in CallKeys(ev) /\ KeyOf(ev, n) <= n
         /\ CallOf(ev, n) < KeyOf(ev, n) /\ KeyOf(ev, n) \in Items(ev, CallOf(ev, n))
<1> DEFINE L == Level(ev)
           c == CallOf(ev, n)
           f == KeyOf(ev, n)
<1>1. /\ IsOpener(ev, n, L + 1, c) /\ ev[c][1] = "start_map" /\ c < n
      /\ c + 1 \in CallKeys(ev) /\ c \in 1..n /\ L \in {0, 1}
  BY CallIsOpen, OpenUntilEnd DEF IsOpener
<1>2. CallKeys(ev) \in SUBSET Nat /\ CallKeys(ev) \subseteq 1..Len(ev) /\ n \in Nat /\ c + 1 <= n
  BY <1>1, Kinds
<1>3. f \in CallKeys(ev) /\ f <= n /\ c + 1 <= f
  BY <1>1, <1>2, LatestExists DEF KeyOf
<1> HIDE DEF f, c
<1>4. f \in 1..Len(ev) /\ f > 1 /\ c \in 1..(f - 1) /\ f \in MapKeys(ev) /\ Nesting(ev, f) = L + 1
  BY <1>1, <1>2, <1>3 DEF CallKeys
<1>5. f - 1 \in 0..(Len(ev) - 1) /\ f - 1 + 1 = f /\ f - 1 \in Nat
  BY <1>4
<1>6. Nesting(ev, f - 1) = L + 1
  <2>1. f \notin Openings(ev) /\ f \notin Closings(ev)
    BY <1>4, <1>5, Kinds
  <2> QED BY <1>4, <1>5, <2>1, NestingNext
<1>7. IsOpener(ev, f - 1, L + 1, c)
  <2>1. \A k \in Depths(ev, L + 1) : k <= f - 1 => k <= n
    <3>1. \A k \in Depths(ev, L + 1) : k \in Nat
      BY Kinds DEF Depths
    <3> QED BY <1>3, <1>4, <1>5, <3>1
  <2> QED BY <1>1, <1>4, <2>1 DEF IsOpener
<1>8. Inside(ev, f) = c
  BY <1>5, <1>6, <1>7, OpenerIs DEF Inside
<1>9. f \in Items(ev, c)
  BY <1>1, <1>4, <1>8 DEF Items
<1>10. c < f
  BY <1>4
<1> QED BY <1>3, <1>9, <1>10 DEF f, c

(* A field lasts until the next key of a call. *)
LEMMA KeyNext ==
  ASSUME NEW ev \in Seq(Callbacks), IsBody(ev), NEW n \in 0..(Len(ev) - 1)
  PROVE  /\ n + 1 \in CallKeys(ev) => KeyOf(ev, n + 1) = n + 1
         /\ Nesting(ev, n) > Level(ev) /\ n \notin CallStarts(ev) /\ n + 1 \notin CallKeys(ev) =>
              KeyOf(ev, n + 1) = KeyOf(ev, n)
<1>1. CallKeys(ev) \in SUBSET Nat /\ n \in Nat /\ n \in 0..Len(ev)
  BY Kinds
<1> QED BY <1>1, LatestNext, Keyed DEF KeyOf

(* The call remains the same. *)
LEMMA CallNext ==
  ASSUME NEW ev \in Seq(Callbacks), IsBody(ev), NEW n \in 0..(Len(ev) - 1),
         Nesting(ev, n) > Level(ev), Nesting(ev, n + 1) > Level(ev)
  PROVE  CallOf(ev, n + 1) = CallOf(ev, n)
<1>1. /\ Level(ev) \in {0, 1} /\ Nesting(ev, n) \in Nat /\ Nesting(ev, n + 1) \in Nat
      /\ Level(ev) + 1 \in 1..Nesting(ev, n + 1)
  BY OpenUntilEnd
<1>2. n + 1 \in Openings(ev) => Nesting(ev, n + 1) = Nesting(ev, n) + 1
  BY NestingNext
<1> QED BY <1>1, <1>2, OpenerNext DEF CallOf

-----------------------------------------------------------------------------
(* Where a request is *)

(* Params have begun and not ended. *)
ParamsOpen(ev, n) ==
  /\ ev[KeyOf(ev, n)][2] = "params"
  /\ n \in CallKeys(ev) \/ Nesting(ev, n) > Level(ev) + 1

(* The stage that the codec should be in after n callbacks. *)
NameStage(in, k) ==
  CASE k = "params" -> "PARAMS"
    [] k = "id"     -> "ID"
    [] k = "method" /\ in.read_method -> "METHOD"
    [] OTHER        -> "WAIT_NEXT"
StageAt(in, n) ==
  LET ev == in.events
  IN  IF Nesting(ev, n) <= Level(ev) \/ n \in CallStarts(ev) THEN "INIT"
      ELSE IF ParamsOpen(ev, n) THEN "PARAMS"
      ELSE IF n \in CallKeys(ev) THEN NameStage(in, ev[n][2])
      ELSE "WAIT_NEXT"

(* After the key of a field comes its value. *)
LEMMA AfterKey ==
  ASSUME NEW ev \in Seq(Callbacks), IsRequest(ev), NEW n \in 0..(Len(ev) - 1),
         n \in CallKeys(ev)
  PROVE  /\ n + 1 \in Values(ev) /\ n + 1 \notin CallKeys(ev)
         /\ ev[n][2] = "params" => n + 1 \in Openings(ev)
         /\ ev[n][2] = "id"     => ev[n + 1][1] = "integer" /\ ev[n + 1][2] \in Nat
         /\ ev[n][2] = "method" => ev[n + 1][1] = "string"
<1>1. n \in MapKeys(ev) /\ n \in 1..Len(ev) /\ DOMAIN ev = 1..Len(ev)
  BY Kinds DEF CallKeys
<1>2. n # 1
  <2>1. ev[1][1] \in {"start_map", "start_array"} /\ ev[n][1] = "map_key"
    BY <1>1 DEF IsRequest, IsBody, MapKeys
  <2> QED BY <2>1
<1>3. n + 1 \in Values(ev)
  <2>1. n \in DOMAIN ev \ {1}
    BY <1>1, <1>2
  <2> QED BY <1>1, <2>1 DEF IsRequest, IsJson
<1>4. n + 1 \notin CallKeys(ev)
  BY <1>3, Kinds DEF CallKeys
<1> QED BY <1>3, <1>4 DEF IsRequest

(* A value in a map, and all that opens in a call outside of its fields,   *)
(* has a key.                                                              *)
LEMMA HasKey ==
  ASSUME NEW ev \in Seq(Callbacks), IsRequest(ev), NEW n \in 0..(Len(ev) - 1),
         n + 1 \in Values(ev), Nesting(ev, n) = Level(ev) + 1
  PROVE  n \in CallKeys(ev)
<1>1. IsBody(ev) /\ IsJson(ev) /\ n \in 0..Len(ev) /\ Level(ev) \in {0, 1} /\ n \in Nat
  BY OpenUntilEnd DEF IsRequest
<1>2. n # 0
  BY <1>1, NestingSteps
<1>3. Inside(ev, n + 1) = CallOf(ev, n) /\ n + 1 \in DOMAIN ev \ {1} /\ n + 1 - 1 = n
  <2>1. n + 1 - 1 = n /\ n + 1 \in DOMAIN ev \ {1}
    BY <1>2
  <2> QED BY <2>1 DEF Inside, CallOf
<1>4. ev[CallOf(ev, n)][1] = "start_map"
  <2>1. Nesting(ev, n) > Level(ev)
    BY <1>1
  <2> QED BY <1>1, <2>1, CallIsOpen
<1>5. n \in MapKeys(ev)
  BY <1>1, <1>3, <1>4 DEF IsJson
<1> QED BY <1>5 DEF CallKeys

(* Something is open inside a call, or the call has just begun or has a    *)
(* field.                                                                  *)
LEMMA StageNow ==
  ASSUME NEW in, in.events \in Seq(Callbacks), IsBody(in.events), NEW n \in 0..Len(in.events)
  PROVE  /\ (StageAt(in, n) = "INIT") <=>
              (Nesting(in.events, n) <= Level(in.events) \/ n \in CallStarts(in.events))
         /\ StageAt(in, n) # "INIT" =>
              /\ (StageAt(in, n) = "PARAMS") <=> ParamsOpen(in.events, n)
              /\ (StageAt(in, n) = "ID") <=>
                   (n \in CallKeys(in.events) /\ in.events[n][2] = "id")
              /\ (StageAt(in, n) = "METHOD") <=>
                   (n \in CallKeys(in.events) /\ in.events[n][2] = "method" /\ in.read_method)
         /\ StageAt(in, n) \in {"INIT", "PARAMS", "ID", "METHOD", "WAIT_NEXT"}
<1> DEFINE ev == in.events
<1>1. CASE Nesting(ev, n) <= Level(ev) \/ n \in CallStarts(ev)
  BY <1>1 DEF StageAt
<1>2. CASE ~(Nesting(ev, n) <= Level(ev) \/ n \in CallStarts(ev))
  <2>1. n \in CallKeys(ev) => KeyOf(ev, n) = n
    <3> SUFFICES ASSUME n \in CallKeys(ev) PROVE KeyOf(ev, n) = n
      OBVIOUS
    <3>1. CallKeys(ev) \in SUBSET Nat /\ n \in Nat /\ n <= n
      BY Kinds
    <3> QED BY <3>1, LatestIs DEF KeyOf
  <2>2. StageAt(in, n) = IF ParamsOpen(ev, n) THEN "PARAMS"
                         ELSE IF n \in CallKeys(ev) THEN NameStage(in, ev[n][2])
                         ELSE "WAIT_NEXT"
    BY <1>2 DEF StageAt
  <2>3. n \in CallKeys(ev) /\ ParamsOpen(ev, n) => ev[n][2] = "params"
    BY <2>1 DEF ParamsOpen
  <2>4. n \in CallKeys(ev) /\ ~ParamsOpen(ev, n) => ev[n][2] # "params"
    BY <2>1 DEF ParamsOpen
  <2> QED BY <1>2, <2>2, <2>3, <2>4 DEF NameStage
<1> QED BY <1>1, <1>2

(* A value: one outside of params ends its field. *)
LEMMA StageOfValue ==
  ASSUME NEW in, in.events \in Seq(Callbacks), IsRequest(in.events),
         NEW n \in 0..(Len(in.events) - 1),
         in.events[n + 1][1] \in {"scalar", "integer", "string"}
  PROVE  /\ Nesting(in.events, n) > Level(in.events) /\ n \notin CallStarts(in.events)
         /\ Nesting(in.events, n + 1) = Nesting(in.events, n)
         /\ StageAt(in, n + 1) = IF StageAt(in, n) = "PARAMS" THEN "PARAMS" ELSE "WAIT_NEXT"
         /\ StageAt(in, n) = "PARAMS" => Nesting(in.events, n) > Level(in.events) + 1
         /\ StageAt(in, n) = "ID" => in.events[n + 1][1] = "integer"
         /\ StageAt(in, n) = "METHOD" => in.events[n + 1][1] = "string"
<1> DEFINE ev == in.events
           L == Level(ev)
<1>1. IsBody(ev) /\ n \in 0..Len(ev) /\ n + 1 \in 0..Len(ev) /\ L \in {0, 1}
  BY OpenUntilEnd DEF IsRequest
<1> HIDE DEF ev
<1>2. /\ n + 1 \notin Openings(ev) /\ n + 1 \notin Closings(ev) /\ n + 1 \in Values(ev)
      /\ n + 1 \notin MapKeys(ev) /\ n + 1 \notin CallKeys(ev) /\ n + 1 \notin CallStarts(ev)
  BY Kinds DEF CallKeys, CallStarts, ev
<1>3. Nesting(ev, n + 1) = Nesting(ev, n) /\ Nesting(ev, n) \in Nat
  BY <1>1, <1>2, NestingNext DEF ev
<1>4. Nesting(ev, n) > L /\ n \notin CallStarts(ev)
  BY <1>1, <1>3, BodySteps DEF InBody, ev
<1>5. KeyOf(ev, n + 1) = KeyOf(ev, n)
  BY <1>1, <1>2, <1>4, KeyNext DEF ev
<1>6. n \in CallKeys(ev) => ~ParamsOpen(ev, n)
  <2>1. n \in CallKeys(ev) => KeyOf(ev, n) = n
    <3> SUFFICES ASSUME n \in CallKeys(ev) PROVE KeyOf(ev, n) = n
      OBVIOUS
    <3>1. CallKeys(ev) \in SUBSET Nat /\ n \in Nat /\ n <= n
      BY Kinds DEF ev
    <3> QED BY <3>1, LatestIs DEF KeyOf
  <2> QED BY <1>2, <2>1, AfterKey DEF ParamsOpen, ev
<1>7. ParamsOpen(ev, n + 1) <=> ParamsOpen(ev, n)
  BY <1>1, <1>2, <1>3, <1>4, <1>5, <1>6 DEF ParamsOpen
<1>8. StageAt(in, n + 1) = IF ParamsOpen(ev, n + 1) THEN "PARAMS" ELSE "WAIT_NEXT"
  BY <1>1, <1>2, <1>3, <1>4 DEF StageAt, ev
<1>9. /\ StageAt(in, n) # "INIT"
      /\ (StageAt(in, n) = "PARAMS") <=> ParamsOpen(ev, n)
      /\ StageAt(in, n) = "ID" => n \in CallKeys(ev) /\ ev[n][2] = "id"
      /\ StageAt(in, n) = "METHOD" => n \in CallKeys(ev) /\ ev[n][2] = "method"
  <2>1. ~(Nesting(ev, n) <= L \/ n \in CallStarts(ev))
    BY <1>1, <1>3, <1>4
  <2> QED BY <1>1, <2>1, StageNow DEF ev
<1>10. ParamsOpen(ev, n) => Nesting(ev, n) > L + 1
  BY <1>6 DEF ParamsOpen
<1>11. /\ StageAt(in, n) = "ID" => ev[n + 1][1] = "integer"
       /\ StageAt(in, n) = "METHOD" => ev[n + 1][1] = "string"
  BY <1>9, AfterKey DEF ev
<1> QED BY <1>3, <1>4, <1>7, <1>8, <1>9, <1>10, <1>11 DEF ev

(* A key: it begins a field, or is one in params or of what is skipped. *)
LEMMA StageOfKey ==
  ASSUME NEW in, in.events \in Seq(Callbacks), IsRequest(in.events),
         NEW n \in 0..(Len(in.events) - 1), in.events[n + 1][1] = "map_key"
  PROVE  /\ Nesting(in.events, n) > Level(in.events)
         /\ Nesting(in.events, n + 1) = Nesting(in.events, n)
         /\ n \in CallStarts(in.events) => Nesting(in.events, n) = Level(in.events) + 1
         /\ StageAt(in, n) \in {"INIT", "WAIT_NEXT", "PARAMS"}
         /\ (StageAt(in, n) = "INIT") <=> n \in CallStarts(in.events)
         /\ StageAt(in, n + 1) = IF StageAt(in, n) = "PARAMS" THEN "PARAMS"
                                 ELSE NameStage(in, in.events[n + 1][2])
         /\ IF StageAt(in, n) = "PARAMS" THEN Nesting(in.events, n) > Level(in.events) + 1
            ELSE in.events[n + 1][2] \in {"params", "id", "method"} =>
                   n + 1 \in CallKeys(in.events)
<1> DEFINE ev == in.events
           L == Level(ev)
           k == ev[n + 1][2]
<1>1. IsBody(ev) /\ n \in 0..Len(ev) /\ n + 1 \in 0..Len(ev) /\ L \in {0, 1}
  BY OpenUntilEnd DEF IsRequest
<1> HIDE DEF ev
<1>2. /\ n + 1 \notin Openings(ev) /\ n + 1 \notin Closings(ev) /\ n + 1 \notin Values(ev)
      /\ n + 1 \in MapKeys(ev) /\ n + 1 \notin CallStarts(ev)
      /\ n + 1 \in CallKeys(ev) <=> Nesting(ev, n + 1) = L + 1
  BY Kinds DEF CallKeys, CallStarts, ev
<1>3. Nesting(ev, n + 1) = Nesting(ev, n) /\ Nesting(ev, n) \in Nat
  BY <1>1, <1>2, NestingNext DEF ev
<1>4. Nesting(ev, n) > L /\ (n \in CallStarts(ev) => Nesting(ev, n) = L + 1)
  BY <1>1, <1>3, BodySteps DEF InBody, ev
<1>5. n \notin CallKeys(ev)
  BY <1>2, AfterKey DEF ev
<1>6. /\ (StageAt(in, n) = "INIT") <=> n \in CallStarts(ev)
      /\ StageAt(in, n) # "INIT" => ((StageAt(in, n) = "PARAMS") <=> ParamsOpen(ev, n))
      /\ StageAt(in, n) \in {"INIT", "WAIT_NEXT", "PARAMS"}
  <2>1. ~(Nesting(ev, n) <= L)
    BY <1>1, <1>3, <1>4
  <2> QED BY <1>1, <1>5, <2>1, StageNow DEF ev
<1>7. StageAt(in, n) = "PARAMS" => Nesting(ev, n) > L + 1
  BY <1>5, <1>6 DEF ParamsOpen
<1>8. CASE n + 1 \in CallKeys(ev)
  <2>1. KeyOf(ev, n + 1) = n + 1 /\ Nesting(ev, n) = L + 1
    BY <1>1, <1>2, <1>3, <1>8, KeyNext DEF ev
  <2>2. StageAt(in, n) # "PARAMS"
    BY <1>1, <1>7, <2>1
  <2>3. StageAt(in, n + 1) = IF ParamsOpen(ev, n + 1) THEN "PARAMS" ELSE NameStage(in, k)
    BY <1>1, <1>2, <1>3, <1>4, <1>8 DEF StageAt, ev
  <2>4. ParamsOpen(ev, n + 1) <=> k = "params"
    BY <1>8, <2>1 DEF ParamsOpen
  <2>5. k = "params" => NameStage(in, k) = "PARAMS"
    BY DEF NameStage
  <2>6. StageAt(in, n + 1) = NameStage(in, k)
    BY <2>3, <2>4, <2>5
  <2> QED BY <1>3, <1>4, <1>6, <1>8, <2>2, <2>6 DEF ev
<1>9. CASE n + 1 \notin CallKeys(ev)
  <2>1. Nesting(ev, n) > L + 1 /\ n \notin CallStarts(ev)
    BY <1>1, <1>2, <1>3, <1>4, <1>9
  <2>2. KeyOf(ev, n + 1) = KeyOf(ev, n)
    BY <1>1, <1>4, <1>9, <2>1, KeyNext DEF ev
  <2>3. ParamsOpen(ev, n + 1) <=> ParamsOpen(ev, n)
    BY <1>3, <2>1, <2>2 DEF ParamsOpen
  <2>4. StageAt(in, n + 1) = IF ParamsOpen(ev, n + 1) THEN "PARAMS" ELSE "WAIT_NEXT"
    BY <1>1, <1>2, <1>3, <1>4, <1>9 DEF StageAt, ev
  <2>5. k \in {"params", "id", "method"} => ParamsOpen(ev, n + 1)
    <3> SUFFICES ASSUME k \in {"params", "id", "method"} PROVE ParamsOpen(ev, n + 1)
      OBVIOUS
    <3>1. Field(ev, n + 1) = "params"
      BY <1>2, <1>9 DEF IsRequest, ev
    <3> QED BY <1>3, <2>1, <3>1 DEF Field, ParamsOpen, KeyOf
  <2>6. k \notin {"params", "id", "method"} => NameStage(in, k) = "WAIT_NEXT"
    BY DEF NameStage
  <2>7. (StageAt(in, n) = "PARAMS") <=> ParamsOpen(ev, n)
    BY <1>6, <2>1
  <2> QED BY <1>3, <1>4, <1>6, <1>7, <1>9, <2>1, <2>3, <2>4, <2>5, <2>6, <2>7 DEF ev
<1> QED BY <1>8, <1>9

(* What opens keeps the stage. *)
LEMMA StageOfOpening ==
  ASSUME NEW in, in.events \in Seq(Callbacks), IsRequest(in.events),
         NEW n \in 0..(Len(in.events) - 1), n + 1 \in Openings(in.events)
  PROVE  /\ Nesting(in.events, n + 1) = Nesting(in.events, n) + 1
         /\ n + 1 \notin CallKeys(in.events) /\ n \notin CallStarts(in.events)
         /\ StageAt(in, n + 1) = StageAt(in, n)
         /\ StageAt(in, n) \in {"INIT", "WAIT_NEXT", "PARAMS"}
         /\ (StageAt(in, n) = "INIT") <=> Nesting(in.events, n) <= Level(in.events)
<1> DEFINE ev == in.events
           L == Level(ev)
<1>1. IsBody(ev) /\ n \in 0..Len(ev) /\ n + 1 \in 0..Len(ev) /\ L \in {0, 1} /\ n \in Nat
  BY OpenUntilEnd DEF IsRequest
<1> HIDE DEF ev
<1>2. n + 1 \in Values(ev) /\ n + 1 \notin MapKeys(ev) /\ n + 1 \notin CallKeys(ev)
      /\ ev[n + 1][1] \in {"start_map", "start_array"}
  BY Kinds DEF CallKeys, ev
<1>3. Nesting(ev, n + 1) = Nesting(ev, n) + 1 /\ Nesting(ev, n) \in Nat
  BY <1>1, NestingNext DEF ev
<1>4. InBody(ev, n)
  BY <1>1, BodySteps DEF ev
<1>5. /\ n \notin CallStarts(ev)
      /\ (n + 1 \in CallStarts(ev)) <=> (ev[n + 1][1] = "start_map" /\ Nesting(ev, n) = L)
  BY <1>2, <1>4 DEF InBody
<1>6. CASE Nesting(ev, n) <= L
  <2>1. Nesting(ev, n + 1) <= L \/ n + 1 \in CallStarts(ev)
    <3>1. CASE Nesting(ev, n) = L
      BY <1>2, <1>4, <1>5, <3>1 DEF InBody
    <3>2. CASE Nesting(ev, n) < L
      BY <1>1, <1>3, <3>2
    <3> QED BY <1>1, <1>3, <1>6, <3>1, <3>2
  <2>2. StageAt(in, n) = "INIT" /\ StageAt(in, n + 1) = "INIT"
    BY <1>6, <2>1 DEF StageAt, ev
  <2> QED BY <1>2, <1>3, <1>5, <1>6, <2>2 DEF ev
<1>7. CASE ~(Nesting(ev, n) <= L)
  <2>1. Nesting(ev, n) > L /\ n + 1 \notin CallStarts(ev) /\ ~(Nesting(ev, n + 1) <= L)
        /\ Nesting(ev, n + 1) > L + 1
    BY <1>1, <1>3, <1>5, <1>7
  <2>2. KeyOf(ev, n + 1) = KeyOf(ev, n)
    BY <1>1, <1>2, <1>5, <2>1, KeyNext DEF ev
  <2>3. Nesting(ev, n) = L + 1 => n \in CallKeys(ev)
    BY <1>2, HasKey DEF ev
  <2>4. ParamsOpen(ev, n + 1) <=> ParamsOpen(ev, n)
    BY <1>1, <1>3, <2>1, <2>2, <2>3 DEF ParamsOpen
  <2>5. StageAt(in, n + 1) = IF ParamsOpen(ev, n + 1) THEN "PARAMS" ELSE "WAIT_NEXT"
    BY <1>2, <2>1 DEF StageAt, ev
  <2>6. StageAt(in, n) # "INIT" /\ ((StageAt(in, n) = "PARAMS") <=> ParamsOpen(ev, n))
        /\ StageAt(in, n) \in {"WAIT_NEXT", "PARAMS"}
    <3>1. n \in CallKeys(ev) => ev[n][2] \notin {"id", "method"}
      <4>1. ev[n + 1][1] \notin {"integer", "string"}
        BY <1>2
      <4> QED BY <4>1, AfterKey DEF ev
    <3> QED BY <1>1, <1>5, <1>7, <3>1, StageNow DEF ev
  <2> QED BY <1>2, <1>3, <1>5, <1>7, <2>4, <2>5, <2>6 DEF ev
<1> QED BY <1>6, <1>7

(* What closes: the params, the call or what it is that is skipped. *)
LEMMA StageOfClosing ==
  ASSUME NEW in, in.events \in Seq(Callbacks), IsRequest(in.events),
         NEW n \in 0..(Len(in.events) - 1), n + 1 \in Closings(in.events)
  PROVE  /\ Nesting(in.events, n + 1) = Nesting(in.events, n) - 1
         /\ n + 1 \notin CallKeys(in.events) /\ n \notin CallStarts(in.events)
         /\ n \notin CallKeys(in.events)
         /\ StageAt(in, n) \in {"INIT", "WAIT_NEXT", "PARAMS"}
         /\ (StageAt(in, n) = "INIT") <=> Nesting(in.events, n) <= Level(in.events)
         /\ StageAt(in, n) = "PARAMS" => Nesting(in.events, n) > Level(in.events) + 1
         /\ StageAt(in, n + 1) = IF Nesting(in.events, n + 1) <= Level(in.events) THEN "INIT"
                                 ELSE IF Nesting(in.events, n + 1) = Level(in.events) + 1
                                      THEN "WAIT_NEXT"
                                 ELSE StageAt(in, n)
<1> DEFINE ev == in.events
           L == Level(ev)
<1>1. IsBody(ev) /\ n \in 0..Len(ev) /\ n + 1 \in 0..Len(ev) /\ L \in {0, 1} /\ n \in Nat
  BY OpenUntilEnd DEF IsRequest
<1> HIDE DEF ev
<1>2. n + 1 \notin Values(ev) /\ n + 1 \notin MapKeys(ev) /\ n + 1 \notin CallKeys(ev)
      /\ n + 1 \notin Openings(ev) /\ ev[n + 1][1] \in {"end_map", "end_array"}
  BY Kinds DEF CallKeys, ev
<1>3. Nesting(ev, n + 1) = Nesting(ev, n) - 1 /\ Nesting(ev, n) \in Nat /\ Nesting(ev, n + 1) \in Nat
  BY <1>1, <1>2, NestingNext DEF ev
<1>4. n \notin CallStarts(ev) /\ n + 1 \notin CallStarts(ev)
  BY <1>1, <1>2, BodySteps DEF InBody, ev
<1>5. n \notin CallKeys(ev)
  BY <1>2, AfterKey DEF ev
<1>6. /\ (StageAt(in, n) = "INIT") <=> Nesting(ev, n) <= L
      /\ StageAt(in, n) # "INIT" => ((StageAt(in, n) = "PARAMS") <=> ParamsOpen(ev, n))
      /\ StageAt(in, n) \in {"INIT", "WAIT_NEXT", "PARAMS"}
  BY <1>1, <1>4, <1>5, StageNow DEF ev
<1>7. StageAt(in, n) = "PARAMS" => Nesting(ev, n) > L + 1
  BY <1>5, <1>6 DEF ParamsOpen
<1>8. CASE Nesting(ev, n + 1) <= L
  BY <1>2, <1>3, <1>4, <1>5, <1>6, <1>7, <1>8 DEF StageAt, ev
<1>9. CASE ~(Nesting(ev, n + 1) <= L)
  <2>1. Nesting(ev, n) > L
    BY <1>1, <1>3, <1>9
  <2>2. KeyOf(ev, n + 1) = KeyOf(ev, n)
    BY <1>1, <1>2, <1>4, <2>1, KeyNext DEF ev
  <2>3. ParamsOpen(ev, n + 1) <=> ParamsOpen(ev, n) /\ Nesting(ev, n + 1) # L + 1
    BY <1>1, <1>2, <1>3, <1>5, <1>9, <2>2 DEF ParamsOpen
  <2>4. StageAt(in, n + 1) = IF ParamsOpen(ev, n + 1) THEN "PARAMS" ELSE "WAIT_NEXT"
    BY <1>2, <1>4, <1>9 DEF StageAt, ev
  <2>5. StageAt(in, n) # "INIT"
    BY <1>1, <1>3, <1>6, <2>1
  <2> QED BY <1>2, <1>3, <1>4, <1>5, <1>6, <1>7, <1>9, <2>3, <2>4, <2>5 DEF ev
<1> QED BY <1>8, <1>9

-----------------------------------------------------------------------------
(* What is to be written *)

(* The items of something are so many. *)
LEMMA ItemsType ==
  ASSUME NEW ev \in Seq(Callbacks), NEW o
  PROVE  /\ Items(ev, o) \in SUBSET (1..Len(ev)) /\ IsFiniteSet(Items(ev, o))
         /\ Cardinality(Items(ev, o)) \in Nat
<1>1. Items(ev, o) \in SUBSET (1..Len(ev))
  BY Kinds DEF Items
<1>2. IsFiniteSet(1..Len(ev)) /\ Len(ev) \in Nat
  <2>1. Len(ev) \in Nat
    OBVIOUS
  <2> QED BY <2>1, FS_Interval
<1> QED BY <1>1, <1>2, FS_Subset, FS_CardinalityType

(* An id is a number. *)
LEMMA IdType == ASSUME NEW ev \in Seq(Callbacks), NEW c PROVE Id(ev, c) \in Int
<1>1. CASE Ids(ev, c) = {}
  BY <1>1 DEF Id
<1>2. CASE Ids(ev, c) # {}
  <2>1. Ids(ev, c) \in SUBSET (1..Len(ev)) /\ Len(ev) \in Nat
    BY Kinds DEF Ids
  <2>2. PICK j \in Ids(ev, c) : j <= Len(ev)
    BY <1>2, <2>1
  <2>3. Latest(Len(ev), Ids(ev, c)) \in Ids(ev, c)
    <3>1. Ids(ev, c) \in SUBSET Nat
      BY <2>1
    <3> QED BY <2>1, <2>2, <3>1, LatestExists
  <2> DEFINE e == ev[Latest(Len(ev), Ids(ev, c))]
  <2>4. e \in Callbacks /\ e[1] = "integer"
    BY <2>1, <2>3 DEF Ids
  <2> HIDE DEF e
  <2>5. e[2] \in Int
    BY <2>4, IntegersAreInt
  <2> QED BY <1>2, <2>5 DEF Id, e
<1> QED BY <1>1, <1>2

(* The headers are tokens. *)
LEMMA HeaderType ==
  ASSUME NEW in, in.events \in Seq(Callbacks), NEW n PROVE Header(in, n) \in Tokens
<1> DEFINE items == Cardinality(Items(in.events, n))
<1>1. items \in Int /\ items + 1 \in Int
  BY ItemsType
<1> HIDE DEF items
<1>2. <<"map", items>> \in Tokens /\ <<"array", items>> \in Tokens /\ <<"array", items + 1>> \in Tokens
  BY <1>1, MarksAreTokens
<1>3. Header(in, n) \in {<<"map", items>>, <<"array", items>>, <<"array", items + 1>>}
  BY DEF Header, items
<1> QED BY <1>2, <1>3

(* So is all that a callback means. *)
LEMMA MeaningType ==
  ASSUME NEW in, in.events \in Seq(Callbacks), NEW n PROVE Meaning(in, n) \in Seq(Tokens)
<1>1. /\ Header(in, n) \in Tokens /\ <<"header", Id(in.events, n - 1)>> \in Tokens
      /\ \A c \in {"func", "TUPLE", "data", "value", "key"} : <<c>> \in Tokens
      /\ <<"array", 0>> \in Tokens /\ <<"array", 1>> \in Tokens
  BY HeaderType, IdType, MarksAreTokens
<1>2. ParamsMeaning(in, n) \in Seq(Tokens)
  <2>1. /\ << <<"key">> >> \in Seq(Tokens) /\ << <<"value">> >> \in Seq(Tokens)
        /\ << Header(in, n), <<"data">> >> \in Seq(Tokens) /\ << Header(in, n) >> \in Seq(Tokens)
        /\ <<>> \in Seq(Tokens)
    BY <1>1, Sequences, Zenon
  <2> QED BY <2>1, Zenon DEF ParamsMeaning
<1>3. OwnMeaning(in, n) \in Seq(Tokens)
  <2>1. /\ << <<"TUPLE">> >> \in Seq(Tokens) /\ << <<"func">> >> \in Seq(Tokens)
        /\ << <<"TUPLE">>, <<"array", 1>>, <<"data">> >> \in Seq(Tokens)
        /\ << <<"TUPLE">>, <<"array", 0>> >> \in Seq(Tokens) /\ <<>> \in Seq(Tokens)
    BY <1>1, Sequences, Zenon
  <2> QED BY <2>1, Zenon DEF OwnMeaning
<1>4. Beginning(in, n) \in Seq(Tokens)
  <2> DEFINE h == <<"header", Id(in.events, n - 1)>>
             f == <<"func">>
  <2>1. h \in Tokens /\ f \in Tokens
    BY <1>1
  <2>2. Beginning(in, n) = <<>> \/ Beginning(in, n) = <<h>> \o <<>> \/ Beginning(in, n) = <<h>> \o <<f>>
    BY DEF Beginning
  <2> HIDE DEF h, f
  <2>3. <<h>> \o <<>> \in Seq(Tokens) /\ <<h>> \o <<f>> \in Seq(Tokens) /\ <<>> \in Seq(Tokens)
    BY <2>1
  <2> QED BY <2>2, <2>3, Zenon
<1> DEFINE b == Beginning(in, n)
           o == OwnMeaning(in, n)
<1>5. Meaning(in, n) = ParamsMeaning(in, n) \/ Meaning(in, n) = b \o o
  BY DEF Meaning
<1>6. b \o o \in Seq(Tokens)
  <2> HIDE DEF b, o
  <2> QED BY <1>3, <1>4 DEF b, o
<1> QED BY <1>2, <1>5, <1>6, Zenon

(* What is to be written grows by what each callback means. *)
LEMMA EncodedSteps ==
  ASSUME NEW in, in.events \in Seq(Callbacks)
  PROVE  /\ Encoded(in)[0] = <<>>
         /\ \A n \in 0..Len(in.events) : Encoded(in)[n] \in Seq(Tokens)
         /\ \A n \in 0..(Len(in.events) - 1) :
              Encoded(in)[n + 1] = Encoded(in)[n] \o Meaning(in, n + 1)
<1> DEFINE N == Len(in.events)
           D == Seq(Tokens)
           M(n) == Meaning(in, n)
           step == [n \in 1..N |-> [d \in D |-> d \o M(n)]]
           Body(g) == [n \in 0..N |-> IF n = 0 THEN <<>> ELSE g[n - 1] \o M(n)]
           upTo == CHOOSE g : g = Body(g)
<1>1. Encoded(in) = upTo
  BY DEF Encoded
<1>2. N \in Nat /\ \A n \in 1..N : M(n) \in D
  BY MeaningType
<1> HIDE DEF N, M
<1>3. \A n \in 1..N : \A d \in D : step[n][d] = d \o M(n) /\ step[n][d] \in D
  BY <1>2
<1>4. <<>> \in D
  OBVIOUS
<1>5. PICK f \in [0..N -> D] : IsRun(f, <<>>, step, N)
  <2> HIDE DEF D, step
  <2>1. StaysIn(D, step, N)
    BY <1>3 DEF StaysIn
  <2> QED BY <1>2, <1>4, <2>1, Recursion
<1>6. \A n \in 1..N : n - 1 \in 0..N /\ n # 0 /\ n \in 0..N
  BY <1>2
<1>7. f[0] = <<>> /\ \A n \in 1..N : f[n] = f[n - 1] \o M(n)
  <2> HIDE DEF D, step
  <2> QED BY <1>3, <1>5, <1>6 DEF IsRun
<1>8. f = Body(f)
  <2>1. \A n \in 0..N : n # 0 => n \in 1..N
    BY <1>2
  <2> HIDE DEF D
  <2> QED BY <1>5, <1>7, <2>1
<1>9. upTo = Body(upTo)
  <2> HIDE DEF Body
  <2> QED BY <1>8
<1> HIDE DEF upTo
<1>10. 0 \in 0..N
  BY <1>2
<1>11. upTo[0] = <<>>
  BY <1>9, <1>10
<1>12. \A n \in 0..(N - 1) : upTo[n + 1] = upTo[n] \o M(n + 1)
  <2>1. \A n \in 1..N : upTo[n] = upTo[n - 1] \o M(n)
    BY <1>6, <1>9
  <2> SUFFICES ASSUME NEW n \in 0..(N - 1) PROVE upTo[n + 1] = upTo[n] \o M(n + 1)
    OBVIOUS
  <2>2. n + 1 \in 1..N /\ n + 1 - 1 = n
    BY <1>2
  <2> DEFINE k == n + 1
  <2>3. k - 1 = n /\ k \in 1..N
    BY <2>2
  <2> HIDE DEF M, k
  <2>4. upTo[k] = upTo[k - 1] \o M(k)
    BY <2>1, <2>3
  <2>5. upTo[k] = upTo[n] \o M(k)
    BY <2>3, <2>4
  <2> QED BY <2>5 DEF k
<1>13. \A n \in 0..N : upTo[n] \in D
  <2> DEFINE S == {n \in Nat : n <= N => upTo[n] \in D}
  <2>1. 0 \in S
    BY <1>4, <1>11
  <2>2. ASSUME NEW n \in Nat, n \in S PROVE n + 1 \in S
    <3> SUFFICES ASSUME n + 1 <= N PROVE upTo[n + 1] \in D
      OBVIOUS
    <3>1. n + 1 \in 1..N /\ n \in 0..(N - 1) /\ n <= N
      BY <1>2
    <3>2. upTo[n] \in D /\ M(n + 1) \in D
      BY <1>2, <2>2, <3>1
    <3>3. upTo[n + 1] = upTo[n] \o M(n + 1)
      BY <1>12, <3>1
    <3> HIDE DEF M
    <3> QED BY <3>2, <3>3
  <2> HIDE DEF S
  <2>3. Nat \subseteq S
    BY <2>1, <2>2, Induction
  <2> QED BY <1>2, <2>3 DEF S
<1> QED BY <1>1, <1>11, <1>12, <1>13 DEF N, M

(* What was written stays at the beginning of what is. *)
LEMMA EncodedGrows ==
  ASSUME NEW in, in.events \in Seq(Callbacks), NEW m \in 0..Len(in.events),
         NEW n \in m..Len(in.events)
  PROVE  /\ Len(Encoded(in)[m]) <= Len(Encoded(in)[n])
         /\ \A p \in 1..Len(Encoded(in)[m]) : Encoded(in)[n][p] = Encoded(in)[m][p]
<1> DEFINE w(k) == Encoded(in)[k]
           N == Len(in.events)
           Holds(k) == Len(w(m)) <= Len(w(k)) /\ \A p \in 1..Len(w(m)) : w(k)[p] = w(m)[p]
           S == {d \in Nat : m + d <= N => Holds(m + d)}
<1>1. N \in Nat /\ m \in Nat /\ m <= N /\ n \in Nat /\ m <= n /\ n <= N
  OBVIOUS
<1>2. \A k \in 0..N : w(k) \in Seq(Tokens)
  BY EncodedSteps
<1>3. \A k \in 0..(N - 1) : w(k + 1) = w(k) \o Meaning(in, k + 1) /\ Meaning(in, k + 1) \in Seq(Tokens)
  BY EncodedSteps, MeaningType
<1> HIDE DEF w, N
<1>4. 0 \in S
  <2>1. w(m) \in Seq(Tokens) /\ m + 0 = m
    BY <1>1, <1>2
  <2>2. Len(w(m)) \in Nat
    BY <2>1
  <2> QED BY <2>1, <2>2
<1>5. ASSUME NEW d \in Nat, d \in S PROVE d + 1 \in S
  <2> SUFFICES ASSUME m + (d + 1) <= N PROVE Holds(m + (d + 1))
    OBVIOUS
  <2> DEFINE k == m + d
             t == Meaning(in, k + 1)
  <2>1. k \in 0..(N - 1) /\ k \in 0..N /\ m + (d + 1) = k + 1 /\ k <= N
    BY <1>1
  <2>2. Holds(k)
    BY <1>5, <2>1
  <2>3. w(k) \in Seq(Tokens) /\ t \in Seq(Tokens) /\ w(k + 1) = w(k) \o t /\ w(m) \in Seq(Tokens)
    BY <1>1, <1>2, <1>3, <2>1
  <2> HIDE DEF k, t
  <2>4. Len(w(k + 1)) >= Len(w(k)) /\ \A p \in 1..Len(w(k)) : w(k + 1)[p] = w(k)[p]
    BY <2>3
  <2>5. Len(w(k)) \in Nat /\ Len(w(m)) \in Nat /\ Len(w(k + 1)) \in Nat
    BY <2>3
  <2>6. Holds(k + 1)
    <3>1. \A p \in 1..Len(w(m)) : p \in 1..Len(w(k))
      BY <2>2, <2>5
    <3> QED BY <2>2, <2>4, <2>5, <3>1
  <2> QED BY <2>1, <2>6
<1> HIDE DEF S
<1>6. Nat \subseteq S
  BY <1>4, <1>5, Induction
<1>7. n - m \in S /\ m + (n - m) = n
  BY <1>1, <1>6
<1>8. Holds(n)
  BY <1>1, <1>7 DEF S
<1> QED BY <1>8 DEF w

(* Where something opens, none of its items has come. *)
LEMMA ItemsAtStart ==
  ASSUME NEW ev \in Seq(Callbacks), IsBody(ev), NEW n \in 0..Len(ev)
  PROVE  Place(n, Items(ev, n)) = 0
<1>1. ASSUME NEW m \in Items(ev, n), m <= n PROVE FALSE
  <2>1. m \in 1..Len(ev) /\ m > 1 /\ Inside(ev, m) = n
    BY ItemsType DEF Items
  <2>2. n \in 1..(m - 1)
    BY <2>1, ItemsLater
  <2> QED BY <1>1, <2>1, <2>2
<1>2. {m \in Items(ev, n) : m <= n} = {}
  BY <1>1
<1> QED BY <1>2, FS_EmptySet DEF Place

(* Where it closes, they all have. *)
LEMMA ItemsAtEnd ==
  ASSUME NEW ev \in Seq(Callbacks), IsBody(ev), NEW n \in 0..(Len(ev) - 1),
         n + 1 \in Closings(ev)
  PROVE  /\ \A m \in Items(ev, Opener(ev, n, Nesting(ev, n))) : m <= n
         /\ Place(n, Items(ev, Opener(ev, n, Nesting(ev, n))))
              = Cardinality(Items(ev, Opener(ev, n, Nesting(ev, n))))
<1> DEFINE o == Opener(ev, n, Nesting(ev, n))
<1>1. Items(ev, o) \in SUBSET (1..Len(ev)) /\ n \in Nat
  BY ItemsType
<1>2. n + 1 \notin Items(ev, o)
  BY Kinds DEF Items
<1>3. ASSUME NEW m \in Items(ev, o) PROVE m <= n
  <2>1. m \in 1..Len(ev) /\ Inside(ev, m) = o /\ m # n + 1
    BY <1>1, <1>2 DEF Items
  <2>2. ~(n + 1 < m)
    BY <2>1, NoMoreItems
  <2> QED BY <1>1, <2>1, <2>2
<1> HIDE DEF o
<1>4. Items(ev, o) \in SUBSET Nat
  BY <1>1
<1> QED BY <1>1, <1>3, <1>4, PlaceOfAll DEF o

(* The id that a call was given up to a callback. *)
IdSoFar(ev, c, n) ==
  IF \E m \in Ids(ev, c) : m <= n THEN ev[Latest(n, Ids(ev, c))][2] ELSE 0

(* None at first. *)
LEMMA IdAtStart ==
  ASSUME NEW ev \in Seq(Callbacks), IsBody(ev), NEW n \in 0..Len(ev)
  PROVE  /\ IdSoFar(ev, n, n) = 0
         /\ n < Len(ev) /\ n + 1 \notin Values(ev) => IdSoFar(ev, n, n + 1) = 0
<1>1. ASSUME NEW m \in Ids(ev, n) PROVE m \in Nat /\ n < m /\ m \in Values(ev)
  <2>1. m \in 1..Len(ev) /\ m > 1 /\ Inside(ev, m) = n /\ m \in Values(ev)
    BY Kinds DEF Ids
  <2>2. n \in 1..(m - 1)
    BY <2>1, ItemsLater
  <2> QED BY <2>1, <2>2
<1>2. IdSoFar(ev, n, n) = 0
  <2>1. ~\E m \in Ids(ev, n) : m <= n
    BY <1>1
  <2> QED BY <2>1 DEF IdSoFar
<1>3. ASSUME n < Len(ev), n + 1 \notin Values(ev) PROVE IdSoFar(ev, n, n + 1) = 0
  <2>1. ~\E m \in Ids(ev, n) : m <= n + 1
    BY <1>1, <1>3
  <2> QED BY <2>1 DEF IdSoFar
<1> QED BY <1>2, <1>3

(* It changes with the value of the key. *)
LEMMA IdNext ==
  ASSUME NEW ev \in Seq(Callbacks), IsRequest(ev), NEW n \in 0..(Len(ev) - 1),
         Nesting(ev, n) > Level(ev)
  PROVE  IdSoFar(ev, CallOf(ev, n), n + 1) =
           IF n \in CallKeys(ev) /\ ev[n][2] = "id" THEN ev[n + 1][2]
           ELSE IdSoFar(ev, CallOf(ev, n), n)
<1> DEFINE L == Level(ev)
           c == CallOf(ev, n)
<1>1. IsBody(ev) /\ n \in 0..Len(ev) /\ L \in {0, 1} /\ n \in Nat /\ n + 1 \in Nat
      /\ Nesting(ev, n) \in Nat /\ n + 1 - 1 = n
  BY OpenUntilEnd DEF IsRequest
<1>2. n # 0
  BY <1>1, NestingSteps
<1>3. IsOpener(ev, n, L + 1, c) /\ c \in Nat
  BY <1>1, CallIsOpen DEF IsOpener
<1>4. Inside(ev, n + 1) = Opener(ev, n, Nesting(ev, n))
  BY <1>1 DEF Inside
<1>5. Inside(ev, n + 1) = c <=> Nesting(ev, n) = L + 1
  <2>1. Nesting(ev, n) \in 1..Nesting(ev, n)
    BY <1>1
  <2>2. IsOpener(ev, n, Nesting(ev, n), Opener(ev, n, Nesting(ev, n)))
    BY <1>1, <2>1, Openers
  <2>3. Nesting(ev, c) = L + 1 /\ Nesting(ev, Inside(ev, n + 1)) = Nesting(ev, n)
    BY <1>3, <1>4, <2>2 DEF IsOpener
  <2> QED BY <1>4, <2>3 DEF CallOf
<1>6. n + 1 \in Ids(ev, c) <=> n \in CallKeys(ev) /\ ev[n][2] = "id"
  <2>1. ASSUME n + 1 \in Ids(ev, c) PROVE n \in CallKeys(ev) /\ ev[n][2] = "id"
    <3>1. n + 1 \in Values(ev) /\ Inside(ev, n + 1) = c /\ ev[n][2] = "id"
      BY <1>1, <2>1 DEF Ids
    <3> QED BY <1>5, <3>1, HasKey
  <2>2. ASSUME n \in CallKeys(ev), ev[n][2] = "id" PROVE n + 1 \in Ids(ev, c)
    <3>1. n + 1 \in Values(ev) /\ ev[n + 1][1] = "integer"
      BY <2>2, AfterKey
    <3>2. Inside(ev, n + 1) = c
      BY <1>5, <2>2 DEF CallKeys
    <3>3. n + 1 > 1
      BY <1>1, <1>2
    <3> QED BY <1>1, <2>2, <3>1, <3>2, <3>3 DEF Ids
  <2> QED BY <2>1, <2>2
<1>7. Ids(ev, c) \in SUBSET Nat
  BY Kinds DEF Ids
<1> HIDE DEF c
<1>8. CASE n + 1 \in Ids(ev, c)
  <2>1. Latest(n + 1, Ids(ev, c)) = n + 1 /\ n + 1 <= n + 1
    BY <1>1, <1>7, <1>8, LatestNext
  <2>2. IdSoFar(ev, c, n + 1) = ev[n + 1][2]
    BY <1>8, <2>1 DEF IdSoFar
  <2> QED BY <1>6, <1>8, <2>2 DEF c
<1>9. CASE n + 1 \notin Ids(ev, c)
  <2>1. \A m \in Ids(ev, c) : m <= n + 1 <=> m <= n
    BY <1>1, <1>7, <1>9
  <2>2. (\E m \in Ids(ev, c) : m <= n) => Latest(n + 1, Ids(ev, c)) = Latest(n, Ids(ev, c))
    BY <1>1, <1>7, <1>9, LatestNext
  <2>3. IdSoFar(ev, c, n + 1) = IdSoFar(ev, c, n)
    BY <2>1, <2>2 DEF IdSoFar
  <2> QED BY <1>6, <1>9, <2>3 DEF c
<1> QED BY <1>8, <1>9

(* Where the call closes it is the call's. *)
LEMMA IdAtEnd ==
  ASSUME NEW ev \in Seq(Callbacks), IsBody(ev), NEW n \in 0..(Len(ev) - 1),
         n + 1 \in Closings(ev), Nesting(ev, n) = Level(ev) + 1
  PROVE  IdSoFar(ev, CallOf(ev, n), n) = Id(ev, CallOf(ev, n))
<1> DEFINE c == CallOf(ev, n)
           T == Ids(ev, c)
<1>1. c = Opener(ev, n, Nesting(ev, n)) /\ n \in Nat /\ Len(ev) \in Nat
  BY DEF CallOf
<1>2. ASSUME NEW m \in T PROVE m <= n /\ m \in Nat
  <2>1. m \in 1..Len(ev) /\ Inside(ev, m) = c /\ m # n + 1
    BY Kinds DEF Ids
  <2>2. ~(n + 1 < m)
    BY <1>1, <2>1, NoMoreItems
  <2> QED BY <1>1, <2>1, <2>2
<1> HIDE DEF c
<1>3. T \in SUBSET Nat /\ n <= Len(ev)
  BY <1>2
<1>4. CASE T = {}
  BY <1>4 DEF IdSoFar, Id, c
<1>5. CASE T # {}
  <2>1. PICK m \in T : m <= n
    BY <1>2, <1>5
  <2>2. Latest(n, T) \in T /\ Latest(n, T) <= n /\ \A k \in T : k <= n => k <= Latest(n, T)
    <3> HIDE DEF T
    <3> QED BY <1>1, <1>3, <2>1, LatestExists
  <2>3. Latest(n, T) <= Len(ev) /\ \A k \in T : k <= Len(ev) => k <= Latest(n, T)
    <3>1. \A k \in T : k <= n
      BY <1>2
    <3> HIDE DEF T
    <3>2. \A k \in Nat : k <= n => k <= Len(ev)
      BY <1>1, <1>3
    <3> QED BY <1>3, <2>2, <3>1, <3>2
  <2>4. Latest(Len(ev), T) = Latest(n, T)
    <3> HIDE DEF T
    <3> QED BY <1>1, <1>3, <2>2, <2>3, LatestIs
  <2> QED BY <1>5, <2>1, <2>4 DEF IdSoFar, Id, c
<1> QED BY <1>4, <1>5

-----------------------------------------------------------------------------
(* What is written but for what is not known yet *)

(* o is w except at the places of P. *)
Matches(o, w, P) == Len(o) = Len(w) /\ \A p \in 1..Len(o) : o[p] = w[p] \/ p \in P

(* More is written. *)
LEMMA MatchesMore ==
  ASSUME NEW o \in Seq(Tokens), NEW w \in Seq(Tokens), NEW P, Matches(o, w, P),
         NEW t \in Seq(Tokens), NEW m \in Seq(Tokens), Len(t) = Len(m),
         NEW Q, P \subseteq Q, \A q \in 1..Len(t) : t[q] = m[q] \/ Len(o) + q \in Q
  PROVE  Matches(o \o t, w \o m, Q)
<1>1. Len(o) = Len(w) /\ Len(o) \in Nat /\ Len(t) \in Nat
  BY DEF Matches
<1>2. Len(o \o t) = Len(o) + Len(t) /\ Len(w \o m) = Len(o) + Len(t)
  <2>1. \A a \in Seq(Tokens), b \in Seq(Tokens) : Len(a \o b) = Len(a) + Len(b)
    OBVIOUS
  <2> QED BY <1>1, <2>1, Zenon
<1>3. ASSUME NEW p \in 1..(Len(o) + Len(t)) PROVE (o \o t)[p] = (w \o m)[p] \/ p \in Q
  <2>1. CASE p <= Len(o)
    <3>1. p \in 1..Len(o)
      BY <1>1, <2>1
    <3>2. (o \o t)[p] = o[p] /\ (w \o m)[p] = w[p]
      BY <1>1, <3>1
    <3> QED BY <3>1, <3>2 DEF Matches
  <2>2. CASE ~(p <= Len(o))
    <3> DEFINE q == p - Len(o)
    <3>1. q \in 1..Len(t) /\ Len(o) + q = p
      BY <1>1, <2>2
    <3>2. (o \o t)[p] = t[q] /\ (w \o m)[p] = m[q]
      BY <1>1, <2>2, <3>1
    <3> HIDE DEF q
    <3> QED BY <3>1, <3>2
  <2> QED BY <2>1, <2>2
<1> QED BY <1>2, <1>3 DEF Matches

(* What was not known is put into its place. *)
LEMMA MatchesPut ==
  ASSUME NEW o \in Seq(Tokens), NEW w \in Seq(Tokens), NEW P, Matches(o, w, P),
         NEW p \in 1..Len(o), NEW t \in Tokens, NEW Q,
         \A x \in P : x \in Q \/ x = p, t = w[p] \/ p \in Q
  PROVE  Matches([o EXCEPT ![p] = t], w, Q)
<1> DEFINE o2 == [o EXCEPT ![p] = t]
<1>1. Len(o) = Len(w) /\ Len(o2) = Len(o) /\ o2[p] = t /\ \A x \in 1..Len(o) : x # p => o2[x] = o[x]
  BY DEF Matches
<1>2. \A x \in 1..Len(o) : o2[x] = w[x] \/ x \in Q
  BY <1>1 DEF Matches
<1> QED BY <1>1, <1>2 DEF Matches

-----------------------------------------------------------------------------
(* What each callback means, by the stage it is called in *)

(* A callback is of the value of params where the stage says so. *)
LEMMA InParamsHere ==
  ASSUME NEW in, in.events \in Seq(Callbacks), IsRequest(in.events),
         NEW n \in 0..(Len(in.events) - 1)
  PROVE  InParams(in.events, n + 1) <=> StageAt(in, n) = "PARAMS"
<1> DEFINE ev == in.events
           L == Level(ev)
<1>1. IsBody(ev) /\ n \in 0..Len(ev) /\ L \in {0, 1} /\ n \in Nat /\ n + 1 - 1 = n
  BY OpenUntilEnd DEF IsRequest
<1> HIDE DEF ev
<1>2. /\ Nesting(ev, n) \in Nat /\ Nesting(ev, n + 1) \in Nat
      /\ Nesting(ev, n + 1) = (IF n + 1 \in Openings(ev) THEN Nesting(ev, n) + 1
                               ELSE IF n + 1 \in Closings(ev) THEN Nesting(ev, n) - 1
                               ELSE Nesting(ev, n))
  BY <1>1, NestingNext DEF ev
<1>3. /\ n + 1 \in CallKeys(ev) => Nesting(ev, n + 1) = L + 1 /\ Nesting(ev, n) = L + 1
      /\ n + 1 \in Openings(ev) => n + 1 \in Values(ev) /\ n + 1 \notin CallKeys(ev)
  <2>1. n + 1 \in CallKeys(ev) => n + 1 \notin Openings(ev) /\ n + 1 \notin Closings(ev)
    BY Kinds DEF CallKeys, ev
  <2>2. n + 1 \in Openings(ev) => n + 1 \in Values(ev)
    BY Kinds DEF ev
  <2> QED BY <1>2, <2>1, <2>2 DEF CallKeys
<1>4. n \in CallStarts(ev) => Nesting(ev, n) = L + 1 /\ n + 1 \notin Openings(ev)
  <2>1. n \in CallStarts(ev) => Nesting(ev, n) = L + 1 /\ ev[n + 1][1] = "map_key"
    BY <1>1, BodySteps DEF InBody, ev
  <2> QED BY <2>1, Kinds DEF ev
<1>5. InParams(ev, n + 1) <=> /\ Nesting(ev, n) > L + 1 \/ Nesting(ev, n + 1) > L + 1
                              /\ ev[KeyOf(ev, n + 1)][2] = "params"
  BY <1>1 DEF InParams, Field, KeyOf
<1>6. ASSUME StageAt(in, n) = "PARAMS" PROVE InParams(ev, n + 1)
  <2>1. Nesting(ev, n) > L /\ n \notin CallStarts(ev) /\ ParamsOpen(ev, n)
    BY <1>1, <1>2, <1>6, StageNow DEF ev
  <2>2. /\ n + 1 \notin CallKeys(ev)
        /\ Nesting(ev, n) > L + 1 \/ Nesting(ev, n + 1) > L + 1
    <3>1. CASE n \in CallKeys(ev)
      <4>1. KeyOf(ev, n) = n
        <5>1. CallKeys(ev) \in SUBSET Nat /\ n <= n
          BY <1>1, Kinds DEF ev
        <5> QED BY <1>1, <3>1, <5>1, LatestIs DEF KeyOf
      <4>2. n + 1 \notin CallKeys(ev) /\ n + 1 \in Openings(ev)
        BY <2>1, <3>1, <4>1, AfterKey DEF ParamsOpen, ev
      <4> QED BY <1>1, <1>2, <2>1, <4>2
    <3>2. CASE n \notin CallKeys(ev)
      BY <1>1, <1>2, <1>3, <2>1, <3>2 DEF ParamsOpen
    <3> QED BY <3>1, <3>2
  <2>3. KeyOf(ev, n + 1) = KeyOf(ev, n)
    BY <1>1, <2>1, <2>2, KeyNext DEF ev
  <2> QED BY <1>5, <2>1, <2>2, <2>3 DEF ParamsOpen
<1>7. ASSUME InParams(ev, n + 1) PROVE StageAt(in, n) = "PARAMS"
  <2>1. /\ n \notin CallStarts(ev) /\ n + 1 \notin CallKeys(ev) /\ Nesting(ev, n) > L
        /\ Nesting(ev, n) > L + 1 \/ (n + 1 \in Openings(ev) /\ Nesting(ev, n) = L + 1)
    BY <1>1, <1>2, <1>3, <1>4, <1>5, <1>7
  <2>2. KeyOf(ev, n + 1) = KeyOf(ev, n)
    BY <1>1, <2>1, KeyNext DEF ev
  <2>3. Nesting(ev, n) > L + 1 \/ n \in CallKeys(ev)
    BY <1>3, <2>1, HasKey DEF ev
  <2>4. ParamsOpen(ev, n)
    BY <1>5, <1>7, <2>2, <2>3 DEF ParamsOpen
  <2>5. StageAt(in, n) # "INIT"
    BY <1>1, <1>2, <2>1, StageNow DEF ev
  <2> QED BY <1>1, <2>4, <2>5, StageNow DEF ev
<1> QED BY <1>6, <1>7 DEF ev

(* Outside of them it has its own meaning. *)
LEMMA MeaningHere ==
  ASSUME NEW in, in.events \in Seq(Callbacks), IsRequest(in.events),
         NEW n \in 0..(Len(in.events) - 1)
  PROVE  /\ StageAt(in, n) = "PARAMS" => Meaning(in, n + 1) = ParamsMeaning(in, n + 1)
         /\ StageAt(in, n) # "PARAMS" /\ n \notin CallStarts(in.events) =>
              Meaning(in, n + 1) = OwnMeaning(in, n + 1)
         /\ StageAt(in, n) # "PARAMS" /\ n \in CallStarts(in.events) =>
              Meaning(in, n + 1) = Beginning(in, n + 1) \o OwnMeaning(in, n + 1)
<1>1. n + 1 - 1 = n
  OBVIOUS
<1>2. Meaning(in, n + 1) = IF StageAt(in, n) = "PARAMS" THEN ParamsMeaning(in, n + 1)
                           ELSE Beginning(in, n + 1) \o OwnMeaning(in, n + 1)
  BY InParamsHere DEF Meaning
<1>3. n \notin CallStarts(in.events) => Beginning(in, n + 1) = <<>>
  BY <1>1 DEF Beginning
<1>4. OwnMeaning(in, n + 1) \in Seq(Tokens)
  <2>1. \A c \in {"func", "TUPLE", "data"} : <<c>> \in Tokens
    BY MarksAreTokens
  <2>2. <<"array", 0>> \in Tokens /\ <<"array", 1>> \in Tokens
    BY MarksAreTokens
  <2>3. /\ << <<"TUPLE">> >> \in Seq(Tokens) /\ << <<"func">> >> \in Seq(Tokens)
        /\ << <<"TUPLE">>, <<"array", 1>>, <<"data">> >> \in Seq(Tokens)
        /\ << <<"TUPLE">>, <<"array", 0>> >> \in Seq(Tokens) /\ <<>> \in Seq(Tokens)
    BY <2>1, <2>2, Sequences, Zenon
  <2> QED BY <2>3, Zenon DEF OwnMeaning
<1>5. <<>> \o OwnMeaning(in, n + 1) = OwnMeaning(in, n + 1)
  BY <1>4
<1> QED BY <1>2, <1>3, <1>5

(* That meaning, by the callback before. *)
LEMMA OwnMeaningIs ==
  ASSUME NEW in, NEW k, NEW n, k - 1 = n
  PROVE  OwnMeaning(in, k) =
           IF k \in CallKeys(in.events) /\ in.events[k][2] = "params" THEN << <<"TUPLE">> >>
           ELSE IF n \in CallKeys(in.events) /\ in.events[n][2] = "method" /\ in.read_method
                THEN << <<"func">> >>
           ELSE IF ~LacksParams(in.events, k) THEN <<>>
           ELSE IF in.has_data THEN << <<"TUPLE">>, <<"array", 1>>, <<"data">> >>
           ELSE << <<"TUPLE">>, <<"array", 0>> >>
BY Zenon DEF OwnMeaning

(* A value. *)
LEMMA MeaningOfValue ==
  ASSUME NEW in, in.events \in Seq(Callbacks), IsRequest(in.events),
         NEW n \in 0..(Len(in.events) - 1),
         in.events[n + 1][1] \in {"scalar", "integer", "string"}
  PROVE  Meaning(in, n + 1) = IF StageAt(in, n) = "PARAMS" THEN << <<"value">> >>
                              ELSE IF StageAt(in, n) = "METHOD" THEN << <<"func">> >>
                              ELSE <<>>
<1> DEFINE ev == in.events
<1>0. n + 1 - 1 = n /\ n \in 0..Len(ev)
  OBVIOUS
<1>1. /\ n + 1 \notin Openings(ev) /\ n + 1 \notin Closings(ev) /\ n + 1 \notin MapKeys(ev)
      /\ n + 1 \notin CallKeys(ev)
  BY Kinds DEF CallKeys
<1>2. IsBody(ev) /\ n \notin CallStarts(ev) /\ StageAt(in, n) # "INIT"
  <2>1. IsBody(ev)
    BY DEF IsRequest
  <2>2. n \notin CallStarts(ev) /\ Nesting(ev, n) > Level(ev)
    BY StageOfValue
  <2>3. Nesting(ev, n) \in Nat /\ Level(ev) \in {0, 1}
    BY <1>0, <2>1, OpenUntilEnd
  <2> QED BY <1>0, <2>1, <2>2, <2>3, StageNow
<1>3. CASE StageAt(in, n) = "PARAMS"
  BY <1>1, <1>3, MeaningHere DEF ParamsMeaning
<1>4. CASE StageAt(in, n) # "PARAMS"
  <2>1. Meaning(in, n + 1) = OwnMeaning(in, n + 1)
    BY <1>2, <1>4, MeaningHere
  <2>2. OwnMeaning(in, n + 1) =
          IF n \in CallKeys(ev) /\ ev[n][2] = "method" /\ in.read_method THEN << <<"func">> >>
          ELSE <<>>
    BY <1>0, <1>1, OwnMeaningIs DEF LacksParams
  <2>3. (StageAt(in, n) = "METHOD") <=>
          (n \in CallKeys(ev) /\ ev[n][2] = "method" /\ in.read_method)
    BY <1>0, <1>2, StageNow
  <2> QED BY <1>4, <2>1, <2>2, <2>3
<1> QED BY <1>3, <1>4

(* A key: the first of a call begins its message. *)
LEMMA MeaningOfKey ==
  ASSUME NEW in, in.events \in Seq(Callbacks), IsRequest(in.events),
         NEW n \in 0..(Len(in.events) - 1), in.events[n + 1][1] = "map_key"
  PROVE  LET tuple == IF in.events[n + 1][2] = "params" THEN << <<"TUPLE">> >> ELSE <<>>
         IN  /\ StageAt(in, n) = "PARAMS" => Meaning(in, n + 1) = << <<"key">> >>
             /\ StageAt(in, n) = "WAIT_NEXT" => Meaning(in, n + 1) = tuple
             /\ StageAt(in, n) = "INIT" =>
                  Meaning(in, n + 1) =
                    (<< <<"header", Id(in.events, n)>> >>
                     \o (IF in.read_method THEN <<>> ELSE << <<"func">> >>)) \o tuple
<1> DEFINE ev == in.events
           tuple == IF in.events[n + 1][2] = "params" THEN << <<"TUPLE">> >> ELSE <<>>
<1>1. /\ n + 1 \notin Openings(ev) /\ n + 1 \notin Closings(ev) /\ n + 1 \in MapKeys(ev)
      /\ n + 1 \notin Values(ev)
  BY Kinds
<1>0. n + 1 - 1 = n
  OBVIOUS
<1>2. n \notin CallKeys(ev)
  BY <1>1, AfterKey
<1>3. /\ (StageAt(in, n) = "INIT") <=> n \in CallStarts(ev)
      /\ StageAt(in, n) # "PARAMS" /\ ev[n + 1][2] = "params" => n + 1 \in CallKeys(ev)
  BY StageOfKey
<1>4. StageAt(in, n) # "PARAMS" => OwnMeaning(in, n + 1) = tuple
  BY <1>0, <1>1, <1>2, <1>3, OwnMeaningIs DEF LacksParams
<1>5. StageAt(in, n) = "PARAMS" => Meaning(in, n + 1) = << <<"key">> >>
  BY <1>1, MeaningHere DEF ParamsMeaning
<1>6. n \in CallStarts(ev) =>
        Beginning(in, n + 1) = << <<"header", Id(ev, n)>> >>
                               \o (IF in.read_method THEN <<>> ELSE << <<"func">> >>)
  BY <1>0 DEF Beginning
<1> HIDE DEF tuple
<1>7. StageAt(in, n) = "WAIT_NEXT" => Meaning(in, n + 1) = tuple
  BY <1>3, <1>4, MeaningHere
<1>8. StageAt(in, n) = "INIT" =>
        Meaning(in, n + 1) = (<< <<"header", Id(ev, n)>> >>
                              \o (IF in.read_method THEN <<>> ELSE << <<"func">> >>)) \o tuple
  <2>1. StageAt(in, n) = "INIT" => Meaning(in, n + 1) = Beginning(in, n + 1) \o OwnMeaning(in, n + 1)
    BY <1>3, MeaningHere
  <2> QED BY <1>3, <1>4, <1>6, <2>1
<1> QED BY <1>5, <1>7, <1>8 DEF tuple

(* What opens. *)
LEMMA MeaningOfOpening ==
  ASSUME NEW in, in.events \in Seq(Callbacks), IsRequest(in.events),
         NEW n \in 0..(Len(in.events) - 1), n + 1 \in Openings(in.events)
  PROVE  Meaning(in, n + 1) =
           IF StageAt(in, n) # "PARAMS" THEN <<>>
           ELSE IF in.has_data /\ in.events[n + 1][1] = "start_array"
                   /\ Nesting(in.events, n + 1) = Level(in.events) + 2
                THEN << Header(in, n + 1), <<"data">> >>
           ELSE << Header(in, n + 1) >>
<1> DEFINE ev == in.events
<1>1. /\ n + 1 \notin Closings(ev) /\ n + 1 \notin MapKeys(ev) /\ n + 1 \notin CallKeys(ev)
      /\ ev[n + 1][1] \in {"start_map", "start_array"}
  BY Kinds DEF CallKeys
<1>0. n + 1 - 1 = n
  OBVIOUS
<1>2. n \notin CallStarts(ev)
  BY StageOfOpening
<1>3. CASE StageAt(in, n) = "PARAMS"
  <2>1. Meaning(in, n + 1) = ParamsMeaning(in, n + 1)
    BY <1>3, MeaningHere
  <2> QED BY <1>1, <1>3, <2>1 DEF ParamsMeaning, IsArgs
<1>4. CASE StageAt(in, n) # "PARAMS"
  <2>1. ~(n \in CallKeys(ev) /\ ev[n][2] = "method")
    BY <1>1, AfterKey
  <2>2. OwnMeaning(in, n + 1) = <<>>
    BY <1>0, <1>1, <2>1, OwnMeaningIs DEF LacksParams
  <2> QED BY <1>2, <1>4, <2>2, MeaningHere
<1> QED BY <1>3, <1>4

(* What closes: a call without params has empty ones. *)
LEMMA MeaningOfClosing ==
  ASSUME NEW in, in.events \in Seq(Callbacks), IsRequest(in.events),
         NEW n \in 0..(Len(in.events) - 1), n + 1 \in Closings(in.events)
  PROVE  Meaning(in, n + 1) =
           IF /\ Nesting(in.events, n + 1) = Level(in.events)
              /\ ~\E k \in Items(in.events, CallOf(in.events, n)) :
                    k <= n /\ in.events[k][2] = "params"
             THEN IF in.has_data THEN << <<"TUPLE">>, <<"array", 1>>, <<"data">> >>
                  ELSE << <<"TUPLE">>, <<"array", 0>> >>
             ELSE <<>>
<1> DEFINE ev == in.events
           L == Level(ev)
           empty == IF in.has_data THEN << <<"TUPLE">>, <<"array", 1>>, <<"data">> >>
                    ELSE << <<"TUPLE">>, <<"array", 0>> >>
<1>1. /\ n + 1 \notin Openings(ev) /\ n + 1 \notin MapKeys(ev) /\ n + 1 \notin CallKeys(ev)
  BY Kinds DEF CallKeys
<1>0. n + 1 - 1 = n
  OBVIOUS
<1>2. /\ n \notin CallStarts(ev) /\ n \notin CallKeys(ev)
      /\ Nesting(ev, n + 1) = Nesting(ev, n) - 1
      /\ StageAt(in, n) = "PARAMS" => Nesting(ev, n) > L + 1
  BY StageOfClosing
<1>3. IsBody(ev) /\ L \in {0, 1} /\ Nesting(ev, n) \in Nat
  <2>1. n \in 0..Len(ev)
    OBVIOUS
  <2> QED BY <2>1, OpenUntilEnd DEF IsRequest
<1>4. CASE StageAt(in, n) = "PARAMS"
  <2>1. Meaning(in, n + 1) = <<>>
    BY <1>1, <1>4, MeaningHere DEF ParamsMeaning
  <2>2. Nesting(ev, n + 1) # L
    BY <1>2, <1>3, <1>4
  <2> QED BY <2>1, <2>2
<1>5. CASE StageAt(in, n) # "PARAMS"
  <2>1. Meaning(in, n + 1) = OwnMeaning(in, n + 1)
    BY <1>2, <1>5, MeaningHere
  <2>2. OwnMeaning(in, n + 1) =
          IF Nesting(ev, n + 1) = L /\ ~\E k \in Items(ev, Inside(ev, n + 1)) : ev[k][2] = "params"
          THEN empty ELSE <<>>
    <3>1. LacksParams(ev, n + 1) <=>
            Nesting(ev, n + 1) = L /\ ~\E k \in Items(ev, Inside(ev, n + 1)) : ev[k][2] = "params"
      BY DEF LacksParams
    <3>2. OwnMeaning(in, n + 1) = IF ~LacksParams(ev, n + 1) THEN <<>> ELSE empty
      <4> DEFINE k == n + 1
      <4>1. k - 1 = n /\ k \notin CallKeys(ev) /\ n \notin CallKeys(ev)
        BY <1>0, <1>1, <1>2
      <4> HIDE DEF k
      <4>2. OwnMeaning(in, k) = IF ~LacksParams(ev, k) THEN <<>> ELSE empty
        BY <4>1, Zenon DEF OwnMeaning
      <4> QED BY <4>2 DEF k
    <3> HIDE DEF empty
    <3> QED BY <3>1, <3>2
  <2>3. ASSUME Nesting(ev, n + 1) = L
        PROVE  /\ Inside(ev, n + 1) = CallOf(ev, n)
               /\ \A k \in Items(ev, CallOf(ev, n)) : k <= n
    <3>1. Nesting(ev, n) = L + 1
      BY <1>2, <1>3, <2>3
    <3>2. Inside(ev, n + 1) = CallOf(ev, n) /\ CallOf(ev, n) = Opener(ev, n, Nesting(ev, n))
      BY <1>0, <3>1 DEF Inside, CallOf
    <3> QED BY <1>3, <3>2, ItemsAtEnd
  <2> HIDE DEF empty
  <2>4. Meaning(in, n + 1) =
          IF Nesting(ev, n + 1) = L
             /\ ~\E k \in Items(ev, CallOf(ev, n)) : k <= n /\ ev[k][2] = "params"
          THEN empty ELSE <<>>
    BY <2>1, <2>2, <2>3
  <2> QED BY <2>4 DEF empty
<1> QED BY <1>4, <1>5

-----------------------------------------------------------------------------
(* The state of the codec is that of the request *)

(* The items of the stack. *)
Depth(ev, n) == IF Nesting(ev, n) = 0 THEN 0 ELSE Nesting(ev, n) - Level(ev)

(* What opened the item at a place of the stack. *)
OpenerOf(ev, n, i) == Opener(ev, n, Level(ev) + i)

(* The depth changes by what opens and what closes. *)
LEMMA DepthNext ==
  ASSUME NEW ev \in Seq(Callbacks), IsBody(ev), NEW n \in 0..(Len(ev) - 1)
  PROVE  /\ Depth(ev, n) \in Nat /\ Depth(ev, n + 1) \in Nat
         /\ Depth(ev, n + 1) > Depth(ev, n) =>
              n + 1 \in Openings(ev) /\ Depth(ev, n + 1) = Depth(ev, n) + 1
         /\ \A i \in 1..Depth(ev, n) : Level(ev) + i \in 1..Nesting(ev, n)
         /\ \A i \in 1..Depth(ev, n + 1) : Level(ev) + i \in 1..Nesting(ev, n + 1)
         /\ Depth(ev, n) > 0 => Nesting(ev, n) = Level(ev) + Depth(ev, n)
         /\ Depth(ev, n + 1) > 0 => Nesting(ev, n + 1) = Level(ev) + Depth(ev, n + 1)
<1>1. InBody(ev, n) /\ Level(ev) \in {0, 1}
  BY BodySteps
<1>2. /\ Nesting(ev, n) \in Nat /\ Nesting(ev, n + 1) \in Nat
      /\ Nesting(ev, n + 1) = (IF n + 1 \in Openings(ev) THEN Nesting(ev, n) + 1
                               ELSE IF n + 1 \in Closings(ev) THEN Nesting(ev, n) - 1
                               ELSE Nesting(ev, n))
  BY NestingNext
<1>3. Nesting(ev, n) > 0 => Nesting(ev, n) >= Level(ev)
  BY <1>1, <1>2
<1>4. Nesting(ev, n + 1) > 0 => Nesting(ev, n + 1) >= Level(ev)
  BY <1>1, <1>2
<1>5. Depth(ev, n) \in Nat /\ Depth(ev, n + 1) \in Nat
  BY <1>1, <1>2, <1>3, <1>4 DEF Depth
<1>6. /\ Depth(ev, n) > 0 => Nesting(ev, n) = Level(ev) + Depth(ev, n)
      /\ Depth(ev, n + 1) > 0 => Nesting(ev, n + 1) = Level(ev) + Depth(ev, n + 1)
  BY <1>1, <1>2 DEF Depth
<1>7. Depth(ev, n + 1) > Depth(ev, n) =>
        n + 1 \in Openings(ev) /\ Depth(ev, n + 1) = Depth(ev, n) + 1
  BY <1>1, <1>2, <1>3, <1>4 DEF Depth
<1>8. \A D, L, N \in Nat : (D > 0 => N = L + D) => \A i \in 1..D : L + i \in 1..N
  OBVIOUS
<1>9. Level(ev) \in Nat
  BY <1>1
<1> QED BY <1>2, <1>5, <1>6, <1>7, <1>8, <1>9

(* What is on the stack before and after a callback was opened by the      *)
(* same, and what comes onto it by the callback.                           *)
LEMMA OpenerOfNext ==
  ASSUME NEW ev \in Seq(Callbacks), IsBody(ev), NEW n \in 0..(Len(ev) - 1),
         NEW i \in 1..Depth(ev, n + 1)
  PROVE  IF i <= Depth(ev, n) THEN OpenerOf(ev, n + 1, i) = OpenerOf(ev, n, i)
         ELSE n + 1 \in Openings(ev) /\ OpenerOf(ev, n + 1, i) = n + 1
<1> DEFINE d == Level(ev) + i
<1>1. /\ Depth(ev, n) \in Nat /\ Depth(ev, n + 1) \in Nat /\ Level(ev) \in {0, 1}
      /\ d \in 1..Nesting(ev, n + 1)
      /\ Nesting(ev, n + 1) = Level(ev) + Depth(ev, n + 1)
      /\ i <= Depth(ev, n) => d \in 1..Nesting(ev, n)
      /\ ~(i <= Depth(ev, n)) => n + 1 \in Openings(ev) /\ d = Nesting(ev, n + 1)
  BY DepthNext, OpenUntilEnd
<1>2. /\ Nesting(ev, n) \in Nat /\ Nesting(ev, n + 1) \in Nat
      /\ n + 1 \in Openings(ev) => Nesting(ev, n + 1) = Nesting(ev, n) + 1
  BY NestingNext
<1> HIDE DEF d
<1>3. IF n + 1 \in Openings(ev) /\ d = Nesting(ev, n + 1) THEN Opener(ev, n + 1, d) = n + 1
      ELSE d \in 1..Nesting(ev, n) /\ Opener(ev, n + 1, d) = Opener(ev, n, d)
  BY <1>1, OpenerNext
<1>4. CASE i <= Depth(ev, n)
  <2>1. ~(n + 1 \in Openings(ev) /\ d = Nesting(ev, n + 1))
    BY <1>1, <1>2, <1>4
  <2> QED BY <1>3, <1>4, <2>1 DEF OpenerOf, d
<1>5. CASE ~(i <= Depth(ev, n))
  BY <1>1, <1>3, <1>5 DEF OpenerOf, d
<1> QED BY <1>4, <1>5

(* The types of the items of the stack are those of what opened. *)
TypesFollow(ev, n, st) ==
  \A i \in 1..Len(st) : (st[i].type = "map") <=> (ev[OpenerOf(ev, n, i)][1] = "start_map")

(* They stay so. *)
LEMMA TypesNext ==
  ASSUME NEW ev \in Seq(Callbacks), IsBody(ev), NEW n \in 0..(Len(ev) - 1),
         NEW st, NEW st2, Len(st) = Depth(ev, n), Len(st2) = Depth(ev, n + 1),
         TypesFollow(ev, n, st),
         \A i \in 1..Len(st2) :
           IF i <= Len(st) THEN st2[i].type = st[i].type
           ELSE (st2[i].type = "map") <=> (ev[n + 1][1] = "start_map")
  PROVE  TypesFollow(ev, n + 1, st2)
<1> SUFFICES ASSUME NEW i \in 1..Len(st2)
             PROVE  (st2[i].type = "map") <=> (ev[OpenerOf(ev, n + 1, i)][1] = "start_map")
  BY DEF TypesFollow
<1>1. IF i <= Depth(ev, n) THEN OpenerOf(ev, n + 1, i) = OpenerOf(ev, n, i)
      ELSE n + 1 \in Openings(ev) /\ OpenerOf(ev, n + 1, i) = n + 1
  BY OpenerOfNext
<1>2. CASE i <= Len(st)
  <2>1. i \in 1..Len(st)
    BY <1>2, DepthNext
  <2> QED BY <1>1, <1>2, <2>1 DEF TypesFollow
<1>3. CASE ~(i <= Len(st))
  BY <1>1, <1>3
<1> QED BY <1>2, <1>3

(* In params an item has counted what it holds up to now, and the room for *)
(* its header is where the header belongs.                                 *)
Room(in, n, sy, item, o) ==
  /\ item.count = Place(n, Items(in.events, o))
  /\ item.ptr = Len(Encoded(in)[o - 1]) + 1 /\ item.ptr > sy
  /\ Meaning(in, o) # <<>> /\ Meaning(in, o)[1] = Header(in, o)
RoomsFollow(in, n, stg, sy, st) ==
  stg = "PARAMS" =>
    \A i \in 2..Len(st) : Room(in, n, sy, st[i], OpenerOf(in.events, n, i))

(* That stays so if what comes is counted. *)
LEMMA RoomsNext ==
  ASSUME NEW in, NEW ev, ev = in.events, ev \in Seq(Callbacks), IsBody(ev),
         NEW n \in 0..(Len(ev) - 1), NEW st, NEW st2, NEW sy,
         Len(st) = Depth(ev, n), Len(st2) = Depth(ev, n + 1),
         RoomsFollow(in, n, "PARAMS", sy, st),
         \A i \in 2..Len(st2) :
           IF i <= Len(st)
             THEN /\ st2[i].ptr = st[i].ptr
                  /\ st2[i].count = IF n + 1 \in Items(ev, OpenerOf(ev, n, i))
                                    THEN st[i].count + 1 ELSE st[i].count
             ELSE /\ st2[i].count = 0 /\ st2[i].ptr > sy
                  /\ st2[i].ptr = Len(Encoded(in)[n]) + 1
                  /\ Meaning(in, n + 1) # <<>>
                  /\ Meaning(in, n + 1)[1] = Header(in, n + 1)
  PROVE  RoomsFollow(in, n + 1, "PARAMS", sy, st2)
<1> SUFFICES ASSUME NEW i \in 2..Len(st2)
             PROVE  Room(in, n + 1, sy, st2[i], OpenerOf(ev, n + 1, i))
  BY DEF RoomsFollow
<1>1. i \in 1..Depth(ev, n + 1)
  OBVIOUS
<1>2. IF i <= Depth(ev, n) THEN OpenerOf(ev, n + 1, i) = OpenerOf(ev, n, i)
      ELSE n + 1 \in Openings(ev) /\ OpenerOf(ev, n + 1, i) = n + 1
  BY <1>1, OpenerOfNext
<1>3. n \in Nat /\ n + 1 - 1 = n /\ n + 1 \in 0..Len(ev)
  OBVIOUS
<1>4. CASE i <= Len(st)
  <2> DEFINE o == OpenerOf(ev, n, i)
  <2>1. i \in 2..Len(st)
    BY <1>4, DepthNext
  <2>2. Room(in, n, sy, st[i], o)
    BY <2>1 DEF RoomsFollow
  <2>3. Items(ev, o) \in SUBSET (Nat \ {0})
    <3>1. Items(ev, o) \in SUBSET (1..Len(ev))
      BY ItemsType
    <3> QED BY <3>1
  <2> HIDE DEF o
  <2>4. Place(n + 1, Items(ev, o)) = IF n + 1 \in Items(ev, o) THEN Place(n, Items(ev, o)) + 1
                                     ELSE Place(n, Items(ev, o))
    BY <1>3, <2>3, PlaceNext
  <2>5. /\ st2[i].ptr = st[i].ptr
        /\ st2[i].count = IF n + 1 \in Items(ev, o) THEN st[i].count + 1 ELSE st[i].count
    BY <1>4 DEF o
  <2>6. Room(in, n + 1, sy, st2[i], o)
    BY <2>2, <2>4, <2>5 DEF Room
  <2> QED BY <1>2, <1>4, <2>6 DEF o
<1>5. CASE ~(i <= Len(st))
  <2>1. OpenerOf(ev, n + 1, i) = n + 1
    BY <1>2, <1>5
  <2>2. Place(n + 1, Items(ev, n + 1)) = 0
    BY <1>3, ItemsAtStart
  <2>3. Room(in, n + 1, sy, st2[i], n + 1)
    BY <1>3, <1>5, <2>2 DEF Room
  <2> QED BY <2>1, <2>3
<1> QED BY <1>4, <1>5

(* stack_grow counts an item of what opened last, and no more. *)
LEMMA GrownItems ==
  ASSUME NEW s \in Seq(Item), NEW t
  PROVE  /\ stack_grow(s, t) \in Seq(Item) /\ Len(stack_grow(s, t)) = Len(s)
         /\ \A i \in 1..Len(s) :
              /\ stack_grow(s, t)[i].type = s[i].type
              /\ stack_grow(s, t)[i].ptr = s[i].ptr
              /\ stack_grow(s, t)[i].count = IF i = Len(s) /\ s[i].type = t THEN s[i].count + 1
                                             ELSE s[i].count
<1>1. stack_grow(s, t) \in Seq(Item) /\ Len(stack_grow(s, t)) = Len(s)
  BY Counted
<1> SUFFICES ASSUME NEW i \in 1..Len(s)
             PROVE  /\ stack_grow(s, t)[i].type = s[i].type
                    /\ stack_grow(s, t)[i].ptr = s[i].ptr
                    /\ stack_grow(s, t)[i].count =
                         IF i = Len(s) /\ s[i].type = t THEN s[i].count + 1 ELSE s[i].count
  BY <1>1
<1>2. s[i] \in Item /\ s # <<>>
  OBVIOUS
<1>3. CASE s[Len(s)].type = t
  <2> DEFINE x == [s[Len(s)] EXCEPT !.count = @ + 1]
  <2>1. stack_grow(s, t) = [s EXCEPT ![Len(s)] = x]
    BY <1>2, <1>3 DEF stack_grow
  <2>2. CASE i = Len(s)
    <3>1. stack_grow(s, t)[i] = x
      BY <2>1, <2>2
    <3>2. x.type = s[i].type /\ x.ptr = s[i].ptr /\ x.count = s[i].count + 1
      BY <1>2, <2>2 DEF Item
    <3> QED BY <1>3, <2>2, <3>1, <3>2
  <2>3. CASE i # Len(s)
    <3>1. stack_grow(s, t)[i] = s[i]
      BY <2>1, <2>3
    <3> QED BY <2>3, <3>1
  <2> QED BY <2>2, <2>3
<1>4. CASE s[Len(s)].type # t
  <2>1. stack_grow(s, t) = s
    BY <1>4 DEF stack_grow
  <2> QED BY <1>4, <2>1
<1> QED BY <1>3, <1>4

(* A value is counted by an array, a key by a map: as the items are.       *)
LEMMA GrownCounts ==
  ASSUME NEW ev \in Seq(Callbacks), IsBody(ev), NEW n \in 0..(Len(ev) - 1),
         NEW st \in Seq(Item), Len(st) = Depth(ev, n), TypesFollow(ev, n, st), NEW t,
         \/ n + 1 \in Values(ev) /\ t = "array"
         \/ n + 1 \in MapKeys(ev) /\ t = "map",
         NEW i \in 1..Len(st)
  PROVE  stack_grow(st, t)[i].count =
           IF n + 1 \in Items(ev, OpenerOf(ev, n, i)) THEN st[i].count + 1 ELSE st[i].count
<1> DEFINE d == Level(ev) + i
           o == OpenerOf(ev, n, i)
<1>1. /\ d \in 1..Nesting(ev, n) /\ Nesting(ev, n) = Level(ev) + Len(st) /\ Level(ev) \in {0, 1}
      /\ Len(st) \in Nat /\ o = Opener(ev, n, d)
  BY DepthNext, OpenUntilEnd DEF OpenerOf
<1>2. (i = Len(st)) <=> (d = Nesting(ev, n))
  BY <1>1
<1> HIDE DEF d, o
<1>3. n + 1 \in Items(ev, o) <=>
        /\ d = Nesting(ev, n)
        /\ IF ev[o][1] = "start_map" THEN n + 1 \in MapKeys(ev) ELSE n + 1 \in Values(ev)
  BY <1>1, ItemNext
<1>4. st[i].type \in {"map", "array"} /\ ((st[i].type = "map") <=> (ev[o][1] = "start_map"))
  BY ItemTypes DEF TypesFollow, o
<1>5. ~(n + 1 \in Values(ev) /\ n + 1 \in MapKeys(ev))
  BY Kinds
<1>6. n + 1 \in Items(ev, o) <=> i = Len(st) /\ st[i].type = t
  BY <1>2, <1>3, <1>4, <1>5
<1> QED BY <1>6, GrownItems DEF o

(* Nothing is counted where something closes. *)
LEMMA ClosingIsNoItem ==
  ASSUME NEW ev \in Seq(Callbacks), NEW n \in 0..(Len(ev) - 1), n + 1 \in Closings(ev), NEW o
  PROVE  n + 1 \notin Items(ev, o)
BY Kinds DEF Items

-----------------------------------------------------------------------------
(* The header of the call has the id given up to now. *)
HeaderFollows(in, n, stg, o, sy) ==
  stg # "INIT" =>
    /\ sy = Len(Encoded(in)[CallOf(in.events, n)]) + 1 /\ sy \in 1..Len(o)
    /\ o[sy] = <<"header", IdSoFar(in.events, CallOf(in.events, n), n)>>

(* It has it after the next callback. *)
LEMMA HeaderNext ==
  ASSUME NEW in, in.events \in Seq(Callbacks), IsRequest(in.events),
         NEW n \in 0..(Len(in.events) - 1),
         Nesting(in.events, n) > Level(in.events), Nesting(in.events, n + 1) > Level(in.events),
         NEW stg, NEW stg2, stg # "INIT", NEW o \in Seq(Tokens), NEW o2 \in Seq(Tokens), NEW sy,
         HeaderFollows(in, n, stg, o, sy), Len(o2) >= Len(o),
         o2[sy] = IF n \in CallKeys(in.events) /\ in.events[n][2] = "id"
                  THEN <<"header", in.events[n + 1][2]>> ELSE o[sy]
  PROVE  HeaderFollows(in, n + 1, stg2, o2, sy)
<1> DEFINE ev == in.events
           c == CallOf(ev, n)
<1>1. IsBody(ev)
  BY DEF IsRequest
<1>2. CallOf(ev, n + 1) = c
  BY <1>1, CallNext
<1>3. IdSoFar(ev, c, n + 1) = IF n \in CallKeys(ev) /\ ev[n][2] = "id" THEN ev[n + 1][2]
                              ELSE IdSoFar(ev, c, n)
  BY IdNext
<1>4. /\ sy = Len(Encoded(in)[c]) + 1 /\ sy \in 1..Len(o)
      /\ o[sy] = <<"header", IdSoFar(ev, c, n)>>
  BY DEF HeaderFollows
<1>5. sy \in 1..Len(o2)
  BY <1>4
<1> HIDE DEF c
<1>6. o2[sy] = <<"header", IdSoFar(ev, c, n + 1)>>
  BY <1>3, <1>4
<1> QED BY <1>2, <1>4, <1>5, <1>6 DEF HeaderFollows

(* It has none after the first key of the call. *)
LEMMA HeaderFirst ==
  ASSUME NEW in, in.events \in Seq(Callbacks), IsBody(in.events),
         NEW n \in 0..(Len(in.events) - 1), n \in CallStarts(in.events),
         n + 1 \notin Values(in.events), NEW stg, NEW o, NEW sy,
         sy = Len(Encoded(in)[n]) + 1, sy \in 1..Len(o), o[sy] = <<"header", 0>>
  PROVE  CallOf(in.events, n + 1) = n /\ HeaderFollows(in, n + 1, stg, o, sy)
<1> DEFINE ev == in.events
           L == Level(ev)
<1>1. n \in Openings(ev) /\ Nesting(ev, n) = L + 1 /\ n # 0 /\ L \in {0, 1} /\ n \in 0..Len(ev)
  <2>1. Nesting(ev, n) = L + 1 /\ L \in {0, 1}
    BY BodySteps DEF InBody
  <2>2. n \in Openings(ev) /\ n # 0
    BY DEF CallStarts, Openings
  <2> QED BY <2>1, <2>2
<1>2. IsOpener(ev, n, L + 1, n)
  <2>1. \A k \in Depths(ev, L + 1) : k \in Nat
    BY Kinds DEF Depths
  <2> QED BY <1>1, <2>1 DEF IsOpener
<1>3. CallOf(ev, n) = n
  BY <1>1, <1>2, OpenerIs DEF CallOf
<1>4. Nesting(ev, n) > L /\ Nesting(ev, n + 1) > L
  <2>1. ev[n + 1][1] = "map_key"
    BY BodySteps DEF InBody
  <2>2. Nesting(ev, n + 1) = Nesting(ev, n)
    <3>1. n + 1 \notin Openings(ev) /\ n + 1 \notin Closings(ev)
      BY <2>1, Kinds
    <3> QED BY <3>1, NestingNext
  <2> QED BY <1>1, <2>2
<1>5. CallOf(ev, n + 1) = n
  BY <1>3, <1>4, CallNext
<1>6. IdSoFar(ev, n, n + 1) = 0
  BY <1>1, IdAtStart
<1> QED BY <1>5, <1>6 DEF HeaderFollows

-----------------------------------------------------------------------------
(* Of a call it is remembered whether it had params. *)
HadParams(ev, c, n) == \E k \in Items(ev, c) : k <= n /\ ev[k][2] = "params"
BeenFollows(ev, n, stg, been) ==
  /\ stg = "INIT" => been = {}
  /\ stg \notin {"INIT", "PARAMS"} =>
       (("PARAMS" \in been) <=> HadParams(ev, CallOf(ev, n), n))

(* Outside of params it remains so until the next key. *)
LEMMA BeenNext ==
  ASSUME NEW ev \in Seq(Callbacks), IsBody(ev), NEW n \in 0..(Len(ev) - 1),
         Nesting(ev, n) > Level(ev), Nesting(ev, n + 1) > Level(ev),
         NEW stg, NEW stg2, stg \notin {"INIT", "PARAMS"}, stg2 # "INIT",
         NEW been, NEW been2, BeenFollows(ev, n, stg, been),
         ("PARAMS" \in been2) <=> ("PARAMS" \in been),
         n + 1 \in MapKeys(ev) /\ ev[n + 1][2] = "params" => stg2 = "PARAMS"
  PROVE  BeenFollows(ev, n + 1, stg2, been2)
<1> DEFINE c == CallOf(ev, n)
<1> SUFFICES ASSUME stg2 # "PARAMS"
             PROVE  ("PARAMS" \in been2) <=> HadParams(ev, CallOf(ev, n + 1), n + 1)
  BY DEF BeenFollows
<1>1. CallOf(ev, n + 1) = c /\ n \in 0..Len(ev) /\ n \in Nat
  BY CallNext
<1>2. ev[c][1] = "start_map"
  BY <1>1, CallIsOpen
<1>3. n + 1 \in Items(ev, c) => ev[n + 1][2] # "params"
  BY <1>2 DEF Items
<1>4. Items(ev, c) \in SUBSET (1..Len(ev))
  BY ItemsType
<1> HIDE DEF c
<1>5. \A k \in Items(ev, c) : k <= n + 1 <=> (k <= n \/ k = n + 1)
  BY <1>1, <1>4
<1>6. HadParams(ev, c, n + 1) <=> HadParams(ev, c, n)
  BY <1>3, <1>5 DEF HadParams
<1> QED BY <1>1, <1>6 DEF BeenFollows, c

(* A call that begins has had none. *)
LEMMA BeenFirst ==
  ASSUME NEW ev \in Seq(Callbacks), IsBody(ev), NEW n \in 0..(Len(ev) - 1),
         CallOf(ev, n + 1) = n, NEW stg, NEW been, been = {}, stg # "INIT",
         ev[n + 1][2] = "params" => stg = "PARAMS"
  PROVE  BeenFollows(ev, n + 1, stg, been)
<1> SUFFICES ASSUME stg # "PARAMS" PROVE ~HadParams(ev, n, n + 1)
  BY DEF BeenFollows
<1>1. ASSUME NEW k \in Items(ev, n), k <= n + 1 PROVE k = n + 1
  <2>1. k \in 1..Len(ev) /\ k > 1 /\ Inside(ev, k) = n
    BY ItemsType DEF Items
  <2>2. n \in 1..(k - 1)
    BY <2>1, ItemsLater
  <2> QED BY <1>1, <2>1, <2>2
<1> QED BY <1>1 DEF HadParams

(* It has had them when they end. *)
LEMMA BeenParams ==
  ASSUME NEW in, in.events \in Seq(Callbacks), IsBody(in.events),
         NEW n \in 0..(Len(in.events) - 1), Nesting(in.events, n + 1) > Level(in.events),
         StageAt(in, n) = "PARAMS", NEW stg, stg # "INIT", NEW been
  PROVE  BeenFollows(in.events, n + 1, stg, been \cup {"PARAMS"})
<1> DEFINE ev == in.events
           f == KeyOf(ev, n)
<1>1. n \in 0..Len(ev) /\ n \in Nat /\ Level(ev) \in {0, 1} /\ Nesting(ev, n) \in Nat
  BY OpenUntilEnd
<1>2. ~(Nesting(ev, n) <= Level(ev)) /\ n \notin CallStarts(ev) /\ ParamsOpen(ev, n)
  BY <1>1, StageNow
<1>3. Nesting(ev, n) > Level(ev)
  BY <1>1, <1>2
<1>4. f \in Items(ev, CallOf(ev, n)) /\ f <= n /\ f \in Nat
  <2>1. f \in Items(ev, CallOf(ev, n)) /\ f <= n
    BY <1>1, <1>2, <1>3, Keyed
  <2> QED BY <2>1, ItemsType
<1>5. ev[f][2] = "params"
  BY <1>2 DEF ParamsOpen
<1>6. CallOf(ev, n + 1) = CallOf(ev, n)
  BY <1>3, CallNext
<1> HIDE DEF f
<1>7. HadParams(ev, CallOf(ev, n + 1), n + 1)
  <2>1. f <= n + 1
    BY <1>1, <1>4
  <2> QED BY <1>4, <1>5, <1>6, <2>1 DEF HadParams
<1> QED BY <1>7 DEF BeenFollows

-----------------------------------------------------------------------------
(* All of it: what is written is what the callbacks up to now mean, but    *)
(* for the rooms left in it, of the headers of what is open in params and  *)
(* of the call's.                                                          *)
Pending(stg, sy, st) ==
  {p \in Nat : \/ stg # "INIT" /\ p = sy
               \/ stg = "PARAMS" /\ \E i \in 2..Len(st) : p = st[i].ptr}

Shape(in, n, st, o, sy) ==
  /\ st \in Seq(Item) /\ Len(st) = Depth(in.events, n)
  /\ o \in Seq(Tokens) /\ sy \in 0..Len(o)

Follows(in, n, stg, been, st, o, sy) ==
  /\ Shape(in, n, st, o, sy) /\ stg = StageAt(in, n)
  /\ TypesFollow(in.events, n, st) /\ RoomsFollow(in, n, stg, sy, st)
  /\ HeaderFollows(in, n, stg, o, sy) /\ BeenFollows(in.events, n, stg, been)
  /\ Matches(o, Encoded(in)[n], Pending(stg, sy, st))

(* What a callback means is written after all before it, and stays.        *)
LEMMA FirstWritten ==
  ASSUME NEW in, in.events \in Seq(Callbacks), NEW m \in 0..(Len(in.events) - 1),
         NEW n \in (m + 1)..Len(in.events), Meaning(in, m + 1) # <<>>
  PROVE  /\ Len(Encoded(in)[m]) + 1 \in 1..Len(Encoded(in)[n])
         /\ Encoded(in)[n][Len(Encoded(in)[m]) + 1] = Meaning(in, m + 1)[1]
<1> DEFINE w == Encoded(in)[m]
           t == Meaning(in, m + 1)
           v == Encoded(in)[n]
           u == Encoded(in)[m + 1]
<1>1. w \in Seq(Tokens) /\ t \in Seq(Tokens) /\ u = w \o t /\ v \in Seq(Tokens)
  <2>1. m \in 0..Len(in.events) /\ n \in 0..Len(in.events)
    OBVIOUS
  <2> QED BY <2>1, EncodedSteps, MeaningType
<1>2. Len(u) <= Len(v) /\ \A p \in 1..Len(u) : v[p] = u[p]
  <2>1. m + 1 \in 0..Len(in.events)
    OBVIOUS
  <2> QED BY <2>1, EncodedGrows
<1> HIDE DEF w, t, u, v
<1>3. Len(t) \in Nat /\ Len(t) > 0 /\ Len(w) \in Nat /\ Len(v) \in Nat
  <2>1. t # <<>>
    BY DEF t
  <2> QED BY <1>1, <2>1
<1>4. Len(u) = Len(w) + Len(t) /\ u[Len(w) + 1] = t[1]
  BY <1>1, <1>3
<1>5. Len(w) + 1 \in 1..Len(u) /\ Len(w) + 1 \in 1..Len(v)
  BY <1>2, <1>3, <1>4
<1> QED BY <1>2, <1>4, <1>5 DEF w, t, u, v

(* What is to be the header of a call. *)
LEMMA CallHeader ==
  ASSUME NEW in, in.events \in Seq(Callbacks), IsRequest(in.events),
         NEW n \in 0..Len(in.events), Nesting(in.events, n) > Level(in.events),
         n \notin CallStarts(in.events)
  PROVE  LET to == Len(Encoded(in)[CallOf(in.events, n)]) + 1
         IN  /\ to \in 1..Len(Encoded(in)[n])
             /\ Encoded(in)[n][to] = <<"header", Id(in.events, CallOf(in.events, n))>>
<1> DEFINE ev == in.events
           c == CallOf(ev, n)
           h == << <<"header", Id(ev, c)>> >>
           f == IF in.read_method THEN <<>> ELSE << <<"func">> >>
           t == IF ev[c + 1][2] = "params" THEN << <<"TUPLE">> >> ELSE <<>>
<1>1. IsBody(ev) /\ n \in Nat
  BY DEF IsRequest
<1>2. c \in CallStarts(ev) /\ c < n /\ c + 1 \in CallKeys(ev) /\ c \in 1..n
  BY <1>1, CallIsOpen DEF IsOpener
<1> HIDE DEF c
<1>3. c \in 0..(Len(ev) - 1) /\ c \in 0..Len(ev) /\ n \in (c + 1)..Len(ev)
  BY <1>1, <1>2
<1>4. ev[c + 1][1] = "map_key"
  BY <1>2 DEF CallKeys, MapKeys
<1>5. StageAt(in, c) = "INIT"
  BY <1>1, <1>2, <1>3, StageNow
<1>6. Meaning(in, c + 1) = (h \o f) \o t
  BY <1>3, <1>4, <1>5, MeaningOfKey
<1>7. Meaning(in, c + 1) # <<>> /\ Meaning(in, c + 1)[1] = <<"header", Id(ev, c)>>
  <2>1. h \in Seq(Tokens) /\ Len(h) = 1 /\ h[1] = <<"header", Id(ev, c)>>
    <3>1. <<"header", Id(ev, c)>> \in Tokens
      BY IdType, MarksAreTokens
    <3> QED BY <3>1
  <2>2. f \in Seq(Tokens) /\ t \in Seq(Tokens)
    <3>1. <<"func">> \in Tokens /\ <<"TUPLE">> \in Tokens
      BY MarksAreTokens
    <3> QED BY <3>1
  <2> HIDE DEF h, f, t
  <2>3. ((h \o f) \o t)[1] = h[1] /\ Len((h \o f) \o t) > 0
    <3>1. \A a, b \in Seq(Tokens) :
            Len(a) > 0 => a \o b \in Seq(Tokens) /\ (a \o b)[1] = a[1] /\ Len(a \o b) > 0
      OBVIOUS
    <3>0. Len(h) > 0
      BY <2>1
    <3>2. h \o f \in Seq(Tokens) /\ (h \o f)[1] = h[1] /\ Len(h \o f) > 0
      BY <2>1, <2>2, <3>0, <3>1, Zenon
    <3> QED BY <2>2, <3>1, <3>2
  <2> QED BY <1>6, <2>1, <2>3
<1> QED BY <1>3, <1>7, FirstWritten DEF c

(* What is left open by a callback. *)
LEMMA PendingIs ==
  ASSUME NEW st \in Seq(Item), NEW sy \in Nat, NEW stg
  PROVE  \A p :
           p \in Pending(stg, sy, st) <=>
             \/ stg # "INIT" /\ p = sy
             \/ stg = "PARAMS" /\ \E i \in 2..Len(st) : p = st[i].ptr
<1>1. \A i \in 2..Len(st) : st[i].ptr \in Nat
  <2>1. \A i \in 2..Len(st) : i \in 1..Len(st)
    OBVIOUS
  <2> QED BY <2>1, ItemTypes
<1> QED BY <1>1 DEF Pending

(* If the same places are left open, and not more is written.              *)
LEMMA MatchesSame ==
  ASSUME NEW o \in Seq(Tokens), NEW w \in Seq(Tokens), NEW P, NEW Q, Matches(o, w, P),
         \A p \in 1..Len(o) : p \in P => p \in Q \/ o[p] = w[p]
  PROVE  Matches(o, w, Q)
BY DEF Matches

(* What the functions for values do. *)
ValueStep(in, n, stg, been, st, o, sy, stg2, been2, st2, o2) ==
  /\ stg2 = IF stg = "PARAMS" THEN "PARAMS" ELSE "WAIT_NEXT"
  /\ ("PARAMS" \in been2) <=> ("PARAMS" \in been)
  /\ st2 = IF stg = "PARAMS" THEN stack_grow(st, "array") ELSE st
  /\ o2 = IF stg = "PARAMS" THEN o \o << <<"value">> >>
          ELSE IF stg = "METHOD" THEN o \o << <<"func">> >>
          ELSE IF stg = "ID" THEN [o EXCEPT ![sy] = <<"header", in.events[n + 1][2]>>]
          ELSE o

(* After a value. *)
LEMMA ValueFollows ==
  ASSUME NEW in, in.events \in Seq(Callbacks), IsRequest(in.events),
         NEW n \in 0..(Len(in.events) - 1),
         in.events[n + 1][1] \in {"scalar", "integer", "string"},
         NEW stg, NEW been, NEW st, NEW o, NEW sy, Follows(in, n, stg, been, st, o, sy),
         NEW stg2, NEW been2, NEW st2, NEW o2, Shape(in, n + 1, st2, o2, sy),
         ValueStep(in, n, stg, been, st, o, sy, stg2, been2, st2, o2)
  PROVE  Follows(in, n + 1, stg2, been2, st2, o2, sy)
<1> DEFINE ev == in.events
           w == Encoded(in)[n]
           t == Meaning(in, n + 1)
           P == Pending(stg, sy, st)
           Q == Pending(stg2, sy, st2)
<1>0. IsBody(ev) /\ n \in 0..Len(ev) /\ n \in Nat
  BY DEF IsRequest
<1>1. /\ Shape(in, n, st, o, sy) /\ stg = StageAt(in, n)
      /\ TypesFollow(ev, n, st) /\ RoomsFollow(in, n, stg, sy, st)
      /\ HeaderFollows(in, n, stg, o, sy) /\ BeenFollows(ev, n, stg, been)
      /\ Matches(o, w, P)
  BY DEF Follows
<1>2. /\ Nesting(ev, n) > Level(ev) /\ n \notin CallStarts(ev)
      /\ Nesting(ev, n + 1) = Nesting(ev, n) /\ stg2 = StageAt(in, n + 1)
      /\ stg = "ID" => ev[n + 1][1] = "integer"
  BY <1>1, StageOfValue DEF ValueStep
<1>3. stg # "INIT" /\ stg2 # "INIT" /\ Nesting(ev, n + 1) > Level(ev)
  <2>1. Nesting(ev, n) \in Nat /\ Level(ev) \in {0, 1}
    BY <1>0, OpenUntilEnd
  <2>2. ~(Nesting(ev, n) <= Level(ev))
    BY <1>2, <2>1
  <2>3. stg # "INIT"
    BY <1>0, <1>1, <1>2, <2>2, StageNow
  <2> QED BY <1>2, <2>3 DEF ValueStep
<1>4. /\ st \in Seq(Item) /\ Len(st) = Depth(ev, n) /\ o \in Seq(Tokens) /\ sy \in 0..Len(o)
      /\ st2 \in Seq(Item) /\ Len(st2) = Depth(ev, n + 1) /\ o2 \in Seq(Tokens)
  BY <1>1 DEF Shape
<1>5. Len(st) \in Nat /\ Len(o) \in Nat /\ sy \in Nat
  BY <1>4
<1>6. n + 1 \in Values(ev) /\ n + 1 \notin MapKeys(ev)
  BY Kinds
<1>7. /\ Len(st2) = Len(st)
      /\ \A i \in 1..Len(st) : st2[i].type = st[i].type /\ st2[i].ptr = st[i].ptr
  BY <1>4, GrownItems DEF ValueStep
<1>8. TypesFollow(ev, n + 1, st2)
  <2>1. \A i \in 1..Len(st2) : IF i <= Len(st) THEN st2[i].type = st[i].type
                               ELSE (st2[i].type = "map") <=> (ev[n + 1][1] = "start_map")
    BY <1>5, <1>7
  <2> QED BY <1>0, <1>1, <1>4, <2>1, TypesNext
<1>9. RoomsFollow(in, n + 1, stg2, sy, st2)
  <2>1. CASE stg = "PARAMS"
    <3>1. st2 = stack_grow(st, "array") /\ stg2 = "PARAMS"
      BY <2>1 DEF ValueStep
    <3>2. \A i \in 1..Len(st) :
            stack_grow(st, "array")[i].count =
              IF n + 1 \in Items(ev, OpenerOf(ev, n, i)) THEN st[i].count + 1 ELSE st[i].count
      <4>1. \/ n + 1 \in Values(ev) /\ "array" = "array"
            \/ n + 1 \in MapKeys(ev) /\ "array" = "map"
        BY <1>6
      <4>2. st \in Seq(Item) /\ Len(st) = Depth(ev, n) /\ TypesFollow(ev, n, st) /\ IsBody(ev)
        BY <1>0, <1>1, <1>4
      <4> TAKE i \in 1..Len(st)
      <4> QED BY <4>1, <4>2, GrownCounts
    <3>3. \A i \in 2..Len(st2) : i \in 1..Len(st) /\ i <= Len(st)
      BY <1>5, <1>7
    <3>4. RoomsFollow(in, n, "PARAMS", sy, st)
      BY <1>1, <2>1
    <3> QED BY <1>0, <1>4, <1>7, <3>1, <3>2, <3>3, <3>4, RoomsNext
  <2>2. CASE stg # "PARAMS"
    BY <2>2 DEF RoomsFollow, ValueStep
  <2> QED BY <2>1, <2>2
<1>10. BeenFollows(ev, n + 1, stg2, been2)
  <2>1. CASE stg = "PARAMS"
    BY <2>1 DEF BeenFollows, ValueStep
  <2>2. CASE stg # "PARAMS"
    <3>1. ("PARAMS" \in been2) <=> ("PARAMS" \in been)
      BY DEF ValueStep
    <3> QED BY <1>0, <1>1, <1>2, <1>3, <1>6, <2>2, <3>1, BeenNext
  <2> QED BY <2>1, <2>2
<1>11. w \in Seq(Tokens) /\ t \in Seq(Tokens) /\ Encoded(in)[n + 1] = w \o t
  BY <1>0, EncodedSteps, MeaningType
<1>12. t = IF stg = "PARAMS" THEN << <<"value">> >>
           ELSE IF stg = "METHOD" THEN << <<"func">> >> ELSE <<>>
  BY <1>1, MeaningOfValue
<1>13. sy \in 1..Len(o)
  BY <1>1, <1>3 DEF HeaderFollows
<1>14. stg = "ID" <=> n \in CallKeys(ev) /\ ev[n][2] = "id"
  BY <1>0, <1>1, <1>3, StageNow, Zenon
<1>15. P \subseteq Q /\ sy \in Q
  <2>1. \A p : p \in P <=> (p = sy \/ (stg = "PARAMS" /\ \E i \in 2..Len(st) : p = st[i].ptr))
    BY <1>3, <1>4, <1>5, PendingIs
  <2>2. \A p : p \in Q <=> (p = sy \/ (stg2 = "PARAMS" /\ \E i \in 2..Len(st2) : p = st2[i].ptr))
    BY <1>3, <1>4, <1>5, PendingIs
  <2>3. stg = "PARAMS" => stg2 = "PARAMS"
    BY DEF ValueStep
  <2>4. \A i \in 2..Len(st) : i \in 2..Len(st2) /\ st2[i].ptr = st[i].ptr
    BY <1>5, <1>7
  <2> HIDE DEF P, Q
  <2> QED BY <2>1, <2>2, <2>3, <2>4
<1> HIDE DEF w, t, P, Q
<1>16. CASE stg = "ID"
  <2> DEFINE h == <<"header", ev[n + 1][2]>>
  <2>1. h \in Tokens
    <3>1. ev[n + 1] \in Callbacks
      BY <1>0
    <3> QED BY <1>2, <1>16, <3>1, IntegersAreInt, MarksAreTokens
  <2>2. o2 = [o EXCEPT ![sy] = h]
    BY <1>16 DEF ValueStep
  <2> HIDE DEF h
  <2>3. w \o t = w
    BY <1>11, <1>12, <1>16
  <2>4. Matches([o EXCEPT ![sy] = h], w, Q)
    <3>1. Matches(o, w, P)
      BY <1>1 DEF w, P
    <3>2. \A x \in P : x \in Q
      BY <1>15
    <3> QED BY <1>4, <1>11, <1>13, <1>15, <2>1, <3>1, <3>2, MatchesPut
  <2>5. o2[sy] = h /\ Len(o2) = Len(o)
    BY <1>4, <1>13, <2>2
  <2>6. HeaderFollows(in, n + 1, stg2, o2, sy)
    <3>1. o2[sy] = IF n \in CallKeys(ev) /\ ev[n][2] = "id" THEN <<"header", ev[n + 1][2]>>
                   ELSE o[sy]
      BY <1>14, <1>16, <2>5 DEF h
    <3>2. Len(o2) >= Len(o)
      BY <1>5, <2>5
    <3> QED BY <1>1, <1>2, <1>3, <1>4, <3>1, <3>2, HeaderNext
  <2> QED BY <1>2, <1>8, <1>9, <1>10, <1>11, <2>2, <2>3, <2>4, <2>6 DEF Follows, Q
<1>17. CASE stg # "ID"
  <2>1. o2 = o \o t
    <3>1. o \o <<>> = o
      BY <1>4
    <3> QED BY <1>12, <1>17, <3>1 DEF ValueStep
  <2>2. Matches(o \o t, w \o t, Q)
    <3>1. Matches(o, w, P)
      BY <1>1 DEF w, P
    <3> QED BY <1>4, <1>11, <1>15, <3>1, MatchesMore
  <2>3. Len(o2) >= Len(o) /\ o2[sy] = o[sy]
    <3>1. Len(o \o t) >= Len(o) /\ (o \o t)[sy] = o[sy]
      BY <1>4, <1>11, <1>13
    <3> QED BY <2>1, <3>1
  <2>4. HeaderFollows(in, n + 1, stg2, o2, sy)
    <3>1. o2[sy] = IF n \in CallKeys(ev) /\ ev[n][2] = "id" THEN <<"header", ev[n + 1][2]>>
                   ELSE o[sy]
      BY <1>14, <1>17, <2>3
    <3> QED BY <1>1, <1>2, <1>3, <1>4, <2>3, <3>1, HeaderNext
  <2> QED BY <1>2, <1>8, <1>9, <1>10, <1>11, <2>1, <2>2, <2>4 DEF Follows, Q
<1> QED BY <1>16, <1>17

(* A message that begins with another token is the same otherwise. *)
LEMMA FirstDiffers ==
  ASSUME NEW a \in Tokens, NEW b \in Tokens, NEW f \in Seq(Tokens), NEW t \in Seq(Tokens)
  PROVE  /\ (<<a>> \o f) \o t \in Seq(Tokens) /\ (<<b>> \o f) \o t \in Seq(Tokens)
         /\ Len((<<a>> \o f) \o t) = Len((<<b>> \o f) \o t)
         /\ Len((<<a>> \o f) \o t) > 0 /\ ((<<a>> \o f) \o t)[1] = a
         /\ \A q \in 1..Len((<<a>> \o f) \o t) :
              ((<<a>> \o f) \o t)[q] = ((<<b>> \o f) \o t)[q] \/ q = 1
<1> DEFINE x == <<a>> \o f
           y == <<b>> \o f
<1>1. /\ x \in Seq(Tokens) /\ y \in Seq(Tokens) /\ Len(x) = Len(f) + 1 /\ Len(y) = Len(f) + 1
      /\ x[1] = a /\ Len(f) \in Nat
  OBVIOUS
<1>2. ASSUME NEW q \in 1..Len(x), q # 1 PROVE x[q] = y[q]
  <2>1. x[q] = f[q - 1] /\ y[q] = f[q - 1]
    BY <1>1, <1>2
  <2> QED BY <2>1
<1> HIDE DEF x, y
<1>3. /\ x \o t \in Seq(Tokens) /\ y \o t \in Seq(Tokens) /\ Len(x \o t) = Len(y \o t)
      /\ Len(x \o t) > 0 /\ (x \o t)[1] = a
  <2>1. \A z \in Seq(Tokens) : z \o t \in Seq(Tokens) /\ Len(z \o t) = Len(z) + Len(t)
    OBVIOUS
  <2>2. \A z \in Seq(Tokens) : Len(z) > 0 => (z \o t)[1] = z[1]
    OBVIOUS
  <2>3. Len(x) > 0 /\ Len(x) = Len(y) /\ Len(x) + Len(t) > 0
    BY <1>1
  <2>4. (x \o t)[1] = a
    BY <1>1, <2>2, <2>3, Zenon
  <2>5. Len(x \o t) = Len(x) + Len(t) /\ Len(y \o t) = Len(y) + Len(t)
    BY <1>1, <2>1, Zenon
  <2>6. Len(x \o t) = Len(y \o t) /\ Len(x \o t) > 0
    BY <2>3, <2>5, Zenon
  <2>7. x \o t \in Seq(Tokens) /\ y \o t \in Seq(Tokens)
    BY <1>1, <2>1, Zenon
  <2> QED BY <2>4, <2>6, <2>7, Zenon
<1>4. ASSUME NEW q \in 1..Len(x \o t) PROVE (x \o t)[q] = (y \o t)[q] \/ q = 1
  <2>1. Len(x \o t) = Len(x) + Len(t) /\ Len(t) \in Nat
    <3>1. \A z \in Seq(Tokens) : Len(z \o t) = Len(z) + Len(t)
      OBVIOUS
    <3> QED BY <1>1, <3>1
  <2>2. CASE q <= Len(x)
    <3>1. q \in 1..Len(x) /\ q \in 1..Len(y)
      BY <1>1, <2>1, <2>2
    <3>2. (x \o t)[q] = x[q] /\ (y \o t)[q] = y[q]
      BY <1>1, <3>1
    <3> QED BY <1>2, <3>1, <3>2
  <2>3. CASE ~(q <= Len(x))
    <3> DEFINE r == q - Len(x)
    <3>1. r \in 1..Len(t) /\ r = q - Len(y)
      BY <1>1, <2>1, <2>3
    <3>2. (x \o t)[q] = t[r] /\ (y \o t)[q] = t[r]
      BY <1>1, <2>1, <2>3, <3>1
    <3> QED BY <3>2
  <2> QED BY <2>2, <2>3
<1> QED BY <1>3, <1>4 DEF x, y

(* What yajl_map_key does. *)
KeyStep(in, n, stg, st, o, sy, stg2, st2, o2, sy2) ==
  LET f == IF in.read_method THEN <<>> ELSE << <<"func">> >>
      t == IF in.events[n + 1][2] = "params" THEN << <<"TUPLE">> >> ELSE <<>>
  IN  /\ stg2 = IF stg = "PARAMS" THEN "PARAMS" ELSE NameStage(in, in.events[n + 1][2])
      /\ st2 = IF stg = "PARAMS" THEN stack_grow(st, "map") ELSE st
      /\ o2 = IF stg = "PARAMS" THEN o \o << <<"key">> >>
              ELSE IF stg = "INIT" THEN o \o ((<< <<"header", 0>> >> \o f) \o t)
              ELSE o \o t
      /\ sy2 = IF stg = "INIT" THEN Len(o) + 1 ELSE sy

(* After a key. *)
LEMMA KeyFollows ==
  ASSUME NEW in, in.events \in Seq(Callbacks), IsRequest(in.events),
         NEW n \in 0..(Len(in.events) - 1), in.events[n + 1][1] = "map_key",
         NEW stg, NEW been, NEW st, NEW o, NEW sy, Follows(in, n, stg, been, st, o, sy),
         NEW stg2, NEW st2, NEW o2, NEW sy2, Shape(in, n + 1, st2, o2, sy2),
         KeyStep(in, n, stg, st, o, sy, stg2, st2, o2, sy2)
  PROVE  Follows(in, n + 1, stg2, been, st2, o2, sy2)
<1> DEFINE ev == in.events
           w == Encoded(in)[n]
           m == Meaning(in, n + 1)
           P == Pending(stg, sy, st)
           Q == Pending(stg2, sy2, st2)
           f == IF in.read_method THEN <<>> ELSE << <<"func">> >>
           t == IF ev[n + 1][2] = "params" THEN << <<"TUPLE">> >> ELSE <<>>
<1>0. IsBody(ev) /\ n \in 0..Len(ev) /\ n \in Nat /\ Level(ev) \in {0, 1}
  BY OpenUntilEnd DEF IsRequest
<1>1. /\ Shape(in, n, st, o, sy) /\ stg = StageAt(in, n)
      /\ TypesFollow(ev, n, st) /\ RoomsFollow(in, n, stg, sy, st)
      /\ HeaderFollows(in, n, stg, o, sy) /\ BeenFollows(ev, n, stg, been)
      /\ Matches(o, w, P)
  BY DEF Follows
<1>2. /\ Nesting(ev, n) > Level(ev) /\ Nesting(ev, n + 1) > Level(ev)
      /\ stg \in {"INIT", "WAIT_NEXT", "PARAMS"} /\ stg2 = StageAt(in, n + 1)
      /\ (stg = "INIT") <=> n \in CallStarts(ev)
  BY <1>1, StageOfKey DEF KeyStep
<1>3. stg2 # "INIT"
  BY DEF KeyStep, NameStage
<1>4. /\ st \in Seq(Item) /\ Len(st) = Depth(ev, n) /\ o \in Seq(Tokens) /\ sy \in 0..Len(o)
      /\ st2 \in Seq(Item) /\ Len(st2) = Depth(ev, n + 1) /\ o2 \in Seq(Tokens)
      /\ sy2 \in 0..Len(o2)
  BY <1>1 DEF Shape
<1>5. Len(st) \in Nat /\ Len(o) \in Nat /\ sy \in Nat /\ sy2 \in Nat
  BY <1>4
<1>6. n + 1 \in MapKeys(ev) /\ n + 1 \notin Values(ev) /\ n \notin CallKeys(ev)
  <2>1. n + 1 \in MapKeys(ev) /\ n + 1 \notin Values(ev)
    BY Kinds
  <2> QED BY <2>1, AfterKey
<1>7. /\ Len(st2) = Len(st)
      /\ \A i \in 1..Len(st) : st2[i].type = st[i].type /\ st2[i].ptr = st[i].ptr
  <2>1. st2 = IF stg = "PARAMS" THEN stack_grow(st, "map") ELSE st
    BY DEF KeyStep
  <2> QED BY <1>4, <2>1, GrownItems
<1>8. TypesFollow(ev, n + 1, st2)
  <2>1. \A i \in 1..Len(st2) : IF i <= Len(st) THEN st2[i].type = st[i].type
                               ELSE (st2[i].type = "map") <=> (ev[n + 1][1] = "start_map")
    BY <1>5, <1>7
  <2> QED BY <1>0, <1>1, <1>4, <2>1, TypesNext
<1>9. w \in Seq(Tokens) /\ m \in Seq(Tokens) /\ Encoded(in)[n + 1] = w \o m /\ Len(w) = Len(o)
  BY <1>0, <1>1, EncodedSteps, MeaningType DEF Matches
<1>10. /\ \A p : p \in P <=> \/ stg # "INIT" /\ p = sy
                             \/ stg = "PARAMS" /\ \E i \in 2..Len(st) : p = st[i].ptr
       /\ \A p : p \in Q <=> \/ p = sy2
                             \/ stg2 = "PARAMS" /\ \E i \in 2..Len(st2) : p = st2[i].ptr
  BY <1>3, <1>4, <1>5, PendingIs
<1>11. t \in Seq(Tokens) /\ f \in Seq(Tokens)
  <2>1. <<"func">> \in Tokens /\ <<"TUPLE">> \in Tokens
    BY MarksAreTokens
  <2> QED BY <2>1
<1>12. /\ stg = "PARAMS" => m = << <<"key">> >>
       /\ stg = "WAIT_NEXT" => m = t
       /\ stg = "INIT" => m = (<< <<"header", Id(ev, n)>> >> \o f) \o t
  BY <1>1, MeaningOfKey
<1>13. /\ stg = "PARAMS" => stg2 = "PARAMS" /\ st2 = stack_grow(st, "map")
       /\ stg # "INIT" => sy2 = sy
       /\ stg = "PARAMS" => o2 = o \o << <<"key">> >>
       /\ stg = "WAIT_NEXT" => o2 = o \o t
       /\ stg = "INIT" => o2 = o \o ((<< <<"header", 0>> >> \o f) \o t) /\ sy2 = Len(o) + 1
       /\ stg # "PARAMS" => stg2 = NameStage(in, ev[n + 1][2])
  BY DEF KeyStep
<1> HIDE DEF w, m, P, Q, f, t
<1>14. stg # "PARAMS" => RoomsFollow(in, n + 1, stg2, sy2, st2)
  <2> SUFFICES ASSUME stg # "PARAMS", stg2 = "PARAMS" PROVE RoomsFollow(in, n + 1, stg2, sy2, st2)
    BY DEF RoomsFollow
  <2>1. n + 1 \in CallKeys(ev)
    <3>1. ev[n + 1][2] = "params"
      BY <1>13 DEF NameStage
    <3> QED BY <1>1, <3>1, StageOfKey
  <2>2. Nesting(ev, n + 1) = Level(ev) + 1
    BY <2>1 DEF CallKeys
  <2>3. Len(st2) = 1
    BY <1>0, <1>4, <2>2 DEF Depth
  <2>4. 2..1 = {}
    OBVIOUS
  <2> QED BY <2>3, <2>4 DEF RoomsFollow
<1>15. CASE stg # "INIT"
  <2>1. o2 = o \o m /\ sy2 = sy
    BY <1>2, <1>12, <1>13, <1>15
  <2>2. RoomsFollow(in, n + 1, stg2, sy2, st2)
    <3>1. CASE stg = "PARAMS"
      <4>1. \A i \in 1..Len(st) :
              stack_grow(st, "map")[i].count =
                IF n + 1 \in Items(ev, OpenerOf(ev, n, i)) THEN st[i].count + 1 ELSE st[i].count
        <5>1. \/ n + 1 \in Values(ev) /\ "map" = "array"
              \/ n + 1 \in MapKeys(ev) /\ "map" = "map"
          BY <1>6
        <5> QED BY <1>0, <1>1, <1>4, <5>1, GrownCounts
      <4>2. \A i \in 2..Len(st2) : i \in 1..Len(st) /\ i <= Len(st)
        BY <1>5, <1>7
      <4>3. RoomsFollow(in, n, "PARAMS", sy, st)
        BY <1>1, <3>1
      <4>4. st2 = stack_grow(st, "map") /\ stg2 = "PARAMS"
        BY <1>13, <3>1
      <4> QED BY <1>0, <1>4, <1>7, <2>1, <4>1, <4>2, <4>3, <4>4, RoomsNext
    <3> QED BY <1>14, <3>1
  <2>3. BeenFollows(ev, n + 1, stg2, been)
    <3>1. CASE stg = "PARAMS"
      BY <1>13, <3>1 DEF BeenFollows
    <3>2. CASE stg # "PARAMS"
      <4>1. ev[n + 1][2] = "params" => stg2 = "PARAMS"
        BY <1>13, <3>2 DEF NameStage
      <4> QED BY <1>0, <1>1, <1>2, <1>3, <1>15, <3>2, <4>1, BeenNext
    <3> QED BY <3>1, <3>2
  <2>4. HeaderFollows(in, n + 1, stg2, o2, sy2)
    <3>1. sy \in 1..Len(o)
      BY <1>1, <1>15 DEF HeaderFollows
    <3>2. Len(o \o m) >= Len(o) /\ (o \o m)[sy] = o[sy]
      BY <1>4, <1>9, <3>1
    <3>3. o2[sy] = IF n \in CallKeys(ev) /\ ev[n][2] = "id" THEN <<"header", ev[n + 1][2]>>
                   ELSE o[sy]
      BY <1>6, <2>1, <3>2
    <3>4. Len(o2) >= Len(o)
      BY <2>1, <3>2
    <3> QED BY <1>1, <1>2, <1>4, <1>15, <2>1, <3>3, <3>4, HeaderNext
  <2>5. Matches(o \o m, w \o m, Q)
    <3>1. Matches(o, w, P)
      BY <1>1 DEF w, P
    <3>2. \A i \in 2..Len(st) : i \in 2..Len(st2) /\ st2[i].ptr = st[i].ptr
      <4>1. \A i \in 2..Len(st) : i \in 1..Len(st)
        BY <1>5
      <4> QED BY <1>7, <4>1
    <3>3. P \subseteq Q
      <4> SUFFICES ASSUME NEW p \in P PROVE p \in Q
        OBVIOUS
      <4>1. CASE p = sy
        BY <1>10, <2>1, <4>1
      <4>2. CASE stg = "PARAMS" /\ \E i \in 2..Len(st) : p = st[i].ptr
        <5>1. stg2 = "PARAMS" /\ \E i \in 2..Len(st2) : p = st2[i].ptr
          BY <1>13, <3>2, <4>2
        <5> QED BY <1>10, <5>1
      <4> QED BY <1>10, <4>1, <4>2
    <3> QED BY <1>4, <1>9, <3>1, <3>3, MatchesMore
  <2> QED BY <1>2, <1>8, <1>9, <2>1, <2>2, <2>3, <2>4, <2>5 DEF Follows, Q
<1>16. CASE stg = "INIT"
  <2> DEFINE h == <<"header", 0>>
             k == <<"header", Id(ev, n)>>
             x == (<<h>> \o f) \o t
  <2>1. h \in Tokens /\ k \in Tokens
    BY IdType, MarksAreTokens
  <2>2. o2 = o \o x /\ sy2 = Len(o) + 1 /\ m = (<<k>> \o f) \o t
    BY <1>12, <1>13, <1>16
  <2> HIDE DEF h, k
  <2>3. /\ x \in Seq(Tokens) /\ Len(x) = Len(m) /\ Len(x) > 0 /\ x[1] = h
        /\ \A q \in 1..Len(x) : x[q] = m[q] \/ q = 1
    BY <1>11, <2>1, <2>2, FirstDiffers
  <2> HIDE DEF x
  <2>4. Matches(o \o x, w \o m, Q)
    <3>1. Matches(o, w, P)
      BY <1>1 DEF w, P
    <3>2. P \subseteq Q
      BY <1>10, <1>16
    <3>3. \A q \in 1..Len(x) : x[q] = m[q] \/ Len(o) + q \in Q
      BY <1>10, <2>2, <2>3
    <3> QED BY <1>4, <1>9, <2>3, <3>1, <3>2, <3>3, MatchesMore
  <2>5. sy2 \in 1..Len(o2) /\ o2[sy2] = h /\ sy2 = Len(w) + 1
    <3>1. Len(o) + 1 \in 1..Len(o \o x) /\ (o \o x)[Len(o) + 1] = x[1]
      BY <1>4, <2>3
    <3> QED BY <1>9, <2>2, <2>3, <3>1
  <2>6. CallOf(ev, n + 1) = n /\ HeaderFollows(in, n + 1, stg2, o2, sy2)
    BY <1>0, <1>2, <1>6, <1>16, <2>5, HeaderFirst DEF h, w
  <2>7. BeenFollows(ev, n + 1, stg2, been)
    <3>1. been = {}
      BY <1>1, <1>16 DEF BeenFollows
    <3>2. ev[n + 1][2] = "params" => stg2 = "PARAMS"
      BY <1>13, <1>16 DEF NameStage
    <3> QED BY <1>0, <1>3, <2>6, <3>1, <3>2, BeenFirst
  <2>8. RoomsFollow(in, n + 1, stg2, sy2, st2)
    BY <1>14, <1>16
  <2> QED BY <1>2, <1>8, <1>9, <2>2, <2>4, <2>6, <2>7, <2>8 DEF Follows, Q
<1> QED BY <1>15, <1>16

(* What begins or ends the array of a batch changes nothing. *)
LEMMA BatchFollows ==
  ASSUME NEW in, in.events \in Seq(Callbacks), IsRequest(in.events),
         NEW n \in 0..(Len(in.events) - 1),
         NEW been, NEW st, NEW o, NEW sy, Follows(in, n, "INIT", been, st, o, sy),
         Shape(in, n + 1, st, o, sy), StageAt(in, n + 1) = "INIT", Meaning(in, n + 1) = <<>>
  PROVE  Follows(in, n + 1, "INIT", been, st, o, sy)
<1> DEFINE ev == in.events
           w == Encoded(in)[n]
<1>0. IsBody(ev) /\ n \in 0..Len(ev)
  BY DEF IsRequest
<1>1. /\ Shape(in, n, st, o, sy) /\ TypesFollow(ev, n, st)
      /\ BeenFollows(ev, n, "INIT", been) /\ Matches(o, w, Pending("INIT", sy, st))
  BY DEF Follows
<1>2. Len(st) = Depth(ev, n) /\ Len(st) = Depth(ev, n + 1) /\ Len(st) \in Nat
  BY <1>1 DEF Shape
<1>3. TypesFollow(ev, n + 1, st)
  <2>1. \A i \in 1..Len(st) : IF i <= Len(st) THEN st[i].type = st[i].type
                              ELSE (st[i].type = "map") <=> (ev[n + 1][1] = "start_map")
    BY <1>2
  <2> QED BY <1>0, <1>1, <1>2, <2>1, TypesNext
<1>4. w \in Seq(Tokens) /\ Encoded(in)[n + 1] = w \o <<>>
  BY <1>0, EncodedSteps
<1>5. Encoded(in)[n + 1] = w
  BY <1>4
<1>6. BeenFollows(ev, n + 1, "INIT", been)
  BY <1>1 DEF BeenFollows
<1>7. RoomsFollow(in, n + 1, "INIT", sy, st) /\ HeaderFollows(in, n + 1, "INIT", o, sy)
  BY DEF RoomsFollow, HeaderFollows
<1> QED BY <1>1, <1>3, <1>5, <1>6, <1>7 DEF Follows

(* What the functions for what opens do. *)
OpeningStep(in, n, stg, st, o, st2, o2) ==
  LET type == IF in.events[n + 1][1] = "start_map" THEN "map" ELSE "array"
  IN  /\ st2 = Append(stack_grow(st, "array"), [ptr |-> Len(o) + 1, count |-> 0, type |-> type])
      /\ o2 = o \o (IF stg # "PARAMS" THEN <<>>
                    ELSE IF type = "array" /\ Len(st) = 1 /\ in.has_data
                         THEN << <<"slot">>, <<"data">> >>
                    ELSE << <<"slot">> >>)

(* After something has opened. *)
LEMMA OpeningFollows ==
  ASSUME NEW in, in.events \in Seq(Callbacks), IsRequest(in.events),
         NEW n \in 0..(Len(in.events) - 1), n + 1 \in Openings(in.events),
         NEW stg, NEW been, NEW st, NEW o, NEW sy, Follows(in, n, stg, been, st, o, sy),
         NEW st2, NEW o2, Shape(in, n + 1, st2, o2, sy),
         OpeningStep(in, n, stg, st, o, st2, o2)
  PROVE  Follows(in, n + 1, stg, been, st2, o2, sy)
<1> DEFINE ev == in.events
           w == Encoded(in)[n]
           m == Meaning(in, n + 1)
           P == Pending(stg, sy, st)
           Q == Pending(stg, sy, st2)
           type == IF ev[n + 1][1] = "start_map" THEN "map" ELSE "array"
           t == IF stg # "PARAMS" THEN <<>>
                ELSE IF type = "array" /\ Len(st) = 1 /\ in.has_data
                     THEN << <<"slot">>, <<"data">> >>
                ELSE << <<"slot">> >>
           x == [ptr |-> Len(o) + 1, count |-> 0, type |-> type]
           g == stack_grow(st, "array")
<1>0. IsBody(ev) /\ n \in 0..Len(ev) /\ n \in Nat /\ Level(ev) \in {0, 1}
      /\ Nesting(ev, n) \in Nat
  BY OpenUntilEnd DEF IsRequest
<1>1. /\ Shape(in, n, st, o, sy) /\ stg = StageAt(in, n)
      /\ TypesFollow(ev, n, st) /\ RoomsFollow(in, n, stg, sy, st)
      /\ HeaderFollows(in, n, stg, o, sy) /\ BeenFollows(ev, n, stg, been)
      /\ Matches(o, w, P)
  BY DEF Follows
<1>2. /\ Nesting(ev, n + 1) = Nesting(ev, n) + 1
      /\ n + 1 \notin CallKeys(ev) /\ n \notin CallStarts(ev)
      /\ stg = StageAt(in, n + 1) /\ stg \in {"INIT", "WAIT_NEXT", "PARAMS"}
      /\ (stg = "INIT") <=> Nesting(ev, n) <= Level(ev)
  BY <1>1, StageOfOpening
<1>3. stg # "INIT" => Nesting(ev, n) > Level(ev) /\ Nesting(ev, n + 1) > Level(ev)
  BY <1>0, <1>2
<1>4. /\ st \in Seq(Item) /\ Len(st) = Depth(ev, n) /\ o \in Seq(Tokens) /\ sy \in 0..Len(o)
      /\ st2 \in Seq(Item) /\ Len(st2) = Depth(ev, n + 1) /\ o2 \in Seq(Tokens)
  BY <1>1 DEF Shape
<1>5. Len(st) \in Nat /\ Len(o) \in Nat /\ sy \in Nat
  BY <1>4
<1>6. n + 1 \in Values(ev) /\ n + 1 \notin MapKeys(ev)
      /\ ev[n + 1][1] \in {"start_map", "start_array"}
  BY Kinds
<1>7. st2 = Append(g, x) /\ o2 = o \o t
  BY DEF OpeningStep
<1> HIDE DEF t, x, g
<1>8. /\ Len(st2) = Len(st) + 1 /\ st2[Len(st) + 1] = x
      /\ \A i \in 1..Len(st) : st2[i] = g[i]
  <2>1. g \in Seq(Item) /\ Len(g) = Len(st)
    BY <1>4, GrownItems DEF g
  <2> QED BY <1>5, <1>7, <2>1
<1>9. \A i \in 1..Len(st) : st2[i].type = st[i].type /\ st2[i].ptr = st[i].ptr
  <2>1. \A i \in 1..Len(st) : g[i].type = st[i].type /\ g[i].ptr = st[i].ptr
    BY <1>4, GrownItems DEF g
  <2> QED BY <1>8, <2>1
<1>10. /\ x.ptr = Len(o) + 1 /\ x.count = 0
       /\ (x.type = "map") <=> (ev[n + 1][1] = "start_map")
  BY DEF x
<1>11. \A i \in 1..Len(st2) : ~(i <= Len(st)) => st2[i] = x
  BY <1>5, <1>8
<1>12. TypesFollow(ev, n + 1, st2)
  <2>1. \A i \in 1..Len(st2) : IF i <= Len(st) THEN st2[i].type = st[i].type
                               ELSE (st2[i].type = "map") <=> (ev[n + 1][1] = "start_map")
    BY <1>5, <1>9, <1>10, <1>11
  <2> QED BY <1>0, <1>1, <1>4, <2>1, TypesNext
<1>13. w \in Seq(Tokens) /\ m \in Seq(Tokens) /\ Encoded(in)[n + 1] = w \o m /\ Len(w) = Len(o)
  BY <1>0, <1>1, EncodedSteps, MeaningType DEF Matches
<1>14. m = IF stg # "PARAMS" THEN <<>>
           ELSE IF in.has_data /\ ev[n + 1][1] = "start_array"
                   /\ Nesting(ev, n + 1) = Level(ev) + 2
                THEN << Header(in, n + 1), <<"data">> >>
           ELSE << Header(in, n + 1) >>
  BY <1>1, MeaningOfOpening
<1>15. \A p :
          p \in P <=> \/ stg # "INIT" /\ p = sy
                      \/ stg = "PARAMS" /\ \E i \in 2..Len(st) : p = st[i].ptr
  BY <1>4, <1>5, PendingIs
<1>16. \A p :
         p \in Q <=> \/ stg # "INIT" /\ p = sy
                     \/ stg = "PARAMS" /\ \E i \in 2..Len(st2) : p = st2[i].ptr
  <2>1. st2 \in Seq(Item) /\ sy \in Nat
    BY <1>4, <1>5
  <2> QED BY <2>1, PendingIs
<1>17. stg = "PARAMS" => Len(st) > 0
  BY <1>0, <1>3, <1>4 DEF Depth
<1>18. /\ t \in Seq(Tokens) /\ Len(t) = Len(m)
       /\ \A q \in 1..Len(t) : t[q] = m[q] \/ (q = 1 /\ stg = "PARAMS")
       /\ stg = "PARAMS" => m # <<>> /\ m[1] = Header(in, n + 1)
  <2>1. <<"slot">> \in Tokens /\ <<"data">> \in Tokens /\ Header(in, n + 1) \in Tokens
    BY MarksAreTokens, HeaderType
  <2> HIDE DEF m
  <2>2. CASE stg # "PARAMS"
    <3>1. t = <<>> /\ m = <<>>
      BY <1>14, <2>2 DEF t
    <3> QED BY <2>2, <3>1
  <2>3. CASE stg = "PARAMS"
    <3> DEFINE args == in.has_data /\ ev[n + 1][1] = "start_array"
                       /\ Nesting(ev, n + 1) = Level(ev) + 2
               a == <<"slot">>
               d == <<"data">>
               h == Header(in, n + 1)
    <3>1. Len(st) = 1 <=> Nesting(ev, n + 1) = Level(ev) + 2
      <4>1. Nesting(ev, n) > Level(ev) /\ Len(st) = Depth(ev, n)
        BY <1>3, <1>4, <2>3
      <4> QED BY <1>0, <1>2, <4>1 DEF Depth
    <3>2. (type = "array") <=> (ev[n + 1][1] = "start_array")
      BY <1>6
    <3>3. /\ t = IF args THEN <<a, d>> ELSE <<a>>
          /\ m = IF args THEN <<h, d>> ELSE <<h>>
      BY <1>14, <2>3, <3>1, <3>2 DEF t
    <3> HIDE DEF args, a, d, h
    <3>4. CASE args
      <4>1. t = <<a, d>> /\ m = <<h, d>>
        BY <3>3, <3>4
      <4>2. a \in Tokens /\ d \in Tokens
        BY <2>1 DEF a, d
      <4> QED BY <2>3, <4>1, <4>2 DEF h
    <3>5. CASE ~args
      <4>1. t = <<a>> /\ m = <<h>>
        BY <3>3, <3>5
      <4>2. a \in Tokens
        BY <2>1 DEF a
      <4> QED BY <2>3, <4>1, <4>2 DEF h
    <3> QED BY <3>4, <3>5
  <2> QED BY <2>2, <2>3
<1> HIDE DEF w, m, P, Q, type
<1>19. RoomsFollow(in, n + 1, stg, sy, st2)
  <2>1. CASE stg = "PARAMS"
    <3>1. \A i \in 1..Len(st) :
            g[i].count =
              IF n + 1 \in Items(ev, OpenerOf(ev, n, i)) THEN st[i].count + 1 ELSE st[i].count
      <4> TAKE i \in 1..Len(st)
      <4>1. \/ n + 1 \in Values(ev) /\ "array" = "array"
            \/ n + 1 \in MapKeys(ev) /\ "array" = "map"
        BY <1>6
      <4>2. st \in Seq(Item) /\ Len(st) = Depth(ev, n) /\ TypesFollow(ev, n, st) /\ IsBody(ev)
        BY <1>0, <1>1, <1>4
      <4>3. stack_grow(st, "array")[i].count =
              IF n + 1 \in Items(ev, OpenerOf(ev, n, i)) THEN st[i].count + 1 ELSE st[i].count
        BY <4>1, <4>2, GrownCounts
      <4> QED BY <4>3 DEF g
    <3>2. \A i \in 2..Len(st2) :
            IF i <= Len(st)
              THEN /\ st2[i].ptr = st[i].ptr
                   /\ st2[i].count = IF n + 1 \in Items(ev, OpenerOf(ev, n, i))
                                     THEN st[i].count + 1 ELSE st[i].count
              ELSE /\ st2[i].count = 0 /\ st2[i].ptr > sy
                   /\ st2[i].ptr = Len(Encoded(in)[n]) + 1
                   /\ Meaning(in, n + 1) # <<>>
                   /\ Meaning(in, n + 1)[1] = Header(in, n + 1)
      <4> TAKE i \in 2..Len(st2)
      <4>1. CASE i <= Len(st)
        <5>1. i \in 1..Len(st)
          BY <1>5, <4>1
        <5>2. st2[i] = g[i]
          BY <1>8, <5>1
        <5>3. st2[i].count = IF n + 1 \in Items(ev, OpenerOf(ev, n, i))
                             THEN st[i].count + 1 ELSE st[i].count
          BY <3>1, <5>1, <5>2
        <5> QED BY <1>9, <4>1, <5>1, <5>3
      <4>2. CASE ~(i <= Len(st))
        <5>1. st2[i] = x
          BY <1>11, <4>2
        <5>2. Len(o) + 1 > sy
          BY <1>4
        <5>3. st2[i].count = 0 /\ st2[i].ptr = Len(o) + 1
          BY <1>10, <5>1
        <5>4. Len(Encoded(in)[n]) = Len(o)
          BY <1>13 DEF w
        <5>5. Meaning(in, n + 1) # <<>> /\ Meaning(in, n + 1)[1] = Header(in, n + 1)
          BY <1>18, <2>1 DEF m
        <5> QED BY <4>2, <5>2, <5>3, <5>4, <5>5
      <4> QED BY <4>1, <4>2
    <3>3. RoomsFollow(in, n, "PARAMS", sy, st)
      BY <1>1, <2>1
    <3> QED BY <1>0, <1>4, <2>1, <3>2, <3>3, RoomsNext
  <2>2. CASE stg # "PARAMS"
    BY <2>2 DEF RoomsFollow
  <2> QED BY <2>1, <2>2
<1>20. BeenFollows(ev, n + 1, stg, been)
  <2>1. CASE stg \in {"INIT", "PARAMS"}
    BY <1>1, <2>1 DEF BeenFollows
  <2>2. CASE stg \notin {"INIT", "PARAMS"}
    BY <1>0, <1>1, <1>3, <1>6, <2>2, BeenNext
  <2> QED BY <2>1, <2>2
<1>21. HeaderFollows(in, n + 1, stg, o2, sy)
  <2>1. CASE stg = "INIT"
    BY <2>1 DEF HeaderFollows
  <2>2. CASE stg # "INIT"
    <3>1. sy \in 1..Len(o)
      BY <1>1, <2>2 DEF HeaderFollows
    <3>2. Len(o \o t) >= Len(o) /\ (o \o t)[sy] = o[sy]
      BY <1>4, <1>18, <3>1
    <3>3. ~(n \in CallKeys(ev) /\ ev[n][2] = "id")
      BY <1>6, AfterKey
    <3>4. Len(o2) >= Len(o) /\ o2[sy] = IF n \in CallKeys(ev) /\ ev[n][2] = "id"
                                         THEN <<"header", ev[n + 1][2]>> ELSE o[sy]
      BY <1>7, <3>2, <3>3
    <3> QED BY <1>1, <1>3, <1>4, <2>2, <3>4, HeaderNext
  <2> QED BY <2>1, <2>2
<1>22. Matches(o \o t, w \o m, Q)
  <2>1. Matches(o, w, P)
    BY <1>1 DEF w, P
  <2>2. \A i \in 2..Len(st) : i \in 2..Len(st2) /\ st2[i].ptr = st[i].ptr
    BY <1>5, <1>8, <1>9
  <2>3. P \subseteq Q
    BY <1>15, <1>16, <2>2
  <2>4. stg = "PARAMS" => Len(o) + 1 \in Q
    <3>1. stg = "PARAMS" => Len(st) + 1 \in 2..Len(st2)
      BY <1>5, <1>8, <1>17
    <3>2. st2[Len(st) + 1].ptr = Len(o) + 1
      BY <1>8, <1>10
    <3>3. stg = "PARAMS" => \E i \in 2..Len(st2) : Len(o) + 1 = st2[i].ptr
      BY <3>1, <3>2
    <3> QED BY <1>16, <3>3
  <2>5. \A q \in 1..Len(t) : t[q] = m[q] \/ Len(o) + q \in Q
    BY <1>18, <2>4
  <2> QED BY <1>4, <1>13, <1>18, <2>1, <2>3, <2>5, MatchesMore
<1> QED BY <1>2, <1>7, <1>12, <1>13, <1>19, <1>20, <1>21, <1>22 DEF Follows, Q

(* What the end of an item of the stack leaves. *)
Closed(in, n, stg, st, sy, st2) ==
  /\ Len(st) \in Nat /\ Nesting(in.events, n) = Level(in.events) + Len(st)
  /\ Nesting(in.events, n + 1) = Level(in.events) + Len(st) - 1
  /\ Level(in.events) \in {0, 1}
  /\ Len(st2) = Len(st) - 1 /\ \A i \in 1..Len(st2) : st2[i] = st[i]
  /\ TypesFollow(in.events, n + 1, st2)
  /\ stg = "PARAMS" => RoomsFollow(in, n + 1, "PARAMS", sy, st2)

(* Whatever ends leaves that. *)
LEMMA ClosingHere ==
  ASSUME NEW in, in.events \in Seq(Callbacks), IsRequest(in.events),
         NEW n \in 0..(Len(in.events) - 1), n + 1 \in Closings(in.events),
         NEW stg, NEW been, NEW st, NEW o, NEW sy, Follows(in, n, stg, been, st, o, sy),
         Len(st) > 0,
         NEW st2, st2 \in Seq(Item), Len(st2) = Depth(in.events, n + 1),
         st2 = SubSeq(st, 1, Len(st) - 1)
  PROVE  Closed(in, n, stg, st, sy, st2)
<1> DEFINE ev == in.events
<1>1. IsBody(ev) /\ Level(ev) \in {0, 1}
  BY OpenUntilEnd DEF IsRequest
<1>2. /\ st \in Seq(Item) /\ Len(st) = Depth(ev, n)
      /\ TypesFollow(ev, n, st) /\ RoomsFollow(in, n, stg, sy, st)
  BY DEF Follows, Shape
<1>3. Len(st) \in Nat /\ Nesting(ev, n) = Level(ev) + Len(st)
  BY <1>1, <1>2, DepthNext
<1>4. Nesting(ev, n + 1) = Level(ev) + Len(st) - 1
  <2>1. Nesting(ev, n + 1) = Nesting(ev, n) - 1
    BY StageOfClosing
  <2> QED BY <1>1, <1>3, <2>1
<1>5. Len(st2) = Len(st) - 1 /\ \A i \in 1..Len(st2) : st2[i] = st[i]
  BY <1>2, <1>3
<1>6. TypesFollow(ev, n + 1, st2)
  <2>1. \A i \in 1..Len(st2) : IF i <= Len(st) THEN st2[i].type = st[i].type
                               ELSE (st2[i].type = "map") <=> (ev[n + 1][1] = "start_map")
    BY <1>3, <1>5
  <2> QED BY <1>1, <1>2, <2>1, TypesNext
<1>7. ASSUME stg = "PARAMS" PROVE RoomsFollow(in, n + 1, "PARAMS", sy, st2)
  <2>1. \A i \in 2..Len(st2) :
          IF i <= Len(st)
            THEN /\ st2[i].ptr = st[i].ptr
                 /\ st2[i].count = IF n + 1 \in Items(ev, OpenerOf(ev, n, i))
                                   THEN st[i].count + 1 ELSE st[i].count
            ELSE /\ st2[i].count = 0 /\ st2[i].ptr > sy
                 /\ st2[i].ptr = Len(Encoded(in)[n]) + 1
                 /\ Meaning(in, n + 1) # <<>>
                 /\ Meaning(in, n + 1)[1] = Header(in, n + 1)
    <3> TAKE i \in 2..Len(st2)
    <3>1. i <= Len(st) /\ st2[i] = st[i]
      BY <1>3, <1>5
    <3>2. n + 1 \notin Items(ev, OpenerOf(ev, n, i))
      BY ClosingIsNoItem
    <3> QED BY <3>1, <3>2
  <2>2. RoomsFollow(in, n, "PARAMS", sy, st)
    BY <1>2, <1>7
  <2> QED BY <1>1, <1>2, <2>1, <2>2, RoomsNext
<1> QED BY <1>1, <1>3, <1>4, <1>5, <1>6, <1>7 DEF Closed

(* After the end of a value that is skipped. *)
LEMMA SkippedEnds ==
  ASSUME NEW in, in.events \in Seq(Callbacks), IsRequest(in.events),
         NEW n \in 0..(Len(in.events) - 1), n + 1 \in Closings(in.events),
         NEW stg, NEW been, NEW st, NEW o, NEW sy, Follows(in, n, stg, been, st, o, sy),
         Len(st) > 1, stg # "PARAMS",
         NEW st2, Shape(in, n + 1, st2, o, sy), st2 = SubSeq(st, 1, Len(st) - 1)
  PROVE  Follows(in, n + 1, stg, been, st2, o, sy)
<1> DEFINE ev == in.events
           w == Encoded(in)[n]
<1>1. IsBody(ev) /\ n \in 0..Len(ev)
  BY DEF IsRequest
<1>2. /\ Shape(in, n, st, o, sy) /\ stg = StageAt(in, n) /\ HeaderFollows(in, n, stg, o, sy)
      /\ BeenFollows(ev, n, stg, been) /\ Matches(o, w, Pending(stg, sy, st))
  BY DEF Follows
<1>3. st2 \in Seq(Item) /\ Len(st2) = Depth(ev, n + 1) /\ o \in Seq(Tokens)
  BY DEF Shape
<1>4. /\ Len(st) \in Nat /\ Nesting(ev, n) = Level(ev) + Len(st)
      /\ Nesting(ev, n + 1) = Level(ev) + Len(st) - 1 /\ Level(ev) \in {0, 1}
      /\ TypesFollow(ev, n + 1, st2)
  <2>1. Len(st) > 0
    BY <1>2 DEF Shape
  <2>2. Closed(in, n, stg, st, sy, st2)
    BY <1>3, <2>1, ClosingHere
  <2> QED BY <2>2 DEF Closed
<1>5. /\ Nesting(ev, n) > Level(ev) /\ Nesting(ev, n + 1) > Level(ev)
  BY <1>4
<1>6. stg = "WAIT_NEXT" /\ StageAt(in, n + 1) = "WAIT_NEXT" /\ n \notin CallKeys(ev)
  BY <1>2, <1>4, <1>5, StageOfClosing
<1>7. HeaderFollows(in, n + 1, stg, o, sy)
  <2>1. Len(o) >= Len(o) /\ o[sy] = IF n \in CallKeys(ev) /\ ev[n][2] = "id"
                                    THEN <<"header", ev[n + 1][2]>> ELSE o[sy]
    BY <1>3, <1>6
  <2> QED BY <1>2, <1>3, <1>5, <1>6, <2>1, HeaderNext
<1>8. BeenFollows(ev, n + 1, stg, been)
  <2>1. n + 1 \notin MapKeys(ev)
    BY Kinds
  <2> QED BY <1>1, <1>2, <1>5, <1>6, <2>1, BeenNext
<1>9. Encoded(in)[n + 1] = w
  <2>1. Meaning(in, n + 1) = <<>>
    <3>1. Nesting(ev, n + 1) # Level(ev)
      BY <1>4, <1>5
    <3> QED BY <3>1, MeaningOfClosing
  <2>2. w \in Seq(Tokens) /\ Encoded(in)[n + 1] = w \o <<>>
    BY <1>1, <2>1, EncodedSteps
  <2> QED BY <2>2
<1>10. Pending(stg, sy, st2) = Pending(stg, sy, st)
  BY DEF Pending
<1>11. RoomsFollow(in, n + 1, stg, sy, st2)
  BY DEF RoomsFollow
<1> QED BY <1>2, <1>4, <1>6, <1>7, <1>8, <1>9, <1>10, <1>11 DEF Follows

(* What the end of a call writes. *)
Completion(in, been) ==
  IF "PARAMS" \in been THEN <<>>
  ELSE IF in.has_data THEN << <<"TUPLE">>, <<"array", 1>>, <<"data">> >>
  ELSE << <<"TUPLE">>, <<"array", 0>> >>

(* After the end of a call. *)
LEMMA CallEnds ==
  ASSUME NEW in, in.events \in Seq(Callbacks), IsRequest(in.events),
         NEW n \in 0..(Len(in.events) - 1), n + 1 \in Closings(in.events),
         NEW stg, NEW been, NEW st, NEW o, NEW sy, Follows(in, n, stg, been, st, o, sy),
         Len(st) = 1,
         NEW st2, NEW o2, Shape(in, n + 1, st2, o2, sy), st2 = <<>>,
         o2 = o \o Completion(in, been)
  PROVE  Follows(in, n + 1, "INIT", {}, st2, o2, sy)
<1> DEFINE ev == in.events
           c == CallOf(ev, n)
           w == Encoded(in)[n]
           m == Meaning(in, n + 1)
           P == Pending(stg, sy, st)
<1>1. IsBody(ev) /\ n \in 0..Len(ev)
  BY DEF IsRequest
<1>2. /\ Shape(in, n, st, o, sy) /\ stg = StageAt(in, n) /\ HeaderFollows(in, n, stg, o, sy)
      /\ BeenFollows(ev, n, stg, been) /\ Matches(o, w, P)
  BY DEF Follows
<1>3. /\ st \in Seq(Item) /\ o \in Seq(Tokens) /\ sy \in Nat
      /\ st2 \in Seq(Item) /\ Len(st2) = Depth(ev, n + 1)
  BY <1>2 DEF Shape
<1>4. /\ Nesting(ev, n) = Level(ev) + 1 /\ Nesting(ev, n + 1) = Level(ev)
      /\ Level(ev) \in {0, 1} /\ TypesFollow(ev, n + 1, st2)
  <2>1. st2 = SubSeq(st, 1, Len(st) - 1)
    BY <1>3
  <2>2. Len(st) > 0
    OBVIOUS
  <2>3. Closed(in, n, stg, st, sy, st2)
    BY <1>3, <2>1, <2>2, ClosingHere
  <2>4. Len(st) = 1
    OBVIOUS
  <2> QED BY <2>3, <2>4 DEF Closed
<1>5. stg = "WAIT_NEXT" /\ StageAt(in, n + 1) = "INIT" /\ n \notin CallStarts(ev)
  BY <1>2, <1>4, StageOfClosing
<1>6. w \in Seq(Tokens) /\ m \in Seq(Tokens) /\ Encoded(in)[n + 1] = w \o m
  BY <1>1, EncodedSteps, MeaningType
<1>7. Matches(o, w, {})
  <2>1. sy = Len(Encoded(in)[c]) + 1 /\ o[sy] = <<"header", IdSoFar(ev, c, n)>>
    BY <1>2, <1>5 DEF HeaderFollows
  <2>2. IdSoFar(ev, c, n) = Id(ev, c)
    BY <1>1, <1>4, IdAtEnd
  <2>3. w[Len(Encoded(in)[c]) + 1] = <<"header", Id(ev, c)>>
    <3>1. Nesting(ev, n) > Level(ev)
      BY <1>4
    <3> QED BY <1>1, <1>5, <3>1, CallHeader
  <2>4. \A p : p \in P => p = sy
    BY <1>5 DEF Pending
  <2>5. \A p \in 1..Len(o) : p \in P => p \in {} \/ o[p] = w[p]
    BY <2>1, <2>2, <2>3, <2>4
  <2> HIDE DEF w, P
  <2> QED BY <1>2, <1>3, <1>6, <2>5, MatchesSame
<1>8. m = Completion(in, been)
  <2>1. ("PARAMS" \in been) <=> \E k \in Items(ev, c) : k <= n /\ ev[k][2] = "params"
    BY <1>2, <1>5 DEF BeenFollows, HadParams
  <2>2. m = IF /\ Nesting(ev, n + 1) = Level(ev)
               /\ ~\E k \in Items(ev, c) : k <= n /\ ev[k][2] = "params"
            THEN IF in.has_data THEN << <<"TUPLE">>, <<"array", 1>>, <<"data">> >>
                 ELSE << <<"TUPLE">>, <<"array", 0>> >>
            ELSE <<>>
    BY MeaningOfClosing
  <2>3. CASE "PARAMS" \in been
    BY <2>1, <2>2, <2>3 DEF Completion
  <2>4. CASE ~("PARAMS" \in been)
    BY <1>4, <2>1, <2>2, <2>4 DEF Completion
  <2> QED BY <2>3, <2>4
<1>9. Matches(o \o m, w \o m, Pending("INIT", sy, st2))
  <2> DEFINE none == {}
             Q == Pending("INIT", sy, st2)
  <2>1. Matches(o, w, none) /\ none \subseteq Q
    BY <1>7
  <2> HIDE DEF m, w, none, Q
  <2>2. \A q \in 1..Len(m) : m[q] = m[q] \/ Len(o) + q \in Q
    OBVIOUS
  <2>3. Len(m) = Len(m)
    OBVIOUS
  <2>4. Matches(o \o m, w \o m, Q)
    BY <1>3, <1>6, <2>1, <2>2, <2>3, MatchesMore
  <2> QED BY <2>4 DEF Q
<1>10. /\ RoomsFollow(in, n + 1, "INIT", sy, st2) /\ HeaderFollows(in, n + 1, "INIT", o2, sy)
       /\ BeenFollows(ev, n + 1, "INIT", {})
  BY DEF RoomsFollow, HeaderFollows, BeenFollows
<1> QED BY <1>4, <1>5, <1>6, <1>8, <1>9, <1>10 DEF Follows

(* What the functions for what ends do in params. *)
ParamsEndStep(in, n, been, st, o, stg2, been2, st2, o2) ==
  LET k == Len(st)
      item == st[k]
      count == IF k = 2 /\ in.has_data THEN item.count + 1 ELSE item.count
  IN  /\ st2 = SubSeq(st, 1, k - 1)
      /\ o2 = [o EXCEPT ![item.ptr] = IF in.events[n + 1][1] = "end_map"
                                      THEN <<"map", item.count>> ELSE <<"array", count>>]
      /\ stg2 = IF k = 2 THEN "WAIT_NEXT" ELSE "PARAMS"
      /\ been2 = IF k = 2 THEN been \cup {"PARAMS"} ELSE been
      /\ k = 2 => in.events[n + 1][1] = "end_array"

(* What is written for an item when it ends is the header it should have.  *)
HasHeader(in, n, sy, k, item) ==
  LET w == Encoded(in)[n]
  IN  /\ item.ptr \in 1..Len(w) /\ item.ptr > sy /\ w[item.ptr] \in Tokens
      /\ w[item.ptr] = IF in.events[n + 1][1] = "end_map" THEN <<"map", item.count>>
                       ELSE <<"array",
                              IF k = 2 /\ in.has_data THEN item.count + 1 ELSE item.count>>
EndsAt(in, n, sy, k, item) ==
  /\ sy \in Nat /\ k \in Nat /\ k > 1 /\ Nesting(in.events, n) = Level(in.events) + k
  /\ Room(in, n, sy, item, OpenerOf(in.events, n, k))
  /\ k = 2 => in.events[n + 1][1] = "end_array"

(* In params it is so. *)
LEMMA HeaderAtEnd ==
  ASSUME NEW in, in.events \in Seq(Callbacks), IsRequest(in.events),
         NEW n \in 0..(Len(in.events) - 1), n + 1 \in Closings(in.events),
         NEW sy, NEW k, NEW item, EndsAt(in, n, sy, k, item)
  PROVE  HasHeader(in, n, sy, k, item)
<1> DEFINE ev == in.events
           op == Opener(ev, n, Nesting(ev, n))
<1>1. IsBody(ev) /\ Level(ev) \in {0, 1} /\ n \in 0..Len(ev) /\ Len(ev) \in Nat /\ n + 1 - 1 = n
  BY OpenUntilEnd DEF IsRequest
<1>2. /\ sy \in Nat /\ k \in Nat /\ k > 1 /\ Nesting(ev, n) = Level(ev) + k
      /\ Room(in, n, sy, item, OpenerOf(ev, n, k))
      /\ k = 2 => ev[n + 1][1] = "end_array"
  BY DEF EndsAt
<1>3. IsOpener(ev, n, Nesting(ev, n), op) /\ OpenerOf(ev, n, k) = op
  BY <1>1, <1>2, Openers DEF OpenerOf
<1>4. /\ op \in 1..n /\ Nesting(ev, op) = Level(ev) + k
      /\ ev[op][1] \in {"start_map", "start_array"}
  BY <1>3, <1>2 DEF IsOpener, Openings
<1>5. /\ item.count = Place(n, Items(ev, op))
      /\ item.ptr = Len(Encoded(in)[op - 1]) + 1 /\ item.ptr > sy
      /\ Meaning(in, op) # <<>> /\ Meaning(in, op)[1] = Header(in, op)
  BY <1>3, <1>2 DEF Room
<1>6. item.count = Cardinality(Items(ev, op))
  BY <1>1, <1>5, ItemsAtEnd
<1>7. (ev[op][1] = "start_map") <=> (ev[n + 1][1] = "end_map")
  <2>1. n + 1 \in DOMAIN ev \ {1} /\ Inside(ev, n + 1) = op
    BY <1>1, <1>4 DEF Inside
  <2> QED BY <2>1 DEF IsRequest, IsJson
<1>8. IsArgs(ev, op) <=> (ev[op][1] = "start_array" /\ k = 2)
  BY <1>1, <1>4, <1>2 DEF IsArgs
<1>9. Header(in, op) = IF ev[op][1] = "start_map" THEN <<"map", item.count>>
                       ELSE <<"array", IF in.has_data /\ IsArgs(ev, op) THEN item.count + 1
                                       ELSE item.count>>
  BY <1>6 DEF Header
<1>10. Header(in, op) =
        IF ev[n + 1][1] = "end_map" THEN <<"map", item.count>>
        ELSE <<"array", IF k = 2 /\ in.has_data THEN item.count + 1 ELSE item.count>>
  <2>1. CASE ev[n + 1][1] = "end_map"
    BY <1>7, <1>9, <1>2, <2>1
  <2>2. CASE ev[n + 1][1] # "end_map"
    <3>1. ev[op][1] = "start_array"
      BY <1>4, <1>7, <2>2
    <3>2. IsArgs(ev, op) <=> k = 2
      BY <1>8, <3>1
    <3>3. CASE k = 2 /\ in.has_data
      BY <1>9, <2>2, <3>1, <3>2, <3>3
    <3>4. CASE ~(k = 2 /\ in.has_data)
      BY <1>9, <2>2, <3>1, <3>2, <3>4
    <3> QED BY <3>3, <3>4
  <2> QED BY <2>1, <2>2
<1>11. /\ Len(Encoded(in)[op - 1]) + 1 \in 1..Len(Encoded(in)[n])
       /\ Encoded(in)[n][Len(Encoded(in)[op - 1]) + 1] = Meaning(in, op)[1]
  <2> DEFINE b == op - 1
  <2>1. b \in 0..(Len(ev) - 1) /\ n \in (b + 1)..Len(ev) /\ b + 1 = op
    BY <1>1, <1>4
  <2> HIDE DEF b
  <2>2. Meaning(in, b + 1) # <<>>
    BY <1>5, <2>1
  <2>3. /\ Len(Encoded(in)[b]) + 1 \in 1..Len(Encoded(in)[n])
        /\ Encoded(in)[n][Len(Encoded(in)[b]) + 1] = Meaning(in, b + 1)[1]
    BY <2>1, <2>2, FirstWritten
  <2> QED BY <2>1, <2>3 DEF b
<1>12. Header(in, op) \in Tokens
  BY HeaderType
<1>13. Encoded(in)[n][item.ptr] = Header(in, op)
  BY <1>5, <1>11
<1> HIDE DEF op
<1> QED BY <1>5, <1>10, <1>11, <1>12, <1>13 DEF HasHeader

(* After something has ended in params. *)
LEMMA ParamsEnd ==
  ASSUME NEW in, in.events \in Seq(Callbacks), IsRequest(in.events),
         NEW n \in 0..(Len(in.events) - 1), n + 1 \in Closings(in.events),
         NEW been, NEW st, NEW o, NEW sy, Follows(in, n, "PARAMS", been, st, o, sy),
         Len(st) > 1,
         NEW stg2, NEW been2, NEW st2, NEW o2, Shape(in, n + 1, st2, o2, sy),
         ParamsEndStep(in, n, been, st, o, stg2, been2, st2, o2)
  PROVE  Follows(in, n + 1, stg2, been2, st2, o2, sy)
<1> DEFINE ev == in.events
           k == Len(st)
           w == Encoded(in)[n]
           P == Pending("PARAMS", sy, st)
           Q == Pending(stg2, sy, st2)
           item == st[k]
           t == IF ev[n + 1][1] = "end_map" THEN <<"map", item.count>>
                ELSE <<"array", IF k = 2 /\ in.has_data THEN item.count + 1 ELSE item.count>>
<1>1. IsBody(ev) /\ n \in 0..Len(ev)
  BY DEF IsRequest
<1>2. /\ Shape(in, n, st, o, sy) /\ "PARAMS" = StageAt(in, n)
      /\ RoomsFollow(in, n, "PARAMS", sy, st) /\ HeaderFollows(in, n, "PARAMS", o, sy)
      /\ Matches(o, w, P)
  BY DEF Follows
<1>3. /\ st \in Seq(Item) /\ o \in Seq(Tokens) /\ sy \in Nat
      /\ st2 \in Seq(Item) /\ Len(st2) = Depth(ev, n + 1) /\ o2 \in Seq(Tokens)
  BY <1>2 DEF Shape
<1>4. /\ st2 = SubSeq(st, 1, k - 1) /\ o2 = [o EXCEPT ![item.ptr] = t]
      /\ stg2 = IF k = 2 THEN "WAIT_NEXT" ELSE "PARAMS"
      /\ been2 = IF k = 2 THEN been \cup {"PARAMS"} ELSE been
      /\ k = 2 => ev[n + 1][1] = "end_array"
  BY DEF ParamsEndStep
<1>5. /\ k \in Nat /\ Nesting(ev, n) = Level(ev) + k
      /\ Nesting(ev, n + 1) = Level(ev) + k - 1 /\ Level(ev) \in {0, 1}
      /\ Len(st2) = k - 1 /\ \A i \in 1..Len(st2) : st2[i] = st[i]
      /\ TypesFollow(ev, n + 1, st2) /\ RoomsFollow(in, n + 1, "PARAMS", sy, st2)
  <2>1. Len(st) > 0
    BY <1>3
  <2>2. Closed(in, n, "PARAMS", st, sy, st2)
    BY <1>3, <1>4, <2>1, ClosingHere
  <2> QED BY <2>2 DEF Closed
<1>6. /\ Nesting(ev, n) > Level(ev) /\ Nesting(ev, n + 1) > Level(ev)
  BY <1>3, <1>5
<1>7. StageAt(in, n + 1) = stg2 /\ n \notin CallKeys(ev)
  <2> DEFINE next == Nesting(ev, n + 1)
             level == Level(ev)
  <2>1. k \in Nat /\ k > 1 /\ next = level + k - 1 /\ level \in {0, 1}
    BY <1>3, <1>5
  <2> HIDE DEF next, level, k
  <2>3. ~(next <= level) /\ (next = level + 1 <=> k = 2)
    BY <2>1
  <2> USE DEF next, level
  <2>2. /\ n \notin CallKeys(ev)
        /\ StageAt(in, n + 1) = IF Nesting(ev, n + 1) <= Level(ev) THEN "INIT"
                                ELSE IF Nesting(ev, n + 1) = Level(ev) + 1 THEN "WAIT_NEXT"
                                ELSE StageAt(in, n)
    BY StageOfClosing
  <2> QED BY <1>2, <1>4, <2>2, <2>3
<1>8. Room(in, n, sy, item, OpenerOf(ev, n, k))
  BY <1>2, <1>5 DEF RoomsFollow
<1>9. w \in Seq(Tokens) /\ Encoded(in)[n + 1] = w /\ Len(w) = Len(o)
  <2>1. Meaning(in, n + 1) = <<>>
    <3>1. Nesting(ev, n + 1) # Level(ev)
      BY <1>5, <1>6
    <3> QED BY <3>1, MeaningOfClosing
  <2>2. w \in Seq(Tokens) /\ Encoded(in)[n + 1] = w \o <<>>
    BY <1>1, <2>1, EncodedSteps
  <2> QED BY <1>2, <2>2 DEF Matches
<1>10. item.ptr \in 1..Len(o) /\ item.ptr > sy /\ w[item.ptr] = t /\ t \in Tokens
  <2>1. /\ item.ptr \in 1..Len(w) /\ item.ptr > sy /\ w[item.ptr] \in Tokens
        /\ w[item.ptr] = t
    <3>1. sy \in Nat /\ k \in Nat /\ k > 1 /\ Nesting(ev, n) = Level(ev) + k
      BY <1>3, <1>5
    <3>2. k = 2 => ev[n + 1][1] = "end_array"
      BY <1>4
    <3>3. EndsAt(in, n, sy, k, item)
      BY <1>8, <3>1, <3>2 DEF EndsAt
    <3>4. HasHeader(in, n, sy, k, item)
      BY <3>3, HeaderAtEnd
    <3> QED BY <3>4 DEF HasHeader
  <2> HIDE DEF t, w
  <2> QED BY <1>9, <2>1
<1> HIDE DEF t, w
<1>11. \A p : p \in P => (p = sy \/ \E i \in 2..k : p = st[i].ptr)
  BY DEF P, Pending
<1>12. \A p :
         p \in Q <=> \/ stg2 # "INIT" /\ p = sy
                     \/ stg2 = "PARAMS" /\ \E i \in 2..Len(st2) : p = st2[i].ptr
  <2>1. st2 \in Seq(Item) /\ sy \in Nat
    BY <1>3
  <2>2. Q = Pending(stg2, sy, st2)
    BY DEF Q
  <2> HIDE DEF Q
  <2>3. \A p : p \in Pending(stg2, sy, st2) <=>
               \/ stg2 # "INIT" /\ p = sy
               \/ stg2 = "PARAMS" /\ \E i \in 2..Len(st2) : p = st2[i].ptr
    BY <2>1, PendingIs
  <2> QED BY <2>2, <2>3, Zenon
<1> HIDE DEF P, Q
<1>13. Matches(o2, w, Q)
  <2>1. \A p \in P : p \in Q \/ p = item.ptr
    <3> SUFFICES ASSUME NEW p \in P, p # item.ptr PROVE p \in Q
      OBVIOUS
    <3>1. CASE p = sy
      BY <1>4, <1>12, <3>1
    <3>2. CASE p # sy
      <4>1. PICK i \in 2..k : p = st[i].ptr
        BY <1>11, <3>2
      <4>2. i # k
        BY <4>1
      <4>3. i \in 2..Len(st2) /\ st2[i] = st[i] /\ k # 2
        <5>1. k \in Nat /\ Len(st2) = k - 1 /\ \A j \in 1..Len(st2) : st2[j] = st[j]
          BY <1>5
        <5>2. i \in 2..(k - 1) /\ i \in 1..(k - 1) /\ k # 2
          BY <4>2, <5>1
        <5> QED BY <5>1, <5>2
      <4>4. stg2 = "PARAMS" /\ p = st2[i].ptr
        BY <1>4, <4>1, <4>3
      <4> QED BY <1>12, <4>3, <4>4
    <3> QED BY <3>1, <3>2
  <2>2. t = w[item.ptr]
    BY <1>10
  <2>3. Matches(o, w, P)
    BY <1>2 DEF w, P
  <2> QED BY <1>3, <1>4, <1>9, <1>10, <2>1, <2>2, <2>3, MatchesPut
<1>14. HeaderFollows(in, n + 1, stg2, o2, sy)
  <2>1. Len(o2) = Len(o) /\ o2[sy] = o[sy]
    BY <1>3, <1>4, <1>10
  <2>2. Len(o2) >= Len(o) /\ o2[sy] = IF n \in CallKeys(ev) /\ ev[n][2] = "id"
                                      THEN <<"header", ev[n + 1][2]>> ELSE o[sy]
    BY <1>3, <1>7, <2>1
  <2> QED BY <1>2, <1>3, <1>6, <2>2, HeaderNext
<1>15. RoomsFollow(in, n + 1, stg2, sy, st2)
  <2>1. CASE k = 2
    <3>1. stg2 = "WAIT_NEXT"
      BY <1>4, <2>1
    <3> QED BY <3>1 DEF RoomsFollow
  <2>2. CASE k # 2
    BY <1>4, <1>5, <2>2
  <2> QED BY <2>1, <2>2
<1>16. BeenFollows(ev, n + 1, stg2, been2)
  <2>1. CASE k = 2
    <3>1. stg2 # "INIT" /\ been2 = been \cup {"PARAMS"}
      BY <1>4, <2>1
    <3> QED BY <1>1, <1>2, <1>6, <3>1, BeenParams
  <2>2. CASE k # 2
    <3>1. stg2 = "PARAMS"
      BY <1>4, <2>2
    <3> QED BY <3>1 DEF BeenFollows
  <2> QED BY <2>1, <2>2
<1> QED BY <1>5, <1>7, <1>9, <1>13, <1>14, <1>15, <1>16 DEF Follows, w, Q

-----------------------------------------------------------------------------
(* Every step of the codec follows the body *)

RFollows == Follows(input, at, stage, been_stages, stack, out, sync)

(* What a callback finds, and the types of what it leaves. *)
LEMMA Finds ==
  ASSUME IsRequest(input.events), JInv, JInv', RFollows, NEW e, Callback(e), status' = status
  PROVE  /\ input' = input /\ at' = at + 1
         /\ input.events \in Seq(Callbacks) /\ IsBody(input.events)
         /\ at \in 0..(Len(input.events) - 1) /\ input.events[at + 1][1] = e
         /\ stage = StageAt(input, at) /\ Len(stack) = Depth(input.events, at)
         /\ stack \in Seq(Item) /\ out \in Seq(Tokens) /\ sync \in 0..Len(out)
         /\ Shape(input, at + 1, stack', out', sync')
<1> DEFINE ev == input.events
<1>1. /\ input' = input /\ at' = at + 1 /\ status = "parsing" /\ ev \in Seq(Callbacks)
      /\ IsBody(ev) /\ at \in 0..(Len(ev) - 1) /\ ev[at + 1][1] = e
  BY Here DEF IsRequest
<1>2. /\ stage = StageAt(input, at) /\ Len(stack) = Depth(ev, at)
      /\ stack \in Seq(Item) /\ out \in Seq(Tokens) /\ sync \in 0..Len(out)
  BY DEF RFollows, Follows, Shape
<1>3. IInv' /\ Where'
  BY <1>1 DEF JInv
<1>4. stack' \in Seq(Item) /\ out' \in Seq(Tokens) /\ sync' \in 0..Len(out')
  BY <1>3 DEF IInv, TypeOK
<1>5. Placed(ev, at + 1, batch_mode_on', Len(stack'), been_stages', stage', batch_size')
  BY <1>1, <1>3 DEF Where
<1>6. Len(stack') = Depth(ev, at + 1)
  BY <1>5 DEF Placed, Depth
<1> QED BY <1>1, <1>2, <1>4, <1>6 DEF Shape

(* It does so after a value. *)
LEMMA ValueRFollows ==
  ASSUME IsRequest(input.events), JInv, JInv', RFollows,
         yajl_scalar \/ yajl_integer \/ yajl_string, status' = status
  PROVE  RFollows'
<1> DEFINE ev == input.events
<1>1. PICK e \in {"scalar", "integer", "string"} :
        /\ Callback(e)
        /\ e = "scalar" => yajl_scalar
        /\ e = "integer" => yajl_integer
        /\ e = "string" => yajl_string
  BY DEF yajl_scalar, yajl_integer, yajl_string
<1>2. /\ input' = input /\ at' = at + 1 /\ ev \in Seq(Callbacks) /\ IsBody(ev)
      /\ at \in 0..(Len(ev) - 1) /\ ev[at + 1][1] = e /\ stage = StageAt(input, at)
      /\ out \in Seq(Tokens) /\ Shape(input, at + 1, stack', out', sync')
  BY <1>1, Finds
<1>3. /\ stage \in {"PARAMS", "ID", "METHOD", "WAIT_NEXT"}
      /\ stage = "ID" => e = "integer"
      /\ stage = "METHOD" => e = "string" /\ input.read_method
  <2>1. at \in 0..Len(ev)
    BY <1>2
  <2>2. /\ Nesting(ev, at) > Level(ev) /\ at \notin CallStarts(ev)
        /\ Nesting(ev, at) \in Nat /\ Level(ev) \in {0, 1}
    BY <1>2, <2>1, OpenUntilEnd, StageOfValue
  <2>3. stage # "INIT" /\ stage \in {"INIT", "PARAMS", "ID", "METHOD", "WAIT_NEXT"}
    BY <1>2, <2>1, <2>2, StageNow
  <2>4. stage = "METHOD" => input.read_method
    BY <1>2, <2>1, <2>3, StageNow
  <2>5. /\ stage = "ID" => e = "integer"
        /\ stage = "METHOD" => e = "string"
    BY <1>2, StageOfValue
  <2> QED BY <2>3, <2>4, <2>5
<1>4. \A t \in Tokens : Append(out, t) = out \o <<t>>
  BY <1>2
<1>5. <<"value">> \in Tokens /\ <<"func">> \in Tokens
  BY MarksAreTokens
<1>6. ValueStep(input, at, stage, been_stages, stack, out, sync,
                stage', been_stages', stack', out') /\ sync' = sync
  <2>1. CASE e = "scalar"
    <3>1. /\ IF stage = "PARAMS"
               THEN stack' = stack_grow(stack, "array") /\ out' = out \o << <<"value">> >>
               ELSE UNCHANGED <<stack, out>>
          /\ UNCHANGED <<stage, been_stages, sync>>
      BY <1>1, <2>1 DEF yajl_scalar, Write
    <3> QED BY <1>3, <2>1, <3>1 DEF ValueStep
  <2>2. CASE e = "integer"
    <3>1. /\ stack' = IF stage = "PARAMS" THEN stack_grow(stack, "array") ELSE stack
          /\ out' = CASE stage = "PARAMS" -> Append(out, <<"value">>)
                      [] stage = "ID" -> [out EXCEPT ![sync] = <<"header", ev[at + 1][2]>>]
                      [] OTHER -> out
          /\ stage' = IF stage = "ID" THEN "WAIT_NEXT" ELSE stage
          /\ been_stages' = IF stage = "ID" THEN been_stages \cup {"ID"} ELSE been_stages
          /\ sync' = sync
      <4>1. ~(stage = "ID" /\ ~IdOk(Event[2]))
        BY <1>1, <2>2 DEF yajl_integer, Fail, Callback
      <4>2. ASSUME stage = "ID"
            PROVE  tp_reqid(Event[2]) = [out EXCEPT ![sync] = <<"header", ev[at + 1][2]>>]
        <5>1. at \in CallKeys(ev) /\ ev[at][2] = "id"
          <6>1. at \in 0..Len(ev) /\ StageAt(input, at) = "ID"
            BY <1>2, <4>2
          <6> QED BY <1>2, <6>1, StageNow
        <5>2. ev[at + 1][2] \in Nat
          BY <1>2, <5>1, AfterKey
        <5>3. ev[at + 1][2] <= UINT32_MAX
          BY <4>1, <4>2 DEF IdOk, Event
        <5>4. ev[at + 1][2] % (UINT32_MAX + 1) = ev[at + 1][2]
          BY <5>2, <5>3, CutIsNumber
        <5> QED BY <5>4 DEF tp_reqid, Event
      <4> QED BY <1>1, <2>2, <4>1, <4>2 DEF yajl_integer
    <3>2. CASE stage = "PARAMS"
      BY <1>4, <1>5, <3>1, <3>2 DEF ValueStep
    <3>3. CASE stage = "ID"
      BY <3>1, <3>3 DEF ValueStep
    <3>4. CASE stage = "WAIT_NEXT"
      BY <3>1, <3>4 DEF ValueStep
    <3> QED BY <1>3, <2>2, <3>2, <3>3, <3>4
  <2>3. CASE e = "string"
    <3>1. /\ stack' = IF stage = "PARAMS" THEN stack_grow(stack, "array") ELSE stack
          /\ out' = CASE stage = "PARAMS" -> Append(out, <<"value">>)
                      [] stage = "METHOD" /\ input.read_method -> Append(out, <<"func">>)
                      [] OTHER -> out
          /\ stage' = IF stage = "PARAMS" THEN stage ELSE "WAIT_NEXT"
          /\ been_stages' = IF stage = "METHOD" /\ input.read_method
                              THEN been_stages \cup {"METHOD"} ELSE been_stages
          /\ sync' = sync
      BY <1>1, <2>3 DEF yajl_string, read_method
    <3>2. CASE stage = "PARAMS"
      BY <1>4, <1>5, <3>1, <3>2 DEF ValueStep
    <3>3. CASE stage = "METHOD"
      BY <1>3, <1>4, <1>5, <3>1, <3>3 DEF ValueStep
    <3>4. CASE stage = "WAIT_NEXT"
      BY <3>1, <3>4 DEF ValueStep
    <3> QED BY <1>3, <2>3, <3>2, <3>3, <3>4
  <2> QED BY <2>1, <2>2, <2>3
<1>7. Follows(input, at + 1, stage', been_stages', stack', out', sync)
  <2>1. Follows(input, at, stage, been_stages, stack, out, sync)
    BY DEF RFollows
  <2>2. Shape(input, at + 1, stack', out', sync)
    BY <1>2, <1>6
  <2>3. ev[at + 1][1] \in {"scalar", "integer", "string"}
    BY <1>2
  <2> QED BY <1>2, <1>6, <2>1, <2>2, <2>3, ValueFollows
<1> QED BY <1>2, <1>6, <1>7 DEF RFollows

(* It does so after a key. *)
LEMMA KeyRFollows ==
  ASSUME IsRequest(input.events), JInv, JInv', RFollows, yajl_map_key, status' = status
  PROVE  RFollows'
<1> DEFINE ev == input.events
           k == ev[at + 1][2]
           f == IF input.read_method THEN <<>> ELSE << <<"func">> >>
           t == IF k = "params" THEN << <<"TUPLE">> >> ELSE <<>>
<1>1. Callback("map_key")
  BY DEF yajl_map_key
<1>2. /\ input' = input /\ at' = at + 1 /\ ev \in Seq(Callbacks) /\ IsBody(ev)
      /\ at \in 0..(Len(ev) - 1) /\ ev[at + 1][1] = "map_key" /\ stage = StageAt(input, at)
      /\ out \in Seq(Tokens) /\ Shape(input, at + 1, stack', out', sync')
  BY <1>1, Finds
<1>3. stage \in {"INIT", "WAIT_NEXT", "PARAMS"}
  BY <1>2, StageOfKey
<1>4. /\ stage' = CASE stage = "PARAMS" -> "PARAMS"
                    [] stage \in {"INIT", "WAIT_NEXT"} -> KeyStage(k)
                    [] OTHER -> "WAIT_NEXT"
      /\ out' = out \o (MessageStart \o
                 (CASE stage = "PARAMS" -> << <<"key">> >>
                    [] stage \in {"INIT", "WAIT_NEXT"} /\ k = "params" -> << <<"TUPLE">> >>
                    [] OTHER -> <<>>))
      /\ stack' = IF stage = "PARAMS" THEN stack_grow(stack, "map") ELSE stack
      /\ sync' = IF stage = "INIT" THEN Len(out) + 1 ELSE sync
      /\ been_stages' = been_stages
  <2>1. ~(stage = "INIT" /\ TooManyCalls)
    BY <1>1 DEF yajl_map_key, Fail, Callback
  <2> QED BY <2>1 DEF yajl_map_key, Write, Event
<1>5. KeyStage(k) = NameStage(input, k)
  BY DEF KeyStage, NameStage, read_method
<1>6. \A s \in Seq(Tokens) : <<>> \o s = s
  OBVIOUS
<1>7. t \in Seq(Tokens) /\ << <<"key">> >> \in Seq(Tokens)
  BY MarksAreTokens
<1>8. KeyStep(input, at, stage, stack, out, sync, stage', stack', out', sync')
  <2>1. CASE stage = "PARAMS"
    <3>1. MessageStart = <<>>
      BY <2>1 DEF MessageStart
    <3>2. out' = out \o << <<"key">> >>
      <4>1. out' = out \o (<<>> \o << <<"key">> >>)
        BY <1>4, <2>1, <3>1
      <4> QED BY <1>6, <1>7, <4>1
    <3> QED BY <1>4, <2>1, <3>2 DEF KeyStep
  <2>2. CASE stage = "INIT"
    <3>1. MessageStart = << <<"header", 0>> >> \o f
      BY <2>2 DEF MessageStart, read_method
    <3>2. out' = out \o (MessageStart \o t)
      BY <1>4, <2>2
    <3>3. out' = out \o ((<< <<"header", 0>> >> \o f) \o t)
      BY <3>1, <3>2
    <3>4. stage' = NameStage(input, k) /\ stack' = stack /\ sync' = Len(out) + 1
      BY <1>4, <1>5, <2>2
    <3> QED BY <2>2, <3>3, <3>4 DEF KeyStep
  <2>3. CASE stage = "WAIT_NEXT"
    <3>1. MessageStart = <<>>
      BY <2>3 DEF MessageStart
    <3>2. out' = out \o (MessageStart \o t)
      BY <1>4, <2>3
    <3>3. out' = out \o t
      <4> HIDE DEF t
      <4> QED BY <1>6, <1>7, <3>1, <3>2
    <3>4. stage' = NameStage(input, k) /\ stack' = stack /\ sync' = sync
      BY <1>4, <1>5, <2>3
    <3> QED BY <2>3, <3>3, <3>4 DEF KeyStep
  <2> QED BY <1>3, <2>1, <2>2, <2>3
<1>9. Follows(input, at + 1, stage', been_stages, stack', out', sync')
  <2>1. Follows(input, at, stage, been_stages, stack, out, sync)
    BY DEF RFollows
  <2> QED BY <1>2, <1>8, <2>1, KeyFollows
<1> QED BY <1>2, <1>4, <1>9 DEF RFollows

(* It does so after something has opened. *)
LEMMA StartRFollows ==
  ASSUME IsRequest(input.events), JInv, JInv', RFollows,
         yajl_start_map \/ yajl_start_array, status' = status
  PROVE  RFollows'
<1> DEFINE ev == input.events
           type == IF ev[at + 1][1] = "start_map" THEN "map" ELSE "array"
<1>1. PICK e \in {"start_map", "start_array"} :
        /\ Callback(e)
        /\ e = "start_map" => yajl_start_map
        /\ e = "start_array" => yajl_start_array
  BY DEF yajl_start_map, yajl_start_array
<1>2. /\ input' = input /\ at' = at + 1 /\ ev \in Seq(Callbacks) /\ IsBody(ev)
      /\ at \in 0..(Len(ev) - 1) /\ ev[at + 1][1] = e /\ stage = StageAt(input, at)
      /\ stack \in Seq(Item) /\ out \in Seq(Tokens)
      /\ Shape(input, at + 1, stack', out', sync')
  BY <1>1, Finds
<1>3. at + 1 \in Openings(ev)
  BY <1>2, Kinds
<1>4. Follows(input, at, stage, been_stages, stack, out, sync)
  BY DEF RFollows
<1>5. CASE stage = "INIT" /\ e = "start_array"
  <2>1. UNCHANGED <<stage, been_stages, stack, out, sync>>
    BY <1>1, <1>5 DEF yajl_start_array
  <2>2. StageAt(input, at + 1) = "INIT" /\ Meaning(input, at + 1) = <<>>
    BY <1>2, <1>3, <1>5, StageOfOpening, MeaningOfOpening
  <2>3. Follows(input, at + 1, "INIT", been_stages, stack, out, sync)
    <3>1. Follows(input, at, "INIT", been_stages, stack, out, sync)
      BY <1>4, <1>5
    <3>2. Shape(input, at + 1, stack, out, sync)
      BY <1>2, <2>1
    <3> QED BY <1>2, <2>2, <3>1, <3>2, BatchFollows
  <2> QED BY <1>2, <1>5, <2>1, <2>3 DEF RFollows
<1>6. CASE ~(stage = "INIT" /\ e = "start_array")
  <2>1. Open(type)
    BY <1>1, <1>2, <1>6 DEF yajl_start_map, yajl_start_array
  <2> DEFINE s == stack_grow(stack, "array")
  <2>2. CanPush(s)
    BY <1>1, <2>1 DEF Open, Fail, Callback
  <2>3. /\ stack' = Append(s, [ptr |-> Len(out) + 1, count |-> 0, type |-> type])
        /\ out' = out \o (IF stage # "PARAMS" THEN <<>>
                          ELSE IF type = "array" /\ Len(s) = 1 /\ input.has_data
                                 THEN << <<"slot">>, <<"data">> >>
                          ELSE << <<"slot">> >>)
        /\ UNCHANGED <<stage, been_stages, sync>>
    BY <2>1, <2>2 DEF Open, Pushed, Write, has_data
  <2>4. Len(s) = Len(stack)
    BY <1>2, Counted
  <2>5. OpeningStep(input, at, stage, stack, out, stack', out')
    <3> HIDE DEF s
    <3>1. stack' = Append(stack_grow(stack, "array"),
                          [ptr |-> Len(out) + 1, count |-> 0, type |-> type])
      BY <2>3 DEF s
    <3>2. out' = out \o (IF stage # "PARAMS" THEN <<>>
                         ELSE IF type = "array" /\ Len(stack) = 1 /\ input.has_data
                                THEN << <<"slot">>, <<"data">> >>
                         ELSE << <<"slot">> >>)
      BY <2>3, <2>4
    <3> QED BY <3>1, <3>2 DEF OpeningStep
  <2>6. Follows(input, at + 1, stage, been_stages, stack', out', sync)
    <3>1. Shape(input, at + 1, stack', out', sync)
      BY <1>2, <2>3
    <3> QED BY <1>2, <1>3, <1>4, <2>5, <3>1, OpeningFollows
  <2> QED BY <1>2, <2>3, <2>6 DEF RFollows
<1> QED BY <1>5, <1>6

(* It does so after something has ended. *)
LEMMA EndRFollows ==
  ASSUME IsRequest(input.events), JInv, JInv', RFollows,
         yajl_end_map \/ yajl_end_array, status' = status
  PROVE  RFollows'
<1> DEFINE ev == input.events
           n == Len(stack)
<1>1. PICK e \in {"end_map", "end_array"} :
        /\ Callback(e)
        /\ e = "end_map" => yajl_end_map
        /\ e = "end_array" => yajl_end_array
  BY DEF yajl_end_map, yajl_end_array
<1>2. /\ input' = input /\ at' = at + 1 /\ ev \in Seq(Callbacks) /\ IsBody(ev)
      /\ at \in 0..(Len(ev) - 1) /\ ev[at + 1][1] = e /\ stage = StageAt(input, at)
      /\ stack \in Seq(Item) /\ out \in Seq(Tokens) /\ n = Depth(ev, at)
      /\ Shape(input, at + 1, stack', out', sync')
  BY <1>1, Finds
<1>3. /\ Placed(ev, at, batch_mode_on, n, been_stages, stage, batch_size) /\ n \in Nat
      /\ status = "parsing"
  BY <1>1, Here DEF IsRequest
<1>4. at + 1 \in Closings(ev) /\ at \in 0..Len(ev)
  BY <1>2, Kinds
<1>5. Follows(input, at, stage, been_stages, stack, out, sync)
  BY DEF RFollows
<1>6. sync' = sync
  BY DEF yajl_end_map, yajl_end_array
<1>7. Level(ev) \in {0, 1} /\ Nesting(ev, at) \in Nat /\ Nesting(ev, at + 1) \in Nat
      /\ Nesting(ev, at + 1) = Nesting(ev, at) - 1
  <2>1. Level(ev) \in {0, 1} /\ Nesting(ev, at) \in Nat
    BY <1>2, <1>4, OpenUntilEnd
  <2> QED BY <1>2, <1>4, <2>1, StageOfClosing, NestingNext
<1>8. status' # "params"
  BY <1>3
<1>9. CASE n = 0
  <2>1. e = "end_array" /\ stage = "INIT" /\ Nesting(ev, at) = 1 /\ Level(ev) = 1
    BY <1>2, <1>3, <1>9, AtBeginning
  <2>2. UNCHANGED <<stage, been_stages, stack, out>>
    BY <1>1, <1>9, <2>1 DEF yajl_end_array
  <2>3. StageAt(input, at + 1) = "INIT"
    <3>1. Nesting(ev, at + 1) <= Level(ev)
      BY <1>7, <2>1
    <3> QED BY <1>2, <1>4, <3>1, StageOfClosing
  <2>4. Meaning(input, at + 1) = <<>>
    <3>1. Nesting(ev, at + 1) # Level(ev)
      BY <1>7, <2>1
    <3> QED BY <1>2, <1>4, <3>1, MeaningOfClosing
  <2>5. Follows(input, at + 1, "INIT", been_stages, stack, out, sync)
    <3>1. Follows(input, at, "INIT", been_stages, stack, out, sync)
      BY <1>5, <2>1
    <3>2. Shape(input, at + 1, stack, out, sync)
      BY <1>2, <1>6, <2>2
    <3> QED BY <1>2, <2>3, <2>4, <3>1, <3>2, BatchFollows
  <2> QED BY <1>2, <1>6, <2>1, <2>2, <2>5 DEF RFollows
<1>10. CASE n > 0
  <2>1. stage # "INIT" /\ (n = 1 => e = "end_map")
    <3>1. n \in Nat \ {0}
      BY <1>3, <1>10
    <3> QED BY <1>2, <1>3, <3>1, ClosesCall
  <2>2. stage = "PARAMS" => n > 1
    <3>1. stage = "PARAMS" => Nesting(ev, at) > Level(ev) + 1
      BY <1>2, <1>4, StageOfClosing
    <3> QED BY <1>2, <1>7, <3>1 DEF Depth
  <2>3. CASE n = 1
    <3>1. /\ stack' = <<>> /\ stage' = "INIT" /\ been_stages' = {}
          /\ out' = out \o (IF "PARAMS" \in been_stages THEN <<>> ELSE EmptyParams)
      BY <1>1, <2>1, <2>3 DEF yajl_end_map, Write
    <3>2. out' = out \o Completion(input, been_stages)
      BY <3>1 DEF Completion, EmptyParams, has_data
    <3>3. Follows(input, at + 1, "INIT", {}, stack', out', sync)
      <4>1. Shape(input, at + 1, stack', out', sync)
        BY <1>2, <1>6
      <4> QED BY <1>2, <1>4, <1>5, <2>3, <3>1, <3>2, <4>1, CallEnds
    <3> QED BY <1>2, <1>6, <3>1, <3>3 DEF RFollows
  <2>4. CASE n > 1 /\ stage # "PARAMS"
    <3>1. /\ stack' = SubSeq(stack, 1, n - 1)
          /\ UNCHANGED <<stage, been_stages, out>>
      <4>1. CASE e = "end_map"
        BY <1>1, <1>3, <2>4, <4>1 DEF yajl_end_map, Popped
      <4>2. CASE e = "end_array"
        BY <1>1, <1>3, <2>4, <4>2 DEF yajl_end_array, Popped
      <4> QED BY <4>1, <4>2
    <3>2. Follows(input, at + 1, stage, been_stages, stack', out, sync)
      <4>1. Shape(input, at + 1, stack', out, sync)
        BY <1>2, <1>6, <3>1
      <4> QED BY <1>2, <1>4, <1>5, <2>4, <3>1, <4>1, SkippedEnds
    <3> QED BY <1>2, <1>6, <3>1, <3>2 DEF RFollows
  <2>5. CASE n > 1 /\ stage = "PARAMS"
    <3>1. ParamsEndStep(input, at, been_stages, stack, out, stage', been_stages', stack', out')
      <4>1. CASE e = "end_map"
        <5>1. n # 2
          BY <1>1, <1>3, <1>8, <2>5, <4>1 DEF yajl_end_map
        <5>2. /\ stack' = SubSeq(stack, 1, n - 1)
              /\ out' = [out EXCEPT ![stack[n].ptr] = <<"map", stack[n].count>>]
              /\ UNCHANGED <<stage, been_stages>>
          BY <1>1, <1>3, <2>5, <4>1, <5>1 DEF yajl_end_map, Popped
        <5> QED BY <1>2, <2>5, <4>1, <5>1, <5>2 DEF ParamsEndStep
      <4>2. CASE e = "end_array"
        <5>1. /\ stack' = SubSeq(stack, 1, n - 1)
              /\ out' = [out EXCEPT ![stack[n].ptr] = <<"array", ItemCount(n, stack[n])>>]
              /\ stage' = IF n = 2 THEN "WAIT_NEXT" ELSE stage
              /\ been_stages' = IF n = 2 THEN been_stages \cup {"PARAMS"} ELSE been_stages
          BY <1>1, <1>3, <2>5, <4>2 DEF yajl_end_array, Popped
        <5>2. ItemCount(n, stack[n]) = IF n = 2 /\ input.has_data THEN stack[n].count + 1
                                       ELSE stack[n].count
          BY DEF ItemCount, has_data
        <5> QED BY <1>2, <2>5, <4>2, <5>1, <5>2 DEF ParamsEndStep
      <4> QED BY <4>1, <4>2
    <3>2. Follows(input, at + 1, stage', been_stages', stack', out', sync)
      <4>1. Shape(input, at + 1, stack', out', sync)
        BY <1>2, <1>6
      <4>2. Follows(input, at, "PARAMS", been_stages, stack, out, sync)
        BY <1>5, <2>5
      <4> QED BY <1>2, <1>4, <2>5, <3>1, <4>1, <4>2, ParamsEnd
    <3> QED BY <1>2, <1>6, <3>2 DEF RFollows
  <2>6. n = 1 \/ n > 1
    <3> HIDE DEF n
    <3>1. n \in Nat /\ n > 0
      BY <1>3, <1>10
    <3> QED BY <3>1
  <2> QED BY <2>3, <2>4, <2>5, <2>6
<1> QED BY <1>3, <1>9, <1>10

-----------------------------------------------------------------------------
(* The theorems *)

(* What is open right in a field of a call is the value of its key.        *)
LEMMA FieldOpens ==
  ASSUME NEW ev \in Seq(Callbacks), IsRequest(ev), NEW n \in 0..Len(ev),
         Nesting(ev, n) = Level(ev) + 2
  PROVE  Opener(ev, n, Nesting(ev, n)) = KeyOf(ev, n) + 1
<1> DEFINE L == Level(ev)
           o == Opener(ev, n, Nesting(ev, n))
           k == KeyOf(ev, n)
<1>1. IsBody(ev) /\ L \in {0, 1} /\ Len(ev) \in Nat
  BY OpenUntilEnd DEF IsRequest
<1>2. IsOpener(ev, n, Nesting(ev, n), o)
  <2>1. Nesting(ev, n) \in 1..Nesting(ev, n)
    BY <1>1
  <2> QED BY <1>1, <2>1, Openers
<1>3. /\ o \in Openings(ev) /\ o \in 1..n /\ Nesting(ev, o) = L + 2
      /\ \A m \in Depths(ev, L + 2) : m <= n => m <= o
  BY <1>2 DEF IsOpener
<1> HIDE DEF o
<1> DEFINE b == o - 1
<1>4. b \in 0..(Len(ev) - 1) /\ b + 1 = o /\ b <= n /\ b \in Nat
  BY <1>1, <1>3
<1> HIDE DEF b
<1>5. b \in CallKeys(ev)
  <2>1. b + 1 \in Openings(ev)
    BY <1>3, <1>4
  <2>2. Nesting(ev, b + 1) = Nesting(ev, b) + 1 /\ Nesting(ev, b) \in Nat
    BY <1>1, <1>4, <2>1, NestingNext
  <2>3. Nesting(ev, b) = L + 1
    BY <1>1, <1>3, <1>4, <2>2
  <2>4. b + 1 \in Values(ev)
    BY <1>4, <2>1, Kinds
  <2> QED BY <1>4, <2>3, <2>4, HasKey
<1>6. k = b
  <2>1. CallKeys(ev) \in SUBSET Nat
    <3>1. CallKeys(ev) \in SUBSET (1..Len(ev))
      BY Kinds
    <3> QED BY <3>1
  <2>2. \A m \in CallKeys(ev) : m <= n => m <= b
    <3> SUFFICES ASSUME NEW m \in CallKeys(ev), m <= n, b < m PROVE FALSE
      BY <1>4, <2>1
    <3>1. m \in 1..Len(ev) /\ Nesting(ev, m) = L + 1 /\ m \notin Openings(ev)
      BY Kinds DEF CallKeys, MapKeys, Openings
    <3>2. o < m /\ m < n
      <4>1. m # o
        BY <1>3, <3>1
      <4>2. m # n
        BY <1>1, <3>1
      <4> QED BY <1>3, <1>4, <3>1, <4>1, <4>2
    <3>3. PICK p \in Depths(ev, L + 2) : m < p /\ p <= n
      <4>1. m \in 0..Len(ev) /\ L + 2 \in Nat /\ Nesting(ev, m) < L + 2 /\ L + 2 <= Nesting(ev, n)
        BY <1>1, <3>1
      <4> QED BY <1>1, <3>2, <4>1, Reopened
    <3>4. p <= o /\ p \in Nat
      <4>1. p \in Openings(ev) /\ Openings(ev) \in SUBSET (1..Len(ev))
        BY Kinds DEF Depths
      <4> QED BY <1>3, <3>3, <4>1
    <3> QED BY <1>3, <3>1, <3>2, <3>3, <3>4
  <2>3. n \in Nat
    OBVIOUS
  <2> QED BY <1>4, <1>5, <2>1, <2>2, <2>3, LatestIs DEF KeyOf
<1> QED BY <1>4, <1>6 DEF o

(* What a failure says: an id is too large, params are no array.           *)
BadId(ev) == \E n \in CallKeys(ev) : ev[n][2] = "id" /\ ev[n + 1][2] > UINT32_MAX
BadParams(ev) == \E n \in CallKeys(ev) : ev[n][2] = "params" /\ ev[n + 1][1] # "start_array"

(* An id is refused for that. *)
LEMMA IdRefused ==
  ASSUME IsRequest(input.events), JInv, RFollows, yajl_integer, status' = "id"
  PROVE  BadId(input.events)
<1> DEFINE ev == input.events
<1>1. Callback("integer")
  BY DEF yajl_integer
<1>2. /\ status = "parsing" /\ ev \in Seq(Callbacks) /\ IsBody(ev)
      /\ at \in 0..(Len(ev) - 1) /\ ev[at + 1][1] = "integer"
  BY <1>1, Here DEF IsRequest
<1>3. stage = "ID" /\ ~(ev[at + 1][2] <= UINT32_MAX)
  BY <1>2 DEF yajl_integer, IdOk, Event
<1>4. at \in CallKeys(ev) /\ ev[at][2] = "id"
  <2>1. at \in 0..Len(ev) /\ StageAt(input, at) = "ID"
    BY <1>2, <1>3 DEF RFollows, Follows
  <2> QED BY <1>2, <2>1, StageNow
<1>5. ev[at + 1] \in Callbacks
  BY <1>2
<1>6. ev[at + 1][2] \in Int
  BY <1>2, <1>5, IntegersAreInt
<1>7. ev[at + 1][2] > UINT32_MAX
  BY <1>3, <1>6, Limits
<1> QED BY <1>4, <1>7 DEF BadId

(* Params are refused for that. *)
LEMMA ParamsRefused ==
  ASSUME IsRequest(input.events), JInv, RFollows, yajl_end_map \/ yajl_end_array,
         status' = "params"
  PROVE  BadParams(input.events)
<1> DEFINE ev == input.events
           n == Len(stack)
           op == Opener(ev, at, Nesting(ev, at))
           k == KeyOf(ev, at)
<1>1. PICK e \in {"end_map", "end_array"} :
        /\ Callback(e)
        /\ e = "end_map" => yajl_end_map
        /\ e = "end_array" => yajl_end_array
  BY DEF yajl_end_map, yajl_end_array
<1>2. /\ status = "parsing" /\ ev \in Seq(Callbacks) /\ IsBody(ev)
      /\ at \in 0..(Len(ev) - 1) /\ ev[at + 1][1] = e /\ n \in Nat
      /\ Placed(ev, at, batch_mode_on, n, been_stages, stage, batch_size)
  BY <1>1, Here DEF IsRequest
<1>3. stage = StageAt(input, at) /\ n = Depth(ev, at)
  BY DEF RFollows, Follows, Shape
<1>4. at + 1 \in Closings(ev) /\ at \in 0..Len(ev)
  BY <1>2, Kinds
<1>5. Level(ev) \in {0, 1} /\ Nesting(ev, at) \in Nat
  BY <1>2, <1>4, OpenUntilEnd
<1>6. stage # "INIT" => n > 0
  BY <1>2, AtBeginning
<1>7. n = 0 => e = "end_array" /\ stage = "INIT"
  BY <1>2, AtBeginning
<1>8. e = "end_map" /\ n = 2 /\ stage = "PARAMS"
  <2>1. CASE e = "end_map"
    <3>1. n # 0
      BY <1>7, <2>1
    <3>2. ~(n = 1) /\ ~(n > 1 /\ stage # "PARAMS") /\ ~(n > 2 /\ stage = "PARAMS")
      BY <1>1, <1>2, <2>1 DEF yajl_end_map
    <3> HIDE DEF n
    <3>3. n \in Nat
      BY <1>2
    <3>4. n = 2 /\ stage = "PARAMS"
      BY <3>1, <3>2, <3>3
    <3> QED BY <2>1, <3>4
  <2>2. CASE e = "end_array"
    <3>1. ~(stage # "PARAMS") /\ ~(stage = "PARAMS" /\ n > 0)
      BY <1>1, <1>2, <2>2 DEF yajl_end_array
    <3> QED BY <1>6, <3>1
  <2> QED BY <2>1, <2>2
<1>9. Nesting(ev, at) = Level(ev) + 2
  <2>1. 2 = Depth(ev, at)
    BY <1>3, <1>8
  <2> QED BY <1>5, <2>1 DEF Depth
<1>10. k \in CallKeys(ev) /\ ev[k][2] = "params"
  <2>1. Nesting(ev, at) > Level(ev)
    BY <1>5, <1>9
  <2>2. at \notin CallStarts(ev) /\ ParamsOpen(ev, at)
    BY <1>2, <1>3, <1>4, <1>8, StageNow
  <2> QED BY <1>2, <1>4, <2>1, <2>2, Keyed DEF ParamsOpen
<1>11. op = k + 1
  BY <1>2, <1>4, <1>9, FieldOpens
<1>12. ev[op][1] = "start_map"
  <2>1. op \in 1..at
    <3>1. Nesting(ev, at) \in 1..Nesting(ev, at)
      BY <1>5, <1>9
    <3>2. IsOpener(ev, at, Nesting(ev, at), op)
      BY <1>2, <1>4, <3>1, Openers
    <3> QED BY <3>2 DEF IsOpener
  <2>2. at + 1 \in DOMAIN ev \ {1} /\ at + 1 - 1 = at
    BY <1>2, <2>1
  <2>3. Inside(ev, at + 1) = op
    <3> DEFINE b == at + 1
    <3>1. b - 1 = at
      <4>1. at \in Nat
        BY <1>2
      <4> QED BY <4>1
    <3> HIDE DEF b
    <3>2. Inside(ev, b) = op
      BY <3>1 DEF Inside
    <3> QED BY <3>2 DEF b
  <2> QED BY <1>2, <1>4, <1>8, <2>2, <2>3 DEF IsRequest, IsJson
<1>13. ev[k + 1][1] # "start_array"
  BY <1>11, <1>12
<1> QED BY <1>10, <1>13 DEF BadParams

(* After n callbacks no key of a call has a value that is to be refused,   *)
(* but params that are still open.                                         *)
Faultless(ev, n) ==
  \A k \in CallKeys(ev) : k < n =>
    /\ ev[k][2] = "id" => ev[k + 1][2] <= UINT32_MAX
    /\ ev[k][2] = "params" /\ ev[k + 1][1] # "start_array" =>
         KeyOf(ev, n) = k /\ Nesting(ev, n) > Level(ev) + 1

(* One more callback leaves it so, when it is no id that is too large and  *)
(* does not end such params.                                               *)
LEMMA FaultlessNext ==
  ASSUME NEW ev \in Seq(Callbacks), IsRequest(ev), NEW n \in 0..(Len(ev) - 1),
         Faultless(ev, n),
         n \in CallKeys(ev) /\ ev[n][2] = "id" => ev[n + 1][2] <= UINT32_MAX,
         n + 1 \in Closings(ev) /\ Nesting(ev, n) = Level(ev) + 2
           /\ ev[KeyOf(ev, n)][2] = "params" => ev[KeyOf(ev, n) + 1][1] = "start_array"
  PROVE  Faultless(ev, n + 1)
<1>1. /\ IsBody(ev) /\ Level(ev) \in {0, 1} /\ n \in Nat
      /\ Nesting(ev, n) \in Nat /\ Nesting(ev, n + 1) \in Nat
  BY OpenUntilEnd, NestingNext DEF IsRequest
<1>2. n \in CallStarts(ev) => n + 1 \in MapKeys(ev) /\ Nesting(ev, n) = Level(ev) + 1
  BY <1>1, BodySteps, Kinds DEF InBody
<1>3. CallKeys(ev) \in SUBSET Nat
  <2>1. CallKeys(ev) \in SUBSET (1..Len(ev))
    BY Kinds
  <2> QED BY <2>1
<1> SUFFICES ASSUME NEW k \in CallKeys(ev), k < n + 1
             PROVE  /\ ev[k][2] = "id" => ev[k + 1][2] <= UINT32_MAX
                    /\ ev[k][2] = "params" /\ ev[k + 1][1] # "start_array" =>
                         KeyOf(ev, n + 1) = k /\ Nesting(ev, n + 1) > Level(ev) + 1
  BY DEF Faultless
<1>4. k < n \/ k = n
  BY <1>1, <1>3
<1>5. ev[k][2] = "id" => ev[k + 1][2] <= UINT32_MAX
  BY <1>4 DEF Faultless
<1>6. ASSUME ev[k][2] = "params", ev[k + 1][1] # "start_array"
      PROVE  KeyOf(ev, n) = k /\ Nesting(ev, n) > Level(ev) /\ Nesting(ev, n + 1) > Level(ev) + 1
  <2>1. CASE k < n
    <3>1. KeyOf(ev, n) = k /\ Nesting(ev, n) > Level(ev) + 1
      BY <1>6, <2>1 DEF Faultless
    <3>2. ~(n + 1 \in Closings(ev) /\ Nesting(ev, n) = Level(ev) + 2)
      BY <1>6, <3>1
    <3>3. Nesting(ev, n + 1) = IF n + 1 \in Openings(ev) THEN Nesting(ev, n) + 1
                               ELSE IF n + 1 \in Closings(ev) THEN Nesting(ev, n) - 1
                               ELSE Nesting(ev, n)
      BY <1>1, NestingNext
    <3> QED BY <1>1, <3>1, <3>2, <3>3
  <2>2. CASE k = n
    <3>1. Nesting(ev, n) = Level(ev) + 1
      BY <2>2 DEF CallKeys
    <3>2. KeyOf(ev, n) = k
      <4>1. \A m \in CallKeys(ev) : m <= n => m <= n
        OBVIOUS
      <4> QED BY <1>1, <1>3, <2>2, <4>1, LatestIs DEF KeyOf
    <3>3. n + 1 \in Openings(ev)
      BY <1>6, <2>2, AfterKey
    <3>4. Nesting(ev, n + 1) = Nesting(ev, n) + 1
      BY <1>1, <3>3, NestingNext
    <3> QED BY <1>1, <3>1, <3>2, <3>4
  <2> QED BY <1>4, <2>1, <2>2
<1>7. ASSUME ev[k][2] = "params", ev[k + 1][1] # "start_array"
      PROVE  KeyOf(ev, n + 1) = k
  <2>1. n + 1 \notin CallKeys(ev)
    <3>1. n + 1 \in CallKeys(ev) => Nesting(ev, n + 1) = Level(ev) + 1
      BY DEF CallKeys
    <3> QED BY <1>1, <1>6, <1>7, <3>1
  <2>2. n \notin CallStarts(ev)
    <3>1. n \in CallStarts(ev) => n + 1 \in CallKeys(ev)
      <4>1. n \in CallStarts(ev) => ~(n + 1 \in Openings(ev)) /\ ~(n + 1 \in Closings(ev))
        BY <1>2, Kinds
      <4>2. n \in CallStarts(ev) => Nesting(ev, n + 1) = Level(ev) + 1
        BY <1>1, <1>2, <4>1, NestingNext
      <4> QED BY <1>2, <4>2 DEF CallKeys
    <3> QED BY <2>1, <3>1
  <2> QED BY <1>1, <1>6, <1>7, <2>1, <2>2, KeyNext
<1> QED BY <1>5, <1>6, <1>7

(* The codec goes on only after such a callback. *)
LEMMA GoesOnFaultless ==
  ASSUME IsRequest(input.events), JInv, RFollows, Faultless(input.events, at),
         NEW e, Callback(e), e = "integer" => yajl_integer, e = "end_map" => yajl_end_map,
         status' = status
  PROVE  Faultless(input.events, at + 1)
<1> DEFINE ev == input.events
           n == Len(stack)
           op == Opener(ev, at, Nesting(ev, at))
<1>1. /\ status = "parsing" /\ ev \in Seq(Callbacks) /\ IsBody(ev)
      /\ at \in 0..(Len(ev) - 1) /\ ev[at + 1][1] = e /\ at \in 0..Len(ev)
  BY Here DEF IsRequest
<1>2. stage = StageAt(input, at) /\ n = Depth(ev, at)
  BY DEF RFollows, Follows, Shape
<1>3. Level(ev) \in {0, 1} /\ Nesting(ev, at) \in Nat
  BY <1>1, OpenUntilEnd
<1>4. ASSUME at \in CallKeys(ev), ev[at][2] = "id"
      PROVE  ev[at + 1][2] <= UINT32_MAX
  <2>1. e = "integer"
    BY <1>1, <1>4, AfterKey
  <2>2. stage = "ID"
    <3>1. Nesting(ev, at) > Level(ev) /\ at \notin CallStarts(ev)
      <4>1. Nesting(ev, at) = Level(ev) + 1 /\ ev[at][1] = "map_key"
        BY <1>4 DEF CallKeys, MapKeys
      <4>2. at \notin CallStarts(ev)
        BY <4>1 DEF CallStarts
      <4> QED BY <1>3, <4>1, <4>2
    <3>2. stage # "INIT"
      BY <1>1, <1>2, <1>3, <3>1, StageNow
    <3> QED BY <1>1, <1>2, <1>4, <3>2, StageNow
  <2>3. IdOk(Event[2])
    BY <1>1, <2>1, <2>2 DEF yajl_integer, Fail
  <2> QED BY <2>3 DEF IdOk, Event
<1>5. ASSUME at + 1 \in Closings(ev), Nesting(ev, at) = Level(ev) + 2,
             ev[KeyOf(ev, at)][2] = "params"
      PROVE  ev[KeyOf(ev, at) + 1][1] = "start_array"
  <2>1. op = KeyOf(ev, at) + 1
    BY <1>1, <1>5, FieldOpens
  <2>2. op \in 1..at /\ op \in Openings(ev)
    <3>1. Nesting(ev, at) \in 1..Nesting(ev, at)
      BY <1>3, <1>5
    <3>2. IsOpener(ev, at, Nesting(ev, at), op)
      BY <1>1, <3>1, Openers
    <3> QED BY <3>2 DEF IsOpener
  <2> HIDE DEF op
  <2>3. stage = "PARAMS" /\ n = 2
    <3>1. Nesting(ev, at) > Level(ev) + 1
      BY <1>3, <1>5
    <3>2. at \notin CallStarts(ev)
      <4>1. at \in CallStarts(ev) => Nesting(ev, at) = Level(ev) + 1
        BY <1>1, BodySteps DEF InBody
      <4> QED BY <1>3, <1>5, <4>1
    <3>3. ParamsOpen(ev, at)
      BY <1>5, <3>1 DEF ParamsOpen
    <3>4. stage # "INIT"
      BY <1>1, <1>2, <1>3, <3>1, <3>2, StageNow
    <3>5. stage = "PARAMS"
      BY <1>1, <1>2, <3>3, <3>4, StageNow
    <3>6. Depth(ev, at) = 2
      BY <1>3, <1>5 DEF Depth
    <3> QED BY <1>2, <3>5, <3>6
  <2>4. e # "end_map"
    BY <1>1, <2>3 DEF yajl_end_map
  <2>5. ev[op][1] # "start_map"
    <3>1. at + 1 \in DOMAIN ev \ {1} /\ at + 1 - 1 = at
      BY <1>1, <2>2
    <3>2. Inside(ev, at + 1) = op
      <4> DEFINE b == at + 1
      <4>1. b - 1 = at
        BY <1>1
      <4> HIDE DEF b
      <4>2. Inside(ev, b) = op
        BY <4>1 DEF Inside, op
      <4> QED BY <4>2 DEF b
    <3> QED BY <1>1, <1>5, <2>4, <3>1, <3>2 DEF IsRequest, IsJson
  <2> QED BY <2>1, <2>2, <2>5 DEF Openings
<1> QED BY <1>1, <1>4, <1>5, FaultlessNext

(* At the end no key has such a value. *)
LEMMA FaultlessAtEnd ==
  ASSUME NEW ev \in Seq(Callbacks), IsRequest(ev), Faultless(ev, Len(ev))
  PROVE  ~BadId(ev) /\ ~BadParams(ev)
<1>1. IsBody(ev) /\ Level(ev) \in {0, 1} /\ Len(ev) \in Nat /\ Nesting(ev, Len(ev)) = 0
  BY OpenUntilEnd DEF IsRequest
<1> SUFFICES ASSUME NEW k \in CallKeys(ev)
             PROVE  /\ ~(ev[k][2] = "id" /\ ev[k + 1][2] > UINT32_MAX)
                    /\ ~(ev[k][2] = "params" /\ ev[k + 1][1] # "start_array")
  BY DEF BadId, BadParams
<1>2. k \in 0..(Len(ev) - 1) /\ k < Len(ev)
  <2>1. k \in 1..Len(ev) /\ Nesting(ev, k) = Level(ev) + 1
    BY Kinds DEF CallKeys
  <2>2. k # Len(ev)
    BY <1>1, <2>1
  <2> QED BY <1>1, <2>1, <2>2
<1>3. /\ ev[k][2] = "id" => ev[k + 1][2] <= UINT32_MAX
      /\ ev[k][2] = "params" /\ ev[k + 1][1] # "start_array" =>
           Nesting(ev, Len(ev)) > Level(ev) + 1
  BY <1>2 DEF Faultless
<1>4. ev[k][2] = "id" => ev[k + 1][2] \in Nat
  BY <1>2, AfterKey
<1>5. ~(ev[k][2] = "id" /\ ev[k + 1][2] > UINT32_MAX)
  <2>1. UINT32_MAX \in Nat
    BY Limits
  <2> QED BY <1>3, <1>4, <2>1
<1>6. ~(Nesting(ev, Len(ev)) > Level(ev) + 1)
  BY <1>1
<1> QED BY <1>3, <1>5, <1>6

(* A body that is refused unread has no call. *)
LEMMA EmptyHasNoCall ==
  ASSUME NEW ev \in Empty, IsBody(ev)
  PROVE  CallStarts(ev) = {}
<1>1. CASE ev = << <<"start_map">>, <<"end_map">> >>
  <2>1. 1 \in CallStarts(ev)
    <3>1. Nesting(ev, 0) = 0
      <4>1. ev \in Seq(Callbacks)
        BY <1>1 DEF Callbacks
      <4> QED BY <4>1, NestingSteps
    <3> QED BY <1>1, <3>1 DEF CallStarts, Level
  <2>2. ev[2][1] = "map_key"
    BY <1>1, <2>1 DEF IsBody
  <2> QED BY <1>1, <2>2
<1>2. CASE ev = << <<"start_array">>, <<"end_array">> >>
  BY <1>2 DEF CallStarts
<1> QED BY <1>1, <1>2 DEF Empty

(* What the theorems rest on: in every state of a request the codec        *)
(* follows the body, or has told the truth.                                *)
RInv ==
  /\ IInv
  /\ IsRequest(input.events) =>
       /\ JInv
       /\ status = "parsing" => RFollows
       /\ status = "ok" => out = Encoded(input)[Len(input.events)]
       /\ status = "id" => BadId(input.events)
       /\ status = "params" => BadParams(input.events) \/ CallStarts(input.events) = {}
       /\ status \in {"parsing", "ok"} => Faultless(input.events, at)

(* It follows the body from the beginning. *)
LEMMA InitRInv == Init => RInv
<1> SUFFICES ASSUME Init PROVE RInv
  OBVIOUS
<1>1. IInv
  BY InitIInv
<1>2. ASSUME IsRequest(input.events)
      PROVE  JInv /\ RFollows /\ Faultless(input.events, at)
  <2> DEFINE ev == input.events
  <2>1. ev \in Seq(Callbacks) /\ IsBody(ev) /\ 0 \in 0..Len(ev)
    BY <1>2, InputsAssumption DEF Init, IsRequest
  <2>2. JInv
    BY <2>1, InitJInv
  <2>3. Nesting(ev, 0) = 0 /\ Level(ev) \in {0, 1}
    BY <2>1, NestingSteps, OpenUntilEnd
  <2>4. StageAt(input, 0) = "INIT"
    BY <2>1, <2>3, StageNow
  <2>5. Encoded(input)[0] = <<>>
    BY <2>1, EncodedSteps
  <2>6. Depth(ev, 0) = 0
    BY <2>3 DEF Depth
  <2>7. Shape(input, 0, <<>>, <<>>, 0)
    BY <2>6 DEF Shape
  <2>8. Follows(input, 0, "INIT", {}, <<>>, <<>>, 0)
    BY <2>4, <2>5, <2>7 DEF Follows, TypesFollow, RoomsFollow, HeaderFollows, BeenFollows, Matches
  <2>9. Faultless(ev, 0)
    <3>1. CallKeys(ev) \in SUBSET (1..Len(ev))
      BY <2>1, Kinds
    <3> QED BY <3>1 DEF Faultless
  <2> QED BY <2>2, <2>8, <2>9 DEF Init, RFollows
<1>3. status = "parsing"
  BY DEF Init
<1> QED BY <1>1, <1>2, <1>3 DEF RInv

(* At the end all that the body means is written. *)
LEMMA WrittenAtEnd ==
  ASSUME IsRequest(input.events), JInv, RFollows, at = Len(input.events)
  PROVE  out = Encoded(input)[Len(input.events)]
<1> DEFINE ev == input.events
           w == Encoded(input)[Len(ev)]
<1>1. ev \in Seq(Callbacks) /\ IsBody(ev) /\ at \in 0..Len(ev) /\ Len(ev) \in Nat
  BY InputsAssumption DEF JInv, IInv, TypeOK, IsRequest
<1>2. Nesting(ev, at) = 0 /\ Level(ev) \in {0, 1}
  BY <1>1, OpenUntilEnd
<1>3. StageAt(input, at) = "INIT"
  BY <1>1, <1>2, StageNow
<1>4. stage = "INIT" /\ Matches(out, w, Pending(stage, sync, stack)) /\ out \in Seq(Tokens)
  BY <1>3 DEF RFollows, Follows, Shape
<1>5. Len(out) = Len(w) /\ \A p \in 1..Len(out) : out[p] = w[p]
  BY <1>4 DEF Matches, Pending
<1>6. w \in Seq(Tokens)
  BY <1>1, EncodedSteps
<1> HIDE DEF w
<1>7. out = w
  BY <1>4, <1>5, <1>6
<1> QED BY <1>7 DEF w

(* It goes on doing so, or fails for what it says. *)
LEMMA NextRInv == RInv /\ [Next]_vars => RInv'
<1> SUFFICES ASSUME RInv, [Next]_vars PROVE RInv'
  OBVIOUS
<1>1. IInv /\ IInv'
  BY NextIInv DEF RInv
<1>2. input' = input
  BY DEF Next, vars, yajl_scalar, yajl_integer, yajl_string, yajl_map_key, yajl_start_map,
         yajl_start_array, yajl_end_map, yajl_end_array, Callback, RefuseEmpty, ParseError, Complete
<1>3. ASSUME IsRequest(input.events)
      PROVE  /\ JInv'
             /\ status' = "parsing" => RFollows'
             /\ status' = "ok" => out' = Encoded(input)[Len(input.events)]
             /\ status' = "id" => BadId(input.events)
             /\ status' = "params" => BadParams(input.events) \/ CallStarts(input.events) = {}
             /\ status' \in {"parsing", "ok"} => Faultless(input.events, at')
  <2>1. JInv /\ JInv'
    BY <1>3, NextJInv DEF RInv, IsRequest
  <2>2. /\ status = "parsing" => RFollows
        /\ status = "ok" => out = Encoded(input)[Len(input.events)]
        /\ status = "id" => BadId(input.events)
        /\ status = "params" => BadParams(input.events) \/ CallStarts(input.events) = {}
        /\ status \in {"parsing", "ok"} => Faultless(input.events, at)
    BY <1>3 DEF RInv
  <2>3. ASSUME NEW e, Callback(e), e = "integer" => yajl_integer,
               e = "end_map" => yajl_end_map, status' = status
        PROVE  Faultless(input.events, at')
    <3>1. status = "parsing" /\ at' = at + 1
      BY <2>3 DEF Callback
    <3> QED BY <1>3, <2>1, <2>2, <2>3, <3>1, GoesOnFaultless
  <2>4. CASE yajl_scalar \/ yajl_integer \/ yajl_string
    <3>1. status = "parsing" /\ RFollows
      BY <2>2, <2>4 DEF yajl_scalar, yajl_integer, yajl_string, Callback
    <3>2. \/ status' = status
          \/ status' = "id" /\ yajl_integer
      BY <2>4 DEF yajl_scalar, yajl_integer, yajl_string, Fail
    <3>3. CASE status' = status
      <4>1. RFollows'
        BY <1>3, <2>1, <2>4, <3>1, <3>3, ValueRFollows
      <4>2. PICK e \in {"scalar", "integer", "string"} :
              Callback(e) /\ (e = "integer" => yajl_integer)
        BY <2>4 DEF yajl_scalar, yajl_integer, yajl_string
      <4>3. Faultless(input.events, at')
        BY <2>3, <3>3, <4>2
      <4> QED BY <2>1, <3>1, <3>3, <4>1, <4>3
    <3>4. CASE status' = "id" /\ yajl_integer
      <4>1. BadId(input.events)
        BY <1>3, <2>1, <3>1, <3>4, IdRefused
      <4> QED BY <2>1, <3>4, <4>1
    <3> QED BY <3>2, <3>3, <3>4
  <2>5. CASE yajl_map_key
    <3>1. status = "parsing" /\ RFollows /\ Callback("map_key")
      BY <2>2, <2>5 DEF yajl_map_key, Callback
    <3>2. status' = status \/ status' = "batch"
      BY <2>5 DEF yajl_map_key, Fail
    <3>3. status' = status => RFollows' /\ Faultless(input.events, at')
      BY <1>3, <2>1, <2>3, <2>5, <3>1, KeyRFollows
    <3> QED BY <2>1, <3>1, <3>2, <3>3
  <2>6. CASE yajl_start_map \/ yajl_start_array
    <3>1. status = "parsing" /\ RFollows
      BY <2>2, <2>6 DEF yajl_start_map, yajl_start_array, Callback
    <3>2. status' = status \/ status' = "stack"
      BY <2>6 DEF yajl_start_map, yajl_start_array, Open, Fail
    <3>3. status' = status => RFollows'
      BY <1>3, <2>1, <2>6, <3>1, StartRFollows
    <3>4. Callback("start_map") \/ Callback("start_array")
      BY <2>6 DEF yajl_start_map, yajl_start_array
    <3>5. status' = status => Faultless(input.events, at')
      BY <2>3, <3>4
    <3> QED BY <2>1, <3>1, <3>2, <3>3, <3>5
  <2>7. CASE yajl_end_map \/ yajl_end_array
    <3>1. status = "parsing" /\ RFollows
      BY <2>2, <2>7 DEF yajl_end_map, yajl_end_array, Callback
    <3>2. status' = status \/ status' = "params"
      BY <2>7 DEF yajl_end_map, yajl_end_array
    <3>3. status' = status => RFollows'
      BY <1>3, <2>1, <2>7, <3>1, EndRFollows
    <3>4. status' = "params" => BadParams(input.events)
      BY <1>3, <2>1, <2>7, <3>1, ParamsRefused
    <3>5. PICK e \in {"end_map", "end_array"} : Callback(e) /\ (e = "end_map" => yajl_end_map)
      BY <2>7 DEF yajl_end_map, yajl_end_array
    <3>6. status' = status => Faultless(input.events, at')
      BY <2>3, <3>5
    <3> QED BY <2>1, <3>1, <3>2, <3>3, <3>4, <3>6
  <2>8. CASE RefuseEmpty
    <3>1. status' = "params" /\ input.compact
      BY <2>8 DEF RefuseEmpty
    <3>2. input.events \in Empty /\ IsBody(input.events)
      BY <1>1, <1>3, <3>1, InputsAssumption, Parts DEF IsRequest
    <3>3. CallStarts(input.events) = {}
      BY <3>2, EmptyHasNoCall
    <3> QED BY <2>1, <3>1, <3>3
  <2>9. CASE ParseError
    BY <2>1, <2>9 DEF ParseError
  <2>10. CASE Complete
    <3>1. status = "parsing" /\ RFollows /\ at = Len(input.events)
      BY <2>2, <2>10 DEF Complete
    <3>2. status' = "ok" /\ out' = out /\ at' = at
      BY <2>10 DEF Complete
    <3>3. out = Encoded(input)[Len(input.events)]
      BY <1>3, <2>1, <3>1, WrittenAtEnd
    <3> QED BY <2>1, <2>2, <3>1, <3>2, <3>3
  <2>11. CASE UNCHANGED vars
    <3>1. UNCHANGED <<input, at, stage, been_stages, stack, out, sync, status>>
      BY <2>11 DEF vars, ctx
    <3>2. RFollows' = RFollows
      BY <3>1 DEF RFollows
    <3> QED BY <2>1, <2>2, <3>1, <3>2
  <2> QED BY <2>4, <2>5, <2>6, <2>7, <2>8, <2>9, <2>10, <2>11 DEF Next
<1> QED BY <1>1, <1>2, <1>3 DEF RInv

(* What yajl_json2tp has written for a request that it accepts, a body     *)
(* whose ids are unsigned numbers, is what its callbacks mean, for any     *)
(* number of calls of any size.                                            *)
THEOREM CallsAreAsTheBodySays == Spec => []WritesTheCalls
<1>1. RInv => WritesTheCalls
  BY DEF RInv, WritesTheCalls
<1> QED BY <1>1, InitRInv, NextRInv, PTL DEF Spec

(* A request with an id above 32 bits, or with params that are no array,   *)
(* is not accepted, and the errors about an id and about params are given  *)
(* only to such a request, the latter also to one without any call.        *)
THEOREM ErrorsTellTheTruth == Spec => []ErrorsAreTrue
<1>1. ASSUME RInv, IsRequest(input.events), status = "ok"
      PROVE  ~BadId(input.events) /\ ~BadParams(input.events)
  <2>1. at = Len(input.events) /\ Faultless(input.events, at)
    BY <1>1 DEF RInv, JInv
  <2>2. input.events \in Seq(Callbacks)
    BY <1>1, Parts DEF RInv
  <2> QED BY <1>1, <2>1, <2>2, FaultlessAtEnd
<1>2. RInv => ErrorsAreTrue
  BY <1>1 DEF RInv, ErrorsAreTrue, BadId, BadParams
<1> QED BY <1>2, InitRInv, NextRInv, PTL DEF Spec
=============================================================================
