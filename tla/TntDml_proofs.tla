---------------------------- MODULE TntDml_proofs ----------------------------
(***************************************************************************)
(* Proofs about TntDml for every set of locations and every set of         *)
(* requests to them.                                                       *)
(*                                                                         *)
(* The first loop of the code reads arguments and the second one slots,    *)
(* and the query means what both made of it.  The invariant Meaningful     *)
(* says, of a query up to the argument `at`, what is in the slots (each    *)
(* argument of a name in the slot of its place), what has been counted,    *)
(* and which special values were taken; and of the slots up to `bound`     *)
(* what is in the message.  Place (Counting) makes "the k-th" a number     *)
(* that a step changes by one.                                             *)
(***************************************************************************)
EXTENDS TntDml, Counting_proofs, SequenceTheorems

(* The values that a query's arguments have. *)
Value == [empty : BOOLEAN, num : Nat \cup {-1}, iter : STRING, bool : BOOLEAN,
          op : {"ok", "no_type", "no_field"}, arg_bool : BOOLEAN]

(* A value is not the mark of a slot without one. *)
LEMMA ValueIsSet == ASSUME NEW v \in Value PROVE v # NoValue
<1>1. "empty" \in DOMAIN v
  BY DEF Value
<1>2. "empty" \notin DOMAIN NoValue
  BY DEF NoValue
<1> QED  BY <1>1, <1>2

(* An argument has a text for its name and a value. *)
LEMMA ArgumentHas ==
  ASSUME NEW q \in Seq(Argument), NEW a \in DOMAIN q
  PROVE  q[a].value \in Value
<1>1. a \in 1..Len(q)
  BY LenProperties
<1>2. q[a] \in Argument
  BY <1>1, ElementOfSeq
<1> QED  BY <1>2 DEF Argument, Value

(* The special arguments, in the order in which they are tried. *)
LEMMA SpecialsAre ==
  /\ Specials = {"%%lim", "%%off", "%%it", "%%space_id", "%%idx_id"}
  /\ DOMAIN SpecialOrder = 1..5
  /\ \A n \in DOMAIN SpecialOrder : SpecialOrder[n] \in Specials
<1>1. DOMAIN SpecialOrder = 1..5
  BY DEF SpecialOrder
<1>2. 1..5 = {1, 2, 3, 4, 5}
  OBVIOUS
<1>3. /\ SpecialOrder[1] = "%%lim" /\ SpecialOrder[2] = "%%off"
      /\ SpecialOrder[3] = "%%it" /\ SpecialOrder[4] = "%%space_id"
      /\ SpecialOrder[5] = "%%idx_id"
  BY DEF SpecialOrder
<1> QED  BY <1>1, <1>2, <1>3 DEF Specials

(* The five special arguments go into five fields. *)
LEMMA FieldOf ==
  /\ Field("%%lim") = "limit" /\ Field("%%off") = "offset"
  /\ Field("%%it") = "iter_type" /\ Field("%%space_id") = "space_id"
  /\ Field("%%idx_id") = "index_id"
BY DEF Field

(* ngx_http_tnt_format_compile is a loop over the format. *)
LEMMA SlotsLoop ==
  ASSUME NEW l, l.format \in Seq(FormatValue)
  PROVE  \E c : /\ c[0] = <<>> /\ Slots(l) = c[Len(l.format)]
               /\ \A n \in 1..Len(l.format) :
                    c[n] = IF l.format[n].type \in Specials THEN c[n - 1]
                           ELSE Append(c[n - 1], l.format[n])
<1> DEFINE F == l.format
           N == Len(F)
           D == Seq(FormatValue)
           Step(n, d) == IF F[n].type \in Specials THEN d ELSE Append(d, F[n])
           step == [n \in 1..N |-> [d \in D |-> Step(n, d)]]
           Body(g) == [n \in 0..N |-> IF n = 0 THEN <<>>
                                      ELSE IF F[n].type \in Specials THEN g[n - 1]
                                      ELSE Append(g[n - 1], F[n])]
           compiled == CHOOSE g : g = Body(g)
<1>0. F \in D
  OBVIOUS
<1>5. Slots(l) = compiled[N]
  BY DEF Slots
<1> HIDE DEF F
<1>1. N \in Nat /\ \A n \in 1..N : F[n] \in FormatValue
  BY <1>0, LenProperties, ElementOfSeq
<1> HIDE DEF N
<1>2. \A n \in 1..N : \A d \in D : step[n][d] = Step(n, d) /\ step[n][d] \in D
  BY <1>1, AppendProperties
<1>3. <<>> \in D
  BY EmptySeq
<1>4. PICK f \in [0..N -> D] : IsRun(f, <<>>, step, N)
  <2> HIDE DEF D, step
  <2>1. StaysIn(D, step, N)
    BY <1>2 DEF StaysIn
  <2> QED  BY <1>1, <1>3, <2>1, Recursion
<1>6. f[0] = <<>> /\ \A n \in 1..N : f[n] = Step(n, f[n - 1])
  <2> HIDE DEF D, step, Step
  <2>1. \A n \in 1..N : n - 1 \in 0..N
    BY <1>1
  <2> QED  BY <1>2, <1>4, <2>1 DEF IsRun
<1>7. f = Body(f)
  <2>1. \A n \in 0..N : n # 0 => n \in 1..N
    BY <1>1
  <2> QED  BY <1>6, <2>1
<1>8. compiled = Body(compiled)
  <2> HIDE DEF Body
  <2> QED  BY <1>7
<1> HIDE DEF compiled
<1>9. 0 \in 0..N /\ \A n \in 1..N : n \in 0..N /\ n # 0
  BY <1>1
<1>10. compiled[0] = <<>>
  BY <1>8, <1>9
<1>11. ASSUME NEW n \in 1..N PROVE compiled[n] = Step(n, compiled[n - 1])
  BY <1>8, <1>9
<1> QED  BY <1>5, <1>10, <1>11 DEF N, F

(* What it leaves of a format: its slots, none of a special type, in the   *)
(* order of the format.                                                    *)
LEMMA SlotsAre ==
  ASSUME NEW l, IsLocation(l)
  PROVE  /\ Slots(l) \in Seq(FormatValue)
         /\ \A i \in DOMAIN Slots(l) :
              /\ Slots(l)[i].type \notin Specials
              /\ \E k \in DOMAIN l.format : Slots(l)[i] = l.format[k]
         /\ \A i, j \in DOMAIN Slots(l) :
              i < j => \E k, m \in DOMAIN l.format :
                         k < m /\ Slots(l)[i] = l.format[k] /\ Slots(l)[j] = l.format[m]
<1> DEFINE F == l.format
           N == Len(F)
           D == Seq(FormatValue)
<1>1. F \in D
  BY DEF IsLocation
<1>2. PICK c : /\ c[0] = <<>> /\ Slots(l) = c[N]
               /\ \A n \in 1..N :
                    c[n] = IF F[n].type \in Specials THEN c[n - 1]
                           ELSE Append(c[n - 1], F[n])
  BY <1>1, SlotsLoop
<1> HIDE DEF F
<1>3. N \in Nat /\ DOMAIN F = 1..N /\ \A n \in 1..N : F[n] \in FormatValue
  BY <1>1, LenProperties, ElementOfSeq
<1> DEFINE Inorder(s, n) ==
             /\ s \in D
             /\ \A i \in 1..Len(s) :
                  s[i].type \notin Specials /\ \E k \in 1..n : s[i] = F[k]
             /\ \A i, j \in 1..Len(s) :
                  i < j => \E k, m \in 1..n : k < m /\ s[i] = F[k] /\ s[j] = F[m]
           Fine(n) == Inorder(c[n], n)
           S == {n \in Nat : n <= N => Fine(n)}
<1>4. 0 \in S
  <2>1. c[0] \in D /\ Len(c[0]) = 0 /\ 1..0 = {}
    BY <1>2, EmptySeq
  <2> QED  BY <2>1
<1>5. ASSUME NEW n \in Nat, n \in S PROVE n + 1 \in S
  <2> SUFFICES ASSUME n + 1 <= N PROVE Fine(n + 1)
    <3> HIDE DEF Fine
    <3> QED  OBVIOUS
  <2> HIDE DEF N
  <2>1. Fine(n) /\ n + 1 \in 1..N /\ n + 1 - 1 = n
    <3>1. n + 1 \in 1..N /\ n + 1 - 1 = n /\ n <= N
      BY <1>3
    <3> HIDE DEF Fine
    <3> QED  BY <3>1, <1>5
  <2>2. c[n + 1] = IF F[n + 1].type \in Specials THEN c[n] ELSE Append(c[n], F[n + 1])
    BY <1>2, <2>1
  <2>3. \A k \in 1..n : k \in 1..(n + 1) /\ k < n + 1
    OBVIOUS
  <2>4. n + 1 \in 1..(n + 1)
    OBVIOUS
  <2> HIDE DEF D
  <2>5. CASE F[n + 1].type \in Specials
    <3>1. c[n + 1] = c[n]
      BY <2>2, <2>5
    <3> QED  BY <2>1, <2>3, <3>1
  <2>6. CASE F[n + 1].type \notin Specials
    <3>1. c[n + 1] = Append(c[n], F[n + 1]) /\ F[n + 1] \in FormatValue /\ c[n] \in D
      BY <2>2, <2>6, <2>1, <1>3
    <3> DEFINE L == Len(c[n])
    <3>2. L \in Nat
      BY <3>1, LenProperties DEF D
    <3>3. /\ c[n + 1] \in D /\ Len(c[n + 1]) = L + 1
          /\ \A i \in 1..L : c[n + 1][i] = c[n][i]
          /\ c[n + 1][L + 1] = F[n + 1]
      BY <3>1, AppendProperties DEF D
    <3> HIDE DEF L
    <3>4. \A i \in 1..(L + 1) : i \in 1..L \/ i = L + 1
      BY <3>2
    <3>5. \A i \in 1..Len(c[n + 1]) :
             c[n + 1][i].type \notin Specials /\ \E k \in 1..(n + 1) : c[n + 1][i] = F[k]
      <4> SUFFICES ASSUME NEW i \in 1..(L + 1)
                   PROVE  /\ c[n + 1][i].type \notin Specials
                          /\ \E k \in 1..(n + 1) : c[n + 1][i] = F[k]
        BY <3>3
      <4>1. CASE i \in 1..L
        <5>1. c[n + 1][i] = c[n][i] /\ i \in 1..Len(c[n])
          BY <3>3, <4>1 DEF L
        <5>2. c[n][i].type \notin Specials /\ \E k \in 1..n : c[n][i] = F[k]
          BY <2>1, <5>1
        <5> QED  BY <2>3, <5>1, <5>2
      <4>2. CASE i = L + 1
        BY <2>4, <2>6, <3>3, <4>2
      <4> QED  BY <3>4, <4>1, <4>2
    <3>6. ASSUME NEW i \in 1..(L + 1), NEW j \in 1..(L + 1), i < j
          PROVE  \E k, m \in 1..(n + 1) : k < m /\ c[n + 1][i] = F[k] /\ c[n + 1][j] = F[m]
      <4>1. i \in 1..L
        BY <3>2, <3>6
      <4>2. CASE j \in 1..L
        <5>1. PICK k \in 1..n, m \in 1..n : k < m /\ c[n][i] = F[k] /\ c[n][j] = F[m]
          BY <2>1, <3>6, <4>1, <4>2 DEF L
        <5> QED  BY <2>3, <3>3, <4>1, <4>2, <5>1
      <4>3. CASE j = L + 1
        <5>1. PICK k \in 1..n : c[n][i] = F[k]
          BY <2>1, <4>1 DEF L
        <5> QED  BY <2>3, <2>4, <3>3, <4>1, <4>3, <5>1
      <4> QED  BY <3>4, <4>2, <4>3
    <3> QED  BY <3>3, <3>5, <3>6
  <2> QED  BY <2>5, <2>6
<1> HIDE DEF S
<1>6. Nat \subseteq S
  BY <1>4, <1>5, Induction
<1>7. Fine(N)
  <2> HIDE DEF Fine, N
  <2>1. N \in S /\ N <= N
    BY <1>3, <1>6
  <2> QED  BY <2>1 DEF S
<1>8. DOMAIN Slots(l) = 1..Len(Slots(l))
  BY <1>2, <1>7, LenProperties
<1>9. c[N] = Slots(l)
  BY <1>2
<1>10. Inorder(Slots(l), N)
  <2> HIDE DEF N, Inorder
  <2> QED  BY <1>7, <1>9
<1> HIDE DEF N, D
<1>11. DOMAIN F = 1..N
  BY <1>3
<1> HIDE DEF Fine
<1>12. Slots(l) \in Seq(FormatValue)
  BY <1>10 DEF D
<1>13. ASSUME NEW i \in DOMAIN Slots(l)
       PROVE  Slots(l)[i].type \notin Specials /\ \E k \in DOMAIN F : Slots(l)[i] = F[k]
  <2>1. i \in 1..Len(Slots(l))
    BY <1>8
  <2> QED  BY <1>10, <1>11, <2>1
<1>14. ASSUME NEW i \in DOMAIN Slots(l), NEW j \in DOMAIN Slots(l), i < j
       PROVE  \E k, m \in DOMAIN F : k < m /\ Slots(l)[i] = F[k] /\ Slots(l)[j] = F[m]
  <2>1. i \in 1..Len(Slots(l)) /\ j \in 1..Len(Slots(l))
    BY <1>8
  <2>2. \A e, g \in 1..Len(Slots(l)) :
          e < g => \E k, m \in 1..N : k < m /\ Slots(l)[e] = F[k] /\ Slots(l)[g] = F[m]
    BY <1>10
  <2>3. PICK k \in 1..N, m \in 1..N : k < m /\ Slots(l)[i] = F[k] /\ Slots(l)[j] = F[m]
    BY <1>14, <2>1, <2>2
  <2> QED  BY <1>11, <2>3
<1> HIDE DEF Inorder
<1> QED  BY <1>12, <1>13, <1>14 DEF F

-----------------------------------------------------------------------------
(* The prepared result's fields. *)
Fields == {"space_id", "index_id", "limit", "offset", "iter_type", "tuples_count",
           "update_keys_count", "upsert_tuples_count"}
Numbers == Fields \ {"iter_type"}

(* The types that the rest is proved with. *)
Typed ==
  /\ loc \in Locations /\ query \in Seq(Argument)
  /\ at \in 0..Len(query) /\ bound \in 0..Len(slots) /\ begun \in BOOLEAN
  /\ DOMAIN result = Fields
  /\ \A f \in Numbers : result[f] \in Nat
  /\ result.iter_type # "none"
  /\ expects \subseteq Specials
  /\ values \in [DOMAIN slots -> Value \cup {NoValue}]
  /\ pc \in {"prepare", "bind", "done", "rejected", "failed"}
  /\ err \in {"none", "not_allowed", "format", "value"}
  /\ pc # "rejected" => err = "none"

(* None of the iterators is called "none", so what a name or the           *)
(* directive's own setting stands for is an iterator.                      *)
LEMMA IteratorsAreNamed ==
  /\ DOMAIN Iterators \in SUBSET Nat
  /\ \A n \in DOMAIN Iterators : Iterators[n] # "none"
<1>1. DOMAIN Iterators = 1..12
  BY DEF Iterators
<1>2. /\ Iterators[1] = "eq" /\ Iterators[2] = "req" /\ Iterators[3] = "all"
      /\ Iterators[4] = "lt" /\ Iterators[5] = "le" /\ Iterators[6] = "ge"
      /\ Iterators[7] = "gt" /\ Iterators[8] = "all_set" /\ Iterators[9] = "any_set"
      /\ Iterators[10] = "all_non_set" /\ Iterators[11] = "overlaps"
      /\ Iterators[12] = "neighbor"
  BY DEF Iterators
<1>3. \A n \in 1..12 : \/ n = 1 \/ n = 2 \/ n = 3 \/ n = 4 \/ n = 5 \/ n = 6 \/ n = 7
                       \/ n = 8 \/ n = 9 \/ n = 10 \/ n = 11 \/ n = 12
  OBVIOUS
<1> QED  BY <1>1, <1>2, <1>3

(* The directive's iterator is one of them.                                *)
LEMMA LocationIterates ==
  ASSUME NEW l, IsLocation(l) PROVE set_iter_type(l.iter_type) # "none"
<1> DEFINE found == {n \in DOMAIN Iterators : BeginsWith(l.iter_type, Iterators[n])}
<1>1. PICK i \in DOMAIN Iterators : Iterators[i] = l.iter_type
  BY DEF IsLocation
<1>2. i \in found
  BY <1>1 DEF BeginsWith
<1>3. found \in SUBSET Nat /\ found # {}
  BY <1>2, IteratorsAreNamed
<1>4. set_iter_type(l.iter_type) = Iterators[First(found)]
  BY <1>3 DEF set_iter_type
<1> HIDE DEF found
<1>5. First(found) \in found
  BY <1>3, FirstIsLeast
<1> QED  BY <1>4, <1>5, IteratorsAreNamed DEF found

(* The next argument is one of the query's. *)
LEMMA ArgIs ==
  ASSUME Typed, NextArg
  PROVE  /\ at + 1 \in 1..Len(query) /\ DOMAIN query = 1..Len(query)
         /\ at \in Nat /\ Len(query) \in Nat
         /\ Arg = query[at + 1] /\ Arg.value \in Value
<1>1. query \in Seq(Argument) /\ at \in 0..Len(query) /\ at < Len(query)
  BY DEF Typed, NextArg
<1>2. Len(query) \in Nat /\ DOMAIN query = 1..Len(query)
  BY <1>1, LenProperties
<1>3. at + 1 \in DOMAIN query /\ at \in Nat
  BY <1>1, <1>2
<1> QED  BY <1>1, <1>2, <1>3, ArgumentHas DEF Arg

(* What becomes of a special argument s. *)
Takes(s) ==
  \/ /\ s = "%%lim" /\ OverLimit(Arg.value)
     /\ pc' = "rejected" /\ err' = "not_allowed"
     /\ result' = [result EXCEPT !.limit = loc.select_limit_max]
     /\ expects' = expects
  \/ /\ s = "%%lim" => ~OverLimit(Arg.value)
     /\ Usable(s, Arg.value)
     /\ result' = [result EXCEPT ![Field(s)] = Given(s, Arg.value)]
     /\ expects' = expects \ {s}
     /\ pc' = pc /\ err' = err
  \/ /\ s = "%%lim" => ~OverLimit(Arg.value)
     /\ ~Usable(s, Arg.value)
     /\ result' = IF s = "%%lim" THEN [result EXCEPT !.limit = loc.select_limit_max]
                  ELSE result
     /\ expects' = expects
     /\ pc' = pc /\ err' = err

(* An argument that is read as a special one has the name of one that is   *)
(* still awaited.                                                          *)
LEMMA SpecialTaken ==
  ASSUME Typed, PrepareSpecial
  PROVE  \E s \in expects : s \in Specials /\ Arg.key = SpecialName(loc, s) /\ Takes(s)
<1> DEFINE s == SpecialOrder[First(Awaited)]
<1>0. Awaited \in SUBSET Nat
  BY SpecialsAre DEF Awaited
<1>1. Awaited \in SUBSET Nat /\ Awaited # {}
  BY <1>0 DEF PrepareSpecial
<1>2. First(Awaited) \in Awaited
  BY <1>1, FirstIsLeast
<1>3. s \in expects /\ Arg.key = SpecialName(loc, s) /\ s \in Specials
  BY <1>2, SpecialsAre DEF Awaited
<1>4. IF s = "%%lim" /\ OverLimit(Arg.value)
         THEN /\ pc' = "rejected" /\ err' = "not_allowed"
              /\ result' = [result EXCEPT !.limit = loc.select_limit_max]
              /\ UNCHANGED expects
         ELSE /\ IF Usable(s, Arg.value)
                   THEN /\ result' = [result EXCEPT ![Field(s)] = Given(s, Arg.value)]
                        /\ expects' = expects \ {s}
                   ELSE /\ result' = IF s = "%%lim"
                                       THEN [result EXCEPT !.limit = loc.select_limit_max]
                                       ELSE result
                        /\ UNCHANGED expects
              /\ UNCHANGED <<pc, err>>
  BY DEF PrepareSpecial
<1> HIDE DEF s
<1>5. Takes(s)
  BY <1>4 DEF Takes
<1> QED  BY <1>3, <1>5

(* A usable value gives a number, or an iterator. *)
LEMMA GivenHasType ==
  ASSUME NEW s \in Specials, NEW v \in Value, Usable(s, v)
  PROVE  IF s = "%%it" THEN Given(s, v) # "none" ELSE Given(s, v) \in Nat
BY DEF Usable, Given, Value

(* What a special argument does to the fields. *)
LEMMA TakesKeepsTypes ==
  ASSUME Typed, NEW s \in Specials, Arg.value \in Value, Takes(s)
  PROVE  /\ DOMAIN result' = Fields
         /\ \A f \in Numbers : result'[f] \in Nat
         /\ result'.iter_type # "none"
         /\ expects' \subseteq Specials
<1>1. loc.select_limit_max \in Nat
  BY LocationsAssumption DEF Typed, IsLocation
<1>2. DOMAIN result = Fields /\ (\A f \in Numbers : result[f] \in Nat)
      /\ result.iter_type # "none" /\ expects \subseteq Specials
  BY DEF Typed
<1>3. "limit" \in Numbers /\ "iter_type" \in Fields /\ "limit" \in Fields
      /\ \A f \in Numbers : f \in Fields /\ f # "iter_type"
  BY DEF Numbers, Fields
<1>4. Field(s) \in Fields /\ (Field(s) = "iter_type" <=> s = "%%it")
  BY SpecialsAre, FieldOf DEF Fields
<1>5. CASE result' = [result EXCEPT !["limit"] = loc.select_limit_max] /\ expects' = expects
  BY <1>1, <1>2, <1>3, <1>5
<1>6. CASE result' = result /\ expects' = expects
  BY <1>2, <1>6
<1>7. CASE /\ Usable(s, Arg.value)
           /\ result' = [result EXCEPT ![Field(s)] = Given(s, Arg.value)]
           /\ expects' = expects \ {s}
  <2>1. DOMAIN result' = Fields /\ expects' \subseteq Specials
    BY <1>2, <1>7
  <2>2. \A f \in Fields :
          result'[f] = IF f = Field(s) THEN Given(s, Arg.value) ELSE result[f]
    BY <1>2, <1>7
  <2>3. IF s = "%%it" THEN Given(s, Arg.value) # "none" ELSE Given(s, Arg.value) \in Nat
    BY <1>7, GivenHasType
  <2> QED  BY <1>2, <1>3, <1>4, <2>1, <2>2, <2>3
<1> QED  BY <1>5, <1>6, <1>7 DEF Takes

(* The slots of a location. *)
LEMMA SlotFacts ==
  ASSUME loc \in Locations
  PROVE  /\ slots \in Seq(FormatValue) /\ DOMAIN slots = 1..Len(slots) /\ Len(slots) \in Nat
         /\ \A i \in DOMAIN slots :
              /\ slots[i].name # "" /\ slots[i].type \notin Specials
              /\ slots[i].type \in KeyTypes => loc.req_type = "update"
              /\ slots[i].type \in OpTypes => loc.req_type = "upsert"
         /\ \A i, j \in DOMAIN slots :
              i < j => /\ slots[j].type \in KeyTypes => slots[i].type \in KeyTypes
                       /\ slots[i].type \in OpTypes => slots[j].type \in OpTypes
<1>1. IsLocation(loc)
  BY LocationsAssumption
<1>2. slots \in Seq(FormatValue)
  BY <1>1, SlotsAre DEF slots
<1>3. DOMAIN slots = 1..Len(slots) /\ Len(slots) \in Nat
  BY <1>2, LenProperties
<1>4. ASSUME NEW i \in DOMAIN slots
      PROVE  /\ slots[i].name # "" /\ slots[i].type \notin Specials
             /\ slots[i].type \in KeyTypes => loc.req_type = "update"
             /\ slots[i].type \in OpTypes => loc.req_type = "upsert"
  <2>1. slots[i] \in FormatValue
    BY <1>2, <1>3, ElementOfSeq
  <2>2. slots[i].type \notin Specials /\ \E k \in DOMAIN loc.format : slots[i] = loc.format[k]
    BY <1>1, SlotsAre DEF slots
  <2> QED  BY <1>1, <2>1, <2>2 DEF FormatValue, IsLocation
<1>5. ASSUME NEW i \in DOMAIN slots, NEW j \in DOMAIN slots, i < j
      PROVE  /\ slots[j].type \in KeyTypes => slots[i].type \in KeyTypes
             /\ slots[i].type \in OpTypes => slots[j].type \in OpTypes
  <2>1. \E k, m \in DOMAIN loc.format :
          k < m /\ slots[i] = loc.format[k] /\ slots[j] = loc.format[m]
    BY <1>1, <1>5, SlotsAre DEF slots
  <2>2. PICK k \in DOMAIN loc.format, m \in DOMAIN loc.format :
          k < m /\ slots[i] = loc.format[k] /\ slots[j] = loc.format[m]
    BY <2>1
  <2>3. /\ slots[j].type \in KeyTypes => slots[i].type \in KeyTypes \cup Specials
        /\ slots[i].type \in OpTypes => slots[j].type \in OpTypes \cup Specials
    BY <1>1, <2>2 DEF IsLocation
  <2> QED  BY <1>4, <2>3
<1> QED  BY <1>2, <1>3, <1>4, <1>5

(* The slot an argument goes to is a free one of its name, and no free one *)
(* of its name is before it.                                               *)
LEMMA FirstFree ==
  ASSUME Typed, NEW key, FreeSlots(key) # {}
  PROVE  /\ First(FreeSlots(key)) \in FreeSlots(key) /\ First(FreeSlots(key)) \in DOMAIN slots
         /\ \A i \in FreeSlots(key) : First(FreeSlots(key)) <= i
<1>0. loc \in Locations
  BY DEF Typed
<1>1. DOMAIN slots \in SUBSET Nat
  <2>1. DOMAIN slots = 1..Len(slots) /\ Len(slots) \in Nat
    BY <1>0, SlotFacts
  <2> QED  BY <2>1
<1>2. FreeSlots(key) \in SUBSET Nat /\ FreeSlots(key) \subseteq DOMAIN slots
  BY <1>1 DEF FreeSlots
<1> QED  BY <1>2, FirstIsLeast

(* Reading any other argument fills a slot, or changes nothing. *)
LEMMA KvTaken ==
  ASSUME Typed, PrepareKv
  PROVE  \/ FreeSlots(Arg.key) = {} /\ values' = values /\ result' = result
         \/ \E i \in DOMAIN slots :
              /\ i \in FreeSlots(Arg.key) /\ \A j \in FreeSlots(Arg.key) : i <= j
              /\ values' = [values EXCEPT ![i] = Arg.value]
              /\ result' = [result EXCEPT ![Counter(i)] = @ + 1]
<1>1. CASE FreeSlots(Arg.key) = {}
  BY <1>1 DEF PrepareKv
<1>2. CASE FreeSlots(Arg.key) # {}
  <2> DEFINE i == First(FreeSlots(Arg.key))
  <2>1. /\ values' = [values EXCEPT ![i] = Arg.value]
        /\ result' = [result EXCEPT ![Counter(i)] = @ + 1]
    BY <1>2 DEF PrepareKv
  <2>2. i \in FreeSlots(Arg.key) /\ i \in DOMAIN slots /\ \A j \in FreeSlots(Arg.key) : i <= j
    BY <1>2, FirstFree
  <2> HIDE DEF i
  <2> QED  BY <2>1, <2>2
<1> QED  BY <1>1, <1>2

(* A slot is counted in one of three fields. *)
LEMMA CounterIs ==
  ASSUME NEW i
  PROVE  /\ Counter(i) \in {"update_keys_count", "upsert_tuples_count", "tuples_count"}
         /\ Counter(i) \in Numbers
BY DEF Counter, Numbers, Fields

(* ngx_http_tnt_format_init *)
LEMMA InitTyped == Init => Typed
<1> SUFFICES ASSUME Init PROVE Typed
  OBVIOUS
<1>1. loc \in Locations /\ query \in Seq(Argument)
  BY QueriesAssumption DEF Init
<1>2. IsLocation(loc)
  BY <1>1, LocationsAssumption
<1>3. at = 0 /\ bound = 0 /\ Len(query) \in Nat /\ Len(slots) \in Nat
  BY <1>1, LenProperties, SlotFacts DEF Init
<1>4. /\ DOMAIN result = Fields
      /\ \A f \in Numbers : result[f] \in Nat
      /\ result.iter_type # "none"
  <2>1. result = [space_id |-> loc.space_id, index_id |-> loc.index_id,
               limit |-> loc.select_limit, offset |-> loc.select_offset,
               iter_type |-> set_iter_type(loc.iter_type), tuples_count |-> 0,
               update_keys_count |-> 0, upsert_tuples_count |-> 0]
    BY DEF Init
  <2>2. {loc.space_id, loc.index_id, loc.select_offset, loc.select_limit} \subseteq Nat
    BY <1>2 DEF IsLocation
  <2> QED  BY <1>2, <2>1, <2>2, LocationIterates DEF Fields, Numbers
<1>5. expects \subseteq Specials
  BY DEF Init
<1>6. values \in [DOMAIN slots -> Value \cup {NoValue}]
  BY DEF Init
<1>7. begun = FALSE /\ pc = "prepare" /\ err = "none"
  BY DEF Init
<1>8. at \in 0..Len(query) /\ bound \in 0..Len(slots)
  BY <1>3
<1>9. begun \in BOOLEAN
  BY <1>7, Zenon
<1> QED  BY <1>1, <1>4, <1>5, <1>6, <1>7, <1>8, <1>9 DEF Typed

(* Every turn of the loops keeps the types. *)
LEMMA StepTyped == Typed /\ [Next]_vars => Typed'
<1> SUFFICES ASSUME Typed, [Next]_vars PROVE Typed'
  OBVIOUS
<1>0. /\ loc \in Locations /\ query \in Seq(Argument)
      /\ DOMAIN result = Fields /\ (\A f \in Numbers : result[f] \in Nat)
      /\ result.iter_type # "none"
      /\ values \in [DOMAIN slots -> Value \cup {NoValue}]
      /\ Len(query) \in Nat /\ Len(slots) \in Nat
  BY LenProperties, SlotFacts DEF Typed
<1>1. CASE PrepareSpecial
  <2>1. PICK s \in expects : s \in Specials /\ Arg.key = SpecialName(loc, s) /\ Takes(s)
    BY <1>1, SpecialTaken
  <2>2. NextArg /\ values' = values
    BY <1>1 DEF PrepareSpecial
  <2>3. Arg.value \in Value /\ at + 1 \in 1..Len(query)
    BY <2>2, ArgIs
  <2>4. /\ DOMAIN result' = Fields /\ (\A f \in Numbers : result'[f] \in Nat)
        /\ result'.iter_type # "none" /\ expects' \subseteq Specials
    BY <2>1, <2>3, TakesKeepsTypes
  <2>5. /\ loc' = loc /\ query' = query /\ at' = at + 1 /\ bound' = bound /\ begun' = begun
        /\ slots' = slots
    BY <2>2 DEF NextArg, slots
  <2>6. (pc' = pc /\ err' = err) \/ (pc' = "rejected" /\ err' = "not_allowed")
    BY <2>1 DEF Takes
  <2> QED  BY <1>0, <2>2, <2>3, <2>4, <2>5, <2>6 DEF Typed
<1>2. CASE PrepareKv
  <2>1. /\ loc' = loc /\ query' = query /\ at' = at + 1 /\ bound' = bound /\ begun' = begun
        /\ slots' = slots /\ expects' = expects /\ pc' = pc /\ err' = err
    BY <1>2 DEF PrepareKv, NextArg, slots
  <2>2. Arg.value \in Value /\ at + 1 \in 1..Len(query)
    BY <1>2, ArgIs DEF PrepareKv
  <2>3. CASE values' = values /\ result' = result
    BY <1>0, <2>1, <2>2, <2>3 DEF Typed
  <2>4. CASE \E i \in DOMAIN slots :
               /\ values' = [values EXCEPT ![i] = Arg.value]
               /\ result' = [result EXCEPT ![Counter(i)] = @ + 1]
    <3>1. PICK i \in DOMAIN slots : /\ values' = [values EXCEPT ![i] = Arg.value]
                                    /\ result' = [result EXCEPT ![Counter(i)] = @ + 1]
      BY <2>4
    <3>2. values' \in [DOMAIN slots -> Value \cup {NoValue}]
      BY <1>0, <2>2, <3>1
    <3>3. Counter(i) \in Numbers /\ "iter_type" \notin Numbers /\ Numbers \subseteq Fields
          /\ "iter_type" \in Fields
      BY CounterIs DEF Numbers, Fields
    <3>4. DOMAIN result' = Fields /\ result'.iter_type = result.iter_type
          /\ \A f \in Numbers : result'[f] \in Nat
      <4> HIDE DEF Counter
      <4> QED  BY <1>0, <3>1, <3>3
    <3> QED  BY <1>0, <2>1, <2>2, <3>2, <3>4 DEF Typed
  <2> QED  BY <1>2, <2>3, <2>4, KvTaken
<1>3. CASE SkipArg
  <2>1. at + 1 \in 1..Len(query)
    BY <1>3, ArgIs DEF SkipArg
  <2>2. /\ loc' = loc /\ query' = query /\ at' = at + 1 /\ bound' = bound /\ begun' = begun
        /\ slots' = slots /\ result' = result /\ expects' = expects /\ values' = values
        /\ pc' = pc /\ err' = err
    BY <1>3 DEF SkipArg, NextArg, slots
  <2>3. at' \in 0..Len(query)
    BY <1>0, <2>1, <2>2
  <2> QED  BY <2>2, <2>3 DEF Typed
<1>4. CASE PrepareEnd
  BY <1>4 DEF PrepareEnd, Typed, slots
<1>5. CASE Bind
  <2>1. /\ loc' = loc /\ query' = query /\ at' = at /\ result' = result
        /\ expects' = expects /\ values' = values /\ slots' = slots
        /\ bound < Len(slots) /\ bound' = bound + 1 /\ pc = "bind"
    BY <1>5 DEF Bind, slots
  <2>2. bound' \in 0..Len(slots)
    BY <1>0, <2>1 DEF Typed
  <2>3. /\ begun' = begun \/ begun' = (begun \/ IsOperation(bound + 1))
        /\ (pc' = pc /\ err' = err) \/ (pc' = "rejected" /\ err' = "value")
    BY <1>5 DEF Bind
  <2>4. begun' \in BOOLEAN
    BY <2>3 DEF Typed
  <2> QED  BY <2>1, <2>2, <2>3, <2>4 DEF Typed
<1>6. CASE BindEnd
  BY <1>6 DEF BindEnd, Typed, slots
<1>7. CASE Fail
  BY <1>7 DEF Fail, Typed, slots
<1>8. CASE UNCHANGED vars
  BY <1>8 DEF vars, Typed, slots
<1> QED  BY <1>1, <1>2, <1>3, <1>4, <1>5, <1>6, <1>7, <1>8 DEF Next

(* The types are what the runs check of them. *)
LEMMA TypedIsTypeOK == Typed => TypeOK
<1> SUFFICES ASSUME Typed PROVE TypeOK
  OBVIOUS
<1>1. {result.space_id, result.index_id, result.limit, result.offset,
      result.tuples_count, result.update_keys_count,
      result.upsert_tuples_count} \subseteq Nat
  BY DEF Typed, Numbers, Fields
<1> QED  BY <1>1 DEF Typed, TypeOK

(* The counters stay counts, the iterator one of Tarantool's and every     *)
(* index within its loop, whatever a location and its clients give.        *)
THEOREM TypesHold == Spec => []TypeOK
BY InitTyped, StepTyped, TypedIsTypeOK, PTL DEF Spec

-----------------------------------------------------------------------------
(* What the fields of the special arguments are when none is given. *)
Default(s) ==
  CASE s = "%%lim" -> loc.select_limit [] s = "%%off" -> loc.select_offset
    [] s = "%%it" -> set_iter_type(loc.iter_type) [] s = "%%space_id" -> loc.space_id
    [] s = "%%idx_id" -> loc.index_id

(* A special argument so far: it has the first usable value, or none was   *)
(* seen.  (The limit of an unusable value is the maximum, until it gets a  *)
(* usable one.)                                                            *)
Collected(s) ==
  /\ s \in expects =>
       /\ SpecialName(loc, s) # "" /\ \A a \in UsableArgs(s) : a > at
       /\ s # "%%lim" => result[Field(s)] = Default(s)
  /\ s \notin expects =>
       \/ SpecialName(loc, s) = "" /\ result[Field(s)] = Default(s)
       \/ \E a \in UsableArgs(s) : /\ a <= at /\ \A b \in UsableArgs(s) : a <= b
                                   /\ result[Field(s)] = Given(s, query[a].value)

AllCollected ==
  OwnNames =>
    \/ err = "not_allowed" /\ LimitExceeded
    \/ \A s \in Specials : Collected(s)

(* What a query means does not change while it is read. *)
LEMMA MeaningStays ==
  ASSUME loc' = loc, query' = query
  PROVE  /\ \A s : UsableArgs(s)' = UsableArgs(s) /\ Default(s)' = Default(s)
         /\ OwnNames' = OwnNames /\ LimitExceeded' = LimitExceeded
         /\ \A i : ArgFor(i)' = ArgFor(i) /\ MeantValue(i)' = MeantValue(i)
         /\ \A b : MeantSlots(b)' = MeantSlots(b)
         /\ Regular' = Regular /\ slots' = slots
<1>1. slots' = slots
  BY DEF slots
<1>2. \A name : Occurrences(name)' = Occurrences(name) /\ SlotsNamed(name)' = SlotsNamed(name)
  BY <1>1 DEF Occurrences, SlotsNamed
<1>3. \A s : UsableArgs(s)' = UsableArgs(s) /\ Default(s)' = Default(s)
  BY <1>2 DEF UsableArgs, Default
<1>4. OwnNames' = OwnNames /\ LimitExceeded' = LimitExceeded
  BY <1>2 DEF OwnNames, LimitExceeded
<1>5. \A i : ArgFor(i)' = ArgFor(i) /\ MeantValue(i)' = MeantValue(i)
  <2>1. ASSUME NEW i PROVE ArgFor(i)' = ArgFor(i)
    BY <1>1, <1>2 DEF ArgFor
  <2> QED  BY <2>1 DEF MeantValue
<1>6. \A b : MeantSlots(b)' = MeantSlots(b)
  BY <1>1, <1>5 DEF MeantSlots, IsOpSlot
<1>7. Regular' = Regular
  BY <1>1, <1>4, <1>6 DEF Regular
<1> QED  BY <1>1, <1>3, <1>4, <1>5, <1>6, <1>7

(* The special arguments' fields are five, and none is a counter. *)
LEMMA FieldsDiffer ==
  /\ \A s, t \in Specials : s # t => Field(s) # Field(t)
  /\ \A s \in Specials : /\ Field(s) \in Fields /\ (Field(s) = "limit" <=> s = "%%lim")
                         /\ \A i : Field(s) # Counter(i)
<1>1. \A s, t \in Specials : s # t => Field(s) # Field(t)
  BY SpecialsAre, FieldOf
<1>2. ASSUME NEW s \in Specials
      PROVE  /\ Field(s) \in Fields /\ (Field(s) = "limit" <=> s = "%%lim")
             /\ \A i : Field(s) # Counter(i)
  <2>1. Field(s) \in {"limit", "offset", "iter_type", "space_id", "index_id"}
    BY SpecialsAre, FieldOf
  <2>2. Field(s) \in Fields /\ (Field(s) = "limit" <=> s = "%%lim")
    BY SpecialsAre, FieldOf DEF Fields
  <2>3. \A i : Field(s) # Counter(i)
    BY <2>1, CounterIs
  <2> QED  BY <2>2, <2>3
<1> QED  BY <1>1, <1>2

(* A usable argument of s is one of the query's with its name. *)
LEMMA UsableAre ==
  ASSUME Typed, NEW s, NEW a \in UsableArgs(s)
  PROVE  /\ a \in Nat /\ a \in 1..Len(query) /\ query[a].key = SpecialName(loc, s)
         /\ Usable(s, query[a].value)
<1>1. Len(query) \in Nat /\ DOMAIN query = 1..Len(query)
  BY LenProperties DEF Typed
<1>2. a \in DOMAIN query /\ query[a].key = SpecialName(loc, s) /\ Usable(s, query[a].value)
  BY DEF UsableArgs, Occurrences
<1> QED  BY <1>1, <1>2

(* A special argument whose field and place in expects stay, and that the  *)
(* argument just read is no usable value of.                               *)
LEMMA CollectedStays ==
  ASSUME Typed, NEW s \in Specials, Collected(s),
         loc' = loc, query' = query, at' \in {at, at + 1},
         at' = at \/ s \notin expects \/ at + 1 \notin UsableArgs(s),
         s \in expects' <=> s \in expects,
         result'[Field(s)] = result[Field(s)] \/ (s = "%%lim" /\ s \in expects)
  PROVE  Collected(s)'
<1>1. UsableArgs(s)' = UsableArgs(s) /\ Default(s)' = Default(s)
  BY MeaningStays
<1>2. at \in Nat /\ \A a \in UsableArgs(s) : a \in Nat
  <2>1. Len(query) \in Nat /\ at \in 0..Len(query)
    BY LenProperties DEF Typed
  <2> QED  BY <2>1, UsableAre
<1>3. CASE s \in expects
  <2>1. /\ SpecialName(loc, s) # "" /\ \A a \in UsableArgs(s) : a > at
        /\ s # "%%lim" => result[Field(s)] = Default(s)
    BY <1>3 DEF Collected
  <2>2. ASSUME NEW a \in UsableArgs(s) PROVE a > at'
    <3>1. a > at /\ a \in Nat /\ at \in Nat
      BY <1>2, <2>1
    <3>2. at' = at \/ (at' = at + 1 /\ a # at + 1)
      BY <1>3
    <3> QED  BY <3>1, <3>2
  <2>3. s # "%%lim" => result'[Field(s)] = Default(s)
    BY <2>1
  <2> QED  BY <1>1, <1>3, <2>1, <2>2, <2>3 DEF Collected
<1>4. CASE s \notin expects
  <2>1. \/ SpecialName(loc, s) = "" /\ result[Field(s)] = Default(s)
        \/ \E a \in UsableArgs(s) : /\ a <= at /\ \A b \in UsableArgs(s) : a <= b
                                    /\ result[Field(s)] = Given(s, query[a].value)
    BY <1>4 DEF Collected
  <2>2. \A a \in UsableArgs(s) : a <= at => a <= at'
    <3>1. at' = at \/ at' = at + 1
      OBVIOUS
    <3> QED  BY <1>2, <3>1
  <2>3. result'[Field(s)] = result[Field(s)]
    BY <1>4
  <2> QED  BY <1>1, <1>4, <2>1, <2>2, <2>3 DEF Collected
<1> QED  BY <1>3, <1>4

(* At the end of the arguments a field is what the whole query means. *)
LEMMA CollectedIsMeant ==
  ASSUME Typed, NEW s \in Specials, Collected(s), at = Len(query),
         s # "%%lim" \/ s \notin expects
  PROVE  /\ result[Field(s)] = Meant(s, Default(s))
         /\ s \in expects => UsableArgs(s) = {}
<1>1. \A a \in UsableArgs(s) : a \in Nat /\ ~(a > at)
  <2>1. Len(query) \in Nat
    BY LenProperties DEF Typed
  <2> QED  BY <2>1, UsableAre
<1>2. CASE s \in expects
  <2>1. UsableArgs(s) = {} /\ result[Field(s)] = Default(s)
    BY <1>1, <1>2 DEF Collected
  <2> QED  BY <2>1 DEF Meant
<1>3. CASE s \notin expects /\ SpecialName(loc, s) = "" /\ result[Field(s)] = Default(s)
  <2>1. UsableArgs(s) = {}
    BY <1>3 DEF UsableArgs
  <2> QED  BY <1>3, <2>1 DEF Meant
<1>4. CASE s \notin expects /\ \E a \in UsableArgs(s) :
                                 /\ \A b \in UsableArgs(s) : a <= b
                                 /\ result[Field(s)] = Given(s, query[a].value)
  <2>1. PICK a \in UsableArgs(s) : /\ \A b \in UsableArgs(s) : a <= b
                                   /\ result[Field(s)] = Given(s, query[a].value)
    BY <1>4
  <2>2. UsableArgs(s) \in SUBSET Nat
    BY <1>1
  <2>3. First(UsableArgs(s)) = a
    BY <2>1, <2>2, FirstIs
  <2> QED  BY <1>4, <2>1, <2>3 DEF Meant
<1> QED  BY <1>2, <1>3, <1>4 DEF Collected

(* ngx_http_tnt_format_init gives every field its default. *)
LEMMA InitCollected == Init => AllCollected
<1> SUFFICES ASSUME Init, NEW s \in Specials PROVE Collected(s)
  BY DEF AllCollected
<1>1. Typed
  BY InitTyped
<1>2. result[Field(s)] = Default(s)
  <2>1. result = [space_id |-> loc.space_id, index_id |-> loc.index_id,
               limit |-> loc.select_limit, offset |-> loc.select_offset,
               iter_type |-> set_iter_type(loc.iter_type), tuples_count |-> 0,
               update_keys_count |-> 0, upsert_tuples_count |-> 0]
    BY DEF Init
  <2>2. /\ result["limit"] = loc.select_limit /\ result["offset"] = loc.select_offset
        /\ result["iter_type"] = set_iter_type(loc.iter_type)
        /\ result["space_id"] = loc.space_id /\ result["index_id"] = loc.index_id
    BY <2>1
  <2>3. /\ Default("%%lim") = loc.select_limit /\ Default("%%off") = loc.select_offset
        /\ Default("%%it") = set_iter_type(loc.iter_type)
        /\ Default("%%space_id") = loc.space_id /\ Default("%%idx_id") = loc.index_id
    BY DEF Default
  <2> QED  BY <2>2, <2>3, FieldOf, SpecialsAre
<1>3. s \in expects <=> SpecialName(loc, s) # ""
  BY DEF Init
<1>4. \A a \in UsableArgs(s) : a > at
  <2>1. at = 0
    BY DEF Init
  <2>2. \A a \in UsableArgs(s) : a > 0
    BY <1>1, UsableAre
  <2> QED  BY <2>1, <2>2
<1> QED  BY <1>2, <1>3, <1>4 DEF Collected

(* Every turn of the loops keeps what is collected, or the limit was       *)
(* exceeded.                                                               *)
LEMMA StepCollected == Typed /\ AllCollected /\ [Next]_vars => AllCollected'
<1> SUFFICES ASSUME Typed, AllCollected, [Next]_vars PROVE AllCollected'
  OBVIOUS
<1>1. CASE loc' = loc /\ query' = query /\ at' = at /\ result' = result
           /\ expects' = expects /\ (err = "not_allowed" => err' = "not_allowed")
  <2>1. OwnNames' = OwnNames /\ LimitExceeded' = LimitExceeded
    BY <1>1, MeaningStays
  <2>2. ASSUME NEW s \in Specials, Collected(s) PROVE Collected(s)'
    BY <1>1, <2>2, CollectedStays
  <2> QED  BY <1>1, <2>1, <2>2 DEF AllCollected
<1>2. CASE NextArg
  <2> SUFFICES ASSUME OwnNames
               PROVE  \/ err' = "not_allowed" /\ LimitExceeded
                      \/ \A s \in Specials : Collected(s)'
    BY <1>2, MeaningStays DEF AllCollected, NextArg
  <2>1. /\ loc' = loc /\ query' = query /\ at' = at + 1 /\ pc = "prepare" /\ err = "none"
    BY <1>2 DEF NextArg, Typed
  <2>2. \A s \in Specials : Collected(s)
    BY <2>1 DEF AllCollected
  <2>3. Arg = query[at + 1] /\ Arg.value \in Value /\ at + 1 \in DOMAIN query
    BY <1>2, ArgIs
  <2>4. \A s : at + 1 \in UsableArgs(s) =>
                 Arg.key = SpecialName(loc, s) /\ Usable(s, Arg.value)
    BY <2>3, UsableAre
  <2>5. \A s \in expects : SpecialName(loc, s) # "" /\ s \in Specials
    BY <2>2 DEF Collected, Typed
  <2>6. CASE PrepareSpecial
    <3>1. PICK t \in expects : t \in Specials /\ Arg.key = SpecialName(loc, t) /\ Takes(t)
      BY <2>6, SpecialTaken
    <3>2. Arg.key # ""
      BY <2>6 DEF PrepareSpecial
    <3>3. DOMAIN result = Fields
      BY DEF Typed
    <3>4. CASE t = "%%lim" /\ OverLimit(Arg.value)
      <4>1. err' = "not_allowed"
        BY <3>4, <3>1 DEF Takes
      <4>2. LimitExceeded
        BY <2>3, <3>1, <3>2, <3>4 DEF LimitExceeded, OverLimit
      <4> QED  BY <4>1, <4>2
    <3>5. CASE ~(t = "%%lim" /\ OverLimit(Arg.value))
      <4> SUFFICES ASSUME NEW s \in Specials PROVE Collected(s)'
        OBVIOUS
      <4>1. CASE s # t
        <5>1. Arg.key # SpecialName(loc, s) \/ s \notin expects
          BY <2>5, <3>1, <3>2, <4>1 DEF OwnNames
        <5>2. at + 1 \notin UsableArgs(s) \/ s \notin expects
          BY <2>4, <5>1
        <5>3. s \in expects' <=> s \in expects
          BY <3>1, <3>5, <4>1 DEF Takes
        <5>4. Field(s) # Field(t) /\ (t = "%%lim" => Field(s) # "limit")
              /\ Field(s) \in Fields
          BY <3>1, <4>1, FieldsDiffer
        <5>5. result'[Field(s)] = result[Field(s)]
          BY <3>1, <3>3, <3>5, <5>4 DEF Takes
        <5> QED  BY <2>1, <2>2, <5>2, <5>3, <5>5, CollectedStays
      <4>2. CASE s = t /\ Usable(t, Arg.value)
        <5>1. result' = [result EXCEPT ![Field(s)] = Given(s, Arg.value)]
              /\ expects' = expects \ {s}
          BY <3>1, <3>5, <4>2 DEF Takes
        <5>2. result'[Field(s)] = Given(s, query[at + 1].value) /\ s \notin expects'
          BY <2>3, <3>3, <5>1, FieldsDiffer
        <5>3. at + 1 \in UsableArgs(s)
          BY <2>3, <3>1, <3>2, <4>2 DEF UsableArgs, Occurrences
        <5>4. \A b \in UsableArgs(s) : at + 1 <= b
          <6>1. \A b \in UsableArgs(s) : b > at /\ b \in Nat /\ at \in Nat
            BY <2>2, <3>1, <4>2, <1>2, UsableAre, ArgIs DEF Collected
          <6> QED  BY <6>1
        <5>5. UsableArgs(s)' = UsableArgs(s)
          BY <2>1, MeaningStays
        <5>6. at + 1 <= at'
          BY <1>2, <2>1, ArgIs
        <5> QED  BY <2>1, <5>2, <5>3, <5>4, <5>5, <5>6 DEF Collected
      <4>3. CASE s = t /\ ~Usable(t, Arg.value)
        <5>1. expects' = expects
              /\ result' = IF s = "%%lim" THEN [result EXCEPT !.limit = loc.select_limit_max]
                           ELSE result
          BY <3>1, <3>5, <4>3 DEF Takes
        <5>2. at + 1 \notin UsableArgs(s)
          BY <2>4, <4>3
        <5>3. result'[Field(s)] = result[Field(s)] \/ (s = "%%lim" /\ s \in expects)
          BY <3>1, <4>3, <5>1
        <5> QED  BY <2>1, <2>2, <5>1, <5>2, <5>3, CollectedStays
      <4> QED  BY <4>1, <4>2, <4>3
    <3> QED  BY <3>4, <3>5
  <2>7. CASE PrepareKv \/ SkipArg
    <3> SUFFICES ASSUME NEW s \in Specials PROVE Collected(s)'
      OBVIOUS
    <3>1. expects' = expects
      BY <2>7 DEF PrepareKv, SkipArg
    <3>2. at + 1 \notin UsableArgs(s) \/ s \notin expects
      <4>1. CASE PrepareKv
        <5>1. Awaited = {}
          BY <4>1 DEF PrepareKv
        <5>2. s \in expects => Arg.key # SpecialName(loc, s)
          BY <5>1 DEF Awaited, Specials
        <5> QED  BY <2>4, <5>2
      <4>2. CASE SkipArg
        BY <2>4, <2>5, <4>2 DEF SkipArg
      <4> QED  BY <2>7, <4>1, <4>2
    <3>3. result'[Field(s)] = result[Field(s)]
      <4>1. CASE result' = result
        BY <4>1
      <4>2. CASE \E i : result' = [result EXCEPT ![Counter(i)] = @ + 1]
        <5>1. PICK i : result' = [result EXCEPT ![Counter(i)] = @ + 1]
          BY <4>2
        <5>2. Field(s) # Counter(i) /\ Field(s) \in Fields /\ DOMAIN result = Fields
          BY FieldsDiffer DEF Typed
        <5> QED  BY <5>1, <5>2
      <4> QED  BY <2>7, <4>1, <4>2, KvTaken DEF SkipArg
    <3> QED  BY <2>1, <2>2, <3>1, <3>2, <3>3, CollectedStays
  <2>8. PrepareSpecial \/ PrepareKv \/ SkipArg
    <3>1. Next /\ pc = "prepare" /\ at' # at
      <4>1. at \in Nat
        BY <1>2, ArgIs
      <4> QED  BY <2>1, <4>1 DEF vars
    <3> QED  BY <3>1 DEF Next, PrepareEnd, Bind, BindEnd, Fail
  <2> QED  BY <2>6, <2>7, <2>8
<1>3. CASE PrepareEnd \/ Bind \/ BindEnd \/ Fail \/ UNCHANGED vars
  <2>1. /\ loc' = loc /\ query' = query /\ at' = at /\ result' = result
        /\ expects' = expects
    BY <1>3 DEF PrepareEnd, Bind, BindEnd, Fail, vars
  <2>2. err = "not_allowed" => err' = "not_allowed"
    <3>1. CASE PrepareEnd \/ Bind \/ BindEnd \/ Fail
      <4>1. pc # "rejected"
        BY <3>1 DEF PrepareEnd, Bind, BindEnd, Fail
      <4> QED  BY <4>1 DEF Typed
    <3>2. CASE UNCHANGED vars
      BY <3>2 DEF vars
    <3> QED  BY <1>3, <3>1, <3>2
  <2> QED  BY <1>1, <2>1, <2>2
<1>4. PrepareSpecial \/ PrepareKv \/ SkipArg => NextArg
  BY DEF PrepareSpecial, PrepareKv, SkipArg
<1> QED  BY <1>2, <1>3, <1>4 DEF Next

-----------------------------------------------------------------------------
(* The slots so far: one whose argument was read has its value, the others *)
(* have none; and the three counters count those that have one.            *)
Filled ==
  Regular =>
    \A i \in DOMAIN slots :
      /\ \A a \in ArgFor(i) : a <= at => values[i] = query[a].value
      /\ (\A a \in ArgFor(i) : a > at) => values[i] = NoValue

Counters == {"update_keys_count", "upsert_tuples_count", "tuples_count"}
GivenTo(c) == {i \in DOMAIN slots : values[i] # NoValue /\ Counter(i) = c}
Counted == Regular => \A c \in Counters : result[c] = Cardinality(GivenTo(c))

(* Positions of arguments and of slots are positive. *)
LEMMA PositionsAre ==
  ASSUME Typed
  PROVE  \A name : /\ Occurrences(name) \in SUBSET (Nat \ {0})
                   /\ SlotsNamed(name) \in SUBSET (Nat \ {0})
<1>1. Len(query) \in Nat /\ DOMAIN query = 1..Len(query)
  BY LenProperties DEF Typed
<1>2. loc \in Locations
  BY DEF Typed
<1>3. Len(slots) \in Nat /\ DOMAIN slots = 1..Len(slots)
  BY <1>2, SlotFacts
<1>4. DOMAIN query \in SUBSET (Nat \ {0}) /\ DOMAIN slots \in SUBSET (Nat \ {0})
  BY <1>1, <1>3
<1>5. \A name : Occurrences(name) \subseteq DOMAIN query
                /\ SlotsNamed(name) \subseteq DOMAIN slots
  BY DEF Occurrences, SlotsNamed
<1> QED  BY <1>4, <1>5

(* The argument that a slot's value comes from is one of its name. *)
LEMMA ArgForIs ==
  ASSUME Typed, NEW i \in DOMAIN slots
  PROVE  /\ i \in SlotsNamed(slots[i].name) /\ i \in Nat
         /\ \A a : a \in ArgFor(i) <=>
              /\ a \in Occurrences(slots[i].name)
              /\ Place(a, Occurrences(slots[i].name)) = Place(i, SlotsNamed(slots[i].name))
         /\ \A a \in ArgFor(i) : /\ a \in Nat /\ a \in DOMAIN query
                                 /\ query[a].key = slots[i].name
<1>1. i \in SlotsNamed(slots[i].name)
  BY DEF SlotsNamed
<1>2. \A a : a \in ArgFor(i) <=>
              /\ a \in Occurrences(slots[i].name)
              /\ Place(a, Occurrences(slots[i].name)) = Place(i, SlotsNamed(slots[i].name))
  BY DEF ArgFor
<1>3. \A a \in Occurrences(slots[i].name) :
        a \in Nat /\ a \in DOMAIN query /\ query[a].key = slots[i].name
  BY PositionsAre DEF Occurrences
<1>4. i \in Nat
  BY <1>1, PositionsAre
<1> QED  BY <1>1, <1>2, <1>3, <1>4

(* The slots of the name of the next argument that are free are those that *)
(* no argument before it is for.                                           *)
LEMMA FreeAreLater ==
  ASSUME Typed, Filled, Regular, NextArg,
         NEW i \in DOMAIN slots, slots[i].name = Arg.key
  PROVE  LET O == Occurrences(Arg.key)
             S == SlotsNamed(Arg.key)
         IN  /\ Place(i, S) \in Nat /\ Place(at + 1, O) \in Nat
             /\ i \in FreeSlots(Arg.key) <=> Place(i, S) >= Place(at + 1, O)
             /\ Place(i, S) >= Place(at + 1, O) => values[i] = NoValue
<1> DEFINE O == Occurrences(Arg.key)
           S == SlotsNamed(Arg.key)
<1>1. O \in SUBSET (Nat \ {0}) /\ S \in SUBSET (Nat \ {0})
  BY PositionsAre
<1>2. /\ i \in S /\ i \in Nat
      /\ \A a : a \in ArgFor(i) <=> a \in O /\ Place(a, O) = Place(i, S)
      /\ \A a \in ArgFor(i) : a \in Nat /\ a \in DOMAIN query /\ query[a].key = Arg.key
  BY ArgForIs
<1>3. at \in Nat /\ at + 1 \in DOMAIN query /\ Arg = query[at + 1]
  BY ArgIs
<1>4. at + 1 \in O
  BY <1>3 DEF Occurrences
<1>5. /\ Filled!2!(i)!1
      /\ Filled!2!(i)!2
  BY DEF Filled
<1> HIDE DEF O, S
<1>6. Place(i, S) \in Nat /\ Place(at, O) \in Nat /\ Place(at + 1, O) = Place(at, O) + 1
  <2>1. O \in SUBSET Nat /\ S \in SUBSET Nat
    BY <1>1
  <2> QED  BY <1>2, <1>3, <1>4, <2>1, PlaceType, PlaceNext
<1>7. CASE Place(i, S) >= Place(at + 1, O)
  <2>1. ASSUME NEW a \in ArgFor(i) PROVE a > at
    <3>1. a \in Nat /\ Place(a, O) = Place(i, S) /\ O \in SUBSET Nat
      BY <1>1, <1>2
    <3>2. a <= at => Place(a, O) <= Place(at, O)
      BY <1>3, <3>1, PlaceGrows
    <3> QED  BY <1>3, <1>6, <1>7, <3>1, <3>2
  <2>2. values[i] = NoValue
    BY <1>5, <2>1
  <2>3. i \in FreeSlots(Arg.key)
    BY <2>2 DEF FreeSlots
  <2> QED  BY <1>6, <1>7, <2>2, <2>3 DEF O, S
<1>8. CASE ~(Place(i, S) >= Place(at + 1, O))
  <2>1. Place(i, S) >= 1
    <3>1. Place(0, S) = 0 /\ Place(0, S) < Place(i, S)
      <4>1. S \in SUBSET Nat /\ 0 \in Nat /\ 0 < i
        BY <1>1, <1>2
      <4> QED  BY <1>1, <1>2, <4>1, PlaceZero, PlaceOfLater
    <3> QED  BY <1>6, <3>1
  <2>2. Place(i, S) \in 1..Place(at, O)
    BY <1>6, <1>8, <2>1
  <2>3. PICK a \in O : a <= at /\ Place(a, O) = Place(i, S)
    BY <1>1, <1>3, <2>2, PlaceIsTaken
  <2>4. a \in ArgFor(i) /\ a \in Nat /\ a \in DOMAIN query /\ query[a].key = Arg.key
    BY <1>2, <2>3
  <2>5. values[i] = query[a].value
    BY <1>5, <2>3, <2>4
  <2>6. a < at + 1
    BY <1>3, <2>3, <2>4
  <2>7. ~query[a].value.empty
    BY <1>3, <2>4, <2>6 DEF Regular
  <2>8. query[a].value # NoValue
    <3>1. query \in Seq(Argument)
      BY DEF Typed
    <3> QED  BY <2>4, <3>1, ArgumentHas, ValueIsSet
  <2>9. i \notin FreeSlots(Arg.key)
    BY <2>5, <2>7, <2>8 DEF FreeSlots
  <2> QED  BY <1>6, <1>8, <2>9 DEF O, S
<1> QED  BY <1>7, <1>8

(* The first free slot of a name is the one that the next argument of that *)
(* name is for, and there is one if there is such a slot.                  *)
LEMMA FirstFreeIsNext ==
  ASSUME Typed, Filled, Regular, NextArg
  PROVE  /\ \A i \in DOMAIN slots :
              at + 1 \in ArgFor(i) => i \in FreeSlots(Arg.key) /\ values[i] = NoValue
         /\ \A i \in FreeSlots(Arg.key) :
              (\A j \in FreeSlots(Arg.key) : i <= j) => at + 1 \in ArgFor(i)
         /\ \A i, j \in DOMAIN slots :
              at + 1 \in ArgFor(i) /\ at + 1 \in ArgFor(j) => i = j
         /\ \A i \in DOMAIN slots : at + 1 \in ArgFor(i) => \A a \in ArgFor(i) : a = at + 1
<1> DEFINE O == Occurrences(Arg.key)
           S == SlotsNamed(Arg.key)
<1>1. /\ O \in SUBSET (Nat \ {0}) /\ S \in SUBSET (Nat \ {0})
      /\ O \in SUBSET Nat /\ S \in SUBSET Nat
  BY PositionsAre
<1>2. at \in Nat /\ at + 1 \in DOMAIN query /\ Arg = query[at + 1] /\ at + 1 \in O
  BY ArgIs DEF Occurrences
<1>3. ASSUME NEW i \in DOMAIN slots
      PROVE  /\ at + 1 \in ArgFor(i) =>
                  /\ slots[i].name = Arg.key /\ i \in S /\ Place(i, S) = Place(at + 1, O)
                  /\ \A a \in ArgFor(i) : a \in O /\ Place(a, O) = Place(at + 1, O)
             /\ slots[i].name = Arg.key /\ Place(i, S) = Place(at + 1, O) =>
                  at + 1 \in ArgFor(i)
  <2>1. /\ i \in SlotsNamed(slots[i].name)
        /\ \A a : a \in ArgFor(i) <=>
              /\ a \in Occurrences(slots[i].name)
              /\ Place(a, Occurrences(slots[i].name)) = Place(i, SlotsNamed(slots[i].name))
        /\ \A a \in ArgFor(i) : query[a].key = slots[i].name
    BY ArgForIs
  <2>2. CASE at + 1 \in ArgFor(i)
    <3>1. slots[i].name = Arg.key
      BY <1>2, <2>1, <2>2
    <3> QED  BY <2>1, <2>2, <3>1
  <2>3. CASE at + 1 \notin ArgFor(i)
    BY <1>2, <2>1, <2>3
  <2> QED  BY <2>2, <2>3
<1>4. ASSUME NEW i \in DOMAIN slots, slots[i].name = Arg.key
      PROVE  /\ Place(i, S) \in Nat /\ Place(at + 1, O) \in Nat
             /\ i \in FreeSlots(Arg.key) <=> Place(i, S) >= Place(at + 1, O)
             /\ Place(i, S) >= Place(at + 1, O) => values[i] = NoValue
  BY <1>4, FreeAreLater
<1> HIDE DEF O, S
<1>5. ASSUME NEW i \in DOMAIN slots, at + 1 \in ArgFor(i)
      PROVE  i \in FreeSlots(Arg.key) /\ values[i] = NoValue
  <2>1. slots[i].name = Arg.key /\ Place(i, S) = Place(at + 1, O)
    BY <1>3, <1>5
  <2>2. Place(i, S) \in Nat /\ Place(i, S) >= Place(at + 1, O)
    BY <1>4, <2>1
  <2> QED  BY <1>4, <2>1, <2>2
<1>6. ASSUME NEW i \in FreeSlots(Arg.key), \A j \in FreeSlots(Arg.key) : i <= j
      PROVE  at + 1 \in ArgFor(i)
  <2>1. i \in DOMAIN slots /\ slots[i].name = Arg.key /\ i \in S
    BY DEF FreeSlots, S, SlotsNamed
  <2>2. /\ Place(i, S) \in Nat /\ Place(at + 1, O) \in Nat
        /\ Place(i, S) >= Place(at + 1, O)
    BY <1>4, <2>1
  <2>3. Place(at + 1, O) >= 1
    <3>1. Place(0, O) = 0 /\ Place(0, O) < Place(at + 1, O)
      <4>1. 0 \in Nat /\ 0 < at + 1
        BY <1>2
      <4> QED  BY <1>1, <1>2, <4>1, PlaceZero, PlaceOfLater
    <3> QED  BY <2>2, <3>1
  <2>4. Place(at + 1, O) \in 1..Place(i, S) /\ i \in Nat
    <3>1. i \in Nat
      BY <1>1, <2>1
    <3>2. Place(at + 1, O) \in 1..Place(i, S)
      BY <2>2, <2>3
    <3> QED  BY <3>1, <3>2
  <2>5. PICK j \in S : j <= i /\ Place(j, S) = Place(at + 1, O)
    BY <1>1, <2>4, PlaceIsTaken
  <2>6. j \in DOMAIN slots /\ slots[j].name = Arg.key /\ j \in Nat
    BY <1>1 DEF S, SlotsNamed
  <2>7. j \in FreeSlots(Arg.key)
    <3>1. Place(j, S) >= Place(at + 1, O)
      BY <2>2, <2>5
    <3> QED  BY <1>4, <2>6, <3>1
  <2>8. j = i
    BY <1>6, <2>4, <2>5, <2>6, <2>7
  <2> QED  BY <1>3, <2>5, <2>6, <2>8
<1>7. ASSUME NEW i \in DOMAIN slots, NEW j \in DOMAIN slots,
             at + 1 \in ArgFor(i), at + 1 \in ArgFor(j)
      PROVE  i = j
  <2>1. i \in S /\ j \in S /\ Place(i, S) = Place(j, S)
    BY <1>3, <1>7
  <2> QED  BY <1>1, <2>1, PlaceIsUnique
<1>8. ASSUME NEW i \in DOMAIN slots, at + 1 \in ArgFor(i), NEW a \in ArgFor(i)
      PROVE  a = at + 1
  <2>1. a \in O /\ Place(a, O) = Place(at + 1, O)
    BY <1>3, <1>8
  <2> QED  BY <1>1, <1>2, <2>1, PlaceIsUnique
<1> QED  BY <1>5, <1>6, <1>7, <1>8

(* Nothing is filled or counted before the first argument. *)
LEMMA InitFilled == Init => Filled /\ Counted
<1> SUFFICES ASSUME Init PROVE Filled /\ Counted
  OBVIOUS
<1>1. Typed
  BY InitTyped
<1>2. at = 0 /\ \A i \in DOMAIN slots : values[i] = NoValue
  BY DEF Init
<1>3. Filled
  <2>1. ASSUME NEW i \in DOMAIN slots, NEW a \in ArgFor(i) PROVE ~(a <= at)
    <3>1. a \in DOMAIN query /\ query \in Seq(Argument)
      BY <1>1, ArgForIs DEF Typed
    <3>2. DOMAIN query = 1..Len(query) /\ Len(query) \in Nat
      BY <3>1, LenProperties
    <3> QED  BY <1>2, <3>1, <3>2
  <2> QED  BY <1>2, <2>1 DEF Filled
<1>4. Counted
  <2>1. \A c : GivenTo(c) = {}
    BY <1>2 DEF GivenTo
  <2>2. \A c \in Counters : result[c] = 0
    <3>1. result = [space_id |-> loc.space_id, index_id |-> loc.index_id,
               limit |-> loc.select_limit, offset |-> loc.select_offset,
               iter_type |-> set_iter_type(loc.iter_type), tuples_count |-> 0,
               update_keys_count |-> 0, upsert_tuples_count |-> 0]
      BY DEF Init
    <3> QED  BY <3>1 DEF Counters
  <2> QED  BY <2>1, <2>2, FS_EmptySet DEF Counted
<1> QED  BY <1>3, <1>4

(* A slot's counter is its type's, whatever else changes. *)
LEMMA CounterStays ==
  ASSUME loc' = loc
  PROVE  /\ \A i : Counter(i)' = Counter(i)
         /\ values' = values => \A c : GivenTo(c)' = GivenTo(c)
<1>1. slots' = slots
  BY DEF slots
<1>2. \A i : Counter(i)' = Counter(i)
  BY <1>1 DEF Counter
<1>3. values' = values => \A c : GivenTo(c)' = GivenTo(c)
  BY <1>1, <1>2 DEF GivenTo
<1> QED  BY <1>2, <1>3

(* An argument that is for no slot leaves the slots as they should be. *)
LEMMA FilledStays ==
  ASSUME Typed, Filled, Counted, loc' = loc, query' = query, at' \in {at, at + 1},
         at' = at \/ \A i \in DOMAIN slots : at + 1 \notin ArgFor(i),
         values' = values, \A c \in Counters : result'[c] = result[c]
  PROVE  Filled' /\ Counted'
<1>1. Regular' = Regular /\ slots' = slots /\ \A i : ArgFor(i)' = ArgFor(i)
  BY MeaningStays
<1>2. at \in Nat
  BY LenProperties DEF Typed
<1>3. ASSUME NEW i \in DOMAIN slots, NEW a \in ArgFor(i)
      PROVE  (a <= at' <=> a <= at) /\ (a > at' <=> a > at)
  <2>1. a \in Nat /\ (at' = at \/ (at' = at + 1 /\ a # at + 1))
    BY ArgForIs
  <2> QED  BY <1>2, <2>1
<1>4. Filled'
  BY <1>1, <1>3 DEF Filled
<1>5. Counted'
  BY <1>1, CounterStays DEF Counted
<1> QED  BY <1>4, <1>5

(* The argument that a slot waits for fills it and is counted. *)
LEMMA KvFills ==
  ASSUME Typed, Filled, Counted, Regular, NextArg, NEW i \in DOMAIN slots,
         i \in FreeSlots(Arg.key), \A j \in FreeSlots(Arg.key) : i <= j,
         values' = [values EXCEPT ![i] = Arg.value],
         result' = [result EXCEPT ![Counter(i)] = @ + 1]
  PROVE  Filled' /\ Counted'
<1>0. loc' = loc /\ query' = query /\ at' = at + 1
  BY DEF NextArg
<1>1. Regular' = Regular /\ slots' = slots /\ \A j : ArgFor(j)' = ArgFor(j)
  BY <1>0, MeaningStays
<1>2. at \in Nat /\ Arg = query[at + 1] /\ Arg.value \in Value
  BY ArgIs
<1>3. /\ at + 1 \in ArgFor(i) /\ values[i] = NoValue
      /\ \A a \in ArgFor(i) : a = at + 1
      /\ \A j \in DOMAIN slots : j # i => at + 1 \notin ArgFor(j)
  BY FirstFreeIsNext
<1>4. values \in [DOMAIN slots -> Value \cup {NoValue}]
      /\ DOMAIN result = Fields /\ \A f \in Numbers : result[f] \in Nat
  BY DEF Typed
<1>5. values'[i] = Arg.value /\ \A j \in DOMAIN slots : j # i => values'[j] = values[j]
  BY <1>4
<1>6. ASSUME NEW j \in DOMAIN slots
      PROVE  /\ \A a \in ArgFor(j) : a <= at + 1 => values'[j] = query[a].value
             /\ (\A a \in ArgFor(j) : a > at + 1) => values'[j] = NoValue
  <2>1. CASE j = i
    <3>1. ~(at + 1 > at + 1)
      BY <1>2
    <3> QED  BY <1>2, <1>3, <1>5, <2>1, <3>1
  <2>2. CASE j # i
    <3>1. \A a \in ArgFor(j) : (a <= at + 1 <=> a <= at) /\ (a > at + 1 <=> a > at)
      <4>1. \A a \in ArgFor(j) : a \in Nat /\ a # at + 1
        BY <1>3, <2>2, ArgForIs
      <4> QED  BY <1>2, <4>1
    <3>2. /\ \A a \in ArgFor(j) : a <= at => values[j] = query[a].value
          /\ (\A a \in ArgFor(j) : a > at) => values[j] = NoValue
      BY DEF Filled
    <3> QED  BY <1>5, <2>2, <3>1, <3>2
  <2> QED  BY <2>1, <2>2
<1>7. Filled'
  BY <1>0, <1>1, <1>6 DEF Filled
<1>8. ASSUME NEW c \in Counters PROVE result'[c] = Cardinality(GivenTo(c)')
  <2>0. c \in Numbers /\ c \in Fields
    BY DEF Counters, Numbers, Fields
  <2>1. \A j : Counter(j)' = Counter(j)
    BY <1>0, CounterStays
  <2>2. GivenTo(c)' = {j \in DOMAIN slots : values'[j] # NoValue /\ Counter(j) = c}
    BY <1>1, <2>1 DEF GivenTo
  <2>3. result[c] = Cardinality(GivenTo(c))
    BY DEF Counted
  <2>4. Arg.value # NoValue
    BY <1>2, ValueIsSet
  <2>5. CASE Counter(i) = c
    <3>1. GivenTo(c)' = GivenTo(c) \cup {i} /\ i \notin GivenTo(c)
      BY <1>3, <1>5, <2>2, <2>4, <2>5 DEF GivenTo
    <3>2. IsFiniteSet(GivenTo(c))
      <4>1. loc \in Locations
        BY DEF Typed
      <4>2. GivenTo(c) \subseteq 1..Len(slots) /\ Len(slots) \in Nat
        BY <4>1, SlotFacts DEF GivenTo
      <4>3. IsFiniteSet(1..Len(slots))
        BY <4>2, FS_Interval
      <4> QED  BY <4>2, <4>3, FS_Subset
    <3>3. Cardinality(GivenTo(c) \cup {i}) = Cardinality(GivenTo(c)) + 1
      BY <3>1, <3>2, FS_AddElement
    <3>4. result'[c] = result[c] + 1
      BY <1>4, <2>0, <2>5
    <3> QED  BY <2>3, <3>1, <3>3, <3>4
  <2>6. CASE Counter(i) # c
    <3>1. GivenTo(c)' = GivenTo(c)
      BY <1>5, <2>2, <2>6 DEF GivenTo
    <3>2. result'[c] = result[c]
      BY <1>4, <2>0, <2>6
    <3> QED  BY <2>3, <3>1, <3>2
  <2> QED  BY <2>5, <2>6
<1>9. Counted'
  BY <1>8 DEF Counted
<1> QED  BY <1>7, <1>9

(* Every turn of the loops keeps the slots and their counts. *)
LEMMA StepFilled == Typed /\ Filled /\ Counted /\ [Next]_vars => Filled' /\ Counted'
<1> SUFFICES ASSUME Typed, Filled, Counted, [Next]_vars PROVE Filled' /\ Counted'
  OBVIOUS
<1>1. CASE PrepareEnd \/ Bind \/ BindEnd \/ Fail \/ UNCHANGED vars
  <2>1. /\ loc' = loc /\ query' = query /\ at' = at /\ result' = result
        /\ values' = values
    BY <1>1 DEF PrepareEnd, Bind, BindEnd, Fail, vars
  <2> QED  BY <2>1, FilledStays
<1>2. CASE ~Regular /\ (PrepareSpecial \/ PrepareKv \/ SkipArg)
  <2>1. loc' = loc /\ query' = query
    BY <1>2 DEF PrepareSpecial, PrepareKv, SkipArg, NextArg
  <2>2. ~Regular'
    BY <1>2, <2>1, MeaningStays
  <2> QED  BY <2>2 DEF Filled, Counted
<1>3. CASE Regular /\ PrepareSpecial
  <2>1. /\ NextArg /\ loc' = loc /\ query' = query /\ at' = at + 1 /\ values' = values
        /\ Arg.key # ""
    BY <1>3 DEF PrepareSpecial, NextArg
  <2>2. PICK s \in expects : s \in Specials /\ Arg.key = SpecialName(loc, s) /\ Takes(s)
    BY <1>3, SpecialTaken
  <2>3. SlotsNamed(Arg.key) = {}
    BY <1>3, <2>1, <2>2 DEF Regular, OwnNames
  <2>4. ASSUME NEW i \in DOMAIN slots PROVE at + 1 \notin ArgFor(i)
    BY <2>1, <2>3, ArgForIs, ArgIs
  <2>5. ASSUME NEW c \in Counters PROVE result'[c] = result[c]
    <3>1. c \in Fields /\ c # "limit" /\ DOMAIN result = Fields
      BY DEF Counters, Fields, Typed
    <3>2. Field(s) # c
      BY SpecialsAre, FieldOf, <2>2 DEF Counters
    <3> QED  BY <2>2, <3>1, <3>2 DEF Takes
  <2> QED  BY <2>1, <2>4, <2>5, FilledStays
<1>4. CASE Regular /\ PrepareKv
  <2>1. NextArg /\ loc' = loc /\ query' = query /\ at' = at + 1
    BY <1>4 DEF PrepareKv, NextArg
  <2>2. CASE FreeSlots(Arg.key) = {} /\ values' = values /\ result' = result
    <3>1. \A i \in DOMAIN slots : at + 1 \notin ArgFor(i)
      BY <1>4, <2>1, <2>2, FirstFreeIsNext
    <3> QED  BY <2>1, <2>2, <3>1, FilledStays
  <2>3. CASE \E i \in DOMAIN slots :
               /\ i \in FreeSlots(Arg.key) /\ \A j \in FreeSlots(Arg.key) : i <= j
               /\ values' = [values EXCEPT ![i] = Arg.value]
               /\ result' = [result EXCEPT ![Counter(i)] = @ + 1]
    BY <1>4, <2>1, <2>3, KvFills
  <2> QED  BY <1>4, <2>2, <2>3, KvTaken
<1>5. CASE Regular /\ SkipArg
  <2>1. /\ NextArg /\ loc' = loc /\ query' = query /\ at' = at + 1 /\ values' = values
        /\ result' = result /\ Arg.key = ""
    BY <1>5 DEF SkipArg, NextArg
  <2>2. loc \in Locations
    BY DEF Typed
  <2>3. ASSUME NEW i \in DOMAIN slots PROVE at + 1 \notin ArgFor(i)
    <3>1. query[at + 1].key = ""
      BY <2>1, ArgIs
    <3>2. \A a \in ArgFor(i) : query[a].key = slots[i].name
      BY ArgForIs
    <3>3. slots[i].name # ""
      BY <2>2, SlotFacts
    <3> QED  BY <3>1, <3>2, <3>3
  <2> QED  BY <2>1, <2>3, FilledStays
<1> QED  BY <1>1, <1>2, <1>3, <1>4, <1>5 DEF Next

(* At the end of the arguments every slot has the value meant for it. *)
LEMMA FilledIsMeant ==
  ASSUME Typed, Filled, Regular, at = Len(query)
  PROVE  \A i \in DOMAIN slots : values[i] = MeantValue(i)
<1> SUFFICES ASSUME NEW i \in DOMAIN slots PROVE values[i] = MeantValue(i)
  OBVIOUS
<1>1. ASSUME NEW a \in ArgFor(i) PROVE a <= at
  <2>1. a \in DOMAIN query
    BY ArgForIs
  <2>2. DOMAIN query = 1..Len(query) /\ Len(query) \in Nat
    BY LenProperties DEF Typed
  <2> QED  BY <2>1, <2>2
<1>2. CASE ArgFor(i) = {}
  BY <1>2 DEF Filled, MeantValue
<1>3. CASE ArgFor(i) # {}
  <2>1. ArgFor(i) \in SUBSET Nat
    BY ArgForIs
  <2>2. First(ArgFor(i)) \in ArgFor(i)
    BY <1>3, <2>1, FirstIsLeast
  <2>3. values[i] = query[First(ArgFor(i))].value
    BY <1>1, <2>2 DEF Filled
  <2> QED  BY <1>3, <2>3 DEF MeantValue
<1> QED  BY <1>2, <1>3

-----------------------------------------------------------------------------
(* What stands in a request's body. *)
Item == ({"array", "ops"} \X Nat) \cup ({"op", "value"} \X Value)

(* What some of the values are written as, up to each. *)
IsWriting(w, vals, set, op) ==
  /\ w[0] = <<>>
  /\ \A n \in 1..Len(vals) :
       w[n] = w[n - 1] \o (IF n \in set THEN Part(vals[n], op) ELSE <<>>)
  /\ \A n \in 0..Len(vals) : w[n] \in Seq(Item)
  /\ \A n \in 1..Len(vals) : n \in set => Part(vals[n], op) \in Seq(Item)

(* Writing some of the slots is a loop over all of them. *)
LEMMA WrittenLoop ==
  ASSUME NEW vals \in Seq(Value \cup {NoValue}), NEW set, NEW op \in BOOLEAN,
         \A i \in set : vals[i] # NoValue
  PROVE  IsWriting(Written(vals, set, op), vals, set, op)
<1> DEFINE N == Len(vals)
           D == Seq(Item)
           Piece(n) == IF n \in set THEN Part(vals[n], op) ELSE <<>>
           step == [n \in 1..N |-> [d \in D |-> d \o Piece(n)]]
           Body(g) == [n \in 0..N |->
                         IF n = 0 THEN <<>>
                         ELSE g[n - 1] \o (IF n \in set THEN Part(vals[n], op) ELSE <<>>)]
           upto == CHOOSE g : g = Body(g)
<1>1. Written(vals, set, op) = upto
  BY DEF Written
<1>2. N \in Nat /\ \A n \in 1..N : vals[n] \in Value \cup {NoValue}
  BY LenProperties, ElementOfSeq
<1>3. <<>> \in D
  BY EmptySeq
<1>4. ASSUME NEW n \in 1..N PROVE Piece(n) \in D
  <2>1. CASE n \in set
    <3>1. vals[n] \in Value
      BY <1>2, <2>1
    <3>2. <<"op", vals[n]>> \in Item /\ <<"value", vals[n]>> \in Item
      BY <3>1 DEF Item
    <3>3. << <<"op", vals[n]>> >> \in D /\ << <<"value", vals[n]>> >> \in D
      BY <3>2
    <3>4. (IF op THEN << <<"op", vals[n]>> >> ELSE <<>>) \in D
      BY <1>3, <3>3
    <3>5. Part(vals[n], op) \in D
      <4> HIDE DEF D
      <4>1. (IF op THEN << <<"op", vals[n]>> >> ELSE <<>>) \o << <<"value", vals[n]>> >> \in D
        BY <3>3, <3>4, ConcatProperties DEF D
      <4> QED  BY <4>1 DEF Part
    <3> QED  BY <2>1, <3>5
  <2>2. CASE n \notin set
    BY <1>3, <2>2
  <2> QED  BY <2>1, <2>2
<1> HIDE DEF N, D, Piece
<1>5. \A n \in 1..N : \A d \in D : step[n][d] = d \o Piece(n) /\ step[n][d] \in D
  BY <1>4, ConcatProperties DEF D
<1>6. PICK f \in [0..N -> D] : IsRun(f, <<>>, step, N)
  <2> HIDE DEF step
  <2>1. StaysIn(D, step, N)
    BY <1>5 DEF StaysIn
  <2> QED  BY <1>2, <1>3, <2>1, Recursion
<1>7. f[0] = <<>> /\ \A n \in 1..N : f[n] = f[n - 1] \o Piece(n)
  <2> HIDE DEF step
  <2>1. \A n \in 1..N : n - 1 \in 0..N
    BY <1>2
  <2> QED  BY <1>5, <1>6, <2>1 DEF IsRun
<1>8. f = Body(f)
  <2>1. \A n \in 0..N : n # 0 => n \in 1..N
    BY <1>2
  <2> QED  BY <1>7, <2>1 DEF Piece
<1>9. upto = Body(upto)
  <2> HIDE DEF Body
  <2> QED  BY <1>8
<1> HIDE DEF upto
<1>10. 0 \in 0..N /\ \A n \in 1..N : n \in 0..N /\ n # 0
  BY <1>2
<1>11. upto[0] = <<>>
  BY <1>9, <1>10
<1>12. ASSUME NEW n \in 1..N PROVE upto[n] = upto[n - 1] \o Piece(n)
  BY <1>9, <1>10 DEF Piece
<1> HIDE DEF Body
<1> DEFINE S == {n \in Nat : n <= N => upto[n] \in D}
<1>13. 0 \in S
  BY <1>3, <1>11
<1>14. ASSUME NEW n \in Nat, n \in S PROVE n + 1 \in S
  <2> SUFFICES ASSUME n + 1 <= N PROVE upto[n + 1] \in D
    OBVIOUS
  <2>1. n + 1 \in 1..N /\ n + 1 - 1 = n /\ n <= N
    BY <1>2
  <2>2. upto[n] \in D
    BY <1>14, <2>1
  <2>3. upto[n + 1] = upto[n] \o Piece(n + 1) /\ Piece(n + 1) \in D
    <3>1. PICK m \in 1..N : m = n + 1
      BY <2>1
    <3>4. upto[m] = upto[m - 1] \o Piece(m)
      BY <1>12
    <3>3. m - 1 = n
      BY <3>1
    <3>2. Piece(n + 1) \in D
      BY <1>4, <2>1
    <3> QED  BY <3>1, <3>2, <3>3, <3>4
  <2> QED  BY <2>2, <2>3, ConcatProperties DEF D
<1> HIDE DEF S
<1>15. Nat \subseteq S
  BY <1>13, <1>14, Induction
<1>16. \A n \in 0..N : upto[n] \in D
  <2>1. \A n \in 0..N : n \in Nat /\ n <= N
    BY <1>2
  <2> QED  BY <1>15, <2>1 DEF S
<1>17. \A n \in 1..N : n \in set => Part(vals[n], op) \in D
  BY <1>4 DEF Piece
<1> QED  BY <1>1, <1>11, <1>12, <1>16, <1>17 DEF N, D, Piece, IsWriting

(* The values meant for the slots, and one kind of them as written up to a *)
(* slot.                                                                   *)
Meanings == [i \in DOMAIN slots |-> MeantValue(i)]
W(op) == Written(Meanings, MeantSlots(op), op)

(* A slot with a meaning is one of two kinds. *)
LEMMA MeantSlotsAre ==
  ASSUME NEW i \in DOMAIN slots
  PROVE  /\ i \in MeantSlots(TRUE) <=> MeantValue(i) # NoValue /\ IsOpSlot(i)
         /\ i \in MeantSlots(FALSE) <=> MeantValue(i) # NoValue /\ ~IsOpSlot(i)
<1>1. IsOpSlot(i) \in BOOLEAN
  BY DEF IsOpSlot, is_key, is_op
<1>2. (IsOpSlot(i) = TRUE <=> IsOpSlot(i)) /\ (IsOpSlot(i) = FALSE <=> ~IsOpSlot(i))
  BY <1>1, Zenon
<1> HIDE DEF IsOpSlot
<1> QED  BY <1>2, Zenon DEF MeantSlots

(* A value that is meant is one of the query's. *)
LEMMA MeaningsAre ==
  ASSUME Typed
  PROVE  /\ Meanings \in Seq(Value \cup {NoValue}) /\ Len(Meanings) = Len(slots)
         /\ \A i \in DOMAIN slots : Meanings[i] = MeantValue(i)
         /\ \A b \in BOOLEAN : \A i \in MeantSlots(b) : i \in DOMAIN slots /\ Meanings[i] # NoValue
<1>1. loc \in Locations /\ query \in Seq(Argument)
  BY DEF Typed
<1>2. DOMAIN slots = 1..Len(slots) /\ Len(slots) \in Nat
  BY <1>1, SlotFacts
<1>3. ASSUME NEW i \in DOMAIN slots PROVE MeantValue(i) \in Value \cup {NoValue}
  <2>1. CASE ArgFor(i) = {}
    BY <2>1 DEF MeantValue
  <2>2. CASE ArgFor(i) # {}
    <3>1. ArgFor(i) \in SUBSET Nat /\ \A a \in ArgFor(i) : a \in DOMAIN query
      BY ArgForIs
    <3>2. First(ArgFor(i)) \in DOMAIN query
      BY <2>2, <3>1, FirstIsLeast
    <3> QED  BY <1>1, <2>2, <3>2, ArgumentHas DEF MeantValue
  <2> QED  BY <2>1, <2>2
<1>4. Meanings \in [1..Len(slots) -> Value \cup {NoValue}]
  BY <1>2, <1>3 DEF Meanings
<1>5. Meanings \in Seq(Value \cup {NoValue})
  BY <1>2, <1>4, SeqDef
<1>6. Len(Meanings) = Len(slots)
  <2>1. DOMAIN Meanings = 1..Len(Meanings) /\ Len(Meanings) \in Nat
    BY <1>5, LenProperties
  <2>2. 1..Len(Meanings) = 1..Len(slots)
    BY <1>4, <2>1
  <2> QED  BY <1>2, <2>1, <2>2, IntervalEnd
<1>7. \A i \in DOMAIN slots : Meanings[i] = MeantValue(i)
  BY DEF Meanings
<1>8. \A b \in BOOLEAN : \A i \in MeantSlots(b) : i \in DOMAIN slots /\ Meanings[i] # NoValue
  BY <1>7 DEF MeantSlots
<1> QED  BY <1>5, <1>6, <1>7, <1>8

(* How the fields and the operations grow by a slot. *)
LEMMA WrittenNext ==
  ASSUME Typed, NEW op \in BOOLEAN
  PROVE  /\ W(op)[0] = <<>>
         /\ \A n \in 1..Len(slots) :
              W(op)[n] = IF n \in MeantSlots(op) THEN W(op)[n - 1] \o Part(MeantValue(n), op)
                         ELSE W(op)[n - 1]
         /\ \A n \in 0..Len(slots) : W(op)[n] \in Seq(Item)
         /\ \A n \in 1..Len(slots) :
              n \in MeantSlots(op) => Part(MeantValue(n), op) \in Seq(Item)
<1>1. /\ Meanings \in Seq(Value \cup {NoValue}) /\ Len(Meanings) = Len(slots)
      /\ \A i \in DOMAIN slots : Meanings[i] = MeantValue(i)
      /\ \A i \in MeantSlots(op) : Meanings[i] # NoValue
  BY MeaningsAre
<1>2. loc \in Locations
  BY DEF Typed
<1>3. DOMAIN slots = 1..Len(slots) /\ Len(slots) \in Nat
  BY <1>2, SlotFacts
<1>4. /\ W(op)[0] = <<>>
      /\ \A n \in 1..Len(slots) :
           W(op)[n] = W(op)[n - 1]
                \o (IF n \in MeantSlots(op) THEN Part(Meanings[n], op) ELSE <<>>)
      /\ \A n \in 0..Len(slots) : W(op)[n] \in Seq(Item)
      /\ \A n \in 1..Len(slots) : n \in MeantSlots(op) => Part(Meanings[n], op) \in Seq(Item)
  <2> DEFINE set == MeantSlots(op)
  <2>1. \A i \in set : Meanings[i] # NoValue
    BY <1>1
  <2>2. W(op) = Written(Meanings, set, op)
    BY DEF W
  <2> HIDE DEF set
  <2>3. IsWriting(W(op), Meanings, set, op)
    BY <1>1, <2>1, <2>2, WrittenLoop
  <2> HIDE DEF W
  <2> QED  BY <1>1, <2>3 DEF set, IsWriting
<1>5. ASSUME NEW n \in 1..Len(slots)
      PROVE  W(op)[n] = IF n \in MeantSlots(op) THEN W(op)[n - 1] \o Part(MeantValue(n), op)
                         ELSE W(op)[n - 1]
  <2>1. Meanings[n] = MeantValue(n)
    BY <1>1, <1>3
  <2>2. n - 1 \in 0..Len(slots)
    BY <1>3
  <2>3. W(op)[n - 1] \o <<>> = W(op)[n - 1]
    BY <1>4, <2>2, ConcatEmptySeq
  <2> QED  BY <1>4, <2>1, <2>3
<1>6. ASSUME NEW n \in 1..Len(slots), n \in MeantSlots(op)
      PROVE  Part(MeantValue(n), op) \in Seq(Item)
  BY <1>1, <1>3, <1>4, <1>6
<1> QED  BY <1>4, <1>5, <1>6

-----------------------------------------------------------------------------
(* The body so far: the header with the fields up to the slot, then the    *)
(* operations up to it.                                                    *)
Begins(b) == \E j \in MeantSlots(TRUE) : j <= b
OpsHeader == IF begun THEN << <<"ops", OpsCount>> >> ELSE <<>>
Composed ==
  pc \in {"bind", "done"} /\ Regular =>
    /\ begun <=> Begins(bound)
    /\ ~begun => W(TRUE)[bound] = <<>>
    /\ msg = ((HeadArray \o W(FALSE)[bound]) \o OpsHeader) \o W(TRUE)[bound]

(* Where the loops are. *)
Loops ==
  /\ pc = "prepare" => bound = 0 /\ begun = FALSE
  /\ pc \in {"bind", "done"} => at = Len(query)
  /\ pc = "done" => bound = Len(slots)

(* In a regular request the fields come before the operations, and a slot  *)
(* is counted as what it is.                                               *)
LEMMA KindsInOrder ==
  ASSUME Typed, Regular
  PROVE  /\ \A i, j \in DOMAIN slots : i < j /\ IsOpSlot(i) => IsOpSlot(j)
         /\ loc.req_type = "update" =>
              \A i \in DOMAIN slots :
                /\ IsOpSlot(i) <=> ~is_key(slots[i])
                /\ Counter(i) = IF IsOpSlot(i) THEN "tuples_count" ELSE "update_keys_count"
         /\ loc.req_type # "update" =>
              \A i \in DOMAIN slots :
                /\ IsOpSlot(i) <=> is_op(slots[i])
                /\ IsOpSlot(i) => loc.req_type = "upsert"
                /\ Counter(i) = IF IsOpSlot(i) THEN "upsert_tuples_count" ELSE "tuples_count"
<1>1. loc \in Locations
  BY DEF Typed
<1>2. \A i \in DOMAIN slots :
        /\ is_key(slots[i]) <=> slots[i].type \in KeyTypes
        /\ is_op(slots[i]) <=> slots[i].type \in OpTypes
  BY DEF Regular, is_key, is_op
<1>3. /\ \A i \in DOMAIN slots :
              /\ slots[i].type \in KeyTypes => loc.req_type = "update"
              /\ slots[i].type \in OpTypes => loc.req_type = "upsert"
      /\ \A i, j \in DOMAIN slots :
              i < j => /\ slots[j].type \in KeyTypes => slots[i].type \in KeyTypes
                       /\ slots[i].type \in OpTypes => slots[j].type \in OpTypes
  BY <1>1, SlotFacts
<1>4. CASE loc.req_type = "update"
  <2>1. \A i \in DOMAIN slots : IsOpSlot(i) <=> ~is_key(slots[i])
    BY <1>4 DEF IsOpSlot
  <2>2. \A i, j \in DOMAIN slots : i < j /\ IsOpSlot(i) => IsOpSlot(j)
    BY <1>2, <1>3, <2>1
  <2>3. \A i \in DOMAIN slots : ~is_op(slots[i])
    BY <1>2, <1>3, <1>4
  <2>4. \A i \in DOMAIN slots :
          Counter(i) = IF IsOpSlot(i) THEN "tuples_count" ELSE "update_keys_count"
    BY <2>1, <2>3 DEF Counter
  <2> QED  BY <1>4, <2>1, <2>2, <2>4
<1>5. CASE loc.req_type # "update"
  <2>1. \A i \in DOMAIN slots : IsOpSlot(i) <=> is_op(slots[i])
    BY <1>5 DEF IsOpSlot
  <2>2. \A i, j \in DOMAIN slots : i < j /\ IsOpSlot(i) => IsOpSlot(j)
    BY <1>2, <1>3, <2>1
  <2>3. \A i \in DOMAIN slots : ~is_key(slots[i])
    BY <1>2, <1>3, <1>5
  <2>4. \A i \in DOMAIN slots :
          Counter(i) = IF IsOpSlot(i) THEN "upsert_tuples_count" ELSE "tuples_count"
    BY <2>1, <2>3 DEF Counter
  <2>5. \A i \in DOMAIN slots : IsOpSlot(i) => loc.req_type = "upsert"
    BY <1>2, <1>3, <2>1
  <2> QED  BY <1>5, <2>1, <2>2, <2>4, <2>5
<1> QED  BY <1>4, <1>5

(* At the end of the arguments the counts are those of the fields and of   *)
(* the operations that are meant.                                          *)
LEMMA CountsAreMeant ==
  ASSUME Typed, Filled, Counted, Regular, at = Len(query)
  PROVE  /\ HeadArray = << <<"array", Cardinality(MeantSlots(FALSE))>> >>
         /\ MeantSlots(TRUE) # {} => OpsCount = Cardinality(MeantSlots(TRUE))
<1>1. \A i \in DOMAIN slots : values[i] = MeantValue(i)
  BY FilledIsMeant
<1>2. \A i \in DOMAIN slots :
        /\ i \in MeantSlots(TRUE) <=> MeantValue(i) # NoValue /\ IsOpSlot(i)
        /\ i \in MeantSlots(FALSE) <=> MeantValue(i) # NoValue /\ ~IsOpSlot(i)
  BY MeantSlotsAre
<1>3. /\ \A b : MeantSlots(b) \subseteq DOMAIN slots
      /\ \A c : GivenTo(c) \subseteq DOMAIN slots
  BY DEF MeantSlots, GivenTo
<1>4. \A c : \A i \in DOMAIN slots :
        i \in GivenTo(c) <=> MeantValue(i) # NoValue /\ Counter(i) = c
  BY <1>1 DEF GivenTo
<1>5. \A c \in Counters : result[c] = Cardinality(GivenTo(c))
  BY DEF Counted
<1>6. CASE loc.req_type = "update"
  <2>1. \A i \in DOMAIN slots :
          Counter(i) = IF IsOpSlot(i) THEN "tuples_count" ELSE "update_keys_count"
    BY <1>6, KindsInOrder
  <2>2. GivenTo("update_keys_count") = MeantSlots(FALSE)
    BY <1>2, <1>3, <1>4, <2>1
  <2>3. GivenTo("tuples_count") = MeantSlots(TRUE)
    <3>1. \A i \in DOMAIN slots : i \in GivenTo("tuples_count") <=> i \in MeantSlots(TRUE)
      BY <1>2, <1>4, <2>1
    <3>2. GivenTo("tuples_count") \subseteq DOMAIN slots /\ MeantSlots(TRUE) \subseteq DOMAIN slots
      BY <1>3
    <3> QED  BY <3>1, <3>2
  <2>4. result["update_keys_count"] = Cardinality(MeantSlots(FALSE))
        /\ result["tuples_count"] = Cardinality(MeantSlots(TRUE))
    BY <1>5, <2>2, <2>3 DEF Counters
  <2> QED  BY <1>6, <2>4 DEF HeadArray, OpsCount
<1>7. CASE loc.req_type # "update"
  <2>1. \A i \in DOMAIN slots :
          Counter(i) = IF IsOpSlot(i) THEN "upsert_tuples_count" ELSE "tuples_count"
    BY <1>7, KindsInOrder
  <2>2. GivenTo("tuples_count") = MeantSlots(FALSE)
    BY <1>2, <1>3, <1>4, <2>1
  <2>3. GivenTo("upsert_tuples_count") = MeantSlots(TRUE)
    <3>1. \A i \in DOMAIN slots : i \in GivenTo("upsert_tuples_count") <=> i \in MeantSlots(TRUE)
      BY <1>2, <1>4, <2>1
    <3>2. GivenTo("upsert_tuples_count") \subseteq DOMAIN slots /\ MeantSlots(TRUE) \subseteq DOMAIN slots
      BY <1>3
    <3> QED  BY <3>1, <3>2
  <2>4. result["tuples_count"] = Cardinality(MeantSlots(FALSE))
        /\ result["upsert_tuples_count"] = Cardinality(MeantSlots(TRUE))
    BY <1>5, <2>2, <2>3 DEF Counters
  <2> QED  BY <1>7, <2>4 DEF HeadArray, OpsCount
<1> QED  BY <1>6, <1>7

(* The slot that is written next is written as what it is. *)
LEMMA WrittenAsMeant ==
  ASSUME Typed, Regular, Composed, pc = "bind", bound < Len(slots)
  PROVE  LET i == bound + 1
         IN  /\ i \in 1..Len(slots) /\ i \in DOMAIN slots /\ i - 1 = bound
             /\ bound \in 0..Len(slots) /\ i \in 0..Len(slots)
             /\ IsOperation(i) <=> IsOpSlot(i)
             /\ begun => IsOpSlot(i)
<1> DEFINE i == bound + 1
<1>1. loc \in Locations /\ bound \in 0..Len(slots)
  BY DEF Typed
<1>2. Len(slots) \in Nat /\ DOMAIN slots = 1..Len(slots)
  BY <1>1, SlotFacts
<1>3. i \in 1..Len(slots) /\ i \in DOMAIN slots /\ i - 1 = bound /\ i \in 0..Len(slots)
  BY <1>1, <1>2
<1>4. begun => IsOpSlot(i)
  <2> SUFFICES ASSUME begun PROVE IsOpSlot(i)
    OBVIOUS
  <2>1. PICK j \in MeantSlots(TRUE) : j <= bound
    BY DEF Composed, Begins
  <2>2. j \in DOMAIN slots /\ IsOpSlot(j)
    <3>1. j \in DOMAIN slots
      BY DEF MeantSlots
    <3> QED  BY <3>1, MeantSlotsAre
  <2>3. j < i
    BY <1>1, <1>2, <2>1, <2>2
  <2> HIDE DEF i
  <2> QED  BY <1>3, <2>2, <2>3, KindsInOrder
<1> HIDE DEF i
<1>5. IsOperation(i) <=> IsOpSlot(i)
  <2>1. CASE loc.req_type = "update"
    <3>1. IsOpSlot(i) <=> ~is_key(slots[i])
      BY <1>3, <2>1, KindsInOrder
    <3>2. IsOperation(i) <=> (begun \/ ~is_key(slots[i]))
      BY <2>1 DEF IsOperation
    <3> QED  BY <1>4, <3>1, <3>2
  <2>2. CASE loc.req_type = "upsert"
    <3>1. IsOpSlot(i) <=> is_op(slots[i])
      BY <1>3, <2>2, KindsInOrder
    <3>2. IsOperation(i) <=> is_op(slots[i])
      BY <2>2 DEF IsOperation
    <3> QED  BY <3>1, <3>2
  <2>3. CASE loc.req_type \notin {"update", "upsert"}
    <3>1. ~IsOpSlot(i)
      BY <1>3, <2>3, KindsInOrder
    <3>2. ~IsOperation(i)
      BY <2>3 DEF IsOperation
    <3> QED  BY <3>1, <3>2
  <2> QED  BY <2>1, <2>2, <2>3
<1> QED  BY <1>1, <1>3, <1>4, <1>5 DEF i

(* How three parts of a body are joined does not matter. *)
Joins(s, t, u) == (s \o t) \o u = s \o (t \o u)

(* The association of three parts, with their set left open. *)
LEMMA PartsJoin == \A T : \A s, t, u \in Seq(T) : Joins(s, t, u)
BY ConcatAssociative DEF Joins

(* A body that has neither the operations' header nor operations. *)
LEMMA PartsEnd ==
  ASSUME NEW T, NEW h \in Seq(T), NEW f \in Seq(T)
  PROVE  ((h \o f) \o <<>>) \o <<>> = h \o f
<1>1. h \o f \in Seq(T)
  BY ConcatProperties
<1> QED  BY <1>1, ConcatEmptySeq

(* The parts of the body are sequences of items. *)
LEMMA BodyTypes ==
  ASSUME Typed
  PROVE  HeadArray \in Seq(Item) /\ OpsHeader \in Seq(Item)
<1>1. result.update_keys_count \in Nat /\ result.tuples_count \in Nat
      /\ result.upsert_tuples_count \in Nat
  BY DEF Typed, Numbers, Fields
<1>2. \A n \in Nat : <<"array", n>> \in Item /\ <<"ops", n>> \in Item
  BY DEF Item
<1>3. HeadArray \in Seq(Item)
  <2>1. (IF loc.req_type = "update" THEN result.update_keys_count
                ELSE result.tuples_count) \in Nat
    BY <1>1
  <2> DEFINE n == IF loc.req_type = "update" THEN result.update_keys_count
                  ELSE result.tuples_count
  <2>2. HeadArray = << <<"array", n>> >>
    BY DEF HeadArray
  <2> HIDE DEF n
  <2>3. n \in Nat
    BY <2>1 DEF n
  <2>4. <<"array", n>> \in Item
    BY <1>2, <2>3
  <2> QED  BY <2>2, <2>4
<1>4. OpsCount \in Nat
  BY <1>1 DEF OpsCount
<1>5. OpsHeader \in Seq(Item)
  <2>1. <<"ops", OpsCount>> \in Item
    BY <1>2, <1>4
  <2>2. << <<"ops", OpsCount>> >> \in Seq(Item)
    BY <2>1
  <2> QED  BY <2>2, EmptySeq DEF OpsHeader
<1> QED  BY <1>3, <1>5

(* What is written of the meaning does not change either. *)
LEMMA BodyStays ==
  ASSUME loc' = loc, query' = query
  PROVE  /\ \A op : W(op)' = W(op)
         /\ \A b : Begins(b)' = Begins(b)
         /\ result' = result => HeadArray' = HeadArray /\ OpsCount' = OpsCount
<1>1. /\ slots' = slots /\ \A i : MeantValue(i)' = MeantValue(i)
      /\ \A b : MeantSlots(b)' = MeantSlots(b)
  BY MeaningStays
<1>2. Meanings' = Meanings
  BY <1>1 DEF Meanings
<1>3. \A op : W(op)' = W(op)
  BY <1>1, <1>2 DEF W
<1>4. \A b : Begins(b)' = Begins(b)
  BY <1>1 DEF Begins
<1> QED  BY <1>3, <1>4 DEF HeadArray, OpsCount

(* A slot that is written keeps the body as it should be. *)
LEMMA BindKeepsComposed ==
  ASSUME Typed, Filled, Loops, Composed, Bind, pc' = "bind", Regular
  PROVE  Composed'
<1> DEFINE i == bound + 1
           v == MeantValue(i)
<1>1. /\ loc' = loc /\ query' = query /\ result' = result /\ bound' = i /\ pc = "bind"
      /\ bound < Len(slots) /\ at = Len(query)
  BY DEF Bind, Loops
<1>2. /\ i \in 1..Len(slots) /\ i \in DOMAIN slots /\ i - 1 = bound
      /\ bound \in 0..Len(slots) /\ i \in 0..Len(slots)
      /\ IsOperation(i) <=> IsOpSlot(i)
      /\ begun => IsOpSlot(i)
  BY <1>1, WrittenAsMeant
<1>3. values[i] = v
  BY <1>1, <1>2, FilledIsMeant
<1>4. /\ begun <=> Begins(bound)
      /\ ~begun => W(TRUE)[bound] = <<>>
      /\ msg = ((HeadArray \o W(FALSE)[bound]) \o OpsHeader) \o W(TRUE)[bound]
  BY <1>1 DEF Composed
<1>5. /\ W(TRUE)[i] = IF i \in MeantSlots(TRUE) THEN W(TRUE)[bound] \o Part(v, TRUE)
                      ELSE W(TRUE)[bound]
      /\ W(FALSE)[i] = IF i \in MeantSlots(FALSE) THEN W(FALSE)[bound] \o Part(v, FALSE)
                       ELSE W(FALSE)[bound]
      /\ W(TRUE)[bound] \in Seq(Item) /\ W(FALSE)[bound] \in Seq(Item)
      /\ i \in MeantSlots(TRUE) => Part(v, TRUE) \in Seq(Item)
      /\ i \in MeantSlots(FALSE) => Part(v, FALSE) \in Seq(Item)
  BY <1>2, WrittenNext
<1>6. /\ i \in MeantSlots(TRUE) <=> v # NoValue /\ IsOpSlot(i)
      /\ i \in MeantSlots(FALSE) <=> v # NoValue /\ ~IsOpSlot(i)
  BY <1>2, MeantSlotsAre
<1>7. Begins(i) <=> Begins(bound) \/ i \in MeantSlots(TRUE)
  <2>1. MeantSlots(TRUE) \subseteq DOMAIN slots
    BY DEF MeantSlots
  <2>2. loc \in Locations
    BY DEF Typed
  <2>3. DOMAIN slots = 1..Len(slots) /\ Len(slots) \in Nat
    BY <2>2, SlotFacts
  <2>4. \A j \in MeantSlots(TRUE) : j <= i <=> j <= bound \/ j = i
    <3>1. bound \in Nat
      BY <1>2, <2>3
    <3>2. \A j \in 1..Len(slots) : j <= bound + 1 <=> j <= bound \/ j = bound + 1
      BY <2>3, <3>1
    <3> QED  BY <2>1, <2>3, <3>2
  <2> HIDE DEF i
  <2>5. i <= i
    BY <1>2, <2>3
  <2> QED  BY <2>4, <2>5 DEF Begins
<1>8. /\ \A op : W(op)' = W(op)
      /\ Begins(bound)' = Begins(bound')
      /\ HeadArray' = HeadArray /\ OpsCount' = OpsCount
  <2>1. \A b : Begins(b)' = Begins(b)
    BY <1>1, BodyStays
  <2>2. Begins(bound)' = Begins(bound')
    <3>1. MeantSlots(TRUE)' = MeantSlots(TRUE)
      BY <1>1, MeaningStays
    <3> QED  BY <3>1 DEF Begins
  <2> QED  BY <1>1, <2>2, BodyStays
<1>9. HeadArray \in Seq(Item) /\ OpsHeader \in Seq(Item)
      /\ << <<"ops", OpsCount>> >> \in Seq(Item)
  <2>1. << <<"ops", OpsCount>> >> \in Seq(Item)
    <3>1. result.tuples_count \in Nat /\ result.upsert_tuples_count \in Nat
      BY DEF Typed, Numbers, Fields
    <3>2. OpsCount \in Nat
      BY <3>1 DEF OpsCount
    <3> QED  BY <3>2 DEF Item
  <2> QED  BY <2>1, BodyTypes
<1>10. SUFFICES
         /\ begun' <=> Begins(i)
         /\ ~begun' => W(TRUE)[i] = <<>>
         /\ msg' = ((HeadArray \o W(FALSE)[i])
                      \o (IF begun' THEN << <<"ops", OpsCount>> >> ELSE <<>>)) \o W(TRUE)[i]
  <2> HIDE DEF i
  <2>1. OpsHeader' = IF begun' THEN << <<"ops", OpsCount>> >> ELSE <<>>
    BY <1>8 DEF OpsHeader
  <2> QED  BY <1>1, <1>8, <2>1 DEF Composed
<1> HIDE DEF i, v
<1> DEFINE H == HeadArray
           F == W(FALSE)[bound]
           P == W(TRUE)[bound]
           O == << <<"ops", OpsCount>> >>
<1>11. H \in Seq(Item) /\ F \in Seq(Item) /\ P \in Seq(Item) /\ O \in Seq(Item)
       /\ <<>> \in Seq(Item)
  BY <1>5, <1>9, EmptySeq
<1>12. CASE v = NoValue
  <2>1. msg' = msg /\ begun' = begun
    BY <1>3, <1>12 DEF Bind, i
  <2>2. W(TRUE)[i] = P /\ W(FALSE)[i] = F /\ (Begins(i) <=> Begins(bound))
    BY <1>5, <1>6, <1>7, <1>12
  <2> HIDE DEF W, Begins, OpsCount, HeadArray
  <2> QED  BY <1>4, <2>1, <2>2 DEF OpsHeader
<1>13. CASE v # NoValue
  <2>1. /\ msg' = msg
                   \o (IF IsOperation(i) /\ ~begun THEN << <<"ops", OpsCount>> >> ELSE <<>>)
                   \o (IF IsOperation(i) THEN << <<"op", v>> >> ELSE <<>>)
                   \o << <<"value", v>> >>
        /\ begun' = (begun \/ IsOperation(i))
    <3>1. Fits(slots[i], v, IsOperation(i))
      BY <1>1, <1>3, <1>13 DEF Bind, i
    <3> QED  BY <1>1, <1>3, <1>13, <3>1 DEF Bind, i
  <2>2. CASE ~IsOpSlot(i)
    <3>1. ~IsOperation(i) /\ ~begun /\ i \in MeantSlots(FALSE) /\ i \notin MeantSlots(TRUE)
      BY <1>2, <1>6, <1>13, <2>2
    <3>2. P = <<>> /\ W(TRUE)[i] = <<>> /\ W(FALSE)[i] = F \o Part(v, FALSE)
      BY <1>4, <1>5, <3>1
    <3>3. ~begun' /\ ~Begins(i)
      BY <1>4, <1>7, <2>1, <3>1
    <3>4. Part(v, FALSE) = << <<"value", v>> >> /\ Part(v, FALSE) \in Seq(Item)
      <4>1. Part(v, FALSE) \in Seq(Item)
        BY <1>5, <3>1
      <4> DEFINE b == << <<"value", v>> >>
      <4>2. Part(v, FALSE) = <<>> \o b
        BY DEF Part
      <4>3. b \in Seq({<<"value", v>>})
        OBVIOUS
      <4> HIDE DEF b
      <4>4. <<>> \o b = b
        BY <4>3, ConcatEmptySeq
      <4> QED  BY <4>1, <4>2, <4>4 DEF b
    <3>5. OpsHeader = <<>>
      BY <3>1 DEF OpsHeader
    <3> HIDE DEF W, Begins, OpsCount, HeadArray
    <3>6. msg = ((H \o F) \o <<>>) \o <<>>
      BY <1>4, <3>2, <3>5
    <3>7. msg = H \o F
      BY <1>11, <3>6, PartsEnd
    <3>8. msg' = ((msg \o <<>>) \o <<>>) \o Part(v, FALSE)
      BY <2>1, <3>1, <3>4
    <3> DEFINE x == Part(v, FALSE)
    <3> HIDE DEF H, F, P, O, x
    <3>9. msg' = (H \o F) \o x
      <4>1. ((H \o F) \o <<>>) \o <<>> = H \o F
        BY <1>11, PartsEnd
      <4> QED  BY <3>7, <3>8, <4>1 DEF x
    <3>10. x \in Seq(Item)
      BY <3>4 DEF x
    <3>11. msg' = ((H \o (F \o x)) \o <<>>) \o <<>>
      <4>1. Joins(H, F, x)
        BY <1>11, <3>10, PartsJoin
      <4>2. H \o (F \o x) \in Seq(Item)
        <5>1. F \o x \in Seq(Item)
          BY <1>11, <3>10, ConcatProperties
        <5> QED  BY <1>11, <5>1, ConcatProperties
      <4>3. ((H \o (F \o x)) \o <<>>) \o <<>> = H \o (F \o x)
        BY <4>2, ConcatEmptySeq
      <4> QED  BY <3>9, <4>1, <4>3 DEF Joins
    <3> QED  BY <3>2, <3>3, <3>11 DEF H, F, x
  <2>3. CASE IsOpSlot(i)
    <3>1. IsOperation(i) /\ i \in MeantSlots(TRUE) /\ i \notin MeantSlots(FALSE)
      BY <1>2, <1>6, <1>13, <2>3
    <3>2. W(TRUE)[i] = P \o Part(v, TRUE) /\ W(FALSE)[i] = F /\ Part(v, TRUE) \in Seq(Item)
      BY <1>5, <3>1
    <3>3. begun' /\ Begins(i)
      BY <1>7, <2>1, <3>1
    <3> HIDE DEF W, Begins, OpsCount, HeadArray
    <3> DEFINE x == Part(v, TRUE)
               a == << <<"op", v>> >>
               b == << <<"value", v>> >>
    <3>4. x = a \o b
      BY DEF Part
    <3>5. a \in Seq(Item) /\ b \in Seq(Item)
      <4>1. v \in Value
        BY <1>2, <1>3, <1>13 DEF Typed
      <4>2. <<"op", v>> \in Item /\ <<"value", v>> \in Item
        BY <4>1 DEF Item
      <4> QED  BY <4>2
    <3>6. msg' = ((msg \o (IF begun THEN <<>> ELSE O)) \o a) \o b
      BY <2>1, <3>1
    <3>7. msg = ((H \o F) \o (IF begun THEN O ELSE <<>>)) \o P
      BY <1>4 DEF OpsHeader
    <3>8. begun \/ P = <<>>
      BY <1>4
    <3> HIDE DEF H, F, P, O, a, b, x
    <3>9. msg \o (IF begun THEN <<>> ELSE O) = ((H \o F) \o O) \o P
      <4>1. H \o F \in Seq(Item)
        BY <1>11, ConcatProperties
      <4>2. (H \o F) \o O \in Seq(Item)
        BY <1>11, <4>1, ConcatProperties
      <4>3. ((H \o F) \o O) \o P \in Seq(Item)
        BY <1>11, <4>2, ConcatProperties
      <4>4. CASE begun
        <5>1. msg = ((H \o F) \o O) \o P
          BY <3>7, <4>4
        <5>2. (((H \o F) \o O) \o P) \o <<>> = ((H \o F) \o O) \o P
          BY <4>3, ConcatEmptySeq
        <5> QED  BY <4>4, <5>1, <5>2
      <4>5. CASE ~begun
        <5>1. msg = ((H \o F) \o <<>>) \o <<>> /\ P = <<>>
          BY <3>7, <3>8, <4>5
        <5>2. msg = H \o F
          BY <1>11, <5>1, PartsEnd
        <5>3. ((H \o F) \o O) \o <<>> = (H \o F) \o O
          BY <4>2, ConcatEmptySeq
        <5> QED  BY <4>5, <5>1, <5>2, <5>3
      <4> QED  BY <4>4, <4>5
    <3>10. msg' = ((H \o F) \o O) \o (P \o x)
      <4>1. H \o F \in Seq(Item)
        BY <1>11, ConcatProperties
      <4>2. (H \o F) \o O \in Seq(Item)
        BY <1>11, <4>1, ConcatProperties
      <4>3. ((H \o F) \o O) \o P \in Seq(Item)
        BY <1>11, <4>2, ConcatProperties
      <4> DEFINE y == ((H \o F) \o O) \o P
      <4>4. msg' = (y \o a) \o b
        BY <3>6, <3>9
      <4>5. (y \o a) \o b = y \o (a \o b)
        <5> HIDE DEF y
        <5>1. y \in Seq(Item)
          BY <4>3 DEF y
        <5> QED  BY <3>5, <5>1, ConcatAssociative
      <4>6. x \in Seq(Item)
        BY <3>2 DEF x
      <4>7. (((H \o F) \o O) \o P) \o x = ((H \o F) \o O) \o (P \o x)
        <5> HIDE DEF y
        <5>1. Joins((H \o F) \o O, P, x)
          BY <1>11, <4>2, <4>6, PartsJoin
        <5> QED  BY <5>1 DEF Joins
      <4> QED  BY <3>4, <4>4, <4>5, <4>7
    <3> QED  BY <3>2, <3>3, <3>10 DEF H, F, P, O, x
  <2> QED  BY <2>2, <2>3
<1> QED  BY <1>12, <1>13

-----------------------------------------------------------------------------
(* The loops follow each other, and each begins where it should. *)
LEMMA StepLoops == Typed /\ Loops /\ [Next]_vars => Loops'
<1> SUFFICES ASSUME Typed, Loops, [Next]_vars PROVE Loops'
  OBVIOUS
<1>1. CASE PrepareSpecial
  <2>1. PICK s \in expects : Takes(s)
    BY <1>1, SpecialTaken
  <2>2. pc' \in {"prepare", "rejected"} /\ bound' = bound /\ begun' = begun /\ pc = "prepare"
    BY <1>1, <2>1 DEF PrepareSpecial, NextArg, Takes
  <2> QED  BY <2>2 DEF Loops
<1>2. CASE PrepareKv \/ SkipArg
  BY <1>2 DEF PrepareKv, SkipArg, NextArg, Loops
<1>3. CASE PrepareEnd
  BY <1>3 DEF PrepareEnd, Loops
<1>4. CASE Bind
  <2>1. pc = "bind" /\ pc' \in {"bind", "rejected"} /\ at' = at /\ query' = query
    BY <1>4 DEF Bind
  <2> QED  BY <2>1 DEF Loops
<1>5. CASE BindEnd
  <2>1. slots' = slots
    BY <1>5 DEF BindEnd, slots
  <2> QED  BY <1>5, <2>1 DEF BindEnd, Loops
<1>6. CASE Fail
  BY <1>6 DEF Fail, Loops
<1>7. CASE UNCHANGED vars
  BY <1>7 DEF vars, Loops, slots
<1> QED  BY <1>1, <1>2, <1>3, <1>4, <1>5, <1>6, <1>7 DEF Next

(* A request's header is the body of no slots. *)
LEMMA HeaderIsComposed ==
  ASSUME Typed, Loops, PrepareEnd, pc' = "bind", Regular
  PROVE  Composed'
<1>1. /\ loc' = loc /\ query' = query /\ result' = result /\ bound' = bound
      /\ begun' = begun /\ bound = 0 /\ begun = FALSE
  BY DEF PrepareEnd, Loops
<1>2. msg' = HeadArray
  BY DEF PrepareEnd
<1>3. /\ \A op : W(op)' = W(op)
      /\ \A b : Begins(b)' = Begins(b)
      /\ HeadArray' = HeadArray
  BY <1>1, BodyStays
<1>4. W(TRUE)[0] = <<>> /\ W(FALSE)[0] = <<>>
  BY WrittenNext
<1>5. ~Begins(0)
  <2>1. loc \in Locations
    BY DEF Typed
  <2>2. DOMAIN slots = 1..Len(slots) /\ Len(slots) \in Nat
    BY <2>1, SlotFacts
  <2>3. \A j \in MeantSlots(TRUE) : j \in 1..Len(slots)
    BY <2>2 DEF MeantSlots
  <2>4. \A j \in 1..Len(slots) : ~(j <= 0)
    BY <2>2
  <2> QED  BY <2>3, <2>4 DEF Begins
<1>6. bound' = 0 /\ ~begun' /\ ~begun
  BY <1>1
<1>7. ~Begins(bound)'
  <2>1. MeantSlots(TRUE)' = MeantSlots(TRUE)
    BY <1>1, MeaningStays
  <2> QED  BY <1>5, <1>6, <2>1 DEF Begins
<1>8. OpsHeader' = <<>>
  BY <1>6 DEF OpsHeader
<1>9. (W(TRUE)[bound])' = <<>> /\ (W(FALSE)[bound])' = <<>>
  BY <1>3, <1>4, <1>6
<1>10. HeadArray = ((HeadArray \o <<>>) \o <<>>) \o <<>>
  <2>1. HeadArray \in Seq(Item)
    BY BodyTypes
  <2> QED  BY <2>1, ConcatEmptySeq
<1> HIDE DEF W, HeadArray, Begins, OpsHeader
<1> QED  BY <1>2, <1>3, <1>6, <1>7, <1>8, <1>9, <1>10 DEF Composed

(* The request and its location are what they were. *)
LEMMA RequestStays == [Next]_vars => loc' = loc /\ query' = query
<1>1. PrepareSpecial \/ PrepareKv \/ SkipArg => NextArg
  BY DEF PrepareSpecial, PrepareKv, SkipArg
<1>2. NextArg \/ PrepareEnd => loc' = loc /\ query' = query
  BY DEF NextArg, PrepareEnd
<1>3. Bind \/ BindEnd \/ Fail \/ UNCHANGED vars => loc' = loc /\ query' = query
  BY DEF Bind, BindEnd, Fail, vars
<1> QED  BY <1>1, <1>2, <1>3 DEF Next

(* Every turn of the loops keeps the body as it should be. *)
LEMMA StepComposed ==
  Typed /\ Filled /\ Loops /\ Composed /\ [Next]_vars => Composed'
<1> SUFFICES ASSUME Typed, Filled, Loops, Composed, [Next]_vars,
                    pc' \in {"bind", "done"}, Regular'
             PROVE  Composed'
  BY DEF Composed
<1>1. loc' = loc /\ query' = query
  BY RequestStays
<1>2. Regular
  BY <1>1, MeaningStays
<1>3. CASE PrepareSpecial
  <2>1. PICK s \in expects : Takes(s)
    BY <1>3, SpecialTaken
  <2> QED  BY <1>3, <2>1 DEF PrepareSpecial, NextArg, Takes
<1>4. CASE PrepareKv \/ SkipArg \/ Fail
  BY <1>4 DEF PrepareKv, SkipArg, NextArg, Fail
<1>5. CASE PrepareEnd
  <2>1. pc' = "bind"
    BY <1>5 DEF PrepareEnd
  <2> QED  BY <1>2, <1>5, <2>1, HeaderIsComposed
<1>6. CASE Bind
  <2>1. pc' = "bind"
    BY <1>6 DEF Bind
  <2> QED  BY <1>2, <1>6, <2>1, BindKeepsComposed
<1>7. CASE BindEnd \/ UNCHANGED vars
  <2>1. /\ result' = result /\ bound' = bound /\ begun' = begun /\ msg' = msg
        /\ pc \in {"bind", "done"}
    BY <1>7 DEF BindEnd, vars
  <2>2. /\ \A op : W(op)' = W(op)
        /\ \A b : Begins(b)' = Begins(b)
        /\ HeadArray' = HeadArray /\ OpsCount' = OpsCount
    BY <1>1, <2>1, BodyStays
  <2>3. OpsHeader' = OpsHeader
    BY <2>1, <2>2 DEF OpsHeader
  <2>4. Begins(bound)' = Begins(bound)
    <3>1. MeantSlots(TRUE)' = MeantSlots(TRUE)
      BY <1>1, MeaningStays
    <3> QED  BY <2>1, <3>1 DEF Begins
  <2> HIDE DEF W, HeadArray, Begins, OpsHeader, OpsCount
  <2> QED  BY <1>2, <2>1, <2>2, <2>3, <2>4 DEF Composed
<1> QED  BY <1>3, <1>4, <1>5, <1>6, <1>7 DEF Next

-----------------------------------------------------------------------------
(* Once the limit is no longer awaited, what is stored was compared with   *)
(* the maximum.                                                            *)
LimitKept ==
  SpecialName(loc, "%%lim") # "" /\ "%%lim" \notin expects
    => result.limit <= loc.select_limit_max

(* The arguments' end is passed with every check made and nothing awaited. *)
Checked == pc \in {"bind", "done"} => Allowed /\ expects = {}

(* What ngx_http_tnt_read_array_of_uint reads of a list stands in the list. *)
LEMMA AllowedIsListed ==
  ASSUME NEW list \in Seq(Nat), NEW val, test_allowed(list, val)
  PROVE  InList(list, val)
<1> SUFFICES ASSUME list # <<>> PROVE \E i \in DOMAIN list : list[i] = val
  BY DEF InList
<1> DEFINE n == Len(list) - 1
<1>1. PICK i \in DOMAIN read_array_of_uint(list) : list[i] = val
  BY DEF test_allowed
<1>2. n \in Int /\ DOMAIN list = 1..Len(list) /\ \A j \in 1..n : list[j] \in Nat
  BY LenProperties
<1>3. SubSeq(list, 1, n) \in Seq(Nat) /\ Len(SubSeq(list, 1, n)) <= Len(list)
  BY <1>2, SubSeqProperties, LenProperties
<1>4. i \in DOMAIN list
  BY <1>1, <1>2, <1>3, LenProperties DEF read_array_of_uint
<1> QED  BY <1>1, <1>4

(* Arithmetic on a number and its maximum. *)
LEMMA NotAbove ==
  ASSUME NEW a \in Int, NEW b \in Nat, ~(a > b)
  PROVE  a <= b
OBVIOUS

(* Reading a special argument keeps the limit below its maximum. *)
LEMMA SpecialKeepsLimit ==
  ASSUME Typed, LimitKept, PrepareSpecial PROVE LimitKept'
<1>1. loc' = loc /\ NextArg
  BY DEF PrepareSpecial, NextArg
<1>2. Arg.value.num \in Int /\ loc.select_limit_max \in Nat
  <2>1. Arg.value \in Value
    BY <1>1, ArgIs
  <2> QED  BY <2>1, LocationsAssumption DEF Value, Typed, IsLocation
<1>3. PICK s \in expects : s \in Specials /\ Takes(s)
  BY SpecialTaken
<1>4. "limit" \in DOMAIN result
  BY DEF Typed, Fields
<1> SUFFICES ASSUME SpecialName(loc, "%%lim") # "", "%%lim" \notin expects'
             PROVE  result'.limit <= loc.select_limit_max
  BY <1>1 DEF LimitKept
<1>5. CASE s = "%%lim"
  <2>1. ~OverLimit(Arg.value) /\ result' = [result EXCEPT !["limit"] = Given(s, Arg.value)]
    BY <1>3, <1>5, FieldOf DEF Takes
  <2>2. result'.limit = Arg.value.num
    BY <1>4, <1>5, <2>1 DEF Given
  <2>3. ~(Arg.value.num > loc.select_limit_max)
    BY <2>1 DEF OverLimit
  <2>4. Arg.value.num <= loc.select_limit_max
    BY <1>2, <2>3, NotAbove
  <2> QED  BY <2>2, <2>4
<1>6. CASE s # "%%lim"
  <2>1. Field(s) # "limit"
    BY <1>3, <1>6, FieldsDiffer
  <2>2. result'.limit = result.limit
    BY <1>3, <1>4, <1>6, <2>1 DEF Takes
  <2>3. "%%lim" \notin expects
    BY <1>3, <1>6 DEF Takes
  <2> QED  BY <2>2, <2>3 DEF LimitKept
<1> QED  BY <1>5, <1>6

(* Every turn of the loops keeps the limit, and no check is passed by. *)
LEMMA StepChecked ==
  Typed /\ LimitKept /\ Checked /\ [Next]_vars => LimitKept' /\ Checked'
<1> SUFFICES ASSUME Typed, LimitKept, Checked, [Next]_vars PROVE LimitKept' /\ Checked'
  OBVIOUS
<1>1. CASE PrepareSpecial
  <2>1. PICK s \in expects : Takes(s)
    BY <1>1, SpecialTaken
  <2>2. pc' \in {"prepare", "rejected"}
    BY <1>1, <2>1 DEF PrepareSpecial, NextArg, Takes
  <2> QED  BY <1>1, <2>2, SpecialKeepsLimit DEF Checked
<1>2. CASE PrepareKv \/ SkipArg
  <2>1. /\ loc' = loc /\ expects' = expects /\ pc' = "prepare"
    BY <1>2 DEF PrepareKv, SkipArg, NextArg
  <2>2. result'.limit = result.limit
    <3>1. CASE result' = result
      BY <3>1
    <3>2. CASE \E i : result' = [result EXCEPT ![Counter(i)] = @ + 1]
      <4>1. PICK i : result' = [result EXCEPT ![Counter(i)] = @ + 1]
        BY <3>2
      <4>2. Counter(i) # "limit" /\ "limit" \in DOMAIN result
        BY CounterIs DEF Typed, Fields
      <4> QED  BY <4>1, <4>2
    <3> QED  BY <1>2, <3>1, <3>2, KvTaken DEF SkipArg
  <2> QED  BY <2>1, <2>2 DEF LimitKept, Checked
<1>3. CASE PrepareEnd
  BY <1>3 DEF PrepareEnd, LimitKept, Checked, Allowed
<1>4. CASE Bind \/ BindEnd \/ Fail \/ UNCHANGED vars
  <2>1. /\ loc' = loc /\ result' = result /\ expects' = expects
        /\ (pc' \in {"bind", "done"} => pc \in {"bind", "done"})
    BY <1>4 DEF Bind, BindEnd, Fail, vars
  <2> QED  BY <2>1 DEF LimitKept, Checked, Allowed
<1> QED  BY <1>1, <1>2, <1>3, <1>4 DEF Next

(* Before the first argument a limit that the client may choose is awaited. *)
LEMMA InitChecked == Init => LimitKept /\ Checked
<1> SUFFICES ASSUME Init PROVE LimitKept /\ Checked
  OBVIOUS
<1>1. "%%lim" \in Specials
  BY SpecialsAre
<1> QED  BY <1>1 DEF Init, LimitKept, Checked

(* What was checked is what is claimed of a request that is sent. *)
LEMMA CheckedIsAllowed == Typed /\ LimitKept /\ Checked => SentIsAllowed
<1> SUFFICES ASSUME Typed, LimitKept, Checked, pc = "done"
             PROVE  /\ InList(loc.allowed_spaces, result.space_id)
                    /\ InList(loc.allowed_indexes, result.index_id)
                    /\ SpecialName(loc, "%%lim") # "" =>
                         result.limit <= loc.select_limit_max
  BY DEF SentIsAllowed
<1>1. Allowed /\ expects = {}
  BY DEF Checked
<1>2. loc.allowed_spaces \in Seq(Nat) /\ loc.allowed_indexes \in Seq(Nat)
  BY LocationsAssumption DEF Typed, IsLocation
<1> QED  BY <1>1, <1>2, AllowedIsListed DEF Allowed, LimitKept

(* Whatever lists and limits a location has and whatever its clients send: *)
(* ngx_http_tnt_format_prepare lets no request through to a space or index *)
(* that is not listed, or with a limit above tnt_select_limit_max.         *)
THEOREM OnlyAllowedIsSent == Spec => []SentIsAllowed
<1>1. Init => Typed /\ LimitKept /\ Checked
  BY InitTyped, InitChecked
<1>2. Typed /\ LimitKept /\ Checked /\ [Next]_vars => (Typed /\ LimitKept /\ Checked)'
  BY StepTyped, StepChecked
<1> QED  BY <1>1, <1>2, CheckedIsAllowed, PTL DEF Spec

-----------------------------------------------------------------------------
(* Why a request may be rejected: what RejectedForCause gives for each of  *)
(* the three errors.                                                       *)
NotAllowed ==
  \/ LimitExceeded
  \/ ~test_allowed(loc.allowed_spaces, Meant("%%space_id", loc.space_id))
  \/ ~test_allowed(loc.allowed_indexes, Meant("%%idx_id", loc.index_id))
Missing == \E s \in Specials : SpecialName(loc, s) # "" /\ UsableArgs(s) = {}
OfWrongType ==
  \E i \in DOMAIN slots : /\ MeantValue(i) # NoValue
                          /\ ~Fits(slots[i], MeantValue(i), IsOpSlot(i))

(* A cause is one of the request, whatever was read of it.                 *)
LEMMA CausesStay ==
  ASSUME loc' = loc, query' = query
  PROVE  /\ NotAllowed' = NotAllowed /\ Missing' = Missing /\ OfWrongType' = OfWrongType
         /\ OwnNames' = OwnNames /\ Regular' = Regular
<1>1. /\ \A s : UsableArgs(s)' = UsableArgs(s)
      /\ OwnNames' = OwnNames /\ LimitExceeded' = LimitExceeded
      /\ \A i : MeantValue(i)' = MeantValue(i)
      /\ Regular' = Regular /\ slots' = slots
  BY MeaningStays
<1>2. \A s, d : Meant(s, d)' = Meant(s, d)
  BY <1>1 DEF Meant
<1>3. NotAllowed' = NotAllowed
  BY <1>1, <1>2 DEF NotAllowed
<1>4. Missing' = Missing
  BY <1>1 DEF Missing
<1>5. OfWrongType' = OfWrongType
  BY <1>1 DEF OfWrongType, IsOpSlot, Fits
<1> QED  BY <1>1, <1>3, <1>4, <1>5

(* At the end of the arguments: a space or an index that is not listed, or *)
(* a special argument that is still awaited.                               *)
LEMMA EndHasCause ==
  ASSUME Typed, AllCollected, PrepareEnd, OwnNames
  PROVE  /\ err' = "not_allowed" => NotAllowed
         /\ err' = "format" => Missing
         /\ err' # "value"
<1>1. at = Len(query) /\ err = "none" /\ pc = "prepare"
  BY DEF PrepareEnd, Typed
<1>2. \A s \in Specials : Collected(s)
  BY <1>1 DEF AllCollected
<1>3. expects \subseteq Specials
  BY DEF Typed
<1>4. result.space_id = Meant("%%space_id", loc.space_id)
      /\ result.index_id = Meant("%%idx_id", loc.index_id)
  <2>1. "%%space_id" \in Specials /\ "%%idx_id" \in Specials
    BY SpecialsAre
  <2>2. Default("%%space_id") = loc.space_id /\ Default("%%idx_id") = loc.index_id
    BY DEF Default
  <2>3. Field("%%space_id") = "space_id" /\ Field("%%idx_id") = "index_id"
    BY FieldOf
  <2>4. result["space_id"] = Meant("%%space_id", loc.space_id)
    BY <1>1, <1>2, <2>1, <2>2, <2>3, CollectedIsMeant
  <2>5. result["index_id"] = Meant("%%idx_id", loc.index_id)
    BY <1>1, <1>2, <2>1, <2>2, <2>3, CollectedIsMeant
  <2> QED  BY <2>4, <2>5
<1>5. CASE ~Allowed
  <2>1. err' = "not_allowed"
    BY <1>5 DEF PrepareEnd
  <2>2. NotAllowed
    BY <1>4, <1>5 DEF Allowed, NotAllowed
  <2> QED  BY <2>1, <2>2
<1>6. CASE Allowed /\ expects # {}
  <2>1. err' = "format"
    BY <1>6 DEF PrepareEnd
  <2>2. PICK s \in expects : s \in Specials
    BY <1>3, <1>6
  <2>3. SpecialName(loc, s) # "" /\ \A a \in UsableArgs(s) : a > at
    BY <1>2, <2>2 DEF Collected
  <2>4. UsableArgs(s) = {}
    <3>1. ASSUME NEW a \in UsableArgs(s) PROVE FALSE
      <4>1. a \in 1..Len(query) /\ a > Len(query)
        BY <1>1, <2>3, <3>1, UsableAre
      <4>2. Len(query) \in Nat
        BY LenProperties DEF Typed
      <4> QED  BY <4>1, <4>2
    <3> QED  BY <3>1
  <2> QED  BY <2>1, <2>2, <2>3, <2>4 DEF Missing
<1>7. CASE Allowed /\ expects = {}
  <2>1. err' = "none"
    BY <1>1, <1>7 DEF PrepareEnd
  <2> QED  BY <2>1
<1> QED  BY <1>5, <1>6, <1>7

(* A slot whose value cannot be written, because it is not of its type. *)
LEMMA BindHasCause ==
  ASSUME Typed, Filled, Loops, Composed, Bind, err' # err, Regular
  PROVE  OfWrongType
<1> DEFINE i == bound + 1
<1>1. pc = "bind" /\ bound < Len(slots) /\ at = Len(query)
  BY DEF Bind, Loops
<1>2. i \in DOMAIN slots /\ (IsOperation(i) <=> IsOpSlot(i))
  BY <1>1, WrittenAsMeant
<1>3. values[i] = MeantValue(i)
  BY <1>1, <1>2, FilledIsMeant
<1>4. values[i] # NoValue /\ ~Fits(slots[i], values[i], IsOperation(i))
  BY DEF Bind
<1> HIDE DEF i
<1>5. ~Fits(slots[i], values[i], IsOpSlot(i))
  BY <1>2, <1>4 DEF Fits
<1> QED  BY <1>2, <1>3, <1>4, <1>5 DEF OfWrongType

(* Every turn of the loops that rejects a request has its cause. *)
LEMMA StepHasCause ==
  Typed /\ AllCollected /\ Filled /\ Loops /\ Composed /\ RejectedForCause /\ [Next]_vars
    => RejectedForCause'
<1> SUFFICES ASSUME Typed, AllCollected, Filled, Loops, Composed, RejectedForCause,
                    [Next]_vars
             PROVE  RejectedForCause'
  OBVIOUS
<1> SUFFICES ASSUME OwnNames
             PROVE  /\ err' = "not_allowed" => NotAllowed
                    /\ err' = "format" => Missing
                    /\ err' = "value" /\ Regular => OfWrongType
  <2>1. loc' = loc /\ query' = query
    BY RequestStays
  <2> QED  BY <2>1, CausesStay DEF RejectedForCause, NotAllowed, Missing, OfWrongType
<1>1. CASE err' = err
  BY <1>1 DEF RejectedForCause, NotAllowed, Missing, OfWrongType
<1>2. CASE PrepareSpecial /\ err' # err
  <2>1. PICK s \in expects : s \in Specials /\ Arg.key = SpecialName(loc, s) /\ Takes(s)
    BY <1>2, SpecialTaken
  <2>2. s = "%%lim" /\ OverLimit(Arg.value) /\ err' = "not_allowed"
    BY <1>2, <2>1 DEF Takes
  <2>3. Arg = query[at + 1] /\ at + 1 \in DOMAIN query /\ Arg.key # ""
    BY <1>2, ArgIs DEF PrepareSpecial
  <2>4. LimitExceeded
    BY <2>1, <2>2, <2>3 DEF LimitExceeded, OverLimit
  <2> QED  BY <2>2, <2>4 DEF NotAllowed
<1>3. CASE PrepareEnd
  BY <1>3, EndHasCause
<1>4. CASE Bind /\ err' # err
  <2>1. err' = "value"
    BY <1>4 DEF Bind
  <2> QED  BY <1>4, <2>1, BindHasCause
<1>5. CASE PrepareKv \/ SkipArg \/ BindEnd \/ Fail \/ UNCHANGED vars
  <2>1. err' = err
    BY <1>5 DEF PrepareKv, SkipArg, BindEnd, Fail, vars
  <2> QED  BY <1>1, <2>1
<1> QED  BY <1>1, <1>2, <1>3, <1>4, <1>5 DEF Next

(* The invariant of both passes over a request. *)
Meaningful ==
  /\ Typed /\ AllCollected /\ Filled /\ Counted
  /\ Loops /\ Composed /\ Checked

(* It holds before the first argument and is kept by every turn. *)
LEMMA MeaningfulHolds ==
  (Init => Meaningful /\ LimitKept)
  /\ (Meaningful /\ LimitKept /\ [Next]_vars => (Meaningful /\ LimitKept)')
<1>1. ASSUME Init PROVE Meaningful /\ LimitKept
  <2>1. Loops /\ Composed
    BY <1>1 DEF Init, Loops, Composed
  <2> QED  BY <1>1, <2>1, InitTyped, InitCollected, InitFilled, InitChecked DEF Meaningful
<1>2. ASSUME Meaningful, LimitKept, [Next]_vars PROVE (Meaningful /\ LimitKept)'
  BY <1>2, StepTyped, StepCollected, StepFilled, StepLoops, StepComposed, StepChecked
  DEF Meaningful
<1> QED  BY <1>1, <1>2

(* Nothing is rejected at first. *)
LEMMA InitHasCause == Init => RejectedForCause
BY DEF Init, RejectedForCause

(* A request is rejected only for what its error says, whichever names the *)
(* format has and whatever the arguments, their values and their order.    *)
THEOREM RejectionsHaveCause == Spec => []RejectedForCause
<1>1. Init => Meaningful /\ LimitKept /\ RejectedForCause
  BY MeaningfulHolds, InitHasCause
<1>2. Meaningful /\ LimitKept /\ RejectedForCause /\ [Next]_vars
        => (Meaningful /\ LimitKept /\ RejectedForCause)'
  BY MeaningfulHolds, StepHasCause DEF Meaningful
<1> QED  BY <1>1, <1>2, PTL DEF Spec

-----------------------------------------------------------------------------
(* The body of a request that is sent is the message that is meant. *)
LEMMA BodyIsMeant ==
  ASSUME Meaningful, pc = "done", Regular
  PROVE  msg = MeantMessage
<1> DEFINE N == Len(slots)
           fields == MeantSlots(FALSE)
           ops == MeantSlots(TRUE)
<1>1. /\ Typed /\ Filled /\ Counted /\ at = Len(query) /\ bound = N
      /\ begun <=> Begins(N)
      /\ msg = ((HeadArray \o W(FALSE)[N]) \o OpsHeader) \o W(TRUE)[N]
  BY DEF Meaningful, Loops, Composed
<1>2. /\ HeadArray = << <<"array", Cardinality(fields)>> >>
      /\ ops # {} => OpsCount = Cardinality(ops)
  BY <1>1, CountsAreMeant
<1>3. Begins(N) <=> ops # {}
  <2>1. loc \in Locations
    BY <1>1 DEF Typed
  <2>2. DOMAIN slots = 1..N /\ N \in Nat
    BY <2>1, SlotFacts
  <2>3. \A j \in MeantSlots(TRUE) : j \in 1..N
    BY <2>2 DEF MeantSlots
  <2>4. \A j \in 1..N : j <= N
    BY <2>2
  <2> QED  BY <2>3, <2>4 DEF Begins
<1>4. OpsHeader = IF ops = {} THEN <<>> ELSE << <<"ops", Cardinality(ops)>> >>
  BY <1>1, <1>2, <1>3 DEF OpsHeader
<1>5. Len(Meanings) = N
  BY <1>1, MeaningsAre
<1>6. MeantMessage =
        ((<< <<"array", Cardinality(fields)>> >> \o W(FALSE)[Len(Meanings)])
           \o (IF ops = {} THEN <<>> ELSE << <<"ops", Cardinality(ops)>> >>))
          \o W(TRUE)[Len(Meanings)]
  BY DEF MeantMessage, Meanings, W
<1> HIDE DEF N, fields, ops
<1> QED  BY <1>1, <1>2, <1>4, <1>5, <1>6

(* Both passes together: what is sent is what the request means. *)
LEMMA MeaningfulIsSent == Meaningful => SentAsMeant
<1> SUFFICES ASSUME Meaningful, pc = "done", Regular
             PROVE  /\ msg = MeantMessage
                    /\ result.space_id = Meant("%%space_id", loc.space_id)
                    /\ result.index_id = Meant("%%idx_id", loc.index_id)
                    /\ result.offset = Meant("%%off", loc.select_offset)
                    /\ result.limit = Meant("%%lim", loc.select_limit)
                    /\ result.iter_type = Meant("%%it", set_iter_type(loc.iter_type))
  BY DEF SentAsMeant
<1>1. Typed /\ at = Len(query) /\ expects = {} /\ err = "none" /\ OwnNames
  BY DEF Meaningful, Typed, Loops, Checked, Regular
<1>2. \A s \in Specials : Collected(s)
  BY <1>1 DEF Meaningful, AllCollected
<1>3. \A s \in Specials : result[Field(s)] = Meant(s, Default(s))
  BY <1>1, <1>2, CollectedIsMeant
<1>4. /\ Default("%%lim") = loc.select_limit /\ Default("%%off") = loc.select_offset
      /\ Default("%%it") = set_iter_type(loc.iter_type)
      /\ Default("%%space_id") = loc.space_id /\ Default("%%idx_id") = loc.index_id
  BY DEF Default
<1> HIDE DEF Default, Field
<1>5. /\ result["space_id"] = Meant("%%space_id", loc.space_id)
      /\ result["index_id"] = Meant("%%idx_id", loc.index_id)
      /\ result["offset"] = Meant("%%off", loc.select_offset)
      /\ result["limit"] = Meant("%%lim", loc.select_limit)
      /\ result["iter_type"] = Meant("%%it", set_iter_type(loc.iter_type))
  BY <1>3, <1>4, SpecialsAre, FieldOf
<1> QED  BY <1>5, BodyIsMeant

(* Whatever a location's format and in whatever order, number and form the *)
(* arguments come, the request that is sent is the one they mean: values   *)
(* in the format's order, counts equal to what follows them, space, index, *)
(* offset, limit and iterator the first usable ones given.                 *)
THEOREM RequestsAreAsMeant == Spec => []SentAsMeant
<1>1. Init => Meaningful /\ LimitKept
  BY MeaningfulHolds
<1>2. Meaningful /\ LimitKept /\ [Next]_vars => (Meaningful /\ LimitKept)'
  BY MeaningfulHolds
<1> QED  BY <1>1, <1>2, MeaningfulIsSent, PTL DEF Spec
=============================================================================
