-------------------------- MODULE HeaderMapProofs --------------------------
(***************************************************************************)
(* Header and trailer objects: each is a store of its own, its copy fits   *)
(* the buffer made for it, and nothing is changed that was passed on, in   *)
(* every calm environment, as long as the handlers keep to all the rules.  *)
(*                                                                         *)
(* The filter's own invariant (GolangFilterFlowProofs) says where headers_ *)
(* and trailers_ point to while a handler is at work.  What a read returns *)
(* is proved by induction over the fields of a map: the set of lengths the *)
(* fact holds for is the set of natural numbers.                           *)
(***************************************************************************)
EXTENDS HeaderMap, GolangFilterFlowProofs, WellFoundedInduction

-----------------------------------------------------------------------------
(* Induction, and recursion over the fields of a map                       *)

LEMMA SetInduction ==
    ASSUME NEW S \in SUBSET Nat, 0 \in S, \A n \in S : n + 1 \in S
    PROVE  S = Nat
<1> SUFFICES ASSUME S # Nat PROVE FALSE
  OBVIOUS
<1> DEFINE others == Nat \ S
           R == {pair \in Nat \X Nat : pair[1] < pair[2]}
<1>1. IsWellFoundedOn(R, Nat)
  BY NatLessThanWellFounded DEF OpToRel
<1>2. others \subseteq Nat /\ others # {}
  OBVIOUS
<1> HIDE DEF others, R
<1>3. PICK x \in others : \A y \in others : ~(<<y, x>> \in R)
  BY <1>1, <1>2, WFMin
<1>4. \A y \in others : ~(y < x)
  BY <1>2, <1>3 DEF R
<1>5. x \in Nat /\ x # 0
  BY <1>2, <1>3 DEF others
<1>6. x - 1 \in Nat /\ x - 1 < x
  BY <1>5
<1>7. x - 1 \in S
  BY <1>4, <1>6 DEF others
<1>8. x \in S
  BY <1>5, <1>7
<1> QED  BY <1>3, <1>8 DEF others

\* A function that goes on from each argument to the next one.
GoesOn(f, n, base, step) ==
    /\ f[0] = base
    /\ \A i \in 1 .. n : f[i] = step[<<i, f[i - 1]>>]

LEMMA Recursion ==
    ASSUME NEW n \in Nat, NEW S, NEW base \in S, NEW step \in [(1 .. n) \X S -> S]
    PROVE  \E f \in [0 .. n -> S] : GoesOn(f, n, base, step)
<1> DEFINE Good == {k \in Nat : k <= n => \E f \in [0 .. k -> S] : GoesOn(f, k, base, step)}
<1>1. 0 \in Good
  <2>1. [i \in 0 .. 0 |-> base] \in [0 .. 0 -> S] /\ GoesOn([i \in 0 .. 0 |-> base], 0, base, step)
    BY DEF GoesOn
  <2> QED  BY <2>1
<1>2. ASSUME NEW k \in Good
      PROVE  k + 1 \in Good
  <2> SUFFICES ASSUME k + 1 <= n
               PROVE  \E f \in [0 .. k + 1 -> S] : GoesOn(f, k + 1, base, step)
    OBVIOUS
  <2>1. k \in Nat /\ k <= n
    OBVIOUS
  <2>2. PICK f \in [0 .. k -> S] : GoesOn(f, k, base, step)
    BY <2>1
  <2> DEFINE g == [i \in 0 .. k + 1 |-> IF i = k + 1 THEN step[<<k + 1, f[k]>>] ELSE f[i]]
  <2>3. step[<<k + 1, f[k]>>] \in S
    <3>1. <<k + 1, f[k]>> \in (1 .. n) \X S
      BY <2>1, <2>2
    <3> QED  BY <3>1
  <2>4. g \in [0 .. k + 1 -> S]
    BY <2>1, <2>2, <2>3
  <2>5. g[0] = base
    BY <2>1, <2>2 DEF GoesOn
  <2>6. ASSUME NEW i \in 1 .. k + 1
        PROVE  g[i] = step[<<i, g[i - 1]>>]
    <3>1. CASE i = k + 1
      <4>1. g[i] = step[<<k + 1, f[k]>>] /\ g[i - 1] = f[k]
        BY <2>1, <3>1
      <4> QED  BY <3>1, <4>1
    <3>2. CASE i # k + 1
      <4>1. i \in 1 .. k /\ g[i] = f[i] /\ g[i - 1] = f[i - 1]
        BY <2>1, <2>6, <3>2
      <4> QED  BY <2>2, <4>1 DEF GoesOn
    <3> QED  BY <3>1, <3>2
  <2> HIDE DEF g
  <2>7. GoesOn(g, k + 1, base, step)
    BY <2>5, <2>6 DEF GoesOn
  <2> QED  BY <2>4, <2>7
<1>3. Good = Nat
  <2>1. Good \in SUBSET Nat
    OBVIOUS
  <2> HIDE DEF Good
  <2> QED  BY <1>1, <1>2, <2>1, SetInduction
<1>4. n \in Good
  BY <1>3
<1> QED  BY <1>4

\* Two functions that go on alike are alike.
LEMMA GoOnAlike ==
    ASSUME NEW n \in Nat, NEW f, NEW g, f[0] = g[0],
           \A i \in 1 .. n : f[i - 1] = g[i - 1] => f[i] = g[i]
    PROVE  f[n] = g[n]
<1> DEFINE Good == {k \in Nat : k <= n => f[k] = g[k]}
<1>1. 0 \in Good
  OBVIOUS
<1>2. ASSUME NEW k \in Good
      PROVE  k + 1 \in Good
  <2>1. k \in Nat /\ (k + 1 <= n => k <= n /\ k + 1 \in 1 .. n /\ (k + 1) - 1 = k)
    OBVIOUS
  <2> QED  BY <2>1
<1>3. Good = Nat
  <2>1. Good \in SUBSET Nat
    OBVIOUS
  <2> HIDE DEF Good
  <2> QED  BY <1>1, <1>2, <2>1, SetInduction
<1> QED  BY <1>3

\* A sequence that is not empty is a shorter one with one element more.
LEMMA SeqSplits ==
    ASSUME NEW E, NEW n \in Nat, NEW s \in Seq(E), Len(s) = n + 1
    PROVE  \E t \in Seq(E), e \in E : Len(t) = n /\ s = Append(t, e)
<1> DEFINE t == [i \in 1 .. n |-> s[i]]
           e == s[n + 1]
<1>1. \A i \in 1 .. n + 1 : s[i] \in E
  OBVIOUS
<1>2. t \in Seq(E) /\ Len(t) = n /\ e \in E
  BY <1>1, IsASeq
<1>3. Append(t, e) \in Seq(E) /\ Len(Append(t, e)) = n + 1
      /\ (\A i \in 1 .. n : Append(t, e)[i] = t[i]) /\ Append(t, e)[n + 1] = e
  BY <1>2, AppendProperties
<1>4. ASSUME NEW i \in 1 .. n + 1
      PROVE  Append(t, e)[i] = s[i]
  <2>1. i \in 1 .. n => t[i] = s[i]
    OBVIOUS
  <2> QED  BY <1>3, <2>1
<1>5. s = Append(t, e)
  <2> HIDE DEF t, e
  <2> QED  BY <1>3, <1>4, SeqEqual
<1> QED  BY <1>2, <1>5

\* How the store collects what pick makes of the fields s, from the first on.
Collects(f, s, pick) ==
    /\ f[0] = <<>>
    /\ \A i \in 1 .. Len(s) : f[i] = f[i - 1] \o pick[s[i]]
    /\ f[Len(s)] = Store!Collect(s, pick)

LEMMA CollectIsRecursive ==
    ASSUME NEW E, NEW T, NEW s \in Seq(E), NEW pick \in [E -> Seq(T)]
    PROVE  \E f \in [0 .. Len(s) -> Seq(T)] : Collects(f, s, pick)
<1> DEFINE n == Len(s)
           step == [x \in (1 .. n) \X Seq(T) |-> x[2] \o pick[s[x[1]]]]
           picked == CHOOSE f : f = [i \in 0 .. n |-> IF i = 0 THEN <<>> ELSE f[i - 1] \o pick[s[i]]]
<1>1. n \in Nat /\ <<>> \in Seq(T) /\ \A i \in 1 .. n : s[i] \in E /\ pick[s[i]] \in Seq(T)
  BY LenProperties
<1>2. step \in [(1 .. n) \X Seq(T) -> Seq(T)]
  <2>1. ASSUME NEW x \in (1 .. n) \X Seq(T)
        PROVE  x[2] \o pick[s[x[1]]] \in Seq(T)
    BY <1>1, ConcatProperties
  <2> QED  BY <2>1
<1>3. PICK f \in [0 .. n -> Seq(T)] : GoesOn(f, n, <<>>, step)
  <2> HIDE DEF n, step
  <2> QED  BY <1>1, <1>2, Recursion
<1>4. f[0] = <<>> /\ \A i \in 1 .. n : f[i] = f[i - 1] \o pick[s[i]]
  <2>1. ASSUME NEW i \in 1 .. n
        PROVE  f[i] = f[i - 1] \o pick[s[i]]
    <3>0. i - 1 \in 0 .. n
      BY <1>1
    <3>1. f[i - 1] \in Seq(T) /\ <<i, f[i - 1]>> \in (1 .. n) \X Seq(T)
      BY <1>3, <3>0
    <3>2. step[<<i, f[i - 1]>>] = f[i - 1] \o pick[s[i]]
      BY <3>1
    <3> QED  BY <1>3, <3>2 DEF GoesOn
  <2> QED  BY <1>3, <2>1 DEF GoesOn
<1>5. f = [i \in 0 .. n |-> IF i = 0 THEN <<>> ELSE f[i - 1] \o pick[s[i]]]
  <2>1. \A i \in 0 .. n : f[i] = IF i = 0 THEN <<>> ELSE f[i - 1] \o pick[s[i]]
    BY <1>1, <1>4
  <2> QED  BY <1>3, <2>1
<1>6. picked = [i \in 0 .. n |-> IF i = 0 THEN <<>> ELSE picked[i - 1] \o pick[s[i]]]
  <2> HIDE DEF n
  <2> QED  BY <1>5
<1>7. picked[n] = f[n]
  <2> HIDE DEF picked
  <2>1. \A i \in 0 .. n : picked[i] = IF i = 0 THEN <<>> ELSE picked[i - 1] \o pick[s[i]]
    BY <1>6
  <2>2. picked[0] = f[0]
    BY <1>1, <1>4, <2>1
  <2> HIDE DEF n
  <2>3. \A i \in 1 .. n : picked[i - 1] = f[i - 1] => picked[i] = f[i]
    <3>1. SUFFICES ASSUME NEW i \in 1 .. n, picked[i - 1] = f[i - 1] PROVE picked[i] = f[i]
      OBVIOUS
    <3>2. i \in 0 .. n /\ i # 0
      BY <1>1
    <3>3. picked[i] = picked[i - 1] \o pick[s[i]]
      BY <2>1, <3>2
    <3>4. f[i] = f[i - 1] \o pick[s[i]]
      BY <1>4
    <3> QED  BY <3>1, <3>3, <3>4
  <2> QED  BY <1>1, <2>2, <2>3, GoOnAlike
<1>8. Store!Collect(s, pick) = picked[n]
  BY DEF Store!Collect
<1> QED  BY <1>3, <1>4, <1>7, <1>8 DEF Collects

\* Of no field, nothing.
LEMMA CollectNone ==
    ASSUME NEW E, NEW T, NEW pick \in [E -> Seq(T)]
    PROVE  Store!Collect(<<>>, pick) = <<>>
<1> DEFINE none == <<>>
<1>1. none \in Seq(E) /\ Len(none) = 0
  OBVIOUS
<1> HIDE DEF none
<1>2. PICK f \in [0 .. Len(none) -> Seq(T)] : Collects(f, none, pick)
  BY <1>1, CollectIsRecursive
<1> QED  BY <1>1, <1>2 DEF none, Collects

\* One field more.
LEMMA CollectMore ==
    ASSUME NEW E, NEW T, NEW s \in Seq(E), NEW e \in E, NEW pick \in [E -> Seq(T)]
    PROVE  /\ Store!Collect(s, pick) \in Seq(T)
           /\ Store!Collect(Append(s, e), pick) = Store!Collect(s, pick) \o pick[e]
<1>2. PICK f \in [0 .. Len(s) -> Seq(T)] : Collects(f, s, pick)
  BY CollectIsRecursive
<1> DEFINE t == Append(s, e)
           n == Len(s)
<1>3. n \in Nat /\ t \in Seq(E) /\ Len(t) = n + 1 /\ (\A i \in 1 .. n : t[i] = s[i]) /\ t[n + 1] = e
  BY AppendProperties, LenProperties
<1> HIDE DEF t, n
<1>4. PICK g \in [0 .. n + 1 -> Seq(T)] :
          /\ g[0] = <<>>
          /\ \A i \in 1 .. n + 1 : g[i] = g[i - 1] \o pick[t[i]]
          /\ g[n + 1] = Store!Collect(t, pick)
  <2>1. \E g \in [0 .. Len(t) -> Seq(T)] : Collects(g, t, pick)
    BY <1>3, CollectIsRecursive
  <2> QED  BY <1>3, <2>1 DEF Collects
<1>5. f[n] = g[n]
  <2>1. \A i \in 1 .. n : f[i - 1] = g[i - 1] => f[i] = g[i]
    <3>1. SUFFICES ASSUME NEW i \in 1 .. n, f[i - 1] = g[i - 1] PROVE f[i] = g[i]
      OBVIOUS
    <3>0. f[i] = f[i - 1] \o pick[s[i]]
      BY <1>2 DEF n, Collects
    <3>2. f[i] = f[i - 1] \o pick[s[i]] /\ i \in 1 .. n + 1
      BY <1>3, <3>0
    <3>3. g[i] = g[i - 1] \o pick[t[i]] /\ t[i] = s[i]
      BY <1>3, <1>4, <3>2
    <3> QED  BY <3>1, <3>2, <3>3
  <2>2. f[0] = g[0]
    BY <1>2, <1>4 DEF Collects
  <2> QED  BY <1>3, <2>1, <2>2, GoOnAlike
<1>6. g[n + 1] = g[n] \o pick[e]
  <2>1. n + 1 \in 1 .. n + 1 /\ (n + 1) - 1 = n
    BY <1>3
  <2> QED  BY <1>3, <1>4, <2>1
<1>7. f[n] \in Seq(T) /\ f[n] = Store!Collect(s, pick)
  <2>1. n \in 0 .. n
    BY <1>3
  <2>2. f \in [0 .. n -> Seq(T)] /\ f[n] = Store!Collect(s, pick)
    BY <1>2 DEF n, Collects
  <2> QED  BY <2>1, <2>2
<1> QED  BY <1>4, <1>5, <1>6, <1>7 DEF t

\* Each name and each value takes room in the buffer.
LEMMA ByteSizeIsNatural ==
    ASSUME NEW s \in Seq(Store!Field)
    PROVE  ByteSize(s) \in Nat
<1> DEFINE n == Len(s)
           step == [x \in (1 .. n) \X Nat |-> x[2] + 1 + s[x[1]].value]
           size == CHOOSE f : f = [i \in 0 .. n |-> IF i = 0 THEN 0 ELSE f[i - 1] + 1 + s[i].value]
<1>1. n \in Nat /\ 0 \in Nat /\ \A i \in 1 .. n : s[i].value \in Nat
  <2>1. n \in Nat /\ \A i \in 1 .. n : s[i] \in Store!Field
    BY LenProperties
  <2> QED  BY <2>1, FieldsAssumption DEF Store!Field
<1>2. step \in [(1 .. n) \X Nat -> Nat]
  <2>1. ASSUME NEW x \in (1 .. n) \X Nat
        PROVE  x[2] + 1 + s[x[1]].value \in Nat
    <3>1. s[x[1]].value \in Nat /\ x[2] \in Nat
      BY <1>1
    <3> QED  BY <3>1
  <2> QED  BY <2>1
<1>3. PICK f \in [0 .. n -> Nat] : GoesOn(f, n, 0, step)
  <2> HIDE DEF n, step
  <2> QED  BY <1>1, <1>2, Recursion
<1>4. f[0] = 0 /\ \A i \in 1 .. n : f[i] = f[i - 1] + 1 + s[i].value
  <2>1. ASSUME NEW i \in 1 .. n
        PROVE  f[i] = f[i - 1] + 1 + s[i].value
    <3>0. i - 1 \in 0 .. n
      BY <1>1
    <3>1. <<i, f[i - 1]>> \in (1 .. n) \X Nat
      BY <1>3, <3>0
    <3>2. step[<<i, f[i - 1]>>] = f[i - 1] + 1 + s[i].value
      BY <3>1
    <3> QED  BY <1>3, <3>2 DEF GoesOn
  <2> QED  BY <1>3, <2>1 DEF GoesOn
<1>5. f = [i \in 0 .. n |-> IF i = 0 THEN 0 ELSE f[i - 1] + 1 + s[i].value]
  <2>1. \A i \in 0 .. n : f[i] = IF i = 0 THEN 0 ELSE f[i - 1] + 1 + s[i].value
    BY <1>1, <1>4
  <2> QED  BY <1>3, <2>1
<1>6. size = [i \in 0 .. n |-> IF i = 0 THEN 0 ELSE size[i - 1] + 1 + s[i].value]
  <2> HIDE DEF n
  <2> QED  BY <1>5
<1>7. size[n] = f[n]
  <2> HIDE DEF size
  <2>1. \A i \in 0 .. n : size[i] = IF i = 0 THEN 0 ELSE size[i - 1] + 1 + s[i].value
    BY <1>6
  <2>2. size[0] = f[0]
    BY <1>1, <1>4, <2>1
  <2> HIDE DEF n
  <2>3. \A i \in 1 .. n : size[i - 1] = f[i - 1] => size[i] = f[i]
    <3>1. SUFFICES ASSUME NEW i \in 1 .. n, size[i - 1] = f[i - 1] PROVE size[i] = f[i]
      OBVIOUS
    <3>2. i \in 0 .. n /\ i # 0
      BY <1>1
    <3>3. size[i] = size[i - 1] + 1 + s[i].value
      BY <2>1, <3>2
    <3>4. f[i] = f[i - 1] + 1 + s[i].value
      BY <1>4
    <3> QED  BY <3>1, <3>3, <3>4
  <2> QED  BY <1>1, <2>2, <2>3, GoOnAlike
<1>8. ByteSize(s) = size[n]
  BY DEF ByteSize
<1>9. f[n] \in Nat
  <2> HIDE DEF n
  <2>1. n \in 0 .. n
    BY <1>1
  <2> QED  BY <1>3, <2>1
<1> QED  BY <1>7, <1>8, <1>9

\* A map with no field has no values.
LEMMA NoFields ==
    ASSUME NEW name
    PROVE  Store!ValuesOf(<<>>, name) = <<>> /\ Store!Without(<<>>, name) = <<>>
<1> DEFINE values == [entry \in Store!Field |-> IF entry.name = name THEN <<entry.value>> ELSE <<>>]
           others == [entry \in Store!Field |-> IF entry.name # name THEN <<entry>> ELSE <<>>]
<1>1. values \in [Store!Field -> Seq(Value)] /\ others \in [Store!Field -> Seq(Store!Field)]
  <2>1. values \in [Store!Field -> Seq(Value)]
    BY DEF Store!Field
  <2>2. others \in [Store!Field -> Seq(Store!Field)]
    OBVIOUS
  <2> QED  BY <2>1, <2>2
<1>2. Store!ValuesOf(<<>>, name) = Store!Collect(<<>>, values)
      /\ Store!Without(<<>>, name) = Store!Collect(<<>>, others)
  BY DEF Store!ValuesOf, Store!Without
<1> HIDE DEF values, others
<1> QED  BY <1>1, <1>2, CollectNone

\* One field more adds its value to those of its name.
LEMMA ValuesMore ==
    ASSUME NEW s \in Seq(Store!Field), NEW e \in Store!Field, NEW name
    PROVE  /\ Store!ValuesOf(s, name) \in Seq(Value)
           /\ e.name = name => Store!ValuesOf(Append(s, e), name) = Append(Store!ValuesOf(s, name), e.value)
           /\ e.name # name => Store!ValuesOf(Append(s, e), name) = Store!ValuesOf(s, name)
<1> DEFINE pick == [entry \in Store!Field |-> IF entry.name = name THEN <<entry.value>> ELSE <<>>]
<1>1. e.value \in Value /\ pick[e] = IF e.name = name THEN <<e.value>> ELSE <<>>
  BY DEF Store!Field
<1>2. pick \in [Store!Field -> Seq(Value)]
  BY DEF Store!Field
<1>3. \A t : Store!ValuesOf(t, name) = Store!Collect(t, pick)
  BY DEF Store!ValuesOf
<1> HIDE DEF pick
<1>4. /\ Store!Collect(s, pick) \in Seq(Value)
      /\ Store!Collect(Append(s, e), pick) = Store!Collect(s, pick) \o pick[e]
  BY <1>2, CollectMore
<1> DEFINE known == Store!Collect(s, pick)
<1>5. known \in Seq(Value) /\ Store!ValuesOf(s, name) = known
      /\ Store!ValuesOf(Append(s, e), name) = known \o pick[e]
  BY <1>3, <1>4
<1> HIDE DEF known
<1>6. known \o <<>> = known /\ known \o <<e.value>> = Append(known, e.value)
  BY <1>1, <1>5, ConcatEmptySeq, AppendIsConcat
<1> QED  BY <1>1, <1>3, <1>4, <1>5, <1>6

\* One field more is left out when it has the name.
LEMMA WithoutMore ==
    ASSUME NEW s \in Seq(Store!Field), NEW e \in Store!Field, NEW name
    PROVE  /\ Store!Without(s, name) \in Seq(Store!Field)
           /\ e.name # name => Store!Without(Append(s, e), name) = Append(Store!Without(s, name), e)
           /\ e.name = name => Store!Without(Append(s, e), name) = Store!Without(s, name)
<1> DEFINE pick == [entry \in Store!Field |-> IF entry.name # name THEN <<entry>> ELSE <<>>]
<1>1. pick[e] = IF e.name # name THEN <<e>> ELSE <<>>
  OBVIOUS
<1>2. pick \in [Store!Field -> Seq(Store!Field)]
  OBVIOUS
<1>3. \A t : Store!Without(t, name) = Store!Collect(t, pick)
  BY DEF Store!Without
<1> HIDE DEF pick
<1>4. /\ Store!Collect(s, pick) \in Seq(Store!Field)
      /\ Store!Collect(Append(s, e), pick) = Store!Collect(s, pick) \o pick[e]
  BY <1>2, CollectMore
<1> DEFINE known == Store!Collect(s, pick)
<1>5. known \in Seq(Store!Field) /\ Store!Without(s, name) = known
      /\ Store!Without(Append(s, e), name) = known \o pick[e]
  BY <1>3, <1>4
<1> HIDE DEF known
<1>6. known \o <<>> = known /\ known \o <<e>> = Append(known, e)
  BY <1>1, <1>5, ConcatEmptySeq, AppendIsConcat
<1> QED  BY <1>1, <1>3, <1>4, <1>5, <1>6

\* Removing a name takes its values away, and no others.
LEMMA ValuesOfWithout ==
    ASSUME NEW name, NEW s \in Seq(Store!Field)
    PROVE  /\ Store!ValuesOf(Store!Without(s, name), name) = <<>>
           /\ \A other : other # name =>
                  Store!ValuesOf(Store!Without(s, name), other) = Store!ValuesOf(s, other)
<1> DEFINE Holds(t) == /\ Store!ValuesOf(Store!Without(t, name), name) = <<>>
                       /\ \A other : other # name =>
                              Store!ValuesOf(Store!Without(t, name), other) = Store!ValuesOf(t, other)
           Good == {n \in Nat : \A t \in Seq(Store!Field) : Len(t) = n => Holds(t)}
<1>1. ASSUME NEW t \in Seq(Store!Field), NEW e \in Store!Field, Holds(t)
      PROVE  Holds(Append(t, e))
  <2>1. /\ Store!Without(t, name) \in Seq(Store!Field)
        /\ e.name # name => Store!Without(Append(t, e), name) = Append(Store!Without(t, name), e)
        /\ e.name = name => Store!Without(Append(t, e), name) = Store!Without(t, name)
    BY <1>1, WithoutMore
  <2>4. CASE e.name = name
    <3>1. \A other : other # name => Store!ValuesOf(Append(t, e), other) = Store!ValuesOf(t, other)
      BY <1>1, <2>4, ValuesMore
    <3> QED  BY <1>1, <2>1, <2>4, <3>1
  <2>5. CASE e.name # name
    <3> DEFINE left == Store!Without(t, name)
    <3>1. left \in Seq(Store!Field) /\ Store!Without(Append(t, e), name) = Append(left, e)
      BY <2>1, <2>5
    <3> HIDE DEF left
    <3>2. \A other : /\ other # e.name => /\ Store!ValuesOf(Append(left, e), other) = Store!ValuesOf(left, other)
                                          /\ Store!ValuesOf(Append(t, e), other) = Store!ValuesOf(t, other)
                     /\ other = e.name =>
                           /\ Store!ValuesOf(Append(left, e), other) = Append(Store!ValuesOf(left, other), e.value)
                           /\ Store!ValuesOf(Append(t, e), other) = Append(Store!ValuesOf(t, other), e.value)
      BY <1>1, <3>1, ValuesMore
    <3> QED  BY <1>1, <2>5, <3>1, <3>2 DEF left
  <2> QED  BY <2>4, <2>5
<1>2. Holds(<<>>)
  <2>1. Store!Without(<<>>, name) = <<>> /\ \A other : Store!ValuesOf(<<>>, other) = <<>>
    BY NoFields
  <2> QED  BY <2>1
<1> HIDE DEF Holds
<1>3. 0 \in Good
  <2>1. ASSUME NEW t \in Seq(Store!Field), Len(t) = 0
        PROVE  Holds(t)
    <3>1. t = <<>>
      BY <2>1, EmptySeq
    <3> QED  BY <1>2, <3>1
  <2> QED  BY <2>1
<1>4. ASSUME NEW n \in Good
      PROVE  n + 1 \in Good
  <2>1. ASSUME NEW t \in Seq(Store!Field), Len(t) = n + 1
        PROVE  Holds(t)
    <3>0. n \in Nat
      BY <1>4
    <3> HIDE DEF Good
    <3>1. PICK u \in Seq(Store!Field), e \in Store!Field : Len(u) = n /\ t = Append(u, e)
      BY <2>1, <3>0, SeqSplits
    <3> USE DEF Good
    <3>2. Holds(u)
      BY <1>4, <3>1
    <3> QED  BY <1>1, <3>1, <3>2
  <2> QED  BY <1>4, <2>1
<1>5. Good = Nat
  <2>1. Good \in SUBSET Nat
    OBVIOUS
  <2> HIDE DEF Good
  <2> QED  BY <1>3, <1>4, <2>1, SetInduction
<1>6. Len(s) \in Good
  BY <1>5, LenProperties
<1>7. Holds(s)
  BY <1>6
<1> QED  BY <1>7 DEF Holds

-----------------------------------------------------------------------------
(* Where headers_ points to while a message is in the filter               *)

\* What was passed on stays passed on, and trailers that came in stay there.
Ahead ==
    \A d \in Dir : /\ ps[d].seenTrailers => ps'[d].seenTrailers
                   /\ out[d] # <<>> => out'[d] # <<>>

\* No message enters or leaves the filter with its headers.
Onward ==
    /\ Ahead
    /\ \A d \in Dir : ps[d].state = "WaitingHeader" => ps'[d].state = "WaitingHeader"
    /\ closed => closed'
    /\ hasDestroyed => hasDestroyed'
    /\ UNCHANGED <<headers, enterEncoding>>

LEMMA OnwardKeepsReached ==
    ASSUME TypeOK, HeadersReached, Onward
    PROVE  HeadersReached'
<1>1. Cur' = Cur /\ Cur \in Dir
  BY DEF Onward, Cur, Dir
<1> QED  BY <1>1 DEF HeadersReached, Onward, Ahead

\* One processor state changes.
LEMMA OneAhead ==
    ASSUME TypeOK, NEW d \in Dir, NEW p, ps' = [ps EXCEPT ![d] = p],
           ps[d].seenTrailers => p.seenTrailers,
           \A e \in Dir : out[e] # <<>> => out'[e] # <<>>
    PROVE  /\ Ahead
           /\ ps'[d] = p /\ \A e \in Dir : e # d => ps'[e] = ps[e]
  BY DEF TypeOK, Ahead

LEMMA ConcatNotEmpty ==
    ASSUME NEW s \in Seq(Item), NEW t \in Seq(Item)
    PROVE  /\ s \o t \in Seq(Item)
           /\ s # <<>> \/ t # <<>> => s \o t # <<>>
<1>1. s \o t \in Seq(Item) /\ Len(s \o t) = Len(s) + Len(t)
  BY ConcatProperties
<1>2. Len(s) \in Nat /\ Len(t) \in Nat /\ (s # <<>> => Len(s) # 0) /\ (t # <<>> => Len(t) # 0)
  BY LenProperties, EmptySeq
<1> DEFINE both == s \o t
<1>3. both \in Seq(Item) /\ Len(both) = Len(s) + Len(t)
  BY <1>1
<1> HIDE DEF both
<1>4. s # <<>> \/ t # <<>> => both # <<>>
  BY <1>2, <1>3
<1> QED  BY <1>3, <1>4 DEF both

LEMMA PassedAhead ==
    ASSUME TypeOK, NEW d \in Dir, NEW items \in Seq(Item), out' = Passed(d, items)
    PROVE  /\ \A e \in Dir : out[e] # <<>> => out'[e] # <<>>
           /\ Open(d) => out'[d] # <<>>
<1> DEFINE known == out[d]
           first == IF known = <<>> THEN <<Hdr>> ELSE <<>>
<1>1. known \in Seq(Item)
  BY DEF TypeOK
<1>2. first \in Seq(Item) /\ (known = <<>> => first # <<>>)
  <2>1. Hdr \in Item
    BY DEF Item
  <2> QED  BY <2>1
<1>3. CASE ~Open(d)
  BY <1>3 DEF Passed
<1>4. CASE Open(d)
  <2>1. out' = [out EXCEPT ![d] = known \o first \o items]
    BY <1>4 DEF Passed
  <2>2. out'[d] = known \o first \o items /\ \A e \in Dir : e # d => out'[e] = out[e]
    BY <2>1 DEF TypeOK
  <2>3. known \o first \o items # <<>>
    <3> DEFINE start == known \o first
    <3>1. start \in Seq(Item) /\ start # <<>>
      <4> HIDE DEF first, known
      <4> QED  BY <1>1, <1>2, ConcatNotEmpty
    <3> HIDE DEF start
    <3>2. start \o items # <<>>
      BY <3>1, ConcatNotEmpty
    <3> QED  BY <3>2 DEF start
  <2> QED  BY <2>2, <2>3
<1> QED  BY <1>3, <1>4

\* What Go answers about data and trailers.
LEMMA AnswerAhead ==
    ASSUME NEW p \in Processor, NEW status
    PROVE  /\ HandleGolangStatus(p, status).seenTrailers = p.seenTrailers
           /\ HandleHeaderGolangStatus(p, status).seenTrailers = p.seenTrailers
           /\ HandleDataGolangStatus(p, status).seenTrailers = p.seenTrailers
           /\ HandleTrailerGolangStatus(p, status).seenTrailers = p.seenTrailers
           /\ ClearAll(p).seenTrailers = p.seenTrailers /\ ClearAll(p).state = p.state
           /\ TakeBuffer(p).seenTrailers = p.seenTrailers /\ TakeBuffer(p).state = p.state
           /\ p.state = "WaitingHeader" => HandleGolangStatus(p, status).state = "WaitingHeader"
  BY DEF HandleGolangStatus, HandleHeaderGolangStatus, HandleDataGolangStatus, HandleTrailerGolangStatus,
         ClearAll, TakeBuffer, ClearLatest, Processor

\* Nothing is passed on, and one processor state goes on.
LEMMA OneOnward ==
    ASSUME TypeOK, NEW d \in Dir, NEW p, ps' = [ps EXCEPT ![d] = p],
           ps[d].seenTrailers => p.seenTrailers,
           ps[d].state = "WaitingHeader" => p.state = "WaitingHeader",
           \A e \in Dir : out[e] # <<>> => out'[e] # <<>>,
           closed => closed', UNCHANGED <<filterVars>>
    PROVE  Onward
<1>1. ps'[d] = p /\ \A e \in Dir : e # d => ps'[e] = ps[e]
  BY DEF TypeOK
<1>2. Ahead
  BY <1>1 DEF Ahead
<1> QED  BY <1>1, <1>2 DEF Onward, filterVars, lifeVars, replyVars

LEMMA DoDataOnward ==
    ASSUME TypeOK, NEW d \in Dir, NEW data, NEW endStream, NEW rest,
           DoData(d, data, endStream, rest), UNCHANGED <<filterVars, posted, out, dropped>>
    PROVE  Onward
<1> DEFINE p == [ps[d] EXCEPT !.endStream = endStream]
           q == AddBufferData(p, data, Limit)
<1>1. ps[d] \in Processor
  BY DEF TypeOK
<1>2. /\ p.seenTrailers = ps[d].seenTrailers /\ p.state = ps[d].state
      /\ q.seenTrailers = ps[d].seenTrailers /\ q.state = ps[d].state
      /\ \A x : /\ Push(ProcessData(p, endStream), x).seenTrailers = ps[d].seenTrailers
                /\ Push(ProcessData(TakeBuffer(q), TRUE), x).seenTrailers = ps[d].seenTrailers
  BY <1>1 DEF Processor, AddBufferData, Push, ProcessData, TakeBuffer
<1>3. /\ closed => closed'
      /\ \E r : /\ ps' = [ps EXCEPT ![d] = r]
                /\ r.seenTrailers = ps[d].seenTrailers
                /\ ps[d].state = "WaitingHeader" => r.state = "WaitingHeader"
  <2>1. CASE p.state = "WaitingData" \/ (p.state = "WaitingAllData" /\ endStream /\ p.dataBuffer = <<>>)
    BY <1>2, <2>1 DEF DoData, DoDataGo
  <2>2. CASE p.state = "WaitingAllData" /\ endStream /\ p.dataBuffer # <<>>
    BY <1>2, <2>2 DEF DoData, DoDataGo, Reply413
  <2>3. CASE (p.state = "WaitingAllData" /\ ~endStream) \/ p.state \in {"ProcessingHeader", "ProcessingData"}
    BY <1>2, <2>3 DEF DoData, Reply413
  <2>4. CASE p.state \notin {"WaitingData", "WaitingAllData", "ProcessingHeader", "ProcessingData"}
    BY <1>2, <2>4 DEF DoData
  <2> HIDE DEF p, q
  <2> QED  BY <2>1, <2>2, <2>3, <2>4
<1> HIDE DEF p, q
<1> QED  BY <1>3, OneOnward

LEMMA DoTrailerOnward ==
    ASSUME TypeOK, NEW d \in Dir, DoTrailer(d)
    PROVE  Onward
<1> DEFINE p == SeeTrailers(d)[d]
<1>1. ps[d] \in Processor
  BY DEF TypeOK
<1>2. p = [ps[d] EXCEPT !.seenTrailers = TRUE]
  BY DEF SeeTrailers, TypeOK
<1>3. /\ p.seenTrailers /\ p.state = ps[d].state
      /\ ProcessTrailer(p).seenTrailers
      /\ \A x, b : Push(ProcessData(TakeBuffer(p), b), x).seenTrailers
  BY <1>1, <1>2 DEF Processor, Push, ProcessData, ProcessTrailer, TakeBuffer
<1>4. \E r : /\ ps' = [ps EXCEPT ![d] = r] /\ r.seenTrailers
             /\ ps[d].state = "WaitingHeader" => r.state = "WaitingHeader"
  <2>1. CASE p.state \in {"WaitingTrailer", "WaitingData"}
    BY <1>3, <2>1 DEF DoTrailer, DoTrailerGo
  <2>2. CASE p.state = "WaitingAllData" /\ p.dataBuffer # <<>>
    BY <1>3, <2>2 DEF DoTrailer, DoDataGo
  <2>3. CASE ~(p.state \in {"WaitingTrailer", "WaitingData"}) /\ ~(p.state = "WaitingAllData" /\ p.dataBuffer # <<>>)
    BY <1>3, <2>3 DEF DoTrailer
  <2> HIDE DEF p
  <2> QED  BY <2>1, <2>2, <2>3
<1>5. PICK r : /\ ps' = [ps EXCEPT ![d] = r] /\ r.seenTrailers
               /\ ps[d].state = "WaitingHeader" => r.state = "WaitingHeader"
  BY <1>4
<1>6. ps'[d] = r /\ \A e \in Dir : e # d => ps'[e] = ps[e]
  BY <1>5 DEF TypeOK
<1>7. UNCHANGED <<lifeVars, replyVars, headers, out, closed>>
  BY DEF DoTrailer
<1>8. Ahead
  BY <1>5, <1>6, <1>7 DEF Ahead
<1> QED  BY <1>5, <1>6, <1>7, <1>8 DEF Onward, lifeVars, replyVars

\* The headers of the request enter Go, or stay out of it with those of a reply.
LEMMA DecodeHeadersReached ==
    ASSUME StreamInv, dynamicLib, NEW endStream \in BOOLEAN, DecodeHeaders(endStream)
    PROVE  Ahead /\ HeadersReached'
<1> DEFINE procs == SetEndStream("decode", endStream)
<1>1. CanFeed("decode") /\ DoHeadersGo("decode", procs, endStream, "doHeaders", stack)
      /\ UNCHANGED <<enterEncoding, out>>
  BY DEF DecodeHeaders, Bypass, replyVars
<1>2. ~enterEncoding
  BY <1>1, RequestIsCurrent DEF StreamInv
<1>3. headers' = Cur'
  BY <1>1, <1>2 DEF DoHeadersGo, Cur
<1>4. \A d \in Dir : ps'[d].seenTrailers = ps[d].seenTrailers
  <2>1. ps \in [Dir -> Processor] /\ "decode" \in Dir
    BY DEF StreamInv, SerialInv, TypeOK, Dir
  <2>2. ps' = [procs EXCEPT !["decode"] = ProcessHeader(@, endStream)]
    BY <1>1 DEF DoHeadersGo
  <2> QED  BY <2>1, <2>2 DEF SetEndStream, ProcessHeader, Processor
<1> QED  BY <1>1, <1>3, <1>4 DEF Ahead, HeadersReached

LEMMA EncodeHeadersReached ==
    ASSUME StreamInv, HeadersReached, dynamicLib, NEW endStream \in BOOLEAN, NEW rest,
           EncodeHeaders(endStream, rest)
    PROVE  Ahead /\ HeadersReached'
<1> DEFINE procs == SetEndStream("encode", endStream)
<1>1. ps \in [Dir -> Processor] /\ "encode" \in Dir /\ Cur \in Dir /\ TypeOK
  BY DEF StreamInv, SerialInv, TypeOK, Dir, Cur
<1>2. procs \in [Dir -> Processor] /\ \A d \in Dir : /\ procs[d].seenTrailers = ps[d].seenTrailers
                                                     /\ procs[d].state = ps[d].state
  BY <1>1 DEF SetEndStream, Processor
<1> HIDE DEF procs
<1>3. CASE InGo(ps[Cur])
  <2>1. ps' = [procs EXCEPT ![Cur] = TakeBuffer(@)] /\ UNCHANGED <<headers, enterEncoding, out, closed, hasDestroyed>>
    BY <1>3 DEF EncodeHeaders, Bypass, lifeVars, procs
  <2>2. \A d \in Dir : ps'[d].seenTrailers = ps[d].seenTrailers /\ ps'[d].state = ps[d].state
    <3>1. TakeBuffer(procs[Cur]).seenTrailers = procs[Cur].seenTrailers
          /\ TakeBuffer(procs[Cur]).state = procs[Cur].state
      BY <1>1, <1>2 DEF TakeBuffer, Processor
    <3> QED  BY <1>1, <1>2, <2>1, <3>1
  <2>3. Onward
    BY <2>1, <2>2 DEF Onward, Ahead
  <2> QED  BY <1>1, <2>3, OnwardKeepsReached DEF Onward
<1>4. CASE ~InGo(ps[Cur])
  <2>1. PICK new \in {procs, [procs EXCEPT ![Cur] = ClearAll(TakeBuffer(@))]} :
            DoHeadersGo("encode", new, endStream, "doHeaders", rest)
    BY <1>4 DEF EncodeHeaders, Bypass, procs
  <2>2. enterEncoding' = TRUE /\ UNCHANGED out
    BY <1>4 DEF EncodeHeaders, Bypass
  <2>3. new \in [Dir -> Processor] /\ \A d \in Dir : new[d].seenTrailers = ps[d].seenTrailers
    <3>1. ClearAll(TakeBuffer(procs[Cur])) \in Processor
          /\ ClearAll(TakeBuffer(procs[Cur])).seenTrailers = procs[Cur].seenTrailers
      <4>1. procs[Cur] \in Processor
        BY <1>1, <1>2
      <4>2. TakeBuffer(procs[Cur]) \in Processor
        BY <4>1, ListTypes
      <4>3. ClearAll(TakeBuffer(procs[Cur])) \in Processor
        BY <4>2, ListTypes
      <4> QED  BY <4>1, <4>2, <4>3, AnswerAhead
    <3> QED  BY <1>1, <1>2, <3>1
  <2>4. ps' = [new EXCEPT !["encode"] = ProcessHeader(@, endStream)] /\ headers' = "encode"
    BY <2>1 DEF DoHeadersGo
  <2>5. \A d \in Dir : ps'[d].seenTrailers = ps[d].seenTrailers
    BY <1>1, <2>3, <2>4 DEF ProcessHeader, Processor
  <2> QED  BY <2>2, <2>4, <2>5 DEF Ahead, HeadersReached, Cur
<1> QED  BY <1>3, <1>4

LEMMA EncodeDataOnward ==
    ASSUME TypeOK, dynamicLib, NEW data, NEW endStream, NEW rest, EncodeData(data, endStream, rest)
    PROVE  Onward
<1> DEFINE p == AddBufferData([ps["encode"] EXCEPT !.endStream = endStream], data, Limit)
<1>1. "encode" \in Dir /\ ps["encode"] \in Processor
  BY DEF TypeOK, Dir
<1>2. CASE localReplyWaitingGo
  <2>1. ps' = [ps EXCEPT !["encode"] = p] /\ UNCHANGED <<filterVars, out, closed>>
    BY <1>2 DEF EncodeData, Bypass
  <2>2. p.seenTrailers = ps["encode"].seenTrailers /\ p.state = ps["encode"].state
    BY <1>1 DEF AddBufferData, Processor
  <2> HIDE DEF p
  <2> QED  BY <1>1, <2>1, <2>2, OneOnward
<1>3. CASE ~localReplyWaitingGo
  BY <1>1, <1>3, DoDataOnward DEF EncodeData, Bypass
<1> QED  BY <1>2, <1>3

LEMMA ReceiveReached ==
    ASSUME StreamInv, HeadersReached, dynamicLib, Receive
    PROVE  Ahead /\ HeadersReached'
<1>1. TypeOK /\ "encode" \in Dir /\ "decode" \in Dir
  BY DEF StreamInv, SerialInv, Dir
<1>2. ASSUME NEW endStream \in BOOLEAN, DecodeHeaders(endStream)
      PROVE  Ahead /\ HeadersReached'
  BY <1>2, DecodeHeadersReached
<1>3. ASSUME NEW data, NEW endStream, DecodeData(data, endStream)
      PROVE  Onward
  BY <1>1, <1>3, DoDataOnward DEF DecodeData, Bypass
<1>4. ASSUME NEW endStream \in BOOLEAN, ResponseHeaders(endStream)
      PROVE  Ahead /\ HeadersReached'
  BY <1>4, EncodeHeadersReached DEF ResponseHeaders
<1>5. ASSUME NEW data, NEW endStream, ResponseData(data, endStream)
      PROVE  Onward
  BY <1>1, <1>5, EncodeDataOnward DEF ResponseData
<1>6. ASSUME DecodeTrailers
      PROVE  Onward
  BY <1>1, <1>6, DoTrailerOnward DEF DecodeTrailers, Bypass
<1>7. ASSUME EncodeTrailers
      PROVE  Onward
  <2>1. CASE localReplyWaitingGo
    <3>1. ps' = SeeTrailers("encode") /\ UNCHANGED <<lifeVars, headers, enterEncoding, out, closed>>
      BY <1>7, <2>1 DEF EncodeTrailers, Bypass
    <3>2. \A d \in Dir : (ps[d].seenTrailers => ps'[d].seenTrailers) /\ ps'[d].state = ps[d].state
      BY <1>1, <3>1 DEF SeeTrailers, TypeOK, Processor
    <3> QED  BY <3>1, <3>2 DEF Onward, Ahead, lifeVars
  <2>2. CASE ~localReplyWaitingGo
    BY <1>1, <1>7, <2>2, DoTrailerOnward DEF EncodeTrailers, Bypass
  <2> QED  BY <2>1, <2>2
<1>8. Onward => Ahead /\ HeadersReached'
  BY <1>1, OnwardKeepsReached DEF Onward
<1> QED  BY <1>2, <1>3, <1>4, <1>5, <1>6, <1>7, <1>8 DEF Receive

\* What an answer changes: the processor state that was in Go, and what it passes on.
LEMMA AnswerOnward ==
    ASSUME TypeOK, NEW d \in Dir, NEW status, NEW n,
           n \in {HandleGolangStatus(ps[d], status), ClearAll(HandleGolangStatus(ps[d], status))},
           HandleGolangStatus(ps[d], status) \in Processor,
           ps' = [ps EXCEPT ![d] = n],
           out' = out \/ \E items \in Seq(Item) : out' = Passed(d, items),
           UNCHANGED <<enterEncoding, hasDestroyed, closed>>
    PROVE  Ahead /\ (headers' = headers => Onward)
<1>1. /\ n.seenTrailers = ps[d].seenTrailers
      /\ ps[d].state = "WaitingHeader" => n.state = "WaitingHeader"
  <2>1. ps[d] \in Processor
    BY DEF TypeOK
  <2> QED  BY <2>1, AnswerAhead
<1>2. \A e \in Dir : out[e] # <<>> => out'[e] # <<>>
  BY PassedAhead
<1>3. Ahead /\ ps'[d] = n /\ \A e \in Dir : e # d => ps'[e] = ps[e]
  BY <1>1, <1>2, OneAhead
<1> QED  BY <1>1, <1>3 DEF Onward

LEMMA GoReturnReached ==
    ASSUME StreamInv, HeadersReached, GoReturn
    PROVE  Ahead /\ HeadersReached'
<1> PICK call \in go, status \in GolangStatus :
        \/ HeadersReturn(call, status)
        \/ DataReturn(call, status)
        \/ TrailerReturn(call, status)
        \/ TrailerDataReturn(call, status)
        \/ ResumeDataReturn(call, status)
        \/ ResumeTrailerReturn(call, status)
        \/ LocalReplyHeadersReturn(call, status)
  BY DEF GoReturn
<1> DEFINE d == call.dir
           q == HandleGolangStatus(ps[d], status)
<1>1. /\ {"doHeaders", "doData", "doTrailer", "doTrailerData", "localReplyHeaders",
          "resumeData", "resumeTrailer"} \subseteq GoFrames
      /\ FrameKind("doHeaders") = "headers" /\ FrameKind("localReplyHeaders") = "headers"
      /\ FrameKind("doData") = "data" /\ FrameKind("doTrailerData") = "data"
      /\ FrameKind("resumeData") = "data"
      /\ FrameKind("doTrailer") = "trailers" /\ FrameKind("resumeTrailer") = "trailers"
  BY DEF GoFrames, FrameKind
<1>2. /\ SerialInv /\ EndInv /\ TypeOK /\ call \in Call /\ call.end \in BOOLEAN
      /\ <<Trl>> \in Seq(Item) /\ <<>> \in Seq(Item) /\ EndIf(call.end) \in Seq(Item)
  <2>1. SerialInv /\ EndInv /\ TypeOK /\ call \in Call /\ call.end \in BOOLEAN
    BY DEF StreamInv, SerialInv, TypeOK, Call
  <2>2. <<Trl>> \in Seq(Item) /\ <<>> \in Seq(Item) /\ \A b \in BOOLEAN : EndIf(b) \in Seq(Item)
    BY ItemTypes
  <2> QED  BY <2>1, <2>2
<1>3. UNCHANGED <<enterEncoding, hasDestroyed, closed>>
  BY DEF HeadersReturn, DataReturn, TrailerReturn, TrailerDataReturn, ResumeDataReturn,
         ResumeTrailerReturn, LocalReplyHeadersReturn, filterVars, lifeVars, replyVars
<1> HIDE DEF q
<1>4. ASSUME NEW at \in GoFrames, GoReturns(at, call, status)
      PROVE  /\ d = Cur /\ d \in Dir /\ q = HandleGolangStatus(ps[d], status)
             /\ q \in Processor /\ Flags(q, fed[d]) /\ fed[d] # <<>> /\ ps[d] \in Processor
             /\ ~hasDestroyed /\ ~closed /\ dynamicLib
             /\ DataList(q) \o EndIf(call.end) \in Seq(Item)
  <2>1. d = Cur /\ q = HandleGolangStatus(ps[Cur], status)
    BY <1>2, <1>4, GoFrame DEF q
  <2>2. /\ d \in Dir /\ q \in Processor /\ Flags(q, fed[d]) /\ fed[d] # <<>>
        /\ ~hasDestroyed /\ ~closed /\ dynamicLib
    BY <1>2, <1>4, <2>1, AnswerMarks
  <2>3. DataList(q) \o EndIf(call.end) \in Seq(Item)
    BY <1>2, <2>2, MarkedItems, DataListType
  <2> QED  BY <1>2, <2>1, <2>2, <2>3 DEF TypeOK
<1> DEFINE Moves == \E n \in {q, ClearAll(q)} : ps' = [ps EXCEPT ![d] = n]
           Passes == out' = out \/ \E items \in Seq(Item) : out' = Passed(d, items)
<1>5. ASSUME NEW at \in GoFrames, GoReturns(at, call, status), Moves, Passes
      PROVE  Ahead /\ (headers' = headers => Onward)
  <2>1. PICK n \in {q, ClearAll(q)} : ps' = [ps EXCEPT ![d] = n]
    BY <1>5
  <2>2. /\ d \in Dir /\ q \in Processor /\ HandleGolangStatus(ps[d], status) = q
        /\ n \in {HandleGolangStatus(ps[d], status), ClearAll(HandleGolangStatus(ps[d], status))}
    BY <1>4, <1>5, <2>1
  <2>3. HandleGolangStatus(ps[d], status) \in Processor
    BY <2>2
  <2> HIDE DEF d
  <2> QED  BY <1>2, <1>3, <1>5, <2>1, <2>2, <2>3, AnswerOnward
<1>6. Onward => Ahead /\ HeadersReached'
  BY <1>2, OnwardKeepsReached DEF Onward
<1>7. CASE HeadersReturn(call, status)
  <2>1. GoReturns("doHeaders", call, status) /\ stack' = Tail(stack) /\ "doHeaders" \in GoFrames
    BY <1>1, <1>7 DEF HeadersReturn, Return
  <2>2. q = HandleHeaderGolangStatus(ps[d], status)
    BY <1>1, <1>2, <2>1, AnswerAt DEF q
  <2>3. ps' = [ps EXCEPT ![d] = q]
    BY <1>7, <2>2 DEF HeadersReturn
  <2>4. \/ out' = Passed(d, EndIf(call.end))
        \/ out' = out /\ headers' = headers
    BY <1>7 DEF HeadersReturn
  <2>5. Ahead /\ (headers' = headers => Onward)
    BY <1>2, <1>5, <2>1, <2>3, <2>4
  <2>6. CASE headers' = headers
    BY <1>6, <2>5, <2>6
  <2>7. CASE out' = Passed(d, EndIf(call.end))
    <3>1. d = Cur /\ d \in Dir /\ ~closed /\ ~hasDestroyed /\ dynamicLib /\ ~localReplyWaitingGo
      BY <1>2, <1>4, <2>1, GoFrame
    <3>2. d = "decode" => fed["encode"] = <<>>
      BY <1>2, <3>1 DEF SerialInv, FlowInv, StreamOrder, Cur
    <3>3. Open(d)
      BY <3>1, <3>2 DEF Open, Ended
    <3>4. out'[d] # <<>> /\ Cur' = d
      BY <1>2, <1>3, <2>7, <3>1, <3>3, PassedAhead DEF Cur
    <3> QED  BY <2>5, <3>4 DEF HeadersReached
  <2> QED  BY <2>4, <2>6, <2>7
<1>8. CASE DataReturn(call, status)
  <2>1. GoReturns("doData", call, status) /\ "doData" \in GoFrames /\ headers' = headers
    BY <1>1, <1>8 DEF DataReturn, filterVars
  <2>2. q = HandleDataGolangStatus(ps[d], status)
    BY <1>1, <1>2, <2>1, AnswerAt DEF q
  <2>3. \/ ps' = [ps EXCEPT ![d] = ClearAll(q)] /\ out' = Passed(d, DataList(q) \o EndIf(call.end))
        \/ ps' = [ps EXCEPT ![d] = q] /\ out' = out
    BY <1>8, <2>2 DEF DataReturn
  <2>4. Moves /\ Passes
    BY <1>4, <2>1, <2>3
  <2> QED  BY <1>5, <1>6, <2>1, <2>4
<1>9. CASE TrailerReturn(call, status)
  <2>1. GoReturns("doTrailer", call, status) /\ "doTrailer" \in GoFrames /\ headers' = headers
    BY <1>1, <1>9 DEF TrailerReturn, filterVars
  <2>2. q = HandleTrailerGolangStatus(ps[d], status)
    BY <1>1, <1>2, <2>1, AnswerAt DEF q
  <2>3. Moves /\ Passes
    BY <1>2, <1>9, <2>2 DEF TrailerReturn
  <2> QED  BY <1>5, <1>6, <2>1, <2>3
<1>10. CASE TrailerDataReturn(call, status)
  <2>1. GoReturns("doTrailerData", call, status) /\ "doTrailerData" \in GoFrames /\ headers' = headers
    BY <1>1, <1>10 DEF TrailerDataReturn, filterVars
  <2>2. q = HandleDataGolangStatus(ps[d], status)
    BY <1>1, <1>2, <2>1, AnswerAt DEF q
  <2>3. Moves /\ Passes
    BY <1>10, <2>2 DEF TrailerDataReturn
  <2> QED  BY <1>5, <1>6, <2>1, <2>3
<1>11. CASE ResumeDataReturn(call, status)
  <2>1. GoReturns("resumeData", call, status) /\ "resumeData" \in GoFrames /\ headers' = headers
    BY <1>1, <1>11 DEF ResumeDataReturn, filterVars
  <2>2. q = HandleDataGolangStatus(ps[d], status) /\ q \in Processor /\ d \in Dir
    BY <1>1, <1>2, <1>4, <2>1, AnswerAt DEF q
  <2>3. \/ ContinueDoData(d, q)
        \/ ps' = [ps EXCEPT ![d] = q] /\ out' = out
    BY <1>11, <2>2 DEF ResumeDataReturn
  <2>4. Moves /\ Passes
    BY <2>2, <2>3, ContinueDoDataItems
  <2> QED  BY <1>5, <1>6, <2>1, <2>4
<1>12. CASE ResumeTrailerReturn(call, status)
  <2>1. GoReturns("resumeTrailer", call, status) /\ "resumeTrailer" \in GoFrames /\ headers' = headers
    BY <1>1, <1>12 DEF ResumeTrailerReturn, filterVars
  <2>2. q = HandleTrailerGolangStatus(ps[d], status) /\ d \in Dir /\ fed[d] # <<>>
    BY <1>1, <1>2, <1>4, <2>1, AnswerAt DEF q
  <2>3. Moves /\ (out' = out \/ out' = Resumed(d))
    BY <1>12, <2>2 DEF ResumeTrailerReturn
  <2>4. Passes
    BY <2>2, <2>3, ResumedItems
  <2> QED  BY <1>5, <1>6, <2>1, <2>3, <2>4
<1>13. CASE LocalReplyHeadersReturn(call, status)
  <2>1. GoReturns("localReplyHeaders", call, status) /\ "localReplyHeaders" \in GoFrames /\ headers' = headers
    BY <1>1, <1>13 DEF LocalReplyHeadersReturn, filterVars
  <2>2. Tail(stack) = <<>>
    BY <1>1, <1>2, <2>1, AnswerAt DEF q
  <2>3. ContinueStatusInternal(d, status, <<>>)
    BY <1>13, <2>2 DEF LocalReplyHeadersReturn
  <2>4. Moves /\ Passes
    BY <1>4, <2>1, <2>3, ContinueStatusItems
  <2> QED  BY <1>5, <1>6, <2>1, <2>4
<1> QED  BY <1>7, <1>8, <1>9, <1>10, <1>11, <1>12, <1>13

LEMMA WorkerStepReached ==
    ASSUME StreamInv, HeadersReached, dynamicLib, WorkerStep
    PROVE  Ahead /\ HeadersReached'
<1>1. SerialInv /\ EndInv /\ TypeOK /\ stack # <<>>
  BY DEF StreamInv, SerialInv, WorkerStep, BufferFullReturns, TrailerAfterData, TrailersForwarded,
         ResumeData, ResumeTrailer, LocalReply, LocalReplyBody
<1>2. Onward => Ahead /\ HeadersReached'
  BY <1>1, OnwardKeepsReached DEF Onward
<1>3. ~BufferFullReturns
  <2>1. SUFFICES ASSUME BufferFullReturns PROVE FALSE
    OBVIOUS
  <2>2. stack # <<>> /\ Head(stack).at = "bufferFull" /\ "bufferFull" \notin GoFrames
    BY <2>1 DEF BufferFullReturns, GoFrames
  <2> QED  BY <1>1, <2>2, OnlyFrame DEF FrameFits
<1>4. ASSUME Head(stack).at \in Forwarding \cup {"checkData", "checkTrailer", "trailerAfterData"}
      PROVE  /\ Head(stack).dir = Cur /\ Cur \in Dir /\ ps[Cur] \in Processor
             /\ Head(stack).at = "trailerAfterData" => ps[Cur].state = "WaitingTrailer"
  BY <1>1, <1>4, FilterFrameEnd
<1>5. {"checkData", "forwarded", "checkTrailer", "forwardedData", "forwardedTrailerData"}
         \subseteq Forwarding \cup {"checkData", "checkTrailer", "trailerAfterData"}
  BY DEF Forwarding
<1>6. ASSUME NEW n, ps' = [ps EXCEPT ![Cur] = n], Cur \in Dir, n.seenTrailers = ps[Cur].seenTrailers,
             ps[Cur].state # "WaitingHeader", UNCHANGED <<filterVars, out, closed>>
      PROVE  Onward
  BY <1>1, <1>6, OneOnward
<1>7. ASSUME TrailerAfterData
      PROVE  Onward
  <2>1. /\ Head(stack).at = "trailerAfterData" /\ UNCHANGED <<filterVars, out, closed>>
        /\ DoTrailerGo(Head(stack).dir, ps[Head(stack).dir], "doTrailer", Tail(stack))
    BY <1>7 DEF TrailerAfterData, streamVars
  <2>2. ps' = [ps EXCEPT ![Cur] = ProcessTrailer(ps[Cur])]
        /\ ProcessTrailer(ps[Cur]).seenTrailers = ps[Cur].seenTrailers
    BY <1>4, <2>1 DEF DoTrailerGo, ProcessTrailer, Processor
  <2> QED  BY <1>4, <1>6, <2>1, <2>2
<1>8. ASSUME ResumeTrailer
      PROVE  Onward
  <2>1. /\ Head(stack).at \in {"checkTrailer", "forwardedData"} /\ UNCHANGED <<filterVars, out, closed>>
        /\ \/ /\ ps[Head(stack).dir].state = "WaitingTrailer"
              /\ DoTrailerGo(Head(stack).dir, ps[Head(stack).dir], "resumeTrailer", Tail(stack))
           \/ UNCHANGED ps
    BY <1>8 DEF ResumeTrailer, streamVars
  <2>2. Head(stack).dir = Cur /\ Cur \in Dir /\ ps[Cur] \in Processor
    BY <1>4, <1>5, <2>1
  <2>3. CASE UNCHANGED ps
    BY <2>1, <2>3 DEF Onward, Ahead, filterVars, lifeVars, replyVars
  <2>4. CASE /\ ps[Head(stack).dir].state = "WaitingTrailer"
             /\ DoTrailerGo(Head(stack).dir, ps[Head(stack).dir], "resumeTrailer", Tail(stack))
    <3>1. ps' = [ps EXCEPT ![Cur] = ProcessTrailer(ps[Cur])]
          /\ ProcessTrailer(ps[Cur]).seenTrailers = ps[Cur].seenTrailers
      BY <2>2, <2>4 DEF DoTrailerGo, ProcessTrailer, Processor
    <3> QED  BY <1>6, <2>1, <2>2, <2>4, <3>1
  <2> QED  BY <2>1, <2>3, <2>4
<1>9. ASSUME ResumeData
      PROVE  Onward
  <2> DEFINE p == ps[Cur]
  <2>1. Head(stack).at \in {"checkData", "forwarded"} /\ UNCHANGED <<filterVars, out, closed>>
    BY <1>9 DEF ResumeData, streamVars
  <2>2. Head(stack).dir = Cur /\ Cur \in Dir /\ p \in Processor
    BY <1>4, <1>5, <2>1
  <2>3. \/ UNCHANGED ps
        \/ MoreData(p) /\ DoDataGo(Cur, TakeBuffer(p), p.dataBuffer, p.endStream, "resumeData", Tail(stack))
    BY <1>9, <2>2 DEF ResumeData
  <2>4. CASE UNCHANGED ps
    BY <2>1, <2>4 DEF Onward, Ahead, filterVars, lifeVars, replyVars
  <2>5. CASE MoreData(p) /\ DoDataGo(Cur, TakeBuffer(p), p.dataBuffer, p.endStream, "resumeData", Tail(stack))
    <3> DEFINE n == Push(ProcessData(TakeBuffer(p), p.endStream), p.dataBuffer)
    <3>1. ps' = [ps EXCEPT ![Cur] = n] /\ p.state # "WaitingHeader"
      BY <2>5 DEF DoDataGo, MoreData
    <3>2. n.seenTrailers = p.seenTrailers
      BY <2>2 DEF Push, ProcessData, TakeBuffer, Processor
    <3> HIDE DEF n
    <3> QED  BY <1>6, <2>1, <2>2, <3>1, <3>2
  <2> QED  BY <2>3, <2>4, <2>5
<1>10. ASSUME TrailersForwarded
       PROVE  Onward
  <2> DEFINE d == Head(stack).dir
             items == CASE Last(fed[d]) = Trl                   -> <<Trl>>
                        [] Last(fed[d]) = End /\ out[d] = <<>>  -> <<End>>
                        [] OTHER                                -> <<>>
  <2>1. /\ Head(stack).at = "forwardedTrailerData" /\ UNCHANGED <<filterVars, ps, closed>>
        /\ out' = Resumed(d)
    BY <1>10 DEF TrailersForwarded
  <2>2. d \in Dir
    BY <1>4, <1>5, <2>1
  <2>3. Resumed(d) = Passed(d, items)
    BY DEF Resumed
  <2>4. items \in Seq(Item)
    <3>1. <<Trl>> \in Seq(Item) /\ <<End>> \in Seq(Item) /\ <<>> \in Seq(Item)
      BY ItemTypes
    <3> QED  BY <3>1
  <2> HIDE DEF items, d
  <2>5. \A e \in Dir : out[e] # <<>> => out'[e] # <<>>
    BY <1>1, <2>1, <2>2, <2>3, <2>4, PassedAhead
  <2> QED  BY <2>1, <2>5 DEF Onward, Ahead, filterVars, lifeVars, replyVars
<1>11. ASSUME LocalReply
       PROVE  Ahead /\ HeadersReached'
  <2>1. CASE fed["encode"] = <<>>
    <3>1. PICK body \in BOOLEAN :
             EncodeHeaders(~body, (IF body THEN <<At("replyBody", "encode")>> ELSE <<>>) \o Tail(stack))
      BY <1>11, <2>1 DEF LocalReply
    <3>2. PICK b \in BOOLEAN : b = ~body
      OBVIOUS
    <3> DEFINE rest == (IF body THEN <<At("replyBody", "encode")>> ELSE <<>>) \o Tail(stack)
    <3>3. EncodeHeaders(b, rest)
      BY <3>1, <3>2
    <3> HIDE DEF rest
    <3> QED  BY <3>3, EncodeHeadersReached
  <2>2. CASE fed["encode"] # <<>>
    <3>1. closed' /\ UNCHANGED <<filterVars, ps, out>>
      BY <1>11, <2>2 DEF LocalReply
    <3>2. Onward
      BY <3>1 DEF Onward, Ahead, filterVars, lifeVars, replyVars
    <3> QED  BY <1>2, <3>2
  <2> QED  BY <2>1, <2>2
<1>12. ASSUME LocalReplyBody
       PROVE  Onward
  BY <1>1, <1>12, EncodeDataOnward DEF LocalReplyBody
<1> QED  BY <1>2, <1>3, <1>7, <1>8, <1>9, <1>10, <1>11, <1>12 DEF WorkerStep

LEMMA ContinueEventOnward ==
    ASSUME StreamInv, ContinueEvent
    PROVE  Onward
<1> DEFINE call == posted[1].call
           status == posted[1].status
           q == HandleGolangStatus(ps[Cur], status)
<1>1. SerialInv /\ EndInv /\ TypeOK
  BY DEF StreamInv, SerialInv
<1>2. /\ NextEvent({"continue"})
      /\ ContinueStatusInternal(Cur, Head(posted).status, <<>>)
      /\ UNCHANGED <<filterVars, closed>>
  BY DEF ContinueEvent
<1>3. /\ Head(posted) = posted[1] /\ posted[1] \in Event
      /\ call \in Unanswered /\ call \in Call /\ dynamicLib /\ Cur \in Dir /\ ps[Cur] \in Processor
      /\ ps[Cur].state = Processing(call.kind) /\ ~call.refused /\ posted[1].act = "continue"
      /\ posted # <<>>
  BY <1>1, <1>2, TakenEvent DEF NextEvent
<1>4. status \in Allowed(call)
  <2>1. posted \in Seq(Event)
    BY <1>1 DEF TypeOK
  <2>2. Len(posted) = 1
    BY <1>1, <1>3, OnePosted DEF SerialInv, CallsInv
  <2>3. 1 \in DOMAIN posted
    BY <2>1, <2>2, LenProperties
  <2> QED  BY <1>1, <1>3, <2>3 DEF SerialInv, CallsInv, PostedIsAllowed
<1>5. call.end = ps[Cur].doEndStream /\ Flags(ps[Cur], fed[Cur]) /\ Sound(ps[Cur])
  BY <1>1, <1>3 DEF EndInv, EndsFit, MarksFit
<1>6. ContinueStatusInternal(Cur, status, <<>>)
  BY <1>2, <1>3
<1> HIDE DEF call, status
<1>7. q \in Processor /\ Flags(q, fed[Cur])
  BY <1>3, <1>4, <1>5, AnswersKeepMarks
<1>8. fed[Cur] # <<>>
  BY <1>1, <1>3, ProcessingIsInGo, WorkedOn DEF Call
<1>9. q = HandleGolangStatus(ps[Cur], status)
  OBVIOUS
<1> HIDE DEF q
<1>10. /\ \E n \in {q, ClearAll(q)} : ps' = [ps EXCEPT ![Cur] = n]
       /\ out' = out \/ \E items \in Seq(Item) : out' = Passed(Cur, items)
  BY <1>3, <1>6, <1>7, <1>8, <1>9, ContinueStatusItems
<1>11. PICK n \in {q, ClearAll(q)} : ps' = [ps EXCEPT ![Cur] = n]
  BY <1>10
<1>12. /\ n \in {HandleGolangStatus(ps[Cur], status), ClearAll(HandleGolangStatus(ps[Cur], status))}
       /\ HandleGolangStatus(ps[Cur], status) \in Processor
  BY <1>7, <1>9
<1>13. UNCHANGED <<enterEncoding, hasDestroyed, closed, headers>>
  BY <1>2 DEF filterVars, lifeVars, replyVars
<1> QED  BY <1>1, <1>3, <1>10, <1>11, <1>12, <1>13, AnswerOnward

LEMMA DispatchReached ==
    ASSUME StreamInv, HeadersReached, Dispatch
    PROVE  Ahead /\ HeadersReached'
<1>1. TypeOK /\ Cur \in Dir /\ "encode" \in Dir
  BY DEF StreamInv, SerialInv, Cur, Dir
<1>2. Onward => Ahead /\ HeadersReached'
  BY <1>1, OnwardKeepsReached DEF Onward
<1>3. ASSUME DropEvent
      PROVE  Onward
  BY <1>3 DEF DropEvent, Onward, Ahead, filterVars, lifeVars, replyVars, streamVars
<1>4. ASSUME ContinueEncodeLocalReply
      PROVE  Ahead /\ HeadersReached'
  <2> DEFINE procs == [ps EXCEPT ![Cur] = ClearAll(@)]
  <2>1. PICK b : DoHeadersGo("encode", procs, b, "localReplyHeaders", <<>>)
    BY <1>4 DEF ContinueEncodeLocalReply
  <2>2. enterEncoding' = TRUE /\ UNCHANGED out
    BY <1>4 DEF ContinueEncodeLocalReply, streamVars
  <2>3. ps' = [procs EXCEPT !["encode"] = ProcessHeader(@, b)] /\ headers' = "encode"
    BY <2>1 DEF DoHeadersGo
  <2>4. procs \in [Dir -> Processor] /\ \A d \in Dir : procs[d].seenTrailers = ps[d].seenTrailers
    <3>1. ps[Cur] \in Processor /\ ps \in [Dir -> Processor]
      BY <1>1 DEF TypeOK
    <3>2. ClearAll(ps[Cur]) \in Processor /\ ClearAll(ps[Cur]).seenTrailers = ps[Cur].seenTrailers
      BY <3>1, ListTypes, AnswerAhead
    <3> QED  BY <1>1, <3>1, <3>2
  <2> HIDE DEF procs
  <2>5. \A d \in Dir : ps'[d].seenTrailers = ps[d].seenTrailers
    BY <1>1, <2>3, <2>4 DEF ProcessHeader, Processor
  <2> QED  BY <2>2, <2>3, <2>5 DEF Ahead, HeadersReached, Cur
<1>5. ASSUME LocalReplyEvent
      PROVE  Onward
  <2> DEFINE p == ClearAll(TakeBuffer(ps[Cur]))
  <2>1. p.seenTrailers = ps[Cur].seenTrailers /\ p.state = ps[Cur].state /\ p \in Processor
    <3>1. ps[Cur] \in Processor
      BY <1>1 DEF TypeOK
    <3>2. TakeBuffer(ps[Cur]) \in Processor
      BY <3>1, ListTypes
    <3>3. p \in Processor
      BY <3>2, ListTypes
    <3> QED  BY <3>1, <3>2, <3>3, AnswerAhead
  <2>2. PICK r \in {p, [p EXCEPT !.state = "WaitingHeader"]} :
            ps' = [ps EXCEPT ![Cur] = r] /\ (closed => closed') /\ UNCHANGED <<filterVars, out>>
    BY <1>5 DEF LocalReplyEvent
  <2> HIDE DEF p
  <2>3. r.seenTrailers = ps[Cur].seenTrailers /\ (ps[Cur].state = "WaitingHeader" => r.state = "WaitingHeader")
    BY <2>1, <2>2 DEF Processor
  <2> QED  BY <1>1, <2>2, <2>3, OneOnward
<1> QED  BY <1>2, <1>3, <1>4, <1>5, ContinueEventOnward DEF Dispatch

LEMMA NextReached ==
    ASSUME StreamInv, HeadersReached, dynamicLib, Next
    PROVE  Ahead /\ HeadersReached'
<1>1. CASE Goroutine \/ OtherLocalReply \/ Destroy
  <2>1. UNCHANGED <<ps, out, closed, headers, enterEncoding>> /\ (hasDestroyed => hasDestroyed')
    <3>1. CASE Goroutine
      <4>1. PICK call, act, status : GoAnswers(call, act, status)
        BY <3>1 DEF Goroutine, Continue, SendLocalReply
      <4>2. UNCHANGED <<filterVars, ps, streamVars>>
        BY <4>1 DEF GoAnswers
      <4> QED  BY <4>2 DEF filterVars, lifeVars, replyVars, streamVars
    <3>2. CASE OtherLocalReply
      BY <3>2 DEF OtherLocalReply, filterVars, lifeVars, replyVars, streamVars
    <3>3. CASE Destroy
      BY <3>3 DEF Destroy, replyVars, streamVars
    <3> QED  BY <1>1, <3>1, <3>2, <3>3
  <2>2. Onward
    BY <2>1 DEF Onward, Ahead
  <2> QED  BY <2>2, OnwardKeepsReached DEF Onward, StreamInv, SerialInv
<1> QED  BY <1>1, ReceiveReached, WorkerStepReached, DispatchReached, GoReturnReached DEF Next

-----------------------------------------------------------------------------
(* What the operations do to a map and its copy                            *)

\* What is collected of the fields is a sequence.
LEMMA CollectType ==
    ASSUME NEW E, NEW T, NEW s \in Seq(E), NEW pick \in [E -> Seq(T)]
    PROVE  Store!Collect(s, pick) \in Seq(T)
<1>1. PICK f \in [0 .. Len(s) -> Seq(T)] : Collects(f, s, pick)
  BY CollectIsRecursive
<1>2. Len(s) \in 0 .. Len(s)
  BY LenProperties
<1> QED  BY <1>1, <1>2 DEF Collects

LEMMA FieldsType ==
    ASSUME NEW s \in Seq(Store!Field), NEW name
    PROVE  Store!ValuesOf(s, name) \in Seq(Value) /\ Store!Without(s, name) \in Seq(Store!Field)
<1> DEFINE values == [entry \in Store!Field |-> IF entry.name = name THEN <<entry.value>> ELSE <<>>]
           others == [entry \in Store!Field |-> IF entry.name # name THEN <<entry>> ELSE <<>>]
<1>1. values \in [Store!Field -> Seq(Value)] /\ others \in [Store!Field -> Seq(Store!Field)]
  <2>1. values \in [Store!Field -> Seq(Value)]
    BY DEF Store!Field
  <2>2. others \in [Store!Field -> Seq(Store!Field)]
    OBVIOUS
  <2> QED  BY <2>1, <2>2
<1>2. Store!ValuesOf(s, name) = Store!Collect(s, values) /\ Store!Without(s, name) = Store!Collect(s, others)
  BY DEF Store!ValuesOf, Store!Without
<1> HIDE DEF values, others
<1> QED  BY <1>1, <1>2, CollectType

LEMMA AsGoMapType ==
    ASSUME NEW s \in Seq(Store!Field)
    PROVE  AsGoMap(s) \in [Name -> Seq(Value)]
<1>1. \A name \in Name : Store!ValuesOf(s, name) \in Seq(Value)
  BY FieldsType
<1> QED  BY <1>1 DEF AsGoMap

\* A write changes the values of its name as it should, and no others.
LEMMA FieldAdded ==
    ASSUME NEW s \in Seq(Store!Field), NEW name \in Name, NEW value \in Value
    PROVE  /\ Store!With(s, name, value) \in Seq(Store!Field)
           /\ Store!ValuesOf(Store!With(s, name, value), name) = Append(Store!ValuesOf(s, name), value)
           /\ \A other : other # name =>
                  Store!ValuesOf(Store!With(s, name, value), other) = Store!ValuesOf(s, other)
<1> DEFINE e == [name |-> name, value |-> value]
<1>1. e \in Store!Field /\ e.name = name /\ e.value = value
  BY DEF Store!Field
<1>2. Store!With(s, name, value) = Append(s, e)
  BY DEF Store!With
<1> HIDE DEF e
<1>3. Append(s, e) \in Seq(Store!Field)
  BY <1>1, AppendProperties
<1>4. Store!ValuesOf(Append(s, e), name) = Append(Store!ValuesOf(s, name), value)
  BY <1>1, ValuesMore
<1>5. \A other : other # name => Store!ValuesOf(Append(s, e), other) = Store!ValuesOf(s, other)
  BY <1>1, ValuesMore
<1> QED  BY <1>2, <1>3, <1>4, <1>5

LEMMA FieldSet ==
    ASSUME NEW s \in Seq(Store!Field), NEW name \in Name, NEW value \in Value
    PROVE  LET entries == Store!With(Store!Without(s, name), name, value)
           IN  /\ entries \in Seq(Store!Field)
               /\ Store!ValuesOf(entries, name) = <<value>>
               /\ \A other : other # name => Store!ValuesOf(entries, other) = Store!ValuesOf(s, other)
<1> DEFINE left == Store!Without(s, name)
<1>1. /\ left \in Seq(Store!Field) /\ Store!ValuesOf(left, name) = <<>>
      /\ \A other : other # name => Store!ValuesOf(left, other) = Store!ValuesOf(s, other)
  BY FieldsType, ValuesOfWithout
<1> HIDE DEF left
<1>2. /\ Store!With(left, name, value) \in Seq(Store!Field)
      /\ Store!ValuesOf(Store!With(left, name, value), name) = Append(Store!ValuesOf(left, name), value)
      /\ \A other : other # name =>
             Store!ValuesOf(Store!With(left, name, value), other) = Store!ValuesOf(left, other)
  BY <1>1, FieldAdded
<1>3. Append(<<>>, value) = <<value>>
  OBVIOUS
<1> QED  BY <1>1, <1>2, <1>3 DEF left

LEMMA NewObjectType ==
    ASSUME NEW s \in Seq(Store!Field)
    PROVE  /\ NoObject \in Object /\ NewObject(s) \in Object
           /\ ~NoObject.given /\ ~NoObject.loaded
           /\ NewObject(s).given /\ ~NewObject(s).loaded
           /\ NewObject(s).num = Len(s) /\ NewObject(s).bytes = ByteSize(s)
<1>1. AsGoMap(<<>>) \in [Name -> Seq(Value)]
  <2>1. <<>> \in Seq(Store!Field)
    BY EmptySeq
  <2> QED  BY <2>1, AsGoMapType
<1>2. Len(s) \in Nat /\ ByteSize(s) \in Nat
  BY ByteSizeIsNatural, LenProperties
<1>3. NoObject \in Object /\ ~NoObject.given /\ ~NoObject.loaded
  BY <1>1 DEF NoObject, Object
<1>4. NewObject(s) = [NoObject EXCEPT !.given = TRUE, !.num = Len(s), !.bytes = ByteSize(s)]
  BY DEF NewObject
<1> HIDE DEF NoObject
<1> QED  BY <1>2, <1>3, <1>4 DEF Object

-----------------------------------------------------------------------------
(* The invariant                                                           *)

LEMMA InitHeader == HeaderInit => HeaderInv
<1> SUFFICES ASSUME HeaderInit PROVE HeaderInv
  OBVIOUS
<1>1. PICK fields \in Fields : maps = [map \in Map |-> fields[map[2]]]
  BY DEF HeaderInit
<1>2. maps \in [Map -> Seq(Store!Field)]
  <2>1. ASSUME NEW map \in Map
        PROVE  fields[map[2]] \in Seq(Store!Field)
    <3> DEFINE Lowers == [name : {Lower(name) : name \in Name}, value : Value]
    <3>1. fields[map[2]] \in Seq(Lowers)
      BY FieldsAssumption DEF Map
    <3>2. Lowers \subseteq Store!Field
      <4>1. {Lower(name) : name \in Name} \subseteq Name
        BY DEF Lower, Name
      <4> QED  BY <4>1 DEF Store!Field
    <3> HIDE DEF Lowers
    <3> QED  BY <3>1, <3>2
  <2> QED  BY <1>1, <2>1
<1>3. objects = [map \in Map |-> NoObject] /\ ~overrun /\ dynamicLib
  BY DEF HeaderInit
<1>4. NoObject \in Object /\ ~NoObject.given /\ ~NoObject.loaded
  <2>1. <<>> \in Seq(Store!Field)
    BY EmptySeq
  <2> QED  BY <2>1, NewObjectType
<1>5. Cur = "decode" /\ ps[Cur].state = "WaitingHeader"
  BY DEF HeaderInit, Init, Cur, NewProcessor, Dir
<1>6. objects \in [Map -> Object] /\ SizesFit /\ CopiesFit
  BY <1>3, <1>4 DEF SizesFit, CopiesFit
<1>7. TrailersCame
  BY <1>3, <1>4 DEF TrailersCame, Map
<1> QED  BY <1>2, <1>3, <1>5, <1>6, <1>7 DEF HeaderInv, HeadersReached, CopyFits

\* A step of the filter changes no map; a call for headers or trailers makes an object.
LEMMA FilterStepKeeps ==
    ASSUME StreamInv, StreamInv', HeaderInv, FilterStep
    PROVE  HeaderInv' /\ UNCHANGED <<maps, last>>
<1>1. /\ Next /\ UNCHANGED <<maps, last, overrun>>
      /\ objects' = [map \in Map |-> IF Given(map) THEN NewObject(maps[map]) ELSE objects[map]]
  BY DEF FilterStep
<1>2. dynamicLib /\ dynamicLib' /\ maps \in [Map -> Seq(Store!Field)] /\ objects \in [Map -> Object]
  BY <1>1, LibraryStays DEF HeaderInv
<1>3. ASSUME NEW map \in Map
      PROVE  /\ objects'[map] \in Object
             /\ ~Given(map) => objects'[map] = objects[map]
             /\ Given(map) => /\ objects'[map].given /\ ~objects'[map].loaded
                              /\ objects'[map].num = Len(maps[map])
                              /\ objects'[map].bytes = ByteSize(maps[map])
  <2>1. maps[map] \in Seq(Store!Field)
    BY <1>2
  <2>2. objects'[map] = IF Given(map) THEN NewObject(maps[map]) ELSE objects[map]
    BY <1>1
  <2> QED  BY <1>2, <2>1, <2>2, NewObjectType
<1>4. objects' \in [Map -> Object]
  BY <1>1, <1>3
<1>5. SizesFit' /\ CopiesFit'
  <2>1. ASSUME NEW map \in Map, objects'[map].given, ~objects'[map].loaded
        PROVE  objects'[map].num = Len(maps'[map]) /\ objects'[map].bytes = ByteSize(maps'[map])
    BY <1>1, <1>3, <2>1 DEF HeaderInv, SizesFit
  <2>2. ASSUME NEW map \in Map, NEW name \in Name, objects'[map].loaded, name = Lower(name)
        PROVE  objects'[map].copy[name] = Store!ValuesOf(maps'[map], name)
    BY <1>1, <1>3, <2>2 DEF HeaderInv, CopiesFit
  <2>3. SizesFit'
    BY <2>1 DEF SizesFit
  <2>4. CopiesFit'
    BY <2>2 DEF CopiesFit
  <2> QED  BY <2>3, <2>4
<1>6. Ahead /\ HeadersReached'
  BY <1>1, <1>2, NextReached DEF HeaderInv
<1>7. TrailersCame'
  <2>1. SUFFICES ASSUME NEW d \in Dir, objects'[<<d, "trailers">>].given PROVE ps'[d].seenTrailers
    BY DEF TrailersCame
  <2>2. <<d, "trailers">> \in Map
    BY DEF Map
  <2>3. CASE ~Given(<<d, "trailers">>)
    BY <1>3, <1>6, <2>1, <2>2, <2>3 DEF HeaderInv, TrailersCame, Ahead
  <2>4. CASE Given(<<d, "trailers">>)
    <3>1. PICK call \in go' : call.dir = d /\ call.kind = "trailers"
      BY <2>4 DEF Given
    <3>2. call \in Unanswered'
      BY <3>1 DEF Unanswered
    <3>3. d = Cur' /\ ps'[d].state = "ProcessingTrailer"
      BY <3>1, <3>2 DEF StreamInv, SerialInv, CallsInv, CallsFit, Processing
    <3>4. Sound(ps[d])'
      BY <1>2 DEF StreamInv, EndInv, MarksFit
    <3> QED  BY <3>3, <3>4 DEF Sound
  <2> QED  BY <2>3, <2>4
<1> QED  BY <1>1, <1>2, <1>4, <1>5, <1>6, <1>7 DEF HeaderInv, CopyFits

\* An object that may be used reaches the map it was made for, which is still in the filter.
LEMMA PointerFits ==
    ASSUME StreamInv, HeaderInv, Rules = Rule, NEW map \in Map, NEW name \in Name, MayUse(map, name)
    PROVE  /\ name = Lower(name) /\ ~PassedOn(map)
           /\ Accepted => Pointer(map) = map
           /\ Accepted /\ HasAll(map) /\ ps[Cur].state = "ProcessingHeader" => RawPointer = map
<1>1. /\ name = Lower(name) /\ ~PassedOn(map) /\ objects[map].given
      /\ \E call \in go : call.dir = map[1]
  BY DEF MayUse, Rule
<1>2. map = <<map[1], map[2]>> /\ map[2] \in {"headers", "trailers"} /\ map[1] \in Dir
  BY DEF Map
<1>3. map[1] = Cur
  <2>1. PICK call \in go : call.dir = map[1]
    BY <1>1
  <2>2. call \in Unanswered
    BY <2>1 DEF Unanswered
  <2> QED  BY <2>1, <2>2 DEF StreamInv, SerialInv, CallsInv, CallsFit
<1>4. dynamicLib /\ ~closed
  BY <1>1 DEF HeaderInv, StreamInv, EndInv, NothingAfterEnd
<1>5. ASSUME Accepted, map[2] = "headers"
      PROVE  headers = map[1]
  BY <1>1, <1>3, <1>4, <1>5 DEF Accepted, InGo, PassedOn, HeaderInv, HeadersReached
<1>6. ASSUME map[2] = "trailers"
      PROVE  trailers = map[1]
  BY <1>1, <1>2, <1>3, <1>4, <1>6 DEF HeaderInv, TrailersCame, StreamInv, EndInv, TrailersReached
<1> QED  BY <1>1, <1>2, <1>5, <1>6 DEF Pointer, RawPointer, HasAll

\* What an operation leaves of the invariant untouched.
LEMMA OperationKeepsRest ==
    ASSUME HeaderInv, UNCHANGED vars, \A map \in Map : objects'[map].given = objects[map].given,
           maps' \in [Map -> Seq(Store!Field)], objects' \in [Map -> Object], SizesFit', CopiesFit',
           CopyFits'
    PROVE  HeaderInv'
<1>1. UNCHANGED <<dynamicLib, ps, closed, hasDestroyed, out, headers, enterEncoding>>
  BY DEF vars, filterVars, lifeVars, replyVars, streamVars
<1>2. HeadersReached'
  BY <1>1 DEF HeaderInv, HeadersReached, Cur
<1>3. TrailersCame'
  BY <1>1 DEF HeaderInv, TrailersCame, Map
<1> QED  BY <1>1, <1>2, <1>3 DEF HeaderInv

\* The copy and the map change alike.
LEMMA WriteKeeps ==
    ASSUME HeaderInv, UNCHANGED vars, NEW map \in Map, NEW name \in Name, objects[map].loaded,
           NEW values \in Seq(Value), CopyPut(map, name, values),
           NEW entries \in Seq(Store!Field), maps' = [maps EXCEPT ![map] = entries],
           Store!ValuesOf(entries, name) = values,
           \A other : other # name => Store!ValuesOf(entries, other) = Store!ValuesOf(maps[map], other)
    PROVE  HeaderInv'
<1>1. maps \in [Map -> Seq(Store!Field)] /\ objects \in [Map -> Object]
  BY DEF HeaderInv
<1> DEFINE copy == [objects[map].copy EXCEPT ![name] = values]
<1>2. objects' = [objects EXCEPT ![map].copy = copy] /\ overrun' = overrun
  BY DEF CopyPut
<1>3. objects[map].copy \in [Name -> Seq(Value)]
  BY <1>1 DEF Object
<1>4. /\ copy \in [Name -> Seq(Value)] /\ copy[name] = values
      /\ \A other \in Name : other # name => copy[other] = objects[map].copy[other]
  BY <1>3
<1> HIDE DEF copy
<1>5. /\ objects' \in [Map -> Object]
      /\ \A m \in Map : /\ objects'[m].given = objects[m].given /\ objects'[m].loaded = objects[m].loaded
                        /\ m # map => objects'[m] = objects[m] /\ maps'[m] = maps[m]
      /\ objects'[map].copy = copy
      /\ maps' \in [Map -> Seq(Store!Field)] /\ maps'[map] = entries
  BY <1>1, <1>2, <1>4 DEF Object
<1>6. SizesFit'
  <2>1. SUFFICES ASSUME NEW m \in Map, objects'[m].given, ~objects'[m].loaded
                 PROVE  objects'[m].num = Len(maps'[m]) /\ objects'[m].bytes = ByteSize(maps'[m])
    BY DEF SizesFit
  <2>2. m # map
    BY <1>5, <2>1
  <2> QED  BY <1>5, <2>1, <2>2 DEF HeaderInv, SizesFit
<1>7. CopiesFit'
  <2>1. SUFFICES ASSUME NEW m \in Map, NEW other \in Name, objects'[m].loaded, other = Lower(other)
                 PROVE  objects'[m].copy[other] = Store!ValuesOf(maps'[m], other)
    BY DEF CopiesFit
  <2>2. CASE m # map
    BY <1>5, <2>1, <2>2 DEF HeaderInv, CopiesFit
  <2>3. CASE m = map /\ other = name
    BY <1>4, <1>5, <2>3
  <2>4. CASE m = map /\ other # name
    <3>1. objects[map].copy[other] = Store!ValuesOf(maps[map], other)
      BY <2>1 DEF HeaderInv, CopiesFit
    <3> QED  BY <1>4, <1>5, <2>4, <3>1
  <2> QED  BY <2>2, <2>3, <2>4
<1>8. CopyFits'
  BY <1>2 DEF HeaderInv, CopyFits
<1> QED  BY <1>5, <1>6, <1>7, <1>8, OperationKeepsRest

\* The object is read, from its copy or, the first time, from the map.
LEMMA GetKeeps ==
    ASSUME StreamInv, HeaderInv, Rules = Rule, UNCHANGED vars, NEW map \in Map, NEW name \in Name,
           Get(map, name)
    PROVE  HeaderInv' /\ Store!Read(map, name)
<1>1. /\ maps \in [Map -> Seq(Store!Field)] /\ objects \in [Map -> Object] /\ UNCHANGED maps
      /\ last' = <<map, name, objects'[map].copy[name]>> /\ MayUse(map, name) /\ Load(map)
  BY DEF HeaderInv, Get
<1>2. name = Lower(name) /\ (Accepted => Pointer(map) = map) /\ objects[map].given
  BY <1>1, PointerFits DEF MayUse
<1>3. CASE objects[map].loaded
  <2>1. UNCHANGED <<objects, overrun>>
    BY <1>1, <1>3 DEF Load
  <2>2. HeaderInv'
    BY <1>1, <2>1, OperationKeepsRest DEF HeaderInv, SizesFit, CopiesFit, CopyFits
  <2>3. objects'[map].copy[name] = Store!ValuesOf(maps[map], name)
    BY <1>2, <1>3, <2>1 DEF HeaderInv, CopiesFit
  <2> QED  BY <1>1, <2>2, <2>3 DEF Store!Read
<1>4. CASE ~objects[map].loaded
  <2> DEFINE entries == maps[map]
             copy == AsGoMap(entries)
  <2>1. /\ objects' = [objects EXCEPT ![map].loaded = TRUE, ![map].copy = copy]
        /\ overrun' = (overrun \/ Len(entries) > objects[map].num \/ ByteSize(entries) > objects[map].bytes)
    BY <1>1, <1>2, <1>4 DEF Load
  <2>2. entries \in Seq(Store!Field)
    BY <1>1
  <2>3. CopyFits'
    <3>1. Len(entries) \in Nat /\ ByteSize(entries) \in Nat
      BY <2>2, ByteSizeIsNatural, LenProperties
    <3>2. objects[map].num = Len(entries) /\ objects[map].bytes = ByteSize(entries)
      BY <1>2, <1>4 DEF HeaderInv, SizesFit
    <3>3. ~(Len(entries) > objects[map].num) /\ ~(ByteSize(entries) > objects[map].bytes)
      BY <3>1, <3>2
    <3> QED  BY <2>1, <3>3 DEF HeaderInv, CopyFits
  <2>4. copy \in [Name -> Seq(Value)] /\ \A n \in Name : copy[n] = Store!ValuesOf(entries, n)
    BY <2>2, AsGoMapType DEF AsGoMap
  <2> HIDE DEF copy
  <2>5. /\ objects' \in [Map -> Object]
        /\ \A m \in Map : objects'[m].given = objects[m].given /\ (m # map => objects'[m] = objects[m])
        /\ objects'[map].loaded /\ objects'[map].copy = copy
    BY <1>1, <2>1, <2>4 DEF Object
  <2>6. SizesFit'
    <3>1. SUFFICES ASSUME NEW m \in Map, objects'[m].given, ~objects'[m].loaded
                   PROVE  objects'[m].num = Len(maps'[m]) /\ objects'[m].bytes = ByteSize(maps'[m])
      BY DEF SizesFit
    <3>2. m # map
      BY <2>5, <3>1
    <3> QED  BY <1>1, <2>5, <3>1, <3>2 DEF HeaderInv, SizesFit
  <2>7. CopiesFit'
    <3>1. SUFFICES ASSUME NEW m \in Map, NEW other \in Name, objects'[m].loaded, other = Lower(other)
                   PROVE  objects'[m].copy[other] = Store!ValuesOf(maps'[m], other)
      BY DEF CopiesFit
    <3>2. CASE m # map
      BY <1>1, <2>5, <3>1, <3>2 DEF HeaderInv, CopiesFit
    <3>3. CASE m = map
      BY <1>1, <2>4, <2>5, <3>3
    <3> QED  BY <3>2, <3>3
  <2>8. HeaderInv'
    BY <1>1, <2>3, <2>5, <2>6, <2>7, OperationKeepsRest
  <2>9. objects'[map].copy[name] = Store!ValuesOf(maps[map], name)
    BY <2>4, <2>5
  <2> QED  BY <1>1, <2>8, <2>9 DEF Store!Read
<1> QED  BY <1>3, <1>4

\* An operation keeps the invariant, is one of the store's, and reaches only a
\* map that is still in the filter.
LEMMA OperationKeeps ==
    ASSUME StreamInv, HeaderInv, Rules = Rule, Operation
    PROVE  /\ HeaderInv'
           /\ Store!Next
           /\ \A m \in Map : PassedOn(m) => maps'[m] = maps[m]
<1>1. PICK map \in Map, name \in Name :
         \/ Get(map, name)
         \/ GetRaw(map, name)
         \/ Del(map, name)
         \/ \E value \in Value : Set(map, name, value) \/ Add(map, name, value)
  BY DEF Operation
<1>2. UNCHANGED vars /\ maps \in [Map -> Seq(Store!Field)] /\ maps[map] \in Seq(Store!Field)
      /\ objects \in [Map -> Object]
  BY DEF Operation, HeaderInv
<1>3. ASSUME MayUse(map, name)
      PROVE  /\ name = Lower(name) /\ ~PassedOn(map)
             /\ Accepted => Pointer(map) = map
             /\ Accepted /\ HasAll(map) /\ ps[Cur].state = "ProcessingHeader" => RawPointer = map
  BY <1>3, PointerFits
<1>4. CASE Get(map, name)
  <2>1. HeaderInv' /\ Store!Read(map, name)
    BY <1>2, <1>4, GetKeeps
  <2>2. maps' = maps
    BY <1>4 DEF Get
  <2> QED  BY <2>1, <2>2 DEF Store!Next
<1>5. CASE GetRaw(map, name)
  <2>1. /\ HasAll(map) /\ MayUse(map, name) /\ Accepted /\ ps[Cur].state = "ProcessingHeader"
        /\ last' = <<map, name, Store!FirstOf(Store!ValuesOf(maps[RawPointer], Lower(name)))>>
        /\ UNCHANGED <<maps, objects, overrun>>
    BY <1>5 DEF GetRaw, Rule
  <2>2. RawPointer = map /\ name = Lower(name)
    BY <1>3, <2>1
  <2>3. last' = <<map, name, Store!FirstOf(Store!ValuesOf(maps[map], name))>>
    BY <2>1, <2>2
  <2>4. Store!ReadFirst(map, name)
    BY <2>1, <2>3 DEF Store!ReadFirst
  <2>5. HeaderInv'
    BY <1>2, <2>1, OperationKeepsRest DEF HeaderInv, SizesFit, CopiesFit, CopyFits
  <2> QED  BY <2>1, <2>4, <2>5 DEF Store!Next
<1>6. ASSUME NEW values \in Seq(Value), NEW entries \in Seq(Store!Field),
             MayWrite(map, name), CopyPut(map, name, values), Put(map, entries),
             Store!ValuesOf(entries, name) = values,
             \A other : other # name => Store!ValuesOf(entries, other) = Store!ValuesOf(maps[map], other)
      PROVE  /\ HeaderInv' /\ Store!Write(map, entries)
             /\ \A m \in Map : PassedOn(m) => maps'[m] = maps[m]
  <2>1. objects[map].loaded /\ name = Lower(name) /\ ~PassedOn(map) /\ Pointer(map) = map
    BY <1>3, <1>6 DEF MayWrite, Rule, Put
  <2>2. maps' = [maps EXCEPT ![map] = entries] /\ last' = <<map, "write">>
    BY <1>6, <2>1 DEF Put, CopyPut
  <2>3. HeaderInv'
    BY <1>2, <1>6, <2>1, <2>2, WriteKeeps
  <2>4. Store!Write(map, entries)
    BY <2>2 DEF Store!Write
  <2>5. \A m \in Map : PassedOn(m) => maps'[m] = maps[m]
    BY <1>2, <2>1, <2>2
  <2> QED  BY <2>3, <2>4, <2>5
<1>7. ASSUME MayWrite(map, name), Put(map, Store!Without(maps[Pointer(map)], Lower(name)))
             \/ \E value : \/ Put(map, Store!With(maps[Pointer(map)], Lower(name), value))
                           \/ Put(map, Store!With(Store!Without(maps[Pointer(map)], Lower(name)), Lower(name), value))
      PROVE  Pointer(map) = map /\ Lower(name) = name /\ objects[map].loaded
  BY <1>3, <1>7 DEF MayWrite, Rule, Put
<1>8. objects[map].loaded /\ name = Lower(name) => objects[map].copy[name] = Store!ValuesOf(maps[map], name)
  BY DEF HeaderInv, CopiesFit
<1>9. CASE Del(map, name)
  <2> DEFINE entries == Store!Without(maps[map], name)
  <2>1. MayWrite(map, name) /\ CopyPut(map, name, <<>>)
        /\ Put(map, Store!Without(maps[Pointer(map)], Lower(name)))
    BY <1>9 DEF Del
  <2>2. Pointer(map) = map /\ Lower(name) = name
    BY <1>7, <2>1
  <2>3. Put(map, entries)
    BY <2>1, <2>2
  <2>4. /\ entries \in Seq(Store!Field) /\ Store!ValuesOf(entries, name) = <<>> /\ <<>> \in Seq(Value)
        /\ \A other : other # name => Store!ValuesOf(entries, other) = Store!ValuesOf(maps[map], other)
    BY <1>2, FieldsType, ValuesOfWithout, EmptySeq
  <2> HIDE DEF entries
  <2>5. /\ HeaderInv' /\ Store!Write(map, entries)
        /\ \A m \in Map : PassedOn(m) => maps'[m] = maps[m]
    BY <1>6, <2>1, <2>3, <2>4
  <2> QED  BY <2>5 DEF Store!Next, entries
<1>10. ASSUME NEW value \in Value, Set(map, name, value)
       PROVE  /\ HeaderInv' /\ Store!Next
              /\ \A m \in Map : PassedOn(m) => maps'[m] = maps[m]
  <2> DEFINE entries == Store!With(Store!Without(maps[map], name), name, value)
  <2>1. MayWrite(map, name) /\ CopyPut(map, name, <<value>>)
        /\ Put(map, Store!With(Store!Without(maps[Pointer(map)], Lower(name)), Lower(name), value))
    BY <1>10 DEF Set
  <2>2. Pointer(map) = map /\ Lower(name) = name
    BY <1>7, <2>1
  <2>3. Put(map, entries)
    BY <2>1, <2>2
  <2>4. /\ entries \in Seq(Store!Field) /\ Store!ValuesOf(entries, name) = <<value>>
        /\ \A other : other # name => Store!ValuesOf(entries, other) = Store!ValuesOf(maps[map], other)
    BY <1>2, FieldSet
  <2>5. <<value>> \in Seq(Value)
    OBVIOUS
  <2> HIDE DEF entries
  <2>6. /\ HeaderInv' /\ Store!Write(map, entries)
        /\ \A m \in Map : PassedOn(m) => maps'[m] = maps[m]
    BY <1>6, <2>1, <2>3, <2>4, <2>5
  <2> QED  BY <2>6 DEF Store!Next, entries
<1>11. ASSUME NEW value \in Value, Add(map, name, value)
       PROVE  /\ HeaderInv' /\ Store!Next
              /\ \A m \in Map : PassedOn(m) => maps'[m] = maps[m]
  <2> DEFINE entries == Store!With(maps[map], name, value)
             values == Append(objects[map].copy[name], value)
  <2>1. MayWrite(map, name) /\ CopyPut(map, name, values)
        /\ Put(map, Store!With(maps[Pointer(map)], Lower(name), value))
    BY <1>11 DEF Add
  <2>2. Pointer(map) = map /\ Lower(name) = name /\ objects[map].loaded
    BY <1>7, <2>1
  <2>3. Put(map, entries)
    BY <2>1, <2>2
  <2>4. /\ entries \in Seq(Store!Field)
        /\ Store!ValuesOf(entries, name) = Append(Store!ValuesOf(maps[map], name), value)
        /\ \A other : other # name => Store!ValuesOf(entries, other) = Store!ValuesOf(maps[map], other)
    BY <1>2, FieldAdded
  <2>5. values = Append(Store!ValuesOf(maps[map], name), value)
    BY <1>8, <2>2
  <2>6. values \in Seq(Value)
    BY <1>2, <2>5, FieldsType, AppendProperties
  <2> HIDE DEF entries, values
  <2>7. /\ HeaderInv' /\ Store!Write(map, entries)
        /\ \A m \in Map : PassedOn(m) => maps'[m] = maps[m]
    BY <1>6, <2>1, <2>3, <2>4, <2>5, <2>6
  <2> QED  BY <2>7 DEF Store!Next, entries
<1> QED  BY <1>1, <1>4, <1>5, <1>9, <1>10, <1>11

LEMMA HeaderStep ==
    ASSUME StreamInv, StreamInv', HeaderInv, Rules = Rule, [HeaderNext]_allVars
    PROVE  /\ HeaderInv'
           /\ [Store!Next]_(Store!storeVars)
           /\ \A m \in Map : PassedOn(m) => maps'[m] = maps[m]
<1>1. CASE FilterStep
  BY <1>1, FilterStepKeeps DEF Store!storeVars
<1>2. CASE Operation
  BY <1>2, OperationKeeps
<1>3. CASE UNCHANGED allVars
  <2>1. UNCHANGED <<vars, maps, objects, last, overrun>>
    BY <1>3 DEF allVars, headerVars
  <2> QED  BY <2>1, OperationKeepsRest DEF HeaderInv, SizesFit, CopiesFit, CopyFits, Store!storeVars
<1> QED  BY <1>1, <1>2, <1>3 DEF HeaderNext

-----------------------------------------------------------------------------
(* The theorems                                                            *)

\* The filter takes its own steps, whatever the handlers do to the maps.
LEMMA FilterGoesOn == HeaderSpec => Spec
<1>1. HeaderInit => Init
  BY DEF HeaderInit
<1>2. [HeaderNext]_allVars => [Next]_vars
  BY DEF HeaderNext, FilterStep, Operation, allVars
<1> QED  BY <1>1, <1>2, PTL DEF HeaderSpec, Spec

\* The objects of the headers and trailers of the current message reach their
\* maps, and what they hold is what the maps hold.
THEOREM HeaderInvariant ==
    ASSUME Calm, Rules = Rule
    PROVE  HeaderSpec => [](StreamInv /\ HeaderInv)
<1>1. HeaderSpec => []StreamInv
  BY FilterGoesOn, StreamInvariant, PTL
<1>2. HeaderInit => HeaderInv
  BY InitHeader
<1>3. StreamInv /\ StreamInv' /\ HeaderInv /\ [HeaderNext]_allVars => HeaderInv'
  BY HeaderStep
<1> QED  BY <1>1, <1>2, <1>3, PTL DEF HeaderSpec

\* A copy never goes past the buffers that were made for it (HttpCopyHeaders,
\* HttpCopyTrailers): the map has not grown since then.
THEOREM CopiesFitTheirBuffers ==
    ASSUME Calm, Rules = Rule
    PROVE  HeaderSpec => []CopyFits
<1>1. HeaderInv => CopyFits
  BY DEF HeaderInv
<1> QED  BY <1>1, HeaderInvariant, PTL

\* A map is not changed any more once it was passed on.
THEOREM MapsStayAsPassed ==
    ASSUME Calm, Rules = Rule
    PROVE  HeaderSpec => PassedMapsStay
<1>1. StreamInv /\ StreamInv' /\ HeaderInv /\ [HeaderNext]_allVars =>
          [\A map \in Map : PassedOn(map) => maps'[map] = maps[map]]_allVars
  BY HeaderStep
<1> QED  BY <1>1, HeaderInvariant, PTL DEF HeaderSpec, PassedMapsStay

\* The header API (pkg/api/type.go): each object is a store of its own, whose
\* reads are answered by the copy and whose writes reach the map of Envoy.
THEOREM EachMapIsAStore ==
    ASSUME Calm, Rules = Rule
    PROVE  HeaderSpec => MapsAreStores
<1>1. HeaderInit => Store!Init
  <2> SUFFICES ASSUME HeaderInit PROVE Store!Init
    OBVIOUS
  <2>1. maps \in [Map -> Seq(Store!Field)] /\ last = <<>>
    BY InitHeader DEF HeaderInv, HeaderInit
  <2> QED  BY <2>1 DEF Store!Init
<1>2. StreamInv /\ StreamInv' /\ HeaderInv /\ [HeaderNext]_allVars => [Store!Next]_(Store!storeVars)
  BY HeaderStep
<1> QED  BY <1>1, <1>2, HeaderInvariant, PTL DEF HeaderSpec, MapsAreStores, Store!Spec
=============================================================================
