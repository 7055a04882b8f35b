----------------------- MODULE GolangFilterDataProofs -----------------------
(***************************************************************************)
(* In a calm environment Go is shown a message as it came in, and what is  *)
(* passed on is what Go was shown: in order, once, and without gaps.       *)
(***************************************************************************)
EXTENDS GolangFilterFlowProofs

-----------------------------------------------------------------------------
(* Sequences of items                                                      *)

LEMMA InToSet ==
    ASSUME NEW s, NEW x
    PROVE  x \in ToSet(s) <=> \E i \in DOMAIN s : s[i] = x
BY DEF ToSet

LEMMA SetOfConcat ==
    ASSUME NEW s \in Seq(Item), NEW t \in Seq(Item)
    PROVE  ToSet(s \o t) = ToSet(s) \cup ToSet(t)
<1>1. /\ Len(s) \in Nat /\ Len(t) \in Nat /\ Len(s \o t) = Len(s) + Len(t)
      /\ DOMAIN s = 1 .. Len(s) /\ DOMAIN t = 1 .. Len(t)
      /\ DOMAIN (s \o t) = 1 .. Len(s) + Len(t)
      /\ \A i \in 1 .. Len(s) + Len(t) : (s \o t)[i] = IF i <= Len(s) THEN s[i] ELSE t[i - Len(s)]
  BY ConcatProperties, LenProperties
<1>2. ASSUME NEW x \in ToSet(s \o t)
      PROVE  x \in ToSet(s) \cup ToSet(t)
  <2>1. PICK i \in 1 .. Len(s) + Len(t) : (s \o t)[i] = x
    BY <1>1, <1>2, InToSet
  <2>2. CASE i <= Len(s)
    BY <1>1, <2>1, <2>2, InToSet
  <2>3. CASE ~(i <= Len(s))
    <3>1. i - Len(s) \in 1 .. Len(t) /\ t[i - Len(s)] = x
      BY <1>1, <2>1, <2>3
    <3> QED  BY <1>1, <3>1, InToSet
  <2> QED  BY <2>2, <2>3
<1>3. ASSUME NEW x \in ToSet(s)
      PROVE  x \in ToSet(s \o t)
  <2>1. PICK i \in 1 .. Len(s) : s[i] = x
    BY <1>1, <1>3, InToSet
  <2>2. i \in 1 .. Len(s) + Len(t) /\ (s \o t)[i] = x
    BY <1>1, <2>1
  <2> QED  BY <1>1, <2>2, InToSet
<1>4. ASSUME NEW x \in ToSet(t)
      PROVE  x \in ToSet(s \o t)
  <2>1. PICK i \in 1 .. Len(t) : t[i] = x
    BY <1>1, <1>4, InToSet
  <2>2. i + Len(s) \in 1 .. Len(s) + Len(t) /\ (s \o t)[i + Len(s)] = x
    BY <1>1, <2>1
  <2> QED  BY <1>1, <2>2, InToSet
<1> QED  BY <1>2, <1>3, <1>4

LEMMA SmallSets ==
    /\ ToSet(<<>>) = {}
    /\ \A x : ToSet(<<x>>) = {x}
    /\ ToSet(EndIf(TRUE)) = {End} /\ ToSet(EndIf(FALSE)) = {}
<1>1. ToSet(<<>>) = {} /\ \A x : ToSet(<<x>>) = {x}
  BY DEF ToSet
<1> QED  BY <1>1 DEF EndIf

LEMMA SetOfItems ==
    /\ \A s \in Seq(Item) : ToSet(s) \subseteq Item /\ (ToSet(s) = {} => s = <<>>)
    /\ \A s \in Seq(Chunks) : ToSet(s) \subseteq Chunks /\ s \in Seq(Item)
<1>1. ASSUME NEW S, NEW s \in Seq(S)
      PROVE  ToSet(s) \subseteq S /\ (ToSet(s) = {} => s = <<>>)
  <2>1. DOMAIN s = 1 .. Len(s) /\ Len(s) \in Nat /\ \A i \in 1 .. Len(s) : s[i] \in S
    BY LenProperties, ElementOfSeq
  <2>2. ToSet(s) \subseteq S
    BY <2>1 DEF ToSet
  <2>3. s # <<>> => 1 \in DOMAIN s
    BY <2>1, EmptySeq
  <2> QED  BY <2>2, <2>3, InToSet
<1> QED  BY <1>1, DataIsItems

\* Different pieces of a message are different items, and come in one order.
LEMMA BeforeFacts ==
    /\ \A x, y \in Item : Before(x, y) => x # y /\ ~Before(y, x)
    /\ \A y \in Item : ~Before(End, y) /\ ~Before(Trl, y) /\ ~Before(y, Hdr)
    /\ \A x \in Chunks : Before(Hdr, x) /\ Before(x, End) /\ Before(x, Trl)
    /\ Before(Hdr, End) /\ Before(Hdr, Trl)
    /\ Hdr \notin Chunks /\ End \notin Chunks /\ Trl \notin Chunks
    /\ Hdr # End /\ Hdr # Trl /\ End # Trl
<1>1. /\ Hdr \notin Chunks /\ End \notin Chunks /\ Trl \notin Chunks
      /\ Hdr # End /\ Hdr # Trl /\ End # Trl
  BY DEF Hdr, End, Trl, Chunks
<1>2. \A x \in Chunks : x[2] \in Nat
  BY DEF Chunks
<1> QED  BY <1>1, <1>2 DEF Before, Item

LEMMA OrderedConcat ==
    ASSUME NEW s \in Seq(Item), NEW t \in Seq(Item)
    PROVE  Ordered(s \o t) <=> /\ Ordered(s) /\ Ordered(t)
                               /\ \A x \in ToSet(s), y \in ToSet(t) : Before(x, y)
<1>1. /\ Len(s) \in Nat /\ Len(t) \in Nat
      /\ DOMAIN s = 1 .. Len(s) /\ DOMAIN t = 1 .. Len(t)
      /\ DOMAIN (s \o t) = 1 .. Len(s) + Len(t)
      /\ \A i \in 1 .. Len(s) + Len(t) : (s \o t)[i] = IF i <= Len(s) THEN s[i] ELSE t[i - Len(s)]
  BY ConcatProperties, LenProperties
<1>2. ASSUME Ordered(s), Ordered(t), \A x \in ToSet(s), y \in ToSet(t) : Before(x, y),
             NEW i \in 1 .. Len(s) + Len(t), NEW j \in 1 .. Len(s) + Len(t), i < j
      PROVE  Before((s \o t)[i], (s \o t)[j])
  <2>1. CASE j <= Len(s)
    BY <1>1, <1>2, <2>1 DEF Ordered
  <2>2. CASE i <= Len(s) /\ ~(j <= Len(s))
    <3>1. s[i] \in ToSet(s)
      BY <1>1, <2>2, InToSet
    <3>2. j - Len(s) \in DOMAIN t
      BY <1>1, <2>2
    <3>3. t[j - Len(s)] \in ToSet(t)
      BY <3>2, InToSet
    <3> QED  BY <1>1, <1>2, <2>2, <3>1, <3>3
  <2>3. CASE ~(i <= Len(s))
    <3>1. i - Len(s) \in 1 .. Len(t) /\ j - Len(s) \in 1 .. Len(t) /\ i - Len(s) < j - Len(s)
          /\ ~(j <= Len(s))
      BY <1>1, <1>2, <2>3
    <3> QED  BY <1>1, <1>2, <2>3, <3>1 DEF Ordered
  <2> QED  BY <1>1, <2>1, <2>2, <2>3
<1>3. ASSUME Ordered(s \o t)
      PROVE  /\ Ordered(s) /\ Ordered(t)
             /\ \A x \in ToSet(s), y \in ToSet(t) : Before(x, y)
  <2>1. Ordered(s)
    BY <1>1, <1>3 DEF Ordered
  <2>2. ASSUME NEW i \in 1 .. Len(t), NEW j \in 1 .. Len(t), i < j
        PROVE  Before(t[i], t[j])
    <3>1. /\ i + Len(s) \in 1 .. Len(s) + Len(t) /\ j + Len(s) \in 1 .. Len(s) + Len(t)
          /\ i + Len(s) < j + Len(s)
          /\ (s \o t)[i + Len(s)] = t[i] /\ (s \o t)[j + Len(s)] = t[j]
      BY <1>1, <2>2
    <3> QED  BY <1>1, <1>3, <3>1 DEF Ordered
  <2>3. ASSUME NEW x \in ToSet(s), NEW y \in ToSet(t)
        PROVE  Before(x, y)
    <3>1. PICK i \in 1 .. Len(s) : s[i] = x
      BY <1>1, InToSet
    <3>2. PICK j \in 1 .. Len(t) : t[j] = y
      BY <1>1, InToSet
    <3>3. /\ i \in 1 .. Len(s) + Len(t) /\ j + Len(s) \in 1 .. Len(s) + Len(t) /\ i < j + Len(s)
          /\ (s \o t)[i] = x /\ (s \o t)[j + Len(s)] = y
      BY <1>1, <3>1, <3>2
    <3> QED  BY <1>1, <1>3, <3>3 DEF Ordered
  <2> QED  BY <1>1, <2>1, <2>2, <2>3 DEF Ordered
<1> QED  BY <1>1, <1>2, <1>3 DEF Ordered

LEMMA OrderedShort ==
    /\ Ordered(<<>>)
    /\ \A x : Ordered(<<x>>)
BY DEF Ordered

LEMMA PrefixOfConcat ==
    ASSUME NEW s \in Seq(Item), NEW t \in Seq(Item)
    PROVE  IsPrefix(s, s \o t)
<1>1. /\ Len(s) \in Nat /\ Len(t) \in Nat /\ Len(s \o t) = Len(s) + Len(t) /\ s \o t \in Seq(Item)
      /\ \A i \in 1 .. Len(s) : (s \o t)[i] = s[i]
  BY ConcatProperties, LenProperties
<1>2. SubSeq(s, 1, Len(s)) = SubSeq(s \o t, 1, Len(s))
  BY <1>1
<1> QED  BY <1>1, <1>2 DEF IsPrefix

LEMMA PrefixItems ==
    ASSUME NEW s \in Seq(Item), NEW m \in Seq(Item)
    PROVE  IsPrefix(s, m) <=> Len(s) <= Len(m) /\ \A i \in 1 .. Len(s) : s[i] = m[i]
<1>1. Len(s) \in Nat /\ Len(m) \in Nat
  BY LenProperties
<1>2. ASSUME Len(s) <= Len(m), SubSeq(s, 1, Len(s)) = SubSeq(m, 1, Len(s)), NEW i \in 1 .. Len(s)
      PROVE  s[i] = m[i]
  <2>1. SubSeq(s, 1, Len(s))[i] = s[i] /\ SubSeq(m, 1, Len(s))[i] = m[i]
    BY <1>1, <1>2
  <2> QED  BY <1>2, <2>1
<1>3. ASSUME Len(s) <= Len(m), \A i \in 1 .. Len(s) : s[i] = m[i]
      PROVE  SubSeq(s, 1, Len(s)) = SubSeq(m, 1, Len(s))
  BY <1>1, <1>3
<1> QED  BY <1>2, <1>3 DEF IsPrefix

LEMMA PrefixGrows ==
    ASSUME NEW s \in Seq(Item), NEW m \in Seq(Item), NEW more \in Seq(Item), IsPrefix(s, m)
    PROVE  IsPrefix(s, m \o more)
<1>1. /\ Len(s) \in Nat /\ Len(m) \in Nat /\ Len(more) \in Nat /\ Len(m \o more) = Len(m) + Len(more)
      /\ m \o more \in Seq(Item)
      /\ \A i \in 1 .. Len(m) + Len(more) : (m \o more)[i] = IF i <= Len(m) THEN m[i] ELSE more[i - Len(m)]
  BY ConcatProperties, LenProperties
<1>2. Len(s) <= Len(m) /\ \A i \in 1 .. Len(s) : s[i] = m[i]
  BY PrefixItems
<1>3. Len(s) <= Len(m \o more) /\ \A i \in 1 .. Len(s) : s[i] = (m \o more)[i]
  BY <1>1, <1>2
<1> QED  BY <1>1, <1>3, PrefixItems

\* What Go was shown came in.
LEMMA PrefixFacts ==
    ASSUME NEW s \in Seq(Item), NEW m \in Seq(Item), IsPrefix(s, m)
    PROVE  /\ ToSet(s) \subseteq ToSet(m)
           /\ Ordered(m) => Ordered(s)
           /\ m = <<>> => s = <<>>
<1>1. /\ Len(s) \in Nat /\ Len(m) \in Nat /\ Len(s) <= Len(m) /\ \A i \in 1 .. Len(s) : s[i] = m[i]
      /\ DOMAIN s = 1 .. Len(s) /\ DOMAIN m = 1 .. Len(m)
  BY PrefixItems, LenProperties
<1>2. ToSet(s) \subseteq ToSet(m)
  <2>1. ASSUME NEW i \in DOMAIN s
        PROVE  s[i] \in ToSet(m)
    BY <1>1, InToSet
  <2> QED  BY <2>1 DEF ToSet
<1>3. Ordered(m) => Ordered(s)
  BY <1>1 DEF Ordered
<1>4. m = <<>> => s = <<>>
  BY <1>1, EmptySeq
<1> QED  BY <1>2, <1>3, <1>4
-----------------------------------------------------------------------------
(* Messages come in in order                                               *)

\* One more piece of a message.
LEMMA OneMoreItem ==
    ASSUME NEW m \in Seq(Item), NumbersFit(m), ~Ended(m),
           NEW x, \/ m = <<>> /\ x = Hdr
                  \/ m # <<>> /\ x \in {End, Trl, Chunk(Len(m))}
    PROVE  NumbersFit(m \o <<x>>)
<1>0. Len(m) \in Nat /\ DOMAIN m = 1 .. Len(m) /\ \A i \in 1 .. Len(m) : m[i] \in Item
  BY LenProperties, ElementOfSeq
<1>1. /\ Len(m) \in Nat /\ DOMAIN m = 1 .. Len(m) /\ \A i \in 1 .. Len(m) : m[i] \in Item
      /\ Chunk(Len(m)) \in Chunks /\ Chunk(Len(m))[2] = Len(m)
  BY <1>0, ItemTypes DEF Chunk
<1>2. x \in Item /\ <<x>> \in Seq(Item)
  BY <1>1, ItemTypes
<1>3. ASSUME NEW y \in ToSet(m)
      PROVE  Before(y, x)
  <2>1. PICK i \in 1 .. Len(m) : m[i] = y
    BY <1>1, <1>3, InToSet
  <2>2. m # <<>> /\ x \in {End, Trl, Chunk(Len(m))}
    BY <1>1, <2>1, EmptySeq
  <2>3. y \notin {End, Trl}
    <3>1. CASE i = Len(m)
      BY <2>1, <2>2, <3>1 DEF Ended, Last
    <3>2. CASE i # Len(m)
      <4>1. Before(m[i], m[Len(m)]) /\ m[Len(m)] \in Item
        <5>1. i \in DOMAIN m /\ Len(m) \in DOMAIN m /\ i < Len(m)
          <6>1. Len(m) \in Nat
            BY <1>0
          <6>2. i < Len(m)
            BY <6>1, <3>2
          <6> QED  BY <1>0, <6>1, <6>2
        <5> QED  BY <1>1, <5>1 DEF NumbersFit, Ordered
      <4> QED  BY <2>1, <4>1, BeforeFacts
    <3> QED  BY <3>1, <3>2
  <2>4. y \in Item /\ (y \in Chunks => y[2] < Len(m))
    BY <1>1, <2>1 DEF NumbersFit
  <2>5. CASE y = Hdr
    <3>1. x # Hdr
      BY <1>1, <2>2, BeforeFacts
    <3> QED  BY <2>5, <3>1 DEF Before
  <2>6. CASE y \in Chunks
    BY <1>1, <2>2, <2>4, <2>6 DEF Before
  <2> QED  BY <2>3, <2>4, <2>5, <2>6 DEF Item
<1>4. Ordered(m \o <<x>>)
  <2>1. Ordered(m) /\ Ordered(<<x>>) /\ ToSet(<<x>>) = {x}
    BY OrderedShort, SmallSets DEF NumbersFit
  <2>2. \A y \in ToSet(m), z \in ToSet(<<x>>) : Before(y, z)
    BY <1>3, <2>1
  <2> QED  BY <1>2, <2>1, <2>2, OrderedConcat
<1>5. /\ Len(m \o <<x>>) = Len(m) + 1 /\ DOMAIN (m \o <<x>>) = 1 .. Len(m) + 1
      /\ \A i \in 1 .. Len(m) : (m \o <<x>>)[i] = m[i]
      /\ (m \o <<x>>)[Len(m) + 1] = x
  BY <1>1, <1>2, ConcatProperties, LenProperties
<1>6. x \in Chunks => x[2] < Len(m) + 1
  <2>1. x \in Chunks => x = Chunk(Len(m))
    BY BeforeFacts
  <2> QED  BY <1>1, <2>1
<1>7. ASSUME NEW i \in 1 .. Len(m), m[i] \in Chunks
      PROVE  m[i][2] < Len(m) + 1
  <2>1. m[i][2] < Len(m) /\ m[i][2] \in Nat
    BY <1>1, <1>7 DEF NumbersFit, Chunks
  <2> QED  BY <1>1, <2>1
<1>8. ASSUME NEW i \in 1 .. Len(m) + 1, (m \o <<x>>)[i] \in Chunks
      PROVE  (m \o <<x>>)[i][2] < Len(m) + 1
  <2>1. CASE i \in 1 .. Len(m)
    BY <1>5, <1>7, <1>8, <2>1
  <2>2. CASE i = Len(m) + 1
    BY <1>5, <1>6, <1>8, <2>2
  <2> QED  BY <1>1, <2>1, <2>2
<1> QED  BY <1>4, <1>5, <1>8 DEF NumbersFit

\* The end of the message, if it came in with the rest.
LEMMA EndOfFrame ==
    ASSUME NEW m \in Seq(Item), NumbersFit(m), m # <<>>, ~Ended(m), NEW b \in BOOLEAN
    PROVE  NumbersFit(m \o EndIf(b))
<1>1. CASE b
  BY <1>1, OneMoreItem DEF EndIf
<1>2. CASE ~b
  BY <1>2, ConcatEmptySeq DEF EndIf
<1> QED  BY <1>1, <1>2

LEMMA OneItemFrame ==
    ASSUME NEW m \in Seq(Item), NumbersFit(m), ~Ended(m), NEW b \in BOOLEAN,
           NEW x, \/ m = <<>> /\ x = Hdr
                  \/ m # <<>> /\ x = Chunk(Len(m))
    PROVE  NumbersFit(m \o (<<x>> \o EndIf(b)))
<1>1. /\ <<x>> \in Seq(Item) /\ <<x>> # <<>> /\ x \notin {End, Trl} /\ Last(<<x>>) = x
      /\ EndIf(b) \in Seq(Item)
  <2>1. Chunk(Len(m)) \in Chunks
    BY LenProperties, ItemTypes
  <2> QED  BY <2>1, ItemTypes, BeforeFacts DEF Last
<1>2. m \o <<x>> # <<>> /\ ~Ended(m \o <<x>>) /\ m \o <<x>> \in Seq(Item)
  BY <1>1, LastOfMore, ConcatProperties DEF Ended
<1>3. NumbersFit((m \o <<x>>) \o EndIf(b))
  BY <1>2, OneMoreItem, EndOfFrame
<1>4. (m \o <<x>>) \o EndIf(b) = m \o (<<x>> \o EndIf(b))
  BY <1>1, ConcatAssociative
<1> QED  BY <1>3, <1>4

\* Both messages are as they can come in.
MessagesFit == \A d \in Dir : NumbersFit(fed[d])

LEMMA FedFits ==
    ASSUME TypeOK, MessagesFit, NEW d \in Dir, NEW items \in Seq(Item), Feed(d, items),
           NumbersFit(fed[d] \o items)
    PROVE  MessagesFit'
BY FedGrows DEF MessagesFit

LEMMA HeadersFit ==
    ASSUME TypeOK, MessagesFit, NEW d \in Dir, fed[d] = <<>>, NEW b \in BOOLEAN,
           Feed(d, <<Hdr>> \o EndIf(b))
    PROVE  MessagesFit'
<1>1. /\ fed[d] \in Seq(Item) /\ ~Ended(fed[d]) /\ NumbersFit(fed[d])
      /\ <<Hdr>> \o EndIf(b) \in Seq(Item)
  BY ItemTypes, ConcatProperties DEF TypeOK, MessagesFit, Ended
<1> QED  BY <1>1, OneItemFrame, FedFits

LEMMA DataFits ==
    ASSUME TypeOK, MessagesFit, NEW d \in Dir, fed[d] # <<>>, ~Ended(fed[d]), NEW b \in BOOLEAN,
           NEW data, data = <<>> \/ data = <<Chunk(Len(fed[d]))>>, Feed(d, data \o EndIf(b))
    PROVE  MessagesFit'
<1>1. /\ fed[d] \in Seq(Item) /\ NumbersFit(fed[d]) /\ EndIf(b) \in Seq(Item)
      /\ data \in Seq(Chunks)
  <2>1. Chunk(Len(fed[d])) \in Chunks
    BY LenProperties, ItemTypes DEF TypeOK
  <2>2. <<>> \in Seq(Chunks) /\ <<Chunk(Len(fed[d]))>> \in Seq(Chunks)
    BY <2>1
  <2> QED  BY <2>2, ItemTypes DEF TypeOK, MessagesFit
<1>2. data \o EndIf(b) \in Seq(Item)
  BY <1>1, DataIsItems, ConcatProperties
<1>3. NumbersFit(fed[d] \o (data \o EndIf(b)))
  <2>1. CASE data = <<>>
    BY <1>1, <2>1, ConcatEmptySeq, EndOfFrame
  <2>2. CASE data = <<Chunk(Len(fed[d]))>>
    BY <1>1, <2>2, OneItemFrame
  <2> QED  BY <2>1, <2>2
<1> QED  BY <1>2, <1>3, FedFits

LEMMA NextFits ==
    ASSUME SerialInv, MessagesFit, [Next]_vars
    PROVE  MessagesFit'
<1>0. TypeOK /\ "decode" \in Dir /\ "encode" \in Dir
  BY DEF SerialInv, Dir
<1>1. ASSUME NEW d \in Dir, NEW data \in DataFrames(d)
      PROVE  data = <<>> \/ data = <<Chunk(Len(fed[d]))>>
  BY <1>1 DEF DataFrames
<1>2. CASE Receive
  <2>1. ASSUME NEW b \in BOOLEAN, DecodeHeaders(b)
        PROVE  MessagesFit'
    BY <1>0, <2>1, HeadersFit DEF DecodeHeaders
  <2>2. ASSUME NEW b \in BOOLEAN, ResponseHeaders(b)
        PROVE  MessagesFit'
    BY <1>0, <2>2, HeadersFit DEF ResponseHeaders, EncodeHeaders
  <2>3. ASSUME NEW b \in BOOLEAN, NEW data \in DataFrames("decode"), DecodeData(data, b)
        PROVE  MessagesFit'
    BY <1>0, <1>1, <2>3, DataFits DEF DecodeData, CanFeed
  <2>4. ASSUME NEW b \in BOOLEAN, NEW data \in DataFrames("encode"), ResponseData(data, b)
        PROVE  MessagesFit'
    BY <1>0, <1>1, <2>4, DataFits DEF ResponseData, EncodeData, CanFeed
  <2>5. ASSUME NEW d \in Dir, CanFeed(d), fed[d] # <<>>, Feed(d, <<Trl>>)
        PROVE  MessagesFit'
    <3>1. /\ fed[d] \in Seq(Item) /\ ~Ended(fed[d]) /\ NumbersFit(fed[d]) /\ <<Trl>> \in Seq(Item)
      BY <1>0, <2>5, ItemTypes DEF TypeOK, MessagesFit, CanFeed
    <3> QED  BY <1>0, <2>5, <3>1, OneMoreItem, FedFits
  <2>6. CASE DecodeTrailers \/ EncodeTrailers
    BY <1>0, <2>5, <2>6 DEF DecodeTrailers, EncodeTrailers
  <2> QED  BY <1>2, <2>1, <2>2, <2>3, <2>4, <2>6 DEF Receive
<1>3. CASE WorkerStep
  <2>1. CASE LocalReply
    <3>1. CASE fed["encode"] = <<>>
      <4>1. PICK body \in BOOLEAN : Feed("encode", <<Hdr>> \o EndIf(~body))
        BY <2>1, <3>1 DEF LocalReply, EncodeHeaders
      <4>2. (~body) \in BOOLEAN
        OBVIOUS
      <4> QED  BY <1>0, <3>1, <4>1, <4>2, HeadersFit
    <3>2. CASE fed["encode"] # <<>>
      <4>1. fed' = fed
        BY <2>1, <3>2 DEF LocalReply
      <4> QED  BY <4>1 DEF MessagesFit
    <3> QED  BY <3>1, <3>2
  <2>2. CASE LocalReplyBody
    <3>1. stack # <<>> /\ Head(stack).at = "replyBody" /\ "replyBody" \notin GoFrames
      BY <2>2 DEF LocalReplyBody, GoFrames
    <3>2. fed["encode"] = <<Hdr>>
      BY <3>1, OnlyFrame DEF FrameFits
    <3>3. fed["encode"] # <<>> /\ ~Ended(fed["encode"]) /\ Len(fed["encode"]) = 1
      BY <3>2, BeforeFacts DEF Ended, Last
    <3>4. Feed("encode", <<Chunk(Len(fed["encode"]))>> \o EndIf(TRUE))
      BY <2>2, <3>3 DEF LocalReplyBody, EncodeData
    <3> QED  BY <1>0, <3>3, <3>4, DataFits
  <2>3. CASE BufferFullReturns \/ TrailerAfterData \/ TrailersForwarded \/ ResumeData \/ ResumeTrailer
    <3>1. fed' = fed
      BY <2>3 DEF BufferFullReturns, TrailerAfterData, TrailersForwarded, ResumeData, ResumeTrailer,
                  streamVars
    <3> QED  BY <3>1 DEF MessagesFit
  <2> QED  BY <1>3, <2>1, <2>2, <2>3 DEF WorkerStep
<1>4. CASE Dispatch \/ Goroutine \/ OtherLocalReply \/ Destroy \/ UNCHANGED vars
  <2>1. fed' = fed
    BY <1>4 DEF Dispatch, DropEvent, ContinueEncodeLocalReply, ContinueEvent, LocalReplyEvent, Goroutine,
                Continue, SendLocalReply, GoAnswers, OtherLocalReply, Destroy, vars, streamVars
  <2> QED  BY <2>1 DEF MessagesFit
<1>5. CASE GoReturn
  <2>1. fed' = fed
    BY <1>5 DEF GoReturn, HeadersReturn, DataReturn, TrailerReturn, TrailerDataReturn, ResumeDataReturn,
                ResumeTrailerReturn, LocalReplyHeadersReturn, streamVars
  <2> QED  BY <2>1 DEF MessagesFit
<1> QED  BY <1>2, <1>3, <1>4, <1>5 DEF Next
-----------------------------------------------------------------------------
(* What Go is still to be shown                                            *)

LEMMA Regroup ==
    ASSUME NEW a \in Seq(Item), NEW b \in Seq(Item), NEW c \in Seq(Item)
    PROVE  /\ a \o (b \o c) = (a \o b) \o c
           /\ (a \o b) \o c \in Seq(Item)
<1>1. a \o b \in Seq(Item)
  BY ConcatProperties
<1>2. a \o (b \o c) = (a \o b) \o c
  BY ConcatAssociative
<1> QED  BY <1>1, <1>2, ConcatProperties

LEMMA RegroupFour ==
    ASSUME NEW r \in Seq(Item), NEW s \in Seq(Item), NEW t \in Seq(Item), NEW u \in Seq(Item)
    PROVE  r \o ((s \o t) \o u) = (r \o s) \o (t \o u)
<1> DEFINE tu == t \o u
<1>1. (s \o t) \o u = s \o tu
  BY ConcatAssociative, SMTT(30)
<1>2. tu \in Seq(Item)
  BY ConcatProperties
<1> HIDE DEF tu
<1>3. r \o (s \o tu) = (r \o s) \o tu
  BY <1>2, ConcatAssociative, SMTT(30)
<1> QED  BY <1>1, <1>3 DEF tu

LEMMA UnshownType ==
    ASSUME NEW p \in Processor
    PROVE  /\ Unshown(p) \in Seq(Item) /\ Rest(p) \in Seq(Item) /\ p.dataBuffer \in Seq(Item)
           /\ p.dataBuffer \in Seq(Chunks)
           /\ p.state # "WaitingHeader" => Unshown(p) = p.dataBuffer \o Rest(p)
           /\ p.state = "WaitingHeader" => Unshown(p) = <<Hdr>> \o (p.dataBuffer \o Rest(p))
<1>1. p.dataBuffer \in Seq(Chunks) /\ p.endStream \in BOOLEAN
  BY DEF Processor
<1>2. Rest(p) \in Seq(Item) /\ p.dataBuffer \in Seq(Item) /\ <<Hdr>> \in Seq(Item)
  BY <1>1, ItemTypes, DataIsItems DEF Rest
<1>3. p.dataBuffer \o Rest(p) \in Seq(Item) /\ <<Hdr>> \o (p.dataBuffer \o Rest(p)) \in Seq(Item)
  BY <1>2, ConcatProperties
<1>4. p.state # "WaitingHeader" => Unshown(p) = p.dataBuffer \o Rest(p)
  BY <1>3, ConcatEmptySeq DEF Unshown
<1>5. p.state = "WaitingHeader" => Unshown(p) = <<Hdr>> \o (p.dataBuffer \o Rest(p))
  BY DEF Unshown
<1> QED  BY <1>1, <1>2, <1>3, <1>4, <1>5

\* Nothing about the message changed.
SameMessage(p, q) ==
    /\ q.dataBuffer = p.dataBuffer
    /\ q.endStream = p.endStream
    /\ q.doEndStream = p.doEndStream
    /\ q.seenTrailers = p.seenTrailers
    /\ q.state = "WaitingHeader" <=> p.state = "WaitingHeader"

LEMMA SameUnshown ==
    ASSUME NEW p, NEW q, SameMessage(p, q)
    PROVE  Unshown(q) = Unshown(p)
BY DEF SameMessage, Unshown, Rest

\* What comes in is added to what Go is still to be shown.
LEMMA KeptItems ==
    ASSUME NEW p \in Processor, ~p.endStream, ~p.seenTrailers, ~p.doEndStream,
           NEW data \in Seq(Chunks), NEW rest \in Seq(Item),
           NEW q \in Processor, q.dataBuffer = p.dataBuffer \o data, Rest(q) = rest,
           q.state = "WaitingHeader" <=> p.state = "WaitingHeader"
    PROVE  data \o rest \in Seq(Item) /\ Unshown(q) = Unshown(p) \o (data \o rest)
<1> DEFINE h == IF p.state = "WaitingHeader" THEN <<Hdr>> ELSE <<>>
           buf == p.dataBuffer
<1>1. buf \in Seq(Item) /\ data \in Seq(Item) /\ h \in Seq(Item)
  <2>1. buf \in Seq(Item) /\ data \in Seq(Item)
    BY UnshownType, DataIsItems
  <2>2. h \in Seq(Item)
    BY ItemTypes
  <2> QED  BY <2>1, <2>2
<1>2. data \o rest \in Seq(Item)
  BY <1>1, ConcatProperties
<1>3. Unshown(p) = h \o (buf \o <<>>)
  BY DEF Unshown, Rest, EndIf
<1>4. Unshown(q) = h \o ((buf \o data) \o rest)
  BY DEF Unshown
<1> HIDE DEF h
<1>5. buf \o <<>> = buf
  BY <1>1, ConcatEmptySeq
<1>6. h \o ((buf \o data) \o rest) = (h \o buf) \o (data \o rest)
  <2> HIDE DEF buf
  <2> QED  BY <1>1, RegroupFour, SMTT(30)
<1> QED  BY <1>2, <1>3, <1>4, <1>5, <1>6

\* Go is shown all the data, with the end if it came in.
LEMMA ShownItems ==
    ASSUME NEW p \in Processor, ~p.doEndStream, p.state # "WaitingHeader",
           p.endStream => ~p.seenTrailers,
           NEW q \in Processor, q.dataBuffer = <<>>, q.state # "WaitingHeader",
           q.endStream = p.endStream, q.doEndStream = p.endStream, q.seenTrailers = p.seenTrailers
    PROVE  /\ p.dataBuffer \o EndIf(p.endStream) \in Seq(Item)
           /\ Unshown(p) = (p.dataBuffer \o EndIf(p.endStream)) \o Unshown(q)
<1> DEFINE buf == p.dataBuffer
<1>1. /\ buf \in Seq(Item) /\ p.endStream \in BOOLEAN /\ EndIf(p.endStream) \in Seq(Item)
      /\ Rest(p) \in Seq(Item) /\ Rest(q) \in Seq(Item)
      /\ Unshown(p) = buf \o Rest(p) /\ Unshown(q) = <<>> \o Rest(q)
  BY UnshownType, ItemTypes DEF Processor
<1>2. Unshown(q) = Rest(q) /\ buf \o EndIf(p.endStream) \in Seq(Item)
  BY <1>1, ConcatEmptySeq, ConcatProperties
<1>3. CASE p.endStream
  <2>1. Rest(p) = EndIf(p.endStream) /\ Rest(q) = <<>>
    BY <1>3 DEF Rest
  <2> QED  BY <1>1, <1>2, <2>1, ConcatEmptySeq
<1>4. CASE ~p.endStream
  <2>1. EndIf(p.endStream) = <<>> /\ Rest(q) = Rest(p)
    BY <1>4 DEF Rest, EndIf
  <2> QED  BY <1>1, <1>2, <2>1, ConcatEmptySeq
<1> QED  BY <1>2, <1>3, <1>4

\* Go is shown the trailers; it knows the rest.
LEMMA ShownTrailers ==
    ASSUME NEW p \in Processor, ~p.doEndStream, p.state # "WaitingHeader",
           p.seenTrailers, p.dataBuffer = <<>>,
           NEW q \in Processor, q.dataBuffer = <<>>, q.state # "WaitingHeader", q.doEndStream
    PROVE  /\ <<Trl>> \in Seq(Item)
           /\ Unshown(p) = <<Trl>> \o Unshown(q)
<1>1. Unshown(p) = <<>> \o Rest(p) /\ Unshown(q) = <<>> \o Rest(q)
  BY UnshownType
<1>2. <<Trl>> \in Seq(Item)
  BY ItemTypes
<1>3. Rest(p) = <<Trl>> /\ Rest(q) = <<>>
  BY DEF Rest
<1>4. <<>> \o <<Trl>> = <<Trl>> /\ <<Trl>> \o <<>> = <<Trl>> /\ <<>> \o <<>> = <<>>
  OBVIOUS
<1> QED  BY <1>1, <1>2, <1>3, <1>4

\* What a step does to what Go is still to be shown, when came comes in and Go is
\* shown shown.
Moves(p, came, shown, q) ==
    /\ came \in Seq(Item)
    /\ shown \in Seq(Item)
    /\ Unshown(p) \o came = shown \o Unshown(q)

LEMMA UnshownAlone ==
    ASSUME NEW p \in Processor
    PROVE  /\ Unshown(p) \in Seq(Item) /\ <<>> \in Seq(Item)
           /\ <<>> \o Unshown(p) = Unshown(p) /\ Unshown(p) \o <<>> = Unshown(p)
<1>1. Unshown(p) \in Seq(Item)
  BY UnshownType
<1> QED  BY <1>1, ConcatEmptySeq

LEMMA MovesIn ==
    ASSUME NEW p, NEW came, NEW q \in Processor, came \in Seq(Item), Unshown(q) = Unshown(p) \o came
    PROVE  Moves(p, came, <<>>, q)
BY UnshownAlone DEF Moves

LEMMA MovesOut ==
    ASSUME NEW p \in Processor, NEW shown, NEW q, shown \in Seq(Item), Unshown(p) = shown \o Unshown(q)
    PROVE  Moves(p, <<>>, shown, q)
BY UnshownAlone DEF Moves

LEMMA DataKept ==
    ASSUME NEW p \in Processor, ~p.endStream, ~p.seenTrailers, ~p.doEndStream,
           NEW data \in Seq(Chunks), NEW b \in BOOLEAN,
           NEW q \in Processor, q.dataBuffer = p.dataBuffer \o data, ~q.doEndStream,
           q.endStream = b, ~q.seenTrailers,
           q.state = "WaitingHeader" <=> p.state = "WaitingHeader"
    PROVE  Moves(p, data \o EndIf(b), <<>>, q)
<1>1. Rest(q) = EndIf(b) /\ EndIf(b) \in Seq(Item)
  BY ItemTypes DEF Rest
<1>2. data \o EndIf(b) \in Seq(Item) /\ Unshown(q) = Unshown(p) \o (data \o EndIf(b))
  BY <1>1, KeptItems, Zenon
<1> QED  BY <1>2, MovesIn, Zenon

LEMMA TrailersKept ==
    ASSUME NEW p \in Processor, ~p.endStream, ~p.seenTrailers, ~p.doEndStream,
           NEW q \in Processor, q.dataBuffer = p.dataBuffer, ~q.doEndStream, q.seenTrailers,
           q.state = "WaitingHeader" <=> p.state = "WaitingHeader"
    PROVE  Moves(p, <<Trl>>, <<>>, q)
<1>1. /\ <<>> \in Seq(Chunks) /\ <<Trl>> \in Seq(Item) /\ Rest(q) = <<Trl>>
      /\ <<>> \o <<Trl>> = <<Trl>> /\ p.dataBuffer \o <<>> = p.dataBuffer
  BY UnshownType, ItemTypes, ConcatEmptySeq DEF Rest
<1>2. q.dataBuffer = p.dataBuffer \o <<>>
  BY <1>1, Zenon
<1>3. Unshown(q) = Unshown(p) \o (<<>> \o <<Trl>>)
  BY <1>1, <1>2, KeptItems, Zenon
<1>4. Unshown(q) = Unshown(p) \o <<Trl>>
  BY <1>1, <1>3, Zenon
<1> QED  BY <1>1, <1>4, MovesIn, Zenon

LEMMA BufferShown ==
    ASSUME NEW p \in Processor, ~p.doEndStream, p.state # "WaitingHeader",
           p.endStream => ~p.seenTrailers,
           NEW q \in Processor, q.dataBuffer = <<>>, q.state # "WaitingHeader",
           q.endStream = p.endStream, q.doEndStream = p.endStream, q.seenTrailers = p.seenTrailers
    PROVE  Moves(p, <<>>, p.dataBuffer \o EndIf(p.endStream), q)
<1> DEFINE shown == p.dataBuffer \o EndIf(p.endStream)
<1> HIDE DEF shown
<1>1. shown \in Seq(Item) /\ Unshown(p) = shown \o Unshown(q)
  BY ShownItems DEF shown
<1>2. Moves(p, <<>>, shown, q)
  BY <1>1, MovesOut, Zenon
<1> QED  BY <1>2, Zenon DEF shown

LEMMA TrailersShown ==
    ASSUME NEW p \in Processor, ~p.doEndStream, p.state # "WaitingHeader",
           p.seenTrailers, p.dataBuffer = <<>>,
           NEW q \in Processor, q.dataBuffer = <<>>, q.state # "WaitingHeader", q.doEndStream
    PROVE  Moves(p, <<>>, <<Trl>>, q)
<1>1. <<Trl>> \in Seq(Item) /\ Unshown(p) = <<Trl>> \o Unshown(q)
  BY ShownTrailers
<1> QED  BY <1>1, MovesOut, Zenon

LEMMA KeptThenShown ==
    ASSUME NEW p, NEW came, NEW m, NEW shown, NEW q, m \in Processor,
           Moves(p, came, <<>>, m), Moves(m, <<>>, shown, q)
    PROVE  Moves(p, came, shown, q)
<1>1. <<>> \o Unshown(m) = Unshown(m) /\ Unshown(m) \o <<>> = Unshown(m)
  BY UnshownAlone, Zenon
<1> QED  BY <1>1 DEF Moves

\* The data comes in, and Go is shown all of what is there.
LEMMA DataMoves ==
    ASSUME NEW p \in Processor, ~p.endStream, ~p.seenTrailers, ~p.doEndStream, p.state # "WaitingHeader",
           NEW data \in Seq(Chunks), NEW b \in BOOLEAN, NEW items, items = p.dataBuffer \o data,
           NEW q \in Processor, q.dataBuffer = <<>>, q.state # "WaitingHeader",
           q.endStream = b, q.doEndStream = b, ~q.seenTrailers
    PROVE  Moves(p, data \o EndIf(b), items \o EndIf(b), q)
<1> DEFINE m == [p EXCEPT !.endStream = b, !.dataBuffer = items]
<1>1. items \in Seq(Chunks)
  <2>1. p.dataBuffer \in Seq(Chunks)
    BY UnshownType
  <2> QED  BY <2>1, ConcatProperties
<1>2. /\ m \in Processor /\ m.dataBuffer = items /\ m.endStream = b /\ ~m.seenTrailers /\ ~m.doEndStream
      /\ m.state = p.state
  BY <1>1 DEF Processor
<1> HIDE DEF m
<1>3. Moves(p, data \o EndIf(b), <<>>, m)
  <2>1. m.dataBuffer = p.dataBuffer \o data
    BY <1>2
  <2> QED  BY <1>2, <2>1, DataKept, Zenon
<1>4. Moves(m, <<>>, m.dataBuffer \o EndIf(m.endStream), q)
  <2>1. /\ m.state # "WaitingHeader" /\ (m.endStream => ~m.seenTrailers) /\ q.endStream = m.endStream
        /\ q.doEndStream = m.endStream /\ q.seenTrailers = m.seenTrailers
    <3>1. q.seenTrailers \in BOOLEAN /\ m.seenTrailers \in BOOLEAN
      BY <1>2 DEF Processor
    <3> QED  BY <1>2, <3>1
  <2> QED  BY <1>2, <2>1, BufferShown, Zenon
<1>5. Moves(m, <<>>, items \o EndIf(b), q)
  BY <1>2, <1>4
<1> QED  BY <1>2, <1>3, <1>5, KeptThenShown
-----------------------------------------------------------------------------
(* What one step shows                                                     *)

\* InInv with the library, but for MessagesFit.
ShowInv ==
    /\ \A d \in Dir : /\ IsPrefix(seen[d], fed[d])
                      /\ NothingSkipped(d)
                      /\ EndsTold(ps[d])
    /\ Drained
    /\ ResponseUntouched

\* A local reply that took the place of the request, or cut the response short,
\* did so for good.
RepliesStay ==
    /\ enterEncoding \/ localReplyWaitingGo => enterEncoding' \/ localReplyWaitingGo'
    /\ closed => closed'

LEMMA SeenGrows ==
    ASSUME NEW d \in Dir, fed[d] \in Seq(Item), seen[d] \in Seq(Item), IsPrefix(seen[d], fed[d]),
           NEW known \in Seq(Item), NEW came \in Seq(Item), NEW shown \in Seq(Item),
           ps'[d] \in Processor,
           fed'[d] = fed[d] \o came, seen'[d] = seen[d] \o shown,
           shown = <<>> \/ FlowsIn(d)',
           FlowsIn(d)' => fed[d] = seen[d] \o known /\ known \o came = shown \o Unshown(ps'[d])
    PROVE  IsPrefix(seen'[d], fed'[d]) /\ NothingSkipped(d)'
<1>1. CASE FlowsIn(d)'
  <2> DEFINE before == seen[d]
             left   == Unshown(ps'[d])
  <2>1. before \in Seq(Item) /\ left \in Seq(Item) /\ before \o shown \in Seq(Item)
    BY UnshownType, ConcatProperties
  <2>2. fed[d] = before \o known /\ known \o came = shown \o left
        /\ fed'[d] = fed[d] \o came /\ seen'[d] = before \o shown
    BY <1>1
  <2>3. fed'[d] = (before \o known) \o came
    BY <2>2
  <2> HIDE DEF before, left
  <2>4. (before \o known) \o came = before \o (known \o came)
    BY <2>1, Regroup, SMTT(30)
  <2>5. before \o (shown \o left) = (before \o shown) \o left
    BY <2>1, Regroup, SMTT(30)
  <2>6. fed'[d] = seen'[d] \o left
    BY <2>2, <2>3, <2>4, <2>5
  <2>7. IsPrefix(seen'[d], fed'[d])
    BY <2>1, <2>2, <2>6, PrefixOfConcat
  <2> QED  BY <2>6, <2>7 DEF NothingSkipped, left
<1>2. CASE ~FlowsIn(d)'
  <2>1. seen'[d] = seen[d]
    BY <1>2, ConcatEmptySeq
  <2> QED  BY <1>2, <2>1, PrefixGrows DEF NothingSkipped
<1> QED  BY <1>1, <1>2

LEMMA SeenStays ==
    ASSUME NEW d \in Dir, IsPrefix(seen[d], fed[d]), NothingSkipped(d),
           SameMessage(ps[d], ps'[d]), fed'[d] = fed[d], seen'[d] = seen[d], RepliesStay
    PROVE  IsPrefix(seen'[d], fed'[d]) /\ NothingSkipped(d)'
<1>1. FlowsIn(d)' => FlowsIn(d)
  BY DEF FlowsIn, RepliesStay, SameMessage
<1> QED  BY <1>1, SameUnshown DEF NothingSkipped

LEMMA SameEnds ==
    ASSUME NEW p, NEW q, EndsTold(p), SameMessage(p, q), q.state = p.state
    PROVE  EndsTold(q)
BY DEF EndsTold, SameMessage, IsStreamEnd

\* A step that works on one of the two messages.
LEMMA OneShown ==
    ASSUME TypeOK, ShowInv, NEW d \in Dir, NEW q \in Processor, ps' = [ps EXCEPT ![d] = q],
           NEW came, NEW shown, came \in Seq(Item), shown \in Seq(Item),
           fed'[d] = fed[d] \o came, seen'[d] = seen[d] \o shown,
           \A e \in Dir : e # d => fed'[e] = fed[e] /\ seen'[e] = seen[e],
           RepliesStay, shown = <<>> \/ FlowsIn(d)',
           FlowsIn(d)' => FlowsIn(d) /\ Moves(ps[d], came, shown, q),
           EndsTold(q), Drained', ResponseUntouched'
    PROVE  ShowInv'
<1>1. /\ fed[d] \in Seq(Item) /\ seen[d] \in Seq(Item) /\ ps[d] \in Processor /\ ps'[d] = q
      /\ \A e \in Dir : e # d => ps'[e] = ps[e]
  BY DEF TypeOK
<1>2. IsPrefix(seen'[d], fed'[d]) /\ NothingSkipped(d)'
  <2>1. FlowsIn(d)' => fed[d] = seen[d] \o Unshown(ps[d])
    BY DEF ShowInv, NothingSkipped
  <2>2. Unshown(ps[d]) \in Seq(Item) /\ IsPrefix(seen[d], fed[d])
    BY <1>1, UnshownAlone DEF ShowInv
  <2>3. FlowsIn(d)' => Unshown(ps[d]) \o came = shown \o Unshown(ps'[d])
    BY <1>1 DEF Moves
  <2> QED  BY <1>1, <2>1, <2>2, <2>3, SeenGrows
<1>3. ASSUME NEW e \in Dir, e # d
      PROVE  IsPrefix(seen'[e], fed'[e]) /\ NothingSkipped(e)' /\ EndsTold(ps'[e])
  <2>1. SameMessage(ps[e], ps'[e]) /\ EndsTold(ps'[e])
    BY <1>1, <1>3 DEF SameMessage, ShowInv
  <2> QED  BY <1>3, <2>1, SeenStays DEF ShowInv
<1> QED  BY <1>1, <1>2, <1>3 DEF ShowInv

\* A step that shows Go nothing.
LEMMA NothingShown ==
    ASSUME TypeOK, ShowInv, UNCHANGED <<ps, fed, seen, enterEncoding>>, RepliesStay, Drained'
    PROVE  ShowInv'
<1>1. ASSUME NEW e \in Dir
      PROVE  IsPrefix(seen'[e], fed'[e]) /\ NothingSkipped(e)' /\ EndsTold(ps'[e])
  <2>1. SameMessage(ps[e], ps'[e])
    BY DEF SameMessage
  <2> QED  BY <1>1, <2>1, SeenStays DEF ShowInv
<1>2. ResponseUntouched'
  BY DEF ShowInv, ResponseUntouched
<1> QED  BY <1>1, <1>2 DEF ShowInv

\* Nothing of a message is told as its end before the end came in.
LEMMA StillComing ==
    ASSUME SerialInv, EndInv, ShowInv, dynamicLib, NEW d \in Dir, ~Ended(fed[d])
    PROVE  /\ ps[d] \in Processor
           /\ ~ps[d].endStream /\ ~ps[d].seenTrailers /\ ~ps[d].doEndStream
           /\ ps[d].state \notin {"Done", "WaitingTrailer", "ProcessingTrailer"}
<1>1. ps[d] \in Processor /\ Flags(ps[d], fed[d]) /\ Sound(ps[d]) /\ EndsTold(ps[d])
  BY DEF SerialInv, TypeOK, EndInv, MarksFit, ShowInv
<1>2. ~ps[d].endStream /\ ~ps[d].seenTrailers
  BY <1>1 DEF Flags, Ended
<1> QED  BY <1>1, <1>2 DEF EndsTold, IsStreamEnd, Sound

\* Go is called: it is shown the items, and the private buffer is empty.
LEMMA EnteringShows ==
    ASSUME CallsInv, NEW d \in Dir, Cur' = d, NEW kind, NEW b, NEW items \in Seq(Item), NEW at \in GoFrames,
           NEW rest \in Seq(Frame), CallGo(d, kind, b, items, at, rest), seen[d] \in Seq(Item),
           seen \in [Dir -> Seq(Item)],
           \/ ps'[d].dataBuffer = <<>>
           \/ at = "localReplyHeaders" /\ ps'[d].state # "WaitingData"
    PROVE  /\ seen'[d] = seen[d] \o items
           /\ \A e \in Dir : e # d => seen'[e] = seen[e]
           /\ Drained'
<1>1. /\ seen' = [seen EXCEPT ![d] = seen[d] \o items]
      /\ stack' = <<At(at, d)>> \o rest
  BY DEF CallsInv, NeverRefused, CallGo
<1>2. stack' # <<>> /\ Head(stack').at = at
  BY <1>1 DEF At
<1> QED  BY <1>1, <1>2 DEF Drained
\* The direction the filter works for flows into Go.
LEMMA CurrentFlows ==
    ASSUME NEW d \in Dir, Cur = d, fed[d] # <<>>, ~closed, ~localReplyWaitingGo,
           ps[d].state # "WaitingHeader"
    PROVE  FlowsIn(d)
BY DEF FlowsIn, Cur

\* A step that works on the message Go is shown.
LEMMA CurrentShown ==
    ASSUME SerialInv, ShowInv, NEW d \in Dir, Cur = d, FlowsIn(d),
           NEW q \in Processor, ps' = [ps EXCEPT ![d] = q], q.state # "WaitingHeader",
           NEW came, NEW shown, Moves(ps[d], came, shown, q),
           fed'[d] = fed[d] \o came, seen'[d] = seen[d] \o shown,
           \A e \in Dir : e # d => fed'[e] = fed[e] /\ seen'[e] = seen[e],
           UNCHANGED <<enterEncoding, localReplyWaitingGo, closed>>, EndsTold(q), Drained'
    PROVE  ShowInv'
<1>1. /\ TypeOK /\ fed[d] \in Seq(Item) /\ ps'[d] = q /\ \A e \in Dir : e # d => ps'[e] = ps[e]
      /\ "encode" \in Dir /\ "decode" \in Dir /\ came \in Seq(Item) /\ shown \in Seq(Item)
  BY DEF SerialInv, TypeOK, Dir, Moves
<1>2. fed'[d] # <<>>
  <2>1. fed[d] # <<>>
    BY DEF FlowsIn
  <2> QED  BY <1>1, <2>1, ConcatProperties, EmptySeq
<1>3. FlowsIn(d)'
  BY <1>1, <1>2 DEF FlowsIn
<1>4. ResponseUntouched'
  <2>1. CASE d = "encode"
    <3>1. enterEncoding'
      BY <2>1 DEF Cur
    <3> QED  BY <1>1, <2>1, <3>1 DEF ResponseUntouched
  <2>2. CASE d = "decode"
    <3>1. ps'["encode"] = ps["encode"] /\ seen'["encode"] = seen["encode"]
      BY <1>1, <2>2
    <3> QED  BY <3>1 DEF ShowInv, ResponseUntouched
  <2> QED  BY <2>1, <2>2 DEF Dir
<1>5. RepliesStay
  BY DEF RepliesStay
<1> QED  BY <1>1, <1>3, <1>4, <1>5, OneShown

\* The data comes in: Go is shown it, with what waited for it, or it waits.
LEMMA DoDataShown ==
    ASSUME Calm, SerialInv, EndInv, ShowInv, NEW d \in Dir, NEW data \in Seq(Chunks),
           NEW endStream \in BOOLEAN,
           dynamicLib, Cur = d, fed[d] # <<>>, ~Ended(fed[d]), ~closed, ~localReplyWaitingGo,
           ~LooksAtBuffer, data \o EndIf(endStream) # <<>>,
           data = <<>> \/ (Len(data) = 1 /\ (Len(fed[d]) <= MaxChunks \/ fed[d] = <<Hdr>>)),
           Feed(d, data \o EndIf(endStream)),
           DoData(d, data, endStream, <<>>),
           UNCHANGED <<filterVars, posted, out, dropped>>
    PROVE  ShowInv'
<1> DEFINE p == [ps[d] EXCEPT !.endStream = endStream]
           q == AddBufferData(p, data, Limit)
           came == data \o EndIf(endStream)
<1>0. /\ TypeOK /\ CallsInv /\ ps[d] \in Processor /\ fed[d] \in Seq(Item) /\ seen \in [Dir -> Seq(Item)]
      /\ ~ps[d].endStream /\ ~ps[d].seenTrailers /\ ~ps[d].doEndStream
      /\ ps[d].state \notin {"Done", "WaitingTrailer", "ProcessingTrailer"}
      /\ EndsTold(ps[d]) /\ came \in Seq(Item)
  BY StillComing, MarkedItems DEF SerialInv, TypeOK, ShowInv
<1>1. /\ fed'[d] = fed[d] \o came
      /\ \A e \in Dir : e # d => fed'[e] = fed[e]
  BY <1>0, FedGrows
<1>2. /\ p \in Processor /\ p.endStream = endStream /\ ~p.seenTrailers /\ ~p.doEndStream
      /\ p.state = ps[d].state /\ p.dataBuffer = ps[d].dataBuffer
  BY <1>0 DEF Processor
<1>3. /\ q \in Processor /\ q.endStream = endStream /\ ~q.seenTrailers /\ ~q.doEndStream
      /\ q.state = ps[d].state /\ q.dataBuffer = ps[d].dataBuffer \o data
  <2>1. q \in Processor
    BY <1>2, AddBufferDataType
  <2> QED  BY <1>2, <2>1 DEF AddBufferData, Processor
<1>4. ~Overflows(p, data, Limit)
  BY BufferGrows
<1>5. \/ /\ p.state = "WaitingData" \/ (p.state = "WaitingAllData" /\ endStream /\ p.dataBuffer = <<>>)
         /\ DoDataGo(d, p, data, endStream, "doData", <<>>)
      \/ /\ p.state = "WaitingAllData" /\ endStream
         /\ DoDataGo(d, TakeBuffer(q), q.dataBuffer, TRUE, "doData", <<>>)
      \/ /\ UNCHANGED seen /\ stack' = <<>>
         /\ \/ p.state \in {"WaitingAllData", "ProcessingHeader", "ProcessingData"}
               /\ ps' = [ps EXCEPT ![d] = q]
            \/ /\ p.state \notin {"WaitingData", "WaitingAllData", "ProcessingHeader", "ProcessingData"}
               /\ ps' = [ps EXCEPT ![d] = p]
  BY <1>4 DEF DoData, goVars
<1>6. UNCHANGED <<closed, localReplyWaitingGo, enterEncoding>>
  BY <1>4 DEF DoData, filterVars, replyVars
<1> HIDE DEF p, q
<1>7. ASSUME ps[d].state \in {"WaitingData", "WaitingAllData"}, NEW r \in Processor, r.dataBuffer = <<>>,
             r.endStream = endStream, ~r.seenTrailers, NEW b, b = endStream,
             NEW items, items = ps[d].dataBuffer \o data,
             DoDataGo(d, r, items, b, "doData", <<>>)
      PROVE  ShowInv'
  <2> DEFINE new == Push(ProcessData(r, endStream), items)
             shown == items \o EndIf(endStream)
  <2>1. /\ new \in Processor /\ new.dataBuffer = <<>> /\ new.endStream = endStream
        /\ new.doEndStream = endStream /\ ~new.seenTrailers /\ new.state = "ProcessingData"
    <3>1. items \in Seq(Chunks)
      BY <1>3, <1>7, UnshownType
    <3>2. ProcessData(r, endStream) \in Processor
      BY ProcessTypes
    <3>3. new \in Processor
      BY <3>1, <3>2, ListTypes
    <3> QED  BY <1>7, <3>3 DEF Push, ProcessData, Processor
  <2>2. ps' = [ps EXCEPT ![d] = new] /\ CallGo(d, "data", endStream, shown, "doData", <<>>)
    BY <1>7 DEF DoDataGo
  <2> HIDE DEF new, came
  <2>3. Moves(ps[d], came, shown, new)
    <3>1. ps[d].state # "WaitingHeader" /\ new.state # "WaitingHeader"
      BY <1>7, <2>1
    <3> QED  BY <1>0, <1>7, <2>1, <3>1, DataMoves, Zenon DEF came
  <2>4. shown \in Seq(Item)
    BY <2>3 DEF Moves
  <2> HIDE DEF shown
  <2>5. ps'[d] = new /\ Cur' = d
    BY <1>0, <1>6, <2>2 DEF TypeOK, Cur
  <2>6. seen[d] \in Seq(Item) /\ "doData" \in GoFrames /\ <<>> \in Seq(Frame)
    BY <1>0 DEF GoFrames
  <2>7. /\ seen'[d] = seen[d] \o shown
        /\ \A e \in Dir : e # d => seen'[e] = seen[e]
        /\ Drained'
    BY <1>0, <2>1, <2>2, <2>4, <2>5, <2>6, EnteringShows
  <2>8. EndsTold(new)
    BY <2>1 DEF EndsTold, IsStreamEnd
  <2>9. FlowsIn(d) /\ new.state # "WaitingHeader"
    BY <1>7, <2>1, CurrentFlows
  <2> QED  BY <1>0, <1>1, <1>6, <2>1, <2>2, <2>3, <2>7, <2>8, <2>9, CurrentShown, Zenon
<1>8. CASE /\ p.state = "WaitingData" \/ (p.state = "WaitingAllData" /\ endStream /\ p.dataBuffer = <<>>)
           /\ DoDataGo(d, p, data, endStream, "doData", <<>>)
  <2>1. p.dataBuffer = <<>>
    BY <1>2, <1>8 DEF ShowInv, Drained
  <2>2. data = ps[d].dataBuffer \o data
    BY <1>2, <2>1, ConcatEmptySeq
  <2> QED  BY <1>2, <1>7, <1>8, <2>1, <2>2
<1>9. CASE /\ p.state = "WaitingAllData" /\ endStream
           /\ DoDataGo(d, TakeBuffer(q), q.dataBuffer, TRUE, "doData", <<>>)
  <2>1. /\ TakeBuffer(q) \in Processor /\ TakeBuffer(q).dataBuffer = <<>>
        /\ TakeBuffer(q).endStream = endStream /\ ~TakeBuffer(q).seenTrailers
    BY <1>3, ListTypes DEF TakeBuffer, Processor
  <2> QED  BY <1>2, <1>3, <1>7, <1>9, <2>1
<1>10. seen[d] \o <<>> = seen[d] /\ <<>> \in Seq(Item)
  BY <1>0, ConcatEmptySeq
<1>11. CASE /\ UNCHANGED seen /\ stack' = <<>> /\ ps' = [ps EXCEPT ![d] = q]
            /\ p.state \in {"WaitingAllData", "ProcessingHeader", "ProcessingData"}
  <2>1. ps'[d] = q /\ Cur' = d
    BY <1>0, <1>6, <1>11 DEF TypeOK, Cur
  <2>2. EndsTold(q) /\ Drained' /\ q.state # "WaitingHeader" /\ FlowsIn(d)
    BY <1>2, <1>3, <1>11, <2>1, CurrentFlows DEF EndsTold, Drained
  <2>3. seen'[d] = seen[d] \o <<>> /\ \A e \in Dir : e # d => seen'[e] = seen[e]
    BY <1>10, <1>11
  <2>4. Moves(ps[d], came, <<>>, q)
    <3>1. q.state = "WaitingHeader" <=> ps[d].state = "WaitingHeader"
      BY <1>3
    <3> QED  BY <1>0, <1>3, <3>1, DataKept, Zenon
  <2> HIDE DEF came
  <2> QED  BY <1>0, <1>1, <1>3, <1>6, <1>11, <2>2, <2>3, <2>4, CurrentShown, Zenon
<1>12. CASE /\ UNCHANGED seen /\ stack' = <<>> /\ ps' = [ps EXCEPT ![d] = p]
            /\ p.state \notin {"WaitingData", "WaitingAllData", "ProcessingHeader", "ProcessingData"}
  <2>1. p.state = "WaitingHeader"
    BY <1>0, <1>2, <1>12 DEF Processor, FilterState
  <2>2. ps'[d] = p /\ Cur' = d /\ \A e \in Dir : e # d => ps'[e] = ps[e]
    BY <1>0, <1>6, <1>12 DEF TypeOK, Cur
  <2>3. d = "decode" /\ ~enterEncoding /\ "encode" \in Dir /\ "encode" # d
    BY <1>2, <2>1 DEF ShowInv, ResponseUntouched, Cur, Dir
  <2>4. ~FlowsIn(d)'
    BY <2>1, <2>2, <2>3 DEF FlowsIn
  <2>5. EndsTold(p) /\ Drained' /\ RepliesStay /\ ResponseUntouched'
    BY <1>2, <1>6, <1>12, <2>1, <2>2, <2>3 DEF EndsTold, Drained, RepliesStay, ResponseUntouched, ShowInv
  <2>6. seen'[d] = seen[d] \o <<>> /\ \A e \in Dir : e # d => seen'[e] = seen[e]
    BY <1>10, <1>12
  <2> HIDE DEF came
  <2> QED  BY <1>0, <1>1, <1>2, <1>10, <1>12, <2>4, <2>5, <2>6, OneShown
<1> QED  BY <1>2, <1>5, <1>8, <1>9, <1>11, <1>12

\* Go is called with data or trailers.
LEMMA ReentryShown ==
    ASSUME SerialInv, ShowInv, NEW d \in Dir, Cur = d, FlowsIn(d),
           NEW q \in Processor, ps' = [ps EXCEPT ![d] = q], q.state # "WaitingHeader",
           NEW came, NEW shown, Moves(ps[d], came, shown, q),
           fed'[d] = fed[d] \o came, \A e \in Dir : e # d => fed'[e] = fed[e],
           UNCHANGED <<enterEncoding, localReplyWaitingGo, closed>>, EndsTold(q), q.dataBuffer = <<>>,
           NEW kind, NEW b, NEW at \in GoFrames, NEW rest \in Seq(Frame),
           CallGo(d, kind, b, shown, at, rest)
    PROVE  ShowInv'
<1>1. /\ CallsInv /\ seen \in [Dir -> Seq(Item)] /\ seen[d] \in Seq(Item) /\ shown \in Seq(Item)
      /\ ps'[d] = q /\ Cur' = d
  BY DEF SerialInv, TypeOK, Moves, Cur
<1>2. /\ seen'[d] = seen[d] \o shown
      /\ \A e \in Dir : e # d => seen'[e] = seen[e]
      /\ Drained'
  BY <1>1, EnteringShows
<1> QED  BY <1>2, CurrentShown, Zenon

\* Go is not called.
LEMMA KeepingShows ==
    ASSUME SerialInv, ShowInv, NEW d \in Dir, Cur = d, FlowsIn(d),
           NEW q \in Processor, ps' = [ps EXCEPT ![d] = q], q.state # "WaitingHeader",
           NEW came, Moves(ps[d], came, <<>>, q),
           fed'[d] = fed[d] \o came, \A e \in Dir : e # d => fed'[e] = fed[e],
           UNCHANGED <<seen, enterEncoding, localReplyWaitingGo, closed>>, EndsTold(q), Drained'
    PROVE  ShowInv'
<1>1. seen[d] \in Seq(Item) /\ seen' = seen
  BY DEF SerialInv, TypeOK
<1>2. seen'[d] = seen[d] \o <<>> /\ \A e \in Dir : e # d => seen'[e] = seen[e]
  BY <1>1, ConcatEmptySeq
<1> QED  BY <1>2, CurrentShown, Zenon

\* The trailers come in.
LEMMA DoTrailerShown ==
    ASSUME SerialInv, EndInv, ShowInv, NEW d \in WithTrailers, dynamicLib, Cur = d, ~localReplyWaitingGo,
           stack = <<>>, fed[d] # <<>>, ~Ended(fed[d]), ~closed,
           Feed(d, <<Trl>>), DoTrailer(d)
    PROVE  ShowInv'
<1> DEFINE p == [ps[d] EXCEPT !.seenTrailers = TRUE]
<1>0. /\ TypeOK /\ d \in Dir /\ ps[d] \in Processor /\ fed[d] \in Seq(Item) /\ SeeTrailers(d)[d] = p
      /\ <<Trl>> \in Seq(Item)
  <2>1. d \in Dir /\ TypeOK
    BY EnvironmentAssumption DEF SerialInv
  <2>2. ps[d] \in Processor /\ fed[d] \in Seq(Item) /\ SeeTrailers(d)[d] = p
    BY <2>1 DEF TypeOK, SeeTrailers
  <2> QED  BY <2>1, <2>2, ItemTypes
<1>1. /\ fed'[d] = fed[d] \o <<Trl>>
      /\ \A e \in Dir : e # d => fed'[e] = fed[e]
  BY <1>0, FedGrows
<1>2. /\ ~ps[d].endStream /\ ~ps[d].seenTrailers /\ ~ps[d].doEndStream
      /\ ps[d].state \notin {"Done", "WaitingTrailer", "ProcessingTrailer"}
  BY <1>0, StillComing
<1>3. /\ p \in Processor /\ ~p.endStream /\ p.seenTrailers /\ ~p.doEndStream
      /\ p.state = ps[d].state /\ p.dataBuffer = ps[d].dataBuffer
  BY <1>0, <1>2 DEF Processor
<1>4. \/ p.state = "WaitingData" /\ DoTrailerGo(d, p, "doTrailer", <<>>)
      \/ /\ p.state = "WaitingAllData"
         /\ DoDataGo(d, TakeBuffer(p), p.dataBuffer, FALSE, "doTrailerData", <<>>)
      \/ /\ p.state # "WaitingData"
         /\ ps' = [ps EXCEPT ![d] = p] /\ UNCHANGED <<seen, stack>>
  BY <1>0, <1>2, <1>3 DEF DoTrailer
<1>5. UNCHANGED <<closed, localReplyWaitingGo, enterEncoding>>
  BY DEF DoTrailer, replyVars
<1> HIDE DEF p
<1>6. Moves(ps[d], <<Trl>>, <<>>, p)
  BY <1>0, <1>2, <1>3, TrailersKept
<1>7. ps[d].state # "WaitingHeader" => FlowsIn(d)
  BY <1>0, CurrentFlows
<1>8. CASE p.state = "WaitingData" /\ DoTrailerGo(d, p, "doTrailer", <<>>)
  <2> DEFINE new == ProcessTrailer(p)
  <2>1. p.dataBuffer = <<>>
    BY <1>3, <1>8 DEF ShowInv, Drained, LooksAtBuffer
  <2>2. /\ new \in Processor /\ new.dataBuffer = <<>> /\ new.state = "ProcessingTrailer"
        /\ new.doEndStream /\ new.seenTrailers
    BY <1>3, <2>1, ProcessTypes DEF ProcessTrailer, Processor
  <2>3. ps' = [ps EXCEPT ![d] = new] /\ CallGo(d, "trailers", TRUE, <<Trl>>, "doTrailer", <<>>)
    BY <1>8 DEF DoTrailerGo
  <2> HIDE DEF new
  <2>4. Moves(ps[d], <<Trl>>, <<Trl>>, new)
    <3>1. Moves(p, <<>>, <<Trl>>, new)
      BY <1>3, <1>8, <2>1, <2>2, TrailersShown
    <3> QED  BY <1>3, <1>6, <3>1, KeptThenShown
  <2>5. EndsTold(new) /\ new.state # "WaitingHeader" /\ FlowsIn(d)
    BY <1>3, <1>7, <1>8, <2>2 DEF EndsTold, IsStreamEnd
  <2>6. "doTrailer" \in GoFrames /\ <<>> \in Seq(Frame)
    BY DEF GoFrames
  <2> QED  BY <1>0, <1>1, <1>5, <2>2, <2>3, <2>4, <2>5, <2>6, ReentryShown, Zenon
<1>9. CASE /\ p.state = "WaitingAllData"
           /\ DoDataGo(d, TakeBuffer(p), p.dataBuffer, FALSE, "doTrailerData", <<>>)
  <2> DEFINE new == Push(ProcessData(TakeBuffer(p), FALSE), p.dataBuffer)
             shown == p.dataBuffer \o EndIf(FALSE)
  <2>1. /\ new \in Processor /\ new.dataBuffer = <<>> /\ new.state = "ProcessingData"
        /\ ~new.endStream /\ ~new.doEndStream /\ new.seenTrailers
    <3>1. p.dataBuffer \in Seq(Chunks) /\ TakeBuffer(p) \in Processor
      BY <1>3, UnshownType, ListTypes
    <3>2. ProcessData(TakeBuffer(p), FALSE) \in Processor
      BY <3>1, ProcessTypes
    <3>3. new \in Processor
      BY <3>1, <3>2, ListTypes
    <3> QED  BY <1>3, <3>3 DEF Push, ProcessData, TakeBuffer, Processor
  <2>2. ps' = [ps EXCEPT ![d] = new] /\ CallGo(d, "data", FALSE, shown, "doTrailerData", <<>>)
    BY <1>9 DEF DoDataGo
  <2> HIDE DEF new
  <2>3. Moves(ps[d], <<Trl>>, shown, new)
    <3>1. p.endStream = FALSE /\ new.endStream = p.endStream /\ new.doEndStream = p.endStream
          /\ new.seenTrailers = p.seenTrailers /\ p.state # "WaitingHeader" /\ new.state # "WaitingHeader"
      BY <1>3, <1>9, <2>1 DEF Processor
    <3>2. Moves(p, <<>>, p.dataBuffer \o EndIf(p.endStream), new)
      BY <1>3, <2>1, <3>1, BufferShown, Zenon
    <3>3. Moves(p, <<>>, shown, new)
      BY <3>1, <3>2
    <3> QED  BY <1>3, <1>6, <3>3, KeptThenShown, Zenon
  <2> HIDE DEF shown
  <2>4. EndsTold(new) /\ new.state # "WaitingHeader" /\ FlowsIn(d)
    BY <1>3, <1>7, <1>9, <2>1 DEF EndsTold, IsStreamEnd
  <2>5. "doTrailerData" \in GoFrames /\ <<>> \in Seq(Frame)
    BY DEF GoFrames
  <2> QED  BY <1>0, <1>1, <1>5, <2>1, <2>2, <2>3, <2>4, <2>5, ReentryShown, Zenon
<1>10. CASE /\ p.state # "WaitingData"
            /\ ps' = [ps EXCEPT ![d] = p] /\ UNCHANGED <<seen, stack>>
  <2>1. ps'[d] = p /\ Cur' = d /\ \A e \in Dir : e # d => ps'[e] = ps[e]
    BY <1>0, <1>5, <1>10 DEF TypeOK, Cur
  <2>2. EndsTold(p) /\ Drained'
    BY <1>2, <1>3, <1>10, <2>1 DEF EndsTold, Drained
  <2>3. CASE p.state # "WaitingHeader"
    BY <1>0, <1>1, <1>3, <1>5, <1>6, <1>7, <1>10, <2>2, <2>3, KeepingShows, Zenon
  <2>4. CASE p.state = "WaitingHeader"
    <3>1. d = "decode" /\ ~enterEncoding /\ "encode" \in Dir /\ "encode" # d
      BY <1>3, <2>4 DEF ShowInv, ResponseUntouched, Cur, Dir
    <3>2. ~FlowsIn(d)' /\ RepliesStay /\ ResponseUntouched'
      BY <1>5, <1>10, <2>1, <2>4, <3>1 DEF FlowsIn, RepliesStay, ResponseUntouched, ShowInv
    <3>3. /\ seen'[d] = seen[d] \o <<>> /\ <<>> \in Seq(Item)
          /\ \A e \in Dir : e # d => seen'[e] = seen[e]
      <4>1. seen[d] \in Seq(Item)
        BY <1>0 DEF TypeOK
      <4> QED  BY <1>10, <4>1, ConcatEmptySeq
    <3> QED  BY <1>0, <1>1, <1>3, <1>10, <2>2, <3>2, <3>3, OneShown
  <2> QED  BY <2>3, <2>4
<1> QED  BY <1>4, <1>8, <1>9, <1>10

\* Nothing was shown of a message that did not come in.
LEMMA NotStarted ==
    ASSUME SerialInv, EndInv, ShowInv, dynamicLib, NEW d \in Dir, fed[d] = <<>>
    PROVE  /\ ps[d] \in Processor /\ ps[d].dataBuffer = <<>> /\ ps[d].state = "WaitingHeader"
           /\ ~ps[d].endStream /\ ~ps[d].seenTrailers /\ ~ps[d].doEndStream
           /\ seen[d] = <<>> /\ seen \in [Dir -> Seq(Item)] /\ ~Ended(fed[d])
<1>1. /\ ps[d] \in Processor /\ seen \in [Dir -> Seq(Item)] /\ seen[d] \in Seq(Item)
      /\ fed[d] \in Seq(Item) /\ IsPrefix(seen[d], fed[d]) /\ ~Ended(fed[d])
  BY DEF SerialInv, TypeOK, ShowInv, Ended
<1>2. ps[d].state = "WaitingHeader" /\ ps[d].dataBuffer = <<>>
  <2>1. ps[d].state = "WaitingHeader"
    <3>1. CASE d = "decode"
      BY <3>1 DEF SerialInv, FlowInv, StreamOrder
    <3>2. CASE d = "encode"
      BY <3>2 DEF SerialInv, FlowInv, StreamOrder, EndInv, Started
    <3> QED  BY <3>1, <3>2 DEF Dir
  <2>2. Len(ps[d].dataBuffer) \in Nat /\ Len(fed[d]) = 0
    BY <1>1, UnshownType, LenProperties
  <2> QED  BY <2>1, <2>2 DEF SerialInv, FlowInv, BufferFits
<1>3. seen[d] = <<>>
  BY <1>1, PrefixFacts
<1> QED  BY <1>1, <1>2, <1>3, StillComing

LEMMA HeaderItems == \A b \in BOOLEAN : <<Hdr>> \o EndIf(b) \in Seq(Item)
<1> TAKE b \in BOOLEAN
<1> DEFINE hdr == <<Hdr>>
           end == EndIf(b)
<1>1. hdr \in Seq(Item) /\ end \in Seq(Item)
  BY ItemTypes
<1> HIDE DEF hdr, end
<1>2. hdr \o end \in Seq(Item)
  BY <1>1, ConcatProperties
<1> QED  BY <1>2 DEF hdr, end

\* The headers that come in, when they are all there is.
LEMMA HeadersAlone ==
    ASSUME NEW b \in BOOLEAN, NEW p \in Processor, p.dataBuffer = <<>>, p.endStream = b, ~p.seenTrailers
    PROVE  /\ <<Hdr>> \o EndIf(b) \in Seq(Item)
           /\ ~p.doEndStream /\ p.state = "WaitingHeader" => Unshown(p) = <<Hdr>> \o EndIf(b)
           /\ p.doEndStream = b /\ p.state # "WaitingHeader" => Unshown(p) = <<>>
<1>1. /\ <<Hdr>> \in Seq(Item) /\ EndIf(b) \in Seq(Item) /\ EndIf(FALSE) = <<>>
  BY ItemTypes DEF EndIf
<1>2. <<Hdr>> \o EndIf(b) \in Seq(Item)
  BY <1>1, ConcatProperties
<1>3. <<>> \o EndIf(b) = EndIf(b) /\ <<>> \o <<>> = <<>>
  BY <1>1, ConcatEmptySeq
<1>4. ~p.doEndStream => Rest(p) = EndIf(b)
  BY DEF Rest
<1>5. p.doEndStream = b => Rest(p) = <<>>
  BY <1>1 DEF Rest
<1>6. ~p.doEndStream /\ p.state = "WaitingHeader" => Unshown(p) = <<Hdr>> \o EndIf(b)
  BY <1>3, <1>4 DEF Unshown
<1>7. p.doEndStream = b /\ p.state # "WaitingHeader" => Unshown(p) = <<>>
  BY <1>3, <1>5 DEF Unshown
<1> QED  BY <1>2, <1>6, <1>7

\* Go is called with the headers that come in.
LEMMA HeadersShown ==
    ASSUME SerialInv, EndInv, ShowInv, dynamicLib, NEW d \in Dir, fed[d] = <<>>, NEW b \in BOOLEAN,
           Feed(d, <<Hdr>> \o EndIf(b)),
           ps'[d] = ProcessHeader([ps[d] EXCEPT !.endStream = b], b), Cur' = d,
           NEW at \in GoFrames, NEW rest \in Seq(Frame),
           CallGo(d, "headers", b, <<Hdr>> \o EndIf(b), at, rest),
           \A e \in Dir : e # d => /\ EndsTold(ps'[e])
                                   /\ FlowsIn(e)' => FlowsIn(e) /\ ps'[e] = ps[e],
           d = "decode" => ~enterEncoding /\ ~enterEncoding' /\ ps'["encode"] = ps["encode"],
           d = "encode" => enterEncoding'
    PROVE  ShowInv'
<1> DEFINE p    == ps[d]
           q    == ProcessHeader([p EXCEPT !.endStream = b], b)
           came == <<Hdr>> \o EndIf(b)
<1>0. /\ TypeOK /\ CallsInv /\ "encode" \in Dir /\ "decode" \in Dir
      /\ fed[d] \in Seq(Item) /\ seen[d] = <<>> /\ seen \in [Dir -> Seq(Item)] /\ seen[d] \in Seq(Item)
      /\ p \in Processor /\ p.dataBuffer = <<>> /\ ~p.seenTrailers /\ came \in Seq(Item)
  BY NotStarted, HeaderItems DEF SerialInv, TypeOK, Dir
<1>1. /\ q \in Processor /\ q.dataBuffer = <<>> /\ q.endStream = b /\ q.doEndStream = b
      /\ ~q.seenTrailers /\ q.state = "ProcessingHeader" /\ ps'[d] = q
  <2>1. [p EXCEPT !.endStream = b] \in Processor
    BY <1>0 DEF Processor
  <2>2. q \in Processor
    BY <2>1, ProcessTypes
  <2> QED  BY <1>0, <2>2 DEF ProcessHeader, Processor
<1> HIDE DEF p, q
<1>2. Unshown(q) = <<>>
  BY <1>1, HeadersAlone
<1> HIDE DEF came
<1>3. fed'[d] = fed[d] \o came /\ \A e \in Dir : e # d => fed'[e] = fed[e]
  BY <1>0, FedGrows DEF came
<1>4. /\ seen'[d] = seen[d] \o came
      /\ \A e \in Dir : e # d => seen'[e] = seen[e]
      /\ Drained'
  <2>1. CallGo(d, "headers", b, came, at, rest)
    BY DEF came
  <2> QED  BY <1>0, <1>1, <2>1, EnteringShows, Zenon
<1>5. fed'[d] = came /\ seen'[d] = came /\ came \o <<>> = came
  <2>1. <<>> \o came = came /\ came \o <<>> = came
    BY <1>0, ConcatEmptySeq
  <2> QED  BY <1>0, <1>3, <1>4, <2>1
<1>6. IsPrefix(seen'[d], fed'[d]) /\ NothingSkipped(d)'
  <2>1. <<>> \in Seq(Item)
    BY <1>0
  <2>2. IsPrefix(came, came)
    BY <1>0, <1>5, <2>1, PrefixOfConcat, Zenon
  <2>3. fed'[d] = seen'[d] \o Unshown(ps'[d])
    BY <1>1, <1>2, <1>5
  <2> QED  BY <1>5, <2>2, <2>3 DEF NothingSkipped
<1>7. ASSUME NEW e \in Dir, e # d
      PROVE  IsPrefix(seen'[e], fed'[e]) /\ NothingSkipped(e)' /\ EndsTold(ps'[e])
  <2>1. fed'[e] = fed[e] /\ seen'[e] = seen[e] /\ IsPrefix(seen[e], fed[e]) /\ NothingSkipped(e)
    BY <1>3, <1>4, <1>7 DEF ShowInv
  <2> QED  BY <1>7, <2>1 DEF NothingSkipped
<1>8. EndsTold(ps'[d])
  BY <1>1 DEF EndsTold, IsStreamEnd
<1>9. ResponseUntouched'
  <2>1. CASE d = "decode"
    <3>1. seen'["encode"] = seen["encode"]
      BY <1>0, <1>4, <2>1
    <3> QED  BY <2>1, <3>1 DEF ShowInv, ResponseUntouched
  <2>2. CASE d = "encode"
    BY <1>1, <2>2 DEF ResponseUntouched
  <2> QED  BY <2>1, <2>2 DEF Dir
<1> QED  BY <1>4, <1>6, <1>7, <1>8, <1>9 DEF ShowInv

LEMMA DecodeHeadersShown ==
    ASSUME SerialInv, EndInv, ShowInv, dynamicLib, NEW endStream \in BOOLEAN, DecodeHeaders(endStream)
    PROVE  ShowInv'
<1>1. /\ CanFeed("decode") /\ fed["decode"] = <<>> /\ Feed("decode", <<Hdr>> \o EndIf(endStream))
      /\ DoHeadersGo("decode", SetEndStream("decode", endStream), endStream, "doHeaders", stack)
      /\ UNCHANGED <<replyVars, closed>>
  BY DEF DecodeHeaders, Bypass
<1>2. /\ Cur = "decode" /\ ~enterEncoding /\ enterEncoding' = enterEncoding /\ closed' = closed
      /\ localReplyWaitingGo' = localReplyWaitingGo /\ stack = <<>> /\ fed["encode"] = <<>>
  BY <1>1, RequestIsCurrent DEF replyVars
<1>3. /\ ps'["decode"] = ProcessHeader([ps["decode"] EXCEPT !.endStream = endStream], endStream)
      /\ ps'["encode"] = ps["encode"] /\ "decode" \in Dir /\ "encode" \in Dir
  BY <1>1 DEF DoHeadersGo, SetEndStream, SerialInv, TypeOK, Dir
<1>4. /\ CallGo("decode", "headers", endStream, <<Hdr>> \o EndIf(endStream), "doHeaders", <<>>)
      /\ "doHeaders" \in GoFrames /\ <<>> \in Seq(Frame) /\ Cur' = "decode"
  BY <1>1, <1>2 DEF DoHeadersGo, GoFrames, Cur
<1>5. \A e \in Dir : e # "decode" => /\ EndsTold(ps'[e])
                                     /\ FlowsIn(e)' => FlowsIn(e) /\ ps'[e] = ps[e]
  <2>1. EndsTold(ps'["encode"])
    BY <1>3 DEF ShowInv
  <2>2. ~FlowsIn("encode")'
    <3>1. <<Hdr>> \o EndIf(endStream) \in Seq(Item)
      BY HeaderItems
    <3>2. fed'["encode"] = <<>>
      BY <1>1, <1>2, <1>3, <3>1, FedGrows DEF SerialInv
    <3> QED  BY <3>2 DEF FlowsIn
  <2> QED  BY <2>1, <2>2 DEF Dir
<1> QED  BY <1>1, <1>2, <1>3, <1>4, <1>5, HeadersShown

\* Nothing is skipped by emptying the lists of a processor.
LEMMA EmptyingKeepsEnds ==
    ASSUME NEW p \in Processor, EndsTold(p),
           NEW q, q \in {p, ClearAll(p), TakeBuffer(p), ClearAll(TakeBuffer(p)), ClearLatest(p)}
    PROVE  /\ q \in Processor /\ EndsTold(q) /\ q.state = p.state
           /\ q.doEndStream = p.doEndStream /\ q.endStream = p.endStream /\ q.seenTrailers = p.seenTrailers
<1>1. /\ q \in Processor /\ q.state = p.state /\ q.doEndStream = p.doEndStream
      /\ q.endStream = p.endStream /\ q.seenTrailers = p.seenTrailers
      /\ q.dataBuffer \in {<<>>, p.dataBuffer}
  BY ListsKeepMarks
<1> QED  BY <1>1 DEF EndsTold, IsStreamEnd

LEMMA EncodeHeadersShown ==
    ASSUME SerialInv, EndInv, ShowInv, dynamicLib, NEW endStream \in BOOLEAN,
           NEW rest \in {<<>>, <<ReplyBody>>},
           fed["encode"] = <<>>, ~closed, EncodeHeaders(endStream, rest)
    PROVE  ShowInv'
<1> DEFINE pd == ps["decode"]
           pe == [ps["encode"] EXCEPT !.endStream = endStream]
           items == <<Hdr>> \o EndIf(endStream)
<1>0. /\ "decode" \in Dir /\ "encode" \in Dir /\ Dir = {"decode", "encode"}
      /\ ps \in [Dir -> Processor] /\ fed["encode"] \in Seq(Item) /\ TypeOK
      /\ pd \in Processor /\ EndsTold(pd) /\ items \in Seq(Item)
  BY HeaderItems DEF SerialInv, TypeOK, ShowInv, Dir
<1>1. /\ ~enterEncoding /\ ~localReplyWaitingGo /\ Cur = "decode"
  BY DEF SerialInv, FlowInv, StreamOrder, Cur
<1>2. /\ Feed("encode", items) /\ closed' = closed
  BY DEF EncodeHeaders, Bypass
<1>3. /\ fed'["encode"] = fed["encode"] \o items /\ fed'["decode"] = fed["decode"]
  BY <1>0, <1>2, FedGrows
<1>4. /\ pe \in Processor /\ pe.endStream = endStream /\ ~pe.seenTrailers /\ ~pe.doEndStream
      /\ pe.state = "WaitingHeader" /\ pe.dataBuffer = <<>>
      /\ seen["encode"] = <<>> /\ seen \in [Dir -> Seq(Item)]
  BY <1>0, NotStarted DEF Processor
<1>5. SetEndStream("encode", endStream) = [ps EXCEPT !["encode"] = pe]
  BY DEF SetEndStream
<1> HIDE DEF pe, items
<1>6. CASE /\ ps' = [SetEndStream("encode", endStream) EXCEPT !["decode"] = TakeBuffer(@)]
           /\ localReplyWaitingGo' = TRUE
           /\ UNCHANGED <<enterEncoding, seen>>
  <2>1. ps'["decode"] = TakeBuffer(pd) /\ ps'["encode"] = pe /\ Cur' = "decode"
    BY <1>0, <1>1, <1>5, <1>6 DEF Cur
  <2>2. EndsTold(ps'["decode"]) /\ ps'["decode"].dataBuffer = <<>>
    <3>1. EndsTold(TakeBuffer(pd))
      BY <1>0, EmptyingKeepsEnds
    <3>2. TakeBuffer(pd).dataBuffer = <<>>
      BY <1>0 DEF TakeBuffer, Processor
    <3> QED  BY <2>1, <3>1, <3>2
  <2>3. EndsTold(ps'["encode"])
    BY <1>4, <2>1 DEF EndsTold
  <2>4. Drained'
    BY <2>1, <2>2 DEF Drained
  <2>5. ResponseUntouched'
    BY <1>1, <1>4, <1>6, <2>1 DEF ResponseUntouched
  <2>6. IsPrefix(seen'["decode"], fed'["decode"]) /\ NothingSkipped("decode")'
    BY <1>0, <1>3, <1>6 DEF NothingSkipped, FlowsIn, ShowInv
  <2>7. IsPrefix(seen'["encode"], fed'["encode"]) /\ NothingSkipped("encode")'
    <3>1. Unshown(pe) = items
      BY <1>4, HeadersAlone DEF items
    <3>2. <<>> \o items = items /\ <<>> \in Seq(Item)
      BY <1>0, ConcatEmptySeq
    <3>3. fed'["encode"] = <<>> \o items
      BY <1>3
    <3>4. IsPrefix(<<>>, <<>> \o items)
      BY <1>0, <3>2, PrefixOfConcat, Zenon
    <3> QED  BY <1>4, <1>6, <2>1, <3>1, <3>3, <3>4 DEF NothingSkipped
  <2> QED  BY <1>0, <2>2, <2>3, <2>4, <2>5, <2>6, <2>7 DEF ShowInv
<1>7. ASSUME enterEncoding' = TRUE, NEW a, a \in {pd, ClearAll(TakeBuffer(pd))},
             DoHeadersGo("encode", [ps EXCEPT !["decode"] = a, !["encode"] = pe],
                         endStream, "doHeaders", rest)
      PROVE  ShowInv'
  <2>1. /\ ps'["decode"] = a /\ ps'["encode"] = ProcessHeader(pe, endStream)
        /\ Cur' = "encode"
    BY <1>0, <1>7 DEF DoHeadersGo, Cur
  <2>2. EndsTold(a)
    BY <1>0, <1>7, EmptyingKeepsEnds
  <2>3. ~FlowsIn("decode")'
    BY <1>7 DEF FlowsIn
  <2>4. /\ CallGo("encode", "headers", endStream, <<Hdr>> \o EndIf(endStream), "doHeaders", rest)
        /\ "doHeaders" \in GoFrames /\ rest \in Seq(Frame)
    <3>1. ReplyBody \in Frame
      BY <1>0 DEF ReplyBody, At, Frame, Label
    <3>2. <<>> \in Seq(Frame) /\ <<ReplyBody>> \in Seq(Frame)
      BY <3>1
    <3> QED  BY <1>7, <3>2 DEF DoHeadersGo, GoFrames
  <2>5. \A e \in Dir : e # "encode" => /\ EndsTold(ps'[e])
                                       /\ FlowsIn(e)' => FlowsIn(e) /\ ps'[e] = ps[e]
    BY <1>0, <2>1, <2>2, <2>3
  <2>6. ps'["encode"] = ProcessHeader([ps["encode"] EXCEPT !.endStream = endStream], endStream)
    BY <2>1 DEF pe
  <2>7. Feed("encode", <<Hdr>> \o EndIf(endStream))
    BY <1>2 DEF items
  <2> QED  BY <1>0, <1>7, <2>1, <2>4, <2>5, <2>6, <2>7, HeadersShown
<1>8. CASE /\ enterEncoding' = TRUE
           /\ DoHeadersGo("encode", SetEndStream("encode", endStream), endStream, "doHeaders", rest)
  <2>1. SetEndStream("encode", endStream) = [ps EXCEPT !["decode"] = pd, !["encode"] = pe]
    BY <1>0, <1>5
  <2> QED  BY <1>7, <1>8, <2>1
<1>9. CASE /\ enterEncoding' = TRUE
           /\ DoHeadersGo("encode",
                          [SetEndStream("encode", endStream) EXCEPT !["decode"] = ClearAll(TakeBuffer(@))],
                          endStream, "doHeaders", rest)
  <2>1. [SetEndStream("encode", endStream) EXCEPT !["decode"] = ClearAll(TakeBuffer(@))]
          = [ps EXCEPT !["decode"] = ClearAll(TakeBuffer(pd)), !["encode"] = pe]
    BY <1>0, <1>5
  <2> QED  BY <1>7, <1>9, <2>1
<1> QED  BY <1>1, <1>6, <1>8, <1>9 DEF EncodeHeaders, Bypass, goVars

\* The response waits: what comes in of it is kept.
LEMMA WaitingResponseShown ==
    ASSUME SerialInv, EndInv, ShowInv, dynamicLib, localReplyWaitingGo, ~Ended(fed["encode"]),
           fed["encode"] # <<>>,
           NEW q \in Processor, ps' = [ps EXCEPT !["encode"] = q], q.state = ps["encode"].state,
           ~q.doEndStream, NEW came, Moves(ps["encode"], came, <<>>, q),
           Feed("encode", came), stack' = stack \/ stack' = <<>>,
           UNCHANGED <<seen, enterEncoding, localReplyWaitingGo, closed>>
    PROVE  ShowInv'
<1>0. /\ TypeOK /\ "encode" \in Dir /\ "decode" \in Dir /\ came \in Seq(Item) /\ <<>> \in Seq(Item)
      /\ seen["encode"] \in Seq(Item)
  BY DEF SerialInv, TypeOK, Dir, Moves
<1>1. /\ ~enterEncoding /\ ps["encode"].state = "WaitingHeader" /\ InGo(ps["decode"])
      /\ stack \in {<<>>, <<ReplyBody>>}
  BY DEF SerialInv, FlowInv, ReplyWaitsForRequest, EndInv, Started
<1>2. fed'["encode"] = fed["encode"] \o came /\ \A e \in Dir : e # "encode" => fed'[e] = fed[e]
  BY <1>0, FedGrows
<1>3. seen'["encode"] = seen["encode"] \o <<>> /\ \A e \in Dir : e # "encode" => seen'[e] = seen[e]
  BY <1>0, ConcatEmptySeq
<1>4. /\ ps'["encode"] = q /\ ps'["decode"] = ps["decode"]
  BY <1>0 DEF TypeOK
<1>5. EndsTold(q) /\ RepliesStay /\ ResponseUntouched'
  BY <1>1, <1>4 DEF EndsTold, RepliesStay, ResponseUntouched, ShowInv
<1>6. Drained'
  <2>1. Cur' = "decode" /\ ps'["decode"].state # "WaitingData"
    BY <1>1, <1>4 DEF Cur, InGo
  <2>2. stack' # <<>> => Head(stack').at = "replyBody"
    BY <1>1 DEF ReplyBody, At
  <2> QED  BY <2>1, <2>2 DEF Drained, GoFrames
<1>7. FlowsIn("encode")' => FlowsIn("encode")
  BY DEF FlowsIn
<1> QED  BY <1>0, <1>2, <1>3, <1>5, <1>6, <1>7, OneShown

LEMMA EncodeDataShown ==
    ASSUME Calm, SerialInv, EndInv, ShowInv, dynamicLib, NEW data \in Seq(Chunks),
           NEW endStream \in BOOLEAN,
           data = <<>> \/ (Len(data) = 1 /\ (Len(fed["encode"]) <= MaxChunks \/ fed["encode"] = <<Hdr>>)),
           fed["encode"] # <<>>, ~Ended(fed["encode"]), ~closed, ~LooksAtBuffer,
           data \o EndIf(endStream) # <<>>, EncodeData(data, endStream, <<>>)
    PROVE  ShowInv'
<1>1. "encode" \in Dir /\ Feed("encode", data \o EndIf(endStream))
  BY DEF EncodeData, Dir
<1>2. CASE /\ localReplyWaitingGo
           /\ ps' = [ps EXCEPT !["encode"] =
                       AddBufferData([@ EXCEPT !.endStream = endStream], data, Limit)]
           /\ stack' = <<>>
           /\ UNCHANGED <<filterVars, goVars, posted, crashed, out, dropped, closed>>
  <2> DEFINE p == [ps["encode"] EXCEPT !.endStream = endStream]
             q == AddBufferData(p, data, Limit)
  <2>1. /\ ps["encode"] \in Processor /\ ~ps["encode"].endStream /\ ~ps["encode"].seenTrailers
        /\ ~ps["encode"].doEndStream
    BY <1>1, StillComing
  <2>2. /\ p \in Processor /\ p.endStream = endStream /\ ~p.seenTrailers /\ ~p.doEndStream
        /\ p.state = ps["encode"].state /\ p.dataBuffer = ps["encode"].dataBuffer
    BY <2>1 DEF Processor
  <2>3. /\ q \in Processor /\ q.endStream = endStream /\ ~q.seenTrailers /\ ~q.doEndStream
        /\ q.state = ps["encode"].state /\ q.dataBuffer = ps["encode"].dataBuffer \o data
    <3>1. q \in Processor
      BY <2>2, AddBufferDataType
    <3> QED  BY <2>2, <3>1 DEF AddBufferData, Processor
  <2>4. ps' = [ps EXCEPT !["encode"] = q]
    BY <1>2
  <2> HIDE DEF p, q
  <2>5. Moves(ps["encode"], data \o EndIf(endStream), <<>>, q)
    <3>1. q.state = "WaitingHeader" <=> ps["encode"].state = "WaitingHeader"
      BY <2>3
    <3> QED  BY <2>1, <2>3, <3>1, DataKept, Zenon
  <2>6. UNCHANGED <<seen, enterEncoding, localReplyWaitingGo, closed>>
    BY <1>2 DEF goVars, filterVars, replyVars
  <2> QED  BY <1>1, <1>2, <2>3, <2>4, <2>5, <2>6, WaitingResponseShown, Zenon
<1>3. CASE /\ ~localReplyWaitingGo
           /\ DoData("encode", data, endStream, <<>>)
           /\ UNCHANGED <<filterVars, posted, out, dropped>>
  <2>1. Cur = "encode"
    BY <1>3 DEF SerialInv, FlowInv, StreamOrder, Cur
  <2> QED  BY <1>1, <1>3, <2>1, DoDataShown, Zenon
<1> QED  BY <1>2, <1>3 DEF EncodeData, Bypass

LEMMA EncodeTrailersShown ==
    ASSUME SerialInv, EndInv, ShowInv, dynamicLib, EncodeTrailers
    PROVE  ShowInv'
<1>1. /\ CanFeed("encode") /\ fed["encode"] # <<>> /\ Feed("encode", <<Trl>>)
      /\ "encode" \in WithTrailers /\ "encode" \in Dir /\ ~Ended(fed["encode"])
  BY DEF EncodeTrailers, CanFeed, Dir
<1>2. stack = <<>> /\ ~closed /\ (~localReplyWaitingGo => Cur = "encode")
  BY <1>1, ResponseIsCurrent
<1>3. CASE /\ localReplyWaitingGo
           /\ ps' = SeeTrailers("encode")
           /\ UNCHANGED <<enterEncoding, localReplyWaitingGo, goVars, stack, closed>>
  <2> DEFINE p == [ps["encode"] EXCEPT !.seenTrailers = TRUE]
  <2>1. /\ ps["encode"] \in Processor /\ ~ps["encode"].endStream /\ ~ps["encode"].seenTrailers
        /\ ~ps["encode"].doEndStream
    BY <1>1, StillComing
  <2>2. /\ p \in Processor /\ p.seenTrailers /\ ~p.doEndStream
        /\ p.state = ps["encode"].state /\ p.dataBuffer = ps["encode"].dataBuffer
        /\ ps' = [ps EXCEPT !["encode"] = p]
    BY <1>3, <2>1 DEF Processor, SeeTrailers
  <2> HIDE DEF p
  <2>3. Moves(ps["encode"], <<Trl>>, <<>>, p) /\ UNCHANGED seen
    BY <1>3, <2>1, <2>2, TrailersKept DEF goVars
  <2> QED  BY <1>1, <1>3, <2>2, <2>3, WaitingResponseShown
<1>4. CASE ~localReplyWaitingGo /\ DoTrailer("encode")
  BY <1>1, <1>2, <1>4, DoTrailerShown
<1> QED  BY <1>3, <1>4 DEF EncodeTrailers, Bypass

LEMMA ReceiveShown ==
    ASSUME Calm, SerialInv, EndInv, ShowInv, dynamicLib, Receive
    PROVE  ShowInv'
<1>1. ASSUME NEW endStream \in BOOLEAN, NEW data \in DataFrames("decode"), DecodeData(data, endStream)
      PROVE  ShowInv'
  <2>1. /\ CanFeed("decode") /\ fed["decode"] # <<>> /\ Feed("decode", data \o EndIf(endStream))
        /\ "decode" \in Dir /\ ~Ended(fed["decode"])
        /\ DoData("decode", data, endStream, stack)
        /\ UNCHANGED <<filterVars, posted, out, dropped>>
    BY <1>1 DEF DecodeData, Bypass, CanFeed, Dir
  <2>2. /\ data \in Seq(Chunks) /\ data \o EndIf(endStream) # <<>>
        /\ data = <<>> \/ (Len(data) = 1 /\ Len(fed["decode"]) <= MaxChunks)
    BY <1>1, <2>1, DataFrame DEF SerialInv, DecodeData
  <2>3. Cur = "decode" /\ stack = <<>> /\ ~closed /\ ~localReplyWaitingGo
    BY <2>1, RequestIsCurrent
  <2>4. DoData("decode", data, endStream, <<>>) /\ ~LooksAtBuffer
    BY <2>1, <2>3 DEF LooksAtBuffer
  <2> QED  BY <2>1, <2>2, <2>3, <2>4, DoDataShown, Zenon
<1>2. ASSUME NEW endStream \in BOOLEAN, ResponseHeaders(endStream)
      PROVE  ShowInv'
  <2>1. ~closed /\ fed["encode"] = <<>> /\ EncodeHeaders(endStream, <<>>)
    BY <1>2 DEF ResponseHeaders, CanFeed
  <2> QED  BY <2>1, EncodeHeadersShown
<1>3. ASSUME NEW endStream \in BOOLEAN, NEW data \in DataFrames("encode"), ResponseData(data, endStream)
      PROVE  ShowInv'
  <2>1. /\ CanFeed("encode") /\ fed["encode"] # <<>> /\ "encode" \in Dir /\ ~Ended(fed["encode"])
        /\ data # <<>> \/ endStream
    BY <1>3 DEF ResponseData, CanFeed, Dir
  <2>2. stack = <<>> /\ ~closed /\ ~LooksAtBuffer
    BY <2>1, ResponseIsCurrent DEF LooksAtBuffer
  <2>3. /\ data \in Seq(Chunks) /\ data \o EndIf(endStream) # <<>>
        /\ data = <<>> \/ (Len(data) = 1 /\ Len(fed["encode"]) <= MaxChunks)
    BY <2>1, DataFrame DEF SerialInv
  <2>4. EncodeData(data, endStream, <<>>)
    BY <1>3, <2>2 DEF ResponseData
  <2> QED  BY <2>1, <2>2, <2>3, <2>4, EncodeDataShown, Zenon
<1>4. CASE DecodeTrailers
  <2>1. /\ CanFeed("decode") /\ fed["decode"] # <<>> /\ Feed("decode", <<Trl>>)
        /\ "decode" \in WithTrailers /\ "decode" \in Dir /\ ~Ended(fed["decode"])
        /\ DoTrailer("decode")
    BY <1>4 DEF DecodeTrailers, Bypass, CanFeed, Dir
  <2>2. Cur = "decode" /\ stack = <<>> /\ ~closed /\ ~localReplyWaitingGo
    BY <2>1, RequestIsCurrent
  <2> QED  BY <2>1, <2>2, DoTrailerShown
<1> QED  BY <1>1, <1>2, <1>3, <1>4, DecodeHeadersShown, EncodeTrailersShown DEF Receive
-----------------------------------------------------------------------------
(* What Go answers shows it nothing                                        *)

\* An answer leaves the message alone.
LEMMA AnswerKeepsMessage ==
    ASSUME NEW p \in Processor, NEW msg, Flags(p, msg), Sound(p), EndsTold(p),
           NEW call \in Call, p.state = Processing(call.kind), call.end = p.doEndStream,
           ~call.refused, call.kind = "trailers" => call.end,
           NEW status \in GolangStatus, status \in Allowed(call),
           NEW q, q = HandleGolangStatus(p, status), NEW n \in {q, ClearAll(q)}
    PROVE  /\ n \in Processor /\ SameMessage(p, n) /\ EndsTold(n) /\ n.state = q.state
<1>1. /\ q \in Processor /\ q.doEndStream = p.doEndStream /\ q.endStream = p.endStream
      /\ q.seenTrailers = p.seenTrailers
  BY AnswersKeepMarks
<1>2. /\ q.dataBuffer = p.dataBuffer
      /\ status \in Later => q.state = p.state
      /\ status \notin Later => q.state # "WaitingHeader"
      /\ call.kind = "headers"  => q = HandleHeaderGolangStatus(p, status)
      /\ call.kind = "data"     => q = HandleDataGolangStatus(p, status)
      /\ call.kind = "trailers" => q = HandleTrailerGolangStatus(p, status)
  BY AnswerEffects
<1>3. p.state = Processing(call.kind) /\ call.kind \in Kind
  BY DEF Call
<1>4. p.state # "WaitingHeader" /\ p.state # "Done" /\ p.state # "WaitingTrailer"
  BY <1>3 DEF Processing, Kind
<1>5. ASSUME q.state = "Done" PROVE q.doEndStream
  <2>1. CASE call.kind = "headers"
    BY <1>1, <1>2, <1>4, <1>5, <2>1 DEF HandleHeaderGolangStatus, AfterContinue, Processor
  <2>2. CASE call.kind = "data"
    BY <1>1, <1>2, <1>4, <1>5, <2>2 DEF HandleDataGolangStatus, AfterContinue, ClearLatest, Processor
  <2>3. CASE call.kind = "trailers"
    BY <1>1, <2>3
  <2> QED  BY <1>3, <2>1, <2>2, <2>3 DEF Kind
<1>6. ASSUME q.state = "WaitingTrailer" PROVE ~q.doEndStream /\ q.dataBuffer = <<>>
  <2>1. call.kind = "data"
    BY <1>2, <1>3, <1>4, <1>6 DEF HandleHeaderGolangStatus, HandleTrailerGolangStatus, AfterContinue,
                                  Processor, Kind
  <2>2. p.seenTrailers /\ p.dataBuffer = <<>>
    BY <1>2, <1>4, <1>6, <2>1 DEF HandleDataGolangStatus, AfterContinue, ClearLatest, Processor
  <2>3. p.state = "ProcessingData"
    BY <2>1 DEF Processing
  <2> QED  BY <1>1, <1>2, <2>2, <2>3, EndIsNotTrailers DEF Sound
<1>7. /\ n \in Processor /\ n.state = q.state /\ n.doEndStream = q.doEndStream /\ n.endStream = q.endStream
      /\ n.seenTrailers = q.seenTrailers /\ n.dataBuffer = q.dataBuffer
  <2>1. ClearAll(q) \in Processor
    BY <1>1, ListTypes
  <2>2. ClearAll(q).dataBuffer = q.dataBuffer
    BY <1>1 DEF ClearAll, Processor
  <2> QED  BY <1>1, <2>1, <2>2, ListsKeepMarks
<1>8. SameMessage(p, n)
  BY <1>1, <1>2, <1>4, <1>7 DEF SameMessage
<1>9. EndsTold(n)
  BY <1>1, <1>2, <1>5, <1>6, <1>7 DEF EndsTold, IsStreamEnd
<1> QED  BY <1>7, <1>8, <1>9

\* The current processor state takes an answer.
LEMMA AnsweredShows ==
    ASSUME SerialInv, ShowInv, Cur \in Dir, NEW n, ps' = [ps EXCEPT ![Cur] = n],
           SameMessage(ps[Cur], n), EndsTold(n),
           UNCHANGED <<fed, seen, enterEncoding, localReplyWaitingGo, closed>>, Drained'
    PROVE  ShowInv'
<1>0. /\ ps'[Cur] = n /\ \A e \in Dir : e # Cur => ps'[e] = ps[e]
      /\ "encode" \in Dir /\ RepliesStay
  BY DEF SerialInv, TypeOK, Dir, RepliesStay
<1>1. ASSUME NEW e \in Dir
      PROVE  IsPrefix(seen'[e], fed'[e]) /\ NothingSkipped(e)' /\ EndsTold(ps'[e])
  <2>1. SameMessage(ps[e], ps'[e]) /\ EndsTold(ps'[e])
    BY <1>0, <1>1 DEF SameMessage, ShowInv
  <2> QED  BY <1>0, <1>1, <2>1, SeenStays DEF ShowInv
<1>2. ResponseUntouched'
  <2>1. CASE enterEncoding
    BY <1>0, <2>1 DEF ResponseUntouched, ShowInv, SameMessage, Cur
  <2>2. CASE ~enterEncoding
    <3>1. ps'["encode"] = ps["encode"]
      BY <1>0, <2>2 DEF Cur
    <3> QED  BY <2>2, <3>1 DEF ResponseUntouched, ShowInv
  <2> QED  BY <2>1, <2>2
<1> QED  BY <1>1, <1>2 DEF ShowInv

\* Where continueStatusInternal goes on, it looks at the buffer, or Go is done.
LEMMA ContinueStatusDrained ==
    ASSUME NEW d \in Dir, NEW status, ps[d] \in Processor, fed[d] # <<>>, ps \in [Dir -> Processor],
           NEW q \in Processor, q = HandleGolangStatus(ps[d], status), Flags(q, fed[d]),
           ContinueStatusInternal(d, status, <<>>), Cur' = d
    PROVE  /\ \E n \in {q, ClearAll(q)} : ps' = [ps EXCEPT ![d] = n]
           /\ Drained'
<1>1. PICK n \in {q, ClearAll(q)} : ps' = [ps EXCEPT ![d] = n]
  BY ContinueStatusItems
<1>2. ps'[d].state = q.state
  BY <1>1 DEF ClearAll, Processor
<1>3. PICK label \in {"forwarded", "checkData", "forwardedTrailerData"} : stack' = <<At(label, d)>> \o <<>>
  BY DEF ContinueStatusInternal
<1>4. stack' # <<>> /\ Head(stack').at = label
  <2>1. stack' = <<At(label, d)>> /\ Head(<<At(label, d)>>) = At(label, d)
    BY <1>3
  <2> QED  BY <2>1 DEF At
<1>5. label = "forwardedTrailerData" => q.state = "Done"
  BY <1>4, ContinueStatusItems
<1> QED  BY <1>1, <1>2, <1>4, <1>5 DEF Drained, LooksAtBuffer, GoFrames

LEMMA GoReturnShown ==
    ASSUME SerialInv, EndInv, ShowInv, GoReturn
    PROVE  ShowInv'
<1> PICK call \in go, status \in GolangStatus :
        \/ HeadersReturn(call, status)
        \/ DataReturn(call, status)
        \/ TrailerReturn(call, status)
        \/ TrailerDataReturn(call, status)
        \/ ResumeDataReturn(call, status)
        \/ ResumeTrailerReturn(call, status)
        \/ LocalReplyHeadersReturn(call, status)
  BY DEF GoReturn
<1> DEFINE q == HandleGolangStatus(ps[Cur], status)
<1>1. /\ UNCHANGED <<fed, enterEncoding, localReplyWaitingGo, closed>>
      /\ \E at \in GoFrames : GoReturns(at, call, status)
  BY DEF HeadersReturn, DataReturn, TrailerReturn, TrailerDataReturn, ResumeDataReturn,
         ResumeTrailerReturn, LocalReplyHeadersReturn, filterVars, replyVars, GoFrames
<1>2. PICK at \in GoFrames : GoReturns(at, call, status)
  BY <1>1
<1>3. /\ call.dir = Cur /\ Cur \in Dir /\ dynamicLib /\ call \in Unanswered /\ call \in Call
      /\ status \in Allowed(call) /\ fed[Cur] # <<>> /\ q \in Processor /\ Flags(q, fed[Cur])
  BY <1>2, AnswerMarks
<1>4. /\ ps[Cur] \in Processor /\ ps[Cur].state = Processing(call.kind) /\ ~call.refused
      /\ call.kind = FrameKind(at) /\ (call.kind = "trailers" => call.end)
  BY <1>2, GoFrame
<1>5. call.end = ps[Cur].doEndStream /\ Flags(ps[Cur], fed[Cur]) /\ Sound(ps[Cur]) /\ EndsTold(ps[Cur])
  BY <1>3 DEF EndInv, EndsFit, MarksFit, ShowInv
<1>6. seen' = seen /\ Cur' = Cur
  BY <1>1, <1>2 DEF GoReturns, Cur
<1>7. stack # <<>> /\ Head(stack).at = at
  BY <1>2 DEF GoReturns
<1>8. /\ FrameKind("doHeaders") = "headers" /\ FrameKind("doData") = "data"
      /\ FrameKind("doTrailerData") = "data" /\ FrameKind("resumeData") = "data"
      /\ FrameKind("doTrailer") = "trailers" /\ FrameKind("resumeTrailer") = "trailers"
  BY DEF FrameKind
<1>9. ASSUME LocalReplyHeadersReturn(call, status)
      PROVE  ContinueStatusInternal(Cur, status, <<>>)
  <2>1. GoReturns("localReplyHeaders", call, status) /\ "localReplyHeaders" \in GoFrames
    BY <1>9 DEF LocalReplyHeadersReturn, GoFrames
  <2>2. Tail(stack) = <<>>
    <3>1. HandleGolangStatus(ps[call.dir], status) = HandleGolangStatus(ps[call.dir], status)
      OBVIOUS
    <3>2. FrameKind("localReplyHeaders") = "headers"
      BY DEF FrameKind
    <3> QED  BY <2>1, <3>1, <3>2, AnswerAt
  <2> QED  BY <1>3, <1>9, <2>2 DEF LocalReplyHeadersReturn
<1>10. ASSUME ~LocalReplyHeadersReturn(call, status)
       PROVE  at # "localReplyHeaders" /\ \E n \in {q, ClearAll(q)} : ps' = [ps EXCEPT ![Cur] = n]
  <2>1. q = CASE call.kind = "headers"  -> HandleHeaderGolangStatus(ps[Cur], status)
              [] call.kind = "data"     -> HandleDataGolangStatus(ps[Cur], status)
              [] call.kind = "trailers" -> HandleTrailerGolangStatus(ps[Cur], status)
    <3>1. /\ call.kind = "headers"  => q = HandleHeaderGolangStatus(ps[Cur], status)
          /\ call.kind = "data"     => q = HandleDataGolangStatus(ps[Cur], status)
          /\ call.kind = "trailers" => q = HandleTrailerGolangStatus(ps[Cur], status)
      BY <1>3, <1>4, AnswerEffects
    <3>2. call.kind \in Kind
      BY <1>3 DEF Call
    <3> QED  BY <3>1, <3>2 DEF Kind
  <2> HIDE DEF q
  <2>2. CASE HeadersReturn(call, status)
    <3>1. at = "doHeaders" /\ call.kind = "headers" /\ ps' = [ps EXCEPT ![Cur] = q]
      BY <1>3, <1>4, <1>7, <1>8, <2>1, <2>2 DEF HeadersReturn, GoReturns
    <3> QED  BY <3>1
  <2>3. CASE DataReturn(call, status)
    <3>1. at = "doData" /\ call.kind = "data"
      BY <1>3, <1>4, <1>7, <1>8, <2>3 DEF DataReturn, GoReturns
    <3> QED  BY <1>3, <2>1, <2>3, <3>1 DEF DataReturn
  <2>4. CASE TrailerReturn(call, status)
    <3>1. at = "doTrailer" /\ call.kind = "trailers" /\ ps' = [ps EXCEPT ![Cur] = q]
      BY <1>3, <1>4, <1>7, <1>8, <2>1, <2>4 DEF TrailerReturn, GoReturns
    <3> QED  BY <3>1
  <2>5. CASE TrailerDataReturn(call, status)
    <3>1. at = "doTrailerData" /\ call.kind = "data"
      BY <1>3, <1>4, <1>7, <1>8, <2>5 DEF TrailerDataReturn, GoReturns
    <3> QED  BY <1>3, <2>1, <2>5, <3>1 DEF TrailerDataReturn
  <2>6. CASE ResumeDataReturn(call, status)
    <3>1. at = "resumeData" /\ call.kind = "data"
      BY <1>3, <1>4, <1>7, <1>8, <2>6 DEF ResumeDataReturn, GoReturns
    <3> QED  BY <1>3, <2>1, <2>6, <3>1 DEF ResumeDataReturn, ContinueDoData
  <2>7. CASE ResumeTrailerReturn(call, status)
    <3>1. at = "resumeTrailer" /\ call.kind = "trailers" /\ ps' = [ps EXCEPT ![Cur] = q]
      BY <1>3, <1>4, <1>7, <1>8, <2>1, <2>7 DEF ResumeTrailerReturn, GoReturns
    <3> QED  BY <3>1
  <2> QED  BY <1>10, <2>2, <2>3, <2>4, <2>5, <2>6, <2>7
<1> HIDE DEF q
<1>11. ASSUME NEW n \in {q, ClearAll(q)}
       PROVE  SameMessage(ps[Cur], n) /\ EndsTold(n)
  BY <1>3, <1>4, <1>5, <1>11, AnswerKeepsMessage DEF q
<1>12. CASE LocalReplyHeadersReturn(call, status)
  <2>1. /\ \E n \in {q, ClearAll(q)} : ps' = [ps EXCEPT ![Cur] = n]
        /\ Drained'
    BY <1>3, <1>4, <1>6, <1>9, <1>12, ContinueStatusDrained DEF q, SerialInv, TypeOK
  <2> QED  BY <1>1, <1>3, <1>6, <1>11, <2>1, AnsweredShows
<1>13. CASE ~LocalReplyHeadersReturn(call, status)
  <2>1. PICK n \in {q, ClearAll(q)} : ps' = [ps EXCEPT ![Cur] = n]
    BY <1>10, <1>13
  <2>2. at # "localReplyHeaders"
    BY <1>10, <1>13
  <2>3. ps[Cur].dataBuffer = <<>>
    BY <1>7, <2>2 DEF ShowInv, Drained
  <2>4. SameMessage(ps[Cur], n) /\ EndsTold(n)
    BY <1>11
  <2>5. Drained'
    <3>1. ps'[Cur] = n
      BY <1>3, <2>1 DEF SerialInv, TypeOK
    <3> QED  BY <1>6, <2>3, <2>4, <3>1 DEF Drained, SameMessage
  <2> QED  BY <1>1, <1>3, <1>6, <2>1, <2>4, <2>5, AnsweredShows
<1> QED  BY <1>12, <1>13

LEMMA ContinueEventShown ==
    ASSUME SerialInv, EndInv, ShowInv, ContinueEvent
    PROVE  ShowInv'
<1> DEFINE call == posted[1].call
           status == posted[1].status
           q == HandleGolangStatus(ps[Cur], status)
<1>1. /\ NextEvent({"continue"}) /\ ~hasDestroyed /\ ~localReplyWaitingGo
      /\ ContinueStatusInternal(Cur, Head(posted).status, <<>>)
      /\ UNCHANGED <<seen, fed, enterEncoding, localReplyWaitingGo, closed>>
  BY DEF ContinueEvent, filterVars, replyVars, goVars
<1>2. /\ posted # <<>> /\ Head(posted) = posted[1] /\ posted[1] \in Event /\ posted[1].act = "continue"
      /\ call \in Unanswered /\ call \in Call /\ dynamicLib /\ Cur \in Dir /\ ps[Cur] \in Processor
      /\ ps[Cur].state = Processing(call.kind) /\ ~call.refused
  BY <1>1, TakenEvent DEF NextEvent
<1>3. /\ status \in Allowed(call) /\ status \in GolangStatus /\ (call.kind = "trailers" => call.end)
      /\ ps \in [Dir -> Processor]
  <2>1. posted \in Seq(Event)
    BY DEF SerialInv, TypeOK
  <2>2. Len(posted) = 1
    BY <1>2, OnePosted DEF SerialInv, CallsInv
  <2>3. 1 \in DOMAIN posted
    BY <2>1, <2>2, LenProperties
  <2> QED  BY <1>2, <2>3 DEF SerialInv, CallsInv, CallsFit, PostedIsAllowed, Event, TypeOK
<1>4. /\ call.end = ps[Cur].doEndStream /\ Flags(ps[Cur], fed[Cur]) /\ Sound(ps[Cur])
      /\ EndsTold(ps[Cur])
  BY <1>2 DEF EndInv, EndsFit, MarksFit, ShowInv
<1>5. ContinueStatusInternal(Cur, status, <<>>)
  BY <1>1, <1>2
<1> HIDE DEF call, status
<1>6. q \in Processor /\ Flags(q, fed[Cur])
  BY <1>2, <1>3, <1>4, AnswersKeepMarks
<1>7. fed[Cur] # <<>>
  BY <1>2, ProcessingIsInGo, WorkedOn DEF Call
<1>8. Cur' = Cur
  BY <1>1 DEF Cur
<1>9. ASSUME NEW n \in {q, ClearAll(q)}
      PROVE  SameMessage(ps[Cur], n) /\ EndsTold(n)
  BY <1>2, <1>3, <1>4, <1>9, AnswerKeepsMessage
<1>10. q = HandleGolangStatus(ps[Cur], status)
  OBVIOUS
<1> HIDE DEF q
<1>11. /\ \E n \in {q, ClearAll(q)} : ps' = [ps EXCEPT ![Cur] = n]
       /\ Drained'
  BY <1>2, <1>3, <1>5, <1>6, <1>7, <1>8, <1>10, ContinueStatusDrained
<1> QED  BY <1>1, <1>2, <1>9, <1>11, AnsweredShows

LEMMA LocalReplyShown ==
    ASSUME SerialInv, EndInv, ShowInv, dynamicLib, LocalReply
    PROVE  ShowInv'
<1>1. stack # <<>> /\ Head(stack).at = "localReply"
  BY DEF LocalReply
<1>2. "localReply" \notin GoFrames /\ "localReply" \notin Forwarding \cup {"checkData", "checkTrailer"}
  BY DEF GoFrames, Forwarding
<1>3. FrameFits(Head(stack)) /\ Tail(stack) = <<>>
  BY <1>1, <1>2, OnlyFrame
<1>4. fed["encode"] = <<>> /\ ~closed
  BY <1>1, <1>2, <1>3 DEF FrameFits, EndInv, NothingAfterEnd
<1>5. PICK body \in BOOLEAN :
         EncodeHeaders(~body, (IF body THEN <<ReplyBody>> ELSE <<>>) \o <<>>)
  BY <1>3, <1>4 DEF LocalReply, ReplyBody
<1>6. CASE body
  <2>1. <<ReplyBody>> \o <<>> = <<ReplyBody>>
    OBVIOUS
  <2>2. EncodeHeaders(FALSE, <<ReplyBody>>)
    BY <1>5, <1>6, <2>1
  <2> QED  BY <1>4, <2>2, EncodeHeadersShown
<1>7. CASE ~body
  <2>1. <<>> \o <<>> = <<>>
    OBVIOUS
  <2>2. EncodeHeaders(TRUE, <<>>)
    BY <1>5, <1>7, <2>1
  <2> QED  BY <1>4, <2>2, EncodeHeadersShown
<1> QED  BY <1>6, <1>7

LEMMA LocalReplyBodyShown ==
    ASSUME Calm, SerialInv, EndInv, ShowInv, dynamicLib, LocalReplyBody
    PROVE  ShowInv'
<1>1. stack # <<>> /\ Head(stack).at = "replyBody" /\ EncodeData(<<Chunk(1)>>, TRUE, Tail(stack))
  BY DEF LocalReplyBody
<1>2. "replyBody" \notin GoFrames /\ "replyBody" \notin Forwarding \cup {"checkData", "checkTrailer"}
  BY DEF GoFrames, Forwarding
<1>3. FrameFits(Head(stack)) /\ Tail(stack) = <<>>
  BY <1>1, <1>2, OnlyFrame
<1>4. fed["encode"] = <<Hdr>> /\ ~closed /\ ~LooksAtBuffer
  BY <1>1, <1>2, <1>3 DEF FrameFits, EndInv, NothingAfterEnd, LooksAtBuffer
<1>5. fed["encode"] # <<>> /\ ~Ended(fed["encode"])
  <2>1. Last(<<Hdr>>) = Hdr /\ Hdr # End /\ Hdr # Trl
    BY DEF Last, Hdr, End, Trl
  <2> QED  BY <1>4, <2>1 DEF Ended
<1>6. /\ <<Chunk(1)>> \in Seq(Chunks) /\ Len(<<Chunk(1)>>) = 1
      /\ <<Chunk(1)>> \o EndIf(TRUE) # <<>>
  BY ItemTypes, ConcatProperties DEF EndIf
<1>7. EncodeData(<<Chunk(1)>>, TRUE, <<>>)
  BY <1>1, <1>3
<1> DEFINE data == <<Chunk(1)>>
<1>8. data \in Seq(Chunks) /\ Len(data) = 1 /\ data \o EndIf(TRUE) # <<>> /\ EncodeData(data, TRUE, <<>>)
  BY <1>6, <1>7
<1> HIDE DEF data
<1> QED  BY <1>4, <1>5, <1>8, EncodeDataShown

\* The worker is in a place of the filter: the current message flows into Go.
LEMMA FrameFlows ==
    ASSUME SerialInv, EndInv, stack # <<>>,
           Head(stack).at \in Forwarding \cup {"checkData", "checkTrailer", "trailerAfterData"},
           ps[Cur].state # "WaitingHeader"
    PROVE  FlowsIn(Cur)
<1>1. Cur \in Dir /\ dynamicLib /\ ~closed
  BY FilterFrameEnd
<1>2. ~localReplyWaitingGo
  <2>1. Head(<<ReplyBody>>).at = "replyBody"
    BY DEF ReplyBody, At
  <2> QED  BY <2>1 DEF SerialInv, FlowInv, ReplyWaitsForRequest, Forwarding
<1>3. fed[Cur] # <<>>
  BY DEF SerialInv, FlowInv, StreamOrder, Cur
<1> QED  BY <1>1, <1>2, <1>3, CurrentFlows

\* The worker goes on with data or trailers: nothing comes in.
LEMMA GoingOnShows ==
    ASSUME SerialInv, EndInv, ShowInv, stack # <<>>,
           Head(stack).at \in Forwarding \cup {"checkData", "checkTrailer", "trailerAfterData"},
           ps[Cur].state # "WaitingHeader",
           NEW q \in Processor, ps' = [ps EXCEPT ![Cur] = q], q.state # "WaitingHeader",
           NEW shown, Moves(ps[Cur], <<>>, shown, q), EndsTold(q), q.dataBuffer = <<>>,
           NEW kind, NEW b, NEW at \in GoFrames, CallGo(Cur, kind, b, shown, at, <<>>),
           UNCHANGED <<fed, enterEncoding, localReplyWaitingGo, closed>>
    PROVE  ShowInv'
<1>0. PICK d \in Dir : d = Cur
  BY FilterFrameEnd
<1>1. FlowsIn(d) /\ Cur = d
  BY <1>0, FrameFlows
<1>2. /\ fed'[d] = fed[d] \o <<>> /\ \A e \in Dir : e # d => fed'[e] = fed[e]
      /\ <<>> \in Seq(Frame)
  <2>1. fed[d] \in Seq(Item)
    BY DEF SerialInv, TypeOK
  <2> QED  BY <2>1, ConcatEmptySeq
<1>3. ps' = [ps EXCEPT ![d] = q] /\ Moves(ps[d], <<>>, shown, q) /\ CallGo(d, kind, b, shown, at, <<>>)
  BY <1>0
<1> QED  BY <1>1, <1>2, <1>3, ReentryShown, Zenon

LEMMA TrailerGoShown ==
    ASSUME SerialInv, EndInv, ShowInv, stack # <<>>,
           Head(stack).at \in Forwarding \cup {"checkData", "checkTrailer", "trailerAfterData"},
           ps[Cur].state = "WaitingTrailer", NEW at \in GoFrames,
           DoTrailerGo(Cur, ps[Cur], at, <<>>), UNCHANGED <<filterVars, posted, streamVars>>
    PROVE  ShowInv'
<1> DEFINE q == ProcessTrailer(ps[Cur])
<1>1. ps[Cur] \in Processor /\ Sound(ps[Cur]) /\ EndsTold(ps[Cur]) /\ Cur \in Dir
  BY FilterFrameEnd DEF ShowInv
<1>2. ps[Cur].seenTrailers /\ ~ps[Cur].doEndStream /\ ps[Cur].dataBuffer = <<>>
  BY <1>1 DEF Sound, EndsTold
<1>3. /\ q \in Processor /\ q.doEndStream /\ q.dataBuffer = <<>> /\ q.seenTrailers
      /\ q.state = "ProcessingTrailer"
  BY <1>1, <1>2, ProcessTypes DEF ProcessTrailer, Processor
<1>4. ps' = [ps EXCEPT ![Cur] = q] /\ CallGo(Cur, "trailers", TRUE, <<Trl>>, at, <<>>)
  BY DEF DoTrailerGo
<1>5. UNCHANGED <<fed, enterEncoding, localReplyWaitingGo, closed>>
  BY DEF filterVars, replyVars, streamVars
<1> HIDE DEF q
<1>6. q.state # "WaitingHeader" /\ ps[Cur].state # "WaitingHeader" /\ EndsTold(q)
  BY <1>3 DEF EndsTold, IsStreamEnd
<1>7. Moves(ps[Cur], <<>>, <<Trl>>, q)
  BY <1>1, <1>2, <1>3, <1>6, TrailersShown, Zenon
<1> QED  BY <1>3, <1>4, <1>5, <1>6, <1>7, GoingOnShows

LEMMA TrailerAfterDataShown ==
    ASSUME SerialInv, EndInv, ShowInv, TrailerAfterData
    PROVE  ShowInv'
<1>1. /\ stack # <<>> /\ Head(stack).at = "trailerAfterData"
      /\ DoTrailerGo(Head(stack).dir, ps[Head(stack).dir], "doTrailer", Tail(stack))
      /\ UNCHANGED <<filterVars, posted, streamVars>>
  BY DEF TrailerAfterData
<1>2. Head(stack).dir = Cur /\ ps[Cur].state = "WaitingTrailer" /\ Tail(stack) = <<>>
  BY <1>1, FilterFrameEnd
<1>3. "doTrailer" \in GoFrames
  BY DEF GoFrames
<1> QED  BY <1>1, <1>2, <1>3, TrailerGoShown

LEMMA ResumeTrailerShown ==
    ASSUME SerialInv, EndInv, ShowInv, ResumeTrailer
    PROVE  ShowInv'
<1>1. /\ stack # <<>> /\ Head(stack).at \in {"checkTrailer", "forwardedData"}
      /\ UNCHANGED <<filterVars, posted, streamVars>>
  BY DEF ResumeTrailer
<1>2. Head(stack).at \in Forwarding \cup {"checkData", "checkTrailer", "trailerAfterData"}
  BY <1>1 DEF Forwarding
<1>3. Head(stack).dir = Cur /\ Cur \in Dir /\ Tail(stack) = <<>>
  BY <1>1, <1>2, FilterFrameEnd
<1>4. CASE /\ ps[Cur].state = "WaitingTrailer"
           /\ DoTrailerGo(Cur, ps[Cur], "resumeTrailer", <<>>)
  <2>1. "resumeTrailer" \in GoFrames
    BY DEF GoFrames
  <2> QED  BY <1>1, <1>2, <1>4, <2>1, TrailerGoShown
<1>5. CASE stack' = <<>> /\ UNCHANGED <<ps, goVars, crashed>>
  <2>1. UNCHANGED <<ps, fed, seen, enterEncoding>> /\ RepliesStay /\ Cur' = Cur
    BY <1>1, <1>5 DEF filterVars, replyVars, goVars, streamVars, RepliesStay, Cur
  <2>2. Drained'
    BY <1>1, <1>5, <2>1 DEF ShowInv, Drained, LooksAtBuffer
  <2> QED  BY <2>1, <2>2, NothingShown DEF SerialInv
<1> QED  BY <1>3, <1>4, <1>5 DEF ResumeTrailer, Return

LEMMA TrailersForwardedShown ==
    ASSUME SerialInv, EndInv, ShowInv, TrailersForwarded
    PROVE  ShowInv'
<1>1. /\ stack # <<>> /\ Head(stack).at = "forwardedTrailerData"
      /\ stack' = <<At("forwarded", Head(stack).dir)>> \o Tail(stack)
      /\ UNCHANGED <<ps, fed, seen, enterEncoding>> /\ RepliesStay
  BY DEF TrailersForwarded, filterVars, replyVars, goVars, RepliesStay
<1>2. Tail(stack) = <<>>
  BY <1>1, FilterFrameEnd DEF Forwarding
<1>3. stack' # <<>> /\ Head(stack').at = "forwarded"
  BY <1>1, <1>2 DEF At
<1>4. Drained'
  BY <1>3 DEF Drained, LooksAtBuffer, GoFrames
<1> QED  BY <1>1, <1>4, NothingShown DEF SerialInv

\* The data that waited is shown to Go, with the end that came in after it.
LEMMA ResumeDataShown ==
    ASSUME SerialInv, EndInv, ShowInv, ResumeData
    PROVE  ShowInv'
<1>1. /\ stack # <<>> /\ Head(stack).at \in {"checkData", "forwarded"}
      /\ UNCHANGED <<filterVars, posted, streamVars>>
      /\ UNCHANGED <<fed, enterEncoding, localReplyWaitingGo, closed>>
  BY DEF ResumeData, filterVars, replyVars, streamVars
<1>2. Head(stack).at \in Forwarding \cup {"checkData", "checkTrailer", "trailerAfterData"}
  BY <1>1 DEF Forwarding
<1>3. /\ Head(stack).dir = Cur /\ Cur \in Dir /\ Tail(stack) = <<>>
      /\ ps[Cur] \in Processor /\ Flags(ps[Cur], fed[Cur]) /\ Sound(ps[Cur])
  BY <1>1, <1>2, FilterFrameEnd
<1> DEFINE old == ps[Cur]
           taken == TakeBuffer(old)
<1>4. RepliesStay /\ Cur' = Cur
  BY <1>1 DEF RepliesStay, Cur
<1>5. CASE /\ MoreData(old)
           /\ DoDataGo(Cur, taken, old.dataBuffer, old.endStream, "resumeData", <<>>)
  <2>0. PICK b \in BOOLEAN : b = old.endStream
    BY <1>3 DEF Processor
  <2> DEFINE q == Push(ProcessData(taken, b), old.dataBuffer)
  <2>1. old.state # "WaitingHeader" /\ ~old.doEndStream /\ (old.endStream => ~old.seenTrailers)
    BY <1>3, <1>5, EndIsNotTrailers DEF MoreData, Sound
  <2>2. /\ q \in Processor /\ q.dataBuffer = <<>> /\ q.state = "ProcessingData"
        /\ q.endStream = old.endStream /\ q.doEndStream = b /\ q.seenTrailers = old.seenTrailers
    <3>1. old.dataBuffer \in Seq(Chunks) /\ taken \in Processor
      BY <1>3, UnshownType, ListTypes
    <3>2. ProcessData(taken, b) \in Processor
      BY <3>1, ProcessTypes
    <3>3. q \in Processor
      BY <3>1, <3>2, ListTypes
    <3> QED  BY <1>3, <3>3 DEF Push, ProcessData, TakeBuffer, Processor
  <2> DEFINE shown == old.dataBuffer \o EndIf(old.endStream)
  <2>3. ps' = [ps EXCEPT ![Cur] = q] /\ CallGo(Cur, "data", b, shown, "resumeData", <<>>)
    BY <1>5, <2>0 DEF DoDataGo
  <2>4. EndsTold(q) /\ q.state # "WaitingHeader" /\ "resumeData" \in GoFrames
    BY <2>0, <2>2 DEF EndsTold, IsStreamEnd, GoFrames
  <2> HIDE DEF q
  <2>5. q.doEndStream = old.endStream
    BY <2>0, <2>2
  <2>6. Moves(old, <<>>, shown, q)
    BY <1>3, <2>1, <2>2, <2>4, <2>5, BufferShown, Zenon
  <2>7. Moves(ps[Cur], <<>>, shown, q) /\ ps[Cur].state # "WaitingHeader"
    BY <2>1, <2>6
  <2> HIDE DEF shown, old, taken
  <2> QED  BY <1>1, <1>2, <2>2, <2>3, <2>4, <2>7, GoingOnShows
<1>6. CASE UNCHANGED <<ps, goVars, stack>>
  <2>1. UNCHANGED <<ps, fed, seen, enterEncoding>>
    BY <1>1, <1>6 DEF goVars
  <2>2. Drained'
    BY <1>4, <1>6 DEF ShowInv, Drained, LooksAtBuffer
  <2> QED  BY <1>4, <2>1, <2>2, NothingShown DEF SerialInv
<1>7. CASE ~MoreData(old) /\ stack' = <<At("checkTrailer", Cur)>> \o <<>> /\ UNCHANGED <<ps, goVars, crashed>>
  <2>1. UNCHANGED <<ps, fed, seen, enterEncoding>>
    BY <1>1, <1>7 DEF goVars
  <2>2. stack' # <<>> /\ Head(stack').at = "checkTrailer"
    BY <1>7 DEF At
  <2>3. Drained'
    BY <1>4, <1>7, <2>2 DEF Drained, MoreData, GoFrames
  <2> QED  BY <1>4, <2>1, <2>3, NothingShown DEF SerialInv
<1> QED  BY <1>3, <1>5, <1>6, <1>7 DEF ResumeData

\* Go replies: the request is shown no more, or the response is cut short.
LEMMA LocalReplyEventShown ==
    ASSUME SerialInv, EndInv, ShowInv, LocalReplyEvent
    PROVE  ShowInv'
<1> DEFINE p == ClearAll(TakeBuffer(ps[Cur]))
           q == [p EXCEPT !.state = "WaitingHeader"]
<1>1. /\ NextEvent({"reply"})
      /\ UNCHANGED <<seen, fed, enterEncoding, localReplyWaitingGo>>
  BY DEF LocalReplyEvent, filterVars, replyVars, goVars
<1>2. stack = <<>> /\ dynamicLib /\ Cur \in Dir /\ ps[Cur] \in Processor
  BY <1>1, TakenEvent DEF NextEvent
<1>3. EndsTold(ps[Cur]) /\ Cur' = Cur
  BY <1>1, <1>2 DEF ShowInv, Cur
<1>4. p \in Processor /\ EndsTold(p) /\ p.state = ps[Cur].state
  BY <1>3, <1>2, EmptyingKeepsEnds
<1>5. p.dataBuffer = <<>>
  BY <1>2 DEF ClearAll, TakeBuffer, Processor
<1>6. q \in Processor /\ q.state = "WaitingHeader" /\ q.dataBuffer = <<>> /\ EndsTold(q)
  <2> HIDE DEF p
  <2> QED  BY <1>4, <1>5 DEF Processor, FilterState, EndsTold, IsStreamEnd
<1> HIDE DEF p, q
<1>7. PICK d \in Dir : d = Cur
  BY <1>2
<1>8. /\ <<>> \in Seq(Item) /\ fed[d] \in Seq(Item) /\ seen[d] \in Seq(Item) /\ TypeOK
      /\ fed'[d] = fed[d] \o <<>> /\ seen'[d] = seen[d] \o <<>>
      /\ \A e \in Dir : e # d => fed'[e] = fed[e] /\ seen'[e] = seen[e]
  <2>1. <<>> \in Seq(Item) /\ fed[d] \in Seq(Item) /\ seen[d] \in Seq(Item) /\ TypeOK
    BY DEF SerialInv, TypeOK
  <2> QED  BY <1>1, <2>1, ConcatEmptySeq
<1>9. ASSUME NEW n \in {p, q}, ps' = [ps EXCEPT ![Cur] = n], RepliesStay, ~FlowsIn(d)', ResponseUntouched'
      PROVE  ShowInv'
  <2>1. n \in Processor /\ EndsTold(n) /\ n.dataBuffer = <<>> /\ ps' = [ps EXCEPT ![d] = n]
    BY <1>4, <1>5, <1>6, <1>7, <1>9
  <2>2. ps'[Cur] = n
    BY <1>7, <1>8, <2>1 DEF TypeOK
  <2>3. Drained'
    BY <1>3, <2>1, <2>2 DEF Drained
  <2> QED  BY <1>8, <1>9, <2>1, <2>3, OneShown
<1>10. CASE /\ Cur = "decode" /\ ps' = [ps EXCEPT ![Cur] = q] /\ UNCHANGED closed
  <2>1. ps'[d] = q /\ ps'["encode"] = ps["encode"] /\ ~enterEncoding
    BY <1>7, <1>8, <1>10 DEF TypeOK, Dir, Cur
  <2>2. ~FlowsIn(d)' /\ RepliesStay
    BY <1>1, <1>6, <1>7, <1>10, <2>1 DEF FlowsIn, RepliesStay
  <2>3. ResponseUntouched'
    BY <1>1, <2>1 DEF ShowInv, ResponseUntouched
  <2> QED  BY <1>9, <1>10, <2>2, <2>3
<1>11. CASE /\ Cur # "decode" /\ ps' = [ps EXCEPT ![Cur] = p] /\ closed' = TRUE
  <2>1. ps'[d] = p /\ Cur = "encode" /\ enterEncoding
    BY <1>7, <1>8, <1>11 DEF TypeOK, Dir, Cur
  <2>2. ~FlowsIn(d)' /\ RepliesStay
    BY <1>1, <1>7, <1>11, <2>1 DEF FlowsIn, RepliesStay
  <2>3. ResponseUntouched'
    BY <1>1, <1>4, <1>7, <2>1 DEF ShowInv, ResponseUntouched
  <2> QED  BY <1>9, <1>11, <2>2, <2>3
<1> QED  BY <1>10, <1>11 DEF LocalReplyEvent, p, q

\* The headers of a reply that waited are shown to Go before its body, and with
\* its end when there is no body.
LEMMA WaitingHeadersMove ==
    ASSUME NEW p \in Processor, p.state = "WaitingHeader", ~p.doEndStream, NEW b \in BOOLEAN,
           p.endStream => ~p.seenTrailers, b = (p.endStream /\ p.dataBuffer = <<>>)
    PROVE  Moves(p, <<>>, <<Hdr>> \o EndIf(b), ProcessHeader(p, b))
<1> DEFINE q == ProcessHeader(p, b)
<1>1. /\ q \in Processor /\ q.state = "ProcessingHeader" /\ q.doEndStream = b /\ q.endStream = p.endStream
      /\ q.seenTrailers = p.seenTrailers /\ q.dataBuffer = p.dataBuffer
  BY ProcessTypes DEF ProcessHeader, Processor
<1>2. Rest(p) \in Seq(Item) /\ p.dataBuffer \in Seq(Item)
      /\ Unshown(p) = <<Hdr>> \o (p.dataBuffer \o Rest(p))
  BY UnshownType
<1>3. Unshown(q) = q.dataBuffer \o Rest(q) /\ q.dataBuffer \in Seq(Item) /\ Rest(q) \in Seq(Item)
  BY <1>1, UnshownType
<1>4. <<Hdr>> \in Seq(Item) /\ <<>> \in Seq(Item)
  BY ItemTypes
<1> HIDE DEF q
<1>5. CASE b
  <2>1. Rest(p) = <<End>> /\ p.dataBuffer = <<>> /\ Rest(q) = <<>> /\ q.dataBuffer = <<>> /\ EndIf(b) = <<End>>
    BY <1>1, <1>5 DEF Rest, EndIf
  <2>2. Unshown(p) = <<Hdr>> \o EndIf(b)
    <3>1. <<>> \o <<End>> = <<End>>
      OBVIOUS
    <3> QED  BY <1>2, <2>1, <3>1
  <2>3. Unshown(q) = <<>>
    BY <1>3, <2>1
  <2>4. <<Hdr>> \o EndIf(b) \in Seq(Item)
    BY HeaderItems
  <2>5. (<<Hdr>> \o EndIf(b)) \o <<>> = <<Hdr>> \o EndIf(b)
    BY <2>4, ConcatEmptySeq
  <2> QED  BY <2>2, <2>3, <2>4, <2>5, <1>1, MovesOut DEF q
<1>6. CASE ~b
  <2>1. Rest(p) = Rest(q) /\ p.dataBuffer = q.dataBuffer /\ EndIf(b) = <<>>
    BY <1>1, <1>6 DEF Rest, EndIf
  <2>2. <<Hdr>> \o EndIf(b) = <<Hdr>>
    BY <1>4, <2>1, ConcatEmptySeq
  <2>3. Unshown(p) = (<<Hdr>> \o EndIf(b)) \o Unshown(q)
    BY <1>2, <1>3, <2>1, <2>2
  <2>4. <<Hdr>> \o EndIf(b) \in Seq(Item)
    BY HeaderItems
  <2> QED  BY <2>3, <2>4, MovesOut DEF q
<1> QED  BY <1>5, <1>6

LEMMA ContinueEncodeLocalReplyShown ==
    ASSUME SerialInv, EndInv, ShowInv, ContinueEncodeLocalReply
    PROVE  ShowInv'
<1> DEFINE enc == ps["encode"]
           r == ClearAll(ps["decode"])
<1>1. /\ NextEvent({"continue", "reply"}) /\ localReplyWaitingGo
      /\ localReplyWaitingGo' = FALSE /\ enterEncoding' = TRUE
      /\ UNCHANGED <<fed, closed>>
  BY DEF ContinueEncodeLocalReply, streamVars
<1>2. dynamicLib
  BY <1>1, TakenEvent DEF NextEvent
<1>3. ~enterEncoding /\ Cur = "decode" /\ Cur' = "encode"
  BY <1>1 DEF SerialInv, FlowInv, ReplyWaitsForRequest, Cur
<1>4. /\ ps \in [Dir -> Processor] /\ "decode" \in Dir /\ "encode" \in Dir /\ Dir = {"decode", "encode"}
      /\ localTrailers \in BOOLEAN /\ seen \in [Dir -> Seq(Item)] /\ fed \in [Dir -> Seq(Item)] /\ CallsInv
  BY DEF SerialInv, TypeOK, Dir
<1>5. /\ ~closed /\ enc.state = "WaitingHeader" /\ ~enc.doEndStream /\ enc \in Processor
      /\ enc.seenTrailers <=> localTrailers
      /\ enc.endStream => ~enc.seenTrailers
      /\ fed["encode"] # <<>>
  <2>1. enc \in Processor /\ Flags(enc, fed["encode"])
    BY <1>2, <1>4 DEF EndInv, MarksFit
  <2>2. ~closed /\ enc.state = "WaitingHeader" /\ ~enc.doEndStream
    BY <1>1, <1>2, <1>3 DEF NextEvent, EndInv, NothingAfterEnd, Started, ShowInv, ResponseUntouched
  <2>3. enc.seenTrailers <=> localTrailers
    BY <1>1, <1>2, <1>4 DEF EndInv, TrailersReached, Processor
  <2> QED  BY <1>1, <2>1, <2>2, <2>3, EndIsNotTrailers DEF SerialInv, FlowInv, StreamOrder
<1>6. PICK b \in BOOLEAN : b = (enc.endStream /\ ~localTrailers /\ enc.dataBuffer = <<>>)
  OBVIOUS
<1>7. DoHeadersGo("encode", [ps EXCEPT !["decode"] = r], b, "localReplyHeaders", <<>>)
  BY <1>3, <1>6 DEF ContinueEncodeLocalReply
<1>8. b = (enc.endStream /\ enc.dataBuffer = <<>>)
  BY <1>4, <1>5, <1>6 DEF Processor
<1> DEFINE p == ProcessHeader(enc, b)
           shown == <<Hdr>> \o EndIf(b)
<1>9. Moves(enc, <<>>, shown, p)
  BY <1>5, <1>8, WaitingHeadersMove, Zenon
<1>10. /\ p \in Processor /\ p.state = "ProcessingHeader" /\ p.doEndStream = b /\ p.endStream = enc.endStream
       /\ p.dataBuffer = enc.dataBuffer
  BY <1>5, ProcessTypes DEF ProcessHeader, Processor
<1>11. EndsTold(p) /\ EndsTold(r)
  <2>1. EndsTold(ps["decode"]) /\ ps["decode"] \in Processor
    BY <1>4 DEF ShowInv
  <2>2. EndsTold(r)
    BY <2>1, EmptyingKeepsEnds
  <2> QED  BY <1>8, <1>10, <2>2 DEF EndsTold, IsStreamEnd
<1> HIDE DEF r
<1>12. /\ ps' = [[ps EXCEPT !["decode"] = r] EXCEPT !["encode"] = p]
       /\ CallGo("encode", "headers", b, shown, "localReplyHeaders", <<>>)
  BY <1>4, <1>7 DEF DoHeadersGo
<1> HIDE DEF p, shown, enc
<1>13. ps'["encode"] = p /\ ps'["decode"] = r
  BY <1>4, <1>12
<1> DEFINE d == "encode"
<1>14. /\ d \in Dir /\ Cur' = d /\ seen[d] \in Seq(Item) /\ fed[d] \in Seq(Item)
       /\ "localReplyHeaders" \in GoFrames /\ <<>> \in Seq(Frame)
       /\ shown \in Seq(Item) /\ <<>> \in Seq(Item) /\ ps'[d].state # "WaitingData" /\ ps'[d] = p
       /\ CallGo(d, "headers", b, shown, "localReplyHeaders", <<>>)
       /\ IsPrefix(seen[d], fed[d]) /\ FlowsIn(d) /\ NothingSkipped(d)
  BY <1>3, <1>4, <1>5, <1>9, <1>10, <1>12, <1>13 DEF GoFrames, Moves, ShowInv, FlowsIn
<1>15. enc = ps[d]
  BY DEF enc
<1> HIDE DEF d
<1>16. /\ seen'[d] = seen[d] \o shown
       /\ \A e \in Dir : e # d => seen'[e] = seen[e]
       /\ Drained'
  BY <1>4, <1>14, EnteringShows
<1>17. FlowsIn(d)' /\ ~FlowsIn("decode")'
  BY <1>1, <1>5, <1>14 DEF FlowsIn, d
<1>18. IsPrefix(seen'[d], fed'[d]) /\ NothingSkipped(d)'
  <2>1. fed'[d] = fed[d] \o <<>>
    BY <1>1, <1>14, ConcatEmptySeq
  <2>2. fed[d] = seen[d] \o Unshown(enc)
    BY <1>14, <1>15 DEF NothingSkipped
  <2>3. Unshown(enc) \o <<>> = shown \o Unshown(ps'[d]) /\ Unshown(enc) \in Seq(Item)
    BY <1>5, <1>9, <1>14, UnshownType DEF Moves
  <2> QED  BY <1>10, <1>14, <1>16, <1>17, <2>1, <2>2, <2>3, SeenGrows
<1>19. IsPrefix(seen'["decode"], fed'["decode"]) /\ NothingSkipped("decode")'
  <2>1. seen'["decode"] = seen["decode"]
    BY <1>4, <1>16 DEF d
  <2> QED  BY <1>1, <1>4, <1>17, <2>1 DEF ShowInv, NothingSkipped
<1>20. ResponseUntouched'
  BY <1>1, <1>10, <1>13 DEF ResponseUntouched
<1> QED  BY <1>4, <1>11, <1>13, <1>16, <1>18, <1>19, <1>20 DEF ShowInv, d

\* Somebody else replies, answers or destroys the stream: Go is shown nothing.
LEMMA OthersShown ==
    ASSUME Calm, SerialInv, EndInv, ShowInv, Goroutine \/ DropEvent \/ OtherLocalReply \/ Destroy
    PROVE  ShowInv'
<1>1. /\ UNCHANGED <<ps, fed, seen, enterEncoding, localReplyWaitingGo, closed>>
      /\ stack' = stack \/ OtherLocalReply
  BY DEF Goroutine, Continue, SendLocalReply, GoAnswers, DropEvent, OtherLocalReply, Destroy,
         filterVars, replyVars, goVars, streamVars
<1>2. Cur' = Cur /\ RepliesStay
  BY <1>1 DEF Cur, RepliesStay
<1>3. Drained'
  <2>1. CASE stack' = stack
    BY <1>1, <1>2, <2>1 DEF ShowInv, Drained, LooksAtBuffer
  <2>2. CASE OtherLocalReply
    <3>1. stack = <<>> /\ stack' = <<At("localReply", "decode")>> \o stack
      BY <2>2 DEF OtherLocalReply, Calm
    <3>2. stack' # <<>> /\ Head(stack').at = "localReply"
      BY <3>1 DEF At
    <3> QED  BY <1>1, <1>2, <3>1, <3>2 DEF ShowInv, Drained, LooksAtBuffer, GoFrames
  <2> QED  BY <1>1, <2>1, <2>2
<1> QED  BY <1>1, <1>2, <1>3, NothingShown DEF SerialInv

-----------------------------------------------------------------------------
(* The invariant                                                           *)

LEMMA NextShown ==
    ASSUME Calm, SerialInv, EndInv, ShowInv, dynamicLib, Next
    PROVE  ShowInv'
<1>1. ~BufferFullReturns
  <2>1. SUFFICES ASSUME BufferFullReturns PROVE FALSE
    OBVIOUS
  <2>2. stack # <<>> /\ Head(stack).at = "bufferFull" /\ "bufferFull" \notin GoFrames
    BY <2>1 DEF BufferFullReturns, GoFrames
  <2> QED  BY <2>2, OnlyFrame DEF FrameFits
<1>2. CASE WorkerStep
  BY <1>1, <1>2, TrailerAfterDataShown, TrailersForwardedShown, ResumeDataShown, ResumeTrailerShown,
     LocalReplyShown, LocalReplyBodyShown DEF WorkerStep
<1>3. CASE Dispatch
  BY <1>3, OthersShown, ContinueEncodeLocalReplyShown, ContinueEventShown, LocalReplyEventShown DEF Dispatch
<1>4. CASE Receive \/ GoReturn
  BY <1>4, ReceiveShown, GoReturnShown
<1>5. CASE Goroutine \/ OtherLocalReply \/ Destroy
  BY <1>5, OthersShown
<1> QED  BY <1>2, <1>3, <1>4, <1>5 DEF Next

\* Without the library Go is shown nothing.
LEMMA NothingShownWithoutLibrary ==
    ASSUME SerialInv, EndInv, ~dynamicLib, Next
    PROVE  seen' = seen
<1>1. go = {} /\ posted = <<>>
  BY NoLibrary DEF EndInv
<1>2. CASE Receive
  BY <1>2 DEF Receive, DecodeHeaders, DecodeData, DecodeTrailers, EncodeTrailers, ResponseHeaders,
              ResponseData, EncodeHeaders, EncodeData, Bypass, goVars
<1>3. CASE WorkerStep
  <2>1. stack # <<>> /\ Head(stack).at \notin GoFrames
    BY <1>3 DEF WorkerStep, BufferFullReturns, TrailerAfterData, TrailersForwarded, ResumeData,
                ResumeTrailer, LocalReply, LocalReplyBody, GoFrames
  <2>2. Head(stack).at \in {"localReply", "replyBody"}
    BY <2>1, OnlyFrame DEF FrameFits
  <2>3. LocalReply \/ LocalReplyBody
    BY <1>3, <2>2 DEF WorkerStep, BufferFullReturns, TrailerAfterData, TrailersForwarded, ResumeData,
                      ResumeTrailer
  <2> QED  BY <2>3 DEF LocalReply, LocalReplyBody, EncodeHeaders, EncodeData, Bypass, goVars
<1>4. CASE Dispatch
  BY <1>1, <1>4 DEF Dispatch, DropEvent, ContinueEncodeLocalReply, ContinueEvent, LocalReplyEvent, NextEvent
<1>5. CASE GoReturn \/ Goroutine
  BY <1>1, <1>5 DEF GoReturn, Goroutine
<1>6. CASE OtherLocalReply \/ Destroy
  BY <1>6 DEF OtherLocalReply, Destroy, goVars
<1> QED  BY <1>2, <1>3, <1>4, <1>5, <1>6 DEF Next

LEMMA InInvFromShowInv ==
    ASSUME TypeOK
    PROVE  InInv <=> /\ MessagesFit
                     /\ dynamicLib => ShowInv
                     /\ ~dynamicLib => seen = [d \in Dir |-> <<>>]
<1>1. ASSUME seen = [d \in Dir |-> <<>>], NEW d \in Dir
      PROVE  IsPrefix(seen[d], fed[d])
  <2>1. <<>> \in Seq(Item) /\ fed[d] \in Seq(Item) /\ <<>> \o fed[d] = fed[d] /\ seen[d] = <<>>
    BY <1>1, ConcatEmptySeq DEF TypeOK
  <2> QED  BY <2>1, PrefixOfConcat
<1> QED  BY <1>1 DEF InInv, MessagesFit, ShowInv

LEMMA InitShown == Init => InInv
<1> SUFFICES ASSUME Init PROVE InInv
  OBVIOUS
<1>1. TypeOK /\ seen = [d \in Dir |-> <<>>] /\ ~enterEncoding /\ stack = <<>>
  BY InitType DEF Init
<1>2. \A d \in Dir : ps[d] = NewProcessor /\ fed[d] = <<>> /\ seen[d] = <<>>
  BY DEF Init
<1>3. MessagesFit
  <2>1. NumbersFit(<<>>)
    BY OrderedShort DEF NumbersFit
  <2> QED  BY <1>2, <2>1 DEF MessagesFit
<1>4. ShowInv
  <2>1. IsPrefix(<<>>, <<>>)
    <3>1. <<>> \in Seq(Item) /\ <<>> \o <<>> = <<>>
      BY ConcatEmptySeq
    <3> QED  BY <3>1, PrefixOfConcat
  <2>2. EndsTold(NewProcessor) /\ NewProcessor.dataBuffer = <<>> /\ ~NewProcessor.doEndStream
    BY DEF EndsTold, NewProcessor
  <2>3. \A d \in Dir : ~FlowsIn(d)
    BY <1>2 DEF FlowsIn
  <2>4. Drained /\ ResponseUntouched
    BY <1>1, <1>2, <2>2 DEF Drained, ResponseUntouched, Cur, Dir
  <2> QED  BY <1>2, <2>1, <2>2, <2>3, <2>4 DEF ShowInv, NothingSkipped
<1> QED  BY <1>1, <1>3, <1>4, InInvFromShowInv

LEMMA StutterShown ==
    ASSUME InInv, UNCHANGED vars
    PROVE  InInv'
<1>1. UNCHANGED <<ps, fed, seen, stack, enterEncoding, localReplyWaitingGo, closed, dynamicLib>>
  BY DEF vars, filterVars, lifeVars, replyVars, goVars, streamVars
<1>2. Cur' = Cur /\ (LooksAtBuffer' <=> LooksAtBuffer) /\ \A d \in Dir : FlowsIn(d)' <=> FlowsIn(d)
  BY <1>1 DEF Cur, LooksAtBuffer, FlowsIn
<1> QED  BY <1>1, <1>2 DEF InInv, NothingSkipped, Drained, ResponseUntouched

LEMMA NextIn ==
    ASSUME Calm, StreamInv, InInv, [Next]_vars
    PROVE  InInv'
<1>1. SerialInv /\ EndInv /\ TypeOK
  BY DEF StreamInv, SerialInv
<1>2. CASE UNCHANGED vars
  BY <1>2, StutterShown
<1>3. CASE Next
  <2>1. TypeOK' /\ dynamicLib' = dynamicLib
    BY <1>1, NextType, LibraryStays
  <2>2. MessagesFit /\ MessagesFit'
    BY <1>1, InInvFromShowInv, NextFits
  <2>3. CASE dynamicLib
    <3>1. ShowInv
      BY <1>1, <2>3, InInvFromShowInv
    <3>2. ShowInv'
      BY <1>1, <1>3, <2>3, <3>1, NextShown
    <3>3. InInv' <=> /\ MessagesFit'
                     /\ dynamicLib' => ShowInv'
                     /\ ~dynamicLib' => seen' = [d \in Dir |-> <<>>]
      BY <2>1, <2>2, <3>2 DEF InInv, MessagesFit, ShowInv
    <3> QED  BY <2>1, <2>2, <2>3, <3>2, <3>3
  <2>4. CASE ~dynamicLib
    <3>1. seen' = [d \in Dir |-> <<>>]
      <4>1. seen = [d \in Dir |-> <<>>]
        BY <2>4 DEF InInv
      <4> QED  BY <1>1, <1>3, <2>4, <4>1, NothingShownWithoutLibrary
    <3>2. \A d \in Dir : IsPrefix(seen'[d], fed'[d])
      <4>1. SUFFICES ASSUME NEW d \in Dir PROVE IsPrefix(seen'[d], fed'[d])
        OBVIOUS
      <4>2. <<>> \in Seq(Item) /\ fed'[d] \in Seq(Item) /\ seen'[d] = <<>>
        BY <2>1, <3>1 DEF TypeOK
      <4>3. <<>> \o fed'[d] = fed'[d]
        BY <4>2, ConcatEmptySeq
      <4> QED  BY <4>2, <4>3, PrefixOfConcat
    <3> QED  BY <2>1, <2>2, <2>4, <3>1, <3>2 DEF InInv, MessagesFit
  <2> QED  BY <2>3, <2>4
<1> QED  BY <1>2, <1>3

\* What Go was shown, with what waits in the private buffer and the end it was
\* not told of, is what came in.
THEOREM InInvariant ==
    ASSUME Calm
    PROVE  Spec => []InInv
<1>1. Init => InInv
  BY InitShown
<1>2. StreamInv /\ InInv /\ [Next]_vars => InInv'
  BY NextIn
<1> QED  BY <1>1, <1>2, StreamInvariant, PTL DEF Spec

\* Go is shown all that came in, in order, each piece once: what the handlers
\* answer, and when, loses nothing, repeats nothing and overtakes nothing.
THEOREM GoSeesInOrder ==
    ASSUME Calm
    PROVE  Spec => []ShownInOrder
<1>1. InInv => ShownInOrder
  BY DEF InInv, ShownInOrder
<1> QED  BY <1>1, InInvariant, PTL

-----------------------------------------------------------------------------
(* What is passed on                                                       *)

\* Data that stays in order after what was passed on, as sets of items.
LEMMA InOrderParts ==
    ASSUME NEW shown \in Seq(Item), NEW passed \in Seq(Item), NEW kept \in Seq(Chunks), NEW refused
    PROVE  InOrder(shown, passed, kept, refused) <=>
              /\ ToSet(passed) \cup ToSet(kept) \cup refused \subseteq ToSet(shown)
              /\ ToSet(kept) \cup refused \subseteq Chunks
              /\ refused \cap (ToSet(passed) \cup ToSet(kept)) = {}
              /\ Ordered(passed) /\ Ordered(kept)
              /\ \A x \in ToSet(passed), y \in ToSet(kept) : Before(x, y)
              /\ passed # <<>> => Hdr \in ToSet(passed)
              /\ \A item \in ToSet(shown) \ refused, other \in ToSet(passed) :
                     Before(item, other) => item \in ToSet(passed)
<1>1. kept \in Seq(Item)
  BY SetOfItems
<1>2. Ordered(passed \o kept) <=> /\ Ordered(passed) /\ Ordered(kept)
                                  /\ \A x \in ToSet(passed), y \in ToSet(kept) : Before(x, y)
  BY <1>1, OrderedConcat
<1> QED  BY <1>2, Zenon DEF InOrder

\* Go is shown more, and the data of it may be passed on later.
LEMMA MoreShown ==
    ASSUME NEW shown \in Seq(Item), NEW passed \in Seq(Item), NEW kept \in Seq(Chunks), NEW refused,
           InOrder(shown, passed, kept, refused),
           NEW items \in Seq(Item), Ordered(shown \o items),
           NEW data \in Seq(Chunks), Ordered(data), ToSet(data) = Chunks \cap ToSet(items)
    PROVE  /\ InOrder(shown \o items, passed, kept \o data, refused)
           /\ NothingLost(shown, passed, kept, refused) =>
                 NothingLost(shown \o items, passed, kept \o data, refused)
<1> DEFINE S == ToSet(shown)  P == ToSet(passed)  K == ToSet(kept)  I == ToSet(items)
           D == ToSet(data)   shown2 == shown \o items   kept2 == kept \o data
<1>1. kept \in Seq(Item) /\ data \in Seq(Item) /\ S \subseteq Item /\ I \subseteq Item
  BY SetOfItems
<1>2. shown2 \in Seq(Item) /\ kept2 \in Seq(Chunks)
  BY ConcatProperties
<1>3. ToSet(shown2) = S \cup I /\ ToSet(kept2) = K \cup D
  BY <1>1, SetOfConcat
<1>4. \A x \in S, y \in I : Before(x, y)
  BY OrderedConcat
<1>5. \A x \in S, y \in I : x # y /\ ~Before(y, x)
  BY <1>1, <1>4, BeforeFacts
<1>6. /\ P \cup K \cup refused \subseteq S
      /\ K \cup refused \subseteq Chunks
      /\ refused \cap (P \cup K) = {}
      /\ Ordered(passed) /\ Ordered(kept)
      /\ \A x \in P, y \in K : Before(x, y)
      /\ passed # <<>> => Hdr \in P
      /\ \A item \in S \ refused, other \in P : Before(item, other) => item \in P
  BY InOrderParts
<1>7. D = Chunks \cap I
  OBVIOUS
<1>8. Ordered(kept2)
  <2>1. \A x \in K, y \in D : Before(x, y)
    BY <1>4, <1>6, <1>7
  <2> QED  BY <1>1, <1>6, <2>1, OrderedConcat
<1>9. NothingLost(shown, passed, kept, refused) => Hdr \in S /\ Chunks \cap S \subseteq refused \cup P \cup K
  BY DEF NothingLost
<1>10. NothingLost(shown2, passed, kept2, refused) <=>
          Hdr \in ToSet(shown2) /\ Chunks \cap ToSet(shown2) \subseteq refused \cup P \cup ToSet(kept2)
  BY Zenon DEF NothingLost
<1> HIDE DEF S, P, K, I, D, shown2, kept2
<1>11. InOrder(shown2, passed, kept2, refused)
  <2>1. P \cup ToSet(kept2) \cup refused \subseteq ToSet(shown2)
    BY <1>3, <1>6, <1>7
  <2>2. ToSet(kept2) \cup refused \subseteq Chunks
    BY <1>3, <1>6, <1>7
  <2>3. refused \cap (P \cup ToSet(kept2)) = {}
    BY <1>3, <1>5, <1>6, <1>7
  <2>4. \A x \in P, y \in ToSet(kept2) : Before(x, y)
    BY <1>3, <1>4, <1>6, <1>7
  <2>5. \A item \in ToSet(shown2) \ refused, other \in P : Before(item, other) => item \in P
    BY <1>3, <1>5, <1>6
  <2>6. Ordered(passed) /\ (passed # <<>> => Hdr \in P)
    BY <1>6
  <2> USE DEF P
  <2> QED  BY <1>2, <1>8, <2>1, <2>2, <2>3, <2>4, <2>5, <2>6, InOrderParts, Zenon
<1>12. NothingLost(shown, passed, kept, refused) => NothingLost(shown2, passed, kept2, refused)
  BY <1>3, <1>7, <1>9, <1>10
<1> QED  BY <1>11, <1>12 DEF shown2, kept2

\* What is kept is passed on, behind the headers, and perhaps the end behind it.
LEMMA KeptPassed ==
    ASSUME NEW shown \in Seq(Item), NEW passed \in Seq(Item), NEW kept \in Seq(Chunks), NEW refused,
           InOrder(shown, passed, kept, refused), NothingLost(shown, passed, kept, refused),
           NEW marks \in {<<>>, <<End>>, <<Trl>>},
           marks # <<>> => {End, Trl} \cap ToSet(passed) = {} /\ ToSet(marks) \subseteq ToSet(shown),
           NEW first \in {<<>>, <<Hdr>>}, first = <<>> <=> passed # <<>>
    PROVE  /\ (passed \o first) \o (kept \o marks) \in Seq(Item)
           /\ InOrder(shown, (passed \o first) \o (kept \o marks), <<>>, refused)
           /\ NothingLost(shown, (passed \o first) \o (kept \o marks), <<>>, refused)
<1> DEFINE S == ToSet(shown)  P == ToSet(passed)  K == ToSet(kept)  M == ToSet(marks)
           F == ToSet(first)
           front == passed \o first
           items == kept \o marks
           next == front \o items
<1>1. /\ kept \in Seq(Item) /\ <<>> \in Seq(Chunks) /\ S \subseteq Item /\ P \subseteq Item /\ K \subseteq Chunks
  BY SetOfItems
<1>2. first \in Seq(Item) /\ marks \in Seq(Item)
  <2>1. <<>> \in Seq(Item) /\ <<Hdr>> \in Seq(Item) /\ <<End>> \in Seq(Item) /\ <<Trl>> \in Seq(Item)
    BY ItemTypes
  <2> QED  BY <2>1
<1>3. Ordered(first) /\ Ordered(marks)
  BY OrderedShort
<1>4. /\ passed = <<>> => F = {Hdr} /\ P = {}
      /\ passed # <<>> => F = {}
  BY SmallSets
<1>5. M = {} \/ M = {End} \/ M = {Trl}
  BY SmallSets
<1>6. marks = <<>> => M = {}
  BY SmallSets
<1>7. front \in Seq(Item) /\ items \in Seq(Item)
  BY <1>1, <1>2, ConcatProperties
<1>9. ToSet(front) = P \cup F /\ ToSet(items) = K \cup M
  BY <1>1, <1>2, SetOfConcat
<1> HIDE DEF S, P, K, M, F, front, items
<1>8. next \in Seq(Item)
  BY <1>7, ConcatProperties
<1>10. ToSet(next) = P \cup F \cup K \cup M
  BY <1>7, <1>9, SetOfConcat
<1>11. /\ P \cup K \cup refused \subseteq S
       /\ K \cup refused \subseteq Chunks
       /\ refused \cap (P \cup K) = {}
       /\ Ordered(passed) /\ Ordered(kept)
       /\ \A x \in P, y \in K : Before(x, y)
       /\ passed # <<>> => Hdr \in P
       /\ \A item \in S \ refused, other \in P : Before(item, other) => item \in P
  BY InOrderParts DEF P, S, K
<1>12. Hdr \in S /\ Chunks \cap S \subseteq refused \cup P \cup K
  BY DEF NothingLost, P, S, K
<1>13. M # {} => {End, Trl} \cap P = {} /\ M \subseteq S
  BY <1>6 DEF M, P, S
<1>14. Item = {Hdr, End, Trl} \cup Chunks
  BY DEF Item
<1>15. Hdr \in P \cup F
  BY <1>4, <1>11
<1>16. Ordered(front)
  <2>1. \A x \in P, y \in F : Before(x, y)
    BY <1>4
  <2> QED  BY <1>2, <1>3, <1>11, <2>1, OrderedConcat DEF P, F, front
<1>17. Ordered(items)
  <2>1. \A x \in K, y \in M : Before(x, y)
    BY <1>1, <1>5, BeforeFacts
  <2> QED  BY <1>1, <1>2, <1>3, <1>11, <2>1, OrderedConcat DEF K, M, items
<1>18. \A x \in P \cup F, y \in K \cup M : Before(x, y)
  <2>1. \A x \in F, y \in K \cup M : Before(x, y)
    BY <1>1, <1>4, <1>5, BeforeFacts
  <2>2. ASSUME NEW x \in P, NEW y \in M
        PROVE  Before(x, y)
    <3>1. x \in {Hdr} \cup Chunks
      BY <1>1, <1>13, <1>14, <2>2
    <3> QED  BY <1>5, <2>2, <3>1, BeforeFacts
  <2> QED  BY <1>11, <2>1, <2>2
<1>19. Ordered(next)
  BY <1>7, <1>9, <1>16, <1>17, <1>18, OrderedConcat
<1> HIDE DEF next
<1>20. refused \cap ToSet(next) = {}
  BY <1>4, <1>5, <1>10, <1>11, BeforeFacts
<1>21. ASSUME NEW item \in S \ refused, NEW other \in ToSet(next), Before(item, other)
       PROVE  item \in ToSet(next)
  <2>1. CASE other \in P
    BY <1>10, <1>11, <1>21, <2>1
  <2>2. CASE other \in F
    <3>1. other = Hdr /\ item \in Item
      BY <1>1, <1>4, <1>21, <2>2
    <3> QED  BY <1>21, <3>1, BeforeFacts
  <2>3. CASE other \in K \cup M
    <3>1. item \in Item /\ other \in Item
      BY <1>1, <1>5, <1>14, <1>21, <2>3
    <3>2. item \notin {End, Trl}
      BY <1>21, <3>1, BeforeFacts
    <3>3. item \in {Hdr} \cup Chunks
      BY <1>14, <3>1, <3>2
    <3> QED  BY <1>10, <1>12, <1>15, <1>21, <3>3
  <2> QED  BY <1>10, <1>21, <2>1, <2>2, <2>3
<1>22. InOrder(shown, next, <<>>, refused)
  <2>1. ToSet(next) \subseteq S /\ Hdr \in ToSet(next)
    BY <1>4, <1>10, <1>11, <1>12, <1>13, <1>15
  <2>2. ToSet(<<>>) = {} /\ Ordered(<<>>)
    BY SmallSets, OrderedShort
  <2>3. /\ ToSet(next) \cup ToSet(<<>>) \cup refused \subseteq S
        /\ ToSet(<<>>) \cup refused \subseteq Chunks
        /\ refused \cap (ToSet(next) \cup ToSet(<<>>)) = {}
        /\ \A x \in ToSet(next), y \in ToSet(<<>>) : Before(x, y)
    BY <1>11, <1>20, <2>1, <2>2
  <2>4. \A item \in S \ refused, other \in ToSet(next) : Before(item, other) => item \in ToSet(next)
    BY <1>21
  <2>5. next # <<>> => Hdr \in ToSet(next)
    BY <2>1
  <2>6. <<>> \in Seq(Chunks) /\ Ordered(<<>>)
    BY <1>1, <2>2
  <2> USE DEF S
  <2> QED  BY <1>8, <1>19, <2>3, <2>4, <2>5, <2>6, InOrderParts, Zenon
<1>23. NothingLost(shown, next, <<>>, refused)
  <2>1. Chunks \cap S \subseteq refused \cup ToSet(next) \cup ToSet(<<>>)
    BY <1>10, <1>12
  <2> QED  BY <1>12, <2>1 DEF NothingLost, S
<1> QED  BY <1>8, <1>22, <1>23 DEF next, front, items

\* The newest kept buffer is refused.
LEMMA LatestRefused ==
    ASSUME NEW shown \in Seq(Item), NEW passed \in Seq(Item), NEW held \in Seq(Chunks),
           NEW latest \in Seq(Chunks), NEW refused, InOrder(shown, passed, held \o latest, refused)
    PROVE  /\ InOrder(shown, passed, held, refused \cup ToSet(latest))
           /\ NothingLost(shown, passed, held \o latest, refused) =>
                 NothingLost(shown, passed, held, refused \cup ToSet(latest))
<1> DEFINE S == ToSet(shown)  P == ToSet(passed)  A == ToSet(held)  L == ToSet(latest)
           kept == held \o latest
<1>1. held \in Seq(Item) /\ latest \in Seq(Item) /\ kept \in Seq(Chunks) /\ S \subseteq Item /\ P \subseteq Item
  BY SetOfItems, ConcatProperties
<1>2. ToSet(kept) = A \cup L
  BY <1>1, SetOfConcat
<1>3. Ordered(kept) => Ordered(held) /\ \A x \in A, y \in L : Before(x, y)
  BY <1>1, OrderedConcat
<1>4. InOrder(shown, passed, kept, refused)
  OBVIOUS
<1> HIDE DEF kept
<1>5. /\ P \cup ToSet(kept) \cup refused \subseteq S
      /\ ToSet(kept) \cup refused \subseteq Chunks
      /\ refused \cap (P \cup ToSet(kept)) = {}
      /\ Ordered(passed) /\ Ordered(kept)
      /\ \A x \in P, y \in ToSet(kept) : Before(x, y)
      /\ passed # <<>> => Hdr \in P
      /\ \A item \in S \ refused, other \in P : Before(item, other) => item \in P
  BY <1>1, <1>4, InOrderParts
<1>6. \A x \in P \cup A, y \in L : Before(x, y)
  BY <1>2, <1>3, <1>5
<1> HIDE DEF S, P, A, L
<1>7. \A x \in P \cup A, y \in L : x # y
  <2>1. P \cup A \subseteq Item /\ L \subseteq Item
    BY <1>1, <1>2, <1>5
  <2> QED  BY <1>6, <2>1, BeforeFacts
<1>8. InOrder(shown, passed, held, refused \cup L)
  <2>1. /\ P \cup A \cup (refused \cup L) \subseteq S
        /\ A \cup (refused \cup L) \subseteq Chunks
        /\ (refused \cup L) \cap (P \cup A) = {}
        /\ \A x \in P, y \in A : Before(x, y)
        /\ \A item \in S \ (refused \cup L), other \in P : Before(item, other) => item \in P
    BY <1>2, <1>5, <1>7
  <2> QED  BY <1>3, <1>5, <2>1, InOrderParts DEF S, P, A
<1>9. NothingLost(shown, passed, kept, refused) => NothingLost(shown, passed, held, refused \cup L)
  <2>1. NothingLost(shown, passed, kept, refused) => Hdr \in S /\ Chunks \cap S \subseteq refused \cup P \cup ToSet(kept)
    BY Zenon DEF NothingLost, S, P
  <2>2. NothingLost(shown, passed, held, refused \cup L) <=>
           Hdr \in S /\ Chunks \cap S \subseteq (refused \cup L) \cup P \cup A
    BY Zenon DEF NothingLost, S, P, A
  <2> QED  BY <1>2, <2>1, <2>2
<1> QED  BY <1>8, <1>9 DEF kept, L

\* What was kept is thrown away.
LEMMA KeptGivenUp ==
    ASSUME NEW shown \in Seq(Item), NEW passed \in Seq(Item), NEW kept \in Seq(Chunks), NEW refused,
           InOrder(shown, passed, kept, refused)
    PROVE  InOrder(shown, passed, <<>>, refused)
<1>1. <<>> \in Seq(Chunks) /\ ToSet(<<>>) = {} /\ Ordered(<<>>)
  BY SmallSets, OrderedShort
<1>2. /\ ToSet(passed) \cup ToSet(kept) \cup refused \subseteq ToSet(shown)
      /\ ToSet(kept) \cup refused \subseteq Chunks
      /\ refused \cap (ToSet(passed) \cup ToSet(kept)) = {}
      /\ Ordered(passed)
      /\ passed # <<>> => Hdr \in ToSet(passed)
      /\ \A item \in ToSet(shown) \ refused, other \in ToSet(passed) :
             Before(item, other) => item \in ToSet(passed)
  BY InOrderParts
<1>3. /\ ToSet(passed) \cup ToSet(<<>>) \cup refused \subseteq ToSet(shown)
      /\ ToSet(<<>>) \cup refused \subseteq Chunks
      /\ refused \cap (ToSet(passed) \cup ToSet(<<>>)) = {}
      /\ \A x \in ToSet(passed), y \in ToSet(<<>>) : Before(x, y)
  BY <1>1, <1>2
<1> QED  BY <1>1, <1>2, <1>3, InOrderParts

-----------------------------------------------------------------------------
(* What one step passes on                                                 *)

\* OutInv with the library.
Leaving ==
    /\ \A d \in Dir : LeavesInOrder(d)
    /\ TrailersFollow
    /\ NoTrailerData

\* The worker is neither about to pass on trailers nor shows data because of them.
LEMMA OtherPlaces ==
    ASSUME stack' = <<>> \/ Head(stack').at \notin {"forwardedTrailerData", "doTrailerData"}
    PROVE  TrailersFollow' /\ NoTrailerData'
BY DEF TrailersFollow, NoTrailerData, KeepsNothing

\* Nothing moves in one direction.
LEMMA LeavesAlike ==
    ASSUME NEW d \in Dir, LeavesInOrder(d),
           seen'[d] = seen[d], out'[d] = out[d], dropped'[d] = dropped[d],
           DataList(ps'[d]) = DataList(ps[d]),
           ps'[d].state = "ProcessingHeader" => ps[d].state = "ProcessingHeader",
           KeepsNothing => HoldsNothing(ps'[d]),
           FlowsOut(d)' => FlowsOut(d)
    PROVE  LeavesInOrder(d)'
<1> DEFINE kept == DataList(ps[d])  kept2 == DataList(ps'[d])
           InP == InOrder(seen[d], out[d], kept, dropped[d])
           InN == InOrder(seen'[d], out'[d], kept2, dropped'[d])
           NoP == NothingLost(seen[d], out[d], kept, dropped[d])
           NoN == NothingLost(seen'[d], out'[d], kept2, dropped'[d])
<1>1. (InP <=> InN) /\ (NoP <=> NoN)
  BY Zenon
<1>2. InP /\ (FlowsOut(d) => NoP)
      /\ (ps[d].state = "ProcessingHeader" => Chunks \cap ToSet(seen[d]) = {})
  BY Zenon DEF LeavesInOrder
<1>3. LeavesInOrder(d)' <=>
         /\ InN /\ (FlowsOut(d)' => NoN)
         /\ ps'[d].state = "ProcessingHeader" => Chunks \cap ToSet(seen'[d]) = {}
         /\ KeepsNothing => HoldsNothing(ps'[d])
  BY Zenon DEF LeavesInOrder, KeepsNothing, HoldsNothing
<1> HIDE DEF InP, InN, NoP, NoN
<1>4. ps'[d].state = "ProcessingHeader" => Chunks \cap ToSet(seen'[d]) = {}
  BY <1>2, Zenon
<1>5. FlowsOut(d)' => NoN
  BY <1>1, <1>2
<1>6. InN
  BY <1>1, <1>2
<1> QED  BY <1>3, <1>4, <1>5, <1>6

\* ... and nothing happens to what is kept.
LEMMA KeepsLeaving ==
    ASSUME NEW d \in Dir, LeavesInOrder(d),
           seen'[d] = seen[d], out'[d] = out[d], dropped'[d] = dropped[d],
           ps'[d].held = ps[d].held, ps'[d].latest = ps[d].latest, ps'[d].state = ps[d].state,
           FlowsOut(d)' => FlowsOut(d)
    PROVE  LeavesInOrder(d)'
<1>1. DataList(ps'[d]) = DataList(ps[d])
  BY DEF DataList
<1>2. KeepsNothing => HoldsNothing(ps[d])
  BY DEF LeavesInOrder
<1>3. HoldsNothing(ps[d]) => HoldsNothing(ps'[d])
  BY <1>1 DEF HoldsNothing
<1> QED  BY <1>1, <1>2, <1>3, LeavesAlike

\* Go is shown data, the end, or trailers.
LEMMA ShownLeaves ==
    ASSUME TypeOK, NEW d \in Dir, LeavesInOrder(d), out'[d] = out[d], dropped'[d] = dropped[d],
           NEW items \in Seq(Item), seen'[d] = seen[d] \o items, Ordered(seen'[d]),
           NEW data \in Seq(Chunks), ToSet(data) = Chunks \cap ToSet(items), Ordered(data),
           ps'[d] \in Processor, DataList(ps'[d]) = DataList(ps[d]) \o data,
           ps[d].state # "ProcessingData",
           \/ ps'[d].state = "ProcessingData" /\ ps'[d].held = DataList(ps[d])
           \/ ps'[d].state = "ProcessingTrailer" /\ data = <<>>,
           FlowsOut(d)' => FlowsOut(d)
    PROVE  LeavesInOrder(d)'
<1> DEFINE S == seen[d]  O == out[d]  K == DataList(ps[d])  R == dropped[d]
           S2 == seen'[d]  O2 == out'[d]  K2 == DataList(ps'[d])  R2 == dropped'[d]
<1>1. S \in Seq(Item) /\ O \in Seq(Item) /\ K \in Seq(Chunks)
  BY DataListType DEF TypeOK
<1>2. InOrder(S, O, K, R) /\ (FlowsOut(d) => NothingLost(S, O, K, R)) /\ (KeepsNothing => HoldsNothing(ps[d]))
  BY Zenon DEF LeavesInOrder
<1>3. LeavesInOrder(d)' <=>
         /\ InOrder(S2, O2, K2, R2) /\ (FlowsOut(d)' => NothingLost(S2, O2, K2, R2))
         /\ ps'[d].state = "ProcessingHeader" => Chunks \cap ToSet(S2) = {}
         /\ KeepsNothing => HoldsNothing(ps'[d])
  BY Zenon DEF LeavesInOrder, KeepsNothing, HoldsNothing
<1>4. S2 = S \o items /\ O2 = O /\ K2 = K \o data /\ R2 = R
  OBVIOUS
<1>5. KeepsNothing => HoldsNothing(ps'[d])
  <2>1. KeepsNothing => K = <<>>
    BY <1>2 DEF HoldsNothing
  <2>2. KeepsNothing /\ data = <<>> => K \o data = <<>>
    BY <2>1, ConcatEmptySeq
  <2> QED  BY <2>1, <2>2 DEF HoldsNothing
<1>6. ps'[d].state # "ProcessingHeader"
  OBVIOUS
<1>7. Ordered(S \o items)
  BY <1>4
<1> HIDE DEF S, O, K, R, S2, O2, K2, R2
<1>8. /\ InOrder(S \o items, O, K \o data, R)
      /\ NothingLost(S, O, K, R) => NothingLost(S \o items, O, K \o data, R)
  BY <1>1, <1>2, <1>7, MoreShown, Zenon
<1>9. InOrder(S2, O2, K2, R2) /\ (NothingLost(S, O, K, R) => NothingLost(S2, O2, K2, R2))
  BY <1>4, <1>8, Zenon
<1> QED  BY <1>2, <1>3, <1>5, <1>6, <1>9

\* Go is shown the headers.
LEMMA FirstLeaves ==
    ASSUME TypeOK, NEW d \in Dir, LeavesInOrder(d), out'[d] = out[d], dropped'[d] = dropped[d],
           seen[d] = <<>>, NEW b \in BOOLEAN, seen'[d] = <<Hdr>> \o EndIf(b),
           DataList(ps'[d]) \in {<<>>, DataList(ps[d])}, ps'[d].state = "ProcessingHeader"
    PROVE  LeavesInOrder(d)'
<1> DEFINE S == seen[d]  O == out[d]  K == DataList(ps[d])  R == dropped[d]
           S2 == seen'[d]  O2 == out'[d]  K2 == DataList(ps'[d])  R2 == dropped'[d]
<1>1. S \in Seq(Item) /\ O \in Seq(Item) /\ K \in Seq(Chunks) /\ S2 \in Seq(Item)
  BY DataListType, HeaderItems DEF TypeOK
<1>2. InOrder(S, O, K, R)
  BY Zenon DEF LeavesInOrder
<1>3. LeavesInOrder(d)' <=>
         /\ InOrder(S2, O2, K2, R2) /\ (FlowsOut(d)' => NothingLost(S2, O2, K2, R2))
         /\ ps'[d].state = "ProcessingHeader" => Chunks \cap ToSet(S2) = {}
         /\ KeepsNothing => HoldsNothing(ps'[d])
  BY Zenon DEF LeavesInOrder, KeepsNothing, HoldsNothing
<1>4. O2 = O /\ K2 \in {<<>>, K} /\ R2 = R /\ ToSet(S) = {}
  BY SmallSets
<1>5. ToSet(S2) \subseteq {Hdr, End} /\ Hdr \in ToSet(S2)
  <2>1. <<Hdr>> \in Seq(Item) /\ EndIf(b) \in Seq(Item)
    BY ItemTypes
  <2>2. ToSet(S2) = ToSet(<<Hdr>>) \cup ToSet(EndIf(b))
    BY <2>1, SetOfConcat
  <2>3. ToSet(EndIf(b)) \subseteq {End}
    <3>1. CASE b
      BY <3>1, SmallSets
    <3>2. CASE ~b
      BY <3>2, SmallSets
    <3> QED  BY <3>1, <3>2
  <2>4. ToSet(<<Hdr>>) = {Hdr}
    BY SmallSets
  <2> QED  BY <2>2, <2>3, <2>4
<1>6. HoldsNothing(ps'[d]) <=> K2 = <<>>
  BY DEF HoldsNothing
<1> HIDE DEF S, O, K, R, S2, O2, K2, R2
<1>7. ToSet(O) \cup ToSet(K) \cup R \subseteq ToSet(S)
  BY <1>1, <1>2, InOrderParts
<1>8. O = <<>> /\ K = <<>> /\ R = {}
  BY <1>1, <1>4, <1>7, SetOfItems
<1>9. O2 = <<>> /\ K2 = <<>> /\ R2 = {}
  BY <1>4, <1>8
<1>10. ToSet(<<>>) = {} /\ Ordered(<<>>) /\ <<>> \in Seq(Chunks) /\ <<>> \in Seq(Item)
  BY SmallSets, OrderedShort
<1>11. /\ ToSet(<<>>) \cup ToSet(<<>>) \cup {} \subseteq ToSet(S2)
       /\ ToSet(<<>>) \cup {} \subseteq Chunks
       /\ {} \cap (ToSet(<<>>) \cup ToSet(<<>>)) = {}
       /\ \A x \in ToSet(<<>>), y \in ToSet(<<>>) : Before(x, y)
       /\ <<>> # <<>> => Hdr \in ToSet(<<>>)
       /\ \A item \in ToSet(S2) \ {}, other \in ToSet(<<>>) : Before(item, other) => item \in ToSet(<<>>)
  BY <1>10
<1>12. InOrder(S2, <<>>, <<>>, {})
  BY <1>1, <1>10, <1>11, InOrderParts, Zenon
<1>13. Chunks \cap ToSet(S2) = {}
  BY <1>5, BeforeFacts
<1>14. NothingLost(S2, <<>>, <<>>, {})
  BY <1>5, <1>13 DEF NothingLost
<1> QED  BY <1>3, <1>6, <1>9, <1>12, <1>13, <1>14

\* What is kept is passed on, and perhaps the end behind it.
LEMMA PassedLeaves ==
    ASSUME TypeOK, NEW d \in Dir, LeavesInOrder(d), FlowsOut(d), Open(d),
           NEW marks \in {<<>>, <<End>>, <<Trl>>},
           marks # <<>> => {End, Trl} \cap ToSet(out[d]) = {} /\ ToSet(marks) \subseteq ToSet(seen[d]),
           NEW items, items = DataList(ps[d]) \o marks, out' = Passed(d, items),
           seen'[d] = seen[d], dropped'[d] = dropped[d],
           DataList(ps'[d]) = <<>>, ps'[d].state # "ProcessingHeader"
    PROVE  LeavesInOrder(d)'
<1> DEFINE S == seen[d]  O == out[d]  K == DataList(ps[d])  R == dropped[d]
           S2 == seen'[d]  O2 == out'[d]  K2 == DataList(ps'[d])  R2 == dropped'[d]
           first == IF O = <<>> THEN <<Hdr>> ELSE <<>>
           next == (O \o first) \o (K \o marks)
<1>1. S \in Seq(Item) /\ O \in Seq(Item) /\ K \in Seq(Chunks)
  BY DataListType DEF TypeOK
<1>2. InOrder(S, O, K, R) /\ NothingLost(S, O, K, R)
  BY Zenon DEF LeavesInOrder
<1>3. LeavesInOrder(d)' <=>
         /\ InOrder(S2, O2, K2, R2) /\ (FlowsOut(d)' => NothingLost(S2, O2, K2, R2))
         /\ ps'[d].state = "ProcessingHeader" => Chunks \cap ToSet(S2) = {}
         /\ KeepsNothing => HoldsNothing(ps'[d])
  BY Zenon DEF LeavesInOrder, KeepsNothing, HoldsNothing
<1>4. HoldsNothing(ps'[d])
  BY DEF HoldsNothing
<1>5. O2 = next
  <2>1. out \in [Dir -> Seq(Item)]
    BY DEF TypeOK
  <2>2. out' = [out EXCEPT ![d] = @ \o (IF @ = <<>> THEN <<Hdr>> ELSE <<>>) \o items]
    BY DEF Passed
  <2>3. out'[d] = (out[d] \o (IF out[d] = <<>> THEN <<Hdr>> ELSE <<>>)) \o items
    BY <2>1, <2>2
  <2> QED  BY <2>3
<1>6. first \in {<<>>, <<Hdr>>} /\ (first = <<>> <=> O # <<>>)
  BY SmallSets
<1>7. S2 = S /\ K2 = <<>> /\ R2 = R
  OBVIOUS
<1>8. marks # <<>> => {End, Trl} \cap ToSet(O) = {} /\ ToSet(marks) \subseteq ToSet(S)
  OBVIOUS
<1> HIDE DEF S, O, K, R, S2, O2, K2, R2, first
<1>9. InOrder(S, next, <<>>, R) /\ NothingLost(S, next, <<>>, R)
  BY <1>1, <1>2, <1>6, <1>8, KeptPassed, Zenon
<1> HIDE DEF next
<1>10. InOrder(S2, O2, K2, R2) /\ NothingLost(S2, O2, K2, R2)
  BY <1>5, <1>7, <1>9, Zenon
<1> QED  BY <1>3, <1>4, <1>10

\* Go refuses the data it was shown last.
LEMMA RefusedLeaves ==
    ASSUME TypeOK, NEW d \in Dir, LeavesInOrder(d), seen'[d] = seen[d], out'[d] = out[d],
           dropped'[d] = dropped[d] \cup ToSet(ps[d].latest),
           ps'[d] \in Processor, ps'[d].held = ps[d].held, ps'[d].latest = <<>>,
           ps'[d].state # "ProcessingHeader", FlowsOut(d)' => FlowsOut(d)
    PROVE  LeavesInOrder(d)'
<1> DEFINE S == seen[d]  O == out[d]  H == ps[d].held  L == ps[d].latest  R == dropped[d]
           K == DataList(ps[d])
           S2 == seen'[d]  O2 == out'[d]  K2 == DataList(ps'[d])  R2 == dropped'[d]
<1>1. S \in Seq(Item) /\ O \in Seq(Item) /\ H \in Seq(Chunks) /\ L \in Seq(Chunks) /\ K = H \o L
  BY DEF TypeOK, DataList, Processor
<1>2. InOrder(S, O, K, R) /\ (FlowsOut(d) => NothingLost(S, O, K, R)) /\ (KeepsNothing => HoldsNothing(ps[d]))
  BY Zenon DEF LeavesInOrder
<1>3. LeavesInOrder(d)' <=>
         /\ InOrder(S2, O2, K2, R2) /\ (FlowsOut(d)' => NothingLost(S2, O2, K2, R2))
         /\ ps'[d].state = "ProcessingHeader" => Chunks \cap ToSet(S2) = {}
         /\ KeepsNothing => HoldsNothing(ps'[d])
  BY Zenon DEF LeavesInOrder, KeepsNothing, HoldsNothing
<1>4. K2 = H
  BY <1>1, ConcatEmptySeq DEF DataList
<1>5. K = <<>> => H = <<>>
  <2>1. Len(H \o L) = Len(H) + Len(L) /\ Len(H) \in Nat /\ Len(L) \in Nat
    BY <1>1, ConcatProperties
  <2>2. Len(H) = 0 => H = <<>>
    BY <1>1, EmptySeq
  <2>3. K = H \o L /\ Len(<<>>) = 0
    BY <1>1
  <2> HIDE DEF K, H, L
  <2>4. K = <<>> => Len(H) + Len(L) = 0
    BY <2>1, <2>3
  <2> QED  BY <2>1, <2>2, <2>4
<1>6. KeepsNothing => HoldsNothing(ps'[d])
  BY <1>2, <1>4, <1>5 DEF HoldsNothing
<1>7. S2 = S /\ O2 = O /\ R2 = R \cup ToSet(L)
  OBVIOUS
<1> HIDE DEF S, O, H, L, R, K, S2, O2, K2, R2
<1>8. InOrder(S, O, H \o L, R) /\ (NothingLost(S, O, K, R) <=> NothingLost(S, O, H \o L, R))
  BY <1>1, <1>2, Zenon
<1>9. /\ InOrder(S, O, H, R \cup ToSet(L))
      /\ NothingLost(S, O, H \o L, R) => NothingLost(S, O, H, R \cup ToSet(L))
  BY <1>1, <1>8, LatestRefused, Zenon
<1>10. InOrder(S2, O2, K2, R2) /\ (NothingLost(S, O, K, R) => NothingLost(S2, O2, K2, R2))
  BY <1>4, <1>7, <1>8, <1>9, Zenon
<1> QED  BY <1>2, <1>3, <1>6, <1>10

\* What was kept is thrown away, and nothing more leaves in this direction.
LEMMA GivenUpLeaves ==
    ASSUME TypeOK, NEW d \in Dir, LeavesInOrder(d), seen'[d] = seen[d], out'[d] = out[d],
           dropped'[d] = dropped[d], DataList(ps'[d]) = <<>>,
           ps'[d].state = "ProcessingHeader" => ps[d].state = "ProcessingHeader",
           ~FlowsOut(d)'
    PROVE  LeavesInOrder(d)'
<1> DEFINE S == seen[d]  O == out[d]  K == DataList(ps[d])  R == dropped[d]
           S2 == seen'[d]  O2 == out'[d]  K2 == DataList(ps'[d])  R2 == dropped'[d]
<1>1. S \in Seq(Item) /\ O \in Seq(Item) /\ K \in Seq(Chunks)
  BY DataListType DEF TypeOK
<1>2. InOrder(S, O, K, R) /\ (ps[d].state = "ProcessingHeader" => Chunks \cap ToSet(S) = {})
  BY Zenon DEF LeavesInOrder
<1>3. LeavesInOrder(d)' <=>
         /\ InOrder(S2, O2, K2, R2) /\ (FlowsOut(d)' => NothingLost(S2, O2, K2, R2))
         /\ ps'[d].state = "ProcessingHeader" => Chunks \cap ToSet(S2) = {}
         /\ KeepsNothing => HoldsNothing(ps'[d])
  BY Zenon DEF LeavesInOrder, KeepsNothing, HoldsNothing
<1>4. HoldsNothing(ps'[d])
  BY DEF HoldsNothing
<1>5. S2 = S /\ O2 = O /\ K2 = <<>> /\ R2 = R
  OBVIOUS
<1> HIDE DEF S, O, K, R, S2, O2, K2, R2
<1>6. InOrder(S, O, <<>>, R)
  BY <1>1, <1>2, KeptGivenUp, Zenon
<1>7. InOrder(S2, O2, K2, R2)
  BY <1>5, <1>6, Zenon
<1>8. ps'[d].state = "ProcessingHeader" => Chunks \cap ToSet(S2) = {}
  BY <1>2, <1>5
<1> QED  BY <1>3, <1>4, <1>7, <1>8

-----------------------------------------------------------------------------
(* Answers                                                                 *)

\* What an answer does to the data that is kept.
LEMMA AnswerLists ==
    ASSUME NEW p \in Processor, NEW call \in Call, p.state = Processing(call.kind),
           ~call.refused, call.kind = "trailers" => call.end,
           NEW status \in GolangStatus, status \in Allowed(call),
           NEW q, q = HandleGolangStatus(p, status)
    PROVE  /\ q.held = p.held
           /\ status # "StopNoBuffer" => q.latest = p.latest
           /\ status = "StopNoBuffer" => p.state = "ProcessingData" /\ q.latest = <<>>
           /\ KeepsNothing => status \in Later \cup {"StopNoBuffer", "Continue"}
           /\ status \in Later => q.state = p.state
           /\ status \notin Later => ~InGo(q)
<1>1. /\ q \in Processor
      /\ status \in Later => q.state = p.state
      /\ status \notin Later => ~InGo(q)
      /\ call.kind = "headers"  => q = HandleHeaderGolangStatus(p, status)
      /\ call.kind = "data"     => q = HandleDataGolangStatus(p, status)
      /\ call.kind = "trailers" => q = HandleTrailerGolangStatus(p, status)
  BY AnswerEffects
<1>2. call.kind \in Kind
  BY DEF Call
<1>3. /\ status \in Answers
      /\ status = "StopNoBuffer" => call.kind # "headers" /\ ~call.end
  BY DEF Allowed
<1>4. status = "StopNoBuffer" => call.kind = "data"
  BY <1>2, <1>3 DEF Kind
<1>5. call.kind = "data" => p.state = "ProcessingData"
  BY DEF Processing
<1>6. KeepsNothing => status \in Later \cup {"StopNoBuffer", "Continue"}
  BY <1>3 DEF KeepsNothing, Later, GolangStatus
<1>7. CASE call.kind = "headers"
  <2>1. q.held = p.held /\ q.latest = p.latest
    BY <1>1, <1>7 DEF HandleHeaderGolangStatus, Processor
  <2> QED  BY <1>1, <1>3, <1>6, <1>7, <2>1
<1>8. CASE call.kind = "trailers"
  <2>1. q.held = p.held /\ q.latest = p.latest
    BY <1>1, <1>8 DEF HandleTrailerGolangStatus, Processor
  <2> QED  BY <1>1, <1>4, <1>6, <1>8, <2>1
<1>9. CASE call.kind = "data"
  <2>1. q = HandleDataGolangStatus(p, status)
    BY <1>1, <1>9
  <2>2. q.held = p.held
    BY <2>1 DEF HandleDataGolangStatus, ClearLatest, Processor
  <2>3. status # "StopNoBuffer" => q.latest = p.latest
    BY <2>1 DEF HandleDataGolangStatus, ClearLatest, Processor
  <2>4. status = "StopNoBuffer" => q.latest = <<>>
    BY <2>1 DEF HandleDataGolangStatus, ClearLatest, Processor
  <2> QED  BY <1>1, <1>5, <1>6, <1>9, <2>2, <2>3, <2>4
<1> QED  BY <1>2, <1>7, <1>8, <1>9 DEF Kind

\* Only the current direction of the messages changes.
LEMMA OtherStays ==
    ASSUME TypeOK, Leaving, Cur \in Dir, Cur' = Cur, NEW n, ps' = [ps EXCEPT ![Cur] = n],
           NEW e \in Dir, e # Cur, seen'[e] = seen[e], out'[e] = out[e], dropped'[e] = dropped[e]
    PROVE  LeavesInOrder(e)'
<1>1. ps'[e] = ps[e] /\ ~FlowsOut(e)' /\ LeavesInOrder(e)
  BY DEF TypeOK, FlowsOut, Leaving
<1> QED  BY <1>1, KeepsLeaving

\* The current processor state takes an answer, and keeps or drops what it has.
LEMMA AnswerKeeps ==
    ASSUME SerialInv, Leaving, Cur \in Dir, ps[Cur] \in Processor, Cur' = Cur,
           NEW call \in Call, ps[Cur].state = Processing(call.kind),
           ~call.refused, call.kind = "trailers" => call.end,
           NEW status \in GolangStatus, status \in Allowed(call),
           NEW q, q = HandleGolangStatus(ps[Cur], status), ps' = [ps EXCEPT ![Cur] = q],
           KeepsNothing /\ status = "Continue" => DataList(q) = <<>>,
           UNCHANGED <<seen, out>>, Drop(Cur, status), FlowsOut(Cur)
    PROVE  \A d \in Dir : LeavesInOrder(d)'
<1>1. /\ q.held = ps[Cur].held
      /\ status # "StopNoBuffer" => q.latest = ps[Cur].latest
      /\ status = "StopNoBuffer" => ps[Cur].state = "ProcessingData" /\ q.latest = <<>>
      /\ KeepsNothing => status \in Later \cup {"StopNoBuffer", "Continue"}
      /\ status \in Later => q.state = ps[Cur].state
      /\ status \notin Later => ~InGo(q)
  BY AnswerLists
<1>2. TypeOK /\ ps'[Cur] = q /\ q \in Processor /\ LeavesInOrder(Cur)
  BY HandleTypes DEF SerialInv, TypeOK, Leaving
<1>3. /\ seen' = seen /\ out' = out
      /\ \A e \in Dir : e # Cur => dropped'[e] = dropped[e]
      /\ dropped'[Cur] = IF status = "StopNoBuffer" THEN dropped[Cur] \cup ToSet(ps[Cur].latest)
                         ELSE dropped[Cur]
  BY <1>1, <1>2 DEF Drop, TypeOK
<1>4. LeavesInOrder(Cur)'
  <2>1. CASE status = "StopNoBuffer"
    <3>1. q.state # "ProcessingHeader" /\ q.latest = <<>>
      BY <1>1, <2>1 DEF InGo, Later
    <3>2. dropped'[Cur] = dropped[Cur] \cup ToSet(ps[Cur].latest)
      BY <1>3, <2>1
    <3>3. FlowsOut(Cur)' => FlowsOut(Cur)
      OBVIOUS
    <3> HIDE DEF Cur
    <3> DEFINE d == Cur
    <3>4. /\ d \in Dir /\ LeavesInOrder(d) /\ seen'[d] = seen[d] /\ out'[d] = out[d]
          /\ ps'[d] = q
      BY <1>2, <1>3
    <3> QED  BY <1>1, <1>2, <3>1, <3>2, <3>3, <3>4, RefusedLeaves
  <2>2. CASE status # "StopNoBuffer"
    <3>1. DataList(q) = DataList(ps[Cur]) /\ q.held = ps[Cur].held
      BY <1>1, <2>2 DEF DataList
    <3>2. q.state = "ProcessingHeader" => ps[Cur].state = "ProcessingHeader"
      BY <1>1 DEF InGo
    <3>3. KeepsNothing => HoldsNothing(q)
      <4>1. KeepsNothing => HoldsNothing(ps[Cur])
        BY <1>2 DEF LeavesInOrder
      <4>2. KeepsNothing /\ status \in Later => HoldsNothing(q)
        BY <1>1, <3>1, <4>1 DEF HoldsNothing
      <4>3. KeepsNothing /\ status = "Continue" => HoldsNothing(q)
        BY DEF HoldsNothing
      <4> QED  BY <1>1, <2>2, <4>2, <4>3
    <3>4. dropped'[Cur] = dropped[Cur]
      BY <1>3, <2>2
    <3> QED  BY <1>2, <1>3, <3>1, <3>2, <3>3, <3>4, LeavesAlike
  <2> QED  BY <2>1, <2>2
<1>5. \A e \in Dir : e # Cur => LeavesInOrder(e)'
  BY <1>2, <1>3, OtherStays
<1> QED  BY <1>4, <1>5

\* The current processor state takes an answer, and passes on all that it kept.
LEMMA AnswerPasses ==
    ASSUME SerialInv, Leaving, Cur \in Dir, ps[Cur] \in Processor, Cur' = Cur,
           NEW call \in Call, ps[Cur].state = Processing(call.kind),
           ~call.refused, call.kind = "trailers" => call.end, "Continue" \in Allowed(call),
           NEW q, q = HandleGolangStatus(ps[Cur], "Continue"),
           NEW n \in {q, ClearAll(q)}, ps' = [ps EXCEPT ![Cur] = n], DataList(n) = <<>>,
           NEW marks \in {<<>>, <<End>>, <<Trl>>}, ToSet(marks) \subseteq ToSet(seen[Cur]),
           {End, Trl} \cap ToSet(out[Cur]) = {}, out' = Passed(Cur, DataList(q) \o marks),
           UNCHANGED seen, Drop(Cur, "Continue"), FlowsOut(Cur), Open(Cur)
    PROVE  \A d \in Dir : LeavesInOrder(d)'
<1> DEFINE items == DataList(q) \o marks
<1>0. "Continue" \in GolangStatus /\ "Continue" \notin Later /\ "Continue" # "StopNoBuffer"
  BY DEF GolangStatus, Later
<1>1. q.held = ps[Cur].held /\ q.latest = ps[Cur].latest /\ ~InGo(q)
  BY <1>0, AnswerLists
<1>2. TypeOK /\ q \in Processor /\ n \in Processor /\ LeavesInOrder(Cur)
  BY HandleTypes, ListTypes DEF SerialInv, TypeOK, Leaving
<1>3. n.state # "ProcessingHeader" /\ ps'[Cur] = n
  BY <1>1, <1>2, ListEffects DEF InGo, TypeOK
<1>4. seen' = seen /\ dropped' = dropped
  BY <1>0 DEF Drop
<1>5. items = DataList(ps[Cur]) \o marks
  BY <1>1 DEF DataList
<1>6. items \in Seq(Item)
  <2>1. DataList(q) \in Seq(Item)
    BY <1>2, DataListType, SetOfItems
  <2>2. <<>> \in Seq(Item) /\ <<End>> \in Seq(Item) /\ <<Trl>> \in Seq(Item)
    BY ItemTypes
  <2>3. marks \in Seq(Item)
    BY <2>2
  <2> QED  BY <2>1, <2>3, ConcatProperties
<1>7. out' = Passed(Cur, items)
  OBVIOUS
<1> HIDE DEF items
<1>8. LeavesInOrder(Cur)'
  <2>1. PICK d \in Dir : d = Cur
    OBVIOUS
  <2>2. /\ LeavesInOrder(d) /\ FlowsOut(d) /\ Open(d)
        /\ {End, Trl} \cap ToSet(out[d]) = {} /\ ToSet(marks) \subseteq ToSet(seen[d])
        /\ items = DataList(ps[d]) \o marks /\ out' = Passed(d, items)
        /\ seen'[d] = seen[d] /\ dropped'[d] = dropped[d]
        /\ DataList(ps'[d]) = <<>> /\ ps'[d].state # "ProcessingHeader"
    BY <1>2, <1>3, <1>4, <1>5, <1>7, <2>1
  <2>3. LeavesInOrder(d)'
    BY <1>2, <2>2, PassedLeaves
  <2> QED  BY <2>1, <2>3
<1>9. ASSUME NEW e \in Dir, e # Cur
      PROVE  LeavesInOrder(e)'
  <2>1. out'[e] = out[e]
    BY <1>2, <1>6, <1>7, <1>9, PassedItems
  <2> QED  BY <1>2, <1>4, <1>9, <2>1, OtherStays
<1> QED  BY <1>8, <1>9

\* What leaves the filter, leaves it.
LEMMA FlowsOpen ==
    ASSUME SerialInv, dynamicLib, NEW d \in Dir, FlowsOut(d)
    PROVE  Open(d)
<1>1. ~closed /\ ~hasDestroyed /\ Cur = d /\ ~localReplyWaitingGo
  BY DEF FlowsOut
<1>2. d = "decode" => fed["encode"] = <<>>
  BY <1>1 DEF SerialInv, FlowInv, StreamOrder, Cur
<1> QED  BY <1>1, <1>2 DEF Open, Ended

\* Go was shown the end it was told of.
LEMMA EndShown ==
    ASSUME SerialInv, EndInv, ShowInv, dynamicLib, NEW d \in Dir, FlowsOut(d), fed[d] # <<>>,
           ps[d].doEndStream
    PROVE  /\ ps[d].endStream => End \in ToSet(seen[d])
           /\ ps[d].seenTrailers => Trl \in ToSet(seen[d])
<1>1. FlowsIn(d)
  BY CurrentFlows DEF FlowsOut
<1>2. /\ fed[d] = seen[d] \o Unshown(ps[d]) /\ ps[d].dataBuffer = <<>> /\ Flags(ps[d], fed[d])
      /\ ps[d].state # "WaitingHeader" /\ seen[d] \in Seq(Item) /\ fed[d] \in Seq(Item)
  BY <1>1 DEF ShowInv, NothingSkipped, EndsTold, EndInv, MarksFit, FlowsOut, SerialInv, TypeOK
<1>3. Unshown(ps[d]) = <<>>
  <2>1. Rest(ps[d]) = <<>>
    BY DEF Rest
  <2>2. Unshown(ps[d]) = <<>> \o (<<>> \o <<>>)
    BY <1>2, <2>1 DEF Unshown
  <2> QED  BY <2>2
<1>4. fed[d] = seen[d]
  BY <1>2, <1>3, ConcatEmptySeq
<1>5. Last(fed[d]) \in ToSet(fed[d])
  <2>1. PICK m : m = fed[d]
    OBVIOUS
  <2>2. m \in Seq(Item) /\ m # <<>>
    BY <1>2, <2>1
  <2>3. Len(m) \in Nat \ {0}
    BY <2>2, EmptySeq
  <2>4. DOMAIN m = 1 .. Len(m)
    BY <2>2, LenProperties
  <2>5. Len(m) \in DOMAIN m
    BY <2>3, <2>4
  <2>6. m[Len(m)] \in ToSet(m)
    BY <2>5, InToSet
  <2> QED  BY <2>1, <2>6 DEF Last
<1> QED  BY <1>2, <1>4, <1>5 DEF Flags

\* An answer finds the message open.
LEMMA AnswerOpen ==
    ASSUME SerialInv, EndInv, ShowInv, dynamicLib, Cur \in Dir, NEW call \in Call,
           ps[Cur].state = Processing(call.kind), ~closed, ~hasDestroyed, ~localReplyWaitingGo
    PROVE  /\ FlowsOut(Cur) /\ Open(Cur) /\ InGo(ps[Cur]) /\ fed[Cur] # <<>>
           /\ {End, Trl} \cap ToSet(out[Cur]) = {}
           /\ ps[Cur].doEndStream /\ ps[Cur].endStream => ToSet(<<End>>) \subseteq ToSet(seen[Cur])
           /\ ps[Cur].doEndStream /\ ps[Cur].seenTrailers => ToSet(<<Trl>>) \subseteq ToSet(seen[Cur])
           /\ call.kind = "trailers" => ps[Cur].seenTrailers
           /\ call.kind # "trailers" /\ ps[Cur].doEndStream => ps[Cur].endStream
<1>1. /\ InGo(ps[Cur]) /\ ps[Cur].state # "WaitingHeader"
      /\ call.kind = "trailers" <=> ps[Cur].state = "ProcessingTrailer"
      /\ call.kind = "data" <=> ps[Cur].state = "ProcessingData"
      /\ call.kind = "headers" <=> ps[Cur].state = "ProcessingHeader"
      /\ call.kind \in Kind
  BY ProcessingIsInGo DEF Call
<1>2. FlowsOut(Cur)
  BY <1>1 DEF FlowsOut
<1>3. Open(Cur) /\ fed[Cur] # <<>>
  BY <1>1, <1>2, FlowsOpen, WorkedOn
<1>4. {End, Trl} \cap ToSet(out[Cur]) = {}
  BY <1>1 DEF EndInv, EndIsDone, InGo
<1>5. /\ ps[Cur].doEndStream /\ ps[Cur].endStream => End \in ToSet(seen[Cur])
      /\ ps[Cur].doEndStream /\ ps[Cur].seenTrailers => Trl \in ToSet(seen[Cur])
  BY <1>2, <1>3, EndShown
<1>6. Sound(ps[Cur])
  BY DEF EndInv, MarksFit
<1>7. ToSet(<<End>>) = {End} /\ ToSet(<<Trl>>) = {Trl}
  BY SmallSets
<1> QED  BY <1>1, <1>2, <1>3, <1>4, <1>5, <1>6, <1>7 DEF Sound, Kind

\* No data is kept while Go is at work on the headers.
LEMMA HeadersKeepNothing ==
    ASSUME TypeOK, NEW d \in Dir, LeavesInOrder(d), ps[d].state = "ProcessingHeader"
    PROVE  DataList(ps[d]) = <<>>
<1> DEFINE S == seen[d]  O == out[d]  K == DataList(ps[d])  R == dropped[d]
<1>1. S \in Seq(Item) /\ O \in Seq(Item) /\ K \in Seq(Chunks)
  BY DataListType DEF TypeOK
<1>2. InOrder(S, O, K, R) /\ Chunks \cap ToSet(S) = {}
  BY Zenon DEF LeavesInOrder
<1> HIDE DEF S, O, K, R
<1>3. ToSet(K) \subseteq ToSet(S) /\ ToSet(K) \subseteq Chunks
  BY <1>1, <1>2, InOrderParts
<1>4. ToSet(K) = {} /\ K \in Seq(Item)
  BY <1>1, <1>2, <1>3, SetOfItems
<1>5. K = <<>>
  BY <1>4, SetOfItems
<1> QED  BY <1>5 DEF K

\* No data is kept that trailers could overtake.
LEMMA TrailersKeepNothing ==
    ASSUME EndInv, dynamicLib, NothingOvertaken, NEW d \in Dir, LeavesInOrder(d), ps[d].seenTrailers
    PROVE  KeepsNothing /\ (ps[d].state # "ProcessingData" => DataList(ps[d]) = <<>>)
<1>1. d \in WithTrailers
  BY DEF EndInv, MarksFit
<1>2. KeepsNothing
  BY <1>1 DEF NothingOvertaken
<1>3. HoldsNothing(ps[d])
  BY <1>2 DEF LeavesInOrder
<1> QED  BY <1>2, <1>3 DEF HoldsNothing

\* What the filter manager goes on with.
LEMMA ResumedMarks ==
    ASSUME NEW d \in Dir, NEW p, Flags(p, fed[d]), fed[d] # <<>>
    PROVE  /\ p.seenTrailers => Resumed(d) = Passed(d, <<Trl>>)
           /\ p.endStream /\ out[d] = <<>> => Resumed(d) = Passed(d, <<End>>)
           /\ ~p.endStream /\ ~p.seenTrailers => Resumed(d) = Passed(d, <<>>)
<1>1. End # Trl
  BY BeforeFacts
<1> QED  BY <1>1 DEF Flags, Resumed

\* continueStatusInternal
LEMMA ContinueStatusLeaves ==
    ASSUME SerialInv, EndInv, ShowInv, Leaving, NothingOvertaken, dynamicLib,
           Cur \in Dir, ps[Cur] \in Processor, Cur' = Cur,
           NEW call \in Call, ps[Cur].state = Processing(call.kind), call.end = ps[Cur].doEndStream,
           ~call.refused, call.kind = "trailers" => call.end,
           NEW status \in GolangStatus, status \in Allowed(call),
           ~closed, ~hasDestroyed, ~localReplyWaitingGo,
           ContinueStatusInternal(Cur, status, <<>>), UNCHANGED seen
    PROVE  Leaving'
<1> DEFINE p == ps[Cur]  q == HandleGolangStatus(p, status)
<1>1. /\ q.held = p.held
      /\ status # "StopNoBuffer" => q.latest = p.latest
  BY AnswerLists
<1>2. /\ FlowsOut(Cur) /\ Open(Cur) /\ InGo(p) /\ fed[Cur] # <<>>
      /\ {End, Trl} \cap ToSet(out[Cur]) = {}
      /\ p.doEndStream /\ p.endStream => ToSet(<<End>>) \subseteq ToSet(seen[Cur])
      /\ call.kind = "trailers" => p.seenTrailers
      /\ call.kind # "trailers" /\ p.doEndStream => p.endStream
  BY AnswerOpen
<1>3. /\ Flags(p, fed[Cur]) /\ Sound(p) /\ LeavesInOrder(Cur) /\ TypeOK
  BY DEF EndInv, MarksFit, Leaving, SerialInv
<1>4. /\ q \in Processor /\ q.doEndStream = p.doEndStream /\ q.endStream = p.endStream
      /\ q.seenTrailers = p.seenTrailers
  BY <1>3, AnswersKeepMarks
<1>5. status = "Continue" => DataList(q) = DataList(p)
  BY <1>1 DEF DataList
<1>6. /\ Drop(Cur, status)
      /\ \/ /\ status = "Continue" /\ p.state = "ProcessingHeader" /\ ps' = [ps EXCEPT ![Cur] = q]
            /\ \/ MayResumeHeaders(q) /\ out' = Resumed(Cur) /\ stack' = <<At("forwarded", Cur)>> \o <<>>
               \/ UNCHANGED out /\ stack' = <<At("checkData", Cur)>> \o <<>>
         \/ /\ status = "Continue" /\ p.state = "ProcessingData" /\ ContinueDoData(Cur, q)
            /\ \E label \in {"checkData", "forwarded"} : stack' = <<At(label, Cur)>> \o <<>>
         \/ /\ status = "Continue" /\ p.state = "ProcessingTrailer" /\ ContinueDoData(Cur, q)
            /\ stack' = <<At("forwardedTrailerData", Cur)>> \o <<>>
         \/ /\ status # "Continue" /\ ps' = [ps EXCEPT ![Cur] = q] /\ UNCHANGED out
            /\ stack' = <<At("checkData", Cur)>> \o <<>>
  BY <1>2 DEF ContinueStatusInternal, IsDone
<1>7. /\ call.kind = "trailers" <=> p.state = "ProcessingTrailer"
      /\ call.kind = "data" <=> p.state = "ProcessingData"
      /\ call.kind = "headers" <=> p.state = "ProcessingHeader"
  BY ProcessingIsInGo DEF Call
<1>8. ASSUME NEW label \in Label, stack' = <<At(label, Cur)>> \o <<>>
      PROVE  stack' # <<>> /\ Head(stack').at = label
  BY <1>8 DEF At
<1>9. {"checkData", "forwarded", "forwardedTrailerData"} \subseteq Label
  BY LabelTypes DEF Forwarding
<1>10. (\E label \in {"checkData", "forwarded"} : stack' = <<At(label, Cur)>> \o <<>>)
          => TrailersFollow' /\ NoTrailerData'
  BY <1>8, <1>9, OtherPlaces
<1>11. ToSet(<<>>) = {} /\ EndIf(TRUE) = <<End>> /\ EndIf(FALSE) = <<>> /\ <<>> \o <<>> = <<>>
  BY SmallSets DEF EndIf
<1>12. DataList(ClearAll(q)) = <<>>
  BY <1>4 DEF DataList, ClearAll, Processor
<1>13. q = HandleGolangStatus(ps[Cur], status) /\ ps[Cur] = p
  OBVIOUS
<1> HIDE DEF p, q
<1>14. ASSUME ps' = [ps EXCEPT ![Cur] = q], UNCHANGED out,
              KeepsNothing /\ status = "Continue" => DataList(q) = <<>>
       PROVE  \A d \in Dir : LeavesInOrder(d)'
  BY <1>2, <1>6, <1>13, <1>14, AnswerKeeps
<1>15. ASSUME status = "Continue", NEW n \in {q, ClearAll(q)}, ps' = [ps EXCEPT ![Cur] = n],
              DataList(n) = <<>>, NEW marks \in {<<>>, <<End>>, <<Trl>>},
              ToSet(marks) \subseteq ToSet(seen[Cur]), out' = Passed(Cur, DataList(q) \o marks)
       PROVE  \A d \in Dir : LeavesInOrder(d)'
  <2>1. q = HandleGolangStatus(ps[Cur], "Continue") /\ Drop(Cur, "Continue") /\ "Continue" \in Allowed(call)
    BY <1>6, <1>13, <1>15
  <2> QED  BY <1>2, <1>15, <2>1, AnswerPasses
<1>16. CASE /\ status = "Continue" /\ p.state = "ProcessingHeader" /\ ps' = [ps EXCEPT ![Cur] = q]
            /\ \/ MayResumeHeaders(q) /\ out' = Resumed(Cur) /\ stack' = <<At("forwarded", Cur)>> \o <<>>
               \/ UNCHANGED out /\ stack' = <<At("checkData", Cur)>> \o <<>>
  <2>1. DataList(q) = <<>>
    BY <1>3, <1>5, <1>13, <1>16, HeadersKeepNothing
  <2>2. CASE UNCHANGED out /\ stack' = <<At("checkData", Cur)>> \o <<>>
    BY <1>10, <1>14, <1>16, <2>1, <2>2 DEF Leaving
  <2>3. CASE MayResumeHeaders(q) /\ out' = Resumed(Cur) /\ stack' = <<At("forwarded", Cur)>> \o <<>>
    <3>1. CASE p.doEndStream
      <4>1. p.endStream /\ out[Cur] = <<>>
        BY <1>2, <1>7, <1>13, <1>16, <3>1 DEF EndInv, HeadersHeldBack
      <4>2. Resumed(Cur) = Passed(Cur, <<End>>)
        BY <1>2, <1>3, <4>1, ResumedMarks
      <4>3. DataList(q) \o <<End>> = <<End>> /\ ToSet(<<End>>) \subseteq ToSet(seen[Cur])
        BY <1>2, <2>1, <3>1, <4>1
      <4>4. out' = Passed(Cur, DataList(q) \o <<End>>)
        BY <2>3, <4>2, <4>3
      <4> QED  BY <1>10, <1>15, <1>16, <2>1, <2>3, <4>3, <4>4 DEF Leaving
    <3>2. CASE ~p.doEndStream
      <4>1. ~p.endStream /\ ~p.seenTrailers
        BY <1>4, <2>3, <3>2 DEF MayResumeHeaders, IsStreamEnd
      <4>2. Resumed(Cur) = Passed(Cur, <<>>)
        BY <1>2, <1>3, <4>1, ResumedMarks
      <4>3. DataList(q) \o <<>> = <<>> /\ ToSet(<<>>) \subseteq ToSet(seen[Cur])
        BY <1>11, <2>1
      <4>4. out' = Passed(Cur, DataList(q) \o <<>>)
        BY <2>3, <4>2, <4>3
      <4> QED  BY <1>10, <1>15, <1>16, <2>1, <2>3, <4>3, <4>4 DEF Leaving
    <3> QED  BY <3>1, <3>2
  <2> QED  BY <1>16, <2>2, <2>3
<1>17. CASE /\ status = "Continue" /\ p.state = "ProcessingData" /\ ContinueDoData(Cur, q)
            /\ \E label \in {"checkData", "forwarded"} : stack' = <<At(label, Cur)>> \o <<>>
  <2>1. CASE NothingToDo(q)
    BY <1>10, <1>14, <1>17, <2>1 DEF ContinueDoData, NothingToDo, Leaving
  <2>2. CASE ~NothingToDo(q)
    <3>1. ps' = [ps EXCEPT ![Cur] = ClearAll(q)] /\ out' = Passed(Cur, DataList(q) \o EndIf(q.doEndStream))
      BY <1>17, <2>2 DEF ContinueDoData
    <3>2. /\ EndIf(q.doEndStream) \in {<<>>, <<End>>, <<Trl>>}
          /\ ToSet(EndIf(q.doEndStream)) \subseteq ToSet(seen[Cur])
      <4>1. CASE q.doEndStream
        BY <1>2, <1>4, <1>7, <1>11, <1>17, <4>1 DEF EndIf
      <4>2. CASE ~q.doEndStream
        BY <1>11, <4>2 DEF EndIf
      <4> QED  BY <4>1, <4>2
    <3> QED  BY <1>10, <1>12, <1>15, <1>17, <3>1, <3>2 DEF Leaving
  <2> QED  BY <2>1, <2>2
<1>18. CASE /\ status = "Continue" /\ p.state = "ProcessingTrailer" /\ ContinueDoData(Cur, q)
            /\ stack' = <<At("forwardedTrailerData", Cur)>> \o <<>>
  <2>1. p.seenTrailers /\ p.doEndStream
    BY <1>2, <1>7, <1>13, <1>18
  <2>2. DataList(q) = <<>>
    BY <1>3, <1>5, <1>13, <1>18, <2>1, TrailersKeepNothing
  <2>3. ~q.endStream
    BY <1>3, <1>4, <2>1, EndIsNotTrailers
  <2>4. ps' = [ps EXCEPT ![Cur] = q] /\ UNCHANGED out
    BY <1>18, <2>2, <2>3 DEF ContinueDoData, NothingToDo
  <2>5. \A d \in Dir : LeavesInOrder(d)'
    BY <1>14, <2>2, <2>4
  <2>6. ps'[Cur] = q /\ out' = out
    BY <1>3, <2>4 DEF TypeOK
  <2>7. TrailersFollow'
    BY <1>2, <1>4, <2>1, <2>6 DEF TrailersFollow
  <2>8. NoTrailerData'
    BY <1>8, <1>9, <1>18 DEF NoTrailerData, KeepsNothing
  <2> QED  BY <2>5, <2>7, <2>8 DEF Leaving
<1>19. CASE /\ status # "Continue" /\ ps' = [ps EXCEPT ![Cur] = q] /\ UNCHANGED out
            /\ stack' = <<At("checkData", Cur)>> \o <<>>
  BY <1>10, <1>14, <1>19 DEF Leaving
<1> QED  BY <1>6, <1>16, <1>17, <1>18, <1>19

\* Go returns, from any place.
LEMMA GoReturnLeaves ==
    ASSUME SerialInv, EndInv, ShowInv, Leaving, NothingOvertaken, GoReturn
    PROVE  Leaving'
<1> PICK call \in go, status \in GolangStatus :
        \/ HeadersReturn(call, status)
        \/ DataReturn(call, status)
        \/ TrailerReturn(call, status)
        \/ TrailerDataReturn(call, status)
        \/ ResumeDataReturn(call, status)
        \/ ResumeTrailerReturn(call, status)
        \/ LocalReplyHeadersReturn(call, status)
  BY DEF GoReturn
<1> DEFINE q == HandleGolangStatus(ps[Cur], status)
<1>1. /\ UNCHANGED <<fed, enterEncoding, localReplyWaitingGo, closed>>
      /\ \E at \in GoFrames : GoReturns(at, call, status)
  BY DEF HeadersReturn, DataReturn, TrailerReturn, TrailerDataReturn, ResumeDataReturn,
         ResumeTrailerReturn, LocalReplyHeadersReturn, filterVars, replyVars, GoFrames
<1>2. PICK at \in GoFrames : GoReturns(at, call, status)
  BY <1>1
<1>3. /\ call.dir = Cur /\ Cur \in Dir /\ dynamicLib /\ ~hasDestroyed /\ ~closed /\ call \in Unanswered
      /\ call \in Call /\ status \in Allowed(call) /\ Flags(ps[Cur], fed[Cur])
  BY <1>2, AnswerMarks DEF EndInv, MarksFit
<1>4. /\ ps[Cur] \in Processor /\ ps[Cur].state = Processing(call.kind) /\ ~call.refused
      /\ call.kind = FrameKind(at) /\ (call.kind = "trailers" => call.end) /\ ~localReplyWaitingGo
      /\ \/ Tail(stack) = <<>>
         \/ at = "doHeaders" /\ Tail(stack) = <<ReplyBody>>
  BY <1>2, GoFrame
<1>5. call.end = ps[Cur].doEndStream
  BY <1>3 DEF EndInv, EndsFit
<1>6. seen' = seen /\ Cur' = Cur /\ stack # <<>> /\ Head(stack).at = at
  BY <1>1, <1>2 DEF GoReturns, Cur
<1>7. /\ FrameKind("doHeaders") = "headers" /\ FrameKind("doData") = "data"
      /\ FrameKind("doTrailerData") = "data" /\ FrameKind("resumeData") = "data"
      /\ FrameKind("doTrailer") = "trailers" /\ FrameKind("resumeTrailer") = "trailers"
  BY DEF FrameKind
<1>8. /\ FlowsOut(Cur) /\ Open(Cur) /\ fed[Cur] # <<>>
      /\ {End, Trl} \cap ToSet(out[Cur]) = {}
      /\ ps[Cur].doEndStream /\ ps[Cur].endStream => ToSet(<<End>>) \subseteq ToSet(seen[Cur])
      /\ ps[Cur].doEndStream /\ ps[Cur].seenTrailers => ToSet(<<Trl>>) \subseteq ToSet(seen[Cur])
      /\ call.kind = "trailers" => ps[Cur].seenTrailers
      /\ call.kind # "trailers" /\ ps[Cur].doEndStream => ps[Cur].endStream
  BY <1>3, <1>4, AnswerOpen
<1>9. /\ call.kind = "headers"  => q = HandleHeaderGolangStatus(ps[Cur], status)
      /\ call.kind = "data"     => q = HandleDataGolangStatus(ps[Cur], status)
      /\ call.kind = "trailers" => q = HandleTrailerGolangStatus(ps[Cur], status)
      /\ q \in Processor
  BY <1>3, <1>4, AnswerEffects
<1>10. /\ q.held = ps[Cur].held
       /\ status # "StopNoBuffer" => q.latest = ps[Cur].latest
  BY <1>3, <1>4, AnswerLists
<1>11. status = "Continue" => DataList(q) = DataList(ps[Cur])
  BY <1>10 DEF DataList
<1>12. q.doEndStream = ps[Cur].doEndStream
  <2>1. Sound(ps[Cur])
    BY <1>3 DEF EndInv, MarksFit
  <2> QED  BY <1>3, <1>4, <1>5, <2>1, AnswersKeepMarks
<1>13. /\ call.kind = "headers" <=> ps[Cur].state = "ProcessingHeader"
       /\ call.kind = "data" <=> ps[Cur].state = "ProcessingData"
       /\ call.kind = "trailers" <=> ps[Cur].state = "ProcessingTrailer"
  BY <1>3, <1>4, ProcessingIsInGo DEF Call
<1>14. q = HandleGolangStatus(ps[Cur], status)
  OBVIOUS
<1>15. ToSet(<<>>) = {} /\ EndIf(TRUE) = <<End>> /\ EndIf(FALSE) = <<>>
       /\ <<>> \o <<>> = <<>> /\ <<>> \o <<End>> = <<End>> /\ <<>> \o <<Trl>> = <<Trl>>
  BY SmallSets DEF EndIf
<1>16. DataList(ClearAll(q)) = <<>>
  BY <1>9 DEF DataList, ClearAll, Processor
<1>17. TypeOK /\ LeavesInOrder(Cur)
  BY <1>3 DEF SerialInv, Leaving
<1> HIDE DEF q
<1>18. Tail(stack) = <<>> \/ Head(Tail(stack)).at = "replyBody"
  <2>1. Head(<<ReplyBody>>).at = "replyBody"
    BY DEF ReplyBody, At
  <2> QED  BY <1>4, <2>1
<1>19. ASSUME NEW label \in Label, stack' = <<At(label, Cur)>> \o Tail(stack)
       PROVE  stack' # <<>> /\ Head(stack').at = label
  <2>1. Tail(stack) \in Seq(Frame)
    BY <1>6, <1>17, TopFrame
  <2> QED  BY <1>19, <2>1 DEF At
<1>20. ASSUME \/ stack' = Tail(stack)
              \/ \E label \in {"trailerAfterData", "checkTrailer", "forwardedData"} :
                    stack' = <<At(label, Cur)>> \o Tail(stack)
       PROVE  TrailersFollow' /\ NoTrailerData'
  <2>1. {"trailerAfterData", "checkTrailer", "forwardedData"} \subseteq Label
    BY LabelTypes DEF Forwarding
  <2>2. stack' = <<>> \/ Head(stack').at \notin {"forwardedTrailerData", "doTrailerData"}
    BY <1>18, <1>19, <1>20, <2>1
  <2> QED  BY <2>2, OtherPlaces
<1>21. ASSUME ps' = [ps EXCEPT ![Cur] = q], UNCHANGED out, Drop(Cur, status),
              KeepsNothing /\ status = "Continue" => DataList(q) = <<>>
       PROVE  \A d \in Dir : LeavesInOrder(d)'
  BY <1>3, <1>4, <1>6, <1>8, <1>14, <1>21, AnswerKeeps
<1>22. ASSUME status = "Continue", NEW n \in {q, ClearAll(q)}, ps' = [ps EXCEPT ![Cur] = n], Drop(Cur, status),
              DataList(n) = <<>>, NEW marks \in {<<>>, <<End>>, <<Trl>>},
              ToSet(marks) \subseteq ToSet(seen[Cur]), out' = Passed(Cur, DataList(q) \o marks)
       PROVE  \A d \in Dir : LeavesInOrder(d)'
  <2>1. q = HandleGolangStatus(ps[Cur], "Continue") /\ Drop(Cur, "Continue") /\ "Continue" \in Allowed(call)
    BY <1>3, <1>14, <1>22
  <2> QED  BY <1>3, <1>4, <1>6, <1>8, <1>22, <2>1, AnswerPasses
<1>23. call.kind # "data" => (Drop(Cur, status) <=> UNCHANGED dropped)
  BY <1>13 DEF Drop
<1>24. call.kind # "trailers" => /\ EndIf(call.end) \in {<<>>, <<End>>, <<Trl>>}
                                 /\ ToSet(EndIf(call.end)) \subseteq ToSet(seen[Cur])
  <2>1. CASE call.end
    BY <1>5, <1>8, <1>15, <2>1 DEF EndIf
  <2>2. CASE ~call.end
    BY <1>15, <2>2 DEF EndIf
  <2> QED  BY <2>1, <2>2
<1>25. CASE HeadersReturn(call, status)
  <2>1. /\ at = "doHeaders" /\ call.kind = "headers"
        /\ ps' = [ps EXCEPT ![Cur] = q] /\ stack' = Tail(stack)
        /\ UNCHANGED dropped
        /\ out' = IF status = "Continue" THEN Passed(Cur, EndIf(call.end)) ELSE out
    BY <1>3, <1>4, <1>6, <1>7, <1>9, <1>25 DEF HeadersReturn, GoReturns, Return, IsDone
  <2>2. status = "Continue" => DataList(q) = <<>>
    BY <1>3, <1>11, <1>13, <1>17, <2>1, HeadersKeepNothing
  <2>3. DataList(q) = <<>> => DataList(q) \o EndIf(call.end) = EndIf(call.end)
    BY <1>15, <1>24, <2>1
  <2>4. \A d \in Dir : LeavesInOrder(d)'
    <3>1. CASE status = "Continue"
      BY <1>22, <1>23, <1>24, <2>1, <2>2, <2>3, <3>1
    <3>2. CASE status # "Continue"
      BY <1>21, <1>23, <2>1, <2>2, <3>2
    <3> QED  BY <3>1, <3>2
  <2> QED  BY <1>20, <2>1, <2>4 DEF Leaving
<1>26. CASE DataReturn(call, status)
  <2>1. at = "doData" /\ call.kind = "data"
    BY <1>4, <1>6, <1>7, <1>26 DEF DataReturn, GoReturns
  <2>2. /\ stack' = Tail(stack) /\ Drop(Cur, status)
        /\ \/ /\ status = "Continue" /\ ps' = [ps EXCEPT ![Cur] = ClearAll(q)]
              /\ out' = Passed(Cur, DataList(q) \o EndIf(call.end))
           \/ status # "Continue" /\ ps' = [ps EXCEPT ![Cur] = q] /\ UNCHANGED out
    BY <1>3, <1>9, <1>26, <2>1 DEF DataReturn, Return, IsDone
  <2>3. \A d \in Dir : LeavesInOrder(d)'
    <3>1. CASE status = "Continue"
      BY <1>16, <1>22, <1>24, <2>1, <2>2, <3>1
    <3>2. CASE status # "Continue"
      BY <1>21, <2>2, <3>2
    <3> QED  BY <3>1, <3>2
  <2> QED  BY <1>20, <2>2, <2>3 DEF Leaving
<1>27. CASE TrailerReturn(call, status)
  <2>1. /\ at = "doTrailer" /\ call.kind = "trailers" /\ ps' = [ps EXCEPT ![Cur] = q] /\ UNCHANGED dropped
        /\ stack' = Tail(stack)
        /\ out' = IF status = "Continue" THEN Passed(Cur, <<Trl>>) ELSE out
    BY <1>3, <1>4, <1>6, <1>7, <1>9, <1>27 DEF TrailerReturn, GoReturns, Return, IsDone
  <2>2. status = "Continue" => DataList(q) = <<>>
    BY <1>3, <1>8, <1>11, <1>13, <1>17, <2>1, TrailersKeepNothing
  <2>3. DataList(q) = <<>> => DataList(q) \o <<Trl>> = <<Trl>>
    BY <1>15
  <2>4. ToSet(<<Trl>>) \subseteq ToSet(seen[Cur])
    BY <1>4, <1>5, <1>8, <2>1
  <2>5. \A d \in Dir : LeavesInOrder(d)'
    <3>1. CASE status = "Continue"
      BY <1>22, <1>23, <2>1, <2>2, <2>3, <2>4, <3>1
    <3>2. CASE status # "Continue"
      BY <1>21, <1>23, <2>1, <2>2, <3>2
    <3> QED  BY <3>1, <3>2
  <2> QED  BY <1>20, <2>1, <2>5 DEF Leaving
<1>28. CASE TrailerDataReturn(call, status)
  <2>1. at = "doTrailerData" /\ call.kind = "data"
    BY <1>4, <1>6, <1>7, <1>28 DEF TrailerDataReturn, GoReturns
  <2>2. /\ Drop(Cur, status) /\ ps' = [ps EXCEPT ![Cur] = q] /\ UNCHANGED out
        /\ \/ stack' = Tail(stack)
           \/ stack' = <<At("trailerAfterData", Cur)>> \o Tail(stack)
    BY <1>3, <1>9, <1>28, <2>1 DEF TrailerDataReturn
  <2>3. ~KeepsNothing
    BY <1>6, <2>1 DEF Leaving, NoTrailerData
  <2>4. \A d \in Dir : LeavesInOrder(d)'
    BY <1>21, <2>2, <2>3
  <2> QED  BY <1>20, <2>2, <2>4 DEF Leaving
<1>29. CASE ResumeDataReturn(call, status)
  <2>1. at = "resumeData" /\ call.kind = "data"
    BY <1>4, <1>6, <1>7, <1>29 DEF ResumeDataReturn, GoReturns
  <2>2. /\ Drop(Cur, status)
        /\ \/ /\ status = "Continue" /\ ContinueDoData(Cur, q)
              /\ \E label \in {"checkTrailer", "forwardedData"} : stack' = <<At(label, Cur)>> \o Tail(stack)
           \/ status # "Continue" /\ ps' = [ps EXCEPT ![Cur] = q] /\ UNCHANGED out /\ stack' = Tail(stack)
    BY <1>3, <1>9, <1>29, <2>1 DEF ResumeDataReturn, Return, IsDone
  <2>3. \A d \in Dir : LeavesInOrder(d)'
    <3>1. CASE status = "Continue" /\ NothingToDo(q)
      BY <1>21, <2>2, <3>1 DEF ContinueDoData, NothingToDo
    <3>2. CASE status = "Continue" /\ ~NothingToDo(q)
      <4>1. ps' = [ps EXCEPT ![Cur] = ClearAll(q)] /\ out' = Passed(Cur, DataList(q) \o EndIf(q.doEndStream))
        BY <2>2, <3>2 DEF ContinueDoData
      <4>2. out' = Passed(Cur, DataList(q) \o EndIf(call.end))
        BY <1>5, <1>12, <4>1
      <4> QED  BY <1>16, <1>22, <1>24, <2>1, <2>2, <3>2, <4>1, <4>2
    <3>3. CASE status # "Continue"
      BY <1>21, <2>2, <3>3
    <3> QED  BY <3>1, <3>2, <3>3
  <2> QED  BY <1>20, <2>2, <2>3 DEF Leaving
<1>30. CASE ResumeTrailerReturn(call, status)
  <2>1. /\ at = "resumeTrailer" /\ call.kind = "trailers" /\ ps' = [ps EXCEPT ![Cur] = q] /\ UNCHANGED dropped
        /\ stack' = Tail(stack)
        /\ out' = IF status = "Continue" THEN Resumed(Cur) ELSE out
    BY <1>3, <1>4, <1>6, <1>7, <1>9, <1>30 DEF ResumeTrailerReturn, GoReturns, Return, IsDone
  <2>2. status = "Continue" => DataList(q) = <<>>
    BY <1>3, <1>8, <1>11, <1>13, <1>17, <2>1, TrailersKeepNothing
  <2>3. DataList(q) = <<>> => DataList(q) \o <<Trl>> = <<Trl>>
    BY <1>15
  <2>4. ToSet(<<Trl>>) \subseteq ToSet(seen[Cur])
    BY <1>4, <1>5, <1>8, <2>1
  <2>5. Resumed(Cur) = Passed(Cur, <<Trl>>)
    BY <1>3, <1>8, <2>1, ResumedMarks
  <2>6. \A d \in Dir : LeavesInOrder(d)'
    <3>1. CASE status = "Continue"
      BY <1>22, <1>23, <2>1, <2>2, <2>3, <2>4, <2>5, <3>1
    <3>2. CASE status # "Continue"
      BY <1>21, <1>23, <2>1, <2>2, <3>2
    <3> QED  BY <3>1, <3>2
  <2> QED  BY <1>20, <2>1, <2>6 DEF Leaving
<1>31. CASE LocalReplyHeadersReturn(call, status)
  <2>1. GoReturns("localReplyHeaders", call, status) /\ "localReplyHeaders" \in GoFrames
    BY <1>31 DEF LocalReplyHeadersReturn, GoFrames
  <2>2. Tail(stack) = <<>>
    BY <1>4, <1>6, <2>1 DEF GoReturns
  <2>3. ContinueStatusInternal(Cur, status, <<>>)
    BY <1>3, <1>31, <2>2 DEF LocalReplyHeadersReturn
  <2> QED  BY <1>3, <1>4, <1>5, <1>6, <2>3, ContinueStatusLeaves
<1> QED  BY <1>25, <1>26, <1>27, <1>28, <1>29, <1>30, <1>31

\* What Go answered reaches the worker.
LEMMA ContinueEventLeaves ==
    ASSUME SerialInv, EndInv, ShowInv, Leaving, NothingOvertaken, ContinueEvent
    PROVE  Leaving'
<1> DEFINE call == posted[1].call
           status == posted[1].status
<1>1. /\ NextEvent({"continue"}) /\ ~hasDestroyed /\ ~localReplyWaitingGo
      /\ ContinueStatusInternal(Cur, Head(posted).status, <<>>)
      /\ UNCHANGED <<seen, enterEncoding>>
  BY DEF ContinueEvent, filterVars, replyVars, goVars
<1>2. /\ posted # <<>> /\ Head(posted) = posted[1] /\ posted[1] \in Event /\ posted[1].act = "continue"
      /\ call \in Unanswered /\ call \in Call /\ dynamicLib /\ Cur \in Dir /\ ps[Cur] \in Processor
      /\ ps[Cur].state = Processing(call.kind) /\ ~call.refused
  BY <1>1, TakenEvent DEF NextEvent
<1>3. /\ status \in Allowed(call) /\ status \in GolangStatus /\ (call.kind = "trailers" => call.end)
  <2>1. posted \in Seq(Event)
    BY DEF SerialInv, TypeOK
  <2>2. Len(posted) = 1
    BY <1>2, OnePosted DEF SerialInv, CallsInv
  <2>3. 1 \in DOMAIN posted
    BY <2>1, <2>2, LenProperties
  <2> QED  BY <1>2, <2>3 DEF SerialInv, CallsInv, CallsFit, PostedIsAllowed, Event
<1>4. call.end = ps[Cur].doEndStream /\ ~closed
  BY <1>2 DEF EndInv, EndsFit, NothingAfterEnd
<1>5. ContinueStatusInternal(Cur, status, <<>>) /\ UNCHANGED seen /\ Cur' = Cur
  BY <1>1, <1>2 DEF Cur
<1> HIDE DEF call, status
<1> QED  BY <1>1, <1>2, <1>3, <1>4, <1>5, ContinueStatusLeaves

\* Go replies: what it holds of the message is given up.
LEMMA LocalReplyEventLeaves ==
    ASSUME SerialInv, Leaving, LocalReplyEvent
    PROVE  Leaving'
<1> DEFINE p == ClearAll(TakeBuffer(ps[Cur]))
           q == [p EXCEPT !.state = "WaitingHeader"]
<1>1. /\ NextEvent({"reply"})
      /\ UNCHANGED <<seen, out, dropped, enterEncoding>>
  BY DEF LocalReplyEvent, filterVars, replyVars, goVars
<1>2. stack = <<>> /\ Cur \in Dir /\ ps[Cur] \in Processor /\ Cur' = Cur /\ TypeOK
  BY <1>1, TakenEvent DEF NextEvent, Cur, SerialInv
<1>3. /\ DataList(p) = <<>> /\ p.state = ps[Cur].state
      /\ DataList(q) = <<>> /\ q.state = "WaitingHeader"
  BY <1>2 DEF DataList, ClearAll, TakeBuffer, Processor
<1>4. \/ Cur = "decode" /\ ps' = [ps EXCEPT ![Cur] = q] /\ stack' = <<At("localReply", Cur)>>
      \/ ps' = [ps EXCEPT ![Cur] = p] /\ closed' = TRUE /\ stack' = <<>>
  BY <1>2 DEF LocalReplyEvent
<1> HIDE DEF p, q
<1>5. PICK n \in {p, q} : ps' = [ps EXCEPT ![Cur] = n]
  BY <1>4
<1>6. ps'[Cur] = n
  BY <1>2, <1>5 DEF TypeOK
<1>7. ~FlowsOut(Cur)'
  BY <1>2, <1>3, <1>4 DEF FlowsOut, TypeOK
<1>8. ASSUME NEW d \in Dir PROVE LeavesInOrder(d)'
  <2>1. CASE d = Cur
    <3>1. LeavesInOrder(d) /\ ~FlowsOut(d)' /\ ps'[d] = n /\ (n.state = "ProcessingHeader" => ps[d].state = "ProcessingHeader")
      BY <1>2, <1>3, <1>6, <1>7, <2>1 DEF Leaving
    <3> QED  BY <1>1, <1>2, <1>3, <3>1, GivenUpLeaves
  <2>2. CASE d # Cur
    BY <1>1, <1>2, <1>5, <2>2, OtherStays
  <2> QED  BY <2>1, <2>2
<1>9. stack' = <<>> \/ Head(stack').at \notin {"forwardedTrailerData", "doTrailerData"}
  BY <1>4 DEF At
<1> QED  BY <1>8, <1>9, OtherPlaces DEF Leaving

\* The trailers follow the data, which has left the filter.
LEMMA TrailersForwardedLeaves ==
    ASSUME SerialInv, EndInv, ShowInv, Leaving, NothingOvertaken, TrailersForwarded
    PROVE  Leaving'
<1>1. /\ stack # <<>> /\ Head(stack).at = "forwardedTrailerData"
      /\ out' = Resumed(Head(stack).dir)
      /\ stack' = <<At("forwarded", Head(stack).dir)>> \o Tail(stack)
      /\ UNCHANGED <<ps, seen, dropped, enterEncoding, closed, hasDestroyed, localReplyWaitingGo>>
  BY DEF TrailersForwarded, filterVars, lifeVars, replyVars, goVars
<1>2. /\ Tail(stack) = <<>> /\ Head(stack).dir = Cur /\ dynamicLib /\ ~closed /\ Flags(ps[Cur], fed[Cur])
      /\ Cur \in Dir /\ ~localReplyWaitingGo /\ Cur' = Cur /\ TypeOK
  BY <1>1, FilterFrame, FilterFrameEnd DEF Forwarding, Cur, SerialInv
<1>3. PICK d \in Dir : d = Cur
  BY <1>2
<1>4. /\ ps[d].state = "Done" /\ ps[d].seenTrailers /\ ps[d].doEndStream
      /\ {End, Trl} \cap ToSet(out[d]) = {} /\ fed[d] # <<>>
  BY <1>1, <1>2, <1>3 DEF EndInv, EndIsDone, Leaving, TrailersFollow, Flags
<1>5. Head(stack').at = "forwarded"
  BY <1>1, <1>2 DEF At
<1>6. LeavesInOrder(d) /\ DataList(ps[d]) = <<>>
  BY <1>2, <1>3, <1>4, TrailersKeepNothing DEF Leaving
<1>7. out' = Passed(d, <<Trl>>)
  BY <1>1, <1>2, <1>3, <1>4, ResumedMarks
<1>8. CASE hasDestroyed
  <2>1. out' = out
    BY <1>7, <1>8 DEF Passed, Open
  <2>2. ASSUME NEW e \in Dir PROVE LeavesInOrder(e)'
    <3>1. LeavesInOrder(e) /\ (FlowsOut(e)' => FlowsOut(e))
      BY <1>1, <1>2 DEF Leaving, FlowsOut
    <3> QED  BY <1>1, <2>1, <3>1, KeepsLeaving
  <2> QED  BY <1>5, <2>2, OtherPlaces DEF Leaving
<1>9. CASE ~hasDestroyed
  <2>1. FlowsOut(d)
    BY <1>2, <1>3, <1>4, <1>9 DEF FlowsOut
  <2>2. Open(d) /\ ToSet(<<Trl>>) \subseteq ToSet(seen[d])
    <3>1. Trl \in ToSet(seen[d])
      BY <1>2, <1>4, <2>1, EndShown
    <3> QED  BY <1>2, <2>1, <3>1, FlowsOpen, SmallSets
  <2> DEFINE marks == <<Trl>>
  <2>3. <<>> \o marks = marks /\ marks \in {<<>>, <<End>>, <<Trl>>} /\ ToSet(marks) \subseteq ToSet(seen[d])
    BY <2>2
  <2>4. out' = Passed(d, marks)
    BY <1>7
  <2> HIDE DEF marks
  <2>5. marks = DataList(ps[d]) \o marks
    BY <1>6, <2>3
  <2>6. DataList(ps'[d]) = <<>> /\ ps'[d].state # "ProcessingHeader" /\ seen'[d] = seen[d] /\ dropped'[d] = dropped[d]
    BY <1>1, <1>4, <1>6
  <2>7. LeavesInOrder(d)'
    BY <1>2, <1>4, <1>6, <2>1, <2>2, <2>3, <2>4, <2>5, <2>6, PassedLeaves
  <2>8. ASSUME NEW e \in Dir, e # d PROVE LeavesInOrder(e)'
    <3>1. out'[e] = out[e]
      BY <1>2, <2>4, <2>8 DEF Passed, TypeOK
    <3>2. LeavesInOrder(e) /\ (FlowsOut(e)' => FlowsOut(e))
      BY <1>1, <1>2 DEF Leaving, FlowsOut
    <3> QED  BY <1>1, <3>1, <3>2, KeepsLeaving
  <2> QED  BY <1>5, <2>7, <2>8, OtherPlaces DEF Leaving
<1> QED  BY <1>8, <1>9

\* Others reply, answer or destroy the stream: nothing is passed on.
LEMMA OthersLeave ==
    ASSUME Calm, Leaving, Goroutine \/ DropEvent \/ OtherLocalReply \/ Destroy
    PROVE  Leaving'
<1>1. /\ UNCHANGED <<ps, seen, out, dropped, enterEncoding, localReplyWaitingGo, closed>>
      /\ stack' = stack \/ OtherLocalReply
      /\ hasDestroyed => hasDestroyed'
  BY DEF Goroutine, Continue, SendLocalReply, GoAnswers, DropEvent, OtherLocalReply, Destroy,
         filterVars, lifeVars, replyVars, goVars, streamVars
<1>2. Cur' = Cur
  BY <1>1 DEF Cur
<1>3. ASSUME NEW d \in Dir PROVE LeavesInOrder(d)'
  <2>1. LeavesInOrder(d) /\ (FlowsOut(d)' => FlowsOut(d))
    BY <1>1, <1>2 DEF Leaving, FlowsOut
  <2> QED  BY <1>1, <2>1, KeepsLeaving
<1>4. CASE stack' = stack
  BY <1>1, <1>2, <1>3, <1>4 DEF Leaving, TrailersFollow, NoTrailerData, KeepsNothing
<1>5. CASE OtherLocalReply
  <2>1. stack = <<>> /\ stack' = <<At("localReply", "decode")>> \o stack
    BY <1>5 DEF OtherLocalReply, Calm
  <2>2. Head(stack').at = "localReply"
    BY <2>1 DEF At
  <2> QED  BY <1>3, <2>2, OtherPlaces DEF Leaving
<1> QED  BY <1>1, <1>4, <1>5

-----------------------------------------------------------------------------
(* Go is shown more of the message                                         *)

SeenInOrder == \A d \in Dir : Ordered(seen[d])

\* The numbers of the data say that it is in order, whatever comes with it.
LEMMA ShownData ==
    ASSUME NEW shown \in Seq(Item), NEW data \in Seq(Chunks), NEW b \in BOOLEAN,
           NEW items, items = data \o EndIf(b), Ordered(shown \o items)
    PROVE  items \in Seq(Item) /\ Ordered(data) /\ ToSet(data) = Chunks \cap ToSet(items)
<1>1. data \in Seq(Item) /\ EndIf(b) \in Seq(Item) /\ ToSet(data) \subseteq Chunks
  BY SetOfItems, ItemTypes
<1>2. items \in Seq(Item) /\ ToSet(items) = ToSet(data) \cup ToSet(EndIf(b))
  BY <1>1, ConcatProperties, SetOfConcat
<1>3. Ordered(items)
  BY <1>2, OrderedConcat
<1>4. Ordered(data)
  BY <1>1, <1>3, OrderedConcat
<1>5. ToSet(EndIf(b)) \cap Chunks = {}
  <2>1. CASE b
    BY <2>1, SmallSets, BeforeFacts
  <2>2. CASE ~b
    BY <2>2, SmallSets, BeforeFacts
  <2> QED  BY <2>1, <2>2
<1> QED  BY <1>1, <1>2, <1>4, <1>5

\* Go is called with data of the current message.
LEMMA DataGoLeaves ==
    ASSUME TypeOK, CallsInv, NEW d \in Dir, Cur = d, Cur' = d, \A e \in Dir : LeavesInOrder(e),
           NEW p \in Processor, DataList(p) = DataList(ps[d]),
           ps[d].state \notin {"WaitingHeader", "ProcessingHeader", "ProcessingData"},
           NEW data \in Seq(Chunks), NEW b \in BOOLEAN, NEW at, NEW rest,
           DoDataGo(d, p, data, b, at, rest), SeenInOrder',
           UNCHANGED <<out, dropped, closed, hasDestroyed, localReplyWaitingGo>>
    PROVE  \A e \in Dir : LeavesInOrder(e)'
<1> DEFINE new   == Push(ProcessData(p, b), data)
           items == data \o EndIf(b)
<1>1. /\ new \in Processor /\ new.state = "ProcessingData"
      /\ new.held = DataList(ps[d]) /\ new.latest = data
  <2>1. ProcessData(p, b) \in Processor
    BY ProcessTypes
  <2>2. new \in Processor
    BY <2>1, ListTypes
  <2>3. DataList(ProcessData(p, b)) = DataList(p)
    BY DEF ProcessData, DataList, Processor
  <2> QED  BY <2>1, <2>2, <2>3 DEF Push, ProcessData, Processor
<1>2. ps' = [ps EXCEPT ![d] = new] /\ CallGo(d, "data", b, items, at, rest)
  BY DEF DoDataGo
<1> HIDE DEF new, items
<1>3. ps'[d] = new /\ \A e \in Dir : e # d => ps'[e] = ps[e]
  BY <1>2 DEF TypeOK
<1>4. seen'[d] = seen[d] \o items /\ (\A e \in Dir : e # d => seen'[e] = seen[e]) /\ seen[d] \in Seq(Item)
  BY <1>2 DEF CallGo, CallsInv, NeverRefused, TypeOK
<1>5. Ordered(seen[d] \o items) /\ Ordered(seen'[d])
  BY <1>4 DEF SeenInOrder
<1>6. items \in Seq(Item) /\ Ordered(data) /\ ToSet(data) = Chunks \cap ToSet(items)
  BY <1>4, <1>5, ShownData DEF items
<1>7. ASSUME NEW e \in Dir, e # d PROVE LeavesInOrder(e)'
  <2>1. ~FlowsOut(e)'
    BY <1>7 DEF FlowsOut
  <2> QED  BY <1>3, <1>4, <1>7, <2>1, KeepsLeaving
<1>8. LeavesInOrder(d)'
  <2>1. DataList(ps'[d]) = DataList(ps[d]) \o data
    BY <1>1, <1>3 DEF DataList
  <2>2. LeavesInOrder(d) /\ out'[d] = out[d] /\ dropped'[d] = dropped[d] /\ ps'[d] \in Processor
    BY <1>1, <1>3
  <2>3. FlowsOut(d)' => FlowsOut(d)
    BY DEF FlowsOut
  <2>4. ps'[d].state = "ProcessingData" /\ ps'[d].held = DataList(ps[d]) /\ ps[d].state # "ProcessingData"
    BY <1>1, <1>3
  <2> QED  BY <1>4, <1>5, <1>6, <2>1, <2>2, <2>3, <2>4, ShownLeaves, Zenon
<1> QED  BY <1>7, <1>8

\* Go is called with the trailers of the current message.
LEMMA TrailerGoLeaves ==
    ASSUME TypeOK, CallsInv, NEW d \in Dir, Cur = d, Cur' = d, \A e \in Dir : LeavesInOrder(e),
           NEW p \in Processor, DataList(p) = DataList(ps[d]),
           ps[d].state \notin {"WaitingHeader", "ProcessingHeader", "ProcessingData"},
           NEW at, NEW rest, DoTrailerGo(d, p, at, rest), SeenInOrder',
           UNCHANGED <<out, dropped, closed, hasDestroyed, localReplyWaitingGo>>
    PROVE  \A e \in Dir : LeavesInOrder(e)'
<1> DEFINE new   == ProcessTrailer(p)
           items == <<Trl>>
           data  == <<>>
<1>1. /\ new \in Processor /\ new.state = "ProcessingTrailer" /\ DataList(new) = DataList(ps[d])
  BY ProcessTypes DEF ProcessTrailer, DataList, Processor
<1>2. ps' = [ps EXCEPT ![d] = new] /\ CallGo(d, "trailers", TRUE, items, at, rest)
  BY DEF DoTrailerGo
<1>3. /\ items \in Seq(Item) /\ data \in Seq(Chunks) /\ Ordered(data)
      /\ ToSet(data) = Chunks \cap ToSet(items)
  BY ItemTypes, OrderedShort, SmallSets, BeforeFacts
<1>4. DataList(new) = DataList(ps[d]) \o data
  <2>1. DataList(ps[d]) \in Seq(Chunks)
    BY ConcatProperties DEF DataList, TypeOK, Processor
  <2> QED  BY <1>1, <2>1, ConcatEmptySeq
<1> HIDE DEF new, items
<1>5. ps'[d] = new /\ \A e \in Dir : e # d => ps'[e] = ps[e]
  BY <1>2 DEF TypeOK
<1>6. seen'[d] = seen[d] \o items /\ \A e \in Dir : e # d => seen'[e] = seen[e]
  BY <1>2 DEF CallGo, CallsInv, NeverRefused, TypeOK
<1>7. ASSUME NEW e \in Dir, e # d PROVE LeavesInOrder(e)'
  <2>1. ~FlowsOut(e)'
    BY <1>7 DEF FlowsOut
  <2> QED  BY <1>5, <1>6, <1>7, <2>1, KeepsLeaving
<1>8. LeavesInOrder(d)'
  <2>1. /\ LeavesInOrder(d) /\ out'[d] = out[d] /\ dropped'[d] = dropped[d] /\ ps'[d] \in Processor
        /\ DataList(ps'[d]) = DataList(ps[d]) \o data /\ Ordered(seen'[d])
    BY <1>1, <1>4, <1>5 DEF SeenInOrder
  <2>2. FlowsOut(d)' => FlowsOut(d)
    BY DEF FlowsOut
  <2>3. ps'[d].state = "ProcessingTrailer" /\ data = <<>> /\ ps[d].state # "ProcessingData"
    BY <1>1, <1>5
  <2> HIDE DEF data
  <2> QED  BY <1>3, <1>6, <2>1, <2>2, <2>3, ShownLeaves, Zenon
<1> QED  BY <1>7, <1>8

\* Go is not called.
LEMMA KeepingLeaves ==
    ASSUME TypeOK, NEW d \in Dir, \A e \in Dir : LeavesInOrder(e),
           NEW q, ps' = [ps EXCEPT ![d] = q],
           q.held = ps[d].held, q.latest = ps[d].latest, q.state = ps[d].state,
           UNCHANGED <<seen, out, dropped>>, \A e \in Dir : FlowsOut(e)' => FlowsOut(e)
    PROVE  \A e \in Dir : LeavesInOrder(e)'
<1>1. ps'[d] = q /\ \A e \in Dir : e # d => ps'[e] = ps[e]
  BY DEF TypeOK
<1>2. ASSUME NEW e \in Dir PROVE LeavesInOrder(e)'
  <2>1. ps'[e].held = ps[e].held /\ ps'[e].latest = ps[e].latest /\ ps'[e].state = ps[e].state
    BY <1>1
  <2> QED  BY <2>1, KeepsLeaving
<1> QED  BY <1>2

\* Data of the current message comes in.
LEMMA DoDataLeaves ==
    ASSUME Calm, SerialInv, EndInv, ShowInv, Leaving, SeenInOrder', NEW d \in Dir, NEW data \in Seq(Chunks),
           NEW endStream \in BOOLEAN,
           dynamicLib, Cur = d, fed[d] # <<>>, ~Ended(fed[d]), ~closed, ~localReplyWaitingGo,
           data = <<>> \/ (Len(data) = 1 /\ (Len(fed[d]) <= MaxChunks \/ fed[d] = <<Hdr>>)),
           Feed(d, data \o EndIf(endStream)),
           DoData(d, data, endStream, <<>>),
           UNCHANGED <<filterVars, posted, out, dropped>>
    PROVE  Leaving'
<1> DEFINE p == [ps[d] EXCEPT !.endStream = endStream]
           q == AddBufferData(p, data, Limit)
<1>0. /\ TypeOK /\ CallsInv /\ ps[d] \in Processor
      /\ ps[d].state \notin {"Done", "WaitingTrailer", "ProcessingTrailer"}
      /\ \A e \in Dir : LeavesInOrder(e)
  BY StillComing DEF SerialInv, TypeOK, Leaving
<1>1. /\ p \in Processor /\ p.state = ps[d].state /\ DataList(p) = DataList(ps[d])
      /\ p.held = ps[d].held /\ p.latest = ps[d].latest
  BY <1>0 DEF Processor, DataList
<1>2. /\ q \in Processor /\ q.state = ps[d].state /\ q.held = ps[d].held /\ q.latest = ps[d].latest
      /\ TakeBuffer(q) \in Processor /\ DataList(TakeBuffer(q)) = DataList(ps[d])
      /\ q.dataBuffer \in Seq(Chunks)
  <2>1. q \in Processor
    BY <1>1, AddBufferDataType
  <2>2. q.state = p.state /\ q.held = p.held /\ q.latest = p.latest
    BY <1>1 DEF AddBufferData, Processor
  <2> HIDE DEF q
  <2>3. TakeBuffer(q) \in Processor /\ DataList(TakeBuffer(q)) = q.held \o q.latest /\ q.dataBuffer \in Seq(Chunks)
    BY <2>1, ListTypes DEF TakeBuffer, DataList, Processor
  <2> QED  BY <1>1, <2>1, <2>2, <2>3 DEF DataList
<1>3. ~Overflows(p, data, Limit)
  BY BufferGrows
<1>4. \/ /\ p.state \in {"WaitingData", "WaitingAllData"}
         /\ DoDataGo(d, p, data, endStream, "doData", <<>>)
      \/ /\ p.state = "WaitingAllData"
         /\ DoDataGo(d, TakeBuffer(q), q.dataBuffer, TRUE, "doData", <<>>)
      \/ /\ UNCHANGED seen /\ stack' = <<>>
         /\ \E n \in {p, q} : ps' = [ps EXCEPT ![d] = n]
  BY <1>3 DEF DoData, goVars
<1>5. UNCHANGED <<closed, localReplyWaitingGo, hasDestroyed, enterEncoding, out, dropped>> /\ Cur' = Cur
  BY <1>3 DEF DoData, filterVars, lifeVars, replyVars, Cur
<1>6. /\ \A e \in Dir : LeavesInOrder(e)'
      /\ stack' = <<>> \/ stack' = <<At("doData", d)>> \o <<>>
  <2> HIDE DEF p, q
  <2>1. CASE /\ p.state \in {"WaitingData", "WaitingAllData"}
             /\ DoDataGo(d, p, data, endStream, "doData", <<>>)
    <3>1. stack' = <<At("doData", d)>> \o <<>>
      BY <2>1 DEF DoDataGo, CallGo
    <3> QED  BY <1>0, <1>1, <1>5, <2>1, <3>1, DataGoLeaves
  <2>2. CASE /\ p.state = "WaitingAllData"
             /\ DoDataGo(d, TakeBuffer(q), q.dataBuffer, TRUE, "doData", <<>>)
    <3>1. stack' = <<At("doData", d)>> \o <<>>
      BY <2>2 DEF DoDataGo, CallGo
    <3> QED  BY <1>0, <1>1, <1>2, <1>5, <2>2, <3>1, DataGoLeaves
  <2>3. CASE /\ UNCHANGED seen /\ stack' = <<>>
             /\ \E n \in {p, q} : ps' = [ps EXCEPT ![d] = n]
    <3>1. PICK n \in {p, q} : ps' = [ps EXCEPT ![d] = n]
      BY <2>3
    <3>2. n.held = ps[d].held /\ n.latest = ps[d].latest /\ n.state = ps[d].state
      BY <1>1, <1>2
    <3>3. \A e \in Dir : FlowsOut(e)' => FlowsOut(e)
      BY <1>0, <1>5, <3>1, <3>2 DEF FlowsOut, TypeOK
    <3> QED  BY <1>0, <1>5, <2>3, <3>1, <3>2, <3>3, KeepingLeaves
  <2> QED  BY <1>4, <2>1, <2>2, <2>3
<1>7. stack' = <<>> \/ Head(stack').at \notin {"forwardedTrailerData", "doTrailerData"}
  <2>1. Head(<<At("doData", d)>> \o <<>>).at = "doData"
    BY DEF At
  <2> QED  BY <1>6, <2>1
<1> QED  BY <1>6, <1>7, OtherPlaces DEF Leaving

\* The trailers of the current message come in.
LEMMA DoTrailerLeaves ==
    ASSUME SerialInv, EndInv, ShowInv, Leaving, SeenInOrder', NEW d \in WithTrailers, dynamicLib, Cur = d,
           NothingOvertaken,
           stack = <<>>, fed[d] # <<>>, ~Ended(fed[d]), ~closed, DoTrailer(d)
    PROVE  Leaving'
<1> DEFINE p == [ps[d] EXCEPT !.seenTrailers = TRUE]
<1>0. /\ TypeOK /\ CallsInv /\ d \in Dir /\ ps[d] \in Processor /\ SeeTrailers(d)[d] = p
      /\ \A e \in Dir : LeavesInOrder(e)
  <2>1. d \in Dir /\ TypeOK
    BY EnvironmentAssumption DEF SerialInv
  <2> QED  BY <2>1 DEF TypeOK, SeeTrailers, SerialInv, Leaving
<1>1. ps[d].state \notin {"Done", "WaitingTrailer", "ProcessingTrailer"}
  BY <1>0, StillComing
<1>2. /\ p \in Processor /\ p.state = ps[d].state /\ DataList(p) = DataList(ps[d])
      /\ p.held = ps[d].held /\ p.latest = ps[d].latest
      /\ TakeBuffer(p) \in Processor /\ DataList(TakeBuffer(p)) = DataList(ps[d])
      /\ p.dataBuffer \in Seq(Chunks)
  <2>1. p \in Processor /\ p.state = ps[d].state /\ p.held = ps[d].held /\ p.latest = ps[d].latest
    BY <1>0 DEF Processor
  <2> HIDE DEF p
  <2>2. TakeBuffer(p) \in Processor /\ DataList(TakeBuffer(p)) = p.held \o p.latest /\ p.dataBuffer \in Seq(Chunks)
    BY <2>1, ListTypes DEF TakeBuffer, DataList, Processor
  <2> QED  BY <2>1, <2>2 DEF DataList
<1>3. \/ p.state = "WaitingData" /\ DoTrailerGo(d, p, "doTrailer", <<>>)
      \/ /\ p.state = "WaitingAllData"
         /\ DoDataGo(d, TakeBuffer(p), p.dataBuffer, FALSE, "doTrailerData", <<>>)
      \/ ps' = [ps EXCEPT ![d] = p] /\ UNCHANGED <<seen, stack>>
  BY <1>0, <1>1, <1>2 DEF DoTrailer
<1>4. UNCHANGED <<closed, localReplyWaitingGo, hasDestroyed, enterEncoding, out, dropped>> /\ Cur' = Cur
  BY DEF DoTrailer, lifeVars, replyVars, Cur
<1> HIDE DEF p
<1>5. CASE p.state = "WaitingData" /\ DoTrailerGo(d, p, "doTrailer", <<>>)
  <2>1. stack' = <<At("doTrailer", d)>> \o <<>>
    BY <1>5 DEF DoTrailerGo, CallGo
  <2>2. Head(<<At("doTrailer", d)>> \o <<>>).at = "doTrailer"
    BY DEF At
  <2>3. \A e \in Dir : LeavesInOrder(e)'
    BY <1>0, <1>2, <1>4, <1>5, TrailerGoLeaves
  <2> QED  BY <2>1, <2>2, <2>3, OtherPlaces DEF Leaving
<1>6. CASE /\ p.state = "WaitingAllData"
           /\ DoDataGo(d, TakeBuffer(p), p.dataBuffer, FALSE, "doTrailerData", <<>>)
  <2>1. stack' = <<At("doTrailerData", d)>> \o <<>>
    BY <1>6 DEF DoDataGo, CallGo
  <2>2. Head(<<At("doTrailerData", d)>> \o <<>>).at = "doTrailerData"
    BY DEF At
  <2>3. \A e \in Dir : LeavesInOrder(e)'
    BY <1>0, <1>2, <1>4, <1>6, DataGoLeaves
  <2>4. ~KeepsNothing
    <3>1. "StopAndBuffer" \in Answers
      BY <1>0, <1>2, <1>6 DEF SerialInv, FlowInv, BufferFits
    <3> QED  BY <3>1 DEF KeepsNothing
  <2>5. NoTrailerData' /\ TrailersFollow'
    BY <2>1, <2>2, <2>4 DEF NoTrailerData, TrailersFollow, KeepsNothing
  <2> QED  BY <2>3, <2>5 DEF Leaving
<1>7. CASE ps' = [ps EXCEPT ![d] = p] /\ UNCHANGED <<seen, stack>>
  <2>1. \A e \in Dir : FlowsOut(e)' => FlowsOut(e)
    BY <1>0, <1>2, <1>4, <1>7 DEF FlowsOut, TypeOK
  <2>2. \A e \in Dir : LeavesInOrder(e)'
    BY <1>0, <1>2, <1>4, <1>7, <2>1, KeepingLeaves
  <2> QED  BY <1>7, <2>2, OtherPlaces DEF Leaving
<1> QED  BY <1>3, <1>5, <1>6, <1>7

\* The worker goes on with the trailers once the data was looked after.
LEMMA TrailerAfterDataLeaves ==
    ASSUME SerialInv, EndInv, Leaving, SeenInOrder', TrailerAfterData
    PROVE  Leaving'
<1>1. /\ stack # <<>> /\ Head(stack).at = "trailerAfterData"
      /\ DoTrailerGo(Head(stack).dir, ps[Head(stack).dir], "doTrailer", Tail(stack))
      /\ UNCHANGED <<out, dropped, closed, hasDestroyed, localReplyWaitingGo, enterEncoding>>
  BY DEF TrailerAfterData, filterVars, lifeVars, replyVars, streamVars
<1>2. /\ Head(stack).dir = Cur /\ ps[Cur].state = "WaitingTrailer" /\ Tail(stack) = <<>>
      /\ Cur \in Dir /\ ps[Cur] \in Processor
  BY <1>1, FilterFrameEnd
<1>3. PICK d \in Dir : d = Cur
  BY <1>2
<1>4. DoTrailerGo(d, ps[d], "doTrailer", <<>>) /\ Cur' = d
  BY <1>1, <1>2, <1>3 DEF Cur
<1>5. stack' = <<At("doTrailer", d)>> \o <<>>
  BY <1>4 DEF DoTrailerGo, CallGo
<1>6. Head(<<At("doTrailer", d)>> \o <<>>).at = "doTrailer"
  BY DEF At
<1>7. \A e \in Dir : LeavesInOrder(e)'
  BY <1>1, <1>2, <1>3, <1>4, TrailerGoLeaves DEF Leaving, SerialInv
<1> QED  BY <1>5, <1>6, <1>7, OtherPlaces DEF Leaving

LEMMA ResumeTrailerLeaves ==
    ASSUME SerialInv, EndInv, Leaving, SeenInOrder', ResumeTrailer
    PROVE  Leaving'
<1>1. /\ stack # <<>> /\ Head(stack).at \in {"checkTrailer", "forwardedData"}
      /\ UNCHANGED <<out, dropped, closed, hasDestroyed, localReplyWaitingGo, enterEncoding>>
  BY DEF ResumeTrailer, filterVars, lifeVars, replyVars, streamVars
<1>2. Head(stack).at \in Forwarding \cup {"checkData", "checkTrailer", "trailerAfterData"}
  BY <1>1 DEF Forwarding
<1>3. Head(stack).dir = Cur /\ Cur \in Dir /\ Tail(stack) = <<>> /\ ps[Cur] \in Processor
  BY <1>1, <1>2, FilterFrameEnd
<1>4. PICK d \in Dir : d = Cur
  BY <1>3
<1>5. Cur' = d /\ TypeOK /\ CallsInv /\ \A e \in Dir : LeavesInOrder(e)
  BY <1>1, <1>4 DEF Cur, SerialInv, Leaving
<1>6. CASE ps[d].state = "WaitingTrailer" /\ DoTrailerGo(d, ps[d], "resumeTrailer", <<>>)
  <2>1. stack' = <<At("resumeTrailer", d)>> \o <<>>
    BY <1>6 DEF DoTrailerGo, CallGo
  <2>2. Head(<<At("resumeTrailer", d)>> \o <<>>).at = "resumeTrailer"
    BY DEF At
  <2>3. \A e \in Dir : LeavesInOrder(e)'
    BY <1>1, <1>3, <1>4, <1>5, <1>6, TrailerGoLeaves
  <2> QED  BY <2>1, <2>2, <2>3, OtherPlaces DEF Leaving
<1>7. CASE stack' = <<>> /\ UNCHANGED <<ps, goVars, crashed>>
  <2>1. ASSUME NEW e \in Dir PROVE LeavesInOrder(e)'
    <3>1. LeavesInOrder(e) /\ (FlowsOut(e)' => FlowsOut(e)) /\ UNCHANGED seen
      BY <1>1, <1>4, <1>5, <1>7 DEF FlowsOut, goVars
    <3> QED  BY <1>1, <1>7, <3>1, KeepsLeaving
  <2> QED  BY <1>7, <2>1, OtherPlaces DEF Leaving
<1> QED  BY <1>3, <1>4, <1>6, <1>7 DEF ResumeTrailer, Return

LEMMA ResumeDataLeaves ==
    ASSUME SerialInv, EndInv, Leaving, SeenInOrder', ResumeData
    PROVE  Leaving'
<1>1. /\ stack # <<>> /\ Head(stack).at \in {"checkData", "forwarded"}
      /\ UNCHANGED <<out, dropped, closed, hasDestroyed, localReplyWaitingGo, enterEncoding>>
  BY DEF ResumeData, filterVars, lifeVars, replyVars, streamVars
<1>2. Head(stack).at \in Forwarding \cup {"checkData", "checkTrailer", "trailerAfterData"}
  BY <1>1 DEF Forwarding
<1>3. Head(stack).dir = Cur /\ Cur \in Dir /\ Tail(stack) = <<>> /\ ps[Cur] \in Processor
  BY <1>1, <1>2, FilterFrameEnd
<1>4. PICK d \in Dir : d = Cur
  BY <1>3
<1>5. Cur' = d /\ TypeOK /\ CallsInv /\ \A e \in Dir : LeavesInOrder(e)
  BY <1>1, <1>4 DEF Cur, SerialInv, Leaving
<1>6. CASE /\ MoreData(ps[d])
           /\ DoDataGo(d, TakeBuffer(ps[d]), ps[d].dataBuffer, ps[d].endStream, "resumeData", <<>>)
  <2>1. stack' = <<At("resumeData", d)>> \o <<>>
    BY <1>6 DEF DoDataGo, CallGo
  <2>2. Head(<<At("resumeData", d)>> \o <<>>).at = "resumeData"
    BY DEF At
  <2>3. /\ TakeBuffer(ps[d]) \in Processor /\ DataList(TakeBuffer(ps[d])) = DataList(ps[d])
        /\ ps[d].dataBuffer \in Seq(Chunks) /\ ps[d].endStream \in BOOLEAN
    BY <1>3, <1>4, ListTypes DEF TakeBuffer, DataList, Processor
  <2>4. ps[d].state \in {"WaitingData", "WaitingAllData"}
    BY <1>6 DEF MoreData
  <2>5. \A e \in Dir : LeavesInOrder(e)'
    BY <1>1, <1>4, <1>5, <1>6, <2>3, <2>4, DataGoLeaves
  <2> QED  BY <2>1, <2>2, <2>5, OtherPlaces DEF Leaving
<1>7. CASE UNCHANGED <<ps, goVars>> /\ (UNCHANGED stack \/ stack' = <<At("checkTrailer", d)>> \o <<>>)
  <2>1. ASSUME NEW e \in Dir PROVE LeavesInOrder(e)'
    <3>1. LeavesInOrder(e) /\ (FlowsOut(e)' => FlowsOut(e)) /\ UNCHANGED seen
      BY <1>1, <1>4, <1>5, <1>7 DEF FlowsOut, goVars
    <3> QED  BY <1>1, <1>7, <3>1, KeepsLeaving
  <2>2. Head(<<At("checkTrailer", d)>> \o <<>>).at = "checkTrailer"
    BY DEF At
  <2> QED  BY <1>1, <1>7, <2>1, <2>2, OtherPlaces DEF Leaving
<1> QED  BY <1>3, <1>4, <1>6, <1>7 DEF ResumeData

\* Go is called with the headers of a message: the first it is shown of it.
LEMMA HeadersGoLeaves ==
    ASSUME TypeOK, CallsInv, NEW d \in Dir, Cur' = d, \A e \in Dir : LeavesInOrder(e), seen[d] = <<>>,
           NEW procs \in [Dir -> Processor], NEW b \in BOOLEAN, NEW at, NEW rest,
           DoHeadersGo(d, procs, b, at, rest), UNCHANGED <<out, dropped>>,
           \A e \in Dir : /\ procs[e].state = ps[e].state
                          /\ \/ procs[e].held = ps[e].held /\ procs[e].latest = ps[e].latest
                             \/ procs[e].held = <<>> /\ procs[e].latest = <<>>
    PROVE  \A e \in Dir : LeavesInOrder(e)'
<1>1. /\ ps' = [procs EXCEPT ![d] = ProcessHeader(@, b)]
      /\ CallGo(d, "headers", b, <<Hdr>> \o EndIf(b), at, rest)
  BY DEF DoHeadersGo
<1>2. /\ ps'[d] = ProcessHeader(procs[d], b) /\ \A e \in Dir : e # d => ps'[e] = procs[e]
      /\ <<>> \o <<>> = <<>>
  BY <1>1
<1>3. /\ ps'[d].state = "ProcessingHeader"
      /\ \/ ps'[d].held = ps[d].held /\ ps'[d].latest = ps[d].latest
         \/ ps'[d].held = <<>> /\ ps'[d].latest = <<>>
  BY <1>2 DEF ProcessHeader, Processor
<1>4. seen'[d] = <<Hdr>> \o EndIf(b) /\ \A e \in Dir : e # d => seen'[e] = seen[e]
  <2> DEFINE items == <<Hdr>> \o EndIf(b)
  <2>1. items \in Seq(Item)
    BY HeaderItems
  <2> HIDE DEF items
  <2>2. seen'[d] = seen[d] \o items /\ \A e \in Dir : e # d => seen'[e] = seen[e]
    BY <1>1 DEF CallGo, CallsInv, NeverRefused, TypeOK, items
  <2>3. <<>> \o items = items
    BY <2>1, ConcatEmptySeq
  <2> QED  BY <2>2, <2>3 DEF items
<1>5. LeavesInOrder(d)'
  <2>1. DataList(ps'[d]) \in {<<>>, DataList(ps[d])}
    BY <1>2, <1>3 DEF DataList
  <2> QED  BY <1>3, <1>4, <2>1, FirstLeaves
<1>6. ASSUME NEW e \in Dir, e # d PROVE LeavesInOrder(e)'
  <2>1. ~FlowsOut(e)'
    BY <1>6 DEF FlowsOut
  <2>2. ps'[e] = procs[e] /\ LeavesInOrder(e) /\ seen'[e] = seen[e] /\ out'[e] = out[e] /\ dropped'[e] = dropped[e]
    BY <1>2, <1>4, <1>6
  <2>3. CASE procs[e].held = ps[e].held /\ procs[e].latest = ps[e].latest
    BY <2>1, <2>2, <2>3, KeepsLeaving
  <2>4. CASE procs[e].held = <<>> /\ procs[e].latest = <<>>
    <3>1. DataList(ps'[e]) = <<>>
      BY <1>2, <2>2, <2>4 DEF DataList
    <3> QED  BY <2>1, <2>2, <3>1, GivenUpLeaves
  <2> QED  BY <2>3, <2>4
<1> QED  BY <1>5, <1>6

\* A request or a response begins.
LEMMA DecodeHeadersLeaves ==
    ASSUME SerialInv, EndInv, ShowInv, Leaving, dynamicLib, NEW endStream \in BOOLEAN,
           DecodeHeaders(endStream)
    PROVE  Leaving'
<1> DEFINE procs == SetEndStream("decode", endStream)
<1>1. /\ CanFeed("decode") /\ fed["decode"] = <<>>
      /\ DoHeadersGo("decode", procs, endStream, "doHeaders", stack)
      /\ UNCHANGED <<replyVars, out, dropped>>
  BY DEF DecodeHeaders, Bypass
<1>2. /\ Cur' = "decode" /\ stack = <<>> /\ TypeOK /\ CallsInv /\ "decode" \in Dir
      /\ seen["decode"] = <<>> /\ \A e \in Dir : LeavesInOrder(e)
  BY <1>1, RequestIsCurrent, NotStarted DEF replyVars, Cur, SerialInv, Dir, Leaving
<1>3. /\ procs \in [Dir -> Processor]
      /\ \A e \in Dir : /\ procs[e].state = ps[e].state
                        /\ procs[e].held = ps[e].held /\ procs[e].latest = ps[e].latest
  BY <1>2 DEF SetEndStream, TypeOK, Processor
<1> HIDE DEF procs
<1>4. \A e \in Dir : LeavesInOrder(e)'
  BY <1>1, <1>2, <1>3, HeadersGoLeaves
<1>5. stack' = <<At("doHeaders", "decode")>> \o <<>>
  BY <1>1, <1>2 DEF DoHeadersGo, CallGo
<1>6. Head(<<At("doHeaders", "decode")>> \o <<>>).at = "doHeaders"
  BY DEF At
<1> QED  BY <1>4, <1>5, <1>6, OtherPlaces DEF Leaving

\* The headers of a response come in, while the request may be in Go.
LEMMA EncodeHeadersLeaves ==
    ASSUME SerialInv, EndInv, ShowInv, Leaving, dynamicLib, NEW endStream \in BOOLEAN,
           NEW rest \in {<<>>, <<ReplyBody>>},
           fed["encode"] = <<>>, EncodeHeaders(endStream, rest)
    PROVE  Leaving'
<1> DEFINE procs == SetEndStream("encode", endStream)
<1>0. /\ "decode" \in Dir /\ "encode" \in Dir /\ TypeOK /\ CallsInv /\ seen["encode"] = <<>>
      /\ \A e \in Dir : LeavesInOrder(e)
  BY NotStarted DEF SerialInv, Dir, Leaving
<1>1. Cur = "decode"
  BY DEF SerialInv, FlowInv, StreamOrder, Cur
<1>2. /\ procs \in [Dir -> Processor]
      /\ \A e \in Dir : /\ procs[e].state = ps[e].state
                        /\ procs[e].held = ps[e].held /\ procs[e].latest = ps[e].latest
  BY <1>0 DEF SetEndStream, TypeOK, Processor
<1>3. UNCHANGED <<out, dropped>>
  BY DEF EncodeHeaders, Bypass
<1>4. rest = <<>> \/ (rest # <<>> /\ Head(rest).at = "replyBody")
  BY DEF ReplyBody, At
<1>5. \/ /\ ps' = [procs EXCEPT !["decode"] = TakeBuffer(@)]
         /\ localReplyWaitingGo' = TRUE
         /\ stack' = rest
         /\ UNCHANGED seen
      \/ /\ enterEncoding' = TRUE
         /\ \/ DoHeadersGo("encode", procs, endStream, "doHeaders", rest)
            \/ DoHeadersGo("encode", [procs EXCEPT !["decode"] = ClearAll(TakeBuffer(@))],
                           endStream, "doHeaders", rest)
  BY <1>1 DEF EncodeHeaders, Bypass, goVars
<1> HIDE DEF procs
<1>6. CASE /\ ps' = [procs EXCEPT !["decode"] = TakeBuffer(@)]
           /\ localReplyWaitingGo' = TRUE
           /\ stack' = rest
           /\ UNCHANGED seen
  <2>1. ASSUME NEW e \in Dir PROVE LeavesInOrder(e)'
    <3>1. /\ ps'[e].state = procs[e].state
          /\ ps'[e].held = procs[e].held /\ ps'[e].latest = procs[e].latest
      <4>1. CASE e = "decode"
        BY <1>2, <1>6, <4>1 DEF TakeBuffer, Processor
      <4>2. CASE e # "decode"
        BY <1>2, <1>6, <4>2
      <4> QED  BY <4>1, <4>2
    <3>2. ~FlowsOut(e)'
      BY <1>6 DEF FlowsOut
    <3> QED  BY <1>0, <1>2, <1>3, <1>6, <3>1, <3>2, KeepsLeaving
  <2> QED  BY <1>4, <1>6, <2>1, OtherPlaces DEF Leaving
<1>7. ASSUME enterEncoding' = TRUE, NEW given \in [Dir -> Processor],
             DoHeadersGo("encode", given, endStream, "doHeaders", rest),
             \A e \in Dir : /\ given[e].state = ps[e].state
                            /\ \/ given[e].held = ps[e].held /\ given[e].latest = ps[e].latest
                               \/ given[e].held = <<>> /\ given[e].latest = <<>>
      PROVE  Leaving'
  <2>1. Cur' = "encode"
    BY <1>7 DEF Cur
  <2>2. \A e \in Dir : LeavesInOrder(e)'
    BY <1>0, <1>3, <1>7, <2>1, HeadersGoLeaves
  <2>3. stack' = <<At("doHeaders", "encode")>> \o rest
    BY <1>7 DEF DoHeadersGo, CallGo
  <2>4. Head(<<At("doHeaders", "encode")>> \o rest).at = "doHeaders"
    BY DEF At
  <2> QED  BY <2>2, <2>3, <2>4, OtherPlaces DEF Leaving
<1>8. CASE enterEncoding' = TRUE /\ DoHeadersGo("encode", procs, endStream, "doHeaders", rest)
  BY <1>2, <1>7, <1>8
<1>9. CASE /\ enterEncoding' = TRUE
           /\ DoHeadersGo("encode", [procs EXCEPT !["decode"] = ClearAll(TakeBuffer(@))],
                          endStream, "doHeaders", rest)
  <2> DEFINE pd == ClearAll(TakeBuffer(procs["decode"]))
             given == [procs EXCEPT !["decode"] = pd]
  <2>1. procs["decode"] \in Processor
    BY <1>0, <1>2
  <2>2. /\ pd \in Processor /\ pd.state = procs["decode"].state /\ pd.held = <<>> /\ pd.latest = <<>>
    <3>1. TakeBuffer(procs["decode"]) \in Processor
      BY <2>1, ListTypes
    <3>2. pd \in Processor
      BY <3>1, ListTypes
    <3> QED  BY <2>1, <3>2 DEF ClearAll, TakeBuffer, Processor
  <2>3. DoHeadersGo("encode", given, endStream, "doHeaders", rest)
    BY <1>9
  <2> HIDE DEF pd
  <2>4. /\ given \in [Dir -> Processor] /\ given["decode"] = pd
        /\ \A e \in Dir : e # "decode" => given[e] = procs[e]
    BY <1>0, <1>2, <2>2
  <2> HIDE DEF given
  <2>5. \A e \in Dir : /\ given[e].state = ps[e].state
                       /\ \/ given[e].held = ps[e].held /\ given[e].latest = ps[e].latest
                          \/ given[e].held = <<>> /\ given[e].latest = <<>>
    BY <1>0, <1>2, <2>2, <2>4
  <2> QED  BY <1>7, <1>9, <2>3, <2>4, <2>5
<1> QED  BY <1>5, <1>6, <1>8, <1>9

\* The reply that had to wait enters Go.
LEMMA ContinueEncodeLocalReplyLeaves ==
    ASSUME SerialInv, EndInv, ShowInv, Leaving, ContinueEncodeLocalReply
    PROVE  Leaving'
<1> DEFINE procs == [ps EXCEPT !["decode"] = ClearAll(@)]
<1>1. /\ NextEvent({"continue", "reply"}) /\ localReplyWaitingGo /\ enterEncoding' = TRUE
      /\ UNCHANGED <<out, dropped>>
  BY DEF ContinueEncodeLocalReply, streamVars
<1>2. dynamicLib /\ ~enterEncoding
  BY <1>1, TakenEvent DEF NextEvent, SerialInv, FlowInv, ReplyWaitsForRequest
<1>3. /\ Cur = "decode" /\ Cur' = "encode" /\ "decode" \in Dir /\ "encode" \in Dir /\ TypeOK /\ CallsInv
      /\ seen["encode"] = <<>> /\ \A e \in Dir : LeavesInOrder(e)
  BY <1>1, <1>2 DEF Cur, Dir, SerialInv, ShowInv, ResponseUntouched, Leaving
<1>4. PICK b \in BOOLEAN : DoHeadersGo("encode", procs, b, "localReplyHeaders", <<>>)
  <2> DEFINE enc == ps["encode"]
  <2>1. PICK b \in BOOLEAN : b = (enc.endStream /\ ~localTrailers /\ enc.dataBuffer = <<>>)
    OBVIOUS
  <2> QED  BY <1>3, <2>1 DEF ContinueEncodeLocalReply
<1>5. procs \in [Dir -> Processor]
  <2>1. ClearAll(ps["decode"]) \in Processor
    BY <1>3, ListTypes DEF TypeOK
  <2> QED  BY <1>3, <2>1 DEF TypeOK
<1>6. \A e \in Dir : /\ procs[e].state = ps[e].state
                     /\ \/ procs[e].held = ps[e].held /\ procs[e].latest = ps[e].latest
                        \/ procs[e].held = <<>> /\ procs[e].latest = <<>>
  BY <1>3 DEF ClearAll, TypeOK, Processor
<1>7. stack' = <<At("localReplyHeaders", "encode")>> \o <<>>
  BY <1>4 DEF DoHeadersGo, CallGo
<1>8. Head(<<At("localReplyHeaders", "encode")>> \o <<>>).at = "localReplyHeaders"
  BY DEF At
<1> HIDE DEF procs
<1>9. \A e \in Dir : LeavesInOrder(e)'
  BY <1>1, <1>3, <1>4, <1>5, <1>6, HeadersGoLeaves
<1> QED  BY <1>7, <1>8, <1>9, OtherPlaces DEF Leaving

\* A response goes on.
LEMMA EncodeDataLeaves ==
    ASSUME Calm, SerialInv, EndInv, ShowInv, Leaving, SeenInOrder', dynamicLib, NEW data \in Seq(Chunks),
           NEW endStream \in BOOLEAN,
           data = <<>> \/ (Len(data) = 1 /\ (Len(fed["encode"]) <= MaxChunks \/ fed["encode"] = <<Hdr>>)),
           fed["encode"] # <<>>, ~Ended(fed["encode"]), ~closed, EncodeData(data, endStream, <<>>)
    PROVE  Leaving'
<1>1. "encode" \in Dir /\ Feed("encode", data \o EndIf(endStream)) /\ \A e \in Dir : LeavesInOrder(e)
  BY DEF EncodeData, Dir, Leaving
<1>2. CASE /\ localReplyWaitingGo
           /\ ps' = [ps EXCEPT !["encode"] =
                       AddBufferData([@ EXCEPT !.endStream = endStream], data, Limit)]
           /\ stack' = <<>>
           /\ UNCHANGED <<localReplyWaitingGo, seen, out, dropped>>
  <2> DEFINE p == [ps["encode"] EXCEPT !.endStream = endStream]
             q == AddBufferData(p, data, Limit)
  <2>1. TypeOK /\ ps["encode"] \in Processor
    BY <1>1 DEF SerialInv, TypeOK
  <2>2. q.held = ps["encode"].held /\ q.latest = ps["encode"].latest /\ q.state = ps["encode"].state
    BY <2>1 DEF AddBufferData, Processor
  <2>3. ps' = [ps EXCEPT !["encode"] = q]
    BY <1>2
  <2> HIDE DEF q
  <2>4. \A e \in Dir : FlowsOut(e)' => FlowsOut(e)
    BY <1>2 DEF FlowsOut
  <2>5. \A e \in Dir : LeavesInOrder(e)'
    BY <1>1, <1>2, <2>1, <2>2, <2>3, <2>4, KeepingLeaves
  <2> QED  BY <1>2, <2>5, OtherPlaces DEF Leaving
<1>3. CASE /\ ~localReplyWaitingGo
           /\ DoData("encode", data, endStream, <<>>)
           /\ UNCHANGED <<filterVars, posted, out, dropped>>
  <2>1. Cur = "encode"
    BY <1>3 DEF SerialInv, FlowInv, StreamOrder, Cur
  <2> QED  BY <1>1, <1>3, <2>1, DoDataLeaves, Zenon
<1> QED  BY <1>2, <1>3 DEF EncodeData, Bypass, filterVars, replyVars, goVars

LEMMA EncodeTrailersLeaves ==
    ASSUME SerialInv, EndInv, ShowInv, Leaving, SeenInOrder', NothingOvertaken, dynamicLib, EncodeTrailers
    PROVE  Leaving'
<1>1. /\ CanFeed("encode") /\ fed["encode"] # <<>> /\ "encode" \in WithTrailers /\ "encode" \in Dir
      /\ ~Ended(fed["encode"]) /\ \A e \in Dir : LeavesInOrder(e)
  BY DEF EncodeTrailers, CanFeed, Dir, Leaving
<1>2. stack = <<>> /\ ~closed /\ (~localReplyWaitingGo => Cur = "encode")
  BY <1>1, ResponseIsCurrent
<1>3. CASE /\ localReplyWaitingGo
           /\ ps' = SeeTrailers("encode")
           /\ UNCHANGED <<localReplyWaitingGo, seen, out, dropped, stack>>
  <2> DEFINE p == [ps["encode"] EXCEPT !.seenTrailers = TRUE]
  <2>1. TypeOK /\ ps["encode"] \in Processor
    BY <1>1 DEF SerialInv, TypeOK
  <2>2. /\ p.held = ps["encode"].held /\ p.latest = ps["encode"].latest /\ p.state = ps["encode"].state
        /\ ps' = [ps EXCEPT !["encode"] = p]
    BY <1>3, <2>1 DEF SeeTrailers, Processor
  <2> HIDE DEF p
  <2>3. \A e \in Dir : FlowsOut(e)' => FlowsOut(e)
    BY <1>3 DEF FlowsOut
  <2>4. \A e \in Dir : LeavesInOrder(e)'
    BY <1>1, <1>3, <2>1, <2>2, <2>3, KeepingLeaves
  <2> QED  BY <1>2, <1>3, <2>4, OtherPlaces DEF Leaving
<1>4. CASE ~localReplyWaitingGo /\ DoTrailer("encode")
  BY <1>1, <1>2, <1>4, DoTrailerLeaves
<1> QED  BY <1>3, <1>4 DEF EncodeTrailers, Bypass, goVars

\* A piece of a message comes in.
LEMMA ReceiveLeaves ==
    ASSUME Calm, SerialInv, EndInv, ShowInv, Leaving, SeenInOrder', NothingOvertaken, dynamicLib, Receive
    PROVE  Leaving'
<1>1. ASSUME NEW endStream \in BOOLEAN, NEW data \in DataFrames("decode"), DecodeData(data, endStream)
      PROVE  Leaving'
  <2>1. /\ CanFeed("decode") /\ fed["decode"] # <<>> /\ Feed("decode", data \o EndIf(endStream))
        /\ "decode" \in Dir /\ ~Ended(fed["decode"])
        /\ DoData("decode", data, endStream, stack)
        /\ UNCHANGED <<filterVars, posted, out, dropped>>
    BY <1>1 DEF DecodeData, Bypass, CanFeed, Dir
  <2>2. /\ data \in Seq(Chunks)
        /\ data = <<>> \/ (Len(data) = 1 /\ Len(fed["decode"]) <= MaxChunks)
    BY <1>1, <2>1, DataFrame DEF SerialInv, DecodeData
  <2>3. Cur = "decode" /\ stack = <<>> /\ ~closed /\ ~localReplyWaitingGo
    BY <2>1, RequestIsCurrent
  <2>4. DoData("decode", data, endStream, <<>>)
    BY <2>1, <2>3
  <2> QED  BY <2>1, <2>2, <2>3, <2>4, DoDataLeaves, Zenon
<1>2. ASSUME NEW endStream \in BOOLEAN, ResponseHeaders(endStream)
      PROVE  Leaving'
  <2>1. fed["encode"] = <<>> /\ EncodeHeaders(endStream, <<>>)
    BY <1>2 DEF ResponseHeaders, CanFeed
  <2> QED  BY <2>1, EncodeHeadersLeaves
<1>3. ASSUME NEW endStream \in BOOLEAN, NEW data \in DataFrames("encode"), ResponseData(data, endStream)
      PROVE  Leaving'
  <2>1. /\ CanFeed("encode") /\ fed["encode"] # <<>> /\ "encode" \in Dir /\ ~Ended(fed["encode"])
        /\ data # <<>> \/ endStream
    BY <1>3 DEF ResponseData, CanFeed, Dir
  <2>2. stack = <<>> /\ ~closed
    BY <2>1, ResponseIsCurrent
  <2>3. /\ data \in Seq(Chunks)
        /\ data = <<>> \/ (Len(data) = 1 /\ Len(fed["encode"]) <= MaxChunks)
    BY <2>1, DataFrame DEF SerialInv
  <2>4. EncodeData(data, endStream, <<>>)
    BY <1>3, <2>2 DEF ResponseData
  <2> QED  BY <2>1, <2>2, <2>3, <2>4, EncodeDataLeaves, Zenon
<1>4. CASE DecodeTrailers
  <2>1. /\ CanFeed("decode") /\ fed["decode"] # <<>>
        /\ "decode" \in WithTrailers /\ ~Ended(fed["decode"])
        /\ DoTrailer("decode")
    BY <1>4 DEF DecodeTrailers, Bypass, CanFeed
  <2>2. Cur = "decode" /\ stack = <<>> /\ ~closed
    BY <2>1, RequestIsCurrent
  <2> QED  BY <2>1, <2>2, DoTrailerLeaves
<1> QED  BY <1>1, <1>2, <1>3, <1>4, DecodeHeadersLeaves, EncodeTrailersLeaves DEF Receive

\* A local reply takes the place of the response.
LEMMA LocalReplyLeaves ==
    ASSUME SerialInv, EndInv, ShowInv, Leaving, dynamicLib, LocalReply
    PROVE  Leaving'
<1>1. stack # <<>> /\ Head(stack).at = "localReply"
  BY DEF LocalReply
<1>2. "localReply" \notin GoFrames
  BY DEF GoFrames
<1>3. FrameFits(Head(stack)) /\ Tail(stack) = <<>>
  BY <1>1, <1>2, OnlyFrame
<1>4. fed["encode"] = <<>>
  BY <1>1, <1>3 DEF FrameFits
<1>5. PICK body \in BOOLEAN :
         EncodeHeaders(~body, (IF body THEN <<ReplyBody>> ELSE <<>>) \o <<>>)
  BY <1>3, <1>4 DEF LocalReply, ReplyBody
<1>6. CASE body
  <2>1. <<ReplyBody>> \o <<>> = <<ReplyBody>>
    OBVIOUS
  <2>2. EncodeHeaders(FALSE, <<ReplyBody>>)
    BY <1>5, <1>6, <2>1
  <2> QED  BY <1>4, <2>2, EncodeHeadersLeaves
<1>7. CASE ~body
  <2>1. <<>> \o <<>> = <<>>
    OBVIOUS
  <2>2. EncodeHeaders(TRUE, <<>>)
    BY <1>5, <1>7, <2>1
  <2> QED  BY <1>4, <2>2, EncodeHeadersLeaves
<1> QED  BY <1>6, <1>7

LEMMA LocalReplyBodyLeaves ==
    ASSUME Calm, SerialInv, EndInv, ShowInv, Leaving, SeenInOrder', dynamicLib, LocalReplyBody
    PROVE  Leaving'
<1> DEFINE data == <<Chunk(1)>>
<1>1. stack # <<>> /\ Head(stack).at = "replyBody" /\ EncodeData(data, TRUE, Tail(stack))
  BY DEF LocalReplyBody
<1>2. "replyBody" \notin GoFrames
  BY DEF GoFrames
<1>3. FrameFits(Head(stack)) /\ Tail(stack) = <<>>
  BY <1>1, <1>2, OnlyFrame
<1>4. fed["encode"] = <<Hdr>> /\ ~closed
  BY <1>1, <1>3 DEF FrameFits, EndInv, NothingAfterEnd
<1>5. fed["encode"] # <<>> /\ ~Ended(fed["encode"])
  <2>1. Last(<<Hdr>>) = Hdr /\ Hdr # End /\ Hdr # Trl
    BY DEF Last, Hdr, End, Trl
  <2> QED  BY <1>4, <2>1 DEF Ended
<1>6. data \in Seq(Chunks) /\ Len(data) = 1
  BY ItemTypes
<1>7. EncodeData(data, TRUE, <<>>)
  BY <1>1, <1>3
<1> HIDE DEF data
<1> QED  BY <1>4, <1>5, <1>6, <1>7, EncodeDataLeaves

\* Each action with the library.
LEMMA NextLeaves ==
    ASSUME Calm, NothingOvertaken, SerialInv, EndInv, ShowInv, Leaving, SeenInOrder', dynamicLib, Next
    PROVE  Leaving'
<1>1. ~BufferFullReturns
  <2>1. SUFFICES ASSUME BufferFullReturns PROVE FALSE
    OBVIOUS
  <2>2. stack # <<>> /\ Head(stack).at = "bufferFull" /\ "bufferFull" \notin GoFrames
    BY <2>1 DEF BufferFullReturns, GoFrames
  <2> QED  BY <2>2, OnlyFrame DEF FrameFits
<1>2. CASE WorkerStep
  BY <1>1, <1>2, TrailerAfterDataLeaves, TrailersForwardedLeaves, ResumeDataLeaves, ResumeTrailerLeaves,
     LocalReplyLeaves, LocalReplyBodyLeaves DEF WorkerStep
<1>3. CASE Dispatch
  BY <1>3, OthersLeave, ContinueEncodeLocalReplyLeaves, ContinueEventLeaves, LocalReplyEventLeaves
     DEF Dispatch
<1>4. CASE Receive \/ GoReturn
  BY <1>4, ReceiveLeaves, GoReturnLeaves
<1>5. CASE Goroutine \/ OtherLocalReply \/ Destroy
  BY <1>5, OthersLeave
<1> QED  BY <1>2, <1>3, <1>4, <1>5 DEF Next

-----------------------------------------------------------------------------
(* Without the library                                                     *)

\* Each piece goes on as it came in.
LEMMA BypassPasses ==
    ASSUME TypeOK, AllPassedOn, NEW d \in Dir, Open(d), NEW items \in Seq(Item), Bypass(d, items),
           NEW came \in Seq(Item), Feed(d, came),
           \/ fed[d] = <<>> /\ came = <<Hdr>> \o items
           \/ fed[d] # <<>> /\ came = items
    PROVE  AllPassedOn'
<1>1. /\ out = fed /\ out \in [Dir -> Seq(Item)] /\ out[d] \in Seq(Item) /\ out' = Passed(d, items)
      /\ fed' = [fed EXCEPT ![d] = @ \o came]
      /\ UNCHANGED <<closed, dropped, hasDestroyed>> /\ ~closed /\ ~hasDestroyed
      /\ dropped = [e \in Dir |-> {}]
  BY DEF AllPassedOn, TypeOK, Bypass, Feed, filterVars, lifeVars, Open
<1> DEFINE first == IF out[d] = <<>> THEN <<Hdr>> ELSE <<>>
<1>2. out' = [out EXCEPT ![d] = (out[d] \o first) \o items]
  BY <1>1 DEF Passed
<1>3. first \in Seq(Item)
  BY ItemTypes
<1>4. first \o items = came
  <2>1. <<>> \o items = items
    BY ConcatEmptySeq
  <2> QED  BY <1>1, <2>1
<1> HIDE DEF first
<1>5. (out[d] \o first) \o items = out[d] \o came
  BY <1>1, <1>3, <1>4, Regroup
<1>6. out' = fed'
  BY <1>1, <1>2, <1>5
<1> QED  BY <1>1, <1>6 DEF AllPassedOn

LEMMA EncodeHeadersBypassed ==
    ASSUME SerialInv, AllPassedOn, ~dynamicLib, ~hasDestroyed, fed["encode"] = <<>>,
           NEW b \in BOOLEAN, NEW rest, EncodeHeaders(b, rest)
    PROVE  AllPassedOn'
<1> DEFINE items == EndIf(b)
           came  == <<Hdr>> \o EndIf(b)
<1>1. "encode" \in Dir /\ Open("encode") /\ items \in Seq(Item) /\ came \in Seq(Item) /\ came = <<Hdr>> \o items
  BY HeaderItems, ItemTypes DEF Open, AllPassedOn, Dir
<1>2. Bypass("encode", items) /\ Feed("encode", came)
  BY DEF EncodeHeaders
<1> HIDE DEF items, came
<1> QED  BY <1>1, <1>2, BypassPasses DEF SerialInv

LEMMA EncodeDataBypassed ==
    ASSUME SerialInv, AllPassedOn, ~dynamicLib, ~hasDestroyed, fed["encode"] # <<>>,
           NEW data \in Seq(Chunks), NEW b \in BOOLEAN, NEW rest, EncodeData(data, b, rest)
    PROVE  AllPassedOn'
<1> DEFINE items == data \o EndIf(b)
<1>1. "encode" \in Dir /\ Open("encode") /\ items \in Seq(Item)
  BY MarkedItems DEF Open, AllPassedOn, Dir
<1>2. Bypass("encode", items) /\ Feed("encode", items)
  BY DEF EncodeData
<1> HIDE DEF items
<1> QED  BY <1>1, <1>2, BypassPasses DEF SerialInv

LEMMA NextBypassed ==
    ASSUME SerialInv, EndInv, AllPassedOn, ~dynamicLib, Next
    PROVE  AllPassedOn'
<1>1. go = {} /\ posted = <<>> /\ TypeOK
  BY NoLibrary DEF EndInv, SerialInv
<1>2. stack # <<>> => /\ FrameFits(Head(stack)) /\ Tail(stack) = <<>>
                      /\ Head(stack).at \in {"localReply", "replyBody"} /\ ~hasDestroyed
  <2>1. SUFFICES ASSUME stack # <<>> PROVE /\ FrameFits(Head(stack)) /\ Tail(stack) = <<>>
                                           /\ Head(stack).at \in {"localReply", "replyBody"}
    BY DEF AllPassedOn
  <2>2. CASE Head(stack).at \in GoFrames
    BY <2>1, <2>2 DEF SerialInv, FlowInv, StackShape, FrameFits, At, GoFrames
  <2>3. CASE Head(stack).at \notin GoFrames
    BY <2>1, <2>3, OnlyFrame DEF FrameFits
  <2> QED  BY <2>2, <2>3
<1>3. ASSUME NEW d \in Dir, CanFeed(d)
      PROVE  Open(d) /\ ~hasDestroyed
  BY <1>3 DEF CanFeed, Open
<1>4. ASSUME NEW d \in Dir, CanFeed(d), fed[d] # <<>>, NEW items \in Seq(Item), Bypass(d, items), Feed(d, items)
      PROVE  AllPassedOn'
  BY <1>1, <1>3, <1>4, BypassPasses
<1>5. CASE Receive
  <2>1. ASSUME NEW b \in BOOLEAN, DecodeHeaders(b) PROVE AllPassedOn'
    <3> DEFINE items == EndIf(b)
               came  == <<Hdr>> \o EndIf(b)
    <3>1. CanFeed("decode") /\ fed["decode"] = <<>> /\ Feed("decode", came) /\ Bypass("decode", items)
      BY <2>1 DEF DecodeHeaders
    <3>2. "decode" \in Dir /\ items \in Seq(Item) /\ came \in Seq(Item) /\ came = <<Hdr>> \o items
      BY HeaderItems, ItemTypes DEF Dir
    <3> HIDE DEF items, came
    <3> QED  BY <1>1, <1>3, <3>1, <3>2, BypassPasses
  <2>2. ASSUME NEW b \in BOOLEAN, NEW data \in DataFrames("decode"), DecodeData(data, b) PROVE AllPassedOn'
    <3> DEFINE items == data \o EndIf(b)
    <3>1. "decode" \in Dir /\ CanFeed("decode") /\ fed["decode"] # <<>> /\ (data # <<>> \/ b)
          /\ Feed("decode", items) /\ Bypass("decode", items)
      BY <2>2 DEF DecodeData, Dir
    <3>2. data \in Seq(Chunks)
      BY <1>1, <2>2, <3>1, DataFrame
    <3>3. items \in Seq(Item)
      BY <3>2, MarkedItems
    <3> HIDE DEF items
    <3> QED  BY <1>4, <3>1, <3>3
  <2>3. ASSUME NEW b \in BOOLEAN, ResponseHeaders(b) PROVE AllPassedOn'
    <3>1. "encode" \in Dir /\ CanFeed("encode") /\ fed["encode"] = <<>> /\ EncodeHeaders(b, stack)
      BY <2>3 DEF ResponseHeaders, Dir
    <3> QED  BY <1>3, <3>1, EncodeHeadersBypassed
  <2>4. ASSUME NEW b \in BOOLEAN, NEW data \in DataFrames("encode"), ResponseData(data, b) PROVE AllPassedOn'
    <3>1. "encode" \in Dir /\ CanFeed("encode") /\ fed["encode"] # <<>> /\ (data # <<>> \/ b)
          /\ EncodeData(data, b, stack)
      BY <2>4 DEF ResponseData, Dir
    <3>2. data \in Seq(Chunks)
      BY <1>1, <2>4, <3>1, DataFrame
    <3> QED  BY <1>3, <3>1, <3>2, EncodeDataBypassed
  <2>5. CASE DecodeTrailers
    <3> DEFINE items == <<Trl>>
    <3>1. "decode" \in Dir /\ CanFeed("decode") /\ fed["decode"] # <<>> /\ items \in Seq(Item)
          /\ Feed("decode", items) /\ Bypass("decode", items)
      BY <2>5, ItemTypes DEF DecodeTrailers, Dir
    <3> HIDE DEF items
    <3> QED  BY <1>4, <3>1
  <2>6. CASE EncodeTrailers
    <3> DEFINE items == <<Trl>>
    <3>1. "encode" \in Dir /\ CanFeed("encode") /\ fed["encode"] # <<>> /\ items \in Seq(Item)
          /\ Feed("encode", items) /\ Bypass("encode", items)
      BY <2>6, ItemTypes DEF EncodeTrailers, Dir
    <3> HIDE DEF items
    <3> QED  BY <1>4, <3>1
  <2> QED  BY <1>5, <2>1, <2>2, <2>3, <2>4, <2>5, <2>6 DEF Receive
<1>6. CASE WorkerStep
  <2>1. stack # <<>>
    BY <1>6 DEF WorkerStep, BufferFullReturns, TrailerAfterData, TrailersForwarded, ResumeData,
                ResumeTrailer, LocalReply, LocalReplyBody
  <2>2. CASE LocalReply
    <3>1. fed["encode"] = <<>>
      BY <1>2, <2>1, <2>2 DEF LocalReply, FrameFits
    <3>2. PICK b \in BOOLEAN : \E rest : EncodeHeaders(~b, rest)
      BY <2>2, <3>1 DEF LocalReply
    <3>3. PICK rest : EncodeHeaders(~b, rest)
      BY <3>2
    <3>4. (~b) \in BOOLEAN
      OBVIOUS
    <3> QED  BY <1>2, <2>1, <3>1, <3>3, <3>4, EncodeHeadersBypassed
  <2>3. CASE LocalReplyBody
    <3> DEFINE data == <<Chunk(1)>>
    <3>1. Head(stack).at = "replyBody" /\ EncodeData(data, TRUE, Tail(stack))
      BY <2>3 DEF LocalReplyBody
    <3>2. data \in Seq(Chunks)
      BY ItemTypes
    <3> HIDE DEF data
    <3>3. fed["encode"] # <<>>
      <4>1. fed["encode"] = <<Hdr>>
        BY <1>2, <2>1, <3>1 DEF FrameFits
      <4> QED  BY <4>1
    <3> QED  BY <1>2, <2>1, <3>1, <3>2, <3>3, EncodeDataBypassed
  <2> QED  BY <1>2, <1>6, <2>1, <2>2, <2>3 DEF WorkerStep, BufferFullReturns, TrailerAfterData,
                                               TrailersForwarded, ResumeData, ResumeTrailer
<1>7. CASE Dispatch
  BY <1>1, <1>7 DEF Dispatch, DropEvent, ContinueEncodeLocalReply, ContinueEvent, LocalReplyEvent, NextEvent
<1>8. CASE GoReturn \/ Goroutine
  BY <1>1, <1>8 DEF GoReturn, Goroutine
<1>9. CASE OtherLocalReply
  BY <1>9 DEF OtherLocalReply, AllPassedOn, streamVars, filterVars, lifeVars
<1>10. CASE Destroy
  <2>1. stack = <<>>
    BY <1>2, <1>10 DEF Destroy, Forwarding
  <2> QED  BY <1>10, <2>1 DEF Destroy, AllPassedOn, streamVars
<1> QED  BY <1>5, <1>6, <1>7, <1>8, <1>9, <1>10 DEF Next

-----------------------------------------------------------------------------
(* The invariant                                                           *)

\* OutInv is inductive, given what InInv says.
LEMMA InitOut == Init => OutInv
<1> SUFFICES ASSUME Init PROVE OutInv
  OBVIOUS
<1>1. /\ \A d \in Dir : /\ ps[d] = NewProcessor /\ seen[d] = <<>> /\ out[d] = <<>> /\ dropped[d] = {}
      /\ out = fed /\ ~closed /\ dropped = [d \in Dir |-> {}] /\ ~hasDestroyed /\ stack = <<>>
  BY DEF Init
<1>2. AllPassedOn /\ TrailersFollow /\ NoTrailerData
  BY <1>1 DEF AllPassedOn, TrailersFollow, NoTrailerData
<1>3. ASSUME NEW d \in Dir PROVE LeavesInOrder(d)
  <2>1. /\ DataList(NewProcessor) = <<>> /\ NewProcessor.state = "WaitingHeader"
        /\ <<>> \in Seq(Item) /\ <<>> \in Seq(Chunks)
    BY DEF DataList, NewProcessor
  <2>2. InOrder(<<>>, <<>>, <<>>, {})
    <3> DEFINE e == <<>>
    <3>1. e \in Seq(Item) /\ e \in Seq(Chunks) /\ ToSet(e) = {} /\ Ordered(e) /\ e = <<>>
      BY <2>1, SmallSets, OrderedShort
    <3> HIDE DEF e
    <3>2. InOrder(e, e, e, {})
      <4>1. /\ ToSet(e) \cup ToSet(e) \cup {} \subseteq ToSet(e)
            /\ ToSet(e) \cup {} \subseteq Chunks
            /\ {} \cap (ToSet(e) \cup ToSet(e)) = {}
            /\ \A x \in ToSet(e), y \in ToSet(e) : Before(x, y)
            /\ e # <<>> => Hdr \in ToSet(e)
            /\ \A item \in ToSet(e) \ {}, other \in ToSet(e) :
                   Before(item, other) => item \in ToSet(e)
        BY <3>1
      <4> QED  BY <3>1, <4>1, InOrderParts, Zenon
    <3> QED  BY <3>1, <3>2
  <2> QED  BY <1>1, <2>1, <2>2 DEF LeavesInOrder, FlowsOut, HoldsNothing
<1> QED  BY <1>2, <1>3 DEF OutInv

LEMMA StutterOut ==
    ASSUME OutInv, UNCHANGED vars
    PROVE  OutInv'
<1>1. UNCHANGED <<ps, fed, out, dropped, seen, stack, enterEncoding, localReplyWaitingGo, closed,
                  dynamicLib, hasDestroyed>>
  BY DEF vars, filterVars, lifeVars, replyVars, goVars, streamVars
<1>2. Cur' = Cur
  BY <1>1 DEF Cur
<1>3. CASE dynamicLib
  <2>1. ASSUME NEW d \in Dir PROVE LeavesInOrder(d)'
    <3>1. LeavesInOrder(d) /\ (FlowsOut(d)' => FlowsOut(d))
      BY <1>1, <1>2, <1>3 DEF OutInv, FlowsOut
    <3> QED  BY <1>1, <3>1, KeepsLeaving
  <2> QED  BY <1>1, <1>2, <1>3, <2>1 DEF OutInv, TrailersFollow, NoTrailerData, KeepsNothing
<1>4. CASE ~dynamicLib
  BY <1>1, <1>4 DEF OutInv, AllPassedOn
<1> QED  BY <1>3, <1>4

LEMMA NextOut ==
    ASSUME Calm, NothingOvertaken, StreamInv, InInv, OutInv, TypeOK', InInv', [Next]_vars
    PROVE  OutInv'
<1>1. CASE UNCHANGED vars
  BY <1>1, StutterOut
<1>2. CASE Next
  <2>1. SerialInv /\ EndInv /\ TypeOK /\ dynamicLib' = dynamicLib
    BY LibraryStays DEF StreamInv, SerialInv
  <2>2. CASE dynamicLib
    <3>1. ShowInv /\ Leaving
      BY <2>1, <2>2, InInvFromShowInv DEF OutInv, Leaving
    <3>2. SeenInOrder'
      <4>1. SUFFICES ASSUME NEW d \in Dir PROVE Ordered(seen'[d])
        BY DEF SeenInOrder
      <4>2. seen'[d] \in Seq(Item) /\ fed'[d] \in Seq(Item) /\ IsPrefix(seen'[d], fed'[d]) /\ Ordered(fed'[d])
        BY DEF TypeOK, InInv, NumbersFit
      <4> QED  BY <4>2, PrefixFacts
    <3>3. Leaving'
      BY <1>2, <2>1, <2>2, <3>1, <3>2, NextLeaves
    <3> QED  BY <2>1, <2>2, <3>3 DEF OutInv, Leaving
  <2>3. CASE ~dynamicLib
    <3>1. AllPassedOn'
      BY <1>2, <2>1, <2>3, NextBypassed DEF OutInv
    <3> QED  BY <2>1, <2>3, <3>1 DEF OutInv
  <2> QED  BY <2>2, <2>3
<1> QED  BY <1>1, <1>2

\* What was passed on, what is kept for it and what Go refused are apart, in
\* the order they came in, and together all that Go was shown.
THEOREM OutInvariant ==
    ASSUME Calm, NothingOvertaken
    PROVE  Spec => []OutInv
<1>1. Init => OutInv
  BY InitOut
<1>2. StreamInv /\ InInv /\ OutInv /\ StreamInv' /\ InInv' /\ [Next]_vars => OutInv'
  <2>1. StreamInv' => TypeOK'
    BY DEF StreamInv, SerialInv
  <2> QED  BY <2>1, NextOut
<1> QED  BY <1>1, <1>2, StreamInvariant, InInvariant, PTL DEF Spec

\* What the order of the items says of the places they came in at.
LEMMA EarlierIsBefore ==
    ASSUME TypeOK, InInv, NEW d \in Dir, NEW item \in ToSet(fed[d]), NEW other \in ToSet(fed[d])
    PROVE  /\ Earlier(d, item, other) <=> Before(item, other)
           /\ other \in ToSet(seen[d]) /\ Before(item, other) => item \in ToSet(seen[d])
<1> DEFINE m == fed[d]
<1>1. /\ m \in Seq(Item) /\ seen[d] \in Seq(Item) /\ IsPrefix(seen[d], m) /\ Ordered(m)
      /\ item \in Item /\ other \in Item
  BY SetOfItems DEF TypeOK, InInv, NumbersFit
<1> HIDE DEF m
<1>2. ASSUME NEW i \in DOMAIN m, NEW j \in DOMAIN m
      PROVE  Before(m[i], m[j]) <=> i < j
  <2>1. i \in Nat /\ j \in Nat /\ m[i] \in Item /\ m[j] \in Item
    BY <1>1, ElementOfSeq, LenProperties
  <2>2. (i < j => Before(m[i], m[j])) /\ (j < i => Before(m[j], m[i]))
    BY <1>1 DEF Ordered
  <2>3. /\ Before(m[i], m[j]) => m[i] # m[j] /\ ~Before(m[j], m[i])
    BY <2>1, BeforeFacts
  <2> QED  BY <2>1, <2>2, <2>3
<1>3. item \in ToSet(m) /\ other \in ToSet(m)
  BY DEF m
<1>4. PICK i \in DOMAIN m : m[i] = item
  BY <1>3, InToSet
<1>5. PICK j \in DOMAIN m : m[j] = other
  BY <1>3, InToSet
<1>6. Before(item, other) <=> i < j
  BY <1>2, <1>4, <1>5
<1>7. Earlier(d, item, other) <=> Before(item, other)
  <2>1. Earlier(d, item, other) <=> \E k, l \in DOMAIN m : k < l /\ m[k] = item /\ m[l] = other
    BY DEF Earlier, m
  <2>2. ASSUME NEW k \in DOMAIN m, NEW l \in DOMAIN m, k < l, m[k] = item, m[l] = other
        PROVE  Before(item, other)
    BY <1>2, <2>2
  <2> QED  BY <1>4, <1>5, <1>6, <2>1, <2>2
<1>8. ASSUME other \in ToSet(seen[d]), Before(item, other)
      PROVE  item \in ToSet(seen[d])
  <2>1. PICK k \in DOMAIN seen[d] : seen[d][k] = other
    BY <1>8, InToSet
  <2>2. /\ Len(seen[d]) <= Len(m) /\ \A l \in 1 .. Len(seen[d]) : seen[d][l] = m[l]
        /\ DOMAIN seen[d] = 1 .. Len(seen[d]) /\ DOMAIN m = 1 .. Len(m)
        /\ Len(seen[d]) \in Nat /\ Len(m) \in Nat
    BY <1>1, PrefixItems, LenProperties
  <2>3. k \in DOMAIN m /\ m[k] = other
    BY <2>1, <2>2
  <2>4. i < k
    BY <1>2, <1>4, <1>8, <2>3
  <2>5. i \in DOMAIN seen[d] /\ seen[d][i] = item
    BY <1>4, <2>1, <2>2, <2>4
  <2> QED  BY <2>5, InToSet
<1> QED  BY <1>7, <1>8

\* The two properties follow from what is passed on, kept and refused.
LEMMA OutIsIntact ==
    ASSUME StreamInv, InInv, OutInv
    PROVE  PassedOnIntact /\ PassedAfterShown
<1>1. TypeOK
  BY DEF StreamInv, SerialInv
<1>2. ASSUME NEW d \in Dir, ToSet(out[d]) \subseteq ToSet(fed[d]) \ dropped[d], Ordered(out[d]),
             \A item \in ToSet(fed[d]) \ dropped[d], other \in ToSet(out[d]) :
                Before(item, other) => item \in ToSet(out[d])
      PROVE  /\ \A i, j \in DOMAIN out[d] : i < j => Earlier(d, out[d][i], out[d][j])
             /\ \A item \in ToSet(fed[d]) \ dropped[d], other \in ToSet(out[d]) :
                    Earlier(d, item, other) => item \in ToSet(out[d])
  <2>1. ASSUME NEW i \in DOMAIN out[d], NEW j \in DOMAIN out[d], i < j
        PROVE  Earlier(d, out[d][i], out[d][j])
    <3>1. out[d][i] \in ToSet(out[d]) /\ out[d][j] \in ToSet(out[d])
      BY InToSet
    <3>2. Before(out[d][i], out[d][j])
      BY <1>2, <2>1 DEF Ordered
    <3> QED  BY <1>1, <1>2, <3>1, <3>2, EarlierIsBefore
  <2>2. ASSUME NEW item \in ToSet(fed[d]) \ dropped[d], NEW other \in ToSet(out[d]), Earlier(d, item, other)
        PROVE  item \in ToSet(out[d])
    <3>1. other \in ToSet(fed[d]) /\ item \in ToSet(fed[d])
      BY <1>2
    <3>2. Before(item, other)
      BY <1>1, <2>2, <3>1, EarlierIsBefore
    <3> QED  BY <1>2, <3>2
  <2> QED  BY <2>1, <2>2
<1>3. CASE dynamicLib
  <2>1. ASSUME NEW d \in Dir
        PROVE  /\ ToSet(out[d]) \subseteq ToSet(seen[d])
               /\ ToSet(out[d]) \subseteq ToSet(fed[d]) \ dropped[d] /\ Ordered(out[d])
               /\ \A item \in ToSet(fed[d]) \ dropped[d], other \in ToSet(out[d]) :
                     Before(item, other) => item \in ToSet(out[d])
    <3>1. /\ seen[d] \in Seq(Item) /\ out[d] \in Seq(Item) /\ fed[d] \in Seq(Item)
          /\ DataList(ps[d]) \in Seq(Chunks) /\ IsPrefix(seen[d], fed[d])
      BY <1>1, ConcatProperties DEF DataList, TypeOK, Processor, InInv
    <3>2. InOrder(seen[d], out[d], DataList(ps[d]), dropped[d])
      BY <1>3 DEF OutInv, LeavesInOrder
    <3>3. /\ ToSet(out[d]) \subseteq ToSet(seen[d]) /\ dropped[d] \cap ToSet(out[d]) = {} /\ Ordered(out[d])
          /\ \A item \in ToSet(seen[d]) \ dropped[d], other \in ToSet(out[d]) :
                 Before(item, other) => item \in ToSet(out[d])
      BY <3>1, <3>2, InOrderParts
    <3>4. ToSet(seen[d]) \subseteq ToSet(fed[d])
      BY <3>1, PrefixFacts
    <3>5. ASSUME NEW item \in ToSet(fed[d]) \ dropped[d], NEW other \in ToSet(out[d]), Before(item, other)
          PROVE  item \in ToSet(out[d])
      <4>1. item \in ToSet(seen[d])
        BY <1>1, <3>3, <3>4, <3>5, EarlierIsBefore
      <4> QED  BY <3>3, <3>5, <4>1
    <3> QED  BY <3>3, <3>4, <3>5
  <2> QED  BY <1>2, <2>1 DEF PassedOnIntact, PassedAfterShown
<1>4. CASE ~dynamicLib
  <2>1. ASSUME NEW d \in Dir
        PROVE  /\ ToSet(out[d]) \subseteq ToSet(fed[d]) \ dropped[d] /\ Ordered(out[d])
               /\ \A item \in ToSet(fed[d]) \ dropped[d], other \in ToSet(out[d]) :
                     Before(item, other) => item \in ToSet(out[d])
    <3>1. out[d] = fed[d] /\ dropped[d] = {} /\ Ordered(fed[d])
      BY <1>4 DEF OutInv, AllPassedOn, InInv, NumbersFit
    <3> QED  BY <3>1
  <2> QED  BY <1>2, <1>4, <2>1 DEF PassedOnIntact, PassedAfterShown
<1> QED  BY <1>3, <1>4

\* What leaves the filter is what came in, in order, without repetition and
\* without anything after the end; only data Go asked to drop is missing.
THEOREM MessagesStayIntact ==
    ASSUME Calm, NothingOvertaken
    PROVE  Spec => []PassedOnIntact
<1>1. StreamInv /\ InInv /\ OutInv => PassedOnIntact
  BY OutIsIntact
<1> QED  BY <1>1, StreamInvariant, InInvariant, OutInvariant, PTL

\* Nothing leaves the filter before Go was shown it: not when the worker goes
\* on by itself, not with a local reply, not with the trailers.
THEOREM GoSeesFirst ==
    ASSUME Calm, NothingOvertaken
    PROVE  Spec => []PassedAfterShown
<1>1. StreamInv /\ InInv /\ OutInv => PassedAfterShown
  BY OutIsIntact
<1> QED  BY <1>1, StreamInvariant, InInvariant, OutInvariant, PTL
=============================================================================
