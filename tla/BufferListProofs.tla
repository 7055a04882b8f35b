-------------------------- MODULE BufferListProofs --------------------------
(***************************************************************************)
(* For handlers that keep to all of Rule, and any frames, texts and        *)
(* addresses: the data shown to Go is kept as KeptData says, and the byte  *)
(* counter tells whether anything is kept.                                 *)
(***************************************************************************)
EXTENDS BufferList, SequenceTheorems, TLAPS

-----------------------------------------------------------------------------
(* The inductive invariant.                                                *)

\* No address is kept twice.
Unique == \A i, j \in DOMAIN queue : queue[i].at = queue[j].at => i = j

\* upTo adds up the buffers as they were shown.
Sums ==
    \A i \in DOMAIN queue :
        queue[i].upTo = (IF i = 1 THEN 0 ELSE queue[i - 1].upTo) + Len(queue[i].shown)

\* The counter has the bytes that were shown, without wrapping around.
Counted == bytes = ShownBytes /\ ShownBytes < Word

\* The newest object of a kept buffer remembers the length it was shown with.
LengthsFit ==
    \A i \in DOMAIN queue, b \in DOMAIN objects :
        objects[b].at = queue[i].at /\ Newest(b) => objects[b].length = Len(queue[i].shown)

\* Empty buffers are shown at the end of the message only, and kept until the answer.
EmptyAtEnd ==
    /\ \A i \in DOMAIN queue : queue[i].shown = <<>> => EndStream
    /\ \A b \in DOMAIN objects :
           objects[b].length = 0 => EndStream /\ (answer = "none" => Kept(objects[b].at))

ListInv ==
    /\ TypeOK
    /\ Unique
    /\ Sums
    /\ Counted
    /\ LengthsFit
    /\ EmptyAtEnd

-----------------------------------------------------------------------------
(* The parts of a state.                                                   *)

\* A number below the modulus.
LEMMA SmallModulo == \A n \in 0 .. Word - 1 : n % Word = n /\ (Word + n) % Word = n
BY BufferListAssumption

\* All but the last of a sequence.
LEMMA FrontParts ==
    ASSUME NEW S, NEW s \in Seq(S), s # <<>>
    PROVE  /\ Front(s) \in Seq(S)
           /\ Len(Front(s)) = Len(s) - 1
           /\ DOMAIN Front(s) = 1 .. Len(s) - 1
           /\ \A i \in 1 .. Len(s) - 1 : Front(s)[i] = s[i]
<1>1. PICK n \in Nat : n = Len(s)
  OBVIOUS
<1>2. n - 1 \in Nat
  BY <1>1, EmptySeq
<1>3. \A i \in 1 .. n - 1 : s[i] \in S
  BY <1>1, ElementOfSeq
<1>4. /\ Front(s) \in Seq(S)
      /\ Len(Front(s)) = IF 1 <= n - 1 THEN n - 1 - 1 + 1 ELSE 0
      /\ \A i \in 1 .. n - 1 - 1 + 1 : Front(s)[i] = s[1 + i - 1]
  BY <1>1, <1>2, <1>3, SubSeqProperties DEF Front
<1>5. Len(Front(s)) = n - 1
  BY <1>2, <1>4
<1>6. \A i \in 1 .. n - 1 : Front(s)[i] = s[i]
  BY <1>2, <1>4
<1> QED  BY <1>1, <1>4, <1>5, <1>6

\* A kept buffer, and what the counter stands for.
LEMMA QueueParts ==
    ASSUME TypeOK
    PROVE  /\ queue \in Seq(Buffer) /\ Len(queue) \in Nat /\ DOMAIN queue = 1 .. Len(queue)
           /\ \A i \in DOMAIN queue :
                 /\ queue[i] \in Buffer
                 /\ queue[i].at \in Address
                 /\ queue[i].data \in Seq(Byte) /\ Len(queue[i].data) \in Nat
                 /\ queue[i].shown \in Seq(Byte) /\ Len(queue[i].shown) \in Nat
                 /\ queue[i].upTo \in Nat
           /\ ShownBytes \in Nat
<1>1. queue \in Seq(Buffer) /\ Len(queue) \in Nat /\ DOMAIN queue = 1 .. Len(queue)
  BY DEF TypeOK
<1>2. \A i \in DOMAIN queue : queue[i] \in Buffer
  BY <1>1, ElementOfSeq
<1>3. ASSUME NEW i \in DOMAIN queue
      PROVE  /\ queue[i].at \in Address
             /\ queue[i].data \in Seq(Byte) /\ Len(queue[i].data) \in Nat
             /\ queue[i].shown \in Seq(Byte) /\ Len(queue[i].shown) \in Nat
             /\ queue[i].upTo \in Nat
  BY <1>2 DEF Buffer
<1>4. ShownBytes \in Nat
  BY <1>1, <1>3 DEF ShownBytes, Last
<1> QED  BY <1>1, <1>2, <1>3, <1>4

\* The objects of Go.
LEMMA ObjectParts ==
    ASSUME TypeOK
    PROVE  /\ objects \in Seq([at : Address, length : Nat])
           /\ Len(objects) \in Nat /\ DOMAIN objects = 1 .. Len(objects)
           /\ \A b \in DOMAIN objects : objects[b].at \in Address /\ objects[b].length \in Nat
<1>1. objects \in Seq([at : Address, length : Nat]) /\ DOMAIN objects = 1 .. Len(objects)
      /\ Len(objects) \in Nat
  BY DEF TypeOK
<1>2. \A b \in DOMAIN objects : objects[b] \in [at : Address, length : Nat]
  BY <1>1, ElementOfSeq
<1> QED  BY <1>1, <1>2

\* The contents that go to the next filter.
LEMMA ContentsType ==
    ASSUME TypeOK
    PROVE  Contents \in Seq(Seq(Byte)) /\ Len(Contents) = Len(queue) /\ DOMAIN Contents = DOMAIN queue
<1>1. Contents = [i \in 1 .. Len(queue) |-> queue[i].data]
  BY QueueParts DEF Contents
<1> QED  BY <1>1, QueueParts

\* The initial state.
LEMMA ListInit == ASSUME Init PROVE ListInv
<1>1. <<>> \in Seq(Buffer) /\ <<>> \in Seq([at : Address, length : Nat])
      /\ <<>> \in Seq(Seq(Byte)) /\ <<>> \in Seq(Nat)
  BY EmptySeq
<1>2. DOMAIN queue = {} /\ DOMAIN objects = {}
  BY DEF Init
<1>3. TypeOK
  <2>1. 0 \in 0 .. Word - 1
    BY BufferListAssumption
  <2>2. call \in [kind : {"headers", "data", "trailers"}, end : BOOLEAN]
    BY DEF Init
  <2> QED  BY <1>1, <2>1, <2>2 DEF Init, TypeOK
<1>4. Counted
  BY BufferListAssumption DEF Init, Counted, ShownBytes
<1> QED  BY <1>2, <1>3, <1>4 DEF ListInv, Unique, Sums, LengthsFit, EmptyAtEnd, Init

-----------------------------------------------------------------------------
(* Steps that empty the list, and steps that leave it.                     *)

\* Everything is passed on or dropped, and the handler has answered.
LEMMA EmptiedKeeps ==
    ASSUME ListInv, ClearAll, UNCHANGED <<objects, call>>, overrun' \in BOOLEAN,
           answer' \in {"Continue", "LocalReply"},
           passed' \in Seq(Seq(Byte)), value' \in Seq(Nat)
    PROVE  ListInv'
<1>1. <<>> \in Seq(Buffer) /\ DOMAIN queue' = {} /\ 0 \in 0 .. Word - 1
  BY EmptySeq, BufferListAssumption DEF ClearAll
<1>2. TypeOK'
  BY <1>1 DEF ListInv, TypeOK, ClearAll
<1>3. Counted'
  BY BufferListAssumption DEF Counted, ShownBytes, ClearAll
<1>4. EmptyAtEnd'
  BY <1>1 DEF ListInv, EmptyAtEnd, EndStream
<1>5. Unique' /\ Sums' /\ LengthsFit'
  BY <1>1 DEF Unique, Sums, LengthsFit
<1> QED  BY <1>2, <1>3, <1>4, <1>5 DEF ListInv

\* The list and the objects stay, whether the handler goes on or answers.
LEMMA UntouchedKeeps ==
    ASSUME ListInv, UNCHANGED <<queue, bytes, objects, call>>,
           answer' \in {answer, "Continue", "StopAndBuffer", "StopAndBufferWatermark"},
           passed' \in Seq(Seq(Byte)), value' \in Seq(Nat), overrun' \in BOOLEAN
    PROVE  ListInv'
<1>1. TypeOK'
  <2>1. TypeOK
    BY DEF ListInv
  <2>2. answer' \in {"none", "Continue", "StopAndBuffer", "StopAndBufferWatermark", "StopNoBuffer",
                     "LocalReply"}
    BY <2>1 DEF TypeOK
  <2> QED  BY <2>1, <2>2 DEF TypeOK
<1>2. Unique' /\ Sums' /\ Counted'
  BY DEF ListInv, Unique, Sums, Counted, ShownBytes
<1>3. LengthsFit'
  BY DEF ListInv, LengthsFit, Newest
<1>4. EmptyAtEnd'
  BY DEF ListInv, EmptyAtEnd, EndStream, Kept
<1> QED  BY <1>1, <1>2, <1>3, <1>4 DEF ListInv

-----------------------------------------------------------------------------
(* Calls into Go.                                                          *)

\* A new buffer at an address that is not kept, with an object of its length.
LEMMA ShowDataKeeps ==
    ASSUME ListInv, Rules = Rule, NEW a \in Address, NEW data \in Frame, NEW endStream \in BOOLEAN,
           ShowData(a, data, endStream)
    PROVE  ListInv'
<1> DEFINE n == Len(queue)
           m == Len(objects)
           new == NewBuffer(a, data)
           object == [at |-> a, length |-> Len(data)]
<1>0. TypeOK /\ n \in Nat /\ m \in Nat
  BY QueueParts, ObjectParts DEF ListInv
<1>1. data \in Seq(Byte) /\ Len(data) \in Nat /\ (data = <<>> <=> Len(data) = 0)
  BY BufferListAssumption, EmptySeq DEF Byte
<1>2. ShownBytes \in Nat /\ ShownBytes + Len(data) < Word /\ bytes = ShownBytes
  BY <1>0, QueueParts DEF ShowData, Rule, ListInv, Counted
<1>3. new \in Buffer /\ object \in [at : Address, length : Nat]
  BY <1>1, <1>2 DEF NewBuffer, Buffer
<1>4. /\ queue' \in Seq(Buffer) /\ Len(queue') = n + 1 /\ DOMAIN queue' = 1 .. n + 1
      /\ \A i \in 1 .. n : queue'[i] = queue[i]
      /\ queue'[n + 1] = new
      /\ queue' # <<>>
  BY <1>0, <1>3, AppendProperties, QueueParts DEF ShowData, Push
<1>5. /\ objects' \in Seq([at : Address, length : Nat]) /\ DOMAIN objects' = 1 .. m + 1
      /\ \A b \in 1 .. m : objects'[b] = objects[b]
      /\ objects'[m + 1] = object
  BY <1>0, <1>3, AppendProperties, ObjectParts DEF ShowData
<1>6. \A i \in 1 .. n : queue[i].at # a
  BY <1>0, QueueParts DEF ShowData, Kept
<1>7. bytes' = ShownBytes + Len(data)
  <2>1. bytes' = (ShownBytes + Len(data)) % Word
    BY <1>2 DEF ShowData, Push
  <2>2. ShownBytes + Len(data) \in 0 .. Word - 1
    BY <1>1, <1>2, BufferListAssumption
  <2> QED  BY <2>1, <2>2, SmallModulo
<1>8. ShownBytes' = ShownBytes + Len(data)
  BY <1>4 DEF ShownBytes, Last, NewBuffer
<1>9. TypeOK'
  <2>1. bytes' \in 0 .. Word - 1
    BY <1>1, <1>2, <1>7, BufferListAssumption
  <2> QED  BY <1>0, <1>4, <1>5, <2>1 DEF TypeOK, ShowData
<1>10. Unique'
  <2> SUFFICES ASSUME NEW i \in 1 .. n + 1, NEW j \in 1 .. n + 1, queue'[i].at = queue'[j].at
               PROVE  i = j
    BY <1>4 DEF Unique
  <2>1. CASE i \in 1 .. n /\ j \in 1 .. n
    BY <1>0, <1>4, <2>1, QueueParts DEF ListInv, Unique
  <2>2. new.at = a
    BY DEF NewBuffer
  <2> QED  BY <1>0, <1>4, <1>6, <2>1, <2>2
<1>11. Sums'
  <2> SUFFICES ASSUME NEW i \in 1 .. n + 1
               PROVE  queue'[i].upTo = (IF i = 1 THEN 0 ELSE queue'[i - 1].upTo) + Len(queue'[i].shown)
    BY <1>4 DEF Sums
  <2>1. CASE i \in 1 .. n
    <3>1. queue[i].upTo = (IF i = 1 THEN 0 ELSE queue[i - 1].upTo) + Len(queue[i].shown)
      BY <1>0, <2>1, QueueParts DEF ListInv, Sums
    <3>2. i # 1 => i - 1 \in 1 .. n
      BY <1>0, <2>1
    <3> QED  BY <1>4, <2>1, <3>1, <3>2
  <2>2. CASE i = n + 1
    <3>1. new.upTo = ShownBytes + Len(data) /\ new.shown = data
      BY DEF NewBuffer
    <3>2. n = 0 => ShownBytes = 0
      BY <1>0, QueueParts, EmptySeq DEF ShownBytes
    <3>3. n # 0 => ShownBytes = queue[n].upTo /\ n \in 1 .. n
      BY <1>0, QueueParts DEF ShownBytes, Last
    <3> QED  BY <1>0, <1>4, <2>2, <3>1, <3>2, <3>3
  <2> QED  BY <1>0, <2>1, <2>2
<1>12. Counted'
  BY <1>2, <1>7, <1>8 DEF Counted
<1>13. LengthsFit'
  <2> SUFFICES ASSUME NEW i \in 1 .. n + 1, NEW b \in 1 .. m + 1,
                      objects'[b].at = queue'[i].at,
                      \A c \in 1 .. m + 1 : objects'[c].at = objects'[b].at => c <= b
               PROVE  objects'[b].length = Len(queue'[i].shown)
    BY <1>4, <1>5 DEF LengthsFit, Newest
  <2>1. CASE i = n + 1
    <3>1. objects'[b].at = a /\ objects'[m + 1].at = a /\ m + 1 \in 1 .. m + 1
      BY <1>0, <1>4, <1>5, <2>1 DEF NewBuffer
    <3>2. b = m + 1
      BY <1>0, <3>1
    <3> QED  BY <1>4, <1>5, <2>1, <3>2 DEF NewBuffer
  <2>2. CASE i \in 1 .. n
    <3>1. b \in 1 .. m
      BY <1>0, <1>4, <1>5, <1>6, <2>2
    <3>2. Newest(b)
      BY <1>0, <1>5, <3>1, ObjectParts DEF Newest
    <3> QED  BY <1>0, <1>4, <1>5, <2>2, <3>1, <3>2, QueueParts, ObjectParts DEF ListInv, LengthsFit
  <2> QED  BY <1>0, <2>1, <2>2
<1>14. EmptyAtEnd'
  <2>0. ~EndStream /\ (data = <<>> => endStream) /\ EndStream' = endStream
    BY DEF ShowData, MayShow, EndStream
  <2>1. ASSUME NEW i \in DOMAIN queue', queue'[i].shown = <<>>
        PROVE  EndStream'
    <3>1. CASE i \in 1 .. n
      BY <1>0, <1>4, <2>0, <2>1, <3>1, QueueParts DEF ListInv, EmptyAtEnd
    <3>2. CASE i = n + 1
      BY <1>4, <2>0, <2>1, <3>2 DEF NewBuffer
    <3> QED  BY <1>0, <1>4, <2>1, <3>1, <3>2
  <2>2. ASSUME NEW b \in DOMAIN objects', objects'[b].length = 0
        PROVE  EndStream' /\ Kept(objects[b].at)'
    <3>1. CASE b \in 1 .. m
      BY <1>0, <1>5, <2>0, <2>2, <3>1, ObjectParts DEF ListInv, EmptyAtEnd
    <3>2. CASE b = m + 1
      <4>1. EndStream'
        BY <1>1, <1>5, <2>0, <2>2, <3>2
      <4>2. objects'[b].at = a /\ queue'[n + 1].at = a /\ n + 1 \in DOMAIN queue'
        BY <1>0, <1>4, <1>5, <3>2 DEF NewBuffer
      <4> QED  BY <4>1, <4>2 DEF Kept
    <3> QED  BY <1>0, <1>5, <2>2, <3>1, <3>2
  <2> QED  BY <2>1, <2>2 DEF EmptyAtEnd
<1> QED  BY <1>9, <1>10, <1>11, <1>12, <1>13, <1>14 DEF ListInv

\* The trailers come after all data, so no empty buffer was shown.
LEMMA ShowTrailersKeeps ==
    ASSUME ListInv, ShowTrailers
    PROVE  ListInv'
<1>1. TypeOK'
  BY DEF ListInv, TypeOK, ShowTrailers
<1>2. Unique' /\ Sums' /\ Counted'
  BY DEF ListInv, Unique, Sums, Counted, ShownBytes, ShowTrailers
<1>3. LengthsFit'
  BY DEF ListInv, LengthsFit, Newest, ShowTrailers
<1>4. EmptyAtEnd'
  BY DEF ListInv, EmptyAtEnd, EndStream, ShowTrailers, MayShow
<1> QED  BY <1>1, <1>2, <1>3, <1>4 DEF ListInv

-----------------------------------------------------------------------------
(* What handlers do with the buffers.                                      *)

\* By the rules, checkExisting erases nothing: it looks for the oldest buffer,
\* for its newest object.
LEMMA TouchesOldest ==
    ASSUME ListInv, Rules = Rule, NEW b \in DOMAIN objects, MayTouch(b), Kept(objects[b].at)
    PROVE  /\ 1 \in DOMAIN queue
           /\ queue[1].at = objects[b].at
           /\ Existing(objects[b].at) = queue
           /\ objects[b].length = Len(queue[1].shown)
<1> DEFINE a == objects[b].at
<1>0. TypeOK
  BY DEF ListInv
<1>1. 1 \in DOMAIN queue /\ queue[1].at = a
  BY <1>0, QueueParts DEF MayTouch, Kept, Rule
<1>2. \A i \in DOMAIN queue : queue[i].at = a => i = 1
  BY <1>1 DEF ListInv, Unique
<1>3. Existing(a) = SubSeq(queue, 1, Len(queue))
  <2>1. (CHOOSE i \in DOMAIN queue : queue[i].at = a) = 1
    BY <1>1, <1>2
  <2> QED  BY <2>1 DEF Existing
<1>4. Existing(a) = queue
  BY <1>0, <1>3, QueueParts, SubSeqFull
<1>5. objects[b].length = Len(queue[1].shown)
  BY <1>1 DEF ListInv, LengthsFit, MayTouch, Rule
<1> QED  BY <1>1, <1>4, <1>5

\* A copy of as many bytes as the data has is the data.
LEMMA CopiedWhole ==
    ASSUME NEW data \in Seq(Byte)
    PROVE  Copied(data, Len(data)) = data
<1>1. data = [i \in 1 .. Len(data) |-> data[i]]
  OBVIOUS
<1>2. Copied(data, Len(data)) = [i \in 1 .. Len(data) |-> data[i]]
  BY DEF Copied
<1> QED  BY <1>1, <1>2

\* A read returns the data of a kept buffer, and leaves the list as it is.
LEMMA ReadReturns ==
    ASSUME ListInv, Rules = Rule, NEW b \in DOMAIN objects, Read(b)
    PROVE  /\ 1 \in DOMAIN queue
           /\ answer = "none"
           /\ value' = queue[1].data
           /\ UNCHANGED <<queue, bytes, objects, call, answer, passed>>
<1> DEFINE a == objects[b].at
<1>0. TypeOK /\ MayTouch(b) /\ answer = "none"
  BY DEF ListInv, Read, MayTouch
<1>1. Kept(a)
  BY <1>0 DEF ListInv, EmptyAtEnd, Read
<1>2. 1 \in DOMAIN queue /\ queue[1].at = a /\ Existing(a) = queue
      /\ objects[b].length = Len(queue[1].shown)
  BY <1>0, <1>1, TouchesOldest
<1>3. queue[1].data = queue[1].shown
  BY <1>2 DEF Read, Rule
<1>4. queue[1].data \in Seq(Byte) /\ objects[b].length = Len(queue[1].data)
  BY <1>0, <1>2, <1>3, QueueParts
<1>5. CASE objects[b].length = 0 /\ value' = <<>> /\ UNCHANGED queue
  BY <1>0, <1>2, <1>4, <1>5, EmptySeq DEF Read
<1>6. CASE CopyBuffer(a, objects[b].length)
  <2>1. queue' = queue /\ value' = Copied(queue[1].data, objects[b].length)
    BY <1>2, <1>6 DEF CopyBuffer
  <2> QED  BY <1>0, <1>2, <1>4, <2>1, CopiedWhole DEF Read
<1> QED  BY <1>5, <1>6 DEF Read

LEMMA ReadKeeps ==
    ASSUME ListInv, Rules = Rule, NEW b \in DOMAIN objects, Read(b)
    PROVE  ListInv'
<1>0. TypeOK
  BY DEF ListInv
<1>1. /\ 1 \in DOMAIN queue /\ value' = queue[1].data
      /\ UNCHANGED <<queue, bytes, objects, call, answer, passed>>
  BY ReadReturns
<1>2. value' \in Seq(Nat)
  <2>1. value' \in Seq(Byte) /\ Byte \subseteq Nat
    BY <1>0, <1>1, QueueParts DEF Byte
  <2> QED  BY <2>1, SeqMonotonic
<1>3. passed' \in Seq(Seq(Byte))
  BY <1>0, <1>1 DEF TypeOK
<1>4. overrun' \in BOOLEAN
  BY <1>0 DEF TypeOK, Read, CopyBuffer
<1> QED  BY <1>1, <1>2, <1>3, <1>4, UntouchedKeeps

\* What is written are bytes.
LEMMA RewrittenType ==
    ASSUME NEW data \in Seq(Byte), NEW s \in String, NEW action \in {"set", "append", "prepend"}
    PROVE  Rewritten(data, action, s) \in Seq(Byte)
<1>1. s \in Seq(Byte)
  BY BufferListAssumption DEF Byte
<1> QED  BY <1>1, ConcatProperties DEF Rewritten

\* A write changes the data of the oldest buffer, and nothing else.
LEMMA WriteChanges ==
    ASSUME ListInv, Rules = Rule, NEW b \in DOMAIN objects, NEW s \in String,
           NEW action \in {"set", "append", "prepend"}, SetBufferHelper(b, action, s)
    PROVE  /\ 1 \in DOMAIN queue
           /\ answer = "none"
           /\ queue' = [queue EXCEPT ![1].data = Rewritten(queue[1].data, action, s)]
           /\ UNCHANGED <<bytes, objects, call, answer, passed, value, overrun>>
<1>1. MayTouch(b) /\ Kept(objects[b].at) /\ answer = "none"
  BY DEF SetBufferHelper, MayTouch
<1>2. 1 \in DOMAIN queue /\ Existing(objects[b].at) = queue
  BY <1>1, TouchesOldest
<1> QED  BY <1>1, <1>2 DEF SetBufferHelper

LEMMA WriteKeeps ==
    ASSUME ListInv, Rules = Rule, NEW b \in DOMAIN objects, NEW s \in String,
           NEW action \in {"set", "append", "prepend"}, SetBufferHelper(b, action, s)
    PROVE  ListInv'
<1> DEFINE new == Rewritten(queue[1].data, action, s)
<1>0. TypeOK
  BY DEF ListInv
<1>1. /\ 1 \in DOMAIN queue
      /\ queue' = [queue EXCEPT ![1].data = new]
      /\ UNCHANGED <<bytes, objects, call, answer, passed, value, overrun>>
  BY WriteChanges
<1>2. new \in Seq(Byte)
  BY <1>0, <1>1, RewrittenType, QueueParts
<1> HIDE DEF new
<1>3. [queue[1] EXCEPT !.data = new] \in Buffer
  BY <1>0, <1>1, <1>2, QueueParts DEF Buffer
<1>4. /\ queue' \in Seq(Buffer) /\ DOMAIN queue' = DOMAIN queue /\ Len(queue') = Len(queue)
      /\ \A i \in DOMAIN queue : /\ queue'[i].at = queue[i].at
                                 /\ queue'[i].shown = queue[i].shown
                                 /\ queue'[i].upTo = queue[i].upTo
  <2>1. queue' = [queue EXCEPT ![1] = [queue[1] EXCEPT !.data = new]]
    BY <1>1
  <2>2. queue' \in Seq(Buffer) /\ DOMAIN queue' = DOMAIN queue /\ Len(queue') = Len(queue)
    <3>1. queue \in Seq(Buffer) /\ 1 \in 1 .. Len(queue) /\ DOMAIN queue = 1 .. Len(queue)
      BY <1>0, <1>1, QueueParts
    <3>2. queue' \in Seq(Buffer) /\ Len(queue') = Len(queue)
      BY <1>3, <2>1, <3>1, ExceptSeq
    <3> QED  BY <3>1, <3>2
  <2>3. queue[1] \in Buffer
    BY <1>0, <1>1, QueueParts
  <2>4. ASSUME NEW i \in DOMAIN queue
        PROVE  queue'[i].at = queue[i].at /\ queue'[i].shown = queue[i].shown
               /\ queue'[i].upTo = queue[i].upTo
    <3>1. CASE i = 1
      BY <2>1, <2>3, <3>1 DEF Buffer
    <3>2. CASE i # 1
      BY <2>1, <3>2
    <3> QED  BY <3>1, <3>2
  <2> QED  BY <2>2, <2>4
<1>5. TypeOK'
  BY <1>0, <1>1, <1>4 DEF TypeOK
<1>6. ShownBytes' = ShownBytes
  <2>1. queue # <<>> /\ queue' # <<>> /\ Len(queue) \in DOMAIN queue
    BY <1>0, <1>1, <1>4, QueueParts
  <2> QED  BY <1>4, <2>1 DEF ShownBytes, Last
<1>7. Unique' /\ LengthsFit' /\ Counted'
  BY <1>1, <1>4, <1>6 DEF ListInv, Unique, LengthsFit, Newest, Counted
<1>8. Sums'
  <2> SUFFICES ASSUME NEW i \in DOMAIN queue
               PROVE  queue'[i].upTo = (IF i = 1 THEN 0 ELSE queue'[i - 1].upTo) + Len(queue'[i].shown)
    BY <1>4 DEF Sums
  <2>1. i # 1 => i - 1 \in DOMAIN queue
    BY <1>0, QueueParts
  <2> QED  BY <1>4, <2>1 DEF ListInv, Sums
<1>9. EmptyAtEnd'
  BY <1>1, <1>4 DEF ListInv, EmptyAtEnd, EndStream, Kept
<1> QED  BY <1>1, <1>5, <1>7, <1>8, <1>9 DEF ListInv

-----------------------------------------------------------------------------
(* What handlers answer.                                                   *)

\* The newest buffer is dropped: the counter loses what it was shown with.
LEMMA StopNoBufferKeeps ==
    ASSUME ListInv, Rules = Rule, StopNoBuffer
    PROVE  ListInv' /\ queue' = Front(queue)
<1> DEFINE n == Len(queue)
<1>0. TypeOK
  BY DEF ListInv
<1>1. n \in Nat \ {0} /\ n \in DOMAIN queue /\ DOMAIN queue = 1 .. n
  BY <1>0, QueueParts, EmptySeq DEF StopNoBuffer
<1>2. /\ UNCHANGED <<objects, call, passed, value, overrun>>
      /\ answer = "none" /\ answer' = "StopNoBuffer"
      /\ queue' = Front(queue)
      /\ bytes' = (Word + bytes - Len(queue[n].data)) % Word
      /\ queue[n].data = queue[n].shown
  BY DEF StopNoBuffer, Answered, ClearLatest, Last, Rule
<1>3. /\ queue' \in Seq(Buffer) /\ Len(queue') = n - 1 /\ DOMAIN queue' = 1 .. n - 1
      /\ \A i \in 1 .. n - 1 : queue'[i] = queue[i]
  <2>1. queue \in Seq(Buffer) /\ queue # <<>>
    BY <1>0, QueueParts DEF StopNoBuffer
  <2> QED  BY <1>2, <2>1, FrontParts
<1>4. ShownBytes' = ShownBytes - Len(queue[n].shown) /\ ShownBytes' \in Nat
      /\ Len(queue[n].shown) \in Nat
  <2>1. queue[n].upTo = (IF n = 1 THEN 0 ELSE queue[n - 1].upTo) + Len(queue[n].shown)
    BY <1>1 DEF ListInv, Sums
  <2>2. ShownBytes = queue[n].upTo
    BY <1>1, EmptySeq DEF ShownBytes, Last
  <2>3. ShownBytes' = IF n = 1 THEN 0 ELSE queue[n - 1].upTo
    <3>1. CASE n = 1
      <4>1. queue' = <<>>
        BY <1>3, <3>1
      <4> QED  BY <3>1, <4>1 DEF ShownBytes
    <3>2. CASE n # 1
      <4>1. queue' # <<>> /\ queue'[n - 1] = queue[n - 1]
        BY <1>1, <1>3, <3>2, EmptySeq
      <4> QED  BY <1>3, <3>2, <4>1 DEF ShownBytes, Last
    <3> QED  BY <3>1, <3>2
  <2>4. n # 1 => queue[n - 1].upTo \in Nat
    <3>1. n # 1 => n - 1 \in DOMAIN queue
      BY <1>1
    <3> QED  BY <1>0, <3>1, QueueParts
  <2>5. Len(queue[n].shown) \in Nat
    BY <1>0, <1>1, QueueParts
  <2> QED  BY <2>1, <2>2, <2>3, <2>4, <2>5
<1>5. bytes' = ShownBytes'
  <2>1. bytes = ShownBytes /\ ShownBytes \in Nat /\ ShownBytes < Word
    BY <1>0, QueueParts DEF ListInv, Counted
  <2>2. Word + bytes - Len(queue[n].data) = Word + ShownBytes' /\ ShownBytes' \in 0 .. Word - 1
    BY <1>2, <1>4, <2>1, BufferListAssumption
  <2> QED  BY <1>2, <2>2, SmallModulo
<1>6. Counted'
  <2>1. ShownBytes \in Nat /\ ShownBytes < Word
    BY <1>0, QueueParts DEF ListInv, Counted
  <2> QED  BY <1>4, <1>5, <2>1, BufferListAssumption DEF Counted
<1>7. TypeOK'
  <2>1. bytes' \in 0 .. Word - 1
    BY <1>4, <1>5, <1>6, BufferListAssumption DEF Counted
  <2> QED  BY <1>0, <1>2, <1>3, <2>1 DEF TypeOK
<1>8. Unique'
  <2>1. \A i \in 1 .. n - 1 : i \in DOMAIN queue
    BY <1>1
  <2> QED  BY <1>3, <2>1 DEF ListInv, Unique
<1>9. LengthsFit'
  <2>1. \A i \in 1 .. n - 1 : i \in DOMAIN queue
    BY <1>1
  <2> QED  BY <1>2, <1>3, <2>1 DEF ListInv, LengthsFit, Newest
<1>10. Sums'
  <2> SUFFICES ASSUME NEW i \in 1 .. n - 1
               PROVE  queue'[i].upTo = (IF i = 1 THEN 0 ELSE queue'[i - 1].upTo) + Len(queue'[i].shown)
    BY <1>3 DEF Sums
  <2>1. i \in DOMAIN queue /\ (i # 1 => i - 1 \in 1 .. n - 1)
    BY <1>1
  <2> QED  BY <1>3, <2>1 DEF ListInv, Sums
<1>11. EmptyAtEnd'
  <2>1. \A i \in 1 .. n - 1 : i \in DOMAIN queue
    BY <1>1
  <2> QED  BY <1>2, <1>3, <2>1 DEF ListInv, EmptyAtEnd, EndStream
<1> QED  BY <1>2, <1>6, <1>7, <1>8, <1>9, <1>10, <1>11 DEF ListInv

\* All that is kept is passed on.
LEMMA MoveOutKeeps ==
    ASSUME ListInv, Answered("Continue"), MoveOut
    PROVE  ListInv'
<1>1. passed' \in Seq(Seq(Byte))
  BY ContentsType, ConcatProperties DEF ListInv, TypeOK, MoveOut
<1> QED  BY <1>1, EmptiedKeeps DEF Answered, MoveOut, ListInv, TypeOK

\* The handler panicked or replied.
LEMMA FailKeeps ==
    ASSUME ListInv, Fail
    PROVE  ListInv'
BY EmptiedKeeps DEF Fail, ListInv, TypeOK

\* Nothing happens to the list.
LEMMA AnswerKeeps ==
    ASSUME ListInv, UNCHANGED <<queue, bytes, passed>>,
           \E status \in {"Continue", "StopAndBuffer", "StopAndBufferWatermark"} : Answered(status)
    PROVE  ListInv'
<1>1. overrun' \in BOOLEAN /\ value' \in Seq(Nat) /\ passed' \in Seq(Seq(Byte))
  BY DEF ListInv, TypeOK, Answered
<1> QED  BY <1>1, UntouchedKeeps DEF Answered

-----------------------------------------------------------------------------
(* The invariant and what it implies.                                      *)

LEMMA NextKeeps ==
    ASSUME ListInv, Rules = Rule, [Next]_vars
    PROVE  ListInv'
<1>1. CASE Show
  BY <1>1, ShowDataKeeps, ShowTrailersKeeps DEF Show
<1>2. CASE Use
  <2> PICK b \in DOMAIN objects :
           TouchGone(b) \/ Read(b) \/ Write(b) \/ Edit(b) \/ Unimplemented(b)
    BY <1>2 DEF Use
  <2>1. CASE TouchGone(b) \/ Unimplemented(b)
    BY <2>1, FailKeeps DEF TouchGone, Unimplemented
  <2>2. CASE Read(b)
    BY <2>2, ReadKeeps
  <2>3. CASE Write(b)
    BY <2>3, WriteKeeps DEF Write
  <2>4. CASE Edit(b)
    BY <2>4, WriteKeeps DEF Edit
  <2> QED  BY <2>1, <2>2, <2>3, <2>4
<1>3. CASE Answer
  <2>1. CASE ContinueData
    BY <2>1, MoveOutKeeps DEF ContinueData
  <2>2. CASE ContinueTrailers
    BY <2>2, AnswerKeeps DEF ContinueTrailers
  <2>3. CASE ContinueLater
    BY <2>3, MoveOutKeeps, AnswerKeeps DEF ContinueLater
  <2>4. CASE StopAndBuffer
    BY <2>4, AnswerKeeps DEF StopAndBuffer
  <2>5. CASE StopNoBuffer
    BY <2>5, StopNoBufferKeeps
  <2>6. CASE LocalReply
    BY <2>6, FailKeeps DEF LocalReply
  <2> QED  BY <1>3, <2>1, <2>2, <2>3, <2>4, <2>5, <2>6 DEF Answer
<1>4. CASE UNCHANGED vars
  BY <1>4, UntouchedKeeps DEF vars, ListInv, TypeOK
<1> QED  BY <1>1, <1>2, <1>3, <1>4 DEF Next

\* An invariant that every step of handlers that keep to the rules preserves: kept
\* addresses are distinct, upTo and the counter add up what was shown, and the newest
\* object of a kept buffer has the length it was shown with.
THEOREM ListInvariant == Rules = Rule => (Spec => []ListInv)
<1> SUFFICES ASSUME Rules = Rule PROVE Spec => []ListInv
  OBVIOUS
<1>1. Init => ListInv
  BY ListInit
<1>2. ListInv /\ [Next]_vars => ListInv'
  BY NextKeeps
<1> QED  BY <1>1, <1>2, PTL DEF Spec

\* The counter is 0 before the end of the message only if nothing is kept.
LEMMA CounterTells == ASSUME ListInv PROVE CounterIsReliable
<1>1. SUFFICES ASSUME bytes = 0, queue # <<>>
               PROVE  EndStream
  BY DEF CounterIsReliable
<1> DEFINE n == Len(queue)
<1>2. TypeOK
  BY DEF ListInv
<1>3. n \in Nat /\ n \in DOMAIN queue /\ DOMAIN queue = 1 .. n
  BY <1>1, <1>2, QueueParts, EmptySeq
<1>4. queue[n].upTo = 0
  BY <1>1 DEF ListInv, Counted, ShownBytes, Last
<1>5. queue[n].upTo = (IF n = 1 THEN 0 ELSE queue[n - 1].upTo) + Len(queue[n].shown)
  BY <1>3 DEF ListInv, Sums
<1>6. /\ n # 1 => queue[n - 1].upTo \in Nat
      /\ queue[n].shown \in Seq(Byte)
      /\ Len(queue[n].shown) \in Nat
  BY <1>2, <1>3, QueueParts
<1>7. queue[n].shown = <<>>
  <2>1. Len(queue[n].shown) = 0
    BY <1>4, <1>5, <1>6
  <2> QED  BY <1>6, <2>1, EmptySeq
<1> QED  BY <1>3, <1>7 DEF ListInv, EmptyAtEnd

\* continueDoData takes bytes_ = 0 for "nothing is kept", and may.
THEOREM CounterReliable == Rules = Rule => (Spec => []CounterIsReliable)
<1>1. ListInv => CounterIsReliable
  BY CounterTells
<1> QED  BY <1>1, ListInvariant, PTL

-----------------------------------------------------------------------------
(* The list keeps what KeptData promises.                                  *)

\* A buffer that comes last is a piece that comes last.
LEMMA ContentsGrow ==
    ASSUME TypeOK, NEW new \in Buffer, queue' = Append(queue, new)
    PROVE  Contents' = Contents \o <<new.data>>
<1> DEFINE n == Len(queue)
<1>1. n \in Nat /\ DOMAIN queue = 1 .. n
  BY QueueParts
<1>2. /\ queue' \in Seq(Buffer) /\ Len(queue') = n + 1 /\ DOMAIN queue' = 1 .. n + 1
      /\ \A i \in 1 .. n : queue'[i] = queue[i]
      /\ queue'[n + 1] = new
  BY AppendProperties, QueueParts
<1>3. new.data \in Seq(Byte)
  BY DEF Buffer
<1>4. Contents \in Seq(Seq(Byte)) /\ Len(Contents) = n /\ DOMAIN Contents = 1 .. n
  BY <1>1, ContentsType
<1>5. Contents \o <<new.data>> = Append(Contents, new.data)
  BY <1>3, <1>4, AppendIsConcat
<1>6. /\ Append(Contents, new.data) \in Seq(Seq(Byte))
      /\ Len(Append(Contents, new.data)) = n + 1
      /\ \A i \in 1 .. n : Append(Contents, new.data)[i] = Contents[i]
      /\ Append(Contents, new.data)[n + 1] = new.data
  BY <1>3, <1>4, AppendProperties
<1>7. Contents' = [i \in 1 .. n + 1 |-> queue'[i].data]
  BY <1>2 DEF Contents
<1>8. \A i \in 1 .. n : Contents[i] = queue[i].data
  BY <1>1 DEF Contents
<1> HIDE DEF n
<1>9. ASSUME NEW i \in 1 .. n + 1
      PROVE  Contents'[i] = Append(Contents, new.data)[i]
  <2>1. Contents'[i] = queue'[i].data
    BY <1>7
  <2>2. i \in 1 .. n \/ i = n + 1
    BY <1>1
  <2> QED  BY <1>2, <1>6, <1>8, <2>1, <2>2
<1>10. Append(Contents, new.data) = [i \in 1 .. n + 1 |-> Append(Contents, new.data)[i]]
  BY <1>1, <1>6
<1> QED  BY <1>5, <1>7, <1>9, <1>10

\* The contents of no buffers.
LEMMA ContentsEmpty == queue = <<>> => Contents = <<>>
BY DEF Contents

LEMMA ContentsEmptyNext == queue' = <<>> => Contents' = <<>>
BY DEF Contents

\* Calls into Go show a piece, or none.
LEMMA ShowIsShow ==
    ASSUME ListInv, Show
    PROVE  KeptData!Next
<1>0. TypeOK
  BY DEF ListInv
<1>1. CASE ShowTrailers
  <2>1. Contents' = Contents /\ Contents \in Seq(Seq(Byte))
    BY <1>0, <1>1, ContentsType DEF ShowTrailers, Contents
  <2>2. Contents' = Contents \o <<>>
    BY <2>1, ConcatEmptySeq
  <2>3. KeptData!Show(<<>>)
    BY <1>1, <2>2 DEF ShowTrailers, MayShow, KeptData!Show
  <2> QED  BY <2>3 DEF KeptData!Next
<1>2. ASSUME NEW a \in Address, NEW data \in Frame, NEW endStream \in BOOLEAN,
             ShowData(a, data, endStream)
      PROVE  KeptData!Next
  <2>1. NewBuffer(a, data) \in Buffer /\ NewBuffer(a, data).data = data
    BY <1>0, QueueParts, BufferListAssumption DEF NewBuffer, Buffer, Byte
  <2>2. Contents' = Contents \o <<data>>
    BY <1>0, <1>2, <2>1, ContentsGrow DEF ShowData, Push
  <2>3. KeptData!Show(<<data>>)
    BY <1>2, <2>2 DEF ShowData, MayShow, KeptData!Show
  <2> QED  BY <2>3 DEF KeptData!Next
<1> QED  BY <1>1, <1>2 DEF Show

\* A handler that fails drops all pieces.
LEMMA FailDrops ==
    ASSUME ListInv, Fail, answer = "none"
    PROVE  KeptData!Next
<1>1. Contents' = <<>>
  BY ContentsEmptyNext DEF Fail, ClearAll
<1>2. KeptData!DropAll /\ value' = value
  BY <1>1 DEF Fail, KeptData!DropAll
<1> QED  BY <1>2 DEF KeptData!Next, KeptData!Answer

\* A read of an object reads the oldest piece.
LEMMA ReadIsRead ==
    ASSUME ListInv, Rules = Rule, NEW b \in DOMAIN objects, Read(b)
    PROVE  KeptData!Next
<1>1. /\ 1 \in DOMAIN queue /\ answer = "none" /\ value' = queue[1].data
      /\ UNCHANGED <<queue, answer, passed>>
  BY ReadReturns
<1>2. 1 \in DOMAIN Contents /\ Contents[1] = queue[1].data /\ Contents' = Contents
  BY <1>1 DEF Contents
<1>3. KeptData!Read(1)
  BY <1>1, <1>2 DEF KeptData!Read
<1> QED  BY <1>2, <1>3 DEF KeptData!Next

\* A write to an object writes to the oldest piece.
LEMMA WriteIsWrite ==
    ASSUME ListInv, Rules = Rule, NEW b \in DOMAIN objects, NEW s \in String,
           NEW action \in {"set", "append", "prepend"}, SetBufferHelper(b, action, s)
    PROVE  KeptData!Next
<1> DEFINE new == Rewritten(queue[1].data, action, s)
<1>0. TypeOK
  BY DEF ListInv
<1>1. /\ 1 \in DOMAIN queue /\ answer = "none"
      /\ queue' = [queue EXCEPT ![1].data = new]
      /\ UNCHANGED <<answer, passed, value>>
  BY WriteChanges
<1>2. new = KeptData!Rewritten(queue[1].data, action, s)
  BY DEF Rewritten, KeptData!Rewritten
<1> HIDE DEF new
<1>3. queue[1] \in Buffer
  BY <1>0, <1>1, QueueParts
<1>4. queue' = [queue EXCEPT ![1] = [queue[1] EXCEPT !.data = new]]
  BY <1>1
<1>5. [queue[1] EXCEPT !.data = new].data = new
  BY <1>3 DEF Buffer
<1>6. Contents' = [Contents EXCEPT ![1] = new]
  <2>1. DOMAIN queue' = DOMAIN queue
    BY <1>4
  <2>2. Contents' = [i \in DOMAIN queue |-> queue'[i].data]
    BY <2>1 DEF Contents
  <2>3. ASSUME NEW i \in DOMAIN queue
        PROVE  queue'[i].data = IF i = 1 THEN new ELSE queue[i].data
    BY <1>4, <1>5, <2>3
  <2> QED  BY <1>1, <2>2, <2>3 DEF Contents
<1>7. 1 \in DOMAIN Contents /\ Contents[1] = queue[1].data
  BY <1>1 DEF Contents
<1>8. KeptData!Write(1, action, s)
  BY <1>1, <1>2, <1>6, <1>7 DEF KeptData!Write
<1> QED  BY <1>7, <1>8 DEF KeptData!Next

\* Continue passes on all pieces.
LEMMA MoveOutPasses ==
    ASSUME ListInv, Answered("Continue"), MoveOut
    PROVE  KeptData!Next
<1>1. Contents' = <<>>
  BY ContentsEmptyNext DEF MoveOut, ClearAll
<1>2. KeptData!Pass /\ answer = "none" /\ value' = value
  BY <1>1 DEF MoveOut, Answered, KeptData!Pass
<1> QED  BY <1>2 DEF KeptData!Next, KeptData!Answer

\* Continue when nothing is kept passes on all pieces, too.
LEMMA NothingPasses ==
    ASSUME ListInv, Answered("Continue"), UNCHANGED <<queue, passed>>, queue = <<>>
    PROVE  KeptData!Next
<1>1. Contents = <<>> /\ Contents' = <<>>
  BY ContentsEmpty, ContentsEmptyNext
<1>2. passed' = passed \o Contents
  BY <1>1, ConcatEmptySeq DEF ListInv, TypeOK
<1>3. KeptData!Pass /\ answer = "none" /\ value' = value
  BY <1>1, <1>2 DEF Answered, KeptData!Pass
<1> QED  BY <1>3 DEF KeptData!Next, KeptData!Answer

\* clearLatest drops the newest piece.
LEMMA StopNoBufferDrops ==
    ASSUME ListInv, Rules = Rule, StopNoBuffer
    PROVE  KeptData!Next
<1>0. TypeOK /\ queue # <<>> /\ queue \in Seq(Buffer)
  BY QueueParts DEF ListInv, StopNoBuffer
<1>1. queue' = Front(queue)
  BY StopNoBufferKeeps
<1>2. /\ DOMAIN queue' = 1 .. Len(queue) - 1
      /\ \A i \in 1 .. Len(queue) - 1 : queue'[i] = queue[i]
  BY <1>0, <1>1, FrontParts
<1>3. Contents' = [i \in 1 .. Len(queue) - 1 |-> queue[i].data]
  BY <1>2 DEF Contents
<1>4. Contents \in Seq(Seq(Byte)) /\ Len(Contents) = Len(queue) /\ Contents # <<>>
  <2>1. Contents \in Seq(Seq(Byte)) /\ Len(Contents) = Len(queue)
    BY <1>0, ContentsType
  <2> QED  BY <1>0, <2>1, EmptySeq
<1>5. /\ Front(Contents) \in Seq(Seq(Byte))
      /\ DOMAIN Front(Contents) = 1 .. Len(queue) - 1
      /\ \A i \in 1 .. Len(queue) - 1 : Front(Contents)[i] = Contents[i]
  BY <1>4, FrontParts
<1>6. \A i \in 1 .. Len(queue) - 1 : Contents[i] = queue[i].data
  BY <1>0, QueueParts DEF Contents
<1>7. Front(Contents) = [i \in 1 .. Len(queue) - 1 |-> Front(Contents)[i]]
  BY <1>5
<1>8. Contents' = Front(Contents)
  BY <1>3, <1>5, <1>6, <1>7
<1>9. KeptData!DropNewest /\ answer = "none" /\ value' = value
  BY <1>8 DEF StopNoBuffer, Answered, KeptData!DropNewest, KeptData!Front, Front
<1> QED  BY <1>9 DEF KeptData!Next, KeptData!Answer

\* StopAndBuffer and StopAndBufferWatermark keep the pieces.
LEMMA StopAndBufferKeeps ==
    ASSUME ListInv, StopAndBuffer
    PROVE  KeptData!Next
<1>1. Contents' = Contents
  BY DEF StopAndBuffer, Contents
<1>2. KeptData!Keep /\ answer = "none" /\ value' = value
  BY <1>1 DEF StopAndBuffer, Answered, KeptData!Keep
<1> QED  BY <1>2 DEF KeptData!Next, KeptData!Answer

\* Every step of the list is one of KeptData, or is not seen there.
LEMMA StepIsKept ==
    ASSUME ListInv, Rules = Rule, [Next]_vars
    PROVE  [KeptData!Next]_(KeptData!keptVars)
<1>1. CASE Show
  BY <1>1, ShowIsShow
<1>2. CASE Use
  <2> PICK b \in DOMAIN objects :
           TouchGone(b) \/ Read(b) \/ Write(b) \/ Edit(b) \/ Unimplemented(b)
    BY <1>2 DEF Use
  <2>1. CASE TouchGone(b) \/ Unimplemented(b)
    BY <2>1, FailDrops DEF TouchGone, MayTouch, Unimplemented
  <2>2. CASE Read(b)
    BY <2>2, ReadIsRead
  <2>3. CASE Write(b)
    BY <2>3, WriteIsWrite DEF Write
  <2>4. CASE Edit(b)
    BY <2>4, WriteIsWrite DEF Edit
  <2> QED  BY <2>1, <2>2, <2>3, <2>4
<1>3. CASE Answer
  <2>1. CASE ContinueData
    BY <2>1, MoveOutPasses DEF ContinueData
  <2>2. CASE ContinueTrailers
    BY <2>2, NothingPasses DEF ContinueTrailers, Rule
  <2>3. CASE ContinueLater
    <3>1. NothingToDo => queue = <<>>
      BY CounterTells DEF CounterIsReliable, NothingToDo
    <3> QED  BY <2>3, <3>1, MoveOutPasses, NothingPasses DEF ContinueLater
  <2>4. CASE StopAndBuffer
    BY <2>4, StopAndBufferKeeps
  <2>5. CASE StopNoBuffer
    BY <2>5, StopNoBufferDrops
  <2>6. CASE LocalReply
    BY <2>6, FailDrops DEF LocalReply
  <2> QED  BY <1>3, <2>1, <2>2, <2>3, <2>4, <2>5, <2>6 DEF Answer
<1>4. CASE UNCHANGED vars
  <2>1. Contents' = Contents
    BY <1>4 DEF vars, Contents
  <2> QED  BY <1>4, <2>1 DEF vars, KeptData!keptVars
<1> QED  BY <1>1, <1>2, <1>3, <1>4 DEF Next

\* The data shown to Go is kept, read, written, dropped and passed on as KeptData
\* says, whatever checkExisting forgets and bytes_ does not count.
THEOREM ImplementsKeptData == Rules = Rule => (Spec => DataIsKept)
<1> SUFFICES ASSUME Rules = Rule PROVE Spec => DataIsKept
  OBVIOUS
<1>1. Init => KeptData!Init
  BY ContentsEmpty DEF Init, KeptData!Init
<1>2. ListInv /\ [Next]_vars => [KeptData!Next]_(KeptData!keptVars)
  BY StepIsKept
<1>3. Spec => []ListInv
  BY ListInvariant
<1> QED  BY <1>1, <1>2, <1>3, PTL DEF Spec, DataIsKept, KeptData!Spec
=============================================================================
