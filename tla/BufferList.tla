----------------------------- MODULE BufferList -----------------------------
(***************************************************************************)
(* The list doDataList of one direction (class BufferList of               *)
(* src/envoy/http/golang/processor_state.{h,cc}) and the httpBuffer        *)
(* objects by which Go handlers read and write its buffers                 *)
(* (pkg/http/type.go, copyBuffer and setBufferHelper of golang_filter.cc). *)
(*                                                                         *)
(* A buffer is known to Go by its address, and to its object by the length *)
(* it had when it was shown.  The list forgets buffers when it is looked   *)
(* through, and counts the bytes it was given, not the bytes it has; so a  *)
(* handler is kept what KeptData promises it only if it keeps to Rules.    *)
(***************************************************************************)
EXTENDS Naturals, Sequences, SequencesExt, FiniteSets

CONSTANTS
    Frame,      \* bound: the data frames that come in
    String,     \* bound: the texts a handler writes
    Address,    \* bound: the addresses of buffers
    MaxShown,   \* bound: the buffers shown to Go
    MaxLength,  \* bound: the bytes of a buffer after a handler wrote to it
    Word,       \* bytes_ is a number modulo this one, 2^32
    Rules       \* the rules the handlers, and the rest of the program, keep to

Rule == {
    "TouchOldest",      \* a kept buffer is read or written only while it is the oldest
    "ReadFirst",        \* a buffer is not read after it was changed
    "ChangedIsPassed",  \* a buffer that was changed is not dropped by StopNoBuffer
    "TrailersAlone",    \* trailers are answered Continue at once only when no data is kept
    "OwnBuffer",        \* an object is not used once its buffer's address is that of a later one
    "FitsWord"}         \* less than 4 GiB are kept at a time

ASSUME BufferListAssumption ==
    /\ Frame \subseteq Seq(0 .. 255)
    /\ String \subseteq Seq(0 .. 255)
    /\ MaxShown \in Nat
    /\ MaxLength \in Nat
    /\ Word \in Nat \ {0}
    /\ Rules \subseteq Rule

VARIABLES
    queue,    \* queue_: the buffers, each with its address and its data, and as a history
              \* the data it was shown with and the bytes shown so far with those kept
    bytes,    \* bytes_
    objects,  \* the httpBuffer objects Go was given, by address and length
    call,     \* the last call: about data or trailers, with do_end_stream_
    answer,   \* the last answer, or "none" while a handler is at work
    passed,   \* the contents passed on to the next filter
    value,    \* what the last Bytes or String returned
    overrun   \* history: a copy went beyond the memory Go made for it

vars == <<queue, bytes, objects, call, answer, passed, value, overrun>>

Init ==
    /\ queue = <<>>
    /\ bytes = 0
    /\ objects = <<>>
    /\ call = [kind |-> "headers", end |-> FALSE]
    /\ answer = "Continue"
    /\ passed = <<>>
    /\ value = <<>>
    /\ overrun = FALSE

\* What the buffers hold.
Contents == [i \in DOMAIN queue |-> queue[i].data]

Kept(a) == \E i \in DOMAIN queue : queue[i].at = a

\* The object is the last one Go was given for its address.
Newest(b) == \A c \in DOMAIN objects : objects[c].at = objects[b].at => c <= b

\* The bytes the kept buffers were shown with.
ShownBytes == IF queue = <<>> THEN 0 ELSE Last(queue).upTo

NewBuffer(a, data) ==
    [at |-> a, data |-> data, shown |-> data, upTo |-> ShownBytes + Len(data)]

-----------------------------------------------------------------------------
(* Calls into Go *)

\* Nothing more comes after the end of the message, or after a local reply.
MayShow == answer \notin {"none", "LocalReply"} /\ ~call.end

\* Mutant: the counter is set instead of added to.
Push_SetsCounter(a, data) ==
    /\ queue' = Append(queue, NewBuffer(a, data))
    /\ bytes' = Len(data) % Word

\* push
Push(a, data) ==
    /\ queue' = Append(queue, NewBuffer(a, data))
    /\ bytes' = (bytes + Len(data)) % Word

\* doDataGo: the data goes into a new buffer, whose address Go is given.
ShowData(a, data, endStream) ==
    /\ MayShow
    /\ Len(objects) < MaxShown
    /\ data # <<>> \/ endStream
    /\ ~Kept(a)
    /\ "FitsWord" \in Rules => ShownBytes + Len(data) < Word
    /\ call' = [kind |-> "data", end |-> endStream]
    /\ answer' = "none"
    /\ Push(a, data)
    /\ objects' = Append(objects, [at |-> a, length |-> Len(data)])
    /\ UNCHANGED <<passed, value, overrun>>

\* doTrailerGo
ShowTrailers ==
    /\ MayShow
    /\ call' = [kind |-> "trailers", end |-> TRUE]
    /\ answer' = "none"
    /\ UNCHANGED <<queue, bytes, objects, passed, value, overrun>>

-----------------------------------------------------------------------------
(* What a handler does with the buffers it was given *)

ClearAll == queue' = <<>> /\ bytes' = 0

\* The handler panics; RecoverPanic sends a local reply with 500.
Fail == ClearAll /\ answer' = "LocalReply" /\ UNCHANGED <<objects, call, passed, value, overrun>>

\* A handler goes to the buffer of an object, by the rules.
MayTouch(b) ==
    /\ answer = "none"
    /\ "OwnBuffer" \in Rules => Newest(b)
    /\ "TouchOldest" \in Rules /\ Kept(objects[b].at) => queue[1].at = objects[b].at

\* The list after checkExisting found the buffer at address a: the buffers
\* before it are erased.
Existing(a) == SubSeq(queue, CHOOSE i \in DOMAIN queue : queue[i].at = a, Len(queue))

\* checkExisting did not find the buffer, and erased the whole list:
\* ErrInvalidPhase.
TouchGone(b) ==
    /\ MayTouch(b)
    /\ ~Kept(objects[b].at)
    /\ Fail

\* Memory for length bytes, all zero, after data was copied into it.
Copied(data, length) == [i \in 1 .. length |-> IF i <= Len(data) THEN data[i] ELSE 0]

\* HttpGetBuffer and copyBuffer
CopyBuffer(a, length) ==
    LET q == Existing(a)
    IN  /\ queue' = q
        /\ value' = Copied(q[1].data, length)
        /\ overrun' = (overrun \/ Len(q[1].data) > length)

\* Bytes, String: an object of an empty buffer answers by itself.
Read(b) ==
    LET a == objects[b].at
    IN  /\ MayTouch(b)
        /\ "ReadFirst" \in Rules => \A i \in DOMAIN queue : queue[i].at = a => queue[i].data = queue[i].shown
        /\ \/ /\ objects[b].length = 0
              /\ value' = <<>>
              /\ UNCHANGED <<queue, overrun>>
           \/ /\ objects[b].length > 0
              /\ Kept(a)
              /\ CopyBuffer(a, objects[b].length)
        /\ UNCHANGED <<bytes, objects, call, answer, passed>>

Rewritten(data, action, s) ==
    CASE action = "set"     -> s
      [] action = "append"  -> data \o s
      [] action = "prepend" -> s \o data

\* setBufferHelper
SetBufferHelper(b, action, s) ==
    LET a == objects[b].at
    IN  /\ Kept(a)
        /\ MayTouch(b)
        /\ Len(Rewritten(Existing(a)[1].data, action, s)) <= MaxLength
        /\ queue' = [Existing(a) EXCEPT ![1].data = Rewritten(@, action, s)]
        /\ UNCHANGED <<bytes, objects, call, answer, passed, value, overrun>>

\* Write, WriteString, WriteByte, and WriteUint16, 32 and 64 with the number in
\* decimal: all of them append.
Write(b) == \E s \in String : SetBufferHelper(b, "append", s)

\* Append, Prepend and Set, of bytes or of a string.
Edit(b) == \E action \in {"set", "append", "prepend"}, s \in String : SetBufferHelper(b, action, s)

\* Peek, Drain, Reset: "implement me".
Unimplemented(b) == answer = "none" /\ Fail

-----------------------------------------------------------------------------
(* What a handler answers *)

Answered(status) == answer = "none" /\ answer' = status /\ UNCHANGED <<objects, call, value, overrun>>

\* moveOut
MoveOut ==
    /\ passed' = passed \o Contents
    /\ ClearAll

\* decodeData or encodeData returns after Go said Continue.
ContinueData == call.kind = "data" /\ Answered("Continue") /\ MoveOut

\* decodeTrailers or encodeTrailers does: the list stays as it is.
ContinueTrailers ==
    /\ call.kind = "trailers"
    /\ "TrailersAlone" \in Rules => queue = <<>>
    /\ Answered("Continue")
    /\ UNCHANGED <<queue, bytes, passed>>

\* end_stream_: the message ended with data, not with trailers.
EndStream == call.kind = "data" /\ call.end

\* Mutant: the end of the stream does not count.
NothingToDo_AtEnd == bytes = 0

NothingToDo == ~EndStream /\ bytes = 0

\* continueDoData, for a handler that answered from a goroutine
ContinueLater ==
    /\ Answered("Continue")
    /\ IF NothingToDo THEN UNCHANGED <<queue, bytes, passed>> ELSE MoveOut

StopAndBuffer ==
    /\ call.kind = "data"
    /\ ~call.end
    /\ \/ Answered("StopAndBuffer")
       \/ Answered("StopAndBufferWatermark")
    /\ UNCHANGED <<queue, bytes, passed>>

\* clearLatest
ClearLatest ==
    /\ bytes' = (Word + bytes - Len(Last(queue).data)) % Word
    /\ queue' = Front(queue)

StopNoBuffer ==
    /\ call.kind = "data"
    /\ ~call.end
    /\ queue # <<>>
    /\ "ChangedIsPassed" \in Rules => Last(queue).data = Last(queue).shown
    /\ Answered("StopNoBuffer")
    /\ ClearLatest
    /\ UNCHANGED passed

\* sendLocalReplyInternal
LocalReply == answer = "none" /\ Fail

-----------------------------------------------------------------------------
Show ==
    \/ \E a \in Address, data \in Frame, endStream \in BOOLEAN : ShowData(a, data, endStream)
    \/ ShowTrailers

Use ==
    \E b \in DOMAIN objects :
        \/ TouchGone(b)
        \/ Read(b)
        \/ Write(b)
        \/ Edit(b)
        \/ Unimplemented(b)

Answer ==
    \/ ContinueData
    \/ ContinueTrailers
    \/ ContinueLater
    \/ StopAndBuffer
    \/ StopNoBuffer
    \/ LocalReply

Next == Show \/ Use \/ Answer

Spec == Init /\ [][Next]_vars

-----------------------------------------------------------------------------
(* Properties *)

Byte == 0 .. 255

Buffer == [at : Address, data : Seq(Byte), shown : Seq(Byte), upTo : Nat]

TypeOK ==
    /\ queue \in Seq(Buffer)
    /\ bytes \in 0 .. Word - 1
    /\ objects \in Seq([at : Address, length : Nat])
    /\ call \in [kind : {"headers", "data", "trailers"}, end : BOOLEAN]
    /\ answer \in {"none", "Continue", "StopAndBuffer", "StopAndBufferWatermark",
                   "StopNoBuffer", "LocalReply"}
    /\ passed \in Seq(Seq(Byte))
    /\ value \in Seq(Nat)
    /\ overrun \in BOOLEAN

KeptData == INSTANCE KeptData WITH pieces <- Contents

\* pkg/api/type.go, Bytes: "returns all bytes from buffer, without draining any
\* buffered data".  Whatever a handler reads or writes of the data it was shown,
\* the rest is kept, in order, until its answer passes it on or drops it; the
\* answer drops what it says and passes on all that is kept.
DataIsKept == KeptData!Spec

\* README: users "use Go as normal, do not need to care about memory safety".  The
\* bytes copied to Go fit the memory made for them, for which the object remembers
\* a length; it does not learn of what a handler writes.
CopyFits == ~overrun

\* continueDoData passes nothing on when the list counts no bytes before the end
\* of the message: then nothing is kept, although the counter knows nothing of
\* what a handler wrote.
CounterIsReliable == bytes = 0 => queue = <<>> \/ EndStream
=============================================================================
