------------------------- MODULE GolangFilterProofs -------------------------
(***************************************************************************)
(* Theorems about GolangFilter, for every value of its constants: types,   *)
(* and what keeps the calls into Go apart.  In a calm environment at most  *)
(* one handler of a stream is at work, its answer reaches the state that   *)
(* stands for its call, no handler is ever refused, and a local reply that *)
(* waits for a handler is woken up: for any number of chunks, with         *)
(* trailers, other local replies and resets.                               *)
(***************************************************************************)
EXTENDS GolangFilter, SequenceTheorems, TLAPS

-----------------------------------------------------------------------------
(* Operators of ProcessorState: each yields a processor state, and what it *)
(* does to the state field and to the private buffer.                      *)

\* Items, data lists and end marks are what their names say.
LEMMA ItemTypes ==
    /\ Hdr \in Item /\ End \in Item /\ Trl \in Item
    /\ Chunks \subseteq Item
    /\ \A i \in Nat : Chunk(i) \in Chunks
    /\ \A b \in BOOLEAN : EndIf(b) \in Seq(Item)
BY DEF Hdr, End, Trl, Item, Chunks, Chunk, EndIf

\* A buffer of data is a sequence of items.
LEMMA DataIsItems ==
    ASSUME NEW data \in Seq(Chunks)
    PROVE  data \in Seq(Item)
BY ItemTypes, SeqMonotonic

\* A new processor state is one, and waits for its headers with nothing kept.
LEMMA NewProcessorType == NewProcessor \in Processor
BY DEF NewProcessor, Processor, FilterState

\* The content of doDataList is data.
LEMMA DataListType ==
    ASSUME NEW p \in Processor
    PROVE  DataList(p) \in Seq(Chunks)
BY ConcatProperties DEF DataList, Processor

\* The list and buffer operations keep the type.
LEMMA ListTypes ==
    ASSUME NEW p \in Processor
    PROVE  /\ ClearLatest(p) \in Processor
           /\ ClearAll(p) \in Processor
           /\ TakeBuffer(p) \in Processor
           /\ \A data \in Seq(Chunks) : Push(p, data) \in Processor
<1>0. <<>> \in Seq(Chunks)
  BY EmptySeq
<1>1. ClearLatest(p) \in Processor
  BY <1>0 DEF ClearLatest, Processor
<1>2. ClearAll(p) \in Processor
  BY <1>0 DEF ClearAll, Processor
<1>3. TakeBuffer(p) \in Processor
  BY <1>0 DEF TakeBuffer, Processor
<1>4. ASSUME NEW data \in Seq(Chunks)
      PROVE  Push(p, data) \in Processor
  BY DataListType DEF Push, Processor
<1> QED  BY <1>1, <1>2, <1>3, <1>4

\* Data added to the private buffer.
LEMMA AddBufferDataType ==
    ASSUME NEW p \in Processor, NEW data \in Seq(Chunks), NEW limit
    PROVE  AddBufferData(p, data, limit) \in Processor
<1>1. p.dataBuffer \o data \in Seq(Chunks)
  BY ConcatProperties DEF Processor
<1>2. (p.watermarkRequested
         \/ (Crosses(p, data, limit) /\ ~Overflows(p, data, limit))) \in BOOLEAN
  BY DEF Processor
<1> QED  BY <1>1, <1>2 DEF AddBufferData, Processor

\* Entering Go.
LEMMA ProcessTypes ==
    ASSUME NEW p \in Processor
    PROVE  /\ \A b \in BOOLEAN : ProcessHeader(p, b) \in Processor
           /\ \A b \in BOOLEAN : ProcessData(p, b) \in Processor
           /\ ProcessTrailer(p) \in Processor
BY DEF ProcessHeader, ProcessData, ProcessTrailer, Processor, FilterState

\* Handling an answer of Go.
LEMMA HandleTypes ==
    ASSUME NEW p \in Processor, NEW status
    PROVE  /\ HandleHeaderGolangStatus(p, status) \in Processor
           /\ HandleDataGolangStatus(p, status) \in Processor
           /\ HandleTrailerGolangStatus(p, status) \in Processor
           /\ HandleGolangStatus(p, status) \in Processor
<1>1. HandleHeaderGolangStatus(p, status) \in Processor
  BY DEF HandleHeaderGolangStatus, AfterContinue, Processor, FilterState
<1>2. HandleDataGolangStatus(p, status) \in Processor
  <2>1. ASSUME NEW q \in Processor, NEW s \in FilterState
        PROVE  [q EXCEPT !.state = s] \in Processor
    BY <2>1 DEF Processor
  <2>2. ClearLatest(p) \in Processor
    BY ListTypes
  <2>3. (IF p.seenTrailers /\ p.dataBuffer = <<>> THEN "WaitingTrailer"
         ELSE CASE status = "Continue"      -> AfterContinue(p)
                [] status = "StopAndBuffer" -> "WaitingAllData"
                [] OTHER                    -> "WaitingData") \in FilterState
    BY DEF AfterContinue, FilterState
  <2> QED  BY <2>1, <2>2, <2>3 DEF HandleDataGolangStatus
<1>3. HandleTrailerGolangStatus(p, status) \in Processor
  BY DEF HandleTrailerGolangStatus, Processor, FilterState
<1> QED  BY <1>1, <1>2, <1>3 DEF HandleGolangStatus

-----------------------------------------------------------------------------
(* What the operators do to the state field and to the private buffer.     *)

\* The state kept while Go works on a call tells what the call is about.
LEMMA ProcessingIsInGo ==
    ASSUME NEW p, NEW kind \in Kind, p.state = Processing(kind)
    PROVE  /\ InGo(p)
           /\ p.state \notin {"WaitingHeader", "WaitingData", "WaitingAllData", "WaitingTrailer", "Done"}
           /\ kind = "headers"  <=> p.state = "ProcessingHeader"
           /\ kind = "data"     <=> p.state = "ProcessingData"
           /\ kind = "trailers" <=> p.state = "ProcessingTrailer"
BY DEF Kind, Processing, InGo

\* The list and buffer operations leave the state alone.
LEMMA ListEffects ==
    ASSUME NEW p \in Processor
    PROVE  /\ ClearAll(p).state = p.state /\ ClearAll(p).dataBuffer = p.dataBuffer
           /\ TakeBuffer(p).state = p.state /\ TakeBuffer(p).dataBuffer = <<>>
           /\ ClearLatest(p).state = p.state /\ ClearLatest(p).dataBuffer = p.dataBuffer
           /\ \A data : Push(p, data).state = p.state /\ Push(p, data).dataBuffer = p.dataBuffer
BY DEF ClearAll, TakeBuffer, ClearLatest, Push, Processor

\* Adding to the buffer makes it longer by what is added.
LEMMA AddBufferDataEffects ==
    ASSUME NEW p \in Processor, NEW data \in Seq(Chunks), NEW limit
    PROVE  /\ AddBufferData(p, data, limit).state = p.state
           /\ AddBufferData(p, data, limit).dataBuffer = p.dataBuffer \o data
           /\ Len(p.dataBuffer \o data) = Len(p.dataBuffer) + Len(data)
           /\ Len(p.dataBuffer) \in Nat /\ Len(data) \in Nat
<1>1. p.dataBuffer \in Seq(Chunks)
  BY DEF Processor
<1>2. /\ AddBufferData(p, data, limit).state = p.state
      /\ AddBufferData(p, data, limit).dataBuffer = p.dataBuffer \o data
  BY DEF AddBufferData, Processor
<1>3. /\ Len(p.dataBuffer \o data) = Len(p.dataBuffer) + Len(data)
      /\ Len(p.dataBuffer) \in Nat /\ Len(data) \in Nat
  BY <1>1, ConcatProperties, LenProperties
<1> QED  BY <1>2, <1>3

\* Entering Go leaves the buffer alone.
LEMMA ProcessEffects ==
    ASSUME NEW p \in Processor
    PROVE  /\ \A b : /\ ProcessHeader(p, b).state = Processing("headers")
                     /\ ProcessHeader(p, b).dataBuffer = p.dataBuffer
           /\ \A b : /\ ProcessData(p, b).state = Processing("data")
                     /\ ProcessData(p, b).dataBuffer = p.dataBuffer
           /\ ProcessTrailer(p).state = Processing("trailers")
           /\ ProcessTrailer(p).dataBuffer = p.dataBuffer
BY DEF ProcessHeader, ProcessData, ProcessTrailer, Processing, Processor

\* An answer that only announces another one leaves the processor state alone;
\* any other answer a handler may give takes it out of Go.  Only StopAndBuffer
\* makes it wait for all data.
Later == {"Running", "LocalReply"}

LEMMA HandleHeaderEffects ==
    ASSUME NEW p \in Processor, NEW status \in GolangStatus
    PROVE  LET q == HandleHeaderGolangStatus(p, status)
           IN  /\ q.dataBuffer = p.dataBuffer
               /\ status \in Later => q.state = p.state
               /\ status \notin Later \cup {"StopNoBuffer"} => ~InGo(q) /\ q.state # "WaitingHeader"
               /\ q.state = "WaitingAllData" => status = "StopAndBuffer" \/ p.state = "WaitingAllData"
BY DEF HandleHeaderGolangStatus, AfterContinue, InGo, Later, GolangStatus, Processor

LEMMA HandleDataEffects ==
    ASSUME NEW p \in Processor, NEW status \in GolangStatus
    PROVE  LET q == HandleDataGolangStatus(p, status)
           IN  /\ q.dataBuffer = p.dataBuffer
               /\ status \in Later => q.state = p.state
               /\ status \notin Later => ~InGo(q) /\ q.state # "WaitingHeader"
               /\ q.state = "WaitingAllData" => status = "StopAndBuffer" \/ p.state = "WaitingAllData"
<1> DEFINE q == HandleDataGolangStatus(p, status)
           next == IF p.seenTrailers /\ p.dataBuffer = <<>> THEN "WaitingTrailer"
                   ELSE CASE status = "Continue"      -> AfterContinue(p)
                          [] status = "StopAndBuffer" -> "WaitingAllData"
                          [] OTHER                    -> "WaitingData"
<1>1. CASE status \in Later
  BY <1>1 DEF HandleDataGolangStatus, Later
<1>2. CASE status \notin Later
  <2>1. q = [(IF status = "StopNoBuffer" THEN ClearLatest(p) ELSE p) EXCEPT !.state = next]
    BY <1>2 DEF HandleDataGolangStatus, Later
  <2>2. /\ ClearLatest(p) \in Processor
        /\ ClearLatest(p).dataBuffer = p.dataBuffer
    BY ListTypes, ListEffects
  <2>3. \A r \in Processor : \A s : [r EXCEPT !.state = s].state = s /\ [r EXCEPT !.state = s].dataBuffer = r.dataBuffer
    BY DEF Processor
  <2>4. q.state = next /\ q.dataBuffer = p.dataBuffer
    BY <2>1, <2>2, <2>3
  <2>5. /\ next \in {"WaitingTrailer", "WaitingData", "WaitingAllData", "Done"}
        /\ next = "WaitingAllData" => status = "StopAndBuffer"
    BY DEF AfterContinue
  <2> HIDE DEF next
  <2> QED  BY <1>2, <2>4, <2>5 DEF InGo
<1> QED  BY <1>1, <1>2

LEMMA HandleTrailerEffects ==
    ASSUME NEW p \in Processor, NEW status \in GolangStatus
    PROVE  LET q == HandleTrailerGolangStatus(p, status)
           IN  /\ q.dataBuffer = p.dataBuffer
               /\ status \in Later => q.state = p.state
               /\ status = "Continue" => q.state = "Done"
               /\ q.state = "WaitingAllData" => p.state = "WaitingAllData"
BY DEF HandleTrailerGolangStatus, Later, Processor

-----------------------------------------------------------------------------
(* Types                                                                   *)

\* A frame put on a call stack.
LEMMA PushFrame ==
    ASSUME NEW at \in Label, NEW d \in Dir, NEW rest \in Seq(Frame)
    PROVE  <<At(at, d)>> \o rest \in Seq(Frame)
<1>1. <<At(at, d)>> \in Seq(Frame)
  BY DEF At, Frame
<1> QED  BY <1>1, ConcatProperties

\* Both directions have a processor state, and a message grows by items.
LEMMA ChangeProcessor ==
    ASSUME NEW procs \in [Dir -> Processor], NEW d \in Dir, NEW p \in Processor
    PROVE  [procs EXCEPT ![d] = p] \in [Dir -> Processor]
OBVIOUS

LEMMA GrowMessage ==
    ASSUME NEW m \in [Dir -> Seq(Item)], NEW d \in Dir, NEW items \in Seq(Item)
    PROVE  [m EXCEPT ![d] = @ \o items] \in [Dir -> Seq(Item)]
BY ConcatProperties

\* What is passed on is items.
LEMMA PassedType ==
    ASSUME TypeOK, NEW d \in Dir, NEW items \in Seq(Item)
    PROVE  Passed(d, items) \in [Dir -> Seq(Item)]
<1>1. out \in [Dir -> Seq(Item)]
  BY DEF TypeOK
<1>2. (IF out[d] = <<>> THEN <<Hdr>> ELSE <<>>) \in Seq(Item)
  BY ItemTypes, EmptySeq
<1>3. out[d] \o (IF out[d] = <<>> THEN <<Hdr>> ELSE <<>>) \o items \in Seq(Item)
  BY <1>1, <1>2, ConcatProperties
<1> QED  BY <1>1, <1>3 DEF Passed

LEMMA ResumedType ==
    ASSUME TypeOK, NEW d \in Dir
    PROVE  Resumed(d) \in [Dir -> Seq(Item)]
<1>1. (CASE Last(fed[d]) = Trl                   -> <<Trl>>
         [] Last(fed[d]) = End /\ out[d] = <<>>  -> <<End>>
         [] OTHER                                -> <<>>) \in Seq(Item)
  BY ItemTypes, EmptySeq
<1> QED  BY <1>1, PassedType DEF Resumed

\* A call into Go.
LEMMA CallGoType ==
    ASSUME TypeOK, NEW d \in Dir, NEW kind \in Kind, NEW endStream \in BOOLEAN,
           NEW items \in Seq(Item), NEW at \in Label, NEW rest \in Seq(Frame),
           CallGo(d, kind, endStream, items, at, rest)
    PROVE  /\ go' \in SUBSET Call
           /\ calls' \in Nat
           /\ seen' \in [Dir -> Seq(Item)]
           /\ stack' \in Seq(Frame)
           /\ crashed' \in {"no", "nullBuffer", "nullRequest", "deadRequest"}
<1>1. [id |-> calls, dir |-> d, kind |-> kind, end |-> endStream,
       sync |-> TRUE, refused |-> paniced] \in Call
  BY DEF TypeOK, Call
<1>2. go' \in SUBSET Call
  BY <1>1 DEF CallGo, TypeOK
<1>3. calls' \in Nat
  BY DEF CallGo, TypeOK
<1>4. seen' \in [Dir -> Seq(Item)]
  BY GrowMessage DEF CallGo, TypeOK
<1>5. stack' \in Seq(Frame)
  BY PushFrame DEF CallGo
<1>6. crashed' \in {"no", "nullBuffer", "nullRequest", "deadRequest"}
  BY DEF CallGo, TypeOK
<1> QED  BY <1>2, <1>3, <1>4, <1>5, <1>6

LEMMA LabelTypes ==
    /\ GoFrames \subseteq Label
    /\ Forwarding \subseteq Label
    /\ {"checkData", "checkTrailer", "trailerAfterData", "bufferFull",
        "localReply", "replyBody"} \subseteq Label
BY DEF Label

\* The part of the state that a call into Go changes.
GoType == /\ ps \in [Dir -> Processor]
          /\ headers \in Dir \cup {"none"}
          /\ go \in SUBSET Call
          /\ calls \in Nat
          /\ seen \in [Dir -> Seq(Item)]
          /\ stack \in Seq(Frame)
          /\ crashed \in {"no", "nullBuffer", "nullRequest", "deadRequest"}

LEMMA DoHeadersGoType ==
    ASSUME TypeOK, NEW d \in Dir, NEW procs \in [Dir -> Processor],
           NEW endStream \in BOOLEAN, NEW at \in Label, NEW rest \in Seq(Frame),
           DoHeadersGo(d, procs, endStream, at, rest)
    PROVE  GoType'
<1>1. ps' \in [Dir -> Processor]
  BY ProcessTypes DEF DoHeadersGo
<1>2. <<Hdr>> \o EndIf(endStream) \in Seq(Item)
  BY ItemTypes, ConcatProperties
<1> QED  BY <1>1, <1>2, CallGoType DEF DoHeadersGo, GoType, Kind

LEMMA DoDataGoType ==
    ASSUME TypeOK, NEW d \in Dir, NEW p \in Processor, NEW data \in Seq(Chunks),
           NEW endStream \in BOOLEAN, NEW at \in Label, NEW rest \in Seq(Frame),
           DoDataGo(d, p, data, endStream, at, rest), headers' = headers
    PROVE  GoType'
<1>1. ps' \in [Dir -> Processor]
  <2>1. Push(ProcessData(p, endStream), data) \in Processor
    BY ProcessTypes, ListTypes
  <2> QED  BY <2>1 DEF DoDataGo, TypeOK
<1>2. data \o EndIf(endStream) \in Seq(Item)
  BY ItemTypes, DataIsItems, ConcatProperties
<1> QED  BY <1>1, <1>2, CallGoType DEF DoDataGo, GoType, Kind, TypeOK

LEMMA DoTrailerGoType ==
    ASSUME TypeOK, NEW d \in Dir, NEW p \in Processor,
           NEW at \in Label, NEW rest \in Seq(Frame),
           DoTrailerGo(d, p, at, rest), headers' = headers
    PROVE  GoType'
<1>1. ps' \in [Dir -> Processor]
  BY ProcessTypes DEF DoTrailerGo, TypeOK
<1>2. <<Trl>> \in Seq(Item)
  BY ItemTypes
<1> QED  BY <1>1, <1>2, CallGoType DEF DoTrailerGo, GoType, Kind, TypeOK

\* The calls of the filter manager.
LEMMA DecodeHeadersType ==
    ASSUME TypeOK, NEW endStream \in BOOLEAN, DecodeHeaders(endStream)
    PROVE  TypeOK'
<1> USE DEF lifeVars, replyVars, filterVars, goVars, streamVars
<1>0. "decode" \in Dir /\ "doHeaders" \in Label
  BY LabelTypes DEF Dir, GoFrames
<1>1. fed' \in [Dir -> Seq(Item)]
  BY <1>0, GrowMessage, ItemTypes, ConcatProperties DEF DecodeHeaders, Feed, TypeOK
<1>2. CASE Bypass("decode", EndIf(endStream)) /\ UNCHANGED <<ps, stack>>
  <2>1. out' \in [Dir -> Seq(Item)]
    BY <1>0, <1>2, PassedType, ItemTypes DEF Bypass
  <2> QED  BY <1>1, <1>2, <2>1 DEF Bypass, TypeOK
<1>3. CASE /\ DoHeadersGo("decode", SetEndStream("decode", endStream), endStream, "doHeaders", stack)
           /\ UNCHANGED <<lifeVars, replyVars, trailers, paniced, posted, out, dropped, closed>>
  <2>1. SetEndStream("decode", endStream) \in [Dir -> Processor]
    BY <1>0 DEF SetEndStream, TypeOK, Processor
  <2>2. GoType'
    BY <1>0, <1>3, <2>1, DoHeadersGoType DEF TypeOK
  <2> QED  BY <1>1, <1>3, <2>2 DEF TypeOK, GoType
<1> QED  BY <1>2, <1>3 DEF DecodeHeaders

LEMMA EncodeHeadersType ==
    ASSUME TypeOK, NEW endStream \in BOOLEAN, NEW rest \in Seq(Frame),
           EncodeHeaders(endStream, rest)
    PROVE  TypeOK'
<1> USE DEF lifeVars, replyVars, filterVars, goVars, streamVars
<1>0. "encode" \in Dir /\ "doHeaders" \in Label /\ Cur \in Dir
  BY LabelTypes DEF Dir, GoFrames, Cur
<1>1. fed' \in [Dir -> Seq(Item)]
  BY <1>0, GrowMessage, ItemTypes, ConcatProperties DEF EncodeHeaders, Feed, TypeOK
<1>2. SetEndStream("encode", endStream) \in [Dir -> Processor]
  BY <1>0 DEF SetEndStream, TypeOK, Processor
<1> DEFINE procs == SetEndStream("encode", endStream)
           early == ps[Cur].state # "Done"
<1>3. CASE Bypass("encode", EndIf(endStream)) /\ stack' = rest /\ UNCHANGED ps
  <2>1. out' \in [Dir -> Seq(Item)]
    BY <1>0, <1>3, PassedType, ItemTypes DEF Bypass
  <2> QED  BY <1>1, <1>3, <2>1 DEF Bypass, TypeOK
<1>4. CASE /\ ps' = [procs EXCEPT ![Cur] = TakeBuffer(@)]
           /\ localReplyWaitingGo' = TRUE
           /\ stack' = rest
           /\ UNCHANGED <<lifeVars, enterEncoding, localTrailers, headers, trailers, goVars,
                          posted, crashed, out, dropped, closed>>
  <2>1. ps' \in [Dir -> Processor]
    BY <1>0, <1>2, <1>4, ListTypes
  <2> QED  BY <1>1, <1>4, <2>1 DEF TypeOK
<1>5. CASE /\ enterEncoding' = TRUE
           /\ DoHeadersGo("encode",
                          IF early THEN [procs EXCEPT ![Cur] = ClearAll(TakeBuffer(@))] ELSE procs,
                          endStream, "doHeaders", rest)
           /\ UNCHANGED <<lifeVars, localReplyWaitingGo, localTrailers, trailers, paniced,
                          posted, out, dropped, closed>>
  <2>1. (IF early THEN [procs EXCEPT ![Cur] = ClearAll(TakeBuffer(@))] ELSE procs) \in [Dir -> Processor]
    BY <1>0, <1>2, ListTypes
  <2>2. GoType'
    BY <1>0, <1>5, <2>1, DoHeadersGoType DEF TypeOK
  <2> QED  BY <1>1, <1>5, <2>2 DEF TypeOK, GoType
<1> QED  BY <1>3, <1>4, <1>5 DEF EncodeHeaders

LEMMA Reply413Type ==
    ASSUME TypeOK, NEW d \in Dir, NEW rest \in Seq(Frame), Reply413(d, rest)
    PROVE  stack' \in Seq(Frame) /\ closed' \in BOOLEAN
BY PushFrame, LabelTypes DEF Reply413, TypeOK

LEMMA DoDataType ==
    ASSUME TypeOK, NEW d \in Dir, NEW data \in Seq(Chunks), NEW endStream \in BOOLEAN,
           NEW rest \in Seq(Frame), DoData(d, data, endStream, rest), headers' = headers
    PROVE  GoType' /\ paniced' \in BOOLEAN /\ closed' \in BOOLEAN
<1> USE DEF goVars
<1> DEFINE p == [ps[d] EXCEPT !.endStream = endStream]
           q == AddBufferData(p, data, Limit)
<1>0. /\ "doData" \in Label /\ TRUE \in BOOLEAN
      /\ <<At("bufferFull", d)>> \o rest \in Seq(Frame)
  BY LabelTypes, PushFrame DEF GoFrames
<1>1. p \in Processor
  BY DEF TypeOK, Processor
<1>2. q \in Processor /\ TakeBuffer(q) \in Processor /\ q.dataBuffer \in Seq(Chunks)
  BY <1>1, AddBufferDataType, ListTypes DEF Processor
<1>3. [ps EXCEPT ![d] = q] \in [Dir -> Processor] /\ [ps EXCEPT ![d] = p] \in [Dir -> Processor]
  BY <1>1, <1>2 DEF TypeOK
<1>4. CASE DoDataGo(d, p, data, endStream, "doData", rest) /\ UNCHANGED <<paniced, closed>>
  BY <1>0, <1>1, <1>4, DoDataGoType DEF TypeOK
<1>5. CASE DoDataGo(d, TakeBuffer(q), q.dataBuffer, TRUE, "doData", rest) /\ UNCHANGED <<paniced, closed>>
  BY <1>0, <1>2, <1>5, DoDataGoType DEF TypeOK
<1>6. CASE /\ ps' = [ps EXCEPT ![d] = q]
           /\ UNCHANGED <<goVars, crashed>>
           /\ \/ Reply413(d, <<At("bufferFull", d)>> \o rest)
              \/ Reply413(d, rest)
              \/ stack' = rest /\ UNCHANGED closed
  BY <1>0, <1>3, <1>6, Reply413Type DEF TypeOK, GoType
<1>7. CASE /\ ps' = [ps EXCEPT ![d] = p]
           /\ stack' = rest
           /\ UNCHANGED <<goVars, crashed, closed>>
  BY <1>3, <1>7 DEF TypeOK, GoType
<1> QED  BY <1>4, <1>5, <1>6, <1>7 DEF DoData

\* The frame on top of the stack, and what is below it.
LEMMA TopFrame ==
    ASSUME TypeOK, stack # <<>>
    PROVE  /\ Head(stack).dir \in Dir
           /\ Head(stack).at \in Label
           /\ Tail(stack) \in Seq(Frame)
<1>1. Head(stack) \in Frame /\ Tail(stack) \in Seq(Frame)
  BY HeadTailProperties DEF TypeOK
<1> QED  BY <1>1 DEF Frame

LEMMA BufferFullReturnsType ==
    ASSUME TypeOK, BufferFullReturns
    PROVE  TypeOK'
<1> USE DEF lifeVars, replyVars, filterVars, goVars, streamVars
<1> DEFINE d == Head(stack).dir
           p == ps[d]
<1>0. d \in Dir /\ Tail(stack) \in Seq(Frame) /\ "doData" \in Label
  BY TopFrame, LabelTypes DEF BufferFullReturns, GoFrames
<1>1. p \in Processor /\ TakeBuffer(p) \in Processor /\ p.dataBuffer \in Seq(Chunks)
  BY <1>0, ListTypes DEF TypeOK, Processor
<1>2. CASE DoDataGo(d, TakeBuffer(p), p.dataBuffer, TRUE, "doData", Tail(stack)) /\ UNCHANGED paniced
  <2>1. GoType'
    BY <1>0, <1>1, <1>2, DoDataGoType DEF BufferFullReturns
  <2> QED  BY <1>2, <2>1 DEF TypeOK, GoType, BufferFullReturns
<1>3. CASE Return /\ UNCHANGED <<ps, goVars, crashed>>
  BY <1>0, <1>3 DEF TypeOK, BufferFullReturns, Return
<1> QED  BY <1>2, <1>3 DEF BufferFullReturns

LEMMA DecodeDataType ==
    ASSUME TypeOK, NEW data \in Seq(Chunks), NEW endStream \in BOOLEAN,
           DecodeData(data, endStream)
    PROVE  TypeOK'
<1> USE DEF lifeVars, replyVars, filterVars, goVars, streamVars
<1>0. "decode" \in Dir /\ data \o EndIf(endStream) \in Seq(Item) /\ stack \in Seq(Frame)
  BY ItemTypes, DataIsItems, ConcatProperties DEF Dir, TypeOK
<1>1. fed' \in [Dir -> Seq(Item)]
  BY <1>0, GrowMessage DEF DecodeData, Feed, TypeOK
<1>2. CASE Bypass("decode", data \o EndIf(endStream)) /\ UNCHANGED <<ps, stack>>
  <2>1. out' \in [Dir -> Seq(Item)]
    BY <1>0, <1>2, PassedType DEF Bypass
  <2> QED  BY <1>1, <1>2, <2>1 DEF Bypass, TypeOK
<1>3. CASE /\ DoData("decode", data, endStream, stack)
           /\ UNCHANGED <<filterVars, posted, out, dropped>>
  <2>1. GoType' /\ paniced' \in BOOLEAN /\ closed' \in BOOLEAN
    BY <1>0, <1>3, DoDataType
  <2> QED  BY <1>1, <1>3, <2>1 DEF TypeOK, GoType
<1> QED  BY <1>2, <1>3 DEF DecodeData

LEMMA EncodeDataType ==
    ASSUME TypeOK, NEW data \in Seq(Chunks), NEW endStream \in BOOLEAN,
           NEW rest \in Seq(Frame), EncodeData(data, endStream, rest)
    PROVE  TypeOK'
<1> USE DEF lifeVars, replyVars, filterVars, goVars, streamVars
<1>0. "encode" \in Dir /\ data \o EndIf(endStream) \in Seq(Item)
  BY ItemTypes, DataIsItems, ConcatProperties DEF Dir
<1>1. fed' \in [Dir -> Seq(Item)]
  BY <1>0, GrowMessage DEF EncodeData, Feed, TypeOK
<1>2. CASE Bypass("encode", data \o EndIf(endStream)) /\ stack' = rest /\ UNCHANGED ps
  <2>1. out' \in [Dir -> Seq(Item)]
    BY <1>0, <1>2, PassedType DEF Bypass
  <2> QED  BY <1>1, <1>2, <2>1 DEF Bypass, TypeOK
<1>3. CASE /\ ps' = [ps EXCEPT !["encode"] =
                        AddBufferData([@ EXCEPT !.endStream = endStream], data, Limit)]
           /\ stack' = rest
           /\ UNCHANGED <<filterVars, goVars, posted, crashed, out, dropped, closed>>
  <2>1. [ps["encode"] EXCEPT !.endStream = endStream] \in Processor
    BY <1>0 DEF TypeOK, Processor
  <2>2. AddBufferData([ps["encode"] EXCEPT !.endStream = endStream], data, Limit) \in Processor
    BY <2>1, AddBufferDataType
  <2>3. ps' \in [Dir -> Processor]
    BY <1>0, <1>3, <2>2 DEF TypeOK
  <2>4. /\ stack' = rest
        /\ UNCHANGED <<filterVars, goVars, posted, crashed, out, dropped, closed>>
    BY <1>3
  <2> QED  BY <1>1, <2>3, <2>4 DEF TypeOK
<1>4. CASE /\ DoData("encode", data, endStream, rest)
           /\ UNCHANGED <<filterVars, posted, out, dropped>>
  <2>1. GoType' /\ paniced' \in BOOLEAN /\ closed' \in BOOLEAN
    BY <1>0, <1>4, DoDataType
  <2> QED  BY <1>1, <1>4, <2>1 DEF TypeOK, GoType
<1> QED  BY <1>2, <1>3, <1>4 DEF EncodeData

LEMMA SeeTrailersType ==
    ASSUME TypeOK, NEW d \in Dir
    PROVE  SeeTrailers(d) \in [Dir -> Processor]
<1>1. [ps[d] EXCEPT !.seenTrailers = TRUE] \in Processor
  BY DEF TypeOK, Processor
<1> QED  BY <1>1 DEF SeeTrailers, TypeOK

LEMMA DoTrailerType ==
    ASSUME TypeOK, NEW d \in Dir, DoTrailer(d), fed' \in [Dir -> Seq(Item)]
    PROVE  TypeOK'
<1> USE DEF lifeVars, replyVars, filterVars, goVars, streamVars
<1> DEFINE p == SeeTrailers(d)[d]
<1>0. /\ {"doTrailer", "doTrailerData"} \subseteq Label /\ FALSE \in BOOLEAN
      /\ stack \in Seq(Frame) /\ headers' = headers /\ trailers' = d
  BY LabelTypes DEF GoFrames, TypeOK, DoTrailer, SetTrailers
<1>1. p \in Processor /\ TakeBuffer(p) \in Processor /\ p.dataBuffer \in Seq(Chunks)
  BY SeeTrailersType, ListTypes DEF Processor
<1>2. CASE DoTrailerGo(d, p, "doTrailer", stack)
  <2>1. GoType'
    BY <1>0, <1>1, <1>2, DoTrailerGoType
  <2> QED  BY <1>0, <2>1 DEF TypeOK, GoType, DoTrailer
<1>3. CASE DoDataGo(d, TakeBuffer(p), p.dataBuffer, FALSE, "doTrailerData", stack)
  <2>1. GoType'
    BY <1>0, <1>1, <1>3, DoDataGoType
  <2> QED  BY <1>0, <2>1 DEF TypeOK, GoType, DoTrailer
<1>4. CASE ps' = [ps EXCEPT ![d] = p] /\ UNCHANGED <<go, calls, seen, stack, crashed>>
  BY <1>0, <1>1, <1>4 DEF TypeOK, DoTrailer
<1> QED  BY <1>2, <1>3, <1>4 DEF DoTrailer

LEMMA TrailersType ==
    ASSUME TypeOK, DecodeTrailers \/ EncodeTrailers
    PROVE  TypeOK'
<1> USE DEF lifeVars, replyVars, filterVars, goVars, streamVars
<1>0. {"decode", "encode"} \subseteq Dir /\ <<Trl>> \in Seq(Item)
  BY ItemTypes DEF Dir
<1>1. fed' \in [Dir -> Seq(Item)]
  <2>1. \E d \in Dir : Feed(d, <<Trl>>)
    BY <1>0 DEF DecodeTrailers, EncodeTrailers
  <2> QED  BY <1>0, <2>1, GrowMessage DEF Feed, TypeOK
<1>2. ASSUME NEW d \in {"decode", "encode"},
             Bypass(d, <<Trl>>), ps' = SeeTrailers(d), UNCHANGED stack
      PROVE  TypeOK'
  <2>1. out' \in [Dir -> Seq(Item)] /\ ps' \in [Dir -> Processor]
    BY <1>0, <1>2, PassedType, SeeTrailersType DEF Bypass
  <2>2. UNCHANGED <<dynamicLib, enterEncoding, localReplyWaitingGo, localTrailers, headers,
                    trailers, hasDestroyed, reason>>
    BY <1>2 DEF Bypass
  <2>3. UNCHANGED <<go, calls, paniced, seen, stack, posted, crashed, dropped, closed>>
    BY <1>2 DEF Bypass
  <2>4. /\ dynamicLib' \in BOOLEAN /\ enterEncoding' \in BOOLEAN /\ localReplyWaitingGo' \in BOOLEAN
        /\ localTrailers' \in BOOLEAN /\ headers' \in Dir \cup {"none"}
        /\ trailers' \in Dir \cup {"none"} /\ hasDestroyed' \in BOOLEAN
        /\ reason' \in {"none", "Normal", "Terminate"}
    BY <2>2, Zenon DEF TypeOK
  <2>5. /\ go' \in SUBSET Call /\ calls' \in Nat /\ paniced' \in BOOLEAN
        /\ seen' \in [Dir -> Seq(Item)] /\ stack' \in Seq(Frame) /\ posted' \in Seq(Event)
        /\ crashed' \in {"no", "nullBuffer", "nullRequest", "deadRequest"}
        /\ dropped' \in [Dir -> SUBSET Chunks] /\ closed' \in BOOLEAN
    BY <2>3, Zenon DEF TypeOK
  <2> QED  BY <1>1, <2>1, <2>4, <2>5, Zenon DEF TypeOK
<1>3. CASE /\ localTrailers' = TRUE
           /\ ps' = SeeTrailers("encode")
           /\ UNCHANGED <<lifeVars, enterEncoding, localReplyWaitingGo, headers, trailers, goVars,
                          stack, posted, crashed, out, dropped, closed>>
  <2>1. ps' \in [Dir -> Processor]
    BY <1>0, <1>3, SeeTrailersType
  <2> QED  BY <1>1, <1>3, <2>1 DEF TypeOK
<1>4. ASSUME NEW d \in {"decode", "encode"}, DoTrailer(d)
      PROVE  TypeOK'
  BY <1>0, <1>1, <1>4, DoTrailerType
<1>5. CASE DecodeTrailers
  BY <1>2, <1>4, <1>5 DEF DecodeTrailers
<1>6. CASE EncodeTrailers
  BY <1>2, <1>3, <1>4, <1>6 DEF EncodeTrailers
<1> QED  BY <1>5, <1>6

\* Answers of Go.
LEMMA PostType ==
    ASSUME TypeOK, NEW act \in {"continue", "reply"}, NEW status \in GolangStatus,
           NEW call \in Call, Post(act, status, call)
    PROVE  posted' \in Seq(Event) /\ paniced' \in BOOLEAN
<1>1. [act |-> act, status |-> status, call |-> call] \in Event
  BY DEF Event
<1>2. Append(posted, [act |-> act, status |-> status, call |-> call]) \in Seq(Event)
  BY <1>1, AppendProperties DEF TypeOK
<1> QED  BY <1>2 DEF Post, TypeOK

LEMMA GoReturnsType ==
    ASSUME TypeOK, NEW at, NEW call \in go, NEW status \in GolangStatus,
           GoReturns(at, call, status)
    PROVE  /\ call \in Call /\ call.dir \in Dir /\ call.end \in BOOLEAN
           /\ Head(stack).dir = call.dir /\ Tail(stack) \in Seq(Frame)
           /\ go' \in SUBSET Call
           /\ calls' \in Nat
           /\ seen' \in [Dir -> Seq(Item)]
           /\ posted' \in Seq(Event)
           /\ paniced' \in BOOLEAN
           /\ crashed' \in {"no", "nullBuffer", "nullRequest", "deadRequest"}
<1>1. call \in Call /\ call.dir \in Dir /\ call.end \in BOOLEAN
  BY DEF TypeOK, Call
<1>2. Head(stack).dir = call.dir /\ Tail(stack) \in Seq(Frame)
  BY TopFrame DEF GoReturns
<1>3. go' \in SUBSET Call
  <2>1. [call EXCEPT !.sync = FALSE] \in Call
    BY <1>1 DEF Call
  <2> QED  BY <2>1 DEF GoReturns, TypeOK
<1>4. posted' \in Seq(Event) /\ paniced' \in BOOLEAN
  <2>1. CASE Post("reply", "LocalReply", call)
    BY <1>1, <2>1, PostType DEF GolangStatus
  <2>2. CASE UNCHANGED <<posted, paniced>>
    BY <2>2 DEF TypeOK
  <2> QED  BY <2>1, <2>2 DEF GoReturns
<1> QED  BY <1>1, <1>2, <1>3, <1>4 DEF GoReturns, TypeOK

LEMMA DropType ==
    ASSUME TypeOK, NEW d \in Dir, NEW status, Drop(d, status)
    PROVE  dropped' \in [Dir -> SUBSET Chunks]
<1>1. ToSet(ps[d].latest) \subseteq Chunks
  <2>1. ps[d].latest \in Seq(Chunks)
    BY DEF TypeOK, Processor
  <2> QED  BY <2>1 DEF ToSet
<1> QED  BY <1>1 DEF Drop, TypeOK

LEMMA ContinueDoDataType ==
    ASSUME TypeOK, NEW d \in Dir, NEW p \in Processor, ContinueDoData(d, p)
    PROVE  ps' \in [Dir -> Processor] /\ out' \in [Dir -> Seq(Item)]
<1>1. p.doEndStream \in BOOLEAN
  BY DEF Processor
<1>2. DataList(p) \o EndIf(p.doEndStream) \in Seq(Item)
  BY <1>1, DataListType, DataIsItems, ItemTypes, ConcatProperties
<1>3. ClearAll(p) \in Processor
  BY ListTypes
<1>4. Passed(d, DataList(p) \o EndIf(p.doEndStream)) \in [Dir -> Seq(Item)]
  BY <1>2, PassedType
<1> QED  BY <1>3, <1>4 DEF ContinueDoData, TypeOK

LEMMA ContinueStatusInternalType ==
    ASSUME TypeOK, NEW d \in Dir, NEW status, NEW rest \in Seq(Frame),
           ContinueStatusInternal(d, status, rest)
    PROVE  /\ ps' \in [Dir -> Processor]
           /\ out' \in [Dir -> Seq(Item)]
           /\ stack' \in Seq(Frame)
           /\ dropped' \in [Dir -> SUBSET Chunks]
<1> DEFINE q == HandleGolangStatus(ps[d], status)
           Goto(label) == stack' = <<At(label, d)>> \o rest
<1>1. q \in Processor /\ [ps EXCEPT ![d] = q] \in [Dir -> Processor]
  BY HandleTypes DEF TypeOK
<1>2. \A label \in Forwarding \cup {"checkData"} : Goto(label) => stack' \in Seq(Frame)
  BY PushFrame, LabelTypes
<1>3. dropped' \in [Dir -> SUBSET Chunks]
  BY DropType DEF ContinueStatusInternal
<1>4. ContinueDoData(d, q) => ps' \in [Dir -> Processor] /\ out' \in [Dir -> Seq(Item)]
  BY <1>1, ContinueDoDataType
<1>5. ps' \in [Dir -> Processor] /\ out' \in [Dir -> Seq(Item)]
  <2>1. \/ ContinueDoData(d, q)
        \/ ps' = [ps EXCEPT ![d] = q] /\ (out' = Resumed(d) \/ UNCHANGED out)
    BY DEF ContinueStatusInternal
  <2>2. Resumed(d) \in [Dir -> Seq(Item)] /\ out \in [Dir -> Seq(Item)]
    BY ResumedType DEF TypeOK
  <2> QED  BY <1>1, <1>4, <2>1, <2>2
<1>6. \E label \in Forwarding \cup {"checkData"} : Goto(label)
  BY DEF ContinueStatusInternal, Forwarding
<1> QED  BY <1>2, <1>3, <1>5, <1>6

\* Go returns to the worker.
LEMMA GoReturnType ==
    ASSUME TypeOK, GoReturn
    PROVE  TypeOK'
<1> USE DEF lifeVars, replyVars, filterVars
<1> PICK call \in go, status \in GolangStatus :
        \/ HeadersReturn(call, status)
        \/ DataReturn(call, status)
        \/ TrailerReturn(call, status)
        \/ TrailerDataReturn(call, status)
        \/ ResumeDataReturn(call, status)
        \/ ResumeTrailerReturn(call, status)
        \/ LocalReplyHeadersReturn(call, status)
  BY DEF GoReturn
<1> DEFINE d == call.dir
           p == HandleDataGolangStatus(ps[d], status)
           GoSide == /\ go' \in SUBSET Call
                     /\ calls' \in Nat
                     /\ seen' \in [Dir -> Seq(Item)]
                     /\ posted' \in Seq(Event)
                     /\ paniced' \in BOOLEAN
                     /\ crashed' \in {"no", "nullBuffer", "nullRequest", "deadRequest"}
<1>0. call.dir \in Dir /\ call.end \in BOOLEAN /\ Tail(stack) \in Seq(Frame) /\ GoSide
  <2>1. \E at : GoReturns(at, call, status)
    BY DEF HeadersReturn, DataReturn, TrailerReturn, TrailerDataReturn,
           ResumeDataReturn, ResumeTrailerReturn, LocalReplyHeadersReturn
  <2> QED  BY <2>1, GoReturnsType
<1>1. /\ HandleHeaderGolangStatus(ps[d], status) \in Processor
      /\ HandleTrailerGolangStatus(ps[d], status) \in Processor
      /\ p \in Processor /\ ClearAll(p) \in Processor
      /\ p.doEndStream \in BOOLEAN
  BY <1>0, HandleTypes, ListTypes DEF TypeOK, Processor
<1>2. \A items \in Seq(Item) : Passed(d, items) \in [Dir -> Seq(Item)]
  BY <1>0, PassedType
<1>3. /\ EndIf(call.end) \in Seq(Item) /\ <<Trl>> \in Seq(Item)
      /\ DataList(p) \o EndIf(call.end) \in Seq(Item)
  BY <1>0, <1>1, ItemTypes, DataListType, DataIsItems, ConcatProperties
<1>4. Resumed(d) \in [Dir -> Seq(Item)]
  BY <1>0, ResumedType
<1>5. Drop(d, status) => dropped' \in [Dir -> SUBSET Chunks]
  BY <1>0, DropType
<1>6. \A label \in {"trailerAfterData", "checkTrailer", "forwardedData"} :
          <<At(label, d)>> \o Tail(stack) \in Seq(Frame)
  BY <1>0, PushFrame, LabelTypes DEF Forwarding
<1>7. CASE HeadersReturn(call, status)
  BY <1>0, <1>1, <1>2, <1>3, <1>7 DEF HeadersReturn, Return, TypeOK
<1>8. CASE DataReturn(call, status)
  <2>1. ps' \in [Dir -> Processor] /\ out' \in [Dir -> Seq(Item)]
    BY <1>0, <1>1, <1>2, <1>3, <1>8 DEF DataReturn, TypeOK
  <2> QED  BY <1>0, <1>5, <1>8, <2>1 DEF DataReturn, Return, TypeOK
<1>9. CASE TrailerReturn(call, status)
  BY <1>0, <1>1, <1>2, <1>3, <1>9 DEF TrailerReturn, Return, TypeOK
<1>10. CASE TrailerDataReturn(call, status)
  <2>1. stack' \in Seq(Frame)
    BY <1>0, <1>6, <1>10 DEF TrailerDataReturn
  <2> QED  BY <1>0, <1>1, <1>5, <1>10, <2>1 DEF TrailerDataReturn, TypeOK
<1>11. CASE ResumeDataReturn(call, status)
  <2>1. ps' \in [Dir -> Processor] /\ out' \in [Dir -> Seq(Item)]
    <3>1. \/ ContinueDoData(d, p)
          \/ ps' = [ps EXCEPT ![d] = p] /\ UNCHANGED out
      BY <1>11 DEF ResumeDataReturn
    <3>2. ps \in [Dir -> Processor] /\ out \in [Dir -> Seq(Item)]
      BY DEF TypeOK
    <3> QED  BY <1>0, <1>1, <3>1, <3>2, ContinueDoDataType
  <2>2. stack' \in Seq(Frame)
    <3>1. \/ stack' = Tail(stack)
          \/ \E label \in {"checkTrailer", "forwardedData"} :
                stack' = <<At(label, d)>> \o Tail(stack)
      BY <1>11 DEF ResumeDataReturn, Return
    <3> QED  BY <1>0, <1>6, <3>1
  <2> QED  BY <1>0, <1>5, <1>11, <2>1, <2>2 DEF ResumeDataReturn, TypeOK
<1>12. CASE ResumeTrailerReturn(call, status)
  BY <1>0, <1>1, <1>4, <1>12 DEF ResumeTrailerReturn, Return, TypeOK
<1>13. CASE LocalReplyHeadersReturn(call, status)
  <2>1. /\ ps' \in [Dir -> Processor]
        /\ out' \in [Dir -> Seq(Item)]
        /\ stack' \in Seq(Frame)
        /\ dropped' \in [Dir -> SUBSET Chunks]
    BY <1>0, <1>13, ContinueStatusInternalType DEF LocalReplyHeadersReturn
  <2> QED  BY <1>0, <1>13, <2>1 DEF LocalReplyHeadersReturn, TypeOK
<1> QED  BY <1>7, <1>8, <1>9, <1>10, <1>11, <1>12, <1>13

\* The steps the worker takes by itself.
LEMMA TrailerAfterDataType ==
    ASSUME TypeOK, TrailerAfterData
    PROVE  TypeOK'
<1> USE DEF lifeVars, replyVars, filterVars, goVars, streamVars
<1>0. Head(stack).dir \in Dir /\ Tail(stack) \in Seq(Frame) /\ "doTrailer" \in Label
  BY TopFrame, LabelTypes DEF TrailerAfterData, GoFrames
<1>1. ps[Head(stack).dir] \in Processor
  BY <1>0 DEF TypeOK
<1>2. GoType'
  BY <1>0, <1>1, DoTrailerGoType DEF TrailerAfterData
<1> QED  BY <1>2 DEF TrailerAfterData, TypeOK, GoType

LEMMA TrailersForwardedType ==
    ASSUME TypeOK, TrailersForwarded
    PROVE  TypeOK'
<1> USE DEF lifeVars, replyVars, filterVars, goVars
<1>0. Head(stack).dir \in Dir /\ Tail(stack) \in Seq(Frame) /\ "forwarded" \in Label
  BY TopFrame, LabelTypes DEF TrailersForwarded, Forwarding
<1>1. out' \in [Dir -> Seq(Item)] /\ stack' \in Seq(Frame)
  BY <1>0, ResumedType, PushFrame DEF TrailersForwarded
<1> QED  BY <1>1 DEF TrailersForwarded, TypeOK

LEMMA ResumeDataType ==
    ASSUME TypeOK, ResumeData
    PROVE  TypeOK'
<1> USE DEF lifeVars, replyVars, filterVars, goVars, streamVars
<1> DEFINE d == Head(stack).dir
           p == ps[d]
<1>0. /\ d \in Dir /\ Tail(stack) \in Seq(Frame)
      /\ {"resumeData", "checkTrailer"} \subseteq Label
  BY TopFrame, LabelTypes DEF ResumeData, GoFrames
<1>1. /\ p \in Processor /\ TakeBuffer(p) \in Processor
      /\ p.dataBuffer \in Seq(Chunks) /\ p.endStream \in BOOLEAN
  BY <1>0, ListTypes DEF TypeOK, Processor
<1>2. CASE DoDataGo(d, TakeBuffer(p), p.dataBuffer, p.endStream, "resumeData", Tail(stack))
           /\ UNCHANGED paniced
  <2>1. GoType'
    BY <1>0, <1>1, <1>2, DoDataGoType DEF ResumeData
  <2> QED  BY <1>2, <2>1 DEF TypeOK, GoType, ResumeData
<1>3. CASE crashed' = "nullBuffer" /\ UNCHANGED <<ps, goVars, stack>>
  BY <1>3 DEF TypeOK, ResumeData
<1>4. CASE stack' = <<At("checkTrailer", d)>> \o Tail(stack) /\ UNCHANGED <<ps, goVars, crashed>>
  <2>1. stack' \in Seq(Frame)
    BY <1>0, <1>4, PushFrame
  <2> QED  BY <1>4, <2>1 DEF TypeOK, ResumeData
<1> QED  BY <1>2, <1>3, <1>4 DEF ResumeData

LEMMA ResumeTrailerType ==
    ASSUME TypeOK, ResumeTrailer
    PROVE  TypeOK'
<1> USE DEF lifeVars, replyVars, filterVars, goVars, streamVars
<1> DEFINE d == Head(stack).dir
<1>0. d \in Dir /\ Tail(stack) \in Seq(Frame) /\ "resumeTrailer" \in Label
  BY TopFrame, LabelTypes DEF ResumeTrailer, GoFrames
<1>1. ps[d] \in Processor
  BY <1>0 DEF TypeOK
<1>2. CASE DoTrailerGo(d, ps[d], "resumeTrailer", Tail(stack)) /\ UNCHANGED paniced
  <2>1. GoType'
    BY <1>0, <1>1, <1>2, DoTrailerGoType DEF ResumeTrailer
  <2> QED  BY <1>2, <2>1 DEF TypeOK, GoType, ResumeTrailer
<1>3. CASE Return /\ UNCHANGED <<ps, goVars, crashed>>
  BY <1>0, <1>3 DEF TypeOK, ResumeTrailer, Return
<1> QED  BY <1>2, <1>3 DEF ResumeTrailer

LEMMA LocalReplyType ==
    ASSUME TypeOK, LocalReply
    PROVE  TypeOK'
<1> USE DEF lifeVars, replyVars, filterVars, goVars
<1>0. Tail(stack) \in Seq(Frame) /\ "encode" \in Dir /\ "replyBody" \in Label
  BY TopFrame, LabelTypes DEF LocalReply, Dir
<1>1. ASSUME NEW body \in BOOLEAN,
             EncodeHeaders(~body, (IF body THEN <<At("replyBody", "encode")>> ELSE <<>>) \o Tail(stack))
      PROVE  TypeOK'
  <2>1. (IF body THEN <<At("replyBody", "encode")>> ELSE <<>>) \o Tail(stack) \in Seq(Frame)
    BY <1>0, PushFrame, EmptySeq, ConcatProperties
  <2> QED  BY <1>1, <2>1, EncodeHeadersType
<1>2. CASE /\ closed' = TRUE
           /\ Return
           /\ UNCHANGED <<filterVars, ps, goVars, posted, crashed, fed, out, dropped>>
  BY <1>0, <1>2 DEF Return, TypeOK
<1> QED  BY <1>1, <1>2 DEF LocalReply

LEMMA LocalReplyBodyType ==
    ASSUME TypeOK, LocalReplyBody
    PROVE  TypeOK'
<1>1. Tail(stack) \in Seq(Frame) /\ <<Chunk(1)>> \in Seq(Chunks)
  BY TopFrame, ItemTypes DEF LocalReplyBody
<1> QED  BY <1>1, EncodeDataType DEF LocalReplyBody

LEMMA WorkerStepType ==
    ASSUME TypeOK, WorkerStep
    PROVE  TypeOK'
BY BufferFullReturnsType, TrailerAfterDataType, TrailersForwardedType, ResumeDataType,
   ResumeTrailerType, LocalReplyType, LocalReplyBodyType DEF WorkerStep

\* Goroutines, and the callbacks they post.
LEMMA GoroutineType ==
    ASSUME TypeOK, Goroutine
    PROVE  TypeOK'
<1> USE DEF lifeVars, replyVars, filterVars, streamVars
<1> PICK call \in go, act \in {"continue", "reply"}, status \in GolangStatus :
        GoAnswers(call, act, status)
  BY DEF Goroutine, Continue, SendLocalReply, GolangStatus
<1>1. call \in Call
  BY DEF TypeOK
<1>2. posted' \in Seq(Event) /\ paniced' \in BOOLEAN
  BY <1>1, PostType DEF GoAnswers
<1> QED  BY <1>2 DEF GoAnswers, TypeOK

LEMMA EventType ==
    ASSUME TypeOK, posted # <<>>
    PROVE  /\ Head(posted) \in Event
           /\ Tail(posted) \in Seq(Event)
BY HeadTailProperties DEF TypeOK

LEMMA ContinueEncodeLocalReplyType ==
    ASSUME TypeOK, ContinueEncodeLocalReply
    PROVE  TypeOK'
<1> USE DEF lifeVars, replyVars, streamVars
<1> DEFINE enc == ps["encode"]
           procs == [ps EXCEPT ![Cur] = ClearAll(@)]
           endStream == enc.endStream /\ ~localTrailers /\ enc.dataBuffer = <<>>
<1>0. /\ "encode" \in Dir /\ Cur \in Dir /\ "localReplyHeaders" \in Label
      /\ <<>> \in Seq(Frame) /\ endStream \in BOOLEAN
  BY LabelTypes, EmptySeq DEF Dir, Cur, GoFrames
<1>1. posted' \in Seq(Event) /\ trailers' \in Dir \cup {"none"}
  BY <1>0, EventType DEF ContinueEncodeLocalReply, NextEvent, TypeOK
<1>2. procs \in [Dir -> Processor]
  BY <1>0, ListTypes DEF TypeOK
<1>3. DoHeadersGo("encode", procs, endStream, "localReplyHeaders", <<>>)
  BY DEF ContinueEncodeLocalReply
<1>4. GoType'
  BY <1>0, <1>2, <1>3, DoHeadersGoType
<1> QED  BY <1>1, <1>4 DEF ContinueEncodeLocalReply, TypeOK, GoType

LEMMA DispatchType ==
    ASSUME TypeOK, Dispatch
    PROVE  TypeOK'
<1> USE DEF lifeVars, replyVars, filterVars, goVars, streamVars
<1>0. Cur \in Dir /\ <<>> \in Seq(Frame)
  BY EmptySeq DEF Cur, Dir
<1>1. posted' \in Seq(Event)
  BY EventType DEF Dispatch, DropEvent, ContinueEncodeLocalReply, ContinueEvent,
                   LocalReplyEvent, NextEvent
<1>2. CASE DropEvent
  BY <1>1, <1>2 DEF DropEvent, TypeOK
<1>3. CASE ContinueEvent
  <2>1. /\ ps' \in [Dir -> Processor]
        /\ out' \in [Dir -> Seq(Item)]
        /\ stack' \in Seq(Frame)
        /\ dropped' \in [Dir -> SUBSET Chunks]
    BY <1>0, <1>3, ContinueStatusInternalType DEF ContinueEvent
  <2> QED  BY <1>1, <1>3, <2>1 DEF ContinueEvent, TypeOK
<1>4. CASE LocalReplyEvent
  <2> DEFINE p == ClearAll(TakeBuffer(ps[Cur]))
  <2>1. p \in Processor /\ [p EXCEPT !.state = "WaitingHeader"] \in Processor
    <3>1. p \in Processor
      BY <1>0, ListTypes DEF TypeOK
    <3> QED  BY <3>1 DEF Processor, FilterState
  <2>2. stack' \in Seq(Frame)
    <3>1. <<At("localReply", Cur)>> \in Seq(Frame)
      BY <1>0, LabelTypes DEF At, Frame
    <3> QED  BY <1>4, <3>1 DEF LocalReplyEvent, TypeOK
  <2>3. ps' \in [Dir -> Processor] /\ closed' \in BOOLEAN
    BY <1>0, <1>4, <2>1 DEF LocalReplyEvent, TypeOK
  <2> QED  BY <1>1, <1>4, <2>2, <2>3 DEF LocalReplyEvent, TypeOK
<1> QED  BY <1>2, <1>3, <1>4, ContinueEncodeLocalReplyType DEF Dispatch

\* What comes in.
LEMMA ReceiveType ==
    ASSUME TypeOK, Receive
    PROVE  TypeOK'
<1>1. stack \in Seq(Frame)
  BY DEF TypeOK
<1>2. ASSUME NEW d \in Dir, NEW data \in DataFrames(d)
      PROVE  data \in Seq(Chunks)
  <2>1. Len(fed[d]) \in Nat
    BY LenProperties DEF TypeOK
  <2>2. <<>> \in Seq(Chunks) /\ <<Chunk(Len(fed[d]))>> \in Seq(Chunks)
    BY <2>1, ItemTypes, EmptySeq
  <2> QED  BY <1>2, <2>2 DEF DataFrames
<1>3. ASSUME NEW endStream \in BOOLEAN,
             \/ DecodeHeaders(endStream)
             \/ \E data \in DataFrames("decode") : DecodeData(data, endStream)
             \/ ResponseHeaders(endStream)
             \/ \E data \in DataFrames("encode") : ResponseData(data, endStream)
      PROVE  TypeOK'
  BY <1>1, <1>2, <1>3, DecodeHeadersType, DecodeDataType, EncodeHeadersType, EncodeDataType
     DEF ResponseHeaders, ResponseData, Dir
<1> QED  BY <1>3, TrailersType DEF Receive

LEMMA OtherLocalReplyType ==
    ASSUME TypeOK, OtherLocalReply
    PROVE  TypeOK'
<1> USE DEF lifeVars, replyVars, filterVars, goVars, streamVars
<1>1. stack' \in Seq(Frame)
  BY PushFrame, LabelTypes DEF OtherLocalReply, Dir, TypeOK
<1> QED  BY <1>1 DEF OtherLocalReply, TypeOK

LEMMA DestroyType ==
    ASSUME TypeOK, Destroy
    PROVE  TypeOK'
BY DEF Destroy, DestroyReason, TypeOK, replyVars, goVars, streamVars

LEMMA InitType == Init => TypeOK
<1> SUFFICES ASSUME Init PROVE TypeOK
  OBVIOUS
<1>1. <<>> \in Seq(Frame) /\ <<>> \in Seq(Event) /\ <<>> \in Seq(Item)
  BY EmptySeq
<1>2. ps \in [Dir -> Processor]
  <2>1. NewProcessor \in Processor
    BY NewProcessorType
  <2> QED  BY <2>1 DEF Init
<1> QED  BY <1>1, <1>2 DEF Init, TypeOK

LEMMA NextType == TypeOK /\ [Next]_vars => TypeOK'
<1> SUFFICES ASSUME TypeOK, [Next]_vars PROVE TypeOK'
  OBVIOUS
<1>1. CASE UNCHANGED vars
  BY <1>1 DEF vars, lifeVars, replyVars, filterVars, goVars, streamVars, TypeOK
<1>2. CASE Next
  BY <1>2, ReceiveType, WorkerStepType, DispatchType, GoReturnType, GoroutineType,
     OtherLocalReplyType, DestroyType DEF Next
<1> QED  BY <1>1, <1>2

\* Every field, flag, message and call stack stays of its type, whatever the
\* filters, the peers and the Go handlers do.
THEOREM TypeCorrect == Spec => []TypeOK
BY InitType, NextType, PTL DEF Spec

-----------------------------------------------------------------------------
(* The calls                                                               *)

\* One call, posted nowhere, is the only unanswered one.
LEMMA OneCall ==
    ASSUME NEW c, go = {c}, posted = <<>>
    PROVE  Unanswered = {c}
BY DEF Unanswered

\* A posted answer stands for the only unanswered call.
LEMMA OnePosted ==
    ASSUME TypeOK, GoSerialized, posted # <<>>
    PROVE  /\ go = {} /\ Len(posted) = 1
           /\ Head(posted) = posted[1]
           /\ posted[1].call \in Unanswered
           /\ posted[1] \in Event
           /\ Tail(posted) = <<>>
<1>1. posted \in Seq(Event) /\ Len(posted) = 1
  <2>1. posted \in Seq(Event)
    BY DEF TypeOK
  <2>2. Len(posted) \in Nat \ {0}
    BY <2>1, EmptySeq
  <2>3. Len(posted) <= 1
    BY DEF GoSerialized
  <2>4. \A n \in Nat \ {0} : n <= 1 => n = 1
    OBVIOUS
  <2> QED  BY <2>1, <2>2, <2>3, <2>4
<1>2. DOMAIN posted = {1} /\ posted[1] \in Event
  BY <1>1, LenProperties, ElementOfSeq DEF TypeOK
<1>3. Head(posted) = posted[1] /\ Tail(posted) = <<>>
  <2>1. Tail(posted) \in Seq(Event) /\ Len(Tail(posted)) = 0
    BY <1>1
  <2>2. Tail(posted) = <<>>
    BY <2>1, EmptySeq
  <2> QED  BY <1>1, <2>2
<1> QED  BY <1>1, <1>2, <1>3 DEF GoSerialized, Unanswered

\* While the current processor state is not in Go, no call is unanswered.
LEMMA Idle ==
    ASSUME TypeOK, CallsInv, ~InGo(ps[Cur])
    PROVE  go = {} /\ posted = <<>> /\ Unanswered = {}
<1>1. \A c \in Unanswered : c \in Call
  BY OnePosted DEF Unanswered, TypeOK, Event, CallsInv, GoSerialized
<1>2. Unanswered = {}
  BY <1>1, ProcessingIsInGo DEF CallsInv, CallsFit, Call
<1>3. posted = <<>>
  BY <1>2, OnePosted DEF CallsInv
<1> QED  BY <1>2, <1>3 DEF Unanswered

\* Entering Go while no call is unanswered.
LEMMA EnterGo ==
    ASSUME TypeOK, CallsInv, go = {}, posted' = <<>>, UNCHANGED paniced,
           NEW d \in Dir, NEW kind \in Kind, NEW endStream, NEW items,
           NEW at \in GoFrames, NEW rest,
           CallGo(d, kind, endStream, items, at, rest),
           FrameKind(at) = kind, kind = "trailers" => endStream,
           Cur' = d, ps'[d].state = Processing(kind)
    PROVE  CallsInv'
<1> DEFINE c == [id |-> calls, dir |-> d, kind |-> kind, end |-> endStream,
                 sync |-> TRUE, refused |-> paniced]
<1>1. go' = {c} /\ Unanswered' = {c}
  <2>1. go' = {c}
    BY DEF CallGo
  <2> QED  BY <2>1, OneCall DEF Unanswered
<1>2. GoSerialized' /\ PostedIsAllowed' /\ AnswerOutstanding'
  BY <1>1, EmptySeq DEF GoSerialized, PostedIsAllowed, AnswerOutstanding
<1>3. NeverRefused'
  BY DEF CallsInv, NeverRefused
<1>4. CallsFit'
  BY <1>1 DEF CallsFit, CallsInv, NeverRefused
<1>5. SyncCallIsOnTop'
  <2>1. stack' # <<>> /\ Head(stack') = At(at, d)
    BY DEF CallGo
  <2> QED  BY <1>1, <2>1 DEF SyncCallIsOnTop, At
<1> QED  BY <1>2, <1>3, <1>4, <1>5 DEF CallsInv

\* Steps that have nothing to do with Go.
LEMMA LeaveGo ==
    ASSUME TypeOK, CallsInv, UNCHANGED <<go, posted, paniced>>, Cur' = Cur,
           ps'[Cur].state = ps[Cur].state,
           hasDestroyed => hasDestroyed', closed => closed',
           \/ stack' = stack
           \/ \A c \in go : ~c.sync
    PROVE  CallsInv'
<1>1. Unanswered' = Unanswered
  BY DEF Unanswered
<1>2. GoSerialized' /\ PostedIsAllowed' /\ NeverRefused'
  BY DEF CallsInv, GoSerialized, PostedIsAllowed, NeverRefused, Allowed
<1>3. CallsFit'
  BY <1>1 DEF CallsInv, CallsFit
<1>4. SyncCallIsOnTop'
  BY DEF CallsInv, SyncCallIsOnTop
<1>5. AnswerOutstanding'
  BY <1>1 DEF CallsInv, AnswerOutstanding, InGo
<1> QED  BY <1>2, <1>3, <1>4, <1>5 DEF CallsInv

\* Only the worker in Go has a synchronous call.
LEMMA NoSyncCall ==
    ASSUME CallsInv, stack = <<>> \/ Head(stack).at \notin GoFrames
    PROVE  \A c \in go : ~c.sync
BY DEF CallsInv, SyncCallIsOnTop

\* The handler answers the worker.
LEMMA AnswerWorker ==
    ASSUME TypeOK, CallsInv, NEW at, NEW call \in go, NEW status \in GolangStatus,
           GoReturns(at, call, status), Cur' = Cur, UNCHANGED <<hasDestroyed, closed>>,
           status \in Later => ps'[Cur].state = ps[Cur].state,
           status \notin Later => ~InGo(ps'[Cur])
    PROVE  CallsInv'
<1>1. /\ go = {call} /\ posted = <<>> /\ Unanswered = {call}
      /\ call.dir = Cur /\ ps[Cur].state = Processing(call.kind)
      /\ ~call.refused /\ ~paniced /\ call \in Call
  <2>1. go = {call} /\ posted = <<>>
    BY DEF CallsInv, GoSerialized
  <2>2. Unanswered = {call}
    BY <2>1, OneCall
  <2> QED  BY <2>1, <2>2 DEF CallsInv, CallsFit, NeverRefused, TypeOK
<1>2. InGo(ps[Cur])
  BY <1>1, ProcessingIsInGo DEF Call
<1>3. CASE status = "Running"
  <2> DEFINE c == [call EXCEPT !.sync = FALSE]
  <2>1. go' = {c} /\ posted' = <<>> /\ paniced' = paniced
    BY <1>1, <1>3 DEF GoReturns
  <2>2. Unanswered' = {c}
    BY <2>1 DEF Unanswered
  <2>3. /\ c.dir = call.dir /\ c.kind = call.kind /\ c.end = call.end
        /\ c.refused = call.refused /\ c.sync = FALSE
    BY <1>1 DEF Call
  <2>4. ps'[Cur].state = ps[Cur].state
    BY <1>3 DEF Later
  <2>5. CallsFit'
    BY <1>1, <2>2, <2>3, <2>4 DEF CallsInv, CallsFit
  <2>6. GoSerialized' /\ NeverRefused' /\ SyncCallIsOnTop' /\ PostedIsAllowed' /\ AnswerOutstanding'
    BY <1>1, <2>1, <2>2, <2>3, EmptySeq
       DEF GoSerialized, NeverRefused, SyncCallIsOnTop, PostedIsAllowed, AnswerOutstanding
  <2> QED  BY <2>5, <2>6 DEF CallsInv
<1>4. CASE status = "LocalReply"
  <2> DEFINE e == [act |-> "reply", status |-> "LocalReply", call |-> call]
  <2>1. /\ go' = {} /\ paniced' = paniced
        /\ posted' = IF hasDestroyed THEN <<>> ELSE <<e>>
    <3>1. go' = {} /\ Post("reply", "LocalReply", call)
      BY <1>1, <1>4 DEF GoReturns
    <3>2. Append(posted, e) = <<e>>
      BY <1>1
    <3> QED  BY <1>1, <1>2, <3>1, <3>2 DEF Post
  <2>2. Unanswered' = IF hasDestroyed THEN {} ELSE {call}
    <3>1. CASE hasDestroyed
      BY <2>1, <3>1 DEF Unanswered
    <3>2. CASE ~hasDestroyed
      <4>1. posted' = <<e>> /\ DOMAIN <<e>> = {1} /\ <<e>>[1] = e
        BY <2>1, <3>2
      <4> QED  BY <2>1, <3>2, <4>1 DEF Unanswered
    <3> QED  BY <3>1, <3>2
  <2>3. CallsFit'
    BY <1>1, <1>4, <2>2 DEF CallsInv, CallsFit, Later
  <2>4. GoSerialized' /\ NeverRefused' /\ SyncCallIsOnTop' /\ PostedIsAllowed' /\ AnswerOutstanding'
    <3>1. posted' = <<>> \/ posted' = <<e>>
      BY <2>1
    <3> QED  BY <1>1, <2>1, <2>2, <3>1
                DEF GoSerialized, NeverRefused, SyncCallIsOnTop, PostedIsAllowed, AnswerOutstanding
  <2> QED  BY <2>3, <2>4 DEF CallsInv
<1>5. CASE status \notin Later
  <2>1. go' = {} /\ posted' = <<>> /\ paniced' = paniced
    BY <1>1, <1>5 DEF GoReturns, Later
  <2>2. Unanswered' = {}
    BY <2>1 DEF Unanswered
  <2> QED  BY <1>1, <1>5, <2>1, <2>2, EmptySeq
              DEF CallsInv, CallsFit, GoSerialized, NeverRefused, SyncCallIsOnTop,
                  PostedIsAllowed, AnswerOutstanding
<1> QED  BY <1>3, <1>4, <1>5 DEF Later

-----------------------------------------------------------------------------
(* The stream                                                              *)

\* Steps that leave alone all that FlowInv speaks of, except for the calls.
LEMMA LeaveFlow ==
    ASSUME FlowInv, Unanswered' # {} => Unanswered # {},
           UNCHANGED <<ps, stack, fed, enterEncoding, localReplyWaitingGo, dynamicLib, closed>>
    PROVE  FlowInv'
<1>1. Cur' = Cur /\ ReplyBodyPending' = ReplyBodyPending
  BY DEF Cur, ReplyBodyPending
<1>2. \A frame : FrameFits(frame)' <=> FrameFits(frame)
  BY <1>1 DEF FrameFits
<1>3. StackShape'
  BY <1>2 DEF FlowInv, StackShape
<1>4. StreamOrder'
  BY <1>1 DEF FlowInv, StreamOrder
<1>5. ReplyWaitsForRequest' /\ BufferFits'
  BY DEF FlowInv, ReplyWaitsForRequest, BufferFits
<1> QED  BY <1>3, <1>4, <1>5 DEF FlowInv

\* The buffers stay within what came in when they are left alone, emptied, or
\* filled with what comes in.
LEMMA KeepBufferFits ==
    ASSUME TypeOK, BufferFits,
           \A e \in Dir :
              /\ Len(fed[e]) <= Len(fed'[e]) /\ Len(fed'[e]) \in Nat
              /\ \/ ps'[e].dataBuffer \in {<<>>, ps[e].dataBuffer}
                 \/ Len(ps'[e].dataBuffer) < Len(fed'[e])
              /\ ps'[e].state = "WaitingAllData" =>
                    "StopAndBuffer" \in Answers \/ ps[e].state = "WaitingAllData"
    PROVE  BufferFits'
<1>1. ASSUME NEW e \in Dir
      PROVE  ps'[e].dataBuffer = <<>> \/ Len(ps'[e].dataBuffer) < Len(fed'[e])
  <2>1. CASE ps'[e].dataBuffer = ps[e].dataBuffer
    <3>1. Len(fed[e]) \in Nat /\ Len(ps[e].dataBuffer) \in Nat
      BY LenProperties DEF TypeOK, Processor
    <3>2. ps[e].dataBuffer = <<>> \/ Len(ps[e].dataBuffer) < Len(fed[e])
      BY DEF BufferFits
    <3> QED  BY <2>1, <3>1, <3>2
  <2> QED  BY <2>1
<1>2. "StopAndBuffer" \notin Answers => \A e \in Dir : ps'[e].state # "WaitingAllData"
  BY DEF BufferFits
<1> QED  BY <1>1, <1>2 DEF BufferFits

\* Under Calm a buffer that waits for all data never crosses its limit, and
\* what is added to a buffer came in.
LEMMA NoOverflow ==
    ASSUME Calm, SerialInv, NEW d \in Dir, NEW data \in Seq(Chunks), NEW p \in Processor,
           p.dataBuffer = ps[d].dataBuffer, p.state = ps[d].state, fed[d] # <<>>,
           data = <<>> \/ (Len(data) = 1 /\ (Len(fed[d]) <= MaxChunks \/ fed[d] = <<Hdr>>))
    PROVE  /\ ~Overflows(p, data, Limit)
           /\ p.dataBuffer \o data = p.dataBuffer \/ Len(p.dataBuffer \o data) < Len(fed[d]) + Len(data)
<1>1. /\ Len(p.dataBuffer \o data) = Len(p.dataBuffer) + Len(data)
      /\ Len(p.dataBuffer) \in Nat /\ Len(data) \in Nat
  BY AddBufferDataEffects
<1>2. Len(fed[d]) \in Nat /\ Len(fed[d]) >= 1 /\ MaxChunks \in Nat /\ Limit \in Nat \ {0}
  <2>1. fed[d] \in Seq(Item)
    BY DEF SerialInv, TypeOK
  <2>2. Len(fed[d]) \in Nat \ {0}
    BY <2>1, EmptySeq
  <2> QED  BY <2>2, BoundsAssumption
<1>3. p.dataBuffer = <<>> \/ Len(p.dataBuffer) < Len(fed[d])
  BY DEF SerialInv, FlowInv, BufferFits
<1>4. Len(p.dataBuffer) < Len(fed[d])
  BY <1>1, <1>2, <1>3
<1>5. data = <<>> => p.dataBuffer \o data = p.dataBuffer
  BY ConcatEmptySeq DEF Processor
<1>6. ~Overflows(p, data, Limit)
  <2>1. CASE data = <<>>
    BY <1>1, <1>2, <1>5, <2>1 DEF Overflows, Crosses
  <2>2. CASE "StopAndBuffer" \notin Answers
    BY <2>2 DEF SerialInv, FlowInv, BufferFits, Overflows
  <2>3. CASE Len(data) = 1 /\ Len(fed[d]) <= MaxChunks /\ MaxChunks <= Limit
    BY <1>1, <1>2, <1>4, <2>3 DEF Overflows, Crosses
  <2>4. CASE Len(data) = 1 /\ fed[d] = <<Hdr>>
    <3>1. Len(fed[d]) = 1
      BY <2>4
    <3> QED  BY <1>1, <1>2, <1>4, <2>4, <3>1 DEF Overflows, Crosses
  <2> QED  BY <2>1, <2>2, <2>3, <2>4 DEF Calm
<1>7. data # <<>> => Len(p.dataBuffer \o data) < Len(fed[d]) + Len(data)
  BY <1>1, <1>2, <1>4
<1> QED  BY <1>5, <1>6, <1>7

-----------------------------------------------------------------------------
(* Answers, resets and local replies                                       *)

LEMMA GoroutineSerial ==
    ASSUME SerialInv, Goroutine
    PROVE  CallsInv' /\ FlowInv'
<1> PICK call \in go, act \in {"continue", "reply"}, status \in GolangStatus :
        /\ GoAnswers(call, act, status)
        /\ act = "continue" => status \notin {"Running", "LocalReply"}
  BY DEF Goroutine, Continue, SendLocalReply, GolangStatus
<1> DEFINE e == [act |-> act, status |-> status, call |-> call]
<1>1. /\ go = {call} /\ posted = <<>> /\ Unanswered = {call}
      /\ ps[Cur].state = Processing(call.kind) /\ ~paniced /\ call \in Call
  <2>1. go = {call} /\ posted = <<>>
    BY DEF SerialInv, CallsInv, GoSerialized
  <2>2. Unanswered = {call}
    BY <2>1, OneCall
  <2> QED  BY <2>1, <2>2 DEF SerialInv, CallsInv, CallsFit, NeverRefused, TypeOK
<1>2. InGo(ps[Cur])
  BY <1>1, ProcessingIsInGo DEF Call
<1>3. /\ go' = {} /\ paniced' = paniced
      /\ posted' = IF hasDestroyed THEN <<>> ELSE <<e>>
  <2>1. Append(posted, e) = <<e>>
    BY <1>1
  <2> QED  BY <1>1, <1>2, <2>1 DEF GoAnswers, Post
<1>4. Unanswered' = IF hasDestroyed THEN {} ELSE {call}
  <2>1. CASE hasDestroyed
    BY <1>3, <2>1 DEF Unanswered
  <2>2. CASE ~hasDestroyed
    <3>1. posted' = <<e>> /\ DOMAIN <<e>> = {1} /\ <<e>>[1] = e
      BY <1>3, <2>2
    <3> QED  BY <1>3, <2>2, <3>1 DEF Unanswered
  <2> QED  BY <2>1, <2>2
<1>5. UNCHANGED <<ps, stack, fed, enterEncoding, localReplyWaitingGo, dynamicLib, closed,
                  hasDestroyed>>
  BY DEF GoAnswers, filterVars, lifeVars, replyVars, streamVars
<1>6. CallsFit'
  BY <1>1, <1>4, <1>5 DEF SerialInv, CallsInv, CallsFit, Cur
<1>7. PostedIsAllowed'
  <2>1. status \in Allowed(call)
    BY DEF GoAnswers
  <2>2. posted' = <<>> \/ posted' = <<e>>
    BY <1>3
  <2> QED  BY <2>1, <2>2 DEF PostedIsAllowed, Allowed
<1>8. GoSerialized' /\ NeverRefused' /\ SyncCallIsOnTop' /\ AnswerOutstanding'
  <2>1. posted' = <<>> \/ posted' = <<e>>
    BY <1>3
  <2> QED  BY <1>1, <1>3, <1>4, <1>5, <2>1
              DEF GoSerialized, NeverRefused, SyncCallIsOnTop, AnswerOutstanding
<1>9. FlowInv'
  BY <1>1, <1>4, <1>5, LeaveFlow DEF SerialInv
<1> QED  BY <1>6, <1>7, <1>8, <1>9 DEF CallsInv

LEMMA DropEventSerial ==
    ASSUME SerialInv, DropEvent
    PROVE  CallsInv' /\ FlowInv'
<1>1. go = {} /\ posted' = <<>> /\ Unanswered # {}
  BY OnePosted DEF SerialInv, CallsInv, DropEvent, NextEvent
<1>2. /\ hasDestroyed /\ go' = {}
      /\ UNCHANGED <<ps, stack, fed, enterEncoding, localReplyWaitingGo, dynamicLib, closed,
                     hasDestroyed, paniced>>
  BY <1>1 DEF DropEvent, filterVars, lifeVars, replyVars, goVars, streamVars
<1>3. Unanswered' = {}
  BY <1>1, <1>2 DEF Unanswered
<1>4. CallsInv'
  BY <1>1, <1>2, <1>3, EmptySeq
     DEF SerialInv, CallsInv, CallsFit, GoSerialized, NeverRefused, SyncCallIsOnTop,
         PostedIsAllowed, AnswerOutstanding
<1> QED  BY <1>1, <1>2, <1>3, <1>4, LeaveFlow DEF SerialInv

LEMMA DestroySerial ==
    ASSUME SerialInv, Destroy
    PROVE  CallsInv' /\ FlowInv'
<1>1. UNCHANGED <<ps, stack, fed, enterEncoding, localReplyWaitingGo, dynamicLib, closed,
                  go, posted, paniced>>
  BY DEF Destroy, replyVars, goVars, streamVars
<1>2. hasDestroyed' /\ Cur' = Cur /\ Unanswered' = Unanswered
  BY <1>1 DEF Destroy, Cur, Unanswered
<1> QED  BY <1>1, <1>2, LeaveGo, LeaveFlow DEF SerialInv

LEMMA OtherLocalReplySerial ==
    ASSUME Calm, SerialInv, OtherLocalReply
    PROVE  CallsInv' /\ FlowInv'
<1>1. /\ stack = <<>> /\ fed["encode"] = <<>> /\ ~closed
      /\ stack' = <<At("localReply", "decode")>>
      /\ UNCHANGED <<ps, fed, enterEncoding, localReplyWaitingGo, dynamicLib, closed,
                     go, posted, paniced, hasDestroyed>>
  <2>1. stack = <<>> /\ stack' = <<At("localReply", "decode")>> \o stack
    BY DEF OtherLocalReply, Calm
  <2>2. stack' = <<At("localReply", "decode")>>
    BY <2>1
  <2> QED  BY <2>1, <2>2 DEF OtherLocalReply, filterVars, lifeVars, replyVars, goVars, streamVars
<1>2. Cur' = Cur /\ Unanswered' = Unanswered
  BY <1>1 DEF Cur, Unanswered
<1>3. CallsInv'
  BY <1>1, <1>2, LeaveGo, NoSyncCall DEF SerialInv
<1>4. StackShape'
  <2>1. At("localReply", "decode") \in Frame
    BY LabelTypes DEF At, Frame, Dir
  <2>2. FrameFits(At("localReply", "decode"))'
    BY <1>1 DEF FrameFits, At
  <2> QED  BY <1>1, <2>1, <2>2 DEF StackShape
<1>5. StreamOrder'
  BY <1>1, <1>2 DEF SerialInv, FlowInv, StreamOrder
<1>6. ReplyWaitsForRequest'
  BY <1>1 DEF SerialInv, FlowInv, StreamOrder, ReplyWaitsForRequest
<1>7. BufferFits'
  BY <1>1 DEF SerialInv, FlowInv, BufferFits
<1> QED  BY <1>3, <1>4, <1>5, <1>6, <1>7 DEF FlowInv

-----------------------------------------------------------------------------
(* Facts for the steps of the worker                                       *)

\* What came in grows, or stays.
LEMMA FedGrows ==
    ASSUME TypeOK, NEW g \in Dir, NEW items \in Seq(Item), Feed(g, items)
    PROVE  /\ fed' = [fed EXCEPT ![g] = fed[g] \o items]
           /\ \A e \in Dir : Len(fed[e]) <= Len(fed'[e]) /\ Len(fed'[e]) \in Nat
           /\ fed'[g] = fed[g] \o items
           /\ Len(fed'[g]) = Len(fed[g]) + Len(items)
           /\ items # <<>> => fed'[g] # <<>>
           /\ \A e \in Dir : fed[e] # <<>> => fed'[e] # <<>>
           /\ \A e \in Dir : e # g => fed'[e] = fed[e]
<1>1. fed' = [fed EXCEPT ![g] = fed[g] \o items] /\ fed \in [Dir -> Seq(Item)]
  BY DEF Feed, TypeOK
<1>2. /\ Len(fed[g] \o items) = Len(fed[g]) + Len(items)
      /\ fed[g] \o items \in Seq(Item)
      /\ Len(items) \in Nat
      /\ \A e \in Dir : Len(fed[e]) \in Nat
  BY <1>1, ConcatProperties, LenProperties
<1>3. fed'[g] = fed[g] \o items /\ \A e \in Dir : e # g => fed'[e] = fed[e]
  BY <1>1
<1>4. ASSUME NEW e \in Dir
      PROVE  Len(fed[e]) <= Len(fed'[e]) /\ Len(fed'[e]) \in Nat
  <2>1. CASE e = g
    <3>1. Len(fed'[g]) = Len(fed[g]) + Len(items) /\ Len(fed[g]) \in Nat /\ Len(items) \in Nat
      BY <1>2, <1>3
    <3> QED  BY <2>1, <3>1
  <2>2. CASE e # g
    <3>1. fed'[e] = fed[e] /\ Len(fed[e]) \in Nat
      BY <1>2, <1>3, <2>2
    <3> QED  BY <3>1
  <2> QED  BY <2>1, <2>2
<1>5. items # <<>> \/ fed[g] # <<>> => fed'[g] # <<>>
  BY <1>1, <1>2, <1>3, EmptySeq
<1> QED  BY <1>1, <1>2, <1>3, <1>4, <1>5

LEMMA FedStays ==
    ASSUME TypeOK, fed' = fed
    PROVE  \A e \in Dir : Len(fed[e]) <= Len(fed'[e]) /\ Len(fed'[e]) \in Nat
BY LenProperties DEF TypeOK

\* A step that changes one processor state.
LEMMA OneBufferFits ==
    ASSUME TypeOK, BufferFits, NEW d \in Dir, NEW p, ps' = [ps EXCEPT ![d] = p],
           \A e \in Dir : Len(fed[e]) <= Len(fed'[e]) /\ Len(fed'[e]) \in Nat,
           p.dataBuffer \in {<<>>, ps[d].dataBuffer} \/ Len(p.dataBuffer) < Len(fed'[d]),
           p.state = "WaitingAllData" => "StopAndBuffer" \in Answers \/ ps[d].state = "WaitingAllData"
    PROVE  BufferFits'
<1>1. ps \in [Dir -> Processor]
  BY DEF TypeOK
<1>2. ps'[d] = p /\ \A e \in Dir : e # d => ps'[e] = ps[e]
  BY <1>1
<1> QED  BY <1>2, KeepBufferFits

\* The worker in Go, or nowhere, on its own.
LEMMA InGoShape ==
    ASSUME NEW at \in GoFrames, NEW d \in Dir, Cur' = d, dynamicLib', stack' = <<At(at, d)>>
    PROVE  StackShape'
<1>1. At(at, d) \in Frame
  BY LabelTypes DEF At, Frame
<1>2. FrameFits(At(at, d))'
  BY DEF FrameFits, At, GoFrames
<1> QED  BY <1>1, <1>2 DEF StackShape

\* The stream keeps its order when the flags of the filter do not change.
LEMMA KeepOrder ==
    ASSUME FlowInv, UNCHANGED <<enterEncoding, localReplyWaitingGo, dynamicLib, closed>>,
           (fed'["encode"] = <<>>) <=> (fed["encode"] = <<>>),
           fed'["decode"] = <<>> => fed["decode"] = <<>> /\ ps'["decode"].state = ps["decode"].state,
           fed["encode"] # <<>> =>
              \/ Ended(fed["decode"]) /\ fed'["decode"] = fed["decode"]
              \/ Ended(fed'["encode"])
              \/ ReplyBodyPending',
           Unanswered' # {} => dynamicLib
    PROVE  StreamOrder'
BY DEF FlowInv, StreamOrder, Ended

\* While the request may go on there is no response yet.
LEMMA RequestIsCurrent ==
    ASSUME SerialInv, CanFeed("decode")
    PROVE  /\ fed["encode"] = <<>> /\ ~enterEncoding /\ ~localReplyWaitingGo /\ Cur = "decode"
           /\ stack = <<>> /\ ~hasDestroyed /\ ~closed
<1>1. stack = <<>> /\ ~Ended(fed["decode"]) /\ ~Ended(fed["encode"]) /\ ~hasDestroyed /\ ~closed
  BY DEF CanFeed
<1>2. ~ReplyBodyPending
  BY <1>1 DEF ReplyBodyPending
<1>3. fed["encode"] = <<>>
  BY <1>1, <1>2 DEF SerialInv, FlowInv, StreamOrder
<1> QED  BY <1>1, <1>3 DEF SerialInv, FlowInv, StreamOrder, Cur

\* Without the library there are no calls.
LEMMA NoLibrary ==
    ASSUME SerialInv, ~dynamicLib
    PROVE  Unanswered = {} /\ go = {} /\ posted = <<>>
<1>1. Unanswered = {}
  BY DEF SerialInv, FlowInv, StreamOrder
<1>2. posted = <<>>
  BY <1>1, OnePosted DEF SerialInv, CallsInv
<1> QED  BY <1>1, <1>2 DEF Unanswered

\* The response goes on once the request is over.
LEMMA ResponseIsCurrent ==
    ASSUME SerialInv, CanFeed("encode"), fed["encode"] # <<>>
    PROVE  /\ stack = <<>> /\ ~hasDestroyed /\ ~closed /\ Ended(fed["decode"])
           /\ dynamicLib /\ ~localReplyWaitingGo => enterEncoding /\ Cur = "encode"
<1>1. stack = <<>> /\ ~Ended(fed["encode"]) /\ ~hasDestroyed /\ ~closed
  BY DEF CanFeed
<1>2. ~ReplyBodyPending
  BY <1>1 DEF ReplyBodyPending
<1> QED  BY <1>1, <1>2 DEF SerialInv, FlowInv, StreamOrder, Cur

\* What came in grows, or stays, and the request is over, or the response is,
\* when a response that started goes on.
FedGoesOn ==
    /\ \A e \in Dir : Len(fed[e]) <= Len(fed'[e]) /\ Len(fed'[e]) \in Nat
    /\ (fed'["encode"] = <<>>) <=> (fed["encode"] = <<>>)
    /\ fed["decode"] # <<>> => fed'["decode"] # <<>>
    /\ fed["encode"] # <<>> =>
          (Ended(fed["decode"]) /\ fed'["decode"] = fed["decode"]) \/ Ended(fed'["encode"])

\* A message goes on that has started.
LEMMA FedMessage ==
    ASSUME TypeOK, NEW g \in Dir, NEW items \in Seq(Item), Feed(g, items),
           fed[g] # <<>> \/ (g = "decode" /\ items # <<>>),
           fed["encode"] # <<>> =>
              (g = "encode" /\ Ended(fed["decode"])) \/ Ended(fed'["encode"])
    PROVE  FedGoesOn /\ fed'[g] # <<>>
<1>1. /\ \A e \in Dir : Len(fed[e]) <= Len(fed'[e]) /\ Len(fed'[e]) \in Nat
      /\ items # <<>> => fed'[g] # <<>>
      /\ \A e \in Dir : fed[e] # <<>> => fed'[e] # <<>>
      /\ \A e \in Dir : e # g => fed'[e] = fed[e]
  BY FedGrows
<1>2. "decode" \in Dir /\ "encode" \in Dir /\ "decode" # "encode"
  BY DEF Dir
<1> QED  BY <1>1, <1>2 DEF FedGoesOn

\* Nothing comes in.
LEMMA FedSame ==
    ASSUME TypeOK, fed' = fed,
           fed["encode"] # <<>> => Ended(fed["decode"]) \/ Ended(fed["encode"])
    PROVE  FedGoesOn
BY FedStays DEF FedGoesOn, Ended

\* The worker comes back to its event loop without having called anybody.
LEMMA QuietStep ==
    ASSUME SerialInv, stack = <<>> \/ Head(stack).at \notin GoFrames, stack' = <<>>,
           UNCHANGED <<go, posted, paniced, enterEncoding, localReplyWaitingGo, dynamicLib,
                       closed, hasDestroyed>>,
           \A e \in Dir :
              /\ ps'[e].state = ps[e].state
              /\ ps'[e].dataBuffer \in {<<>>, ps[e].dataBuffer} \/ Len(ps'[e].dataBuffer) < Len(fed'[e]),
           FedGoesOn
    PROVE  CallsInv' /\ FlowInv'
<1>0. Cur' = Cur /\ Cur \in Dir /\ "decode" \in Dir /\ Unanswered' = Unanswered
  BY DEF Cur, Dir, Unanswered
<1>1. CallsInv'
  BY <1>0, LeaveGo, NoSyncCall DEF SerialInv
<1>2. StackShape'
  BY DEF StackShape
<1>3. StreamOrder'
  <2>1. Unanswered' # {} => dynamicLib
    BY <1>0 DEF SerialInv, FlowInv, StreamOrder
  <2> QED  BY <1>0, <2>1, KeepOrder DEF SerialInv, FedGoesOn
<1>4. ReplyWaitsForRequest'
  BY <1>0 DEF SerialInv, FlowInv, ReplyWaitsForRequest, InGo
<1>5. BufferFits'
  BY KeepBufferFits DEF SerialInv, FlowInv, FedGoesOn
<1> QED  BY <1>1, <1>2, <1>3, <1>4, <1>5 DEF FlowInv

\* Seeing trailers changes neither the state nor the buffer.
LEMMA SeeTrailersEffects ==
    ASSUME TypeOK, NEW d \in Dir
    PROVE  /\ SeeTrailers(d) = [ps EXCEPT ![d] = SeeTrailers(d)[d]]
           /\ SeeTrailers(d)[d] \in Processor
           /\ \A e \in Dir : /\ SeeTrailers(d)[e].state = ps[e].state
                             /\ SeeTrailers(d)[e].dataBuffer = ps[e].dataBuffer
<1> DEFINE p == [ps[d] EXCEPT !.seenTrailers = TRUE]
<1>1. ps \in [Dir -> Processor]
  BY DEF TypeOK
<1>2. p \in Processor /\ p.state = ps[d].state /\ p.dataBuffer = ps[d].dataBuffer
  <2>1. ps[d] \in Processor
    BY <1>1
  <2> QED  BY <2>1 DEF Processor
<1>3. SeeTrailers(d) = [ps EXCEPT ![d] = p]
  BY DEF SeeTrailers
<1>4. SeeTrailers(d)[d] = p /\ \A e \in Dir : e # d => SeeTrailers(d)[e] = ps[e]
  <2> HIDE DEF p
  <2> QED  BY <1>1, <1>3
<1> QED  BY <1>2, <1>3, <1>4

-----------------------------------------------------------------------------
(* The request comes in                                                    *)

\* The worker enters Go for the current processor state, from the event loop
\* or from a place it does not come back to.
LEMMA EntersGo ==
    ASSUME SerialInv, dynamicLib, NEW d \in Dir, Cur = d, ~InGo(ps[d]),
           NEW kind \in Kind, NEW endStream, NEW items, NEW at \in GoFrames,
           CallGo(d, kind, endStream, items, at, <<>>),
           FrameKind(at) = kind, kind = "trailers" => endStream,
           NEW p, ps' = [ps EXCEPT ![d] = p], p.state = Processing(kind),
           p.dataBuffer \in {<<>>, ps[d].dataBuffer},
           FedGoesOn, d = "decode" => fed'["decode"] # <<>>,
           UNCHANGED <<posted, paniced, enterEncoding, localReplyWaitingGo, dynamicLib, closed>>
    PROVE  CallsInv' /\ FlowInv'
<1>1. ps \in [Dir -> Processor]
  BY DEF SerialInv, TypeOK
<1>2. Cur' = d /\ ps'[d] = p /\ \A e \in Dir : e # d => ps'[e] = ps[e]
  BY <1>1 DEF Cur
<1>3. go = {} /\ posted = <<>> /\ ~localReplyWaitingGo
  BY Idle DEF SerialInv, FlowInv, ReplyWaitsForRequest, Cur
<1>4. CallsInv'
  BY <1>2, <1>3, EnterGo DEF SerialInv
<1>5. StackShape'
  <2>1. stack' = <<At(at, d)>> \o <<>>
    BY DEF CallGo
  <2>2. stack' = <<At(at, d)>>
    BY <2>1
  <2> QED  BY <1>2, <2>2, InGoShape
<1>6. StreamOrder'
  <2>1. "decode" # "encode" /\ "decode" \in Dir
    BY DEF Dir
  <2> QED  BY <1>2, <2>1, KeepOrder DEF SerialInv, FedGoesOn
<1>7. ReplyWaitsForRequest'
  BY <1>3 DEF ReplyWaitsForRequest
<1>8. BufferFits'
  <2>1. p.state # "WaitingAllData"
    BY ProcessingIsInGo
  <2> QED  BY <2>1, OneBufferFits DEF SerialInv, FlowInv, FedGoesOn
<1> QED  BY <1>4, <1>5, <1>6, <1>7, <1>8 DEF FlowInv

\* The filter passes on what comes in, without the library.
LEMMA BypassSerial ==
    ASSUME SerialInv, stack = <<>> \/ Head(stack).at \notin GoFrames, stack' = <<>>, FedGoesOn,
           NEW d \in Dir, NEW items, Bypass(d, items), ps' = ps \/ ps' = SeeTrailers(d)
    PROVE  CallsInv' /\ FlowInv'
<1>1. UNCHANGED <<go, posted, paniced, enterEncoding, localReplyWaitingGo, dynamicLib,
                  closed, hasDestroyed>>
  BY DEF Bypass, filterVars, lifeVars, replyVars, goVars
<1>2. ASSUME NEW e \in Dir
      PROVE  ps'[e].state = ps[e].state /\ ps'[e].dataBuffer = ps[e].dataBuffer
  <2>1. CASE ps' = ps
    BY <2>1
  <2>2. CASE ps' = SeeTrailers(d)
    BY <2>2, SeeTrailersEffects DEF SerialInv
  <2> QED  BY <2>1, <2>2
<1> QED  BY <1>1, <1>2, QuietStep

LEMMA DecodeHeadersSerial ==
    ASSUME SerialInv, NEW endStream \in BOOLEAN, DecodeHeaders(endStream)
    PROVE  CallsInv' /\ FlowInv'
<1> DEFINE more == <<Hdr>> \o EndIf(endStream)
<1>1. /\ CanFeed("decode") /\ Feed("decode", more)
      /\ more \in Seq(Item) /\ more # <<>> /\ "decode" \in Dir
  BY ItemTypes, ConcatProperties DEF DecodeHeaders, Dir, EndIf
<1>2. /\ fed["encode"] = <<>> /\ Cur = "decode" /\ stack = <<>>
      /\ FedGoesOn /\ fed'["decode"] # <<>>
  <2>1. fed["encode"] = <<>> /\ Cur = "decode" /\ stack = <<>>
    BY <1>1, RequestIsCurrent
  <2> QED  BY <1>1, <2>1, FedMessage DEF SerialInv
<1>3. CASE Bypass("decode", EndIf(endStream)) /\ UNCHANGED <<ps, stack>>
  BY <1>1, <1>2, <1>3, BypassSerial
<1>4. CASE /\ dynamicLib
           /\ DoHeadersGo("decode", SetEndStream("decode", endStream), endStream, "doHeaders", stack)
           /\ UNCHANGED <<lifeVars, replyVars, trailers, paniced, posted, out, dropped, closed>>
  <2> DEFINE q == [ps["decode"] EXCEPT !.endStream = endStream]
             p == ProcessHeader(q, endStream)
  <2>1. q \in Processor /\ q.dataBuffer = ps["decode"].dataBuffer
    BY DEF SerialInv, TypeOK, Processor, Dir
  <2>2. ps' = [ps EXCEPT !["decode"] = p]
    BY <1>4 DEF DoHeadersGo, SetEndStream, SerialInv, TypeOK, Dir
  <2>3. p.state = Processing("headers") /\ p.dataBuffer = ps["decode"].dataBuffer
    BY <2>1, ProcessEffects
  <2>4. ~InGo(ps["decode"])
    BY DEF DecodeHeaders, SerialInv, FlowInv, StreamOrder, InGo
  <2>5. CallGo("decode", "headers", endStream, more, "doHeaders", <<>>)
    BY <1>2, <1>4 DEF DoHeadersGo
  <2>6. "doHeaders" \in GoFrames /\ FrameKind("doHeaders") = "headers" /\ "headers" \in Kind
    BY DEF GoFrames, FrameKind, Kind
  <2>7. UNCHANGED <<posted, paniced, enterEncoding, localReplyWaitingGo, dynamicLib, closed>>
    BY <1>4 DEF lifeVars, replyVars
  <2> HIDE DEF p, q, more
  <2> QED  BY <1>1, <1>2, <1>4, <2>2, <2>3, <2>4, <2>5, <2>6, <2>7, EntersGo
<1> QED  BY <1>3, <1>4 DEF DecodeHeaders

\* Entering Go about data, or about trailers.
LEMMA EntersGoAboutData ==
    ASSUME SerialInv, dynamicLib, NEW d \in Dir, Cur = d, ~InGo(ps[d]),
           NEW p \in Processor, p.dataBuffer \in {<<>>, ps[d].dataBuffer},
           NEW data, NEW endStream, NEW at \in {"doData", "doTrailerData", "resumeData"},
           DoDataGo(d, p, data, endStream, at, <<>>),
           FedGoesOn, d = "decode" => fed'["decode"] # <<>>,
           UNCHANGED <<posted, paniced, enterEncoding, localReplyWaitingGo, dynamicLib, closed>>
    PROVE  CallsInv' /\ FlowInv'
<1> DEFINE q == ProcessData(p, endStream)
           n == Push(q, data)
<1>1. n.state = Processing("data") /\ n.dataBuffer = p.dataBuffer
  <2>1. q.state = Processing("data") /\ q.dataBuffer = p.dataBuffer
    BY ProcessEffects
  <2>2. n.state = q.state /\ n.dataBuffer = q.dataBuffer
    BY DEF Push, ProcessData, Processor
  <2> QED  BY <2>1, <2>2
<1>2. ps' = [ps EXCEPT ![d] = n] /\ CallGo(d, "data", endStream, data \o EndIf(endStream), at, <<>>)
  BY DEF DoDataGo
<1>3. at \in GoFrames /\ FrameKind(at) = "data" /\ "data" \in Kind
  BY DEF GoFrames, FrameKind, Kind
<1> HIDE DEF n
<1> QED  BY <1>1, <1>2, <1>3, EntersGo

LEMMA EntersGoAboutTrailers ==
    ASSUME SerialInv, dynamicLib, NEW d \in Dir, Cur = d, ~InGo(ps[d]),
           NEW p \in Processor, p.dataBuffer \in {<<>>, ps[d].dataBuffer},
           NEW at \in {"doTrailer", "resumeTrailer"},
           DoTrailerGo(d, p, at, <<>>),
           FedGoesOn, d = "decode" => fed'["decode"] # <<>>,
           UNCHANGED <<posted, paniced, enterEncoding, localReplyWaitingGo, dynamicLib, closed>>
    PROVE  CallsInv' /\ FlowInv'
<1> DEFINE n == ProcessTrailer(p)
<1>1. n.state = Processing("trailers") /\ n.dataBuffer = p.dataBuffer
  BY ProcessEffects
<1>2. ps' = [ps EXCEPT ![d] = n] /\ CallGo(d, "trailers", TRUE, <<Trl>>, at, <<>>)
  BY DEF DoTrailerGo
<1>3. at \in GoFrames /\ FrameKind(at) = "trailers" /\ "trailers" \in Kind
  BY DEF GoFrames, FrameKind, Kind
<1> HIDE DEF n
<1> QED  BY <1>1, <1>2, <1>3, EntersGo

\* The processor state with a data frame, and with the frame in its buffer.
LEMMA BufferGrows ==
    ASSUME Calm, SerialInv, NEW d \in Dir, NEW data \in Seq(Chunks), NEW endStream \in BOOLEAN,
           fed[d] # <<>>, Feed(d, data \o EndIf(endStream)),
           data = <<>> \/ (Len(data) = 1 /\ (Len(fed[d]) <= MaxChunks \/ fed[d] = <<Hdr>>)),
           NEW p, p = [ps[d] EXCEPT !.endStream = endStream],
           NEW q, q = AddBufferData(p, data, Limit)
    PROVE  /\ p \in Processor /\ p.state = ps[d].state /\ p.dataBuffer = ps[d].dataBuffer
           /\ q \in Processor /\ q.state = ps[d].state
           /\ ~Overflows(p, data, Limit)
           /\ q.dataBuffer = ps[d].dataBuffer \/ Len(q.dataBuffer) < Len(fed'[d])
<1>1. p \in Processor /\ p.state = ps[d].state /\ p.dataBuffer = ps[d].dataBuffer
  <2>1. ps[d] \in Processor
    BY DEF SerialInv, TypeOK
  <2> QED  BY <2>1 DEF Processor
<1>2. /\ ~Overflows(p, data, Limit)
      /\ p.dataBuffer \o data = p.dataBuffer \/ Len(p.dataBuffer \o data) < Len(fed[d]) + Len(data)
  BY <1>1, NoOverflow
<1>3. q \in Processor /\ q.state = ps[d].state /\ q.dataBuffer = p.dataBuffer \o data
  BY <1>1, AddBufferDataType, AddBufferDataEffects
<1>4. /\ Len(fed[d]) + Len(data) <= Len(fed'[d])
      /\ Len(fed[d]) \in Nat /\ Len(data) \in Nat /\ Len(fed'[d]) \in Nat
  <2>1. /\ EndIf(endStream) \in Seq(Item) /\ data \in Seq(Item)
        /\ data \o EndIf(endStream) \in Seq(Item)
        /\ Len(data \o EndIf(endStream)) = Len(data) + Len(EndIf(endStream))
    BY ItemTypes, DataIsItems, ConcatProperties
  <2>2. Len(fed'[d]) = Len(fed[d]) + Len(data \o EndIf(endStream))
    BY <2>1, FedGrows DEF SerialInv
  <2>3. Len(fed[d]) \in Nat /\ Len(data) \in Nat /\ Len(EndIf(endStream)) \in Nat
    BY <2>1, LenProperties DEF SerialInv, TypeOK
  <2>4. Len(fed'[d]) = Len(fed[d]) + (Len(data) + Len(EndIf(endStream)))
    BY <2>1, <2>2
  <2>5. \A a, b, c \in Nat : a + b <= a + (b + c) /\ a + (b + c) \in Nat
    OBVIOUS
  <2> QED  BY <2>3, <2>4, <2>5
<1>5. CASE p.dataBuffer \o data = p.dataBuffer
  BY <1>1, <1>2, <1>3, <1>5
<1>6. CASE Len(p.dataBuffer \o data) < Len(fed[d]) + Len(data)
  <2>1. Len(q.dataBuffer) < Len(fed[d]) + Len(data) /\ Len(q.dataBuffer) \in Nat
    BY <1>3, <1>6, LenProperties DEF Processor
  <2>2. Len(q.dataBuffer) < Len(fed'[d])
    BY <1>4, <2>1
  <2> QED  BY <1>1, <1>2, <1>3, <2>2
<1> QED  BY <1>2, <1>5, <1>6

\* One processor state changes, but neither its state nor, beyond what came in,
\* its buffer, and nobody is called.
LEMMA QuietChange ==
    ASSUME SerialInv, stack = <<>> \/ Head(stack).at \notin GoFrames, stack' = <<>>, FedGoesOn,
           NEW d \in Dir, NEW p, ps' = [ps EXCEPT ![d] = p], p.state = ps[d].state,
           p.dataBuffer \in {<<>>, ps[d].dataBuffer} \/ Len(p.dataBuffer) < Len(fed'[d]),
           UNCHANGED <<go, posted, paniced, enterEncoding, localReplyWaitingGo, dynamicLib,
                       closed, hasDestroyed>>
    PROVE  CallsInv' /\ FlowInv'
<1>1. ps \in [Dir -> Processor]
  BY DEF SerialInv, TypeOK
<1>2. ps'[d] = p /\ \A e \in Dir : e # d => ps'[e] = ps[e]
  BY <1>1
<1>3. ASSUME NEW e \in Dir
      PROVE  /\ ps'[e].state = ps[e].state
             /\ \/ ps'[e].dataBuffer \in {<<>>, ps[e].dataBuffer}
                \/ Len(ps'[e].dataBuffer) < Len(fed'[e])
  BY <1>2
<1> QED  BY <1>3, QuietStep

\* A data frame is given to Go or kept; the buffer does not overflow.
LEMMA DoDataSerial ==
    ASSUME Calm, SerialInv, NEW d \in Dir, NEW data \in Seq(Chunks), NEW endStream \in BOOLEAN,
           dynamicLib, ~localReplyWaitingGo, Cur = d, fed[d] # <<>>,
           stack = <<>> \/ Head(stack).at \notin GoFrames,
           data = <<>> \/ (Len(data) = 1 /\ (Len(fed[d]) <= MaxChunks \/ fed[d] = <<Hdr>>)),
           Feed(d, data \o EndIf(endStream)), FedGoesOn,
           DoData(d, data, endStream, <<>>),
           UNCHANGED <<filterVars, posted, out, dropped>>
    PROVE  CallsInv' /\ FlowInv'
<1> DEFINE p == [ps[d] EXCEPT !.endStream = endStream]
           q == AddBufferData(p, data, Limit)
<1>1. /\ p \in Processor /\ p.state = ps[d].state /\ p.dataBuffer = ps[d].dataBuffer
      /\ q \in Processor /\ q.state = ps[d].state
      /\ ~Overflows(p, data, Limit)
      /\ q.dataBuffer = ps[d].dataBuffer \/ Len(q.dataBuffer) < Len(fed'[d])
  BY BufferGrows
<1>2. TakeBuffer(q) \in Processor /\ TakeBuffer(q).dataBuffer = <<>>
  BY <1>1, ListTypes, ListEffects
<1>3. UNCHANGED <<posted, paniced, enterEncoding, localReplyWaitingGo, dynamicLib, closed, hasDestroyed>>
  BY <1>1 DEF DoData, filterVars, lifeVars, replyVars, goVars
<1>4. d = "decode" => fed'["decode"] # <<>>
  BY DEF FedGoesOn
<1>5. \/ /\ p.state \in {"WaitingData", "WaitingAllData"}
         /\ \/ DoDataGo(d, p, data, endStream, "doData", <<>>)
            \/ DoDataGo(d, TakeBuffer(q), q.dataBuffer, TRUE, "doData", <<>>)
      \/ /\ UNCHANGED go /\ stack' = <<>>
         /\ ps' = [ps EXCEPT ![d] = q] \/ ps' = [ps EXCEPT ![d] = p]
  BY <1>1 DEF DoData, goVars
<1> HIDE DEF p, q
<1>6. p.state \in {"WaitingData", "WaitingAllData"} => ~InGo(ps[d])
  BY <1>1 DEF InGo
<1>7. CASE /\ p.state \in {"WaitingData", "WaitingAllData"}
           /\ DoDataGo(d, p, data, endStream, "doData", <<>>)
  BY <1>1, <1>3, <1>4, <1>6, <1>7, EntersGoAboutData
<1>8. CASE /\ p.state \in {"WaitingData", "WaitingAllData"}
           /\ DoDataGo(d, TakeBuffer(q), q.dataBuffer, TRUE, "doData", <<>>)
  BY <1>1, <1>2, <1>3, <1>4, <1>6, <1>8, EntersGoAboutData
<1>9. CASE UNCHANGED go /\ stack' = <<>> /\ ps' = [ps EXCEPT ![d] = q]
  BY <1>1, <1>3, <1>9, QuietChange
<1>10. CASE UNCHANGED go /\ stack' = <<>> /\ ps' = [ps EXCEPT ![d] = p]
  BY <1>1, <1>3, <1>10, QuietChange
<1> QED  BY <1>5, <1>7, <1>8, <1>9, <1>10

\* What ends with the end of the stream, or with trailers, has ended.
LEMMA EndEnds ==
    ASSUME NEW m \in Seq(Item), NEW more \in Seq(Item), NEW e \in {End, Trl}
    PROVE  Ended(m \o <<e>>) /\ Ended(m \o (more \o <<e>>))
<1>1. e \in Item
  BY ItemTypes
<1>2. ASSUME NEW s \in Seq(Item)
      PROVE  Ended(s \o <<e>>)
  <2>1. /\ s \o <<e>> \in Seq(Item) /\ Len(s \o <<e>>) = Len(s) + 1
        /\ (s \o <<e>>)[Len(s) + 1] = e /\ Len(s) \in Nat
    BY <1>1
  <2>2. s \o <<e>> # <<>>
    BY <2>1, EmptySeq
  <2> QED  BY <2>1, <2>2 DEF Ended, Last
<1>3. m \o (more \o <<e>>) = (m \o more) \o <<e>> /\ m \o more \in Seq(Item)
  BY <1>1, ConcatProperties, ConcatAssociative
<1>4. Ended((m \o more) \o <<e>>)
  BY <1>2, <1>3
<1> QED  BY <1>2, <1>3, <1>4

\* A data frame of the connection.
LEMMA DataFrame ==
    ASSUME TypeOK, NEW d \in Dir, NEW data \in DataFrames(d), NEW endStream \in BOOLEAN,
           data # <<>> \/ endStream
    PROVE  /\ data \in Seq(Chunks) /\ data \in Seq(Item)
           /\ data = <<>> \/ (Len(data) = 1 /\ Len(fed[d]) <= MaxChunks)
           /\ data \o EndIf(endStream) \in Seq(Item) /\ data \o EndIf(endStream) # <<>>
<1>1. data \in Seq(Chunks) /\ (data = <<>> \/ (Len(data) = 1 /\ Len(fed[d]) <= MaxChunks))
  <2>1. CASE data = <<>>
    BY <2>1, EmptySeq
  <2>2. CASE data = <<Chunk(Len(fed[d]))>> /\ Len(fed[d]) <= MaxChunks
    <3>1. Chunk(Len(fed[d])) \in Chunks
      BY ItemTypes, LenProperties DEF TypeOK
    <3> QED  BY <2>2, <3>1
  <2> QED  BY <2>1, <2>2 DEF DataFrames
<1>2. data \in Seq(Item) /\ EndIf(endStream) \in Seq(Item)
  BY <1>1, DataIsItems, ItemTypes
<1>3. /\ data \o EndIf(endStream) \in Seq(Item)
      /\ Len(data \o EndIf(endStream)) = Len(data) + Len(EndIf(endStream))
  BY <1>2, ConcatProperties
<1>4. data # <<>> => Len(data) = 1
  BY <1>1
<1>5. endStream => Len(EndIf(endStream)) = 1
  BY DEF EndIf
<1>6. data \o EndIf(endStream) # <<>>
  <2>1. Len(data) \in Nat /\ Len(EndIf(endStream)) \in Nat
    BY <1>2, LenProperties
  <2>2. Len(data \o EndIf(endStream)) # 0
    BY <1>3, <1>4, <1>5, <2>1
  <2> QED  BY <2>2
<1> QED  BY <1>1, <1>2, <1>3, <1>6

LEMMA DecodeDataSerial ==
    ASSUME Calm, SerialInv, NEW data \in DataFrames("decode"), NEW endStream \in BOOLEAN,
           DecodeData(data, endStream)
    PROVE  CallsInv' /\ FlowInv'
<1> DEFINE more == data \o EndIf(endStream)
<1>1. CanFeed("decode") /\ fed["decode"] # <<>> /\ Feed("decode", more) /\ "decode" \in Dir
  BY DEF DecodeData, Dir
<1>2. /\ data \in Seq(Chunks) /\ more \in Seq(Item)
      /\ data = <<>> \/ (Len(data) = 1 /\ Len(fed["decode"]) <= MaxChunks)
  BY <1>1, DataFrame DEF SerialInv, DecodeData
<1>3. fed["encode"] = <<>> /\ Cur = "decode" /\ stack = <<>> /\ ~localReplyWaitingGo
  BY <1>1, RequestIsCurrent
<1>4. FedGoesOn
  BY <1>1, <1>2, <1>3, FedMessage DEF SerialInv
<1>5. CASE Bypass("decode", more) /\ UNCHANGED <<ps, stack>>
  BY <1>1, <1>3, <1>4, <1>5, BypassSerial
<1>6. CASE /\ dynamicLib
           /\ DoData("decode", data, endStream, stack)
           /\ UNCHANGED <<filterVars, posted, out, dropped>>
  <2>1. DoData("decode", data, endStream, <<>>)
    BY <1>3, <1>6
  <2> QED  BY <1>1, <1>2, <1>3, <1>4, <1>6, <2>1, DoDataSerial
<1> QED  BY <1>5, <1>6 DEF DecodeData

-----------------------------------------------------------------------------
(* The response comes in, and trailers                                     *)

\* More data of the response, of the upstream or of a local reply.
LEMMA EncodeDataSerial ==
    ASSUME Calm, SerialInv, NEW data \in Seq(Chunks), NEW endStream \in BOOLEAN,
           data = <<>> \/ (Len(data) = 1 /\ (Len(fed["encode"]) <= MaxChunks \/ fed["encode"] = <<Hdr>>)),
           stack = <<>> \/ Head(stack).at \notin GoFrames,
           fed["encode"] # <<>>, Ended(fed["decode"]) \/ endStream,
           EncodeData(data, endStream, <<>>)
    PROVE  CallsInv' /\ FlowInv'
<1> DEFINE more == data \o EndIf(endStream)
<1>1. Feed("encode", more) /\ "encode" \in Dir /\ data \in Seq(Item) /\ more \in Seq(Item)
  BY DataIsItems, ItemTypes, ConcatProperties DEF EncodeData, Dir
<1>2. FedGoesOn
  <2>1. endStream => Ended(fed'["encode"])
    <3>1. fed'["encode"] = fed["encode"] \o more /\ fed["encode"] \in Seq(Item)
      BY <1>1, FedGrows DEF SerialInv, TypeOK
    <3>2. endStream => more = data \o <<End>>
      BY DEF EndIf
    <3> QED  BY <1>1, <3>1, <3>2, EndEnds
  <2> QED  BY <1>1, <2>1, FedMessage DEF SerialInv
<1>3. CASE Bypass("encode", more) /\ stack' = <<>> /\ UNCHANGED ps
  BY <1>1, <1>2, <1>3, BypassSerial
<1>4. CASE /\ dynamicLib
           /\ localReplyWaitingGo
           /\ ps' = [ps EXCEPT !["encode"] =
                       AddBufferData([@ EXCEPT !.endStream = endStream], data, Limit)]
           /\ stack' = <<>>
           /\ UNCHANGED <<filterVars, goVars, posted, crashed, out, dropped, closed>>
  <2> DEFINE p == [ps["encode"] EXCEPT !.endStream = endStream]
             q == AddBufferData(p, data, Limit)
  <2>1. q.state = ps["encode"].state
        /\ (q.dataBuffer = ps["encode"].dataBuffer \/ Len(q.dataBuffer) < Len(fed'["encode"]))
    BY <1>1, BufferGrows
  <2>2. ps' = [ps EXCEPT !["encode"] = q]
    BY <1>4
  <2>3. UNCHANGED <<go, posted, paniced, enterEncoding, localReplyWaitingGo, dynamicLib,
                    closed, hasDestroyed>>
    BY <1>4 DEF filterVars, lifeVars, replyVars, goVars
  <2> HIDE DEF p, q
  <2> QED  BY <1>1, <1>2, <1>4, <2>1, <2>2, <2>3, QuietChange
<1>5. CASE /\ dynamicLib
           /\ ~localReplyWaitingGo
           /\ DoData("encode", data, endStream, <<>>)
           /\ UNCHANGED <<filterVars, posted, out, dropped>>
  <2>1. Cur = "encode"
    BY <1>5 DEF SerialInv, FlowInv, StreamOrder, Cur
  <2> QED  BY <1>1, <1>2, <1>5, <2>1, DoDataSerial
<1> QED  BY <1>3, <1>4, <1>5 DEF EncodeData

LEMMA ResponseDataSerial ==
    ASSUME Calm, SerialInv, NEW data \in DataFrames("encode"), NEW endStream \in BOOLEAN,
           ResponseData(data, endStream)
    PROVE  CallsInv' /\ FlowInv'
<1>1. CanFeed("encode") /\ fed["encode"] # <<>> /\ "encode" \in Dir
  BY DEF ResponseData, Dir
<1>2. stack = <<>> /\ Ended(fed["decode"])
  BY <1>1, ResponseIsCurrent
<1>3. data \in Seq(Chunks) /\ (data = <<>> \/ (Len(data) = 1 /\ Len(fed["encode"]) <= MaxChunks))
  BY <1>1, DataFrame DEF SerialInv, ResponseData
<1>4. EncodeData(data, endStream, <<>>)
  BY <1>2 DEF ResponseData
<1> QED  BY <1>1, <1>2, <1>3, <1>4, EncodeDataSerial

\* The place the worker is in when it is in one place only, and none of Go's.
LEMMA OnlyFrame ==
    ASSUME SerialInv, stack # <<>>, Head(stack).at \notin GoFrames
    PROVE  /\ Head(stack) \in Frame /\ FrameFits(Head(stack))
           /\ stack = <<Head(stack)>> /\ Tail(stack) = <<>>
<1>1. stack # <<At("doHeaders", "encode"), ReplyBody>>
  <2>1. Head(<<At("doHeaders", "encode"), ReplyBody>>).at = "doHeaders"
    BY DEF At
  <2> QED  BY <2>1 DEF GoFrames
<1>2. PICK frame \in Frame : stack = <<frame>> /\ FrameFits(frame)
  BY <1>1 DEF SerialInv, FlowInv, StackShape
<1>3. Head(stack) = frame /\ Tail(stack) = <<>>
  <2>1. Tail(<<frame>>) \in Seq(Frame) /\ Len(Tail(<<frame>>)) = 0
    OBVIOUS
  <2>2. Tail(<<frame>>) = <<>>
    BY <2>1, EmptySeq
  <2> QED  BY <1>2, <2>2
<1> QED  BY <1>2, <1>3

LEMMA LocalReplyBodySerial ==
    ASSUME Calm, SerialInv, LocalReplyBody
    PROVE  CallsInv' /\ FlowInv'
<1>1. stack # <<>> /\ Head(stack).at = "replyBody" /\ Head(stack).at \notin GoFrames
  BY DEF LocalReplyBody, GoFrames
<1>2. Tail(stack) = <<>> /\ fed["encode"] = <<Hdr>>
  BY <1>1, OnlyFrame DEF FrameFits
<1> DEFINE body == <<Chunk(1)>>
<1>3. body \in Seq(Chunks) /\ Len(body) = 1
  BY ItemTypes
<1>4. EncodeData(body, TRUE, <<>>)
  BY <1>2 DEF LocalReplyBody
<1>5. fed["encode"] # <<>>
  BY <1>2
<1> HIDE DEF body
<1> QED  BY <1>1, <1>2, <1>3, <1>4, <1>5, EncodeDataSerial

\* Trailers are given to Go, after the data it waits for, or noted.
LEMMA DoTrailerSerial ==
    ASSUME SerialInv, NEW d \in Dir, dynamicLib, Cur = d, stack = <<>>, fed[d] # <<>>,
           FedGoesOn, DoTrailer(d)
    PROVE  CallsInv' /\ FlowInv'
<1> DEFINE p == SeeTrailers(d)[d]
<1>1. p \in Processor /\ p.state = ps[d].state /\ p.dataBuffer = ps[d].dataBuffer
  BY SeeTrailersEffects DEF SerialInv
<1>2. TakeBuffer(p) \in Processor /\ TakeBuffer(p).dataBuffer = <<>>
  BY <1>1, ListTypes, ListEffects
<1>3. /\ UNCHANGED <<posted, paniced, enterEncoding, localReplyWaitingGo, dynamicLib, closed, hasDestroyed>>
      /\ d = "decode" => fed'["decode"] # <<>>
  BY DEF DoTrailer, lifeVars, replyVars, FedGoesOn
<1>4. \/ p.state \in {"WaitingTrailer", "WaitingData"} /\ DoTrailerGo(d, p, "doTrailer", <<>>)
      \/ /\ p.state = "WaitingAllData"
         /\ DoDataGo(d, TakeBuffer(p), p.dataBuffer, FALSE, "doTrailerData", <<>>)
      \/ ps' = [ps EXCEPT ![d] = p] /\ UNCHANGED go /\ stack' = <<>>
  BY DEF DoTrailer
<1> HIDE DEF p
<1>5. p.state \in {"WaitingTrailer", "WaitingData", "WaitingAllData"} => ~InGo(ps[d])
  BY <1>1 DEF InGo
<1>6. CASE p.state \in {"WaitingTrailer", "WaitingData"} /\ DoTrailerGo(d, p, "doTrailer", <<>>)
  BY <1>1, <1>3, <1>5, <1>6, EntersGoAboutTrailers
<1>7. CASE /\ p.state = "WaitingAllData"
           /\ DoDataGo(d, TakeBuffer(p), p.dataBuffer, FALSE, "doTrailerData", <<>>)
  BY <1>2, <1>3, <1>5, <1>7, EntersGoAboutData
<1>8. CASE ps' = [ps EXCEPT ![d] = p] /\ UNCHANGED go /\ stack' = <<>>
  BY <1>1, <1>3, <1>8, QuietChange
<1> QED  BY <1>4, <1>6, <1>7, <1>8

LEMMA DecodeTrailersSerial ==
    ASSUME SerialInv, DecodeTrailers
    PROVE  CallsInv' /\ FlowInv'
<1>1. /\ CanFeed("decode") /\ fed["decode"] # <<>> /\ Feed("decode", <<Trl>>)
      /\ "decode" \in Dir /\ <<Trl>> \in Seq(Item)
  BY ItemTypes DEF DecodeTrailers, Dir
<1>2. fed["encode"] = <<>> /\ Cur = "decode" /\ stack = <<>>
  BY <1>1, RequestIsCurrent
<1>3. FedGoesOn
  BY <1>1, <1>2, FedMessage DEF SerialInv
<1>4. CASE Bypass("decode", <<Trl>>) /\ ps' = SeeTrailers("decode") /\ UNCHANGED stack
  BY <1>1, <1>2, <1>3, <1>4, BypassSerial
<1>5. CASE dynamicLib /\ DoTrailer("decode")
  BY <1>1, <1>2, <1>3, <1>5, DoTrailerSerial
<1> QED  BY <1>4, <1>5 DEF DecodeTrailers

LEMMA EncodeTrailersSerial ==
    ASSUME SerialInv, EncodeTrailers
    PROVE  CallsInv' /\ FlowInv'
<1>1. /\ CanFeed("encode") /\ fed["encode"] # <<>> /\ Feed("encode", <<Trl>>)
      /\ "encode" \in Dir /\ <<Trl>> \in Seq(Item)
  BY ItemTypes DEF EncodeTrailers, Dir
<1>2. /\ stack = <<>> /\ Ended(fed["decode"])
      /\ dynamicLib /\ ~localReplyWaitingGo => Cur = "encode"
  BY <1>1, ResponseIsCurrent
<1>3. FedGoesOn
  BY <1>1, <1>2, FedMessage DEF SerialInv
<1>4. CASE Bypass("encode", <<Trl>>) /\ ps' = SeeTrailers("encode") /\ UNCHANGED stack
  BY <1>1, <1>2, <1>3, <1>4, BypassSerial
<1>5. CASE /\ dynamicLib
           /\ localReplyWaitingGo
           /\ localTrailers' = TRUE
           /\ ps' = SeeTrailers("encode")
           /\ UNCHANGED <<lifeVars, enterEncoding, localReplyWaitingGo, headers, trailers, goVars,
                          stack, posted, crashed, out, dropped, closed>>
  <2>1. UNCHANGED <<go, posted, paniced, enterEncoding, localReplyWaitingGo, dynamicLib,
                    closed, hasDestroyed>>
    BY <1>5 DEF lifeVars, goVars
  <2>2. \A e \in Dir : ps'[e].state = ps[e].state /\ ps'[e].dataBuffer = ps[e].dataBuffer
    BY <1>1, <1>5, SeeTrailersEffects DEF SerialInv
  <2> QED  BY <1>2, <1>3, <1>5, <2>1, <2>2, QuietStep
<1>6. CASE dynamicLib /\ ~localReplyWaitingGo /\ DoTrailer("encode")
  BY <1>1, <1>2, <1>3, <1>6, DoTrailerSerial
<1> QED  BY <1>4, <1>5, <1>6 DEF EncodeTrailers

-----------------------------------------------------------------------------
(* The response starts                                                     *)

\* The processor states when the response starts: the response's has its
\* headers, and the request's may lose its data.
LEMMA ResponseProcessors ==
    ASSUME TypeOK, NEW endStream \in BOOLEAN
    PROVE  LET procs == SetEndStream("encode", endStream)
               drained == [procs EXCEPT !["decode"] = TakeBuffer(@)]
               cleared == [procs EXCEPT !["decode"] = ClearAll(TakeBuffer(@))]
           IN  \A new \in {procs, drained, cleared} :
                  /\ new \in [Dir -> Processor]
                  /\ \A e \in Dir : /\ new[e].state = ps[e].state
                                    /\ new[e].dataBuffer \in {<<>>, ps[e].dataBuffer}
<1> DEFINE procs == SetEndStream("encode", endStream)
<1>1. /\ procs \in [Dir -> Processor]
      /\ \A e \in Dir : procs[e].state = ps[e].state /\ procs[e].dataBuffer = ps[e].dataBuffer
  <2> DEFINE p == [ps["encode"] EXCEPT !.endStream = endStream]
  <2>1. ps \in [Dir -> Processor] /\ "encode" \in Dir
    BY DEF TypeOK, Dir
  <2>2. p \in Processor /\ p.state = ps["encode"].state /\ p.dataBuffer = ps["encode"].dataBuffer
    <3>1. ps["encode"] \in Processor
      BY <2>1
    <3> QED  BY <3>1 DEF Processor
  <2>3. procs = [ps EXCEPT !["encode"] = p]
    BY DEF SetEndStream
  <2> HIDE DEF p, procs
  <2>4. procs["encode"] = p /\ \A e \in Dir : e # "encode" => procs[e] = ps[e]
    BY <2>1, <2>3
  <2>5. procs \in [Dir -> Processor]
    BY <2>1, <2>2, <2>3
  <2> QED  BY <2>2, <2>4, <2>5
<1> HIDE DEF procs
<1> DEFINE drained == [procs EXCEPT !["decode"] = TakeBuffer(@)]
           cleared == [procs EXCEPT !["decode"] = ClearAll(TakeBuffer(@))]
<1>2. "decode" \in Dir /\ procs["decode"] \in Processor
  BY <1>1 DEF Dir
<1>3. /\ TakeBuffer(procs["decode"]) \in Processor
      /\ TakeBuffer(procs["decode"]).state = procs["decode"].state
      /\ TakeBuffer(procs["decode"]).dataBuffer = <<>>
  BY <1>2, ListTypes, ListEffects
<1>4. /\ ClearAll(TakeBuffer(procs["decode"])) \in Processor
      /\ ClearAll(TakeBuffer(procs["decode"])).state = procs["decode"].state
      /\ ClearAll(TakeBuffer(procs["decode"])).dataBuffer = <<>>
  BY <1>3, ListTypes, ListEffects
<1>5. ASSUME NEW p \in Processor, p.state = procs["decode"].state, p.dataBuffer = <<>>,
             NEW new, new = [procs EXCEPT !["decode"] = p]
      PROVE  /\ new \in [Dir -> Processor]
             /\ \A e \in Dir : /\ new[e].state = ps[e].state
                               /\ new[e].dataBuffer \in {<<>>, ps[e].dataBuffer}
  <2>1. new["decode"] = p /\ \A e \in Dir : e # "decode" => new[e] = procs[e]
    BY <1>1, <1>2, <1>5
  <2>2. new \in [Dir -> Processor]
    BY <1>1, <1>2, <1>5
  <2> QED  BY <1>1, <1>2, <1>5, <2>1, <2>2
<1>6. /\ drained = [procs EXCEPT !["decode"] = TakeBuffer(procs["decode"])]
      /\ cleared = [procs EXCEPT !["decode"] = ClearAll(TakeBuffer(procs["decode"]))]
  OBVIOUS
<1> HIDE DEF drained, cleared
<1>7. /\ drained \in [Dir -> Processor]
      /\ \A e \in Dir : drained[e].state = ps[e].state /\ drained[e].dataBuffer \in {<<>>, ps[e].dataBuffer}
  BY <1>3, <1>5, <1>6
<1>8. /\ cleared \in [Dir -> Processor]
      /\ \A e \in Dir : cleared[e].state = ps[e].state /\ cleared[e].dataBuffer \in {<<>>, ps[e].dataBuffer}
  BY <1>4, <1>5, <1>6
<1>9. \A new \in {procs, drained, cleared} :
         /\ new \in [Dir -> Processor]
         /\ \A e \in Dir : /\ new[e].state = ps[e].state
                           /\ new[e].dataBuffer \in {<<>>, ps[e].dataBuffer}
  BY <1>1, <1>7, <1>8
<1> QED  BY <1>9 DEF procs, drained, cleared

\* The only two frames there are at once.
LEMMA TwoFrames ==
    LET frame == At("doHeaders", "encode")
    IN  /\ <<frame>> \o <<ReplyBody>> = <<frame, ReplyBody>>
        /\ Head(<<frame, ReplyBody>>) = frame
        /\ Tail(<<frame, ReplyBody>>) = <<ReplyBody>>
<1> DEFINE frame == At("doHeaders", "encode")
<1>1. frame \in Frame /\ ReplyBody \in Frame
  BY LabelTypes DEF ReplyBody, At, Frame, Dir, GoFrames
<1> HIDE DEF frame
<1>2. /\ <<frame>> \in Seq(Frame) /\ <<ReplyBody>> \in Seq(Frame)
      /\ <<frame, ReplyBody>> \in Seq(Frame)
  BY <1>1
<1>3. /\ Len(<<frame, ReplyBody>>) = 2 /\ Len(<<frame>>) = 1 /\ Len(<<ReplyBody>>) = 1
      /\ <<frame, ReplyBody>>[1] = frame /\ <<frame, ReplyBody>>[2] = ReplyBody
      /\ <<frame>>[1] = frame /\ <<ReplyBody>>[1] = ReplyBody
  OBVIOUS
<1>4. <<frame>> \o <<ReplyBody>> = <<frame, ReplyBody>>
  <2>1. /\ <<frame>> \o <<ReplyBody>> \in Seq(Frame)
        /\ Len(<<frame>> \o <<ReplyBody>>) = 2
        /\ (<<frame>> \o <<ReplyBody>>)[1] = frame
        /\ (<<frame>> \o <<ReplyBody>>)[2] = ReplyBody
    BY <1>2, <1>3, ConcatProperties
  <2>2. \A i \in 1 .. 2 : i = 1 \/ i = 2
    OBVIOUS
  <2> QED  BY <1>2, <1>3, <2>1, <2>2, SeqEqual
<1>5. Tail(<<frame, ReplyBody>>) = <<ReplyBody>>
  <2>1. /\ Tail(<<frame, ReplyBody>>) \in Seq(Frame)
        /\ Len(Tail(<<frame, ReplyBody>>)) = 1
        /\ Tail(<<frame, ReplyBody>>)[1] = ReplyBody
    BY <1>2, <1>3, HeadTailProperties
  <2>2. \A i \in 1 .. 1 : i = 1
    OBVIOUS
  <2> QED  BY <1>2, <1>3, <2>1, <2>2, SeqEqual
<1> QED  BY <1>3, <1>4, <1>5 DEF frame

\* The headers of the response, of the upstream or of a local reply, which may
\* have a body to come.
LEMMA EncodeHeadersSerial ==
    ASSUME SerialInv, NEW endStream \in BOOLEAN, NEW rest \in {<<>>, <<ReplyBody>>},
           stack = <<>> \/ Head(stack).at \notin GoFrames,
           fed["encode"] = <<>>,
           rest = <<>> => Ended(fed["decode"]) \/ endStream,
           rest # <<>> => ~endStream,
           EncodeHeaders(endStream, rest)
    PROVE  CallsInv' /\ FlowInv'
<1> DEFINE more == <<Hdr>> \o EndIf(endStream)
           procs == SetEndStream("encode", endStream)
<1>0. TypeOK /\ "decode" \in Dir /\ "encode" \in Dir /\ "decode" # "encode"
  BY DEF SerialInv, Dir
<1>1. /\ fed'["encode"] = more /\ fed'["decode"] = fed["decode"] /\ more # <<>>
      /\ \A e \in Dir : Len(fed[e]) <= Len(fed'[e]) /\ Len(fed'[e]) \in Nat
  <2>1. more \in Seq(Item) /\ more # <<>>
    BY ItemTypes, ConcatProperties DEF EndIf
  <2>2. Feed("encode", more)
    BY DEF EncodeHeaders
  <2>3. fed'["encode"] = <<>> \o more
    BY <1>0, <2>1, <2>2, FedGrows
  <2>4. <<>> \o more = more
    BY <2>1
  <2> QED  BY <1>0, <2>1, <2>2, <2>3, <2>4, FedGrows
<1>2. Cur = "decode" /\ ~enterEncoding /\ ~localReplyWaitingGo /\ ~closed
  BY DEF SerialInv, FlowInv, StreamOrder, Cur
<1>3. /\ endStream => Ended(fed'["encode"])
      /\ rest # <<>> => rest = <<ReplyBody>> /\ fed'["encode"] = <<Hdr>>
  <2>1. <<Hdr>> \in Seq(Item) /\ <<Hdr>> \o <<>> = <<Hdr>>
    BY ItemTypes
  <2>2. Ended(<<Hdr>> \o <<End>>)
    BY <2>1, EndEnds
  <2> QED  BY <1>1, <2>1, <2>2 DEF EndIf
<1>4. stack' = rest => StackShape'
  <2>1. CASE rest = <<>>
    BY <2>1 DEF StackShape
  <2>2. CASE rest # <<>>
    <3>1. ReplyBody \in Frame
      BY LabelTypes DEF ReplyBody, At, Frame, Dir
    <3>2. FrameFits(ReplyBody)'
      BY <1>3, <2>2 DEF FrameFits, ReplyBody, At
    <3> QED  BY <1>3, <2>2, <3>1, <3>2 DEF StackShape
  <2> QED  BY <2>1, <2>2
<1>5. /\ \A new \in {procs, [procs EXCEPT !["decode"] = TakeBuffer(@)],
                     [procs EXCEPT !["decode"] = ClearAll(TakeBuffer(@))]} :
            /\ new \in [Dir -> Processor]
            /\ \A e \in Dir : /\ new[e].state = ps[e].state
                              /\ new[e].dataBuffer \in {<<>>, ps[e].dataBuffer}
  BY <1>0, ResponseProcessors
<1>6. CASE Bypass("encode", EndIf(endStream)) /\ stack' = rest /\ UNCHANGED ps
  <2>1. UNCHANGED <<go, posted, paniced, enterEncoding, localReplyWaitingGo, dynamicLib,
                    closed, hasDestroyed>>
    BY <1>6 DEF Bypass, filterVars, lifeVars, replyVars, goVars
  <2>2. Cur' = Cur /\ Unanswered' = Unanswered /\ ~dynamicLib
    BY <1>6, <2>1 DEF Cur, Unanswered, Bypass
  <2>3. CallsInv'
    BY <1>6, <2>1, <2>2, LeaveGo, NoSyncCall DEF SerialInv
  <2>4. StreamOrder'
    <3>1. Ended(fed["decode"]) \/ Ended(fed'["encode"]) \/ ReplyBodyPending'
      BY <1>3, <1>6 DEF ReplyBodyPending
    <3> QED  BY <1>1, <1>2, <1>6, <2>1, <2>2, <3>1 DEF SerialInv, FlowInv, StreamOrder
  <2>5. ReplyWaitsForRequest'
    BY <1>2, <2>1 DEF ReplyWaitsForRequest
  <2>6. BufferFits'
    BY <1>0, <1>1, <1>6, KeepBufferFits DEF SerialInv, FlowInv
  <2> QED  BY <1>4, <1>6, <2>3, <2>4, <2>5, <2>6 DEF FlowInv
<1>7. CASE /\ dynamicLib
           /\ InGo(ps[Cur])
           /\ ps' = [procs EXCEPT ![Cur] = TakeBuffer(@)]
           /\ localReplyWaitingGo' = TRUE
           /\ stack' = rest
           /\ UNCHANGED <<lifeVars, enterEncoding, localTrailers, headers, trailers, goVars,
                          posted, crashed, out, dropped, closed>>
  <2>1. UNCHANGED <<go, posted, paniced, enterEncoding, dynamicLib, closed, hasDestroyed>>
    BY <1>7 DEF lifeVars, goVars
  <2>2. Cur' = Cur /\ Unanswered' = Unanswered /\ localReplyWaitingGo'
    BY <1>7, <2>1 DEF Cur, Unanswered
  <2>3. \A e \in Dir : ps'[e].state = ps[e].state /\ ps'[e].dataBuffer \in {<<>>, ps[e].dataBuffer}
    BY <1>2, <1>5, <1>7
  <2>4. CallsInv'
    <3>1. ps'[Cur].state = ps[Cur].state
      BY <1>0, <1>2, <2>3
    <3> QED  BY <1>7, <2>1, <2>2, <3>1, LeaveGo, NoSyncCall DEF SerialInv
  <2>5. StreamOrder'
    <3>1. Ended(fed["decode"]) \/ Ended(fed'["encode"]) \/ ReplyBodyPending'
      BY <1>3, <1>7 DEF ReplyBodyPending
    <3> QED  BY <1>0, <1>1, <1>2, <1>7, <2>1, <2>2, <2>3, <3>1 DEF SerialInv, FlowInv, StreamOrder
  <2>6. ReplyWaitsForRequest'
    <3>1. ps'["decode"].state = ps["decode"].state
      BY <1>0, <2>3
    <3> QED  BY <1>2, <1>3, <1>7, <2>1, <3>1 DEF ReplyWaitsForRequest, InGo
  <2>7. BufferFits'
    BY <1>0, <1>1, <2>3, KeepBufferFits DEF SerialInv, FlowInv
  <2> QED  BY <1>4, <1>7, <2>4, <2>5, <2>6, <2>7 DEF FlowInv
<1> DEFINE new == IF ps[Cur].state # "Done"
                  THEN [procs EXCEPT ![Cur] = ClearAll(TakeBuffer(@))] ELSE procs
<1>8. CASE /\ dynamicLib
           /\ ~InGo(ps[Cur])
           /\ enterEncoding' = TRUE
           /\ DoHeadersGo("encode", new, endStream, "doHeaders", rest)
           /\ UNCHANGED <<lifeVars, localReplyWaitingGo, localTrailers, trailers, paniced,
                          posted, out, dropped, closed>>
  <2>1. /\ new \in [Dir -> Processor]
        /\ \A e \in Dir : new[e].state = ps[e].state /\ new[e].dataBuffer \in {<<>>, ps[e].dataBuffer}
    BY <1>2, <1>5
  <2> HIDE DEF new
  <2> DEFINE p == ProcessHeader(new["encode"], endStream)
  <2>2. ps' = [new EXCEPT !["encode"] = p]
    BY <1>8 DEF DoHeadersGo
  <2>3. p.state = Processing("headers") /\ p.dataBuffer \in {<<>>, ps["encode"].dataBuffer}
    <3>1. new["encode"] \in Processor
      BY <1>0, <2>1
    <3> QED  BY <1>0, <2>1, <3>1, ProcessEffects
  <2> HIDE DEF p
  <2>4. ps'["encode"] = p /\ ps'["decode"] = new["decode"]
    BY <1>0, <2>1, <2>2
  <2>5. go = {} /\ posted = <<>>
    BY <1>0, <1>8, Idle DEF SerialInv
  <2>6. Cur' = "encode"
    BY <1>8 DEF Cur
  <2>7. /\ UNCHANGED <<posted, paniced, localReplyWaitingGo, dynamicLib, closed>>
        /\ CallGo("encode", "headers", endStream, more, "doHeaders", rest)
        /\ stack' = <<At("doHeaders", "encode")>> \o rest
    BY <1>8 DEF DoHeadersGo, CallGo, lifeVars
  <2>8. "doHeaders" \in GoFrames /\ FrameKind("doHeaders") = "headers" /\ "headers" \in Kind
    BY DEF GoFrames, FrameKind, Kind
  <2>9. CallsInv'
    <3>1. ps'["encode"].state = Processing("headers")
      BY <2>3, <2>4
    <3> HIDE DEF more
    <3> QED  BY <1>0, <2>5, <2>6, <2>7, <2>8, <3>1, EnterGo DEF SerialInv
  <2>10. StackShape' /\ (rest # <<>> => ReplyBodyPending')
    <3>1. CASE rest = <<>>
      <4>1. stack' = <<At("doHeaders", "encode")>>
        BY <2>7, <3>1
      <4> QED  BY <1>0, <1>8, <2>6, <2>7, <2>8, <3>1, <4>1, InGoShape
    <3>2. CASE rest # <<>>
      <4>1. stack' = <<At("doHeaders", "encode"), ReplyBody>>
        BY <1>3, <2>7, <3>2, TwoFrames
      <4>2. FrameFits(ReplyBody)'
        BY <1>3, <3>2 DEF FrameFits, ReplyBody, At
      <4>3. FrameFits(At("doHeaders", "encode"))'
        BY <1>8, <2>6, <2>7 DEF FrameFits, At
      <4> QED  BY <4>1, <4>2, <4>3 DEF StackShape, ReplyBodyPending
    <3> QED  BY <3>1, <3>2
  <2>11. StreamOrder'
    <3>1. Ended(fed["decode"]) \/ Ended(fed'["encode"]) \/ ReplyBodyPending'
      BY <1>3, <2>10
    <3>2. ps'["decode"].state = ps["decode"].state
      BY <1>0, <2>1, <2>4
    <3> QED  BY <1>1, <1>2, <1>8, <2>7, <3>1, <3>2 DEF SerialInv, FlowInv, StreamOrder
  <2>12. ReplyWaitsForRequest'
    BY <1>2, <2>7 DEF ReplyWaitsForRequest
  <2>13. BufferFits'
    <3>1. ASSUME NEW e \in Dir
          PROVE  /\ ps'[e].dataBuffer \in {<<>>, ps[e].dataBuffer}
                 /\ ps'[e].state = "WaitingAllData" => ps[e].state = "WaitingAllData"
      <4>1. CASE e = "encode"
        <5>1. ps'[e].state # "WaitingAllData"
          BY <2>3, <2>4, <2>8, <4>1, ProcessingIsInGo
        <5> QED  BY <2>3, <2>4, <4>1, <5>1
      <4>2. CASE e = "decode"
        BY <1>0, <2>1, <2>4, <4>2
      <4> QED  BY <4>1, <4>2 DEF Dir
    <3> QED  BY <1>0, <1>1, <3>1, KeepBufferFits DEF SerialInv, FlowInv
  <2> QED  BY <2>9, <2>10, <2>11, <2>12, <2>13 DEF FlowInv
<1>9. \/ Bypass("encode", EndIf(endStream)) /\ stack' = rest /\ UNCHANGED ps
      \/ /\ dynamicLib
         /\ InGo(ps[Cur])
         /\ ps' = [procs EXCEPT ![Cur] = TakeBuffer(@)]
         /\ localReplyWaitingGo' = TRUE
         /\ stack' = rest
         /\ UNCHANGED <<lifeVars, enterEncoding, localTrailers, headers, trailers, goVars,
                        posted, crashed, out, dropped, closed>>
      \/ /\ dynamicLib
         /\ ~InGo(ps[Cur])
         /\ enterEncoding' = TRUE
         /\ DoHeadersGo("encode", new, endStream, "doHeaders", rest)
         /\ UNCHANGED <<lifeVars, localReplyWaitingGo, localTrailers, trailers, paniced,
                        posted, out, dropped, closed>>
  BY DEF EncodeHeaders
<1> QED  BY <1>6, <1>7, <1>8, <1>9

LEMMA ResponseHeadersSerial ==
    ASSUME Calm, SerialInv, NEW endStream \in BOOLEAN, ResponseHeaders(endStream)
    PROVE  CallsInv' /\ FlowInv'
<1>1. stack = <<>> /\ fed["encode"] = <<>> /\ Ended(fed["decode"])
  BY DEF ResponseHeaders, CanFeed, Calm
<1>2. EncodeHeaders(endStream, <<>>)
  BY <1>1 DEF ResponseHeaders
<1> QED  BY <1>1, <1>2, EncodeHeadersSerial

LEMMA LocalReplySerial ==
    ASSUME SerialInv, LocalReply
    PROVE  CallsInv' /\ FlowInv'
<1>1. stack # <<>> /\ Head(stack).at = "localReply" /\ Head(stack).at \notin GoFrames
  BY DEF LocalReply, GoFrames
<1>2. Tail(stack) = <<>> /\ fed["encode"] = <<>>
  BY <1>1, OnlyFrame DEF FrameFits
<1>3. PICK body \in BOOLEAN :
         EncodeHeaders(~body, (IF body THEN <<ReplyBody>> ELSE <<>>) \o <<>>)
  BY <1>2 DEF LocalReply, ReplyBody
<1>4. CASE body
  <2>1. <<ReplyBody>> \o <<>> = <<ReplyBody>> /\ <<ReplyBody>> # <<>>
    OBVIOUS
  <2>2. EncodeHeaders(FALSE, <<ReplyBody>>)
    BY <1>3, <1>4, <2>1
  <2> QED  BY <1>1, <1>2, <2>1, <2>2, EncodeHeadersSerial
<1>5. CASE ~body
  <2>1. <<>> \o <<>> = <<>>
    OBVIOUS
  <2>2. EncodeHeaders(TRUE, <<>>)
    BY <1>3, <1>5, <2>1
  <2> QED  BY <1>1, <1>2, <2>2, EncodeHeadersSerial
<1> QED  BY <1>4, <1>5

-----------------------------------------------------------------------------
(* The worker goes on by itself                                            *)

\* The worker in one of the places of this filter, between two calls out of it.
LEMMA FilterFrame ==
    ASSUME SerialInv, stack # <<>>,
           Head(stack).at \in Forwarding \cup {"checkData", "checkTrailer", "trailerAfterData"}
    PROVE  /\ Head(stack).at \notin GoFrames
           /\ Head(stack).dir = Cur /\ Cur \in Dir /\ dynamicLib /\ ~localReplyWaitingGo
           /\ ~ReplyBodyPending /\ Tail(stack) = <<>>
           /\ Head(stack).at = "trailerAfterData" => ps[Cur].state = "WaitingTrailer"
<1>1. Head(stack).at \notin GoFrames \cup {"localReply", "replyBody"}
  BY DEF GoFrames, Forwarding
<1>2. Head(stack) \in Frame /\ FrameFits(Head(stack)) /\ stack = <<Head(stack)>> /\ Tail(stack) = <<>>
  BY <1>1, OnlyFrame
<1>3. Head(stack).dir = Cur /\ dynamicLib
  BY <1>1, <1>2 DEF FrameFits
<1>4. Head(stack).at = "trailerAfterData" => ps[Cur].state = "WaitingTrailer"
  BY <1>2 DEF FrameFits
<1>5. stack # <<ReplyBody>> /\ stack # <<At("doHeaders", "encode"), ReplyBody>>
  <2>1. Head(<<ReplyBody>>).at = "replyBody"
    BY DEF ReplyBody, At
  <2>2. Head(<<At("doHeaders", "encode"), ReplyBody>>).at = "doHeaders"
    BY TwoFrames DEF At
  <2> QED  BY <1>1, <2>1, <2>2 DEF GoFrames
<1>6. ~ReplyBodyPending /\ ~localReplyWaitingGo
  BY <1>5 DEF ReplyBodyPending, SerialInv, FlowInv, ReplyWaitsForRequest
<1> QED  BY <1>1, <1>2, <1>3, <1>4, <1>6 DEF Cur, Dir

\* The stream goes on at another place of this filter, or at none.
LEMMA FlowGoesOn ==
    ASSUME SerialInv, dynamicLib, ~localReplyWaitingGo, NEW d \in Dir, Cur = d,
           NEW p, ps' = [ps EXCEPT ![d] = p],
           p.dataBuffer \in {<<>>, ps[d].dataBuffer},
           p.state = "WaitingAllData" => "StopAndBuffer" \in Answers \/ ps[d].state = "WaitingAllData",
           ps[d].state = "WaitingHeader" => p.state = "WaitingHeader",
           UNCHANGED <<fed, enterEncoding, localReplyWaitingGo, dynamicLib, closed>>,
           \/ stack' = <<>> /\ ~ReplyBodyPending
           \/ stack' = <<ReplyBody>> /\ fed["encode"] = <<Hdr>>
           \/ /\ ~ReplyBodyPending
              /\ \E label \in Forwarding \cup {"checkData", "checkTrailer"} : stack' = <<At(label, d)>>
           \/ /\ ~ReplyBodyPending
              /\ stack' = <<At("trailerAfterData", d)>> /\ p.state = "WaitingTrailer"
    PROVE  FlowInv'
<1>1. ps \in [Dir -> Processor] /\ "decode" \in Dir
  BY DEF SerialInv, TypeOK, Dir
<1>2. ps'[d] = p /\ (\A e \in Dir : e # d => ps'[e] = ps[e]) /\ Cur' = d
  BY <1>1 DEF Cur
<1>3. StackShape'
  <2>1. CASE stack' = <<>>
    BY <2>1 DEF StackShape
  <2>2. CASE stack' = <<ReplyBody>> /\ fed["encode"] = <<Hdr>>
    <3>1. ReplyBody \in Frame /\ FrameFits(ReplyBody)'
      BY <2>2, LabelTypes DEF ReplyBody, At, Frame, Dir, FrameFits
    <3> QED  BY <2>2, <3>1 DEF StackShape
  <2>3. ASSUME NEW label \in Forwarding \cup {"checkData", "checkTrailer", "trailerAfterData"},
               label = "trailerAfterData" => p.state = "WaitingTrailer",
               stack' = <<At(label, d)>>
        PROVE  StackShape'
    <3>1. At(label, d) \in Frame
      BY LabelTypes DEF At, Frame
    <3>2. FrameFits(At(label, d))'
      BY <1>2, <2>3 DEF FrameFits, At, Forwarding
    <3> QED  BY <2>3, <3>1, <3>2 DEF StackShape
  <2>4. CASE \E label \in Forwarding \cup {"checkData", "checkTrailer"} : stack' = <<At(label, d)>>
    <3>1. PICK label \in Forwarding \cup {"checkData", "checkTrailer"} : stack' = <<At(label, d)>>
      BY <2>4
    <3>2. label # "trailerAfterData"
      BY <3>1 DEF Forwarding
    <3> QED  BY <2>3, <3>1, <3>2
  <2>5. CASE stack' = <<At("trailerAfterData", d)>> /\ p.state = "WaitingTrailer"
    BY <2>3, <2>5
  <2> QED  BY <2>1, <2>2, <2>4, <2>5
<1>4. StreamOrder'
  <2>1. fed["encode"] # <<>> => Ended(fed["decode"]) \/ Ended(fed["encode"]) \/ ReplyBodyPending'
    BY DEF SerialInv, FlowInv, StreamOrder, ReplyBodyPending
  <2>2. fed["decode"] = <<>> => ps'["decode"].state = "WaitingHeader"
    BY <1>1, <1>2 DEF SerialInv, FlowInv, StreamOrder
  <2> QED  BY <2>1, <2>2 DEF SerialInv, FlowInv, StreamOrder, Ended
<1>5. ReplyWaitsForRequest'
  BY DEF ReplyWaitsForRequest
<1>6. BufferFits'
  BY FedStays, OneBufferFits DEF SerialInv, FlowInv
<1> QED  BY <1>3, <1>4, <1>5, <1>6 DEF FlowInv

\* The worker goes on to another place of this filter, or comes back to its
\* event loop, and does nothing else.
LEMMA WorkerMoves ==
    ASSUME SerialInv, stack # <<>>,
           Head(stack).at \in Forwarding \cup {"checkData", "checkTrailer", "trailerAfterData"},
           \/ stack' = <<>>
           \/ \E label \in Forwarding \cup {"checkData", "checkTrailer"} : stack' = <<At(label, Cur)>>,
           UNCHANGED <<ps, go, posted, paniced, fed, enterEncoding, localReplyWaitingGo,
                       dynamicLib, closed, hasDestroyed>>
    PROVE  CallsInv' /\ FlowInv'
<1>1. /\ Head(stack).at \notin GoFrames /\ Cur \in Dir /\ dynamicLib
      /\ ~localReplyWaitingGo /\ ~ReplyBodyPending
  BY FilterFrame
<1>2. Cur' = Cur /\ ps' = [ps EXCEPT ![Cur] = ps[Cur]]
  BY <1>1 DEF Cur, SerialInv, TypeOK
<1>3. CallsInv'
  BY <1>1, <1>2, LeaveGo, NoSyncCall DEF SerialInv
<1>4. FlowInv'
  BY <1>1, <1>2, FlowGoesOn
<1> QED  BY <1>3, <1>4

LEMMA TrailersForwardedSerial ==
    ASSUME SerialInv, TrailersForwarded
    PROVE  CallsInv' /\ FlowInv'
<1>1. stack # <<>> /\ Head(stack).at \in Forwarding
  BY DEF TrailersForwarded, Forwarding
<1>2. Head(stack).dir = Cur /\ Tail(stack) = <<>>
  BY <1>1, FilterFrame
<1>3. stack' = <<At("forwarded", Cur)>>
  <2>1. stack' = <<At("forwarded", Cur)>> \o <<>>
    BY <1>2 DEF TrailersForwarded
  <2> QED  BY <2>1
<1>4. UNCHANGED <<ps, go, posted, paniced, fed, enterEncoding, localReplyWaitingGo,
                  dynamicLib, closed, hasDestroyed>>
  BY DEF TrailersForwarded, filterVars, lifeVars, replyVars, goVars
<1>5. "forwarded" \in Forwarding
  BY DEF Forwarding
<1> QED  BY <1>1, <1>3, <1>4, <1>5, WorkerMoves

\* The worker enters Go from one of its places.
LEMMA FrameEntersGo ==
    ASSUME SerialInv, stack # <<>>,
           Head(stack).at \in Forwarding \cup {"checkData", "checkTrailer", "trailerAfterData"},
           ps[Cur].state \in {"WaitingData", "WaitingAllData", "WaitingTrailer"},
           UNCHANGED <<filterVars, posted, paniced, streamVars>>
    PROVE  /\ dynamicLib /\ Cur \in Dir /\ ~InGo(ps[Cur]) /\ ps[Cur] \in Processor
           /\ FedGoesOn /\ (Cur = "decode" => fed'["decode"] # <<>>)
           /\ UNCHANGED <<posted, paniced, enterEncoding, localReplyWaitingGo, dynamicLib, closed>>
<1>1. dynamicLib /\ Cur \in Dir /\ ~ReplyBodyPending
  BY FilterFrame
<1>2. ~InGo(ps[Cur]) /\ ps[Cur] \in Processor
  BY <1>1 DEF InGo, SerialInv, TypeOK
<1>3. fed' = fed /\ UNCHANGED <<posted, paniced, enterEncoding, localReplyWaitingGo, dynamicLib, closed>>
  BY DEF filterVars, lifeVars, replyVars, streamVars
<1>4. FedGoesOn
  BY <1>1, <1>3, FedSame DEF SerialInv, FlowInv, StreamOrder
<1>5. Cur = "decode" => fed'["decode"] # <<>>
  BY <1>3 DEF SerialInv, FlowInv, StreamOrder
<1> QED  BY <1>1, <1>2, <1>3, <1>4, <1>5

LEMMA TrailerAfterDataSerial ==
    ASSUME SerialInv, TrailerAfterData
    PROVE  CallsInv' /\ FlowInv'
<1>1. stack # <<>> /\ Head(stack).at = "trailerAfterData"
  BY DEF TrailerAfterData
<1>2. Head(stack).dir = Cur /\ Tail(stack) = <<>> /\ ps[Cur].state = "WaitingTrailer"
  BY <1>1, FilterFrame
<1>3. /\ DoTrailerGo(Cur, ps[Cur], "doTrailer", <<>>)
      /\ UNCHANGED <<filterVars, posted, paniced, streamVars>>
  BY <1>2 DEF TrailerAfterData
<1>4. /\ dynamicLib /\ Cur \in Dir /\ ~InGo(ps[Cur]) /\ ps[Cur] \in Processor
      /\ FedGoesOn /\ (Cur = "decode" => fed'["decode"] # <<>>)
      /\ UNCHANGED <<posted, paniced, enterEncoding, localReplyWaitingGo, dynamicLib, closed>>
  BY <1>1, <1>2, <1>3, FrameEntersGo
<1> QED  BY <1>3, <1>4, EntersGoAboutTrailers

LEMMA ResumeDataSerial ==
    ASSUME SerialInv, ResumeData
    PROVE  CallsInv' /\ FlowInv'
<1> DEFINE p == ps[Cur]
<1>1. stack # <<>> /\ Head(stack).at \in Forwarding \cup {"checkData", "checkTrailer"}
  BY DEF ResumeData, Forwarding
<1>2. Head(stack).dir = Cur /\ Tail(stack) = <<>> /\ Cur \in Dir /\ Head(stack).at \notin GoFrames
  BY <1>1, FilterFrame
<1>3. UNCHANGED <<filterVars, posted, streamVars>>
  BY DEF ResumeData
<1>4. UNCHANGED <<fed, enterEncoding, localReplyWaitingGo, dynamicLib, closed, hasDestroyed, posted>>
  BY <1>3 DEF filterVars, lifeVars, replyVars, streamVars
<1>5. CASE /\ MoreData(p)
           /\ DoDataGo(Cur, TakeBuffer(p), p.dataBuffer, p.endStream, "resumeData", <<>>)
           /\ UNCHANGED paniced
  <2>1. p.state \in {"WaitingData", "WaitingAllData"}
    BY <1>5 DEF MoreData
  <2>2. /\ dynamicLib /\ ~InGo(p) /\ p \in Processor
        /\ FedGoesOn /\ (Cur = "decode" => fed'["decode"] # <<>>)
        /\ UNCHANGED <<posted, paniced, enterEncoding, localReplyWaitingGo, dynamicLib, closed>>
    BY <1>1, <1>3, <1>5, <2>1, FrameEntersGo
  <2>3. TakeBuffer(p) \in Processor /\ TakeBuffer(p).dataBuffer = <<>>
    BY <2>2, ListTypes, ListEffects
  <2> QED  BY <1>2, <1>5, <2>2, <2>3, EntersGoAboutData
<1>6. CASE UNCHANGED <<ps, goVars, stack>>
  <2>1. UNCHANGED <<ps, go, paniced, stack>> /\ Cur' = Cur /\ Unanswered' = Unanswered
    BY <1>4, <1>6 DEF goVars, Cur, Unanswered
  <2>2. CallsInv'
    BY <1>4, <2>1, LeaveGo DEF SerialInv
  <2> QED  BY <1>4, <2>1, <2>2, LeaveFlow DEF SerialInv
<1>7. CASE /\ stack' = <<At("checkTrailer", Cur)>> \o <<>>
           /\ UNCHANGED <<ps, goVars, crashed>>
  <2>1. stack' = <<At("checkTrailer", Cur)>>
    BY <1>7
  <2>2. UNCHANGED <<ps, go, paniced>>
    BY <1>7 DEF goVars
  <2> QED  BY <1>1, <1>4, <2>1, <2>2, WorkerMoves
<1>8. \/ /\ MoreData(p)
         /\ DoDataGo(Cur, TakeBuffer(p), p.dataBuffer, p.endStream, "resumeData", <<>>)
         /\ UNCHANGED paniced
      \/ UNCHANGED <<ps, goVars, stack>>
      \/ stack' = <<At("checkTrailer", Cur)>> \o <<>> /\ UNCHANGED <<ps, goVars, crashed>>
  BY <1>2 DEF ResumeData
<1> QED  BY <1>5, <1>6, <1>7, <1>8

LEMMA ResumeTrailerSerial ==
    ASSUME SerialInv, ResumeTrailer
    PROVE  CallsInv' /\ FlowInv'
<1>1. stack # <<>> /\ Head(stack).at \in Forwarding \cup {"checkData", "checkTrailer"}
  BY DEF ResumeTrailer, Forwarding
<1>2. Head(stack).dir = Cur /\ Tail(stack) = <<>> /\ Cur \in Dir
  BY <1>1, FilterFrame
<1>3. UNCHANGED <<filterVars, posted, streamVars>>
  BY DEF ResumeTrailer
<1>4. CASE /\ ps[Cur].state = "WaitingTrailer"
           /\ DoTrailerGo(Cur, ps[Cur], "resumeTrailer", <<>>)
           /\ UNCHANGED paniced
  <2>1. /\ dynamicLib /\ ~InGo(ps[Cur]) /\ ps[Cur] \in Processor
        /\ FedGoesOn /\ (Cur = "decode" => fed'["decode"] # <<>>)
        /\ UNCHANGED <<posted, paniced, enterEncoding, localReplyWaitingGo, dynamicLib, closed>>
    BY <1>1, <1>3, <1>4, FrameEntersGo
  <2> QED  BY <1>2, <1>4, <2>1, EntersGoAboutTrailers
<1>5. CASE stack' = <<>> /\ UNCHANGED <<ps, goVars, crashed>>
  <2>1. UNCHANGED <<ps, go, posted, paniced, fed, enterEncoding, localReplyWaitingGo,
                    dynamicLib, closed, hasDestroyed>>
    BY <1>3, <1>5 DEF filterVars, lifeVars, replyVars, goVars, streamVars
  <2> QED  BY <1>1, <1>5, <2>1, WorkerMoves
<1> QED  BY <1>2, <1>4, <1>5 DEF ResumeTrailer, Return

\* The worker's own steps keep the invariant.
LEMMA WorkerStepSerial ==
    ASSUME Calm, SerialInv, WorkerStep
    PROVE  CallsInv' /\ FlowInv'
<1>1. ~BufferFullReturns
  <2>1. SUFFICES ASSUME BufferFullReturns PROVE FALSE
    OBVIOUS
  <2>2. stack # <<>> /\ Head(stack).at = "bufferFull" /\ Head(stack).at \notin GoFrames
    BY <2>1 DEF BufferFullReturns, GoFrames
  <2> QED  BY <2>2, OnlyFrame DEF FrameFits
<1> QED  BY <1>1, TrailerAfterDataSerial, TrailersForwardedSerial, ResumeDataSerial,
            ResumeTrailerSerial, LocalReplySerial, LocalReplyBodySerial DEF WorkerStep

-----------------------------------------------------------------------------
(* Answers to the worker                                                   *)

\* What an allowed answer makes of the processor state that made the call.
LEMMA AnswerEffects ==
    ASSUME NEW p \in Processor, NEW call \in Call, p.state = Processing(call.kind),
           ~call.refused, call.kind = "trailers" => call.end,
           NEW status \in GolangStatus, status \in Allowed(call),
           NEW q, q = HandleGolangStatus(p, status)
    PROVE  /\ q \in Processor /\ q.dataBuffer = p.dataBuffer
           /\ status \in Later => q.state = p.state
           /\ status \notin Later => ~InGo(q) /\ q.state # "WaitingHeader"
           /\ q.state = "WaitingAllData" => "StopAndBuffer" \in Answers
           /\ call.kind = "headers"  => q = HandleHeaderGolangStatus(p, status)
           /\ call.kind = "data"     => q = HandleDataGolangStatus(p, status)
           /\ call.kind = "trailers" => q = HandleTrailerGolangStatus(p, status)
<1>1. call.kind \in Kind
  BY DEF Call
<1>2. status \in Answers \/ status = "Continue"
  BY DEF Allowed
<1>3. p.state # "WaitingAllData"
  BY <1>1, ProcessingIsInGo
<1>4. q \in Processor
  BY HandleTypes
<1>5. CASE call.kind = "headers"
  <2>1. q = HandleHeaderGolangStatus(p, status)
    BY <1>1, <1>5, ProcessingIsInGo DEF HandleGolangStatus
  <2>2. status # "StopNoBuffer"
    BY <1>5 DEF Allowed
  <2> QED  BY <1>2, <1>3, <1>4, <1>5, <2>1, <2>2, HandleHeaderEffects
<1>6. CASE call.kind = "data"
  <2>1. q = HandleDataGolangStatus(p, status)
    BY <1>1, <1>6, ProcessingIsInGo DEF HandleGolangStatus
  <2> QED  BY <1>2, <1>3, <1>4, <1>6, <2>1, HandleDataEffects
<1>7. CASE call.kind = "trailers"
  <2>1. q = HandleTrailerGolangStatus(p, status)
    BY <1>1, <1>7, ProcessingIsInGo DEF HandleGolangStatus
  <2>2. status \in {"Running", "LocalReply", "Continue"}
    BY <1>7 DEF Allowed, GolangStatus
  <2>3. status \notin Later => q.state = "Done"
    BY <2>1, <2>2, HandleTrailerEffects DEF Later
  <2> QED  BY <1>2, <1>3, <1>4, <1>7, <2>1, <2>3, HandleTrailerEffects DEF InGo
<1> QED  BY <1>1, <1>5, <1>6, <1>7 DEF Kind

\* The worker in Go, and the call it waits for.
LEMMA GoFrame ==
    ASSUME SerialInv, NEW at \in GoFrames, NEW call \in go, NEW status \in GolangStatus,
           GoReturns(at, call, status)
    PROVE  /\ call.dir = Cur /\ Cur \in Dir /\ dynamicLib /\ ~localReplyWaitingGo
           /\ call \in Call /\ ps[Cur] \in Processor /\ ps[Cur].state = Processing(call.kind)
           /\ call.kind = FrameKind(at) /\ ~call.refused
           /\ call.kind = "trailers" => call.end
           /\ status \in Allowed(call)
           /\ \/ Tail(stack) = <<>> /\ ~ReplyBodyPending
              \/ at = "doHeaders" /\ Tail(stack) = <<ReplyBody>> /\ fed["encode"] = <<Hdr>>
<1>1. /\ stack # <<>> /\ Head(stack).at = at /\ Head(stack).dir = call.dir /\ call.sync
      /\ status \in Allowed(call)
  BY DEF GoReturns
<1>2. /\ call \in Unanswered /\ call \in Call
  BY DEF Unanswered, SerialInv, TypeOK
<1>3. /\ call.dir = Cur /\ ps[Cur].state = Processing(call.kind) /\ ~call.refused
      /\ call.kind = "trailers" => call.end
      /\ call.kind = FrameKind(at)
  BY <1>1, <1>2 DEF SerialInv, CallsInv, CallsFit, SyncCallIsOnTop
<1>4. Cur \in Dir /\ ps[Cur] \in Processor
  BY DEF Cur, Dir, SerialInv, TypeOK
<1>5. Head(stack).at \notin {"localReply", "replyBody"}
  BY <1>1 DEF GoFrames
<1>6. stack # <<ReplyBody>> /\ ~localReplyWaitingGo
  <2>1. Head(<<ReplyBody>>).at = "replyBody"
    BY DEF ReplyBody, At
  <2> QED  BY <1>1, <1>5, <2>1 DEF SerialInv, FlowInv, ReplyWaitsForRequest
<1>7. CASE stack = <<At("doHeaders", "encode"), ReplyBody>>
  <2>1. at = "doHeaders" /\ Tail(stack) = <<ReplyBody>>
    BY <1>1, <1>7, TwoFrames DEF At
  <2>2. FrameFits(ReplyBody) /\ FrameFits(At("doHeaders", "encode"))
    <3>1. stack # <<>> /\ \A frame : stack # <<frame>>
      <4>1. Len(stack) = 2
        BY <1>7
      <4> QED  BY <4>1
    <3> QED  BY <3>1 DEF SerialInv, FlowInv, StackShape
  <2>3. fed["encode"] = <<Hdr>> /\ dynamicLib
    BY <2>2 DEF FrameFits, ReplyBody, At
  <2> QED  BY <1>1, <1>2, <1>3, <1>4, <1>6, <2>1, <2>3
<1>8. CASE stack # <<At("doHeaders", "encode"), ReplyBody>>
  <2>1. ~ReplyBodyPending
    BY <1>6, <1>8 DEF ReplyBodyPending
  <2>2. PICK frame \in Frame : stack = <<frame>> /\ FrameFits(frame)
    BY <1>1, <1>8 DEF SerialInv, FlowInv, StackShape
  <2>3. Tail(stack) = <<>>
    <3>1. Tail(<<frame>>) \in Seq(Frame) /\ Len(Tail(<<frame>>)) = 0
      OBVIOUS
    <3> QED  BY <2>2, <3>1, EmptySeq
  <2>4. dynamicLib
    BY <1>5, <2>2 DEF FrameFits
  <2> QED  BY <1>1, <1>2, <1>3, <1>4, <1>6, <2>1, <2>3, <2>4
<1> QED  BY <1>7, <1>8

\* The worker comes back from Go.
LEMMA ComesBack ==
    ASSUME SerialInv, NEW at \in GoFrames, NEW call \in go, NEW status \in GolangStatus,
           GoReturns(at, call, status),
           NEW q, q = HandleGolangStatus(ps[call.dir], status),
           NEW n, n.state = q.state, n.dataBuffer = q.dataBuffer,
           ps' = [ps EXCEPT ![call.dir] = n],
           UNCHANGED <<fed, enterEncoding, localReplyWaitingGo, dynamicLib, closed, hasDestroyed>>,
           NEW label \in Forwarding \cup {"checkData", "checkTrailer"},
           \/ stack' = Tail(stack)
           \/ /\ at # "doHeaders"
              /\ stack' = <<At(label, call.dir)>>
           \/ /\ at # "doHeaders"
              /\ stack' = <<At("trailerAfterData", call.dir)>> /\ n.state = "WaitingTrailer"
    PROVE  CallsInv' /\ FlowInv'
<1>1. /\ call.dir = Cur /\ Cur \in Dir /\ dynamicLib /\ ~localReplyWaitingGo
      /\ call \in Call /\ ps[Cur] \in Processor /\ ps[Cur].state = Processing(call.kind)
      /\ ~call.refused
      /\ call.kind = "trailers" => call.end
      /\ status \in Allowed(call)
      /\ \/ Tail(stack) = <<>> /\ ~ReplyBodyPending
         \/ at = "doHeaders" /\ Tail(stack) = <<ReplyBody>> /\ fed["encode"] = <<Hdr>>
  BY GoFrame
<1>2. /\ q.dataBuffer = ps[Cur].dataBuffer
      /\ status \in Later => q.state = ps[Cur].state
      /\ status \notin Later => ~InGo(q) /\ q.state # "WaitingHeader"
      /\ q.state = "WaitingAllData" => "StopAndBuffer" \in Answers
  BY <1>1, AnswerEffects
<1>3. ps'[Cur] = n /\ Cur' = Cur
  <2>1. ps \in [Dir -> Processor]
    BY DEF SerialInv, TypeOK
  <2>2. ps'[Cur] = n
    BY <1>1, <2>1
  <2> QED  BY <2>2 DEF Cur
<1>4. ps[Cur].state # "WaitingHeader"
  BY <1>1, ProcessingIsInGo DEF Call
<1>5. status \notin Later => ~InGo(n)
  BY <1>2 DEF InGo
<1>6. CallsInv'
  BY <1>2, <1>3, <1>5, AnswerWorker DEF SerialInv
<1>7. FlowInv'
  BY <1>1, <1>2, <1>3, <1>4, FlowGoesOn
<1> QED  BY <1>6, <1>7

\* The answer of the handler the worker waits for, by the place it waits at.
LEMMA AnswerAt ==
    ASSUME SerialInv, NEW at \in GoFrames, NEW call \in go, NEW status \in GolangStatus,
           GoReturns(at, call, status),
           NEW q, q = HandleGolangStatus(ps[call.dir], status)
    PROVE  /\ ClearAll(q).state = q.state /\ ClearAll(q).dataBuffer = q.dataBuffer
           /\ FrameKind(at) = "headers"  => q = HandleHeaderGolangStatus(ps[call.dir], status)
           /\ FrameKind(at) = "data"     => q = HandleDataGolangStatus(ps[call.dir], status)
           /\ FrameKind(at) = "trailers" => q = HandleTrailerGolangStatus(ps[call.dir], status)
           /\ at # "doHeaders" => Tail(stack) = <<>>
<1>1. /\ call.dir = Cur
      /\ call \in Call /\ ps[Cur] \in Processor /\ ps[Cur].state = Processing(call.kind)
      /\ call.kind = FrameKind(at) /\ ~call.refused
      /\ call.kind = "trailers" => call.end
      /\ status \in Allowed(call)
      /\ at # "doHeaders" => Tail(stack) = <<>>
  BY GoFrame
<1>2. /\ q \in Processor
      /\ call.kind = "headers"  => q = HandleHeaderGolangStatus(ps[Cur], status)
      /\ call.kind = "data"     => q = HandleDataGolangStatus(ps[Cur], status)
      /\ call.kind = "trailers" => q = HandleTrailerGolangStatus(ps[Cur], status)
  BY <1>1, AnswerEffects
<1> QED  BY <1>1, <1>2, ListEffects

\* What is passed on is not kept, and that is all continueDoData changes here.
LEMMA ContinueDoDataEffects ==
    ASSUME NEW d \in Dir, NEW q, ContinueDoData(d, q),
           ClearAll(q).state = q.state, ClearAll(q).dataBuffer = q.dataBuffer
    PROVE  \E n : ps' = [ps EXCEPT ![d] = n] /\ n.state = q.state /\ n.dataBuffer = q.dataBuffer
BY DEF ContinueDoData

\* The first step of continueStatusInternal.
LEMMA ContinueStatusEffects ==
    ASSUME NEW d \in Dir, NEW status, ContinueStatusInternal(d, status, <<>>),
           NEW q, q = HandleGolangStatus(ps[d], status),
           ClearAll(q).state = q.state, ClearAll(q).dataBuffer = q.dataBuffer
    PROVE  /\ \E n : ps' = [ps EXCEPT ![d] = n] /\ n.state = q.state /\ n.dataBuffer = q.dataBuffer
           /\ \E label \in Forwarding \cup {"checkData", "checkTrailer"} : stack' = <<At(label, d)>>
<1>1. \/ ps' = [ps EXCEPT ![d] = q]
      \/ ContinueDoData(d, q)
  BY DEF ContinueStatusInternal
<1>2. \E label \in {"forwarded", "forwardedTrailerData", "checkData"} :
         stack' = <<At(label, d)>> \o <<>>
  BY DEF ContinueStatusInternal
<1>3. PICK label \in {"forwarded", "forwardedTrailerData", "checkData"} :
         stack' = <<At(label, d)>> \o <<>>
  BY <1>2
<1>4. stack' = <<At(label, d)>>
  BY <1>3
<1>5. label \in Forwarding \cup {"checkData", "checkTrailer"}
  BY DEF Forwarding
<1> QED  BY <1>1, <1>4, <1>5, ContinueDoDataEffects

LEMMA GoReturnSerial ==
    ASSUME SerialInv, GoReturn
    PROVE  CallsInv' /\ FlowInv'
<1> PICK call \in go, status \in GolangStatus :
        \/ HeadersReturn(call, status)
        \/ DataReturn(call, status)
        \/ TrailerReturn(call, status)
        \/ TrailerDataReturn(call, status)
        \/ ResumeDataReturn(call, status)
        \/ ResumeTrailerReturn(call, status)
        \/ LocalReplyHeadersReturn(call, status)
  BY DEF GoReturn
<1> DEFINE d == call.dir
           q == HandleGolangStatus(ps[d], status)
<1>1. /\ {"doHeaders", "doData", "doTrailer", "doTrailerData", "localReplyHeaders",
          "resumeData", "resumeTrailer"} \subseteq GoFrames
      /\ FrameKind("doHeaders") = "headers" /\ FrameKind("localReplyHeaders") = "headers"
      /\ FrameKind("doData") = "data" /\ FrameKind("doTrailerData") = "data"
      /\ FrameKind("resumeData") = "data"
      /\ FrameKind("doTrailer") = "trailers" /\ FrameKind("resumeTrailer") = "trailers"
  BY DEF GoFrames, FrameKind
<1>2. call \in Call /\ d \in Dir
  BY DEF SerialInv, TypeOK, Call
<1>3. UNCHANGED <<fed, enterEncoding, localReplyWaitingGo, dynamicLib, closed, hasDestroyed>>
  BY DEF HeadersReturn, DataReturn, TrailerReturn, TrailerDataReturn, ResumeDataReturn,
         ResumeTrailerReturn, LocalReplyHeadersReturn, filterVars, lifeVars, replyVars
<1> HIDE DEF q
<1>4. CASE HeadersReturn(call, status)
  <2>1. GoReturns("doHeaders", call, status) /\ stack' = Tail(stack)
    BY <1>4 DEF HeadersReturn, Return
  <2>2. q = HandleHeaderGolangStatus(ps[d], status)
    BY <1>1, <2>1, AnswerAt DEF q
  <2>3. ps' = [ps EXCEPT ![d] = q]
    BY <1>4, <2>2 DEF HeadersReturn
  <2> QED  BY <1>1, <1>3, <2>1, <2>3, ComesBack DEF q
<1>5. CASE DataReturn(call, status)
  <2>1. GoReturns("doData", call, status) /\ stack' = Tail(stack)
    BY <1>5 DEF DataReturn, Return
  <2>2. /\ q = HandleDataGolangStatus(ps[d], status)
        /\ ClearAll(q).state = q.state /\ ClearAll(q).dataBuffer = q.dataBuffer
    BY <1>1, <2>1, AnswerAt DEF q
  <2>3. ps' = [ps EXCEPT ![d] = q] \/ ps' = [ps EXCEPT ![d] = ClearAll(q)]
    BY <1>5, <2>2 DEF DataReturn
  <2> QED  BY <1>1, <1>3, <2>1, <2>2, <2>3, ComesBack DEF q
<1>6. CASE TrailerReturn(call, status)
  <2>1. GoReturns("doTrailer", call, status) /\ stack' = Tail(stack)
    BY <1>6 DEF TrailerReturn, Return
  <2>2. q = HandleTrailerGolangStatus(ps[d], status)
    BY <1>1, <2>1, AnswerAt DEF q
  <2>3. ps' = [ps EXCEPT ![d] = q]
    BY <1>6, <2>2 DEF TrailerReturn
  <2> QED  BY <1>1, <1>3, <2>1, <2>3, ComesBack DEF q
<1>7. CASE TrailerDataReturn(call, status)
  <2>1. GoReturns("doTrailerData", call, status)
    BY <1>7 DEF TrailerDataReturn
  <2>2. q = HandleDataGolangStatus(ps[d], status) /\ Tail(stack) = <<>>
    BY <1>1, <2>1, AnswerAt DEF q
  <2>3. ps' = [ps EXCEPT ![d] = q]
    BY <1>7, <2>2 DEF TrailerDataReturn
  <2>4. \/ stack' = Tail(stack)
        \/ stack' = <<At("trailerAfterData", d)>> /\ q.state = "WaitingTrailer"
    <3>1. <<At("trailerAfterData", d)>> \o <<>> = <<At("trailerAfterData", d)>>
      OBVIOUS
    <3>2. stack' = IF q.state = "WaitingTrailer" THEN <<At("trailerAfterData", d)>> \o Tail(stack)
                                                ELSE Tail(stack)
      BY <1>7, <2>2 DEF TrailerDataReturn
    <3> QED  BY <2>2, <3>1, <3>2
  <2> QED  BY <1>1, <1>3, <2>1, <2>3, <2>4, ComesBack DEF q
<1>8. CASE ResumeDataReturn(call, status)
  <2>1. GoReturns("resumeData", call, status)
    BY <1>8 DEF ResumeDataReturn
  <2>2. /\ q = HandleDataGolangStatus(ps[d], status) /\ Tail(stack) = <<>>
        /\ ClearAll(q).state = q.state /\ ClearAll(q).dataBuffer = q.dataBuffer
    BY <1>1, <2>1, AnswerAt DEF q
  <2>3. ContinueDoData(d, q) \/ ps' = [ps EXCEPT ![d] = q]
    BY <1>8, <2>2 DEF ResumeDataReturn
  <2>4. PICK n : ps' = [ps EXCEPT ![d] = n] /\ n.state = q.state /\ n.dataBuffer = q.dataBuffer
    BY <1>2, <2>2, <2>3, ContinueDoDataEffects
  <2>5. \/ stack' = Tail(stack)
        \/ \E label \in Forwarding \cup {"checkData", "checkTrailer"} : stack' = <<At(label, d)>>
    <3>1. \/ stack' = Tail(stack)
          \/ \E label \in {"checkTrailer", "forwardedData"} : stack' = <<At(label, d)>> \o <<>>
      BY <1>8, <2>2 DEF ResumeDataReturn, Return
    <3>2. {"checkTrailer", "forwardedData"} \subseteq Forwarding \cup {"checkData", "checkTrailer"}
      BY DEF Forwarding
    <3>3. CASE \E label \in {"checkTrailer", "forwardedData"} : stack' = <<At(label, d)>> \o <<>>
      <4>1. PICK label \in {"checkTrailer", "forwardedData"} : stack' = <<At(label, d)>> \o <<>>
        BY <3>3
      <4>2. stack' = <<At(label, d)>>
        BY <4>1
      <4> QED  BY <3>2, <4>2
    <3> QED  BY <3>1, <3>3
  <2>6. "resumeData" \in GoFrames /\ "resumeData" # "doHeaders" /\ q = HandleGolangStatus(ps[d], status)
    BY <1>1 DEF q
  <2>7. PICK label \in Forwarding \cup {"checkData", "checkTrailer"} :
           stack' = Tail(stack) \/ stack' = <<At(label, d)>>
    BY <2>5
  <2> QED  BY <1>3, <2>1, <2>4, <2>6, <2>7, ComesBack
<1>9. CASE ResumeTrailerReturn(call, status)
  <2>1. GoReturns("resumeTrailer", call, status) /\ stack' = Tail(stack)
    BY <1>9 DEF ResumeTrailerReturn, Return
  <2>2. q = HandleTrailerGolangStatus(ps[d], status)
    BY <1>1, <2>1, AnswerAt DEF q
  <2>3. ps' = [ps EXCEPT ![d] = q]
    BY <1>9, <2>2 DEF ResumeTrailerReturn
  <2> QED  BY <1>1, <1>3, <2>1, <2>3, ComesBack DEF q
<1>10. CASE LocalReplyHeadersReturn(call, status)
  <2>1. GoReturns("localReplyHeaders", call, status)
    BY <1>10 DEF LocalReplyHeadersReturn
  <2>2. Tail(stack) = <<>> /\ ClearAll(q).state = q.state /\ ClearAll(q).dataBuffer = q.dataBuffer
    BY <1>1, <2>1, AnswerAt DEF q
  <2>3. ContinueStatusInternal(d, status, <<>>)
    BY <1>10, <2>2 DEF LocalReplyHeadersReturn
  <2>4. /\ \E n : ps' = [ps EXCEPT ![d] = n] /\ n.state = q.state /\ n.dataBuffer = q.dataBuffer
        /\ \E label \in Forwarding \cup {"checkData", "checkTrailer"} : stack' = <<At(label, d)>>
    BY <1>2, <2>2, <2>3, ContinueStatusEffects DEF q
  <2>5. PICK n : ps' = [ps EXCEPT ![d] = n] /\ n.state = q.state /\ n.dataBuffer = q.dataBuffer
    BY <2>4
  <2>6. /\ "localReplyHeaders" \in GoFrames /\ "localReplyHeaders" # "doHeaders"
        /\ q = HandleGolangStatus(ps[d], status)
    BY <1>1 DEF q
  <2>7. PICK label \in Forwarding \cup {"checkData", "checkTrailer"} :
           stack' = <<At(label, d)>>
    BY <2>4
  <2> QED  BY <1>3, <2>1, <2>5, <2>6, <2>7, ComesBack
<1> QED  BY <1>4, <1>5, <1>6, <1>7, <1>8, <1>9, <1>10

-----------------------------------------------------------------------------
(* Posted answers                                                          *)

\* The answer the worker takes from its dispatcher.
LEMMA TakenEvent ==
    ASSUME SerialInv, NEW act, NextEvent(act)
    PROVE  /\ stack = <<>> /\ go = {} /\ posted' = <<>> /\ ~ReplyBodyPending
           /\ Head(posted) = posted[1] /\ posted[1] \in Event /\ posted[1].act \in act
           /\ posted[1].call \in Unanswered /\ posted[1].call \in Call
           /\ dynamicLib /\ Cur \in Dir /\ ps[Cur] \in Processor
           /\ posted[1].call.dir = Cur /\ ps[Cur].state = Processing(posted[1].call.kind)
           /\ ~posted[1].call.refused
           /\ posted[1].call.kind = "trailers" => posted[1].call.end
<1>1. stack = <<>> /\ posted # <<>> /\ Head(posted).act \in act /\ posted' = Tail(posted)
  BY DEF NextEvent
<1>2. /\ go = {} /\ Head(posted) = posted[1] /\ Tail(posted) = <<>>
      /\ posted[1] \in Event /\ posted[1].call \in Unanswered
  BY <1>1, OnePosted DEF SerialInv, CallsInv
<1>3. posted[1].call \in Call
  BY <1>2 DEF Event
<1>4. /\ posted[1].call.dir = Cur /\ ps[Cur].state = Processing(posted[1].call.kind)
      /\ ~posted[1].call.refused
      /\ posted[1].call.kind = "trailers" => posted[1].call.end
  BY <1>2 DEF SerialInv, CallsInv, CallsFit
<1>5. dynamicLib /\ Cur \in Dir /\ ps[Cur] \in Processor
  BY <1>2 DEF SerialInv, FlowInv, StreamOrder, Cur, Dir, TypeOK
<1>6. ~ReplyBodyPending
  BY <1>1 DEF ReplyBodyPending
<1> QED  BY <1>1, <1>2, <1>3, <1>4, <1>5, <1>6

\* With no call outstanding only the worker's processor state has to be right.
LEMMA NoCalls ==
    ASSUME CallsInv, go' = {}, posted' = <<>>, paniced' = paniced,
           ~InGo(ps'[Cur']) \/ closed'
    PROVE  CallsInv'
<1>1. Unanswered' = {}
  BY DEF Unanswered
<1> QED  BY <1>1, EmptySeq DEF CallsInv, CallsFit, GoSerialized, NeverRefused, SyncCallIsOnTop,
                             PostedIsAllowed, AnswerOutstanding

LEMMA ContinueEventSerial ==
    ASSUME SerialInv, ContinueEvent
    PROVE  CallsInv' /\ FlowInv'
<1> DEFINE call == posted[1].call
           status == posted[1].status
           q == HandleGolangStatus(ps[Cur], status)
<1>1. /\ NextEvent({"continue"}) /\ ~hasDestroyed /\ ~localReplyWaitingGo
      /\ ContinueStatusInternal(Cur, Head(posted).status, <<>>)
  BY DEF ContinueEvent
<1>2. UNCHANGED <<go, paniced, fed, enterEncoding, localReplyWaitingGo, dynamicLib, closed>>
  BY DEF ContinueEvent, filterVars, lifeVars, replyVars, goVars
<1>3. /\ stack = <<>> /\ go = {} /\ posted' = <<>> /\ ~ReplyBodyPending
      /\ Head(posted) = posted[1] /\ posted[1] \in Event /\ posted[1].act = "continue"
      /\ call \in Call /\ dynamicLib /\ Cur \in Dir /\ ps[Cur] \in Processor
      /\ ps[Cur].state = Processing(call.kind) /\ ~call.refused
      /\ call.kind = "trailers" => call.end
  BY <1>1, TakenEvent
<1>4. status \in Allowed(call) /\ status \notin Later /\ status \in GolangStatus
  <2>1. posted # <<>> /\ posted \in Seq(Event)
    BY <1>1 DEF NextEvent, SerialInv, TypeOK
  <2>2. Len(posted) = 1
    BY <2>1, OnePosted DEF SerialInv, CallsInv
  <2>3. 1 \in DOMAIN posted
    BY <2>1, <2>2, LenProperties
  <2> QED  BY <1>3, <2>3 DEF SerialInv, CallsInv, PostedIsAllowed, Later, Event
<1> HIDE DEF call, status
<1>5. /\ q \in Processor /\ q.dataBuffer = ps[Cur].dataBuffer
      /\ ~InGo(q)
      /\ q.state = "WaitingAllData" => "StopAndBuffer" \in Answers
  BY <1>3, <1>4, AnswerEffects
<1>6. ClearAll(q).state = q.state /\ ClearAll(q).dataBuffer = q.dataBuffer
  BY <1>5, ListEffects
<1>7. ContinueStatusInternal(Cur, status, <<>>)
  BY <1>1, <1>3 DEF status
<1>8. /\ \E n : ps' = [ps EXCEPT ![Cur] = n] /\ n.state = q.state /\ n.dataBuffer = q.dataBuffer
      /\ \E label \in Forwarding \cup {"checkData", "checkTrailer"} : stack' = <<At(label, Cur)>>
  BY <1>3, <1>6, <1>7, ContinueStatusEffects
<1>9. PICK n : ps' = [ps EXCEPT ![Cur] = n] /\ n.state = q.state /\ n.dataBuffer = q.dataBuffer
  BY <1>8
<1> HIDE DEF q
<1>10. CallsInv'
  <2>1. ps \in [Dir -> Processor] /\ Cur' = Cur
    BY <1>2 DEF SerialInv, TypeOK, Cur
  <2>2. ps'[Cur'] = n
    BY <1>3, <1>9, <2>1
  <2>3. ~InGo(ps'[Cur'])
    BY <1>5, <1>9, <2>2 DEF InGo
  <2> QED  BY <1>2, <1>3, <2>3, NoCalls DEF SerialInv
<1>11. FlowInv'
  <2>1. ps[Cur].state # "WaitingHeader"
    BY <1>3, ProcessingIsInGo DEF Call
  <2> QED  BY <1>1, <1>2, <1>3, <1>5, <1>8, <1>9, <2>1, FlowGoesOn
<1> QED  BY <1>10, <1>11

LEMMA LocalReplyEventSerial ==
    ASSUME SerialInv, LocalReplyEvent
    PROVE  CallsInv' /\ FlowInv'
<1> DEFINE p == ClearAll(TakeBuffer(ps[Cur]))
           q == [p EXCEPT !.state = "WaitingHeader"]
<1>1. /\ NextEvent({"reply"}) /\ ~hasDestroyed /\ ~localReplyWaitingGo
      /\ UNCHANGED <<go, paniced, fed, enterEncoding, localReplyWaitingGo, dynamicLib>>
  BY DEF LocalReplyEvent, filterVars, lifeVars, replyVars, goVars
<1>2. /\ stack = <<>> /\ go = {} /\ posted' = <<>> /\ ~ReplyBodyPending
      /\ dynamicLib /\ Cur \in Dir /\ ps[Cur] \in Processor
  BY <1>1, TakenEvent
<1>3. /\ p \in Processor /\ p.state = ps[Cur].state /\ p.dataBuffer = <<>>
      /\ q.state = "WaitingHeader" /\ q.dataBuffer = <<>>
  <2>1. p \in Processor /\ p.state = ps[Cur].state /\ p.dataBuffer = <<>>
    BY <1>2, ListTypes, ListEffects
  <2> HIDE DEF p
  <2> QED  BY <2>1 DEF Processor
<1>4. Cur' = Cur /\ Unanswered' = {}
  BY <1>1, <1>2 DEF Cur, Unanswered
<1>5. CASE /\ Cur = "decode"
           /\ ps' = [ps EXCEPT ![Cur] = q]
           /\ stack' = <<At("localReply", Cur)>>
           /\ UNCHANGED closed
  <2> HIDE DEF q
  <2>1. ps \in [Dir -> Processor]
    BY DEF SerialInv, TypeOK
  <2>2. ps'["decode"] = q /\ ps'[Cur'] = q
    BY <1>2, <1>4, <1>5, <2>1
  <2>3. ~enterEncoding /\ fed["encode"] = <<>> /\ ~closed
    <3>1. ~enterEncoding
      BY <1>5 DEF Cur
    <3> QED  BY <1>1, <1>2, <3>1 DEF SerialInv, FlowInv, StreamOrder
  <2>4. CallsInv'
    <3>1. ~InGo(ps'[Cur'])
      BY <1>3, <2>2 DEF InGo
    <3> QED  BY <1>1, <1>2, <3>1, NoCalls DEF SerialInv
  <2>5. StackShape'
    <3>1. At("localReply", "decode") \in Frame
      BY LabelTypes DEF At, Frame, Dir
    <3>2. FrameFits(At("localReply", "decode"))'
      BY <1>1, <2>3 DEF FrameFits, At
    <3>3. stack' = <<At("localReply", "decode")>>
      BY <1>5
    <3> QED  BY <3>1, <3>2, <3>3 DEF StackShape
  <2>6. StreamOrder' /\ ReplyWaitsForRequest'
    BY <1>1, <1>3, <1>4, <1>5, <2>2, <2>3 DEF StreamOrder, ReplyWaitsForRequest
  <2>7. BufferFits'
    BY <1>1, <1>2, <1>3, <1>5, FedStays, OneBufferFits DEF SerialInv, FlowInv
  <2> QED  BY <2>4, <2>5, <2>6, <2>7 DEF FlowInv
<1>6. CASE /\ Cur # "decode"
           /\ ps' = [ps EXCEPT ![Cur] = p]
           /\ closed' = TRUE
           /\ UNCHANGED stack
  <2> HIDE DEF p
  <2>1. enterEncoding /\ Cur = "encode"
    BY <1>6 DEF Cur
  <2>2. ps \in [Dir -> Processor] /\ "decode" \in Dir /\ "decode" # "encode"
    BY DEF SerialInv, TypeOK, Dir
  <2>3. ps'["decode"] = ps["decode"]
    BY <1>6, <2>1, <2>2
  <2>4. CallsInv'
    BY <1>1, <1>2, <1>6, NoCalls DEF SerialInv
  <2>5. StackShape'
    BY <1>2, <1>6 DEF StackShape
  <2>6. StreamOrder'
    <3>1. ReplyBodyPending' = ReplyBodyPending
      BY <1>6 DEF ReplyBodyPending
    <3> QED  BY <1>1, <1>4, <2>1, <2>3, <3>1 DEF SerialInv, FlowInv, StreamOrder, Ended
  <2>7. ReplyWaitsForRequest'
    BY <1>1 DEF ReplyWaitsForRequest
  <2>8. BufferFits'
    BY <1>1, <1>2, <1>3, <1>6, FedStays, OneBufferFits DEF SerialInv, FlowInv
  <2> QED  BY <2>4, <2>5, <2>6, <2>7, <2>8 DEF FlowInv
<1> QED  BY <1>5, <1>6 DEF LocalReplyEvent

LEMMA ContinueEncodeLocalReplySerial ==
    ASSUME SerialInv, ContinueEncodeLocalReply
    PROVE  CallsInv' /\ FlowInv'
<1> DEFINE endStream == ps["encode"].endStream /\ ~localTrailers /\ ps["encode"].dataBuffer = <<>>
           r == ClearAll(ps["decode"])
           procs == [ps EXCEPT !["decode"] = r]
           p == ProcessHeader(procs["encode"], endStream)
<1>1. /\ NextEvent({"continue", "reply"}) /\ localReplyWaitingGo
      /\ localReplyWaitingGo' = FALSE /\ enterEncoding' = TRUE
      /\ DoHeadersGo("encode", [ps EXCEPT ![Cur] = ClearAll(@)], endStream, "localReplyHeaders", <<>>)
      /\ UNCHANGED <<paniced, fed, dynamicLib, closed>>
  BY DEF ContinueEncodeLocalReply, lifeVars, streamVars
<1>2. stack = <<>> /\ go = {} /\ posted' = <<>> /\ ~ReplyBodyPending /\ dynamicLib
  BY <1>1, TakenEvent
<1>3. /\ ~enterEncoding /\ Cur = "decode" /\ Cur' = "encode" /\ fed["encode"] # <<>>
  BY <1>1 DEF SerialInv, FlowInv, StreamOrder, ReplyWaitsForRequest, Cur
<1>4. ps \in [Dir -> Processor] /\ "decode" \in Dir /\ "encode" \in Dir /\ "decode" # "encode"
  BY DEF SerialInv, TypeOK, Dir
<1>5. r \in Processor /\ r.state = ps["decode"].state /\ r.dataBuffer = ps["decode"].dataBuffer
  BY <1>4, ListTypes, ListEffects
<1>6. /\ DoHeadersGo("encode", procs, endStream, "localReplyHeaders", <<>>)
  BY <1>1, <1>3
<1> HIDE DEF endStream, r
<1>7. procs \in [Dir -> Processor] /\ procs["encode"] = ps["encode"] /\ procs["decode"] = r
  BY <1>4, <1>5
<1>8. /\ ps' = [procs EXCEPT !["encode"] = p]
      /\ CallGo("encode", "headers", endStream, <<Hdr>> \o EndIf(endStream), "localReplyHeaders", <<>>)
  BY <1>6 DEF DoHeadersGo
<1>9. p.state = Processing("headers") /\ p.dataBuffer = ps["encode"].dataBuffer
  <2>1. ps["encode"] \in Processor
    BY <1>4
  <2> QED  BY <1>7, <2>1, ProcessEffects
<1> HIDE DEF p, procs
<1>10. ps'["encode"] = p /\ ps'["decode"] = r
  BY <1>4, <1>7, <1>8
<1>11. /\ "localReplyHeaders" \in GoFrames /\ FrameKind("localReplyHeaders") = "headers"
       /\ "headers" \in Kind
  BY DEF GoFrames, FrameKind, Kind
<1>12. CallsInv'
  <2>1. ps'["encode"].state = Processing("headers")
    BY <1>9, <1>10
  <2> QED  BY <1>1, <1>2, <1>3, <1>4, <1>8, <1>11, <2>1, EnterGo DEF SerialInv
<1>13. StackShape'
  <2>1. stack' = <<At("localReplyHeaders", "encode")>> \o <<>>
    BY <1>8 DEF CallGo
  <2>2. stack' = <<At("localReplyHeaders", "encode")>>
    BY <2>1
  <2> QED  BY <1>1, <1>2, <1>3, <1>4, <1>11, <2>2, InGoShape
<1>14. StreamOrder'
  <2>1. Ended(fed["decode"]) \/ Ended(fed["encode"])
    BY <1>2, <1>3 DEF SerialInv, FlowInv, StreamOrder
  <2>2. fed["decode"] = <<>> => ps'["decode"].state = "WaitingHeader"
    BY <1>5, <1>10 DEF SerialInv, FlowInv, StreamOrder
  <2> QED  BY <1>1, <1>2, <1>3, <2>1, <2>2 DEF StreamOrder, Ended
<1>15. ReplyWaitsForRequest'
  BY <1>1 DEF ReplyWaitsForRequest
<1>16. BufferFits'
  <2>1. ASSUME NEW e \in Dir
        PROVE  /\ ps'[e].dataBuffer = ps[e].dataBuffer
               /\ ps'[e].state = "WaitingAllData" => ps[e].state = "WaitingAllData"
    <3>1. p.state # "WaitingAllData"
      BY <1>9, <1>11, ProcessingIsInGo
    <3> QED  BY <1>5, <1>9, <1>10, <3>1 DEF Dir
  <2> QED  BY <1>1, <2>1, FedStays, KeepBufferFits DEF SerialInv, FlowInv
<1> QED  BY <1>12, <1>13, <1>14, <1>15, <1>16 DEF FlowInv

-----------------------------------------------------------------------------
(* The invariant                                                           *)

\* In the beginning nothing was called, kept or fed.
LEMMA InitSerial == Init => SerialInv
<1> SUFFICES ASSUME Init PROVE SerialInv
  OBVIOUS
<1>1. TypeOK
  BY InitType
<1>2. Unanswered = {} /\ go = {} /\ posted = <<>> /\ stack = <<>> /\ Cur = "decode"
  BY EmptySeq DEF Init, Unanswered, Cur
<1>3. \A d \in Dir : ps[d].state = "WaitingHeader" /\ ps[d].dataBuffer = <<>>
  BY DEF Init, NewProcessor
<1>4. CallsInv
  <2>1. ~InGo(ps[Cur])
    BY <1>2, <1>3 DEF InGo, Dir
  <2> QED  BY <1>2, <2>1, EmptySeq DEF Init, CallsInv, CallsFit, GoSerialized, NeverRefused,
                                   SyncCallIsOnTop, PostedIsAllowed, AnswerOutstanding
<1>5. StackShape
  BY <1>2 DEF StackShape
<1>6. StreamOrder
  <2>1. /\ fed["decode"] = <<>> /\ fed["encode"] = <<>> /\ ps["decode"].state = "WaitingHeader"
        /\ ~enterEncoding /\ ~localReplyWaitingGo /\ ~closed
    BY <1>3 DEF Init, Dir
  <2> QED  BY <1>2, <2>1 DEF StreamOrder
<1>7. ReplyWaitsForRequest
  BY DEF Init, ReplyWaitsForRequest
<1>8. BufferFits
  BY <1>3 DEF BufferFits
<1> QED  BY <1>1, <1>4, <1>5, <1>6, <1>7, <1>8 DEF SerialInv, FlowInv

\* Steps that change nothing.
LEMMA StutterSerial ==
    ASSUME SerialInv, UNCHANGED vars
    PROVE  CallsInv' /\ FlowInv'
<1>1. UNCHANGED <<ps, stack, fed, enterEncoding, localReplyWaitingGo, dynamicLib, closed,
                  go, posted, paniced, hasDestroyed>>
  BY DEF vars, filterVars, lifeVars, replyVars, goVars, streamVars
<1>2. Cur' = Cur /\ Unanswered' = Unanswered
  BY <1>1 DEF Cur, Unanswered
<1> QED  BY <1>1, <1>2, LeaveGo, LeaveFlow DEF SerialInv

\* Every step keeps the invariant.
LEMMA NextSerial ==
    ASSUME Calm, SerialInv, [Next]_vars
    PROVE  SerialInv'
<1>1. TypeOK'
  BY NextType DEF SerialInv
<1>2. CASE Receive
  <2>1. \/ \E endStream \in BOOLEAN :
              \/ DecodeHeaders(endStream)
              \/ \E data \in DataFrames("decode") : DecodeData(data, endStream)
              \/ ResponseHeaders(endStream)
              \/ \E data \in DataFrames("encode") : ResponseData(data, endStream)
        \/ DecodeTrailers
        \/ EncodeTrailers
    BY <1>2 DEF Receive
  <2> QED  BY <1>1, <2>1, DecodeHeadersSerial, DecodeDataSerial, ResponseHeadersSerial,
              ResponseDataSerial, DecodeTrailersSerial, EncodeTrailersSerial DEF SerialInv
<1>3. CASE WorkerStep
  BY <1>1, <1>3, WorkerStepSerial DEF SerialInv
<1>4. CASE Dispatch
  <2>1. CallsInv' /\ FlowInv'
    BY <1>4, DropEventSerial, ContinueEncodeLocalReplySerial, ContinueEventSerial,
       LocalReplyEventSerial DEF Dispatch
  <2> QED  BY <1>1, <2>1 DEF SerialInv
<1>5. CASE GoReturn
  BY <1>1, <1>5, GoReturnSerial DEF SerialInv
<1>6. CASE Goroutine
  BY <1>1, <1>6, GoroutineSerial DEF SerialInv
<1>7. CASE OtherLocalReply
  BY <1>1, <1>7, OtherLocalReplySerial DEF SerialInv
<1>8. CASE Destroy
  BY <1>1, <1>8, DestroySerial DEF SerialInv
<1>9. CASE UNCHANGED vars
  BY <1>1, <1>9, StutterSerial DEF SerialInv
<1> QED  BY <1>2, <1>3, <1>4, <1>5, <1>6, <1>7, <1>8, <1>9 DEF Next

\* What the invariant says of answers and of local replies that wait.
LEMMA AnswerFits ==
    ASSUME SerialInv
    PROVE  AnswerFitsState
BY DEF SerialInv, CallsInv, CallsFit, AnswerFitsState

LEMMA ReplyIsWoken ==
    ASSUME SerialInv
    PROVE  WaitingReplyIsWoken
<1> SUFFICES ASSUME localReplyWaitingGo, ~hasDestroyed, posted = <<>>
             PROVE  \E c \in go : ~c.sync
  BY DEF WaitingReplyIsWoken
<1>1. ~enterEncoding /\ InGo(ps["decode"]) /\ stack \in {<<>>, <<ReplyBody>>}
  BY DEF SerialInv, FlowInv, ReplyWaitsForRequest
<1>2. InGo(ps[Cur]) /\ ~closed
  BY <1>1 DEF Cur, SerialInv, FlowInv, StreamOrder
<1>3. PICK c \in Unanswered : TRUE
  BY <1>2 DEF SerialInv, CallsInv, AnswerOutstanding
<1>4. c \in go
  BY <1>3, EmptySeq DEF Unanswered
<1>5. stack = <<>> \/ Head(stack).at \notin GoFrames
  <2>1. Head(<<ReplyBody>>).at \notin GoFrames
    BY DEF ReplyBody, At, GoFrames
  <2> QED  BY <1>1, <2>1
<1>6. ~c.sync
  BY <1>4, <1>5, NoSyncCall DEF SerialInv
<1> QED  BY <1>4, <1>6

\* In a calm environment the invariant holds: the calls into Go are serialized,
\* fit the processor state they came from, and are let in, and the stream and
\* the worker are where the filter's flags say.
THEOREM SerialInvariant ==
    ASSUME Calm
    PROVE  Spec => []SerialInv
BY InitSerial, NextSerial, PTL DEF Spec

\* README, Concurrency Safety: one handler of a stream at a time is at work.
THEOREM OneHandlerAtATime ==
    ASSUME Calm
    PROVE  Spec => []GoSerialized
<1>1. SerialInv => GoSerialized
  BY DEF SerialInv, CallsInv
<1> QED  BY <1>1, SerialInvariant, PTL

\* An answer, when it comes, finds the processor state that made the call.
THEOREM AnswersFit ==
    ASSUME Calm
    PROVE  Spec => []AnswerFitsState
<1>1. SerialInv => AnswerFitsState
  BY AnswerFits
<1> QED  BY <1>1, SerialInvariant, PTL

\* encodeHeaders holds a local reply back only for a handler that wakes it up.
THEOREM WaitingRepliesAreWoken ==
    ASSUME Calm
    PROVE  Spec => []WaitingReplyIsWoken
<1>1. SerialInv => WaitingReplyIsWoken
  BY ReplyIsWoken
<1> QED  BY <1>1, SerialInvariant, PTL
=============================================================================
