----------------------- MODULE GolangFilterFlowProofs -----------------------
(***************************************************************************)
(* Reading is disabled only while a private buffer is over its limit, in   *)
(* every environment.  In a calm one Go is told the truth about the end of *)
(* a message, its header API reaches the message it was called for, and    *)
(* nothing enters Go after the end of the stream.                          *)
(***************************************************************************)
EXTENDS GolangFilterProofs

-----------------------------------------------------------------------------
(* Flow control                                                            *)

\* Reading is disabled for this processor state only while its buffer is full.
FullIfDisabled(p) == p.watermarkRequested => Len(p.dataBuffer) > Limit

\* The methods that leave the private buffer alone, or empty it.
LEMMA OperationsKeepFull ==
    ASSUME NEW p \in Processor, FullIfDisabled(p)
    PROVE  /\ FullIfDisabled(ClearAll(p))
           /\ FullIfDisabled(TakeBuffer(p))
           /\ FullIfDisabled(ClearAll(TakeBuffer(p)))
           /\ \A data : FullIfDisabled(Push(p, data))
           /\ \A b : FullIfDisabled(ProcessHeader(p, b))
           /\ \A b, data : FullIfDisabled(Push(ProcessData(p, b), data))
           /\ \A b, data : FullIfDisabled(Push(ProcessData(TakeBuffer(p), b), data))
           /\ FullIfDisabled(ProcessTrailer(p))
           /\ \A b : FullIfDisabled([p EXCEPT !.endStream = b])
           /\ \A b : FullIfDisabled([p EXCEPT !.seenTrailers = b])
           /\ \A s : FullIfDisabled([p EXCEPT !.state = s])
           /\ FullIfDisabled([ClearAll(TakeBuffer(p)) EXCEPT !.state = "WaitingHeader"])
BY DEF FullIfDisabled, Processor, ClearAll, TakeBuffer, Push, ProcessHeader, ProcessData,
       ProcessTrailer

\* So does handling an answer.
LEMMA AnswersKeepFull ==
    ASSUME NEW p \in Processor, FullIfDisabled(p), NEW status
    PROVE  /\ FullIfDisabled(HandleHeaderGolangStatus(p, status))
           /\ FullIfDisabled(HandleDataGolangStatus(p, status))
           /\ FullIfDisabled(HandleTrailerGolangStatus(p, status))
           /\ FullIfDisabled(HandleGolangStatus(p, status))
<1>1. /\ HandleHeaderGolangStatus(p, status).dataBuffer = p.dataBuffer
      /\ HandleHeaderGolangStatus(p, status).watermarkRequested = p.watermarkRequested
  BY DEF HandleHeaderGolangStatus, Processor
<1>2. /\ HandleDataGolangStatus(p, status).dataBuffer = p.dataBuffer
      /\ HandleDataGolangStatus(p, status).watermarkRequested = p.watermarkRequested
  BY DEF HandleDataGolangStatus, ClearLatest, Processor
<1>3. /\ HandleTrailerGolangStatus(p, status).dataBuffer = p.dataBuffer
      /\ HandleTrailerGolangStatus(p, status).watermarkRequested = p.watermarkRequested
  BY DEF HandleTrailerGolangStatus, Processor
<1> QED  BY <1>1, <1>2, <1>3 DEF HandleGolangStatus, FullIfDisabled

\* The high-watermark callback runs when the buffer has become full, and a full
\* buffer only grows.
LEMMA AddBufferDataKeepsFull ==
    ASSUME NEW p \in Processor, FullIfDisabled(p), NEW data \in Seq(Chunks)
    PROVE  FullIfDisabled(AddBufferData(p, data, Limit))
<1> DEFINE q == AddBufferData(p, data, Limit)
<1>1. /\ p.dataBuffer \in Seq(Chunks) /\ Len(p.dataBuffer) \in Nat /\ Len(data) \in Nat
      /\ Limit \in Nat
  BY LenProperties, BoundsAssumption DEF Processor
<1>2. Len(p.dataBuffer \o data) = Len(p.dataBuffer) + Len(data)
  BY <1>1, ConcatProperties
<1>3. /\ q.dataBuffer = p.dataBuffer \o data
      /\ q.watermarkRequested => p.watermarkRequested \/ Crosses(p, data, Limit)
  BY DEF AddBufferData, Processor
<1>4. CASE p.watermarkRequested
  <2>1. Len(p.dataBuffer) > Limit
    BY <1>4 DEF FullIfDisabled
  <2>2. Len(p.dataBuffer \o data) > Limit
    BY <1>1, <1>2, <2>1
  <2> QED  BY <1>3, <2>2 DEF FullIfDisabled
<1>5. CASE Crosses(p, data, Limit)
  BY <1>3, <1>5 DEF Crosses, FullIfDisabled
<1> QED  BY <1>3, <1>4, <1>5 DEF FullIfDisabled

\* One processor state is replaced.
LEMMA ReplaceKeepsFull ==
    ASSUME NEW procs \in [Dir -> Processor], \A e \in Dir : FullIfDisabled(procs[e]),
           NEW d \in Dir, NEW p, FullIfDisabled(p)
    PROVE  \A e \in Dir : FullIfDisabled([procs EXCEPT ![d] = p][e])
OBVIOUS

\* Every private buffer is full if reading is disabled for it.
BuffersFull(procs) == \A d \in Dir : FullIfDisabled(procs[d])

LEMMA ReadingDisabledMeaning == ReadingDisabledOnlyWhenFull <=> BuffersFull(ps)
BY DEF ReadingDisabledOnlyWhenFull, BuffersFull, FullIfDisabled

\* Calls into Go.
LEMMA GoCallsKeepFull ==
    ASSUME NEW procs \in [Dir -> Processor], BuffersFull(procs), NEW d \in Dir,
           NEW p \in Processor, FullIfDisabled(p)
    PROVE  /\ \A b, at, rest : DoHeadersGo(d, procs, b, at, rest) => BuffersFull(ps')
           /\ \A b, at, rest, data :
                 procs = ps /\ DoDataGo(d, p, data, b, at, rest) => BuffersFull(ps')
           /\ \A b, at, rest, data :
                 procs = ps /\ DoDataGo(d, TakeBuffer(p), data, b, at, rest) => BuffersFull(ps')
           /\ \A at, rest : procs = ps /\ DoTrailerGo(d, p, at, rest) => BuffersFull(ps')
<1>1. ASSUME NEW b, NEW at, NEW rest, DoHeadersGo(d, procs, b, at, rest)
      PROVE  BuffersFull(ps')
  <2>1. FullIfDisabled(ProcessHeader(procs[d], b))
    BY OperationsKeepFull DEF BuffersFull
  <2>2. ps' = [procs EXCEPT ![d] = ProcessHeader(procs[d], b)]
    BY <1>1 DEF DoHeadersGo
  <2> QED  BY <2>1, <2>2, ReplaceKeepsFull DEF BuffersFull
<1>2. ASSUME NEW b, NEW at, NEW rest, NEW data, procs = ps,
             \/ DoDataGo(d, p, data, b, at, rest)
             \/ DoDataGo(d, TakeBuffer(p), data, b, at, rest)
      PROVE  BuffersFull(ps')
  <2>1. PICK q : /\ ps' = [ps EXCEPT ![d] = q]
                 /\ \/ q = Push(ProcessData(p, b), data)
                    \/ q = Push(ProcessData(TakeBuffer(p), b), data)
    BY <1>2 DEF DoDataGo
  <2>2. FullIfDisabled(q)
    BY <2>1, OperationsKeepFull
  <2> QED  BY <1>2, <2>1, <2>2, ReplaceKeepsFull DEF BuffersFull
<1>3. ASSUME NEW at, NEW rest, procs = ps, DoTrailerGo(d, p, at, rest)
      PROVE  BuffersFull(ps')
  <2>1. FullIfDisabled(ProcessTrailer(p)) /\ ps' = [ps EXCEPT ![d] = ProcessTrailer(p)]
    BY <1>3, OperationsKeepFull DEF DoTrailerGo
  <2> QED  BY <1>3, <2>1, ReplaceKeepsFull DEF BuffersFull
<1> QED  BY <1>1, <1>2, <1>3

\* Headers come in.
LEMMA HeadersKeepFull ==
    ASSUME TypeOK, BuffersFull(ps), NEW endStream \in BOOLEAN, NEW rest,
           DecodeHeaders(endStream) \/ EncodeHeaders(endStream, rest)
    PROVE  BuffersFull(ps')
<1>0. /\ {"decode", "encode"} \subseteq Dir /\ Cur \in Dir
      /\ ps \in [Dir -> Processor]
  BY DEF Dir, Cur, TypeOK
<1>1. ASSUME NEW d \in Dir
      PROVE  /\ SetEndStream(d, endStream) \in [Dir -> Processor]
             /\ BuffersFull(SetEndStream(d, endStream))
  <2>1. /\ [ps[d] EXCEPT !.endStream = endStream] \in Processor
        /\ SetEndStream(d, endStream) = [ps EXCEPT ![d] = [ps[d] EXCEPT !.endStream = endStream]]
    BY <1>0 DEF Processor, SetEndStream
  <2>2. FullIfDisabled([ps[d] EXCEPT !.endStream = endStream])
    BY <1>0, OperationsKeepFull DEF BuffersFull
  <2> QED  BY <1>0, <2>1, <2>2, ReplaceKeepsFull DEF BuffersFull
<1>2. CASE DecodeHeaders(endStream)
  <2>1. \/ ps' = ps
        \/ DoHeadersGo("decode", SetEndStream("decode", endStream), endStream, "doHeaders", stack)
    BY <1>2 DEF DecodeHeaders
  <2> QED  BY <1>0, <1>1, <2>1, GoCallsKeepFull DEF BuffersFull
<1>3. CASE EncodeHeaders(endStream, rest)
  <2> DEFINE procs == SetEndStream("encode", endStream)
  <2>1. \/ ps' = ps
        \/ ps' = [procs EXCEPT ![Cur] = TakeBuffer(procs[Cur])]
        \/ DoHeadersGo("encode", procs, endStream, "doHeaders", rest)
        \/ DoHeadersGo("encode", [procs EXCEPT ![Cur] = ClearAll(TakeBuffer(procs[Cur]))],
                       endStream, "doHeaders", rest)
    BY <1>3 DEF EncodeHeaders
  <2>2. procs \in [Dir -> Processor] /\ BuffersFull(procs)
    BY <1>0, <1>1
  <2>3. /\ FullIfDisabled(TakeBuffer(procs[Cur]))
        /\ FullIfDisabled(ClearAll(TakeBuffer(procs[Cur])))
        /\ ClearAll(TakeBuffer(procs[Cur])) \in Processor
    BY <1>0, <2>2, OperationsKeepFull, ListTypes DEF BuffersFull
  <2> HIDE DEF procs
  <2>4. BuffersFull([procs EXCEPT ![Cur] = TakeBuffer(procs[Cur])])
    BY <1>0, <2>2, <2>3, ReplaceKeepsFull DEF BuffersFull
  <2>5. /\ BuffersFull([procs EXCEPT ![Cur] = ClearAll(TakeBuffer(procs[Cur]))])
        /\ [procs EXCEPT ![Cur] = ClearAll(TakeBuffer(procs[Cur]))] \in [Dir -> Processor]
    BY <1>0, <2>2, <2>3, ReplaceKeepsFull DEF BuffersFull
  <2> QED  BY <1>0, <2>1, <2>2, <2>4, <2>5, GoCallsKeepFull DEF BuffersFull
<1> QED  BY <1>2, <1>3

\* Data comes in.
LEMMA DataKeepsFull ==
    ASSUME TypeOK, BuffersFull(ps), NEW d \in Dir, NEW data \in Seq(Chunks),
           NEW endStream \in BOOLEAN, NEW rest, DoData(d, data, endStream, rest)
    PROVE  BuffersFull(ps')
<1> DEFINE p == [ps[d] EXCEPT !.endStream = endStream]
           q == AddBufferData(p, data, Limit)
<1>0. ps \in [Dir -> Processor]
  BY DEF TypeOK
<1>1. p \in Processor /\ FullIfDisabled(p)
  <2>1. p \in Processor
    BY <1>0 DEF Processor
  <2> QED  BY <1>0, <2>1, OperationsKeepFull DEF BuffersFull
<1>2. q \in Processor /\ FullIfDisabled(q)
  BY <1>1, AddBufferDataType, AddBufferDataKeepsFull
<1>3. \/ DoDataGo(d, p, data, endStream, "doData", rest)
      \/ DoDataGo(d, TakeBuffer(q), q.dataBuffer, TRUE, "doData", rest)
      \/ ps' = [ps EXCEPT ![d] = q]
      \/ ps' = [ps EXCEPT ![d] = p]
  BY DEF DoData
<1> HIDE DEF p, q
<1> QED  BY <1>0, <1>1, <1>2, <1>3, GoCallsKeepFull, ReplaceKeepsFull DEF BuffersFull

LEMMA BodyKeepsFull ==
    ASSUME TypeOK, BuffersFull(ps), NEW data \in Seq(Chunks),
           NEW endStream \in BOOLEAN, NEW rest,
           DecodeData(data, endStream) \/ EncodeData(data, endStream, rest)
    PROVE  BuffersFull(ps')
<1>0. {"decode", "encode"} \subseteq Dir /\ ps \in [Dir -> Processor]
  BY DEF Dir, TypeOK
<1> DEFINE p == [ps["encode"] EXCEPT !.endStream = endStream]
<1>1. p \in Processor /\ FullIfDisabled(p)
  <2>1. p \in Processor
    BY <1>0 DEF Processor
  <2> QED  BY <1>0, <2>1, OperationsKeepFull DEF BuffersFull
<1>2. FullIfDisabled(AddBufferData(p, data, Limit))
  BY <1>1, AddBufferDataKeepsFull
<1>3. \/ ps' = ps
      \/ DoData("decode", data, endStream, stack)
      \/ DoData("encode", data, endStream, rest)
      \/ ps' = [ps EXCEPT !["encode"] = AddBufferData(p, data, Limit)]
  BY DEF DecodeData, EncodeData
<1> HIDE DEF p
<1>4. ASSUME DoData("decode", data, endStream, stack) \/ DoData("encode", data, endStream, rest)
      PROVE  BuffersFull(ps')
  BY <1>0, <1>4, DataKeepsFull
<1>5. CASE ps' = [ps EXCEPT !["encode"] = AddBufferData(p, data, Limit)]
  BY <1>0, <1>2, <1>5, ReplaceKeepsFull DEF BuffersFull
<1> QED  BY <1>3, <1>4, <1>5

\* Trailers come in.
LEMMA TrailersKeepFull ==
    ASSUME TypeOK, BuffersFull(ps), DecodeTrailers \/ EncodeTrailers
    PROVE  BuffersFull(ps')
<1>0. {"decode", "encode"} \subseteq Dir /\ ps \in [Dir -> Processor]
  BY DEF Dir, TypeOK
<1>1. PICK d \in Dir : ps' = SeeTrailers(d) \/ DoTrailer(d)
  BY <1>0 DEF DecodeTrailers, EncodeTrailers
<1> DEFINE p == [ps[d] EXCEPT !.seenTrailers = TRUE]
<1>2. p \in Processor /\ FullIfDisabled(p)
  <2>1. p \in Processor
    BY <1>0 DEF Processor
  <2> QED  BY <1>0, <2>1, OperationsKeepFull DEF BuffersFull
<1>3. SeeTrailers(d) = [ps EXCEPT ![d] = p] /\ SeeTrailers(d)[d] = p
  BY <1>0 DEF SeeTrailers
<1> HIDE DEF p
<1>4. \/ ps' = [ps EXCEPT ![d] = p]
      \/ DoTrailerGo(d, p, "doTrailer", stack)
      \/ DoDataGo(d, TakeBuffer(p), p.dataBuffer, FALSE, "doTrailerData", stack)
  BY <1>1, <1>3 DEF DoTrailer
<1> QED  BY <1>0, <1>2, <1>4, GoCallsKeepFull, ReplaceKeepsFull DEF BuffersFull

\* Go answers.
LEMMA ContinueDoDataKeepsFull ==
    ASSUME TypeOK, BuffersFull(ps), NEW d \in Dir, NEW p \in Processor, FullIfDisabled(p),
           ContinueDoData(d, p)
    PROVE  BuffersFull(ps')
<1>1. FullIfDisabled(ClearAll(p)) /\ ps \in [Dir -> Processor]
  BY OperationsKeepFull DEF TypeOK
<1> QED  BY <1>1, ReplaceKeepsFull DEF BuffersFull, ContinueDoData

LEMMA ContinueStatusKeepsFull ==
    ASSUME TypeOK, BuffersFull(ps), NEW d \in Dir, NEW status, NEW rest,
           ContinueStatusInternal(d, status, rest)
    PROVE  BuffersFull(ps')
<1> DEFINE q == HandleGolangStatus(ps[d], status)
<1>0. ps \in [Dir -> Processor]
  BY DEF TypeOK
<1>1. q \in Processor /\ FullIfDisabled(q)
  BY <1>0, HandleTypes, AnswersKeepFull DEF BuffersFull
<1>2. ContinueDoData(d, q) \/ ps' = [ps EXCEPT ![d] = q]
  BY DEF ContinueStatusInternal
<1> HIDE DEF q
<1> QED  BY <1>0, <1>1, <1>2, ContinueDoDataKeepsFull, ReplaceKeepsFull DEF BuffersFull

LEMMA GoReturnKeepsFull ==
    ASSUME TypeOK, BuffersFull(ps), GoReturn
    PROVE  BuffersFull(ps')
<1>0. ps \in [Dir -> Processor]
  BY DEF TypeOK
<1>1. PICK call \in go, status \in GolangStatus :
           \/ HeadersReturn(call, status)
           \/ DataReturn(call, status)
           \/ TrailerReturn(call, status)
           \/ TrailerDataReturn(call, status)
           \/ ResumeDataReturn(call, status)
           \/ ResumeTrailerReturn(call, status)
           \/ LocalReplyHeadersReturn(call, status)
  BY DEF GoReturn
<1> DEFINE d == call.dir
           h == HandleHeaderGolangStatus(ps[d], status)
           p == HandleDataGolangStatus(ps[d], status)
           t == HandleTrailerGolangStatus(ps[d], status)
<1>2. d \in Dir
  BY DEF TypeOK, Call
<1>3. /\ h \in Processor /\ p \in Processor /\ t \in Processor
      /\ FullIfDisabled(h) /\ FullIfDisabled(p) /\ FullIfDisabled(t)
  BY <1>0, <1>2, HandleTypes, AnswersKeepFull DEF BuffersFull
<1>4. FullIfDisabled(ClearAll(p))
  BY <1>3, OperationsKeepFull
<1>5. \/ ps' = [ps EXCEPT ![d] = h]
      \/ ps' = [ps EXCEPT ![d] = p]
      \/ ps' = [ps EXCEPT ![d] = t]
      \/ ps' = [ps EXCEPT ![d] = ClearAll(p)]
      \/ ContinueDoData(d, p)
      \/ ContinueStatusInternal(d, status, Tail(stack))
  <2>1. HeadersReturn(call, status) => ps' = [ps EXCEPT ![d] = h]
    BY DEF HeadersReturn
  <2>2. DataReturn(call, status) =>
            ps' = [ps EXCEPT ![d] = p] \/ ps' = [ps EXCEPT ![d] = ClearAll(p)]
    BY DEF DataReturn
  <2>3. TrailerReturn(call, status) => ps' = [ps EXCEPT ![d] = t]
    BY DEF TrailerReturn
  <2>4. TrailerDataReturn(call, status) => ps' = [ps EXCEPT ![d] = p]
    BY DEF TrailerDataReturn
  <2>5. ResumeDataReturn(call, status) => ps' = [ps EXCEPT ![d] = p] \/ ContinueDoData(d, p)
    BY DEF ResumeDataReturn
  <2>6. ResumeTrailerReturn(call, status) => ps' = [ps EXCEPT ![d] = t]
    BY DEF ResumeTrailerReturn
  <2>7. LocalReplyHeadersReturn(call, status) => ContinueStatusInternal(d, status, Tail(stack))
    BY DEF LocalReplyHeadersReturn
  <2> QED  BY <1>1, <2>1, <2>2, <2>3, <2>4, <2>5, <2>6, <2>7
<1> HIDE DEF d, h, p, t
<1>6. ASSUME ContinueDoData(d, p) \/ ContinueStatusInternal(d, status, Tail(stack))
      PROVE  BuffersFull(ps')
  BY <1>2, <1>3, <1>6, ContinueDoDataKeepsFull, ContinueStatusKeepsFull
<1> QED  BY <1>0, <1>2, <1>3, <1>4, <1>5, <1>6, ReplaceKeepsFull DEF BuffersFull

\* The worker goes on by itself, or with a posted callback.
LEMMA WorkerKeepsFull ==
    ASSUME TypeOK, BuffersFull(ps), WorkerStep
    PROVE  BuffersFull(ps')
<1>0. ps \in [Dir -> Processor]
  BY DEF TypeOK
<1> DEFINE d == Head(stack).dir
<1>1. ASSUME \/ BufferFullReturns \/ TrailerAfterData \/ ResumeData \/ ResumeTrailer
      PROVE  BuffersFull(ps')
  <2>1. d \in Dir
    BY <1>1, TopFrame DEF BufferFullReturns, TrailerAfterData, ResumeData, ResumeTrailer
  <2>2. ps[d] \in Processor /\ FullIfDisabled(ps[d])
    BY <1>0, <2>1 DEF BuffersFull
  <2>3. \/ ps' = ps
        \/ \E b, at, rest, data : DoDataGo(d, TakeBuffer(ps[d]), data, b, at, rest)
        \/ \E at, rest : DoTrailerGo(d, ps[d], at, rest)
    BY <1>1 DEF BufferFullReturns, TrailerAfterData, ResumeData, ResumeTrailer
  <2> HIDE DEF d
  <2> QED  BY <1>0, <2>1, <2>2, <2>3, GoCallsKeepFull DEF BuffersFull
<1>2. CASE TrailersForwarded
  BY <1>2 DEF TrailersForwarded, BuffersFull
<1>3. CASE LocalReply
  <2>1. \/ ps' = ps
        \/ \E rest : \E body \in BOOLEAN : EncodeHeaders(~body, rest)
    BY <1>3 DEF LocalReply
  <2> QED  BY <2>1, HeadersKeepFull DEF BuffersFull
<1>4. CASE LocalReplyBody
  <2>1. <<Chunk(1)>> \in Seq(Chunks)
    BY ItemTypes
  <2>2. EncodeData(<<Chunk(1)>>, TRUE, Tail(stack))
    BY <1>4 DEF LocalReplyBody
  <2> QED  BY <2>1, <2>2, BodyKeepsFull
<1> QED  BY <1>1, <1>2, <1>3, <1>4 DEF WorkerStep

LEMMA DispatchKeepsFull ==
    ASSUME TypeOK, BuffersFull(ps), Dispatch
    PROVE  BuffersFull(ps')
<1>0. "encode" \in Dir /\ Cur \in Dir /\ ps \in [Dir -> Processor]
  BY DEF Dir, Cur, TypeOK
<1> DEFINE p == ClearAll(TakeBuffer(ps[Cur]))
<1>1. /\ FullIfDisabled(ClearAll(ps[Cur])) /\ ClearAll(ps[Cur]) \in Processor
      /\ FullIfDisabled(p) /\ FullIfDisabled([p EXCEPT !.state = "WaitingHeader"])
  BY <1>0, OperationsKeepFull, ListTypes DEF BuffersFull
<1>2. CASE DropEvent
  BY <1>2 DEF DropEvent, BuffersFull
<1>3. CASE ContinueEncodeLocalReply
  <2>1. \E b : DoHeadersGo("encode", [ps EXCEPT ![Cur] = ClearAll(ps[Cur])], b,
                           "localReplyHeaders", <<>>)
    BY <1>3 DEF ContinueEncodeLocalReply
  <2>2. /\ [ps EXCEPT ![Cur] = ClearAll(ps[Cur])] \in [Dir -> Processor]
        /\ BuffersFull([ps EXCEPT ![Cur] = ClearAll(ps[Cur])])
    BY <1>0, <1>1, ReplaceKeepsFull DEF BuffersFull
  <2> QED  BY <1>0, <2>1, <2>2, GoCallsKeepFull DEF BuffersFull
<1>4. CASE ContinueEvent
  BY <1>0, <1>4, ContinueStatusKeepsFull DEF ContinueEvent
<1>5. CASE LocalReplyEvent
  <2>1. \/ ps' = [ps EXCEPT ![Cur] = [p EXCEPT !.state = "WaitingHeader"]]
        \/ ps' = [ps EXCEPT ![Cur] = p]
    BY <1>5 DEF LocalReplyEvent
  <2> HIDE DEF p
  <2> QED  BY <1>0, <1>1, <2>1, ReplaceKeepsFull DEF BuffersFull
<1> QED  BY <1>2, <1>3, <1>4, <1>5 DEF Dispatch

LEMMA NextKeepsFull ==
    ASSUME TypeOK, BuffersFull(ps), [Next]_vars
    PROVE  BuffersFull(ps')
<1>1. CASE Receive
  <2>1. ASSUME NEW e \in Dir, NEW data \in DataFrames(e)
        PROVE  data \in Seq(Chunks)
    <3>1. Len(fed[e]) \in Nat
      BY LenProperties DEF TypeOK
    <3>2. <<>> \in Seq(Chunks) /\ <<Chunk(Len(fed[e]))>> \in Seq(Chunks)
      BY <3>1, ItemTypes, EmptySeq
    <3> QED  BY <2>1, <3>2 DEF DataFrames
  <2> QED  BY <1>1, <2>1, HeadersKeepFull, BodyKeepsFull, TrailersKeepFull
              DEF Receive, ResponseHeaders, ResponseData, Dir
<1>2. CASE Goroutine
  BY <1>2 DEF Goroutine, Continue, SendLocalReply, GoAnswers, BuffersFull
<1>3. CASE OtherLocalReply
  BY <1>3 DEF OtherLocalReply, BuffersFull
<1>4. CASE Destroy
  BY <1>4 DEF Destroy, BuffersFull
<1>5. CASE UNCHANGED vars
  BY <1>5 DEF vars, BuffersFull
<1> QED  BY <1>1, <1>2, <1>3, <1>4, <1>5, GoReturnKeepsFull, WorkerKeepsFull, DispatchKeepsFull
            DEF Next

\* addBufferData, getBufferData and drainBufferData: reading is disabled only while the
\* private buffer is over its limit, so that emptying the buffer enables it again,
\* whatever the environment does.
THEOREM ReadingStopsWhenFull == Spec => []ReadingDisabledOnlyWhenFull
<1>1. Init => BuffersFull(ps)
  BY DEF Init, BuffersFull, FullIfDisabled, NewProcessor
<1>2. TypeOK /\ BuffersFull(ps) /\ [Next]_vars => BuffersFull(ps)'
  BY NextKeepsFull DEF BuffersFull
<1>3. BuffersFull(ps) => ReadingDisabledOnlyWhenFull
  BY ReadingDisabledMeaning
<1> QED  BY <1>1, <1>2, <1>3, TypeCorrect, PTL DEF Spec
-----------------------------------------------------------------------------
(* What a processor state says of its message                              *)

\* What lists and buffers do leaves the flags and the state alone.
LEMMA ListsKeepMarks ==
    ASSUME NEW p \in Processor, NEW msg
    PROVE  /\ \A q \in {ClearAll(p), TakeBuffer(p), ClearAll(TakeBuffer(p)), ClearLatest(p)} :
                 /\ q \in Processor
                 /\ q.state = p.state /\ q.doEndStream = p.doEndStream /\ q.endStream = p.endStream
                 /\ q.seenTrailers = p.seenTrailers /\ q.hasBuffer = p.hasBuffer
                 /\ q.dataBuffer \in {<<>>, p.dataBuffer}
                 /\ Flags(p, msg) => Flags(q, msg)
                 /\ Sound(p) => Sound(q)
<1>1. /\ ClearAll(p) \in Processor /\ TakeBuffer(p) \in Processor /\ ClearLatest(p) \in Processor
      /\ ClearAll(TakeBuffer(p)) \in Processor
  BY ListTypes
<1>2. ASSUME NEW q \in {ClearAll(p), TakeBuffer(p), ClearAll(TakeBuffer(p)), ClearLatest(p)}
      PROVE  /\ q.state = p.state /\ q.doEndStream = p.doEndStream /\ q.endStream = p.endStream
             /\ q.seenTrailers = p.seenTrailers /\ q.hasBuffer = p.hasBuffer
             /\ q.dataBuffer \in {<<>>, p.dataBuffer}
  BY <1>2 DEF ClearAll, TakeBuffer, ClearLatest, Processor
<1> QED  BY <1>1, <1>2 DEF Flags, Sound

\* Entering Go: it is told the end of the stream, or there is a buffer to tell it
\* with later.
LEMMA EnteringKeepsMarks ==
    ASSUME NEW p \in Processor, NEW msg, Flags(p, msg), p.dataBuffer # <<>> => p.hasBuffer,
           NEW b \in BOOLEAN, b => p.endStream, p.endStream => b \/ p.hasBuffer
    PROVE  /\ LET q == ProcessHeader(p, b)
              IN  /\ Flags(q, msg) /\ Sound(q) /\ q.doEndStream = b
                  /\ q.state = "ProcessingHeader" /\ q.seenTrailers = p.seenTrailers
           /\ \A data : LET q == Push(ProcessData(p, b), data)
                        IN  /\ Flags(q, msg) /\ Sound(q) /\ q.doEndStream = b
                            /\ q.state = "ProcessingData" /\ q.seenTrailers = p.seenTrailers
<1>1. LET q == ProcessHeader(p, b)
      IN  /\ q.state = "ProcessingHeader" /\ q.doEndStream = b /\ q.endStream = p.endStream
          /\ q.seenTrailers = p.seenTrailers /\ q.hasBuffer = p.hasBuffer
          /\ q.dataBuffer = p.dataBuffer
  BY DEF ProcessHeader, Processor
<1>2. ASSUME NEW data
      PROVE  LET q == Push(ProcessData(p, b), data)
             IN  /\ q.state = "ProcessingData" /\ q.doEndStream = b /\ q.endStream = p.endStream
                 /\ q.seenTrailers = p.seenTrailers /\ q.hasBuffer = p.hasBuffer
                 /\ q.dataBuffer = p.dataBuffer
  BY DEF ProcessData, Push, Processor
<1>3. LET q == ProcessHeader(p, b) IN Flags(q, msg) /\ Sound(q)
  BY <1>1 DEF Flags, Sound
<1>4. ASSUME NEW data
      PROVE  LET q == Push(ProcessData(p, b), data) IN Flags(q, msg) /\ Sound(q)
  BY <1>2 DEF Flags, Sound
<1> QED  BY <1>1, <1>2, <1>3, <1>4

LEMMA TrailersKeepMarks ==
    ASSUME NEW p \in Processor, NEW msg, Flags(p, msg), p.dataBuffer # <<>> => p.hasBuffer,
           p.seenTrailers
    PROVE  LET q == ProcessTrailer(p)
           IN  /\ Flags(q, msg) /\ Sound(q) /\ q.doEndStream = TRUE
               /\ q.state = "ProcessingTrailer" /\ q.seenTrailers
<1> DEFINE q == ProcessTrailer(p)
<1>1. /\ q.state = "ProcessingTrailer" /\ q.doEndStream = TRUE /\ q.endStream = p.endStream
      /\ q.seenTrailers = p.seenTrailers /\ q.hasBuffer = p.hasBuffer /\ q.dataBuffer = p.dataBuffer
  BY DEF ProcessTrailer, Processor
<1> HIDE DEF q
<1>2. Flags(q, msg) /\ Sound(q)
  BY <1>1 DEF Flags, Sound
<1> QED  BY <1>1, <1>2 DEF q

\* A stream that ended did not end with trailers, too.
LEMMA EndIsNotTrailers ==
    ASSUME NEW p, NEW msg, Flags(p, msg)
    PROVE  ~(p.endStream /\ p.seenTrailers)
BY DEF Flags, End, Trl

\* What Go answered: the state leaves Go, for Done if Go knew of the end.
LEMMA AnswersKeepMarks ==
    ASSUME NEW p \in Processor, NEW msg, Flags(p, msg), Sound(p),
           NEW call \in Call, p.state = Processing(call.kind), call.end = p.doEndStream,
           ~call.refused, NEW status \in Allowed(call),
           NEW q, q = HandleGolangStatus(p, status)
    PROVE  /\ q \in Processor /\ Flags(q, msg) /\ Sound(q)
           /\ q.doEndStream = p.doEndStream /\ q.endStream = p.endStream
           /\ q.seenTrailers = p.seenTrailers
           /\ status = "Continue" => ~InGo(q) /\ (p.doEndStream => q.state = "Done")
           /\ InGo(q) => q.state = p.state
<1>0. q \in Processor
  BY HandleTypes
<1>1. ~(p.endStream /\ p.seenTrailers)
  BY EndIsNotTrailers
<1>2. status \in GolangStatus
  BY EnvironmentAssumption DEF Allowed
<1>3. call.end => status \notin {"StopAndBuffer", "StopAndBufferWatermark", "StopNoBuffer"}
  <2>1. call.end => Allowed(call) = Answers \ {"StopAndBuffer", "StopAndBufferWatermark", "StopNoBuffer"}
    BY DEF Allowed, Call
  <2> QED  BY <2>1
<1>4. CASE p.state = "ProcessingHeader"
  <2>1. q = HandleHeaderGolangStatus(p, status)
    BY <1>4 DEF HandleGolangStatus
  <2>2. /\ q.doEndStream = p.doEndStream /\ q.endStream = p.endStream /\ q.seenTrailers = p.seenTrailers
        /\ q.hasBuffer = p.hasBuffer /\ q.dataBuffer = p.dataBuffer
    BY <2>1 DEF HandleHeaderGolangStatus, Processor
  <2>3. q.state = CASE status = "Continue"               -> AfterContinue(p)
                    [] status = "StopAndBuffer"          -> "WaitingAllData"
                    [] status = "StopAndBufferWatermark" -> "WaitingData"
                    [] OTHER                             -> p.state
    BY <2>1 DEF HandleHeaderGolangStatus, Processor
  <2>4. Flags(q, msg)
    BY <2>2 DEF Flags
  <2>5. /\ q.state \in {"Done", "WaitingData", "WaitingAllData", "ProcessingHeader"}
        /\ p.doEndStream => q.state \in {"Done", "ProcessingHeader"}
        /\ status = "Continue" => q.state # "ProcessingHeader"
    BY <1>3, <1>4, <2>3 DEF AfterContinue
  <2>6. Sound(q)
    BY <1>4, <2>2, <2>5 DEF Sound
  <2> QED  BY <1>0, <1>4, <2>2, <2>4, <2>5, <2>6 DEF InGo
<1>5. CASE p.state = "ProcessingData"
  <2>1. q = HandleDataGolangStatus(p, status)
    BY <1>5 DEF HandleGolangStatus
  <2>2. /\ q.doEndStream = p.doEndStream /\ q.endStream = p.endStream /\ q.seenTrailers = p.seenTrailers
        /\ q.hasBuffer = p.hasBuffer /\ q.dataBuffer = p.dataBuffer
    BY <2>1 DEF HandleDataGolangStatus, ClearLatest, Processor
  <2>3. q.state = IF status \in {"Running", "LocalReply"} THEN p.state
                  ELSE IF p.seenTrailers /\ p.dataBuffer = <<>> THEN "WaitingTrailer"
                  ELSE CASE status = "Continue"      -> AfterContinue(p)
                         [] status = "StopAndBuffer" -> "WaitingAllData"
                         [] OTHER                    -> "WaitingData"
    BY <2>1 DEF HandleDataGolangStatus, ClearLatest, Processor
  <2>4. Flags(q, msg)
    BY <2>2 DEF Flags
  <2>5. /\ q.state \in {"Done", "WaitingData", "WaitingAllData", "WaitingTrailer", "ProcessingData"}
        /\ q.state = "WaitingTrailer" => p.seenTrailers
        /\ p.doEndStream => q.state \in {"Done", "ProcessingData", "WaitingTrailer"}
        /\ status = "Continue" => q.state # "ProcessingData"
    <3>1. p.doEndStream => status \in {"Continue", "Running", "LocalReply"}
      BY <1>2, <1>3 DEF GolangStatus
    <3> QED  BY <1>5, <2>3, <3>1 DEF AfterContinue
  <2>6. p.doEndStream => ~p.seenTrailers
    BY <1>1, <1>5 DEF Sound
  <2>7. Sound(q)
    BY <1>5, <2>2, <2>5, <2>6 DEF Sound
  <2> QED  BY <1>0, <1>5, <2>2, <2>4, <2>5, <2>6, <2>7 DEF InGo
<1>6. CASE p.state = "ProcessingTrailer"
  <2>1. q = HandleTrailerGolangStatus(p, status)
    BY <1>6 DEF HandleGolangStatus
  <2>2. /\ q.doEndStream = p.doEndStream /\ q.endStream = p.endStream /\ q.seenTrailers = p.seenTrailers
        /\ q.hasBuffer = p.hasBuffer /\ q.dataBuffer = p.dataBuffer
        /\ q.state = IF status = "Continue" THEN "Done" ELSE p.state
    BY <2>1 DEF HandleTrailerGolangStatus, Processor
  <2>3. Flags(q, msg)
    BY <2>2 DEF Flags
  <2>4. Sound(q)
    BY <1>6, <2>2 DEF Sound
  <2> QED  BY <1>0, <1>6, <2>2, <2>3, <2>4 DEF InGo
<1> QED  BY <1>4, <1>5, <1>6 DEF Call, Kind, Processing
\* How a message ends after more of it came in.
LEMMA LastOfMore ==
    ASSUME NEW msg \in Seq(Item), NEW more \in Seq(Item), more # <<>>
    PROVE  msg \o more # <<>> /\ Last(msg \o more) = Last(more)
<1>1. /\ Len(msg \o more) = Len(msg) + Len(more) /\ Len(msg) \in Nat /\ Len(more) \in Nat \ {0}
      /\ msg \o more \in Seq(Item)
  BY ConcatProperties, EmptySeq
<1>2. (msg \o more)[Len(msg) + Len(more)] = more[Len(more)]
  BY <1>1
<1>3. msg \o more # <<>>
  BY <1>1
<1> QED  BY <1>1, <1>2, <1>3 DEF Last

NoEnd(data) == \A i \in DOMAIN data : data[i] \notin {End, Trl}

LEMMA LastOfFrame ==
    ASSUME NEW data \in Seq(Item), NoEnd(data),
           NEW b \in BOOLEAN, data \o EndIf(b) # <<>>
    PROVE  /\ data \o EndIf(b) \in Seq(Item)
           /\ Last(data \o EndIf(b)) = End <=> b
           /\ Last(data \o EndIf(b)) # Trl
<1>1. data \o EndIf(b) \in Seq(Item) /\ EndIf(b) \in Seq(Item) /\ End # Trl
  BY ItemTypes, ConcatProperties DEF End, Trl
<1>2. CASE b
  <2>1. EndIf(b) = <<End>> /\ Last(<<End>>) = End
    BY <1>2 DEF EndIf, Last
  <2>2. Last(data \o <<End>>) = Last(<<End>>)
    BY <1>1, <2>1, LastOfMore
  <2> QED  BY <1>1, <1>2, <2>1, <2>2
<1>3. CASE ~b
  <2>1. data \o EndIf(b) = data
    BY <1>3, ConcatEmptySeq DEF EndIf
  <2>2. data # <<>> /\ Len(data) \in DOMAIN data
    <3>1. Len(data) \in Nat \ {0} /\ DOMAIN data = 1 .. Len(data)
      BY <2>1, EmptySeq
    <3> QED  BY <2>1, <3>1
  <2> QED  BY <1>1, <1>3, <2>1, <2>2 DEF Last, NoEnd
<1> QED  BY <1>2, <1>3

\* The mark of the end is neither headers nor data.
LEMMA FrameItems ==
    /\ <<Hdr>> \in Seq(Item) /\ NoEnd(<<Hdr>>)
    /\ \A data \in Seq(Chunks) : data \in Seq(Item) /\ NoEnd(data)
<1>1. End \notin Chunks /\ Trl \notin Chunks /\ Hdr # End /\ Hdr # Trl
  BY DEF End, Trl, Chunks, Hdr
<1>2. \A data \in Seq(Chunks) : \A i \in DOMAIN data : data[i] \in Chunks
  BY ElementOfSeq
<1>3. <<Hdr>> \in Seq(Item) /\ DOMAIN <<Hdr>> = {1} /\ <<Hdr>>[1] = Hdr
  BY ItemTypes
<1> QED  BY <1>1, <1>2, <1>3, DataIsItems DEF NoEnd

\* More of the message came in, as a frame of headers or data.
LEMMA FrameKeepsFlags ==
    ASSUME NEW p \in Processor, NEW msg \in Seq(Item), Flags(p, msg), ~Ended(msg),
           NEW data \in Seq(Item), NoEnd(data), NEW b \in BOOLEAN, data \o EndIf(b) # <<>>,
           NEW q, q = [p EXCEPT !.endStream = b]
    PROVE  /\ ~p.endStream /\ ~p.seenTrailers
           /\ q \in Processor /\ Flags(q, msg \o (data \o EndIf(b)))
           /\ q.endStream = b /\ ~q.seenTrailers
           /\ q.state = p.state /\ q.doEndStream = p.doEndStream
           /\ q.hasBuffer = p.hasBuffer /\ q.dataBuffer = p.dataBuffer
<1> DEFINE more == data \o EndIf(b)
<1>1. ~p.endStream /\ ~p.seenTrailers
  BY DEF Flags, Ended
<1>2. /\ q \in Processor /\ q.endStream = b /\ q.seenTrailers = p.seenTrailers /\ q.state = p.state
      /\ q.doEndStream = p.doEndStream /\ q.hasBuffer = p.hasBuffer /\ q.dataBuffer = p.dataBuffer
  BY DEF Processor
<1>3. msg \o more # <<>> /\ Last(msg \o more) = Last(more)
  BY LastOfFrame, LastOfMore
<1>4. (Last(more) = End <=> b) /\ Last(more) # Trl
  BY LastOfFrame
<1> HIDE DEF more
<1>5. Flags(q, msg \o more)
  BY <1>1, <1>2, <1>3, <1>4 DEF Flags
<1> QED  BY <1>1, <1>2, <1>5 DEF more

\* The trailers came in.
LEMMA SeeingTrailersKeepsMarks ==
    ASSUME NEW p \in Processor, NEW msg \in Seq(Item), Flags(p, msg), Sound(p), ~Ended(msg)
    PROVE  LET q == [p EXCEPT !.seenTrailers = TRUE]
           IN  /\ q \in Processor /\ Flags(q, msg \o <<Trl>>) /\ Sound(q)
               /\ ~q.endStream /\ q.seenTrailers
               /\ q.state = p.state /\ q.doEndStream = p.doEndStream
               /\ q.hasBuffer = p.hasBuffer /\ q.dataBuffer = p.dataBuffer
<1> DEFINE q == [p EXCEPT !.seenTrailers = TRUE]
<1>1. ~p.endStream /\ ~p.seenTrailers
  BY DEF Flags, Ended
<1>2. /\ q \in Processor /\ q.endStream = p.endStream /\ q.seenTrailers /\ q.state = p.state
      /\ q.doEndStream = p.doEndStream /\ q.hasBuffer = p.hasBuffer /\ q.dataBuffer = p.dataBuffer
  BY DEF Processor
<1>3. msg \o <<Trl>> # <<>> /\ Last(msg \o <<Trl>>) = Trl /\ Trl # End
  <2>1. <<Trl>> \in Seq(Item) /\ <<Trl>> # <<>> /\ Last(<<Trl>>) = Trl
    BY ItemTypes DEF Last
  <2> QED  BY <2>1, LastOfMore DEF Trl, End
<1> HIDE DEF q
<1>4. Flags(q, msg \o <<Trl>>)
  BY <1>1, <1>2, <1>3 DEF Flags
<1>5. Sound(q)
  BY <1>1, <1>2 DEF Sound
<1> QED  BY <1>1, <1>2, <1>4, <1>5 DEF q

\* Data that Go does not get yet stays in the buffer, or the message is over for Go.
LEMMA BufferingKeepsMarks ==
    ASSUME NEW p \in Processor, NEW msg, Flags(p, msg), NEW data \in Seq(Chunks)
    PROVE  LET q == AddBufferData(p, data, Limit)
           IN  /\ q \in Processor /\ Flags(q, msg) /\ q.hasBuffer
               /\ q.endStream = p.endStream /\ q.seenTrailers = p.seenTrailers
               /\ q.state = p.state /\ q.doEndStream = p.doEndStream
<1> DEFINE q == AddBufferData(p, data, Limit)
<1>1. q \in Processor
  BY AddBufferDataType
<1>2. /\ q.endStream = p.endStream /\ q.seenTrailers = p.seenTrailers /\ q.state = p.state
      /\ q.doEndStream = p.doEndStream /\ q.hasBuffer
  BY DEF AddBufferData, Processor
<1> HIDE DEF q
<1>3. Flags(q, msg)
  BY <1>2 DEF Flags
<1> QED  BY <1>1, <1>2, <1>3 DEF q
-----------------------------------------------------------------------------
(* Steps of the stream, by what they do to Go                              *)

\* What is passed on is added to what was.
LEMMA PassedItems ==
    ASSUME TypeOK, NEW d \in Dir, NEW items \in Seq(Item)
    PROVE  /\ \A e \in Dir : e # d => Passed(d, items)[e] = out[e]
           /\ {End, Trl} \cap ToSet(Passed(d, items)[d])
                 \subseteq ({End, Trl} \cap ToSet(out[d])) \cup ({End, Trl} \cap ToSet(items))
<1> DEFINE held == IF out[d] = <<>> THEN <<Hdr>> ELSE <<>>
<1>1. out \in [Dir -> Seq(Item)] /\ held \in Seq(Item)
  BY ItemTypes DEF TypeOK
<1>2. ASSUME NEW s \in Seq(Item), NEW t \in Seq(Item)
      PROVE  ToSet(s \o t) \subseteq ToSet(s) \cup ToSet(t)
  <2>1. ASSUME NEW i \in DOMAIN (s \o t)
        PROVE  (s \o t)[i] \in ToSet(s) \cup ToSet(t)
    <3>1. /\ Len(s \o t) = Len(s) + Len(t) /\ i \in 1 .. Len(s) + Len(t)
          /\ Len(s) \in Nat /\ Len(t) \in Nat
      BY ConcatProperties
    <3>2. CASE i <= Len(s)
      <4>1. (s \o t)[i] = s[i] /\ i \in DOMAIN s
        BY <3>1, <3>2
      <4> QED  BY <4>1 DEF ToSet
    <3>3. CASE i > Len(s)
      <4>1. (s \o t)[i] = t[i - Len(s)] /\ i - Len(s) \in DOMAIN t
        BY <3>1, <3>3
      <4> QED  BY <4>1 DEF ToSet
    <3> QED  BY <3>1, <3>2, <3>3
  <2> QED  BY <2>1 DEF ToSet
<1>3. {End, Trl} \cap ToSet(held) = {}
  <2>1. ToSet(held) \subseteq {Hdr}
    BY DEF ToSet
  <2> QED  BY <2>1 DEF End, Trl, Hdr
<1>4. CASE ~Open(d)
  BY <1>4 DEF Passed
<1>5. CASE Open(d)
  <2>1. Passed(d, items) = [out EXCEPT ![d] = out[d] \o held \o items]
    BY <1>5 DEF Passed
  <2>2. /\ Passed(d, items)[d] = (out[d] \o held) \o items
        /\ \A e \in Dir : e # d => Passed(d, items)[e] = out[e]
    <3> HIDE DEF held
    <3> QED  BY <1>1, <2>1
  <2>3. out[d] \in Seq(Item) /\ out[d] \o held \in Seq(Item)
    BY <1>1, ConcatProperties
  <2>4. ToSet(Passed(d, items)[d]) \subseteq (ToSet(out[d]) \cup ToSet(held)) \cup ToSet(items)
    <3> HIDE DEF held
    <3>1. ToSet((out[d] \o held) \o items) \subseteq ToSet(out[d] \o held) \cup ToSet(items)
      BY <1>2, <2>3
    <3>2. ToSet(out[d] \o held) \subseteq ToSet(out[d]) \cup ToSet(held)
      BY <1>1, <1>2, <2>3
    <3> QED  BY <2>2, <3>1, <3>2
  <2> QED  BY <1>3, <2>2, <2>4
<1> QED  BY <1>4, <1>5

\* The worker enters Go, for a message of which no end was passed on.
LEMMA EnteringKeepsEnd ==
    ASSUME EndInv, dynamicLib, ~hasDestroyed, ~closed, go = {}, posted' = <<>>,
           NEW d \in Dir, Cur' = d, NEW kind \in Kind, NEW b \in BOOLEAN, NEW items,
           NEW at \in GoFrames, NEW rest, CallGo(d, kind, b, items, at, rest), calls \in Nat,
           MarksFit', TrailersReached',
           ps'[d].state = Processing(kind), ps'[d].doEndStream = b,
           UNCHANGED <<out, hasDestroyed, closed, reason, dynamicLib>>,
           {End, Trl} \cap ToSet(out[d]) = {},
           kind = "headers" => headers' = d /\ out[d] = <<>>,
           ~enterEncoding' => ~enterEncoding /\ ps'["encode"].state = ps["encode"].state,
           fed'["decode"] = <<>> => fed["decode"] = <<>>
    PROVE  EndInv' /\ crashed' = crashed
<1>0. go' = {[id |-> calls, dir |-> d, kind |-> kind, end |-> b, sync |-> TRUE, refused |-> paniced]}
  BY DEF CallGo
<1>1. EndsFit'
  <2>1. Unanswered' = {[id |-> calls, dir |-> d, kind |-> kind, end |-> b,
                        sync |-> TRUE, refused |-> paniced]}
    BY <1>0 DEF Unanswered
  <2> QED  BY <2>1 DEF EndsFit
<1>2. Started'
  BY DEF EndInv, Started, CallGo
<1>3. HeadersHeldBack'
  BY ProcessingIsInGo DEF HeadersHeldBack
<1>4. EndIsDone'
  <2>1. Head(stack').at = at /\ at # "forwardedTrailerData"
    BY DEF CallGo, At, GoFrames
  <2> QED  BY <2>1 DEF EndIsDone
<1>5. NothingAfterEnd'
  BY DEF EndInv, NothingAfterEnd
<1> QED  BY <1>1, <1>2, <1>3, <1>4, <1>5 DEF EndInv, CallGo

\* Go is called again for the message it was called for before.
LEMMA ReenteringKeepsEnd ==
    ASSUME SerialInv, EndInv, dynamicLib, ~hasDestroyed, ~closed,
           NEW d \in Dir, Cur = d, ps[d].state \notin {"Done"}, ~InGo(ps[d]),
           NEW kind \in {"data", "trailers"}, NEW b \in BOOLEAN, NEW items,
           NEW at \in GoFrames, NEW rest, CallGo(d, kind, b, items, at, rest),
           MarksFit', TrailersReached',
           ps'[d].state = Processing(kind), ps'[d].doEndStream = b,
           \A e \in Dir : e # d => ps'[e].state = ps[e].state,
           UNCHANGED <<posted, enterEncoding, out, hasDestroyed, closed, reason, dynamicLib>>,
           fed'["decode"] = <<>> => fed["decode"] = <<>>
    PROVE  EndInv' /\ crashed' = crashed
<1>1. go = {} /\ posted' = <<>> /\ Cur' = d /\ calls \in Nat
  BY Idle DEF SerialInv, Cur, TypeOK
<1>2. {End, Trl} \cap ToSet(out[d]) = {}
  BY DEF EndInv, EndIsDone
<1>3. ~enterEncoding' => ~enterEncoding /\ ps'["encode"].state = ps["encode"].state
  BY DEF Cur, Dir
<1> QED  BY <1>1, <1>2, <1>3, EnteringKeepsEnd DEF Kind

\* The worker keeps what came in, without calling Go.
LEMMA KeepingKeepsEnd ==
    ASSUME EndInv, dynamicLib, ~hasDestroyed, ~closed, calls > 0,
           \A e \in Dir : ps'[e].state = ps[e].state /\ ps'[e].doEndStream = ps[e].doEndStream,
           MarksFit', TrailersReached',
           UNCHANGED <<go, posted, out, headers, hasDestroyed, closed, reason, enterEncoding,
                       dynamicLib, calls>>,
           stack' # <<>> => Head(stack').at # "forwardedTrailerData",
           fed'["decode"] = <<>> => fed["decode"] = <<>>
    PROVE  EndInv'
<1>0. Cur' = Cur /\ Cur \in Dir /\ Unanswered' = Unanswered
  BY DEF Cur, Dir, Unanswered
<1>1. EndsFit' /\ Started' /\ HeadersHeldBack' /\ "encode" \in Dir
  BY <1>0 DEF Dir, EndInv, EndsFit, Started, HeadersHeldBack
<1>2. EndIsDone'
  BY <1>0 DEF EndInv, EndIsDone
<1>3. NothingAfterEnd'
  BY DEF EndInv, NothingAfterEnd
<1> QED  BY <1>1, <1>2, <1>3 DEF EndInv

\* Go answered: what it is done with is passed on, and the end only with all of it.
LEMMA AnsweringKeepsEnd ==
    ASSUME SerialInv, EndInv, dynamicLib, ~hasDestroyed, ~closed,
           NEW call \in Unanswered, call \in Call, NEW status \in Allowed(call),
           NEW q, q = HandleGolangStatus(ps[Cur], status),
           NEW n, n = q \/ n = ClearAll(q), ps' = [ps EXCEPT ![Cur] = n],
           \A c \in Unanswered' : c.end = call.end,
           UNCHANGED <<fed, enterEncoding, localReplyWaitingGo, localTrailers, trailers,
                       hasDestroyed, closed, reason, dynamicLib, calls>>,
           NEW items \in Seq(Item), out' = out \/ (status = "Continue" /\ out' = Passed(Cur, items)),
           {End, Trl} \cap ToSet(items) # {} => q.state = "Done",
           headers' = headers \/ status = "Continue",
           stack' # <<>> /\ Head(stack').at = "forwardedTrailerData" => q.state = "Done"
    PROVE  EndInv'
<1>0. /\ Cur' = Cur /\ Cur \in Dir /\ ps \in [Dir -> Processor] /\ ps[Cur] \in Processor
      /\ fed \in [Dir -> Seq(Item)] /\ fed[Cur] \in Seq(Item)
  BY DEF Cur, Dir, SerialInv, TypeOK
<1>1. /\ ps[Cur].state = Processing(call.kind) /\ ~call.refused /\ call.end = ps[Cur].doEndStream
      /\ Flags(ps[Cur], fed[Cur]) /\ Sound(ps[Cur]) /\ call.kind \in Kind
  BY <1>0 DEF SerialInv, CallsInv, CallsFit, EndInv, EndsFit, MarksFit, Call
<1>2. /\ q \in Processor /\ Flags(q, fed[Cur]) /\ Sound(q)
      /\ q.doEndStream = ps[Cur].doEndStream /\ q.seenTrailers = ps[Cur].seenTrailers
      /\ status = "Continue" => ~InGo(q)
      /\ InGo(q) => q.state = ps[Cur].state
  BY <1>0, <1>1, AnswersKeepMarks
<1>3. /\ Flags(n, fed[Cur]) /\ Sound(n)
      /\ n.state = q.state /\ n.doEndStream = q.doEndStream /\ n.seenTrailers = q.seenTrailers
  <2>1. CASE n = q
    BY <1>2, <2>1
  <2>2. CASE n = ClearAll(q)
    BY <1>2, <2>2, ListsKeepMarks
  <2> QED  BY <2>1, <2>2
<1>4. ps'[Cur] = n /\ \A e \in Dir : e # Cur => ps'[e] = ps[e]
  BY <1>0
<1>5. MarksFit'
  BY <1>0, <1>2, <1>3, <1>4 DEF EndInv, MarksFit
<1>6. EndsFit'
  BY <1>0, <1>1, <1>2, <1>3, <1>4 DEF EndsFit
<1>7. \A e \in Dir : e # Cur => out'[e] = out[e]
  BY <1>0, PassedItems DEF SerialInv
<1>8. Started'
  <2>1. fed["decode"] # <<>> \/ Cur = "encode"
    <3>1. InGo(ps[Cur])
      BY <1>1, ProcessingIsInGo
    <3> QED  BY <3>1 DEF SerialInv, FlowInv, StreamOrder, Cur, InGo
  <2>2. ~enterEncoding' => out'["encode"] = out["encode"]
    BY <1>0, <1>7 DEF Cur, Dir
  <2>3. Cur = "encode" => out'["decode"] = out["decode"]
    BY <1>0, <1>7 DEF Dir
  <2>4. ~enterEncoding' => ps'["encode"] = ps["encode"]
    BY <1>0, <1>4 DEF Cur, Dir
  <2> QED  BY <2>1, <2>2, <2>3, <2>4 DEF EndInv, Started
<1>9. HeadersHeldBack'
  <2>1. CASE status = "Continue"
    BY <1>0, <1>2, <1>3, <1>4, <2>1 DEF HeadersHeldBack, InGo
  <2>2. CASE status # "Continue"
    BY <1>0, <1>2, <1>3, <1>4, <2>2 DEF EndInv, HeadersHeldBack, InGo
  <2> QED  BY <2>1, <2>2
<1>10. TrailersReached'
  <2>1. \A e \in Dir : ps'[e].seenTrailers = ps[e].seenTrailers
    BY <1>2, <1>3, <1>4
  <2> QED  BY <1>0, <2>1 DEF EndInv, TrailersReached, Dir
<1>11. EndIsDone'
  <2>1. {End, Trl} \cap ToSet(out[Cur]) = {}
    <3>1. ps[Cur].state # "Done"
      BY <1>1, ProcessingIsInGo
    <3> QED  BY <3>1 DEF EndInv, EndIsDone
  <2>2. {End, Trl} \cap ToSet(out'[Cur]) \subseteq {End, Trl} \cap ToSet(items)
    <3>1. CASE out' = out
      BY <2>1, <3>1
    <3>2. CASE out' = Passed(Cur, items)
      BY <1>0, <2>1, <3>2, PassedItems DEF SerialInv
    <3> QED  BY <3>1, <3>2
  <2> QED  BY <1>0, <1>3, <1>4, <2>2 DEF EndIsDone
<1>12. NothingAfterEnd'
  BY DEF EndInv, NothingAfterEnd
<1> QED  BY <1>5, <1>6, <1>8, <1>9, <1>10, <1>11, <1>12 DEF EndInv
\* One message grows and one processor state changes.
LEMMA OneMark ==
    ASSUME TypeOK, MarksFit, NEW d \in Dir, NEW p, ps' = [ps EXCEPT ![d] = p],
           \A e \in Dir : e # d => fed'[e] = fed[e],
           Flags(p, fed'[d]), Sound(p), p.seenTrailers => d \in WithTrailers
    PROVE  /\ MarksFit' /\ ps'[d] = p
           /\ \A e \in Dir : e # d => ps'[e] = ps[e]
<1>1. ps'[d] = p /\ \A e \in Dir : e # d => ps'[e] = ps[e]
  BY DEF TypeOK
<1> QED  BY <1>1 DEF MarksFit

\* The trailers are where they were.
LEMMA TrailersStay ==
    ASSUME TrailersReached, \A e \in Dir : ps'[e].seenTrailers <=> ps[e].seenTrailers,
           UNCHANGED <<trailers, localTrailers, localReplyWaitingGo, enterEncoding>>
    PROVE  TrailersReached'
BY DEF TrailersReached, Cur, Dir

\* A data frame is given to Go or kept.
LEMMA DoDataEnd ==
    ASSUME Calm, SerialInv, EndInv, NEW d \in Dir, NEW data \in Seq(Chunks), NEW endStream \in BOOLEAN,
           dynamicLib, Cur = d, fed[d] # <<>>, ~Ended(fed[d]), ~hasDestroyed, ~closed,
           data \o EndIf(endStream) # <<>>,
           data = <<>> \/ (Len(data) = 1 /\ (Len(fed[d]) <= MaxChunks \/ fed[d] = <<Hdr>>)),
           Feed(d, data \o EndIf(endStream)),
           DoData(d, data, endStream, <<>>),
           UNCHANGED <<filterVars, posted, out, dropped>>
    PROVE  EndInv' /\ crashed' = crashed
<1> DEFINE p == [ps[d] EXCEPT !.endStream = endStream]
           q == AddBufferData(p, data, Limit)
<1>0. /\ TypeOK /\ MarksFit /\ ps[d] \in Processor /\ fed[d] \in Seq(Item)
      /\ Flags(ps[d], fed[d]) /\ Sound(ps[d])
      /\ data \in Seq(Item) /\ NoEnd(data)
  BY FrameItems DEF SerialInv, TypeOK, EndInv, MarksFit
<1>1. /\ fed'[d] = fed[d] \o (data \o EndIf(endStream))
      /\ \A e \in Dir : e # d => fed'[e] = fed[e]
      /\ \A e \in Dir : fed[e] # <<>> => fed'[e] # <<>>
      /\ "decode" \in Dir
  BY <1>0, LastOfFrame, FedGrows DEF Dir
<1>2. /\ ~ps[d].endStream /\ ~ps[d].seenTrailers
      /\ p \in Processor /\ Flags(p, fed'[d]) /\ p.endStream = endStream /\ ~p.seenTrailers
      /\ p.state = ps[d].state /\ p.doEndStream = ps[d].doEndStream
      /\ p.hasBuffer = ps[d].hasBuffer /\ p.dataBuffer = ps[d].dataBuffer
  <2>1. /\ ~ps[d].endStream /\ ~ps[d].seenTrailers
        /\ p \in Processor /\ Flags(p, fed[d] \o (data \o EndIf(endStream)))
        /\ p.endStream = endStream /\ ~p.seenTrailers
        /\ p.state = ps[d].state /\ p.doEndStream = ps[d].doEndStream
        /\ p.hasBuffer = ps[d].hasBuffer /\ p.dataBuffer = ps[d].dataBuffer
    BY <1>0, FrameKeepsFlags
  <2> HIDE DEF p
  <2> QED  BY <1>1, <2>1
<1>3. /\ q \in Processor /\ Flags(q, fed'[d]) /\ q.hasBuffer /\ ~q.seenTrailers
      /\ q.endStream = endStream /\ q.state = ps[d].state /\ q.doEndStream = ps[d].doEndStream
  BY <1>2, BufferingKeepsMarks
<1>4. ~Overflows(p, data, Limit)
  BY BufferGrows
<1>5. \/ /\ p.state \in {"WaitingData", "WaitingAllData"}
         /\ \/ DoDataGo(d, p, data, endStream, "doData", <<>>)
            \/ endStream /\ DoDataGo(d, TakeBuffer(q), q.dataBuffer, TRUE, "doData", <<>>)
      \/ /\ UNCHANGED <<goVars, crashed>> /\ stack' = <<>>
         /\ \/ ps' = [ps EXCEPT ![d] = q]
            \/ /\ p.state \notin {"WaitingData", "WaitingAllData", "ProcessingHeader", "ProcessingData"}
               /\ ps' = [ps EXCEPT ![d] = p]
  BY <1>4 DEF DoData
<1>6. UNCHANGED <<closed, posted, trailers, headers, localTrailers, localReplyWaitingGo, enterEncoding,
                  out, hasDestroyed, reason, dynamicLib>>
  BY <1>4 DEF DoData, filterVars, lifeVars, replyVars
<1>7. calls > 0
  BY DEF EndInv, Started
<1> HIDE DEF p, q
<1>8. ASSUME p.state \in {"WaitingData", "WaitingAllData"},
             NEW r \in Processor, NEW items, Flags(r, fed'[d]), r.endStream = endStream, ~r.seenTrailers,
             r.dataBuffer # <<>> => r.hasBuffer, DoDataGo(d, r, items, endStream, "doData", <<>>)
      PROVE  EndInv' /\ crashed' = crashed
  <2> DEFINE new == Push(ProcessData(r, endStream), items)
  <2>1. /\ Flags(new, fed'[d]) /\ Sound(new) /\ new.doEndStream = endStream
        /\ new.state = "ProcessingData" /\ ~new.seenTrailers
    BY <1>8, EnteringKeepsMarks
  <2>2. ps' = [ps EXCEPT ![d] = new] /\ CallGo(d, "data", endStream, items \o EndIf(endStream), "doData", <<>>)
    BY <1>8 DEF DoDataGo
  <2> HIDE DEF new
  <2>3. MarksFit' /\ ps'[d] = new /\ \A e \in Dir : e # d => ps'[e] = ps[e]
    BY <1>0, <1>1, <2>1, <2>2, OneMark
  <2>4. TrailersReached'
    BY <1>2, <1>6, <2>1, <2>3, TrailersStay DEF EndInv
  <2>5. ps[d].state # "Done" /\ ~InGo(ps[d])
    BY <1>2, <1>8 DEF InGo
  <2>6. "doData" \in GoFrames /\ Processing("data") = "ProcessingData"
    BY DEF GoFrames, Processing
  <2> QED  BY <1>1, <1>6, <2>1, <2>2, <2>3, <2>4, <2>5, <2>6, ReenteringKeepsEnd
<1>9. ASSUME UNCHANGED <<goVars, crashed>>, stack' = <<>>, NEW r, ps' = [ps EXCEPT ![d] = r],
             Flags(r, fed'[d]), Sound(r), r.state = ps[d].state, r.doEndStream = ps[d].doEndStream,
             ~r.seenTrailers
      PROVE  EndInv' /\ crashed' = crashed
  <2>1. MarksFit' /\ ps'[d] = r /\ \A e \in Dir : e # d => ps'[e] = ps[e]
    BY <1>0, <1>1, <1>9, OneMark
  <2>2. TrailersReached'
    BY <1>2, <1>6, <1>9, <2>1, TrailersStay DEF EndInv
  <2>3. UNCHANGED <<go, calls>>
    BY <1>9 DEF goVars
  <2> QED  BY <1>1, <1>6, <1>7, <1>9, <2>1, <2>2, <2>3, KeepingKeepsEnd
<1>10. CASE /\ p.state \in {"WaitingData", "WaitingAllData"}
            /\ DoDataGo(d, p, data, endStream, "doData", <<>>)
  <2>1. p.dataBuffer # <<>> => p.hasBuffer
    BY <1>0, <1>2 DEF Sound
  <2> QED  BY <1>2, <1>8, <1>10, <2>1
<1>11. CASE /\ p.state \in {"WaitingData", "WaitingAllData"} /\ endStream
            /\ DoDataGo(d, TakeBuffer(q), q.dataBuffer, TRUE, "doData", <<>>)
  <2>1. /\ TakeBuffer(q) \in Processor /\ Flags(TakeBuffer(q), fed'[d])
        /\ TakeBuffer(q).endStream = endStream /\ ~TakeBuffer(q).seenTrailers
        /\ TakeBuffer(q).hasBuffer
    BY <1>3, ListsKeepMarks
  <2>2. DoDataGo(d, TakeBuffer(q), q.dataBuffer, endStream, "doData", <<>>)
    BY <1>11
  <2> QED  BY <1>8, <1>11, <2>1, <2>2
<1>12. CASE UNCHANGED <<goVars, crashed>> /\ stack' = <<>> /\ ps' = [ps EXCEPT ![d] = q]
  <2>1. Sound(q)
    BY <1>0, <1>2, <1>3 DEF Sound
  <2> QED  BY <1>3, <1>9, <1>12, <2>1
<1>13. CASE /\ UNCHANGED <<goVars, crashed>> /\ stack' = <<>> /\ ps' = [ps EXCEPT ![d] = p]
            /\ p.state \notin {"WaitingData", "WaitingAllData", "ProcessingHeader", "ProcessingData"}
  <2>1. Sound(p)
    BY <1>0, <1>2, <1>13 DEF Sound
  <2> QED  BY <1>2, <1>9, <1>13, <2>1
<1> QED  BY <1>5, <1>10, <1>11, <1>12, <1>13

\* The trailers are given to Go, after the data it waits for, or noted.
LEMMA DoTrailerEnd ==
    ASSUME SerialInv, EndInv, NEW d \in WithTrailers, dynamicLib, Cur = d, ~localReplyWaitingGo,
           stack = <<>>, fed[d] # <<>>, ~Ended(fed[d]), ~hasDestroyed, ~closed,
           Feed(d, <<Trl>>), DoTrailer(d)
    PROVE  EndInv' /\ crashed' = crashed
<1> DEFINE p == [ps[d] EXCEPT !.seenTrailers = TRUE]
<1>0. /\ TypeOK /\ MarksFit /\ d \in Dir /\ ps[d] \in Processor /\ fed[d] \in Seq(Item)
      /\ Flags(ps[d], fed[d]) /\ Sound(ps[d]) /\ <<Trl>> \in Seq(Item)
      /\ SeeTrailers(d)[d] = p
  <2>1. d \in Dir /\ TypeOK /\ MarksFit
    BY EnvironmentAssumption DEF SerialInv, EndInv
  <2> QED  BY <2>1, ItemTypes DEF TypeOK, MarksFit, SeeTrailers
<1>1. /\ fed'[d] = fed[d] \o <<Trl>>
      /\ \A e \in Dir : e # d => fed'[e] = fed[e]
      /\ \A e \in Dir : fed[e] # <<>> => fed'[e] # <<>>
      /\ "decode" \in Dir
  BY <1>0, FedGrows DEF Dir
<1>2. /\ p \in Processor /\ Flags(p, fed'[d]) /\ Sound(p) /\ ~p.endStream /\ p.seenTrailers
      /\ p.state = ps[d].state /\ p.doEndStream = ps[d].doEndStream
      /\ p.hasBuffer = ps[d].hasBuffer /\ p.dataBuffer = ps[d].dataBuffer
  BY <1>0, <1>1, SeeingTrailersKeepsMarks
<1>3. \/ p.state \in {"WaitingTrailer", "WaitingData"} /\ DoTrailerGo(d, p, "doTrailer", <<>>)
      \/ /\ p.state = "WaitingAllData"
         /\ DoDataGo(d, TakeBuffer(p), p.dataBuffer, FALSE, "doTrailerData", <<>>)
      \/ ps' = [ps EXCEPT ![d] = p] /\ UNCHANGED <<go, calls, seen, stack, crashed>>
  BY <1>0 DEF DoTrailer
<1>4. /\ UNCHANGED <<closed, posted, headers, localTrailers, localReplyWaitingGo, enterEncoding,
                     out, hasDestroyed, reason, dynamicLib>>
      /\ trailers' = d
  BY DEF DoTrailer, SetTrailers, lifeVars, replyVars
<1> HIDE DEF p
<1>5. ASSUME NEW r, ps' = [ps EXCEPT ![d] = r], r.seenTrailers
      PROVE  TrailersReached'
  <2>1. ps'[d] = r /\ \A e \in Dir : e # d => ps'[e] = ps[e]
    BY <1>0, <1>5 DEF TypeOK
  <2> QED  BY <1>0, <1>4, <1>5, <2>1 DEF EndInv, TrailersReached, Cur, Dir
<1>6. CASE p.state \in {"WaitingTrailer", "WaitingData"} /\ DoTrailerGo(d, p, "doTrailer", <<>>)
  <2> DEFINE new == ProcessTrailer(p)
  <2>1. /\ Flags(new, fed'[d]) /\ Sound(new) /\ new.doEndStream = TRUE
        /\ new.state = "ProcessingTrailer" /\ new.seenTrailers
    BY <1>2, TrailersKeepMarks DEF Sound
  <2>2. ps' = [ps EXCEPT ![d] = new] /\ CallGo(d, "trailers", TRUE, <<Trl>>, "doTrailer", <<>>)
    BY <1>6 DEF DoTrailerGo
  <2> HIDE DEF new
  <2>3. MarksFit' /\ ps'[d] = new /\ \A e \in Dir : e # d => ps'[e] = ps[e]
    BY <1>0, <1>1, <2>1, <2>2, OneMark
  <2>4. TrailersReached'
    BY <1>5, <2>1, <2>2
  <2>5. ps[d].state # "Done" /\ ~InGo(ps[d])
    BY <1>2, <1>6 DEF InGo
  <2>6. "doTrailer" \in GoFrames /\ Processing("trailers") = "ProcessingTrailer"
    BY DEF GoFrames, Processing
  <2> QED  BY <1>0, <1>1, <1>4, <2>1, <2>2, <2>3, <2>4, <2>5, <2>6, ReenteringKeepsEnd
<1>7. CASE /\ p.state = "WaitingAllData"
           /\ DoDataGo(d, TakeBuffer(p), p.dataBuffer, FALSE, "doTrailerData", <<>>)
  <2> DEFINE new == Push(ProcessData(TakeBuffer(p), FALSE), p.dataBuffer)
  <2>1. /\ TakeBuffer(p) \in Processor /\ Flags(TakeBuffer(p), fed'[d]) /\ ~TakeBuffer(p).endStream
        /\ TakeBuffer(p).seenTrailers /\ (TakeBuffer(p).dataBuffer # <<>> => TakeBuffer(p).hasBuffer)
    BY <1>2, ListsKeepMarks DEF Sound
  <2>2. /\ Flags(new, fed'[d]) /\ Sound(new) /\ new.doEndStream = FALSE
        /\ new.state = "ProcessingData" /\ new.seenTrailers
    BY <2>1, EnteringKeepsMarks
  <2>3. /\ ps' = [ps EXCEPT ![d] = new]
        /\ CallGo(d, "data", FALSE, p.dataBuffer \o EndIf(FALSE), "doTrailerData", <<>>)
    BY <1>7 DEF DoDataGo
  <2> HIDE DEF new
  <2>4. MarksFit' /\ ps'[d] = new /\ \A e \in Dir : e # d => ps'[e] = ps[e]
    BY <1>0, <1>1, <2>2, <2>3, OneMark
  <2>5. TrailersReached'
    BY <1>5, <2>2, <2>3
  <2>6. ps[d].state # "Done" /\ ~InGo(ps[d])
    BY <1>2, <1>7 DEF InGo
  <2>7. "doTrailerData" \in GoFrames /\ Processing("data") = "ProcessingData"
    BY DEF GoFrames, Processing
  <2> QED  BY <1>0, <1>1, <1>4, <2>2, <2>3, <2>4, <2>5, <2>6, <2>7, ReenteringKeepsEnd
<1>8. CASE ps' = [ps EXCEPT ![d] = p] /\ UNCHANGED <<go, calls, seen, stack, crashed>>
  <2>1. MarksFit' /\ ps'[d] = p /\ \A e \in Dir : e # d => ps'[e] = ps[e]
    BY <1>0, <1>1, <1>2, <1>8, OneMark
  <2>2. TrailersReached' /\ calls > 0
    BY <1>0, <1>2, <1>5, <1>8 DEF EndInv, Started
  <2>3. \A e \in Dir : ps'[e].state = ps[e].state /\ ps'[e].doEndStream = ps[e].doEndStream
    BY <1>2, <2>1
  <2> QED  BY <1>1, <1>4, <1>8, <2>1, <2>2, <2>3, KeepingKeepsEnd
<1> QED  BY <1>3, <1>6, <1>7, <1>8

\* The headers came in.
LEMMA HeadersComeIn ==
    ASSUME TypeOK, MarksFit, NEW d \in Dir, ~Ended(fed[d]), NEW b \in BOOLEAN,
           Feed(d, <<Hdr>> \o EndIf(b)), NEW q, q = [ps[d] EXCEPT !.endStream = b]
    PROVE  /\ ~ps[d].endStream /\ ~ps[d].seenTrailers
           /\ q \in Processor /\ Flags(q, fed'[d])
           /\ q.endStream = b /\ ~q.seenTrailers
           /\ q.state = ps[d].state /\ q.doEndStream = ps[d].doEndStream
           /\ q.hasBuffer = ps[d].hasBuffer /\ q.dataBuffer = ps[d].dataBuffer
<1> DEFINE hdr == <<Hdr>>
<1>1. ps[d] \in Processor /\ fed[d] \in Seq(Item) /\ Flags(ps[d], fed[d])
  BY DEF TypeOK, MarksFit
<1>2. hdr \o EndIf(b) # <<>> /\ hdr \o EndIf(b) \in Seq(Item) /\ hdr \in Seq(Item) /\ NoEnd(hdr)
  BY FrameItems, ItemTypes, ConcatProperties DEF EndIf
<1>3. fed'[d] = fed[d] \o (hdr \o EndIf(b))
  BY <1>2, FedGrows
<1> HIDE DEF hdr
<1>4. /\ ~ps[d].endStream /\ ~ps[d].seenTrailers
      /\ q \in Processor /\ Flags(q, fed[d] \o (hdr \o EndIf(b)))
      /\ q.endStream = b /\ ~q.seenTrailers
      /\ q.state = ps[d].state /\ q.doEndStream = ps[d].doEndStream
      /\ q.hasBuffer = ps[d].hasBuffer /\ q.dataBuffer = ps[d].dataBuffer
  BY <1>1, <1>2, FrameKeepsFlags
<1> QED  BY <1>3, <1>4

LEMMA DecodeHeadersEnd ==
    ASSUME SerialInv, EndInv, dynamicLib, NEW endStream \in BOOLEAN, DecodeHeaders(endStream)
    PROVE  EndInv' /\ crashed' = crashed
<1> DEFINE p   == [ps["decode"] EXCEPT !.endStream = endStream]
           new == ProcessHeader(p, endStream)
<1>0. /\ "decode" \in Dir /\ ps["decode"] \in Processor /\ fed["decode"] \in Seq(Item)
      /\ TypeOK /\ MarksFit /\ Flags(ps["decode"], fed["decode"]) /\ Sound(ps["decode"])
  BY DEF SerialInv, TypeOK, EndInv, MarksFit, Dir
<1>1. /\ CanFeed("decode") /\ fed["decode"] = <<>> /\ Feed("decode", <<Hdr>> \o EndIf(endStream))
      /\ DoHeadersGo("decode", SetEndStream("decode", endStream), endStream, "doHeaders", stack)
      /\ UNCHANGED <<lifeVars, replyVars, trailers, posted, out, closed>>
      /\ ~Ended(fed["decode"])
  BY DEF DecodeHeaders, Bypass, Ended
<1>2. Cur = "decode" /\ ~enterEncoding /\ ~hasDestroyed /\ ~closed
  BY <1>1, RequestIsCurrent
<1>3. <<Hdr>> \o EndIf(endStream) # <<>> /\ <<Hdr>> \o EndIf(endStream) \in Seq(Item)
  BY FrameItems, ItemTypes, ConcatProperties DEF EndIf
<1>4. /\ fed'["decode"] = fed["decode"] \o (<<Hdr>> \o EndIf(endStream))
      /\ \A e \in Dir : e # "decode" => fed'[e] = fed[e]
  BY <1>0, <1>1, <1>3, FedGrows
<1>5. /\ p \in Processor /\ Flags(p, fed'["decode"]) /\ p.endStream = endStream
      /\ ~ps["decode"].seenTrailers /\ ~p.seenTrailers
      /\ p.hasBuffer = ps["decode"].hasBuffer /\ p.dataBuffer = ps["decode"].dataBuffer
  <2>0. p = [ps["decode"] EXCEPT !.endStream = endStream]
    OBVIOUS
  <2> HIDE DEF p
  <2> QED  BY <1>0, <1>1, <2>0, HeadersComeIn
<1>6. ps' = [ps EXCEPT !["decode"] = new]
  BY <1>0, <1>1 DEF DoHeadersGo, SetEndStream, TypeOK
<1> HIDE DEF p
<1>7. /\ Flags(new, fed'["decode"]) /\ Sound(new) /\ new.doEndStream = endStream
      /\ new.state = "ProcessingHeader" /\ ~new.seenTrailers
  <2>1. p.dataBuffer # <<>> => p.hasBuffer
    BY <1>0, <1>5 DEF Sound
  <2> QED  BY <1>5, <2>1, EnteringKeepsMarks
<1> HIDE DEF new
<1>8. MarksFit' /\ ps'["decode"] = new /\ \A e \in Dir : e # "decode" => ps'[e] = ps[e]
  BY <1>0, <1>4, <1>6, <1>7, OneMark
<1>9. TrailersReached'
  <2>1. UNCHANGED <<trailers, localTrailers, localReplyWaitingGo, enterEncoding>>
    BY <1>1 DEF replyVars
  <2> QED  BY <1>5, <1>7, <1>8, <2>1, TrailersStay DEF EndInv
<1>10. /\ go = {} /\ posted' = <<>> /\ calls \in Nat /\ out["decode"] = <<>>
       /\ {End, Trl} \cap ToSet(out["decode"]) = {}
  <2>1. ~InGo(ps[Cur])
    BY <1>1, <1>2 DEF SerialInv, FlowInv, StreamOrder, InGo
  <2>2. out["decode"] = <<>>
    BY <1>1 DEF EndInv, Started
  <2> QED  BY <1>1, <2>1, <2>2, Idle DEF SerialInv, TypeOK, ToSet
<1>11. CallGo("decode", "headers", endStream, <<Hdr>> \o EndIf(endStream), "doHeaders", stack)
       /\ headers' = "decode"
  BY <1>1 DEF DoHeadersGo
<1>12. UNCHANGED <<out, hasDestroyed, closed, reason, dynamicLib, enterEncoding>>
  BY <1>1 DEF lifeVars, replyVars
<1>13. Cur' = "decode" /\ "encode" \in Dir /\ "encode" # "decode"
  BY <1>2, <1>12 DEF Cur, Dir
<1>14. "doHeaders" \in GoFrames /\ Processing("headers") = "ProcessingHeader" /\ "headers" \in Kind
  BY DEF GoFrames, Processing, Kind
<1> QED  BY <1>0, <1>1, <1>2, <1>7, <1>8, <1>9, <1>10, <1>11, <1>12, <1>13, <1>14, EnteringKeepsEnd

LEMMA DecodeDataEnd ==
    ASSUME Calm, SerialInv, EndInv, dynamicLib, NEW data \in DataFrames("decode"),
           NEW endStream \in BOOLEAN, DecodeData(data, endStream)
    PROVE  EndInv' /\ crashed' = crashed
<1>1. /\ CanFeed("decode") /\ fed["decode"] # <<>> /\ Feed("decode", data \o EndIf(endStream))
      /\ "decode" \in Dir /\ ~Ended(fed["decode"])
      /\ DoData("decode", data, endStream, stack)
      /\ UNCHANGED <<filterVars, posted, out, dropped>>
  BY DEF DecodeData, Bypass, CanFeed, Dir
<1>2. /\ data \in Seq(Chunks) /\ data \o EndIf(endStream) # <<>>
      /\ data = <<>> \/ (Len(data) = 1 /\ Len(fed["decode"]) <= MaxChunks)
  BY <1>1, DataFrame DEF SerialInv, DecodeData
<1>3. Cur = "decode" /\ stack = <<>> /\ ~hasDestroyed /\ ~closed
  BY <1>1, RequestIsCurrent
<1>4. DoData("decode", data, endStream, <<>>)
  BY <1>1, <1>3
<1> QED  BY <1>1, <1>2, <1>3, <1>4, DoDataEnd

LEMMA DecodeTrailersEnd ==
    ASSUME SerialInv, EndInv, dynamicLib, DecodeTrailers
    PROVE  EndInv' /\ crashed' = crashed
<1>1. /\ CanFeed("decode") /\ fed["decode"] # <<>> /\ Feed("decode", <<Trl>>)
      /\ "decode" \in WithTrailers /\ "decode" \in Dir /\ ~Ended(fed["decode"])
      /\ DoTrailer("decode")
  BY DEF DecodeTrailers, Bypass, CanFeed, Dir
<1>2. Cur = "decode" /\ stack = <<>> /\ ~hasDestroyed /\ ~closed /\ ~localReplyWaitingGo
  BY <1>1, RequestIsCurrent
<1> QED  BY <1>1, <1>2, DoTrailerEnd

\* The response starts, or waits for the request's handler.
LEMMA EncodeHeadersEnd ==
    ASSUME SerialInv, EndInv, dynamicLib, NEW endStream \in BOOLEAN,
           NEW rest \in {<<>>, <<ReplyBody>>},
           fed["encode"] = <<>>, ~hasDestroyed, ~closed, EncodeHeaders(endStream, rest)
    PROVE  EndInv' /\ crashed' = crashed
<1> DEFINE pd == ps["decode"]
           pe == [ps["encode"] EXCEPT !.endStream = endStream]
           items == <<Hdr>> \o EndIf(endStream)
<1>0. /\ "decode" \in Dir /\ "encode" \in Dir /\ Dir = {"decode", "encode"}
      /\ ps \in [Dir -> Processor] /\ fed["encode"] \in Seq(Item) /\ TypeOK
      /\ \A d \in Dir : /\ Flags(ps[d], fed[d]) /\ Sound(ps[d]) /\ ps[d] \in Processor
                        /\ ps[d].seenTrailers => d \in WithTrailers
  BY DEF SerialInv, TypeOK, EndInv, MarksFit, Dir
<1>1. /\ ~enterEncoding /\ ~localReplyWaitingGo /\ Cur = "decode"
      /\ ps["encode"].state = "WaitingHeader" /\ out["encode"] = <<>>
  BY DEF SerialInv, FlowInv, StreamOrder, Cur, EndInv, Started
<1>2. items # <<>> /\ items \in Seq(Item) /\ ~Ended(fed["encode"]) /\ Feed("encode", items)
  BY FrameItems, ItemTypes, ConcatProperties DEF EndIf, Ended, EncodeHeaders
<1>3. /\ fed'["encode"] = fed["encode"] \o items /\ fed'["decode"] = fed["decode"]
  BY <1>0, <1>2, FedGrows
<1>4. /\ ~ps["encode"].endStream /\ ~ps["encode"].seenTrailers
      /\ pe \in Processor /\ Flags(pe, fed'["encode"]) /\ pe.endStream = endStream /\ ~pe.seenTrailers
      /\ pe.state = "WaitingHeader" /\ pe.doEndStream = ps["encode"].doEndStream
      /\ pe.hasBuffer = ps["encode"].hasBuffer /\ pe.dataBuffer = ps["encode"].dataBuffer
  <2>0. pe = [ps["encode"] EXCEPT !.endStream = endStream] /\ MarksFit
    BY DEF EndInv
  <2>1. Feed("encode", <<Hdr>> \o EndIf(endStream))
    BY <1>2
  <2> HIDE DEF pe
  <2> QED  BY <1>0, <1>1, <1>2, <2>0, <2>1, HeadersComeIn
<1>5. /\ SetEndStream("encode", endStream) = [ps EXCEPT !["encode"] = pe]
      /\ UNCHANGED <<localTrailers, trailers, hasDestroyed, closed, reason, dynamicLib, out, posted>>
  BY DEF SetEndStream, EncodeHeaders, Bypass, lifeVars
<1>6. pe.dataBuffer # <<>> => pe.hasBuffer
  BY <1>0, <1>4 DEF Sound
<1>7. ~localTrailers
  BY <1>4 DEF EndInv, TrailersReached
<1> HIDE DEF pe, items
<1>8. ASSUME NEW a, NEW b, ps' = [ps EXCEPT !["decode"] = a, !["encode"] = b],
             a \in {pd, TakeBuffer(pd), ClearAll(TakeBuffer(pd))},
             Flags(b, fed'["encode"]), Sound(b), ~b.seenTrailers
      PROVE  /\ MarksFit' /\ ps'["encode"] = b /\ ps'["decode"].state = pd.state
             /\ ps'["decode"].doEndStream = pd.doEndStream
             /\ ps'["decode"].seenTrailers = pd.seenTrailers
  <2>1. ps'["decode"] = a /\ ps'["encode"] = b
    BY <1>0, <1>8
  <2>2. /\ Flags(a, fed["decode"]) /\ Sound(a)
        /\ a.state = pd.state /\ a.doEndStream = pd.doEndStream /\ a.seenTrailers = pd.seenTrailers
    BY <1>0, <1>8, ListsKeepMarks
  <2> QED  BY <1>0, <1>3, <1>8, <2>1, <2>2 DEF MarksFit
<1>9. CASE /\ InGo(pd)
           /\ ps' = [SetEndStream("encode", endStream) EXCEPT !["decode"] = TakeBuffer(@)]
           /\ localReplyWaitingGo' = TRUE /\ stack' = rest
           /\ UNCHANGED <<enterEncoding, headers, goVars, crashed>>
  <2>1. ps' = [ps EXCEPT !["decode"] = TakeBuffer(pd), !["encode"] = pe]
    BY <1>0, <1>5, <1>9
  <2>2. Sound(pe)
    BY <1>4, <1>6 DEF Sound
  <2>3. /\ MarksFit' /\ ps'["encode"] = pe /\ ps'["decode"].state = pd.state
        /\ ps'["decode"].doEndStream = pd.doEndStream
        /\ ps'["decode"].seenTrailers = pd.seenTrailers
    BY <1>4, <1>8, <2>1, <2>2
  <2>4. TrailersReached'
    BY <1>1, <1>4, <1>5, <1>7, <1>9, <2>3 DEF TrailersReached, EndInv, Cur
  <2>5. calls > 0
    BY <1>0, <1>9 DEF SerialInv, FlowInv, StreamOrder, EndInv, Started, InGo
  <2>6. \A e \in Dir : ps'[e].state = ps[e].state /\ ps'[e].doEndStream = ps[e].doEndStream
    BY <1>0, <1>1, <1>4, <2>3
  <2>7. stack' # <<>> => Head(stack').at # "forwardedTrailerData"
    BY <1>9 DEF ReplyBody, At
  <2>8. UNCHANGED <<go, calls>>
    BY <1>9 DEF goVars
  <2> QED  BY <1>3, <1>5, <1>9, <2>3, <2>4, <2>5, <2>6, <2>7, <2>8, KeepingKeepsEnd
<1>10. ASSUME ~InGo(pd), enterEncoding' = TRUE, UNCHANGED localReplyWaitingGo,
              NEW a, a \in {pd, ClearAll(TakeBuffer(pd))},
              DoHeadersGo("encode", [ps EXCEPT !["decode"] = a, !["encode"] = pe],
                          endStream, "doHeaders", rest)
       PROVE  EndInv' /\ crashed' = crashed
  <2> DEFINE new == ProcessHeader(pe, endStream)
  <2>1. ps' = [ps EXCEPT !["decode"] = a, !["encode"] = new]
    BY <1>0, <1>10 DEF DoHeadersGo
  <2>2. /\ Flags(new, fed'["encode"]) /\ Sound(new) /\ new.doEndStream = endStream
        /\ new.state = "ProcessingHeader" /\ ~new.seenTrailers
    BY <1>4, <1>6, EnteringKeepsMarks
  <2> HIDE DEF new
  <2>3. MarksFit' /\ ps'["encode"] = new
    BY <1>8, <1>10, <2>1, <2>2
  <2>4. Cur' = "encode"
    BY <1>10 DEF Cur
  <2>5. TrailersReached'
    BY <1>1, <1>5, <1>7, <1>10, <2>2, <2>3, <2>4 DEF TrailersReached
  <2>6. go = {} /\ posted' = <<>> /\ calls \in Nat
    BY <1>1, <1>5, <1>10, Idle DEF SerialInv, TypeOK
  <2>7. /\ CallGo("encode", "headers", endStream, <<Hdr>> \o EndIf(endStream), "doHeaders", rest)
        /\ headers' = "encode"
    BY <1>10 DEF DoHeadersGo
  <2>8. "doHeaders" \in GoFrames /\ Processing("headers") = "ProcessingHeader" /\ "headers" \in Kind
    BY DEF GoFrames, Processing, Kind
  <2>9. {End, Trl} \cap ToSet(out["encode"]) = {}
    BY <1>1 DEF ToSet
  <2> QED  BY <1>0, <1>1, <1>3, <1>5, <1>10, <2>2, <2>3, <2>4, <2>5, <2>6, <2>7, <2>8, <2>9,
              EnteringKeepsEnd
<1>11. CASE /\ ~InGo(pd) /\ enterEncoding' = TRUE /\ UNCHANGED localReplyWaitingGo
            /\ DoHeadersGo("encode", SetEndStream("encode", endStream), endStream, "doHeaders", rest)
  <2>1. SetEndStream("encode", endStream) = [ps EXCEPT !["decode"] = pd, !["encode"] = pe]
    BY <1>0, <1>5
  <2> QED  BY <1>10, <1>11, <2>1
<1>12. CASE /\ ~InGo(pd) /\ enterEncoding' = TRUE /\ UNCHANGED localReplyWaitingGo
            /\ DoHeadersGo("encode",
                           [SetEndStream("encode", endStream) EXCEPT !["decode"] = ClearAll(TakeBuffer(@))],
                           endStream, "doHeaders", rest)
  <2>1. [SetEndStream("encode", endStream) EXCEPT !["decode"] = ClearAll(TakeBuffer(@))]
          = [ps EXCEPT !["decode"] = ClearAll(TakeBuffer(pd)), !["encode"] = pe]
    BY <1>0, <1>5
  <2> QED  BY <1>10, <1>12, <2>1
<1> QED  BY <1>1, <1>9, <1>11, <1>12 DEF EncodeHeaders, Bypass

\* The body of the response is given to Go, or waits with the headers.
LEMMA EncodeDataEnd ==
    ASSUME Calm, SerialInv, EndInv, dynamicLib, NEW data \in Seq(Chunks), NEW endStream \in BOOLEAN,
           data = <<>> \/ (Len(data) = 1 /\ (Len(fed["encode"]) <= MaxChunks \/ fed["encode"] = <<Hdr>>)),
           fed["encode"] # <<>>, ~Ended(fed["encode"]), ~hasDestroyed, ~closed,
           data \o EndIf(endStream) # <<>>, EncodeData(data, endStream, <<>>)
    PROVE  EndInv' /\ crashed' = crashed
<1>1. /\ "encode" \in Dir /\ Feed("encode", data \o EndIf(endStream))
      /\ data \in Seq(Item) /\ NoEnd(data)
  BY FrameItems DEF EncodeData, Dir
<1>2. CASE /\ localReplyWaitingGo
           /\ ps' = [ps EXCEPT !["encode"] =
                       AddBufferData([@ EXCEPT !.endStream = endStream], data, Limit)]
           /\ stack' = <<>>
           /\ UNCHANGED <<filterVars, goVars, posted, crashed, out, dropped, closed>>
  <2> DEFINE d == "encode"
             p == [ps[d] EXCEPT !.endStream = endStream]
             q == AddBufferData(p, data, Limit)
  <2>0. /\ TypeOK /\ MarksFit /\ d \in Dir /\ ps[d] \in Processor /\ fed[d] \in Seq(Item)
        /\ Flags(ps[d], fed[d])
    BY <1>1 DEF SerialInv, TypeOK, EndInv, MarksFit
  <2>1. /\ fed'[d] = fed[d] \o (data \o EndIf(endStream))
        /\ \A e \in Dir : e # d => fed'[e] = fed[e]
        /\ fed'["decode"] = fed["decode"]
    BY <1>1, <2>0, LastOfFrame, FedGrows DEF Dir
  <2>2. ~Ended(fed[d]) /\ data \o EndIf(endStream) # <<>> /\ ps' = [ps EXCEPT ![d] = q]
    BY <1>2
  <2> HIDE DEF d
  <2>3. /\ p \in Processor /\ Flags(p, fed[d] \o (data \o EndIf(endStream)))
        /\ ~ps[d].seenTrailers /\ ~p.seenTrailers
        /\ p.state = ps[d].state /\ p.doEndStream = ps[d].doEndStream
    BY <1>1, <2>0, <2>2, FrameKeepsFlags
  <2> HIDE DEF p
  <2>4. /\ Flags(q, fed'[d]) /\ q.hasBuffer /\ ~q.seenTrailers
        /\ q.state = ps[d].state /\ q.doEndStream = ps[d].doEndStream
    BY <2>1, <2>3, BufferingKeepsMarks
  <2> HIDE DEF q
  <2>5. ps[d].state = "WaitingHeader"
    BY <1>2 DEF SerialInv, FlowInv, ReplyWaitsForRequest, EndInv, Started, d
  <2>6. Sound(q)
    BY <2>4, <2>5 DEF Sound
  <2>7. MarksFit' /\ ps'[d] = q /\ \A e \in Dir : e # d => ps'[e] = ps[e]
    BY <2>0, <2>1, <2>2, <2>4, <2>6, OneMark
  <2>8. UNCHANGED <<go, posted, out, headers, hasDestroyed, closed, reason, enterEncoding, dynamicLib,
                    calls, trailers, localTrailers, localReplyWaitingGo, crashed>>
    BY <1>2 DEF filterVars, lifeVars, replyVars, goVars
  <2>9. TrailersReached'
    BY <2>3, <2>4, <2>7, <2>8, TrailersStay DEF EndInv
  <2>10. calls > 0
    BY <1>1 DEF EndInv, Started
  <2> QED  BY <1>2, <2>1, <2>4, <2>7, <2>8, <2>9, <2>10, KeepingKeepsEnd
<1>3. CASE /\ ~localReplyWaitingGo
           /\ DoData("encode", data, endStream, <<>>)
           /\ UNCHANGED <<filterVars, posted, out, dropped>>
  <2>1. Cur = "encode"
    BY <1>3 DEF SerialInv, FlowInv, StreamOrder, Cur
  <2> QED  BY <1>1, <1>3, <2>1, DoDataEnd
<1> QED  BY <1>2, <1>3 DEF EncodeData, Bypass

LEMMA ResponseDataEnd ==
    ASSUME Calm, SerialInv, EndInv, dynamicLib, NEW data \in DataFrames("encode"),
           NEW endStream \in BOOLEAN, ResponseData(data, endStream)
    PROVE  EndInv' /\ crashed' = crashed
<1>1. /\ CanFeed("encode") /\ fed["encode"] # <<>> /\ "encode" \in Dir /\ ~Ended(fed["encode"])
      /\ data # <<>> \/ endStream
  BY DEF ResponseData, CanFeed, Dir
<1>2. stack = <<>> /\ ~hasDestroyed /\ ~closed
  BY <1>1, ResponseIsCurrent
<1>3. /\ data \in Seq(Chunks) /\ data \o EndIf(endStream) # <<>>
      /\ data = <<>> \/ (Len(data) = 1 /\ Len(fed["encode"]) <= MaxChunks)
  BY <1>1, DataFrame DEF SerialInv
<1>4. EncodeData(data, endStream, <<>>)
  BY <1>2 DEF ResponseData
<1> QED  BY <1>1, <1>2, <1>3, <1>4, EncodeDataEnd

LEMMA LocalReplyBodyEnd ==
    ASSUME Calm, SerialInv, EndInv, dynamicLib, LocalReplyBody
    PROVE  EndInv' /\ crashed' = crashed
<1>1. stack # <<>> /\ Head(stack).at = "replyBody" /\ EncodeData(<<Chunk(1)>>, TRUE, Tail(stack))
  BY DEF LocalReplyBody
<1>2. "replyBody" \notin GoFrames /\ "replyBody" \notin Forwarding \cup {"checkData", "checkTrailer"}
  BY DEF GoFrames, Forwarding
<1>3. FrameFits(Head(stack)) /\ Tail(stack) = <<>>
  BY <1>1, <1>2, OnlyFrame
<1>4. fed["encode"] = <<Hdr>> /\ ~hasDestroyed /\ ~closed
  BY <1>1, <1>2, <1>3 DEF FrameFits, EndInv, NothingAfterEnd
<1>5. fed["encode"] # <<>> /\ ~Ended(fed["encode"])
  <2>1. Last(<<Hdr>>) = Hdr /\ Hdr # End /\ Hdr # Trl
    BY DEF Last, Hdr, End, Trl
  <2> QED  BY <1>4, <2>1 DEF Ended
<1>6. /\ <<Chunk(1)>> \in Seq(Chunks) /\ Len(<<Chunk(1)>>) = 1
      /\ <<Chunk(1)>> \o EndIf(TRUE) # <<>>
  BY ItemTypes, ConcatProperties DEF EndIf
<1>7. EncodeData(<<Chunk(1)>>, TRUE, <<>>)
  BY <1>1, <1>3
<1> DEFINE data == <<Chunk(1)>>
<1>8. data \in Seq(Chunks) /\ Len(data) = 1 /\ data \o EndIf(TRUE) # <<>> /\ EncodeData(data, TRUE, <<>>)
  BY <1>6, <1>7
<1> HIDE DEF data
<1> QED  BY <1>4, <1>5, <1>8, EncodeDataEnd

LEMMA EncodeTrailersEnd ==
    ASSUME SerialInv, EndInv, dynamicLib, EncodeTrailers
    PROVE  EndInv' /\ crashed' = crashed
<1>1. /\ CanFeed("encode") /\ fed["encode"] # <<>> /\ Feed("encode", <<Trl>>)
      /\ "encode" \in WithTrailers /\ "encode" \in Dir /\ ~Ended(fed["encode"])
  BY DEF EncodeTrailers, CanFeed, Dir
<1>2. stack = <<>> /\ ~hasDestroyed /\ ~closed /\ (~localReplyWaitingGo => Cur = "encode")
  BY <1>1, ResponseIsCurrent
<1>3. CASE /\ localReplyWaitingGo
           /\ localTrailers' = TRUE
           /\ ps' = SeeTrailers("encode")
           /\ UNCHANGED <<lifeVars, enterEncoding, localReplyWaitingGo, headers, trailers, goVars,
                          stack, posted, crashed, out, dropped, closed>>
  <2> DEFINE d == "encode"
             p == [ps[d] EXCEPT !.seenTrailers = TRUE]
  <2>0. /\ TypeOK /\ MarksFit /\ d \in Dir /\ ps[d] \in Processor /\ fed[d] \in Seq(Item)
        /\ Flags(ps[d], fed[d]) /\ Sound(ps[d]) /\ ~Ended(fed[d]) /\ d \in WithTrailers
    BY <1>1 DEF SerialInv, TypeOK, EndInv, MarksFit
  <2>2. /\ ps' = [ps EXCEPT ![d] = p]
        /\ Feed(d, <<Trl>>) /\ "decode" \in Dir /\ "decode" # d
    BY <1>1, <1>3 DEF SeeTrailers, Dir
  <2> HIDE DEF d
  <2>1. /\ fed'[d] = fed[d] \o <<Trl>>
        /\ \A e \in Dir : e # d => fed'[e] = fed[e]
        /\ fed'["decode"] = fed["decode"]
    <3>1. <<Trl>> \in Seq(Item)
      BY ItemTypes
    <3> QED  BY <2>0, <2>2, <3>1, FedGrows
  <2>3. /\ Flags(p, fed'[d]) /\ Sound(p) /\ p.seenTrailers
        /\ p.state = ps[d].state /\ p.doEndStream = ps[d].doEndStream
    BY <2>0, <2>1, SeeingTrailersKeepsMarks
  <2> HIDE DEF p
  <2>4. MarksFit' /\ ps'[d] = p /\ \A e \in Dir : e # d => ps'[e] = ps[e]
    BY <2>0, <2>1, <2>2, <2>3, OneMark
  <2>5. Cur' = Cur /\ Cur = "decode" /\ Cur # d /\ Cur \in Dir
    BY <1>3 DEF SerialInv, FlowInv, ReplyWaitsForRequest, Cur, d, Dir
  <2>6. TrailersReached'
    BY <1>3, <2>3, <2>4, <2>5 DEF EndInv, TrailersReached, d
  <2>7. UNCHANGED <<go, posted, out, headers, hasDestroyed, closed, reason, enterEncoding, dynamicLib,
                    calls, crashed, stack>>
    BY <1>3 DEF lifeVars, goVars
  <2>8. calls > 0
    BY <1>1 DEF EndInv, Started
  <2> QED  BY <1>2, <2>1, <2>3, <2>4, <2>6, <2>7, <2>8, KeepingKeepsEnd
<1>4. CASE ~localReplyWaitingGo /\ DoTrailer("encode")
  BY <1>1, <1>2, <1>4, DoTrailerEnd
<1> QED  BY <1>3, <1>4 DEF EncodeTrailers, Bypass

LEMMA ResponseHeadersEnd ==
    ASSUME SerialInv, EndInv, dynamicLib, NEW endStream \in BOOLEAN, ResponseHeaders(endStream)
    PROVE  EndInv' /\ crashed' = crashed
<1>1. /\ stack = <<>> /\ ~hasDestroyed /\ ~closed /\ fed["encode"] = <<>>
      /\ EncodeHeaders(endStream, <<>>)
  BY DEF ResponseHeaders, CanFeed
<1> QED  BY <1>1, EncodeHeadersEnd

LEMMA LocalReplyEnd ==
    ASSUME SerialInv, EndInv, dynamicLib, LocalReply
    PROVE  EndInv' /\ crashed' = crashed
<1>1. stack # <<>> /\ Head(stack).at = "localReply"
  BY DEF LocalReply
<1>2. "localReply" \notin GoFrames /\ "localReply" \notin Forwarding \cup {"checkData", "checkTrailer"}
  BY DEF GoFrames, Forwarding
<1>3. FrameFits(Head(stack)) /\ Tail(stack) = <<>>
  BY <1>1, <1>2, OnlyFrame
<1>4. fed["encode"] = <<>> /\ ~hasDestroyed /\ ~closed
  BY <1>1, <1>2, <1>3 DEF FrameFits, EndInv, NothingAfterEnd
<1>5. PICK body \in BOOLEAN :
         EncodeHeaders(~body, (IF body THEN <<ReplyBody>> ELSE <<>>) \o <<>>)
  BY <1>3, <1>4 DEF LocalReply, ReplyBody
<1>6. CASE body
  <2>1. <<ReplyBody>> \o <<>> = <<ReplyBody>>
    OBVIOUS
  <2>2. EncodeHeaders(FALSE, <<ReplyBody>>)
    BY <1>5, <1>6, <2>1
  <2> QED  BY <1>4, <2>2, EncodeHeadersEnd
<1>7. CASE ~body
  <2>1. <<>> \o <<>> = <<>>
    OBVIOUS
  <2>2. EncodeHeaders(TRUE, <<>>)
    BY <1>5, <1>7, <2>1
  <2> QED  BY <1>4, <2>2, EncodeHeadersEnd
<1> QED  BY <1>6, <1>7
-----------------------------------------------------------------------------
(* What Go answered                                                        *)

\* Data carries the end only when it is marked with it.
LEMMA MarkedItems ==
    ASSUME NEW data \in Seq(Chunks), NEW b \in BOOLEAN
    PROVE  /\ data \o EndIf(b) \in Seq(Item)
           /\ {End, Trl} \cap ToSet(data \o EndIf(b)) # {} => b
           /\ {End, Trl} \cap ToSet(EndIf(b)) # {} => b
<1>1. data \in Seq(Item) /\ NoEnd(data) /\ EndIf(b) \in Seq(Item) /\ data \o EndIf(b) \in Seq(Item)
  BY FrameItems, ItemTypes, ConcatProperties
<1>2. CASE b
  BY <1>1, <1>2
<1>3. CASE ~b
  <2>1. EndIf(b) = <<>> /\ ToSet(<<>>) = {}
    BY <1>3 DEF EndIf, ToSet
  <2>2. data \o <<>> = data
    BY ConcatEmptySeq
  <2>3. {End, Trl} \cap ToSet(data) = {}
    BY <1>1 DEF ToSet, NoEnd
  <2> QED  BY <1>1, <2>1, <2>2, <2>3
<1> QED  BY <1>2, <1>3

\* The filter manager goes on with the trailers, the end, or nothing yet.
LEMMA ResumedItems ==
    ASSUME NEW d \in Dir, fed[d] # <<>>
    PROVE  \E items \in Seq(Item) : /\ Resumed(d) = Passed(d, items)
                                    /\ {End, Trl} \cap ToSet(items) # {} => Ended(fed[d])
<1>1. <<Trl>> \in Seq(Item) /\ <<End>> \in Seq(Item) /\ <<>> \in Seq(Item) /\ ToSet(<<>>) = {}
  BY ItemTypes DEF ToSet
<1>2. CASE Last(fed[d]) = Trl
  <2>1. Resumed(d) = Passed(d, <<Trl>>)
    BY <1>2 DEF Resumed, Trl, End
  <2> QED  BY <1>1, <1>2, <2>1 DEF Ended
<1>3. CASE Last(fed[d]) = End /\ out[d] = <<>>
  <2>1. Resumed(d) = Passed(d, <<End>>)
    BY <1>3 DEF Resumed, Trl, End
  <2> QED  BY <1>1, <1>3, <2>1 DEF Ended
<1>4. CASE Last(fed[d]) # Trl /\ ~(Last(fed[d]) = End /\ out[d] = <<>>)
  <2>1. Resumed(d) = Passed(d, <<>>)
    BY <1>4 DEF Resumed
  <2> QED  BY <1>1, <2>1
<1> QED  BY <1>2, <1>3, <1>4

\* Go is at work only on a message that has started, while the stream lives.
LEMMA WorkedOn ==
    ASSUME SerialInv, EndInv, dynamicLib, InGo(ps[Cur])
    PROVE  fed[Cur] # <<>> /\ (Cur = "decode" => fed["decode"] # <<>>)
BY DEF SerialInv, FlowInv, StreamOrder, Cur, InGo

\* The answer of a call that the worker waits for.
LEMMA AnswerMarks ==
    ASSUME SerialInv, EndInv, NEW at \in GoFrames, NEW call \in go, NEW status \in GolangStatus,
           GoReturns(at, call, status),
           NEW q, q = HandleGolangStatus(ps[Cur], status)
    PROVE  /\ call.dir = Cur /\ Cur \in Dir /\ dynamicLib /\ ~hasDestroyed /\ ~closed
           /\ call \in Unanswered /\ call \in Call /\ status \in Allowed(call)
           /\ InGo(ps[Cur]) /\ fed[Cur] # <<>>
           /\ q \in Processor /\ Flags(q, fed[Cur]) /\ q.doEndStream = call.end
           /\ status = "Continue" /\ call.end => q.state = "Done"
           /\ \A c \in Unanswered' : c.end = call.end
           /\ crashed' = crashed /\ calls' = calls
<1>1. /\ call.dir = Cur /\ Cur \in Dir /\ dynamicLib
      /\ call \in Call /\ ps[Cur] \in Processor /\ ps[Cur].state = Processing(call.kind)
      /\ ~call.refused /\ status \in Allowed(call)
  BY GoFrame
<1>2. go = {call} /\ posted = <<>> /\ call \in Unanswered
  <2>1. go = {call} /\ posted = <<>>
    BY DEF SerialInv, CallsInv, GoSerialized
  <2> QED  BY <2>1, OneCall
<1>3. ~hasDestroyed /\ ~closed
  <2>1. stack # <<>> /\ Head(stack).at = at
    BY DEF GoReturns
  <2>2. at \notin Forwarding \cup {"checkData", "checkTrailer"}
    BY DEF GoFrames, Forwarding
  <2> QED  BY <1>1, <1>2, <2>1, <2>2 DEF EndInv, NothingAfterEnd
<1>4. call.end = ps[Cur].doEndStream /\ Flags(ps[Cur], fed[Cur]) /\ Sound(ps[Cur])
  BY <1>1, <1>2 DEF EndInv, EndsFit, MarksFit
<1>5. /\ q \in Processor /\ Flags(q, fed[Cur]) /\ q.doEndStream = ps[Cur].doEndStream
      /\ status = "Continue" => (ps[Cur].doEndStream => q.state = "Done")
  BY <1>1, <1>4, AnswersKeepMarks
<1>6. InGo(ps[Cur])
  BY <1>1, ProcessingIsInGo DEF Call
<1>7. \A c \in Unanswered' : c.end = call.end
  <2> DEFINE later == [call EXCEPT !.sync = FALSE]
             e(act) == [act |-> act, status |-> "LocalReply", call |-> call]
  <2>1. later.end = call.end
    BY <1>1 DEF Call
  <2>2. go' \subseteq {later}
    BY <1>2 DEF GoReturns
  <2>3. posted' = <<>> \/ posted' = Append(<<>>, e("reply"))
    BY <1>2 DEF GoReturns, Post
  <2>4. \A i \in DOMAIN posted' : posted'[i].call = call
    <3>1. Append(<<>>, e("reply")) = <<e("reply")>>
      OBVIOUS
    <3>2. DOMAIN <<e("reply")>> = {1} /\ <<e("reply")>>[1].call = call /\ DOMAIN <<>> = {}
      OBVIOUS
    <3> HIDE DEF e
    <3> QED  BY <2>3, <3>1, <3>2
  <2> HIDE DEF later, e
  <2> QED  BY <2>1, <2>2, <2>4 DEF Unanswered
<1> QED  BY <1>1, <1>2, <1>3, <1>4, <1>5, <1>6, <1>7, WorkedOn DEF GoReturns

\* A call returns: what is passed on ends the message only when Go is done with it.
LEMMA ReturningKeepsEnd ==
    ASSUME SerialInv, EndInv, NEW at \in GoFrames, NEW call \in go, NEW status \in GolangStatus,
           GoReturns(at, call, status),
           NEW q, q = HandleGolangStatus(ps[Cur], status),
           NEW n, n = q \/ n = ClearAll(q), ps' = [ps EXCEPT ![Cur] = n],
           UNCHANGED <<fed, enterEncoding, localReplyWaitingGo, localTrailers, trailers,
                       hasDestroyed, closed, reason, dynamicLib>>,
           \/ out' = out
           \/ /\ status = "Continue"
              /\ \E items \in Seq(Item) :
                    /\ out' = Passed(Cur, items)
                    /\ {End, Trl} \cap ToSet(items) # {} => call.end \/ q.state = "Done",
           headers' = headers \/ status = "Continue",
           stack' # <<>> /\ Head(stack').at = "forwardedTrailerData" => q.state = "Done"
    PROVE  EndInv' /\ crashed' = crashed
<1>1. /\ dynamicLib /\ ~hasDestroyed /\ ~closed
      /\ call \in Unanswered /\ call \in Call /\ status \in Allowed(call)
      /\ status = "Continue" /\ call.end => q.state = "Done"
      /\ \A c \in Unanswered' : c.end = call.end
      /\ crashed' = crashed /\ calls' = calls
  BY AnswerMarks
<1>2. CASE out' = out
  <2>1. <<>> \in Seq(Item) /\ {End, Trl} \cap ToSet(<<>>) = {}
    BY DEF ToSet
  <2> QED  BY <1>1, <1>2, <2>1, AnsweringKeepsEnd
<1>3. CASE /\ status = "Continue"
           /\ \E items \in Seq(Item) :
                 /\ out' = Passed(Cur, items)
                 /\ {End, Trl} \cap ToSet(items) # {} => call.end \/ q.state = "Done"
  <2>1. PICK items \in Seq(Item) : /\ out' = Passed(Cur, items)
                                   /\ {End, Trl} \cap ToSet(items) # {} => call.end \/ q.state = "Done"
    BY <1>3
  <2>2. {End, Trl} \cap ToSet(items) # {} => q.state = "Done"
    BY <1>1, <1>3, <2>1
  <2> QED  BY <1>1, <1>3, <2>1, <2>2, AnsweringKeepsEnd
<1> QED  BY <1>2, <1>3

\* continueDoData passes the end on only when Go knows of it.
LEMMA ContinueDoDataItems ==
    ASSUME NEW d \in Dir, NEW q \in Processor, ContinueDoData(d, q)
    PROVE  /\ \E n \in {q, ClearAll(q)} : ps' = [ps EXCEPT ![d] = n]
           /\ \/ out' = out
              \/ \E items \in Seq(Item) : /\ out' = Passed(d, items)
                                          /\ {End, Trl} \cap ToSet(items) # {} => q.doEndStream
<1>1. DataList(q) \in Seq(Chunks) /\ q.doEndStream \in BOOLEAN
  BY DataListType DEF Processor
<1>2. CASE NothingToDo(q)
  BY <1>2 DEF ContinueDoData
<1>3. CASE ~NothingToDo(q)
  <2>1. ps' = [ps EXCEPT ![d] = ClearAll(q)] /\ out' = Passed(d, DataList(q) \o EndIf(q.doEndStream))
    BY <1>3 DEF ContinueDoData
  <2>2. /\ DataList(q) \o EndIf(q.doEndStream) \in Seq(Item)
        /\ {End, Trl} \cap ToSet(DataList(q) \o EndIf(q.doEndStream)) # {} => q.doEndStream
    BY <1>1, MarkedItems
  <2> QED  BY <2>1, <2>2
<1> QED  BY <1>2, <1>3

\* The first step of continueStatusInternal: the headers, or what Go was shown
\* of the data, and the end only when Go knows of it.
LEMMA ContinueStatusItems ==
    ASSUME NEW d \in Dir, NEW status, ps[d] \in Processor, fed[d] # <<>>,
           NEW q \in Processor, q = HandleGolangStatus(ps[d], status), Flags(q, fed[d]),
           ContinueStatusInternal(d, status, <<>>)
    PROVE  /\ \E n \in {q, ClearAll(q)} : ps' = [ps EXCEPT ![d] = n]
           /\ \/ out' = out
              \/ /\ status = "Continue"
                 /\ \E items \in Seq(Item) : /\ out' = Passed(d, items)
                                             /\ {End, Trl} \cap ToSet(items) # {} => q.doEndStream
           /\ Head(stack').at = "forwardedTrailerData" => q.state = "Done"
<1>0. \A label : /\ Head(<<At(label, d)>> \o <<>>).at = label
  <2>1. \A label : <<At(label, d)>> \o <<>> = <<At(label, d)>> /\ Head(<<At(label, d)>>) = At(label, d)
    OBVIOUS
  <2> QED  BY <2>1 DEF At
<1>1. CASE /\ IsDone(status) /\ MayResumeHeaders(q)
           /\ ps' = [ps EXCEPT ![d] = q]
           /\ out' = Resumed(d) /\ stack' = <<At("forwarded", d)>> \o <<>>
  <2>1. PICK items \in Seq(Item) : /\ Resumed(d) = Passed(d, items)
                                   /\ {End, Trl} \cap ToSet(items) # {} => Ended(fed[d])
    BY ResumedItems
  <2>2. Ended(fed[d]) => q.doEndStream
    BY <1>1 DEF Ended, Flags, MayResumeHeaders, IsStreamEnd
  <2>3. Head(stack').at = "forwarded"
    BY <1>0, <1>1
  <2> QED  BY <1>1, <2>1, <2>2, <2>3 DEF IsDone
<1>2. CASE /\ ps' = [ps EXCEPT ![d] = q] /\ out' = out
           /\ stack' = <<At("checkData", d)>> \o <<>>
  <2>1. Head(stack').at = "checkData"
    BY <1>0, <1>2
  <2> QED  BY <1>2, <2>1
<1>3. CASE /\ IsDone(status) /\ ContinueDoData(d, q)
           /\ \E label \in {"checkData", "forwarded"} : stack' = <<At(label, d)>> \o <<>>
  <2>1. Head(stack').at # "forwardedTrailerData"
    BY <1>0, <1>3
  <2> QED  BY <1>3, <2>1, ContinueDoDataItems DEF IsDone
<1>4. CASE /\ IsDone(status) /\ ps[d].state = "ProcessingTrailer" /\ ContinueDoData(d, q)
           /\ stack' = <<At("forwardedTrailerData", d)>> \o <<>>
  <2>1. q = HandleTrailerGolangStatus(ps[d], "Continue")
    BY <1>4 DEF HandleGolangStatus, IsDone
  <2>2. q.state = "Done"
    BY <2>1 DEF HandleTrailerGolangStatus, Processor
  <2> QED  BY <1>4, <2>2, ContinueDoDataItems DEF IsDone
<1> QED  BY <1>1, <1>2, <1>3, <1>4 DEF ContinueStatusInternal

LEMMA GoReturnEnd ==
    ASSUME SerialInv, EndInv, GoReturn
    PROVE  EndInv' /\ crashed' = crashed
<1> PICK call \in go, status \in GolangStatus :
        \/ HeadersReturn(call, status)
        \/ DataReturn(call, status)
        \/ TrailerReturn(call, status)
        \/ TrailerDataReturn(call, status)
        \/ ResumeDataReturn(call, status)
        \/ ResumeTrailerReturn(call, status)
        \/ LocalReplyHeadersReturn(call, status)
  BY DEF GoReturn
<1> DEFINE d == call.dir
           q == HandleGolangStatus(ps[d], status)
<1>1. /\ {"doHeaders", "doData", "doTrailer", "doTrailerData", "localReplyHeaders",
          "resumeData", "resumeTrailer"} \subseteq GoFrames
      /\ FrameKind("doHeaders") = "headers" /\ FrameKind("localReplyHeaders") = "headers"
      /\ FrameKind("doData") = "data" /\ FrameKind("doTrailerData") = "data"
      /\ FrameKind("resumeData") = "data"
      /\ FrameKind("doTrailer") = "trailers" /\ FrameKind("resumeTrailer") = "trailers"
  BY DEF GoFrames, FrameKind
<1>2. UNCHANGED <<fed, enterEncoding, localReplyWaitingGo, localTrailers, trailers,
                  hasDestroyed, closed, reason, dynamicLib>>
  BY DEF HeadersReturn, DataReturn, TrailerReturn, TrailerDataReturn, ResumeDataReturn,
         ResumeTrailerReturn, LocalReplyHeadersReturn, filterVars, lifeVars, replyVars
<1>3. call \in Call /\ call.end \in BOOLEAN
  BY DEF SerialInv, TypeOK, Call
<1> HIDE DEF q
<1>4. ASSUME NEW at \in GoFrames, GoReturns(at, call, status)
      PROVE  /\ call.dir = Cur /\ Cur \in Dir /\ ps[Cur] \in Processor /\ fed[Cur] # <<>>
             /\ q = HandleGolangStatus(ps[Cur], status)
             /\ q \in Processor /\ Flags(q, fed[Cur]) /\ q.doEndStream = call.end
             /\ FrameKind(at) = "trailers" /\ status = "Continue" => q.state = "Done"
             /\ Tail(stack) # <<>> => Head(Tail(stack)).at # "forwardedTrailerData"
  <2>1. /\ call.dir = Cur /\ Cur \in Dir /\ ps[Cur] \in Processor /\ call.kind = FrameKind(at)
        /\ call.kind = "trailers" => call.end
        /\ Tail(stack) \in {<<>>, <<ReplyBody>>}
    BY <1>4, GoFrame
  <2>2. q = HandleGolangStatus(ps[Cur], status)
    BY <2>1 DEF q
  <2>3. /\ fed[Cur] # <<>> /\ q \in Processor /\ Flags(q, fed[Cur]) /\ q.doEndStream = call.end
        /\ status = "Continue" /\ call.end => q.state = "Done"
    BY <1>4, <2>2, AnswerMarks
  <2>4. Head(<<ReplyBody>>).at = "replyBody"
    BY DEF ReplyBody, At
  <2> QED  BY <2>1, <2>2, <2>3, <2>4
<1>5. CASE HeadersReturn(call, status)
  <2>1. GoReturns("doHeaders", call, status) /\ stack' = Tail(stack)
    BY <1>5 DEF HeadersReturn, Return
  <2>2. q = HandleHeaderGolangStatus(ps[d], status)
    BY <1>1, <2>1, AnswerAt DEF q
  <2>3. ps' = [ps EXCEPT ![d] = q]
    BY <1>5, <2>2 DEF HeadersReturn
  <2>4. \/ status = "Continue" /\ out' = Passed(d, EndIf(call.end))
        \/ out' = out /\ headers' = headers
    BY <1>5 DEF HeadersReturn, IsDone
  <2>5. EndIf(call.end) \in Seq(Item) /\ ({End, Trl} \cap ToSet(EndIf(call.end)) # {} => call.end)
    BY <1>3, ItemTypes, MarkedItems, EmptySeq
  <2> QED  BY <1>1, <1>2, <1>4, <2>1, <2>3, <2>4, <2>5, ReturningKeepsEnd
<1>6. CASE DataReturn(call, status)
  <2>1. GoReturns("doData", call, status) /\ stack' = Tail(stack)
    BY <1>6 DEF DataReturn, Return
  <2>2. q = HandleDataGolangStatus(ps[d], status)
    BY <1>1, <2>1, AnswerAt DEF q
  <2>3. \/ /\ status = "Continue"
           /\ ps' = [ps EXCEPT ![d] = ClearAll(q)]
           /\ out' = Passed(d, DataList(q) \o EndIf(call.end))
        \/ ps' = [ps EXCEPT ![d] = q] /\ out' = out
    BY <1>6, <2>2 DEF DataReturn, IsDone
  <2>4. /\ DataList(q) \o EndIf(call.end) \in Seq(Item)
        /\ {End, Trl} \cap ToSet(DataList(q) \o EndIf(call.end)) # {} => call.end
    BY <1>1, <1>3, <1>4, <2>1, MarkedItems, DataListType
  <2>5. headers' = headers
    BY <1>6 DEF DataReturn, filterVars
  <2>6. /\ d = Cur /\ q = HandleGolangStatus(ps[Cur], status)
        /\ stack' # <<>> => Head(stack').at # "forwardedTrailerData"
    BY <1>1, <1>4, <2>1
  <2>7. \/ out' = out
        \/ /\ status = "Continue"
           /\ \E items \in Seq(Item) : /\ out' = Passed(Cur, items)
                                       /\ {End, Trl} \cap ToSet(items) # {} => call.end \/ q.state = "Done"
    BY <2>3, <2>4, <2>6
  <2>8. PICK n \in {q, ClearAll(q)} : ps' = [ps EXCEPT ![Cur] = n]
    BY <2>3, <2>6
  <2> QED  BY <1>1, <1>2, <2>1, <2>5, <2>6, <2>7, <2>8, ReturningKeepsEnd
<1>7. CASE TrailerReturn(call, status)
  <2>1. GoReturns("doTrailer", call, status) /\ stack' = Tail(stack)
    BY <1>7 DEF TrailerReturn, Return
  <2>2. q = HandleTrailerGolangStatus(ps[d], status)
    BY <1>1, <2>1, AnswerAt DEF q
  <2>3. ps' = [ps EXCEPT ![d] = q] /\ headers' = headers
    BY <1>7, <2>2 DEF TrailerReturn, filterVars
  <2>4. \/ status = "Continue" /\ out' = Passed(d, <<Trl>>)
        \/ out' = out
    BY <1>7 DEF TrailerReturn, IsDone
  <2>5. <<Trl>> \in Seq(Item)
    BY ItemTypes
  <2> QED  BY <1>1, <1>2, <1>4, <2>1, <2>3, <2>4, <2>5, ReturningKeepsEnd
<1>8. CASE TrailerDataReturn(call, status)
  <2>1. GoReturns("doTrailerData", call, status)
    BY <1>8 DEF TrailerDataReturn
  <2>2. q = HandleDataGolangStatus(ps[d], status) /\ Tail(stack) = <<>>
    BY <1>1, <2>1, AnswerAt DEF q
  <2>3. ps' = [ps EXCEPT ![d] = q] /\ headers' = headers /\ out' = out
    BY <1>8, <2>2 DEF TrailerDataReturn, filterVars
  <2>4. stack' # <<>> => Head(stack').at # "forwardedTrailerData"
    <3>1. /\ <<At("trailerAfterData", d)>> \o <<>> = <<At("trailerAfterData", d)>>
          /\ Head(<<At("trailerAfterData", d)>>) = At("trailerAfterData", d)
      OBVIOUS
    <3>2. stack' \in {<<At("trailerAfterData", d)>> \o <<>>, <<>>}
      BY <1>8, <2>2 DEF TrailerDataReturn
    <3> QED  BY <3>1, <3>2 DEF At
  <2> QED  BY <1>1, <1>2, <1>4, <2>1, <2>3, <2>4, ReturningKeepsEnd
<1>9. CASE ResumeDataReturn(call, status)
  <2>1. GoReturns("resumeData", call, status)
    BY <1>9 DEF ResumeDataReturn
  <2>2. q = HandleDataGolangStatus(ps[d], status) /\ Tail(stack) = <<>>
    BY <1>1, <2>1, AnswerAt DEF q
  <2>3. \/ status = "Continue" /\ ContinueDoData(d, q)
        \/ ps' = [ps EXCEPT ![d] = q] /\ out' = out
    BY <1>9, <2>2 DEF ResumeDataReturn, IsDone
  <2>8. /\ d = Cur /\ d \in Dir /\ q \in Processor /\ q.doEndStream = call.end
        /\ q = HandleGolangStatus(ps[Cur], status)
    BY <1>1, <1>4, <2>1
  <2>4. /\ \E n \in {q, ClearAll(q)} : ps' = [ps EXCEPT ![Cur] = n]
        /\ \/ out' = out
           \/ /\ status = "Continue"
              /\ \E items \in Seq(Item) :
                    /\ out' = Passed(Cur, items)
                    /\ {End, Trl} \cap ToSet(items) # {} => call.end \/ q.state = "Done"
    <3>1. CASE status = "Continue" /\ ContinueDoData(d, q)
      <4>1. /\ \E n \in {q, ClearAll(q)} : ps' = [ps EXCEPT ![d] = n]
            /\ \/ out' = out
               \/ \E items \in Seq(Item) : /\ out' = Passed(d, items)
                                           /\ {End, Trl} \cap ToSet(items) # {} => q.doEndStream
        BY <2>8, <3>1, ContinueDoDataItems
      <4> QED  BY <2>8, <3>1, <4>1
    <3>2. CASE ps' = [ps EXCEPT ![d] = q] /\ out' = out
      BY <2>8, <3>2
    <3> QED  BY <2>3, <3>1, <3>2
  <2>5. stack' # <<>> => Head(stack').at # "forwardedTrailerData"
    <3>1. \A label : /\ <<At(label, d)>> \o <<>> = <<At(label, d)>>
                     /\ Head(<<At(label, d)>>) = At(label, d)
      OBVIOUS
    <3>2. stack' \in {<<At("checkTrailer", d)>> \o <<>>, <<At("forwardedData", d)>> \o <<>>, <<>>}
      BY <1>9, <2>2 DEF ResumeDataReturn, Return
    <3> QED  BY <3>1, <3>2 DEF At
  <2>6. headers' = headers
    BY <1>9 DEF ResumeDataReturn, filterVars
  <2>7. PICK n \in {q, ClearAll(q)} : ps' = [ps EXCEPT ![Cur] = n]
    BY <2>4
  <2>9. \/ out' = out
        \/ /\ status = "Continue"
           /\ \E items \in Seq(Item) :
                 /\ out' = Passed(Cur, items)
                 /\ {End, Trl} \cap ToSet(items) # {} => call.end \/ q.state = "Done"
    BY <2>4
  <2> QED  BY <1>1, <1>2, <2>1, <2>5, <2>6, <2>7, <2>8, <2>9, ReturningKeepsEnd
<1>10. CASE ResumeTrailerReturn(call, status)
  <2>1. GoReturns("resumeTrailer", call, status) /\ stack' = Tail(stack)
    BY <1>10 DEF ResumeTrailerReturn, Return
  <2>2. q = HandleTrailerGolangStatus(ps[d], status)
    BY <1>1, <2>1, AnswerAt DEF q
  <2>3. ps' = [ps EXCEPT ![d] = q] /\ headers' = headers
    BY <1>10, <2>2 DEF ResumeTrailerReturn, filterVars
  <2>4. \/ status = "Continue" /\ out' = Resumed(d)
        \/ out' = out
    BY <1>10 DEF ResumeTrailerReturn, IsDone
  <2>5. \E items \in Seq(Item) : Resumed(d) = Passed(d, items)
    BY <1>1, <1>4, <2>1, ResumedItems
  <2> QED  BY <1>1, <1>2, <1>4, <2>1, <2>3, <2>4, <2>5, ReturningKeepsEnd
<1>11. CASE LocalReplyHeadersReturn(call, status)
  <2>1. GoReturns("localReplyHeaders", call, status)
    BY <1>11 DEF LocalReplyHeadersReturn
  <2>2. Tail(stack) = <<>>
    BY <1>1, <2>1, AnswerAt DEF q
  <2>3. ContinueStatusInternal(Cur, status, <<>>) /\ headers' = headers
    BY <1>1, <1>4, <1>11, <2>1, <2>2 DEF LocalReplyHeadersReturn, filterVars
  <2>4. /\ \E n \in {q, ClearAll(q)} : ps' = [ps EXCEPT ![Cur] = n]
        /\ \/ out' = out
           \/ /\ status = "Continue"
              /\ \E items \in Seq(Item) : /\ out' = Passed(Cur, items)
                                          /\ {End, Trl} \cap ToSet(items) # {} => q.doEndStream
        /\ Head(stack').at = "forwardedTrailerData" => q.state = "Done"
    BY <1>1, <1>4, <2>1, <2>3, ContinueStatusItems
  <2>5. PICK n \in {q, ClearAll(q)} : ps' = [ps EXCEPT ![Cur] = n]
    BY <2>4
  <2>6. q.doEndStream = call.end /\ q = HandleGolangStatus(ps[Cur], status)
    BY <1>1, <1>4, <2>1
  <2>7. \/ out' = out
        \/ /\ status = "Continue"
           /\ \E items \in Seq(Item) : /\ out' = Passed(Cur, items)
                                       /\ {End, Trl} \cap ToSet(items) # {} => call.end \/ q.state = "Done"
    BY <2>4, <2>6
  <2>8. Head(stack').at = "forwardedTrailerData" => q.state = "Done"
    BY <2>4
  <2> QED  BY <1>1, <1>2, <2>1, <2>3, <2>5, <2>6, <2>7, <2>8, ReturningKeepsEnd
<1> QED  BY <1>5, <1>6, <1>7, <1>8, <1>9, <1>10, <1>11

LEMMA ContinueEventEnd ==
    ASSUME SerialInv, EndInv, ContinueEvent
    PROVE  EndInv' /\ crashed' = crashed
<1> DEFINE call == posted[1].call
           status == posted[1].status
           q == HandleGolangStatus(ps[Cur], status)
<1>1. /\ NextEvent({"continue"}) /\ ~hasDestroyed /\ ~localReplyWaitingGo
      /\ ContinueStatusInternal(Cur, Head(posted).status, <<>>)
  BY DEF ContinueEvent
<1>2. UNCHANGED <<go, calls, fed, enterEncoding, localReplyWaitingGo, localTrailers, trailers, headers,
                  hasDestroyed, closed, reason, dynamicLib, crashed>>
  BY DEF ContinueEvent, filterVars, lifeVars, replyVars, goVars
<1>3. /\ go = {} /\ posted' = <<>> /\ posted # <<>>
      /\ Head(posted) = posted[1] /\ posted[1] \in Event /\ posted[1].act = "continue"
      /\ call \in Unanswered /\ call \in Call /\ dynamicLib /\ Cur \in Dir /\ ps[Cur] \in Processor
      /\ ps[Cur].state = Processing(call.kind) /\ ~call.refused
  BY <1>1, TakenEvent DEF NextEvent
<1>4. status \in Allowed(call) /\ ~closed
  <2>1. posted \in Seq(Event)
    BY DEF SerialInv, TypeOK
  <2>2. Len(posted) = 1
    BY <1>3, OnePosted DEF SerialInv, CallsInv
  <2>3. 1 \in DOMAIN posted
    BY <2>1, <2>2, LenProperties
  <2> QED  BY <1>3, <2>3 DEF SerialInv, CallsInv, PostedIsAllowed, EndInv, NothingAfterEnd
<1>5. call.end = ps[Cur].doEndStream /\ Flags(ps[Cur], fed[Cur]) /\ Sound(ps[Cur])
  BY <1>3 DEF EndInv, EndsFit, MarksFit
<1>6. ContinueStatusInternal(Cur, status, <<>>)
  BY <1>1, <1>3
<1> HIDE DEF call, status
<1>7. /\ q \in Processor /\ Flags(q, fed[Cur]) /\ q.doEndStream = ps[Cur].doEndStream
      /\ status = "Continue" => (ps[Cur].doEndStream => q.state = "Done")
  BY <1>3, <1>4, <1>5, AnswersKeepMarks
<1>8. InGo(ps[Cur]) /\ fed[Cur] # <<>>
  BY <1>3, ProcessingIsInGo, WorkedOn DEF Call
<1>9. q = HandleGolangStatus(ps[Cur], status)
  OBVIOUS
<1> HIDE DEF q
<1>10. /\ \E n \in {q, ClearAll(q)} : ps' = [ps EXCEPT ![Cur] = n]
       /\ \/ out' = out
          \/ /\ status = "Continue"
             /\ \E items \in Seq(Item) : /\ out' = Passed(Cur, items)
                                         /\ {End, Trl} \cap ToSet(items) # {} => q.doEndStream
       /\ Head(stack').at = "forwardedTrailerData" => q.state = "Done"
  BY <1>3, <1>6, <1>7, <1>8, <1>9, ContinueStatusItems
<1>11. PICK n \in {q, ClearAll(q)} : ps' = [ps EXCEPT ![Cur] = n]
  BY <1>10
<1>12. Unanswered' = {} /\ (Head(stack').at = "forwardedTrailerData" => q.state = "Done")
  BY <1>2, <1>3, <1>10 DEF Unanswered
<1>13. CASE out' = out
  <2>1. <<>> \in Seq(Item) /\ {End, Trl} \cap ToSet(<<>>) = {}
    BY DEF ToSet
  <2> QED  BY <1>1, <1>2, <1>3, <1>4, <1>9, <1>11, <1>12, <1>13, <2>1, AnsweringKeepsEnd
<1>14. CASE /\ status = "Continue"
            /\ \E items \in Seq(Item) : /\ out' = Passed(Cur, items)
                                        /\ {End, Trl} \cap ToSet(items) # {} => q.doEndStream
  <2>1. PICK items \in Seq(Item) : /\ out' = Passed(Cur, items)
                                   /\ {End, Trl} \cap ToSet(items) # {} => q.doEndStream
    BY <1>14
  <2>2. {End, Trl} \cap ToSet(items) # {} => q.state = "Done"
    BY <1>7, <1>14, <2>1
  <2> QED  BY <1>1, <1>2, <1>3, <1>4, <1>9, <1>11, <1>12, <1>14, <2>1, <2>2, AnsweringKeepsEnd
<1> QED  BY <1>10, <1>13, <1>14

-----------------------------------------------------------------------------
(* The worker goes on by itself                                            *)

\* The worker moves on, and passes on only what Go is done with.
LEMMA MovingKeepsEnd ==
    ASSUME SerialInv, EndInv, dynamicLib, stack # <<>>, Cur \in Dir,
           \/ stack' = <<>>
           \/ \E label \in {"forwarded", "checkTrailer"} : stack' = <<At(label, Cur)>>,
           \/ out' = out
           \/ ps[Cur].state = "Done" /\ \E items \in Seq(Item) : out' = Passed(Cur, items),
           hasDestroyed => ps[Cur].state = "Done",
           UNCHANGED <<ps, go, posted, calls, fed, enterEncoding, localReplyWaitingGo, localTrailers,
                       headers, trailers, hasDestroyed, closed, reason, dynamicLib>>
    PROVE  EndInv'
<1>0. Cur' = Cur /\ Unanswered' = Unanswered
  BY DEF Cur, Unanswered
<1>1. stack' # <<>> => Head(stack').at \in {"forwarded", "checkTrailer"}
  BY DEF At
<1>2. \A e \in Dir : e # Cur => out'[e] = out[e]
  <2>1. CASE out' = out
    BY <2>1
  <2>2. CASE \E items \in Seq(Item) : out' = Passed(Cur, items)
    BY <2>2, PassedItems DEF SerialInv
  <2> QED  BY <2>1, <2>2
<1>3. MarksFit' /\ EndsFit' /\ TrailersReached'
  BY <1>0 DEF EndInv, MarksFit, EndsFit, TrailersReached
<1>4. Started'
  <2>1. fed["decode"] = <<>> => (Cur = "decode" => ps["decode"].state # "Done")
    BY DEF SerialInv, FlowInv, StreamOrder
  <2>2. fed'["decode"] = <<>> => out'["decode"] = <<>>
    <3>1. CASE Cur = "decode"
      BY <2>1, <3>1 DEF EndInv, Started
    <3>2. CASE Cur # "decode"
      BY <1>2, <3>2 DEF EndInv, Started, Dir
    <3> QED  BY <3>1, <3>2
  <2>3. ~enterEncoding' => out'["encode"] = <<>> /\ ps'["encode"].state = "WaitingHeader"
    BY <1>2 DEF EndInv, Started, Cur, Dir
  <2> QED  BY <2>2, <2>3 DEF EndInv, Started
<1>5. HeadersHeldBack'
  BY <1>0 DEF EndInv, HeadersHeldBack
<1>6. EndIsDone'
  BY <1>0, <1>1 DEF EndInv, EndIsDone
<1>7. NothingAfterEnd'
  <2>1. {"forwarded", "checkTrailer"} \subseteq Forwarding \cup {"checkData", "checkTrailer"}
    BY DEF Forwarding
  <2> QED  BY <1>0, <1>1, <2>1 DEF EndInv, NothingAfterEnd
<1> QED  BY <1>3, <1>4, <1>5, <1>6, <1>7 DEF EndInv

\* A place of the filter the worker is in: the stream lives, or it is over for Go.
LEMMA FilterFrameEnd ==
    ASSUME SerialInv, EndInv, stack # <<>>,
           Head(stack).at \in Forwarding \cup {"checkData", "checkTrailer", "trailerAfterData"}
    PROVE  /\ Head(stack).dir = Cur /\ Cur \in Dir /\ dynamicLib /\ Tail(stack) = <<>>
           /\ ps[Cur] \in Processor /\ Flags(ps[Cur], fed[Cur]) /\ Sound(ps[Cur])
           /\ ps[Cur].seenTrailers => Cur \in WithTrailers
           /\ ~closed /\ (ps[Cur].state # "Done" => ~hasDestroyed)
           /\ Head(stack).at = "trailerAfterData" => ps[Cur].state = "WaitingTrailer"
<1>1. /\ Head(stack).dir = Cur /\ Cur \in Dir /\ dynamicLib /\ Tail(stack) = <<>>
      /\ Head(stack).at = "trailerAfterData" => ps[Cur].state = "WaitingTrailer"
  BY FilterFrame
<1>2. /\ ps[Cur] \in Processor /\ Flags(ps[Cur], fed[Cur]) /\ Sound(ps[Cur])
      /\ ps[Cur].seenTrailers => Cur \in WithTrailers
  BY <1>1 DEF SerialInv, TypeOK, EndInv, MarksFit
<1>3. ~closed /\ (hasDestroyed => ps[Cur].state = "Done")
  BY <1>1 DEF EndInv, NothingAfterEnd
<1> QED  BY <1>1, <1>2, <1>3

LEMMA TrailersForwardedEnd ==
    ASSUME SerialInv, EndInv, TrailersForwarded
    PROVE  EndInv' /\ crashed' = crashed
<1>1. /\ stack # <<>> /\ Head(stack).at = "forwardedTrailerData"
      /\ UNCHANGED <<ps, go, posted, calls, fed, enterEncoding, localReplyWaitingGo, localTrailers,
                     headers, trailers, hasDestroyed, closed, reason, dynamicLib, crashed>>
  BY DEF TrailersForwarded, filterVars, lifeVars, replyVars, goVars
<1>2. Head(stack).at \in Forwarding
  BY <1>1 DEF Forwarding
<1>3. Head(stack).dir = Cur /\ Cur \in Dir /\ dynamicLib /\ Tail(stack) = <<>>
  BY <1>1, <1>2, FilterFrameEnd
<1>4. ps[Cur].state = "Done"
  BY <1>1, <1>3 DEF EndInv, EndIsDone
<1>5. fed[Cur] # <<>>
  BY <1>3, <1>4 DEF SerialInv, FlowInv, StreamOrder, Cur
<1>6. \E items \in Seq(Item) : Resumed(Cur) = Passed(Cur, items)
  BY <1>3, <1>5, ResumedItems
<1>7. out' = Resumed(Cur) /\ stack' = <<At("forwarded", Cur)>>
  <2>1. out' = Resumed(Cur) /\ stack' = <<At("forwarded", Cur)>> \o <<>>
    BY <1>3 DEF TrailersForwarded
  <2> QED  BY <2>1
<1> QED  BY <1>1, <1>3, <1>4, <1>6, <1>7, MovingKeepsEnd

\* The worker enters Go again from a place of the filter.
LEMMA GoingOnKeepsEnd ==
    ASSUME SerialInv, EndInv, stack # <<>>,
           Head(stack).at \in Forwarding \cup {"checkData", "checkTrailer", "trailerAfterData"},
           ps[Cur].state \in {"WaitingData", "WaitingAllData", "WaitingTrailer"},
           NEW p, ps' = [ps EXCEPT ![Cur] = p], Flags(p, fed[Cur]), Sound(p),
           p.seenTrailers = ps[Cur].seenTrailers,
           NEW kind \in {"data", "trailers"}, p.state = Processing(kind),
           NEW b \in BOOLEAN, p.doEndStream = b, NEW items, NEW at \in GoFrames, NEW rest,
           CallGo(Cur, kind, b, items, at, rest),
           UNCHANGED <<posted, fed, enterEncoding, localReplyWaitingGo, localTrailers, trailers, out,
                       hasDestroyed, closed, reason, dynamicLib>>
    PROVE  EndInv' /\ crashed' = crashed
<1>1. /\ Cur \in Dir /\ dynamicLib /\ ~closed /\ ~hasDestroyed
      /\ ps[Cur].seenTrailers => Cur \in WithTrailers
  BY FilterFrameEnd
<1> DEFINE d == Cur
<1>2. /\ d \in Dir /\ TypeOK /\ MarksFit /\ \A e \in Dir : e # d => fed'[e] = fed[e]
      /\ Flags(p, fed'[d]) /\ ps' = [ps EXCEPT ![d] = p] /\ (p.seenTrailers => d \in WithTrailers)
  BY <1>1, FilterFrameEnd DEF SerialInv, EndInv
<1>3. ps[d].state # "Done" /\ ~InGo(ps[d]) /\ CallGo(d, kind, b, items, at, rest) /\ Cur = d
  BY DEF InGo
<1> HIDE DEF d
<1>4. MarksFit' /\ ps'[d] = p /\ \A e \in Dir : e # d => ps'[e] = ps[e]
  BY <1>2, OneMark
<1>5. TrailersReached'
  <2>1. \A e \in Dir : ps'[e].seenTrailers <=> ps[e].seenTrailers
    BY <1>3, <1>4
  <2> QED  BY <1>1, <2>1, TrailersStay DEF EndInv
<1> QED  BY <1>1, <1>2, <1>3, <1>4, <1>5, ReenteringKeepsEnd

LEMMA TrailerGoEnd ==
    ASSUME SerialInv, EndInv, stack # <<>>,
           Head(stack).at \in Forwarding \cup {"checkData", "checkTrailer", "trailerAfterData"},
           ps[Cur].state = "WaitingTrailer", NEW at \in GoFrames, NEW rest,
           DoTrailerGo(Cur, ps[Cur], at, rest), UNCHANGED <<filterVars, posted, streamVars>>
    PROVE  EndInv' /\ crashed' = crashed
<1> DEFINE p == ProcessTrailer(ps[Cur])
<1>1. ps[Cur] \in Processor /\ Flags(ps[Cur], fed[Cur]) /\ Sound(ps[Cur])
  BY FilterFrameEnd
<1>2. ps[Cur].seenTrailers /\ (ps[Cur].dataBuffer # <<>> => ps[Cur].hasBuffer)
  BY <1>1 DEF Sound
<1>3. /\ Flags(p, fed[Cur]) /\ Sound(p) /\ p.doEndStream = TRUE
      /\ p.state = "ProcessingTrailer" /\ p.seenTrailers
  BY <1>1, <1>2, TrailersKeepMarks
<1>4. p.seenTrailers = ps[Cur].seenTrailers
  BY <1>1 DEF ProcessTrailer, Processor
<1>5. ps' = [ps EXCEPT ![Cur] = p] /\ CallGo(Cur, "trailers", TRUE, <<Trl>>, at, rest)
  BY DEF DoTrailerGo
<1>6. UNCHANGED <<posted, fed, enterEncoding, localReplyWaitingGo, localTrailers, trailers, out,
                  hasDestroyed, closed, reason, dynamicLib>>
  BY DEF filterVars, lifeVars, replyVars, streamVars
<1>7. Processing("trailers") = "ProcessingTrailer"
  BY DEF Processing
<1> HIDE DEF p
<1> QED  BY <1>3, <1>4, <1>5, <1>6, <1>7, GoingOnKeepsEnd

LEMMA TrailerAfterDataEnd ==
    ASSUME SerialInv, EndInv, TrailerAfterData
    PROVE  EndInv' /\ crashed' = crashed
<1>1. /\ stack # <<>> /\ Head(stack).at = "trailerAfterData"
      /\ DoTrailerGo(Head(stack).dir, ps[Head(stack).dir], "doTrailer", Tail(stack))
      /\ UNCHANGED <<filterVars, posted, streamVars>>
  BY DEF TrailerAfterData
<1>2. Head(stack).dir = Cur /\ ps[Cur].state = "WaitingTrailer"
  BY <1>1, FilterFrameEnd
<1>3. "doTrailer" \in GoFrames
  BY DEF GoFrames
<1> QED  BY <1>1, <1>2, <1>3, TrailerGoEnd

LEMMA ResumeTrailerEnd ==
    ASSUME SerialInv, EndInv, ResumeTrailer
    PROVE  EndInv' /\ crashed' = crashed
<1>1. /\ stack # <<>> /\ Head(stack).at \in {"checkTrailer", "forwardedData"}
      /\ UNCHANGED <<filterVars, posted, streamVars>>
  BY DEF ResumeTrailer
<1>2. Head(stack).at \in Forwarding \cup {"checkData", "checkTrailer", "trailerAfterData"}
  BY <1>1 DEF Forwarding
<1>3. /\ Head(stack).dir = Cur /\ Cur \in Dir /\ dynamicLib /\ Tail(stack) = <<>>
      /\ ps[Cur].state # "Done" => ~hasDestroyed
  BY <1>1, <1>2, FilterFrameEnd
<1>4. CASE /\ ps[Cur].state = "WaitingTrailer"
           /\ DoTrailerGo(Cur, ps[Cur], "resumeTrailer", <<>>)
  <2>1. "resumeTrailer" \in GoFrames
    BY DEF GoFrames
  <2> QED  BY <1>1, <1>2, <1>4, <2>1, TrailerGoEnd
<1>5. CASE stack' = <<>> /\ UNCHANGED <<ps, goVars, crashed>>
  <2>1. UNCHANGED <<ps, go, posted, calls, fed, enterEncoding, localReplyWaitingGo, localTrailers,
                    headers, trailers, hasDestroyed, closed, reason, dynamicLib, out>>
    BY <1>1, <1>5 DEF filterVars, lifeVars, replyVars, goVars, streamVars
  <2> QED  BY <1>1, <1>3, <1>5, <2>1, MovingKeepsEnd
<1> QED  BY <1>3, <1>4, <1>5 DEF ResumeTrailer, Return

\* getBufferData() finds no buffer only when trailers ended a message without
\* a body that Go wanted to have whole.
LEMMA ResumeDataEnd ==
    ASSUME SerialInv, EndInv, ResumeData
    PROVE  /\ EndInv'
           /\ crashed' = crashed \/ (ps[Cur].state = "WaitingAllData" /\ ps[Cur].seenTrailers)
<1>1. /\ stack # <<>> /\ Head(stack).at \in {"checkData", "forwarded"}
      /\ UNCHANGED <<filterVars, posted, streamVars>>
      /\ UNCHANGED <<posted, fed, enterEncoding, localReplyWaitingGo, localTrailers, trailers, headers,
                     out, hasDestroyed, closed, reason, dynamicLib>>
  BY DEF ResumeData, filterVars, lifeVars, replyVars, streamVars
<1>2. Head(stack).at \in Forwarding \cup {"checkData", "checkTrailer", "trailerAfterData"}
  BY <1>1 DEF Forwarding
<1>3. /\ Head(stack).dir = Cur /\ Cur \in Dir /\ dynamicLib /\ Tail(stack) = <<>>
      /\ ps[Cur] \in Processor /\ Flags(ps[Cur], fed[Cur]) /\ Sound(ps[Cur])
      /\ ps[Cur].state # "Done" => ~hasDestroyed
  BY <1>1, <1>2, FilterFrameEnd
<1> DEFINE old == ps[Cur]
           taken == TakeBuffer(old)
<1>4. CASE /\ MoreData(old) /\ old.hasBuffer
           /\ DoDataGo(Cur, taken, old.dataBuffer, old.endStream, "resumeData", <<>>)
  <2>1. old.state \in {"WaitingData", "WaitingAllData", "WaitingTrailer"} /\ old.endStream \in BOOLEAN
    BY <1>3, <1>4 DEF MoreData, Processor
  <2>0. PICK b \in BOOLEAN : b = old.endStream
    BY <2>1
  <2> DEFINE p == Push(ProcessData(taken, b), old.dataBuffer)
  <2>2. /\ taken \in Processor /\ Flags(taken, fed[Cur]) /\ taken.endStream = old.endStream
        /\ taken.seenTrailers = old.seenTrailers /\ taken.hasBuffer = old.hasBuffer
    BY <1>3, ListsKeepMarks
  <2>3. /\ ps' = [ps EXCEPT ![Cur] = p]
        /\ CallGo(Cur, "data", b, old.dataBuffer \o EndIf(b), "resumeData", <<>>)
    BY <1>4, <2>0 DEF DoDataGo
  <2>4. "resumeData" \in GoFrames /\ Processing("data") = "ProcessingData" /\ old.hasBuffer
    BY <1>4 DEF GoFrames, Processing
  <2>5. ps[Cur].state \in {"WaitingData", "WaitingAllData", "WaitingTrailer"}
    BY <2>1
  <2>6. old.seenTrailers = ps[Cur].seenTrailers
    OBVIOUS
  <2> HIDE DEF old, taken
  <2>7. /\ Flags(p, fed[Cur]) /\ Sound(p) /\ p.doEndStream = b
        /\ p.state = "ProcessingData" /\ p.seenTrailers = taken.seenTrailers
    <3>1. (b => taken.endStream) /\ (taken.dataBuffer # <<>> => taken.hasBuffer)
          /\ (taken.endStream => b \/ taken.hasBuffer)
      BY <2>0, <2>2, <2>4
    <3> QED  BY <2>2, <3>1, EnteringKeepsMarks
  <2> HIDE DEF p
  <2> QED  BY <1>1, <1>2, <2>1, <2>2, <2>3, <2>4, <2>5, <2>6, <2>7, GoingOnKeepsEnd
<1>5. CASE MoreData(old) /\ ~old.hasBuffer /\ UNCHANGED <<ps, goVars, stack>>
  <2>1. old.state = "WaitingAllData" /\ old.seenTrailers
    <3>1. ~old.endStream /\ old.dataBuffer = <<>>
      BY <1>3, <1>5 DEF MoreData, Sound
    <3> QED  BY <1>5, <3>1 DEF MoreData, IsStreamEnd
  <2>2. UNCHANGED <<go, calls>>
    BY <1>5 DEF goVars
  <2>3. Cur' = Cur /\ Unanswered' = Unanswered
    BY <1>1, <2>2 DEF Cur, Unanswered
  <2>4. EndInv'
    BY <1>1, <1>5, <2>2, <2>3 DEF EndInv, MarksFit, EndsFit, Started, HeadersHeldBack, TrailersReached,
                                  EndIsDone, NothingAfterEnd
  <2> QED  BY <2>1, <2>4
<1>6. CASE stack' = <<At("checkTrailer", Cur)>> \o <<>> /\ UNCHANGED <<ps, goVars, crashed>>
  <2>1. stack' = <<At("checkTrailer", Cur)>>
    BY <1>6
  <2>2. UNCHANGED <<ps, go, calls, crashed>>
    BY <1>6 DEF goVars
  <2> QED  BY <1>1, <1>3, <2>1, <2>2, MovingKeepsEnd
<1> QED  BY <1>3, <1>4, <1>5, <1>6 DEF ResumeData

LEMMA WorkerStepEnd ==
    ASSUME Calm, SerialInv, EndInv, dynamicLib, WorkerStep
    PROVE  /\ EndInv'
           /\ crashed' = crashed \/ (ps[Cur].state = "WaitingAllData" /\ ps[Cur].seenTrailers)
<1>1. ~BufferFullReturns
  <2>1. SUFFICES ASSUME BufferFullReturns PROVE FALSE
    OBVIOUS
  <2>2. stack # <<>> /\ Head(stack).at = "bufferFull" /\ "bufferFull" \notin GoFrames
    BY <2>1 DEF BufferFullReturns, GoFrames
  <2> QED  BY <2>2, OnlyFrame DEF FrameFits
<1> QED  BY <1>1, TrailerAfterDataEnd, TrailersForwardedEnd, ResumeDataEnd, ResumeTrailerEnd,
            LocalReplyEnd, LocalReplyBodyEnd DEF WorkerStep

-----------------------------------------------------------------------------
(* The remaining steps                                                     *)

\* Calls are answered, and nothing else happens to the message.
LEMMA LeavingKeepsEnd ==
    ASSUME EndInv, Unanswered' \subseteq Unanswered, go' \subseteq go,
           closed \/ reason = "Normal" => go' = {}, closed => posted' = <<>>,
           UNCHANGED <<ps, fed, out, enterEncoding, localReplyWaitingGo, localTrailers, trailers,
                       headers, hasDestroyed, reason, dynamicLib, calls, closed>>,
           stack' = stack \/ (/\ ~closed /\ ~hasDestroyed
                              /\ Head(stack').at # "forwardedTrailerData")
    PROVE  EndInv'
<1>0. Cur' = Cur
  BY DEF Cur
<1>1. CASE ~dynamicLib
  BY <1>1 DEF EndInv
<1>2. CASE dynamicLib
  <2>1. MarksFit' /\ EndsFit' /\ Started' /\ HeadersHeldBack' /\ TrailersReached'
    BY <1>0, <1>2 DEF EndInv, MarksFit, EndsFit, Started, HeadersHeldBack, TrailersReached
  <2>2. EndIsDone'
    BY <1>0, <1>2 DEF EndInv, EndIsDone
  <2>3. NothingAfterEnd'
    BY <1>0, <1>2 DEF EndInv, NothingAfterEnd
  <2> QED  BY <1>2, <2>1, <2>2, <2>3 DEF EndInv
<1> QED  BY <1>1, <1>2

LEMMA GoroutineEnd ==
    ASSUME SerialInv, EndInv, Goroutine
    PROVE  EndInv' /\ crashed' = crashed
<1> PICK call \in go, act \in {"continue", "reply"}, status \in GolangStatus :
        GoAnswers(call, act, status)
  BY DEF Goroutine, Continue, SendLocalReply, GolangStatus
<1> DEFINE e == [act |-> act, status |-> status, call |-> call]
<1>1. go = {call} /\ posted = <<>> /\ go' = {} /\ Unanswered = {call}
  <2>1. go = {call} /\ posted = <<>>
    BY DEF SerialInv, CallsInv, GoSerialized
  <2> QED  BY <2>1, OneCall DEF GoAnswers
<1>2. Unanswered' \subseteq {call}
  <2>1. posted' = <<>> \/ posted' = Append(posted, e)
    BY <1>1 DEF GoAnswers, Post
  <2>2. CASE posted' = <<>>
    BY <1>1, <2>2 DEF Unanswered
  <2>3. CASE posted' = Append(posted, e)
    <3>1. posted' = <<e>> /\ DOMAIN <<e>> = {1} /\ <<e>>[1] = e
      BY <1>1, <2>3
    <3> QED  BY <1>1, <3>1 DEF Unanswered
  <2> QED  BY <2>1, <2>2, <2>3
<1>3. UNCHANGED <<ps, fed, out, enterEncoding, localReplyWaitingGo, localTrailers, trailers, headers,
                  hasDestroyed, reason, dynamicLib, calls, closed, stack, crashed>>
  BY DEF GoAnswers, filterVars, lifeVars, replyVars, streamVars
<1>4. ~closed
  <2>1. dynamicLib
    BY <1>1 DEF SerialInv, FlowInv, StreamOrder
  <2> QED  BY <1>1, <2>1 DEF EndInv, NothingAfterEnd
<1> QED  BY <1>1, <1>2, <1>3, <1>4, LeavingKeepsEnd

LEMMA DropEventEnd ==
    ASSUME SerialInv, EndInv, DropEvent
    PROVE  EndInv' /\ crashed' = crashed
<1>1. go = {} /\ posted' = <<>>
  <2>1. NextEvent({"continue", "reply"})
    BY DEF DropEvent
  <2> QED  BY <2>1, TakenEvent
<1>2. UNCHANGED <<go, ps, fed, out, enterEncoding, localReplyWaitingGo, localTrailers, trailers,
                  headers, hasDestroyed, reason, dynamicLib, calls, closed, stack, crashed>>
  BY DEF DropEvent, filterVars, lifeVars, replyVars, goVars, streamVars
<1>3. Unanswered' = {}
  BY <1>1, <1>2 DEF Unanswered
<1> QED  BY <1>1, <1>2, <1>3, LeavingKeepsEnd

LEMMA OtherLocalReplyEnd ==
    ASSUME Calm, SerialInv, EndInv, OtherLocalReply
    PROVE  EndInv' /\ crashed' = crashed
<1>1. /\ ~closed /\ ~hasDestroyed
      /\ UNCHANGED <<go, posted, ps, fed, out, enterEncoding, localReplyWaitingGo, localTrailers,
                     trailers, headers, hasDestroyed, reason, dynamicLib, calls, closed, crashed>>
  BY DEF OtherLocalReply, filterVars, lifeVars, replyVars, goVars, streamVars
<1>2. Head(stack').at # "forwardedTrailerData"
  <2>1. stack = <<>> /\ stack' = <<At("localReply", "decode")>> \o stack
    BY DEF OtherLocalReply, Calm
  <2>2. stack' = <<At("localReply", "decode")>>
    BY <2>1
  <2> QED  BY <2>2 DEF At
<1>3. Unanswered' = Unanswered /\ reason # "Normal"
  <2>1. reason # "Normal"
    BY <1>1 DEF EndInv, NothingAfterEnd
  <2> QED  BY <1>1, <2>1 DEF Unanswered
<1> QED  BY <1>1, <1>2, <1>3, LeavingKeepsEnd

\* Go replies: to the request, whose processor state starts anew, or instead of
\* the response, which ends the stream.
LEMMA LocalReplyEventEnd ==
    ASSUME SerialInv, EndInv, LocalReplyEvent
    PROVE  EndInv' /\ crashed' = crashed
<1> DEFINE p == ClearAll(TakeBuffer(ps[Cur]))
           q == [p EXCEPT !.state = "WaitingHeader"]
<1>1. /\ NextEvent({"reply"}) /\ ~hasDestroyed
      /\ UNCHANGED <<go, calls, fed, out, enterEncoding, localReplyWaitingGo, localTrailers, trailers,
                     headers, hasDestroyed, reason, dynamicLib, crashed>>
  BY DEF LocalReplyEvent, filterVars, lifeVars, replyVars, goVars
<1>2. /\ stack = <<>> /\ go = {} /\ posted' = <<>> /\ posted # <<>> /\ dynamicLib /\ Cur \in Dir
      /\ ps[Cur] \in Processor /\ InGo(ps[Cur])
  <2>1. ps[Cur].state = Processing(posted[1].call.kind) /\ posted[1].call \in Call
    BY <1>1, TakenEvent
  <2> QED  BY <1>1, <2>1, TakenEvent, ProcessingIsInGo DEF NextEvent, Call
<1>3. Cur' = Cur /\ Unanswered' = {}
  BY <1>1, <1>2 DEF Cur, Unanswered
<1>4. /\ Flags(ps[Cur], fed[Cur]) /\ Sound(ps[Cur]) /\ TypeOK /\ MarksFit
      /\ ps[Cur].seenTrailers => Cur \in WithTrailers
      /\ ~closed /\ reason # "Normal"
  BY <1>1, <1>2 DEF EndInv, MarksFit, SerialInv, NothingAfterEnd
<1>5. /\ p \in Processor /\ Flags(p, fed[Cur]) /\ Sound(p) /\ p.state = ps[Cur].state
      /\ p.seenTrailers = ps[Cur].seenTrailers /\ p.endStream = ps[Cur].endStream
      /\ p.hasBuffer = ps[Cur].hasBuffer
  BY <1>2, <1>4, ListsKeepMarks
<1>6. p.dataBuffer # <<>> => p.hasBuffer
  BY <1>5 DEF Sound
<1>7. /\ q.state = "WaitingHeader" /\ q.endStream = p.endStream /\ q.seenTrailers = p.seenTrailers
      /\ q.hasBuffer = p.hasBuffer /\ q.dataBuffer = p.dataBuffer
  <2> HIDE DEF p
  <2> QED  BY <1>5 DEF Processor
<1> HIDE DEF p, q
<1>8. Flags(q, fed[Cur]) /\ Sound(q) /\ q.seenTrailers = ps[Cur].seenTrailers
  BY <1>5, <1>6, <1>7 DEF Flags, Sound
<1>9. ASSUME NEW n \in {p, q}, ps' = [ps EXCEPT ![Cur] = n]
      PROVE  /\ MarksFit' /\ ps'[Cur] = n /\ \A e \in Dir : e # Cur => ps'[e] = ps[e]
             /\ TrailersReached'
  <2> DEFINE d == Cur
  <2>1. /\ Flags(n, fed'[d]) /\ Sound(n) /\ (n.seenTrailers => d \in WithTrailers)
        /\ n.seenTrailers = ps[d].seenTrailers /\ d \in Dir /\ ps' = [ps EXCEPT ![d] = n]
        /\ \A e \in Dir : e # d => fed'[e] = fed[e]
    BY <1>1, <1>2, <1>4, <1>5, <1>8, <1>9
  <2> HIDE DEF d
  <2>2. MarksFit' /\ ps'[d] = n /\ \A e \in Dir : e # d => ps'[e] = ps[e]
    BY <1>4, <2>1, OneMark
  <2>3. \A e \in Dir : ps'[e].seenTrailers <=> ps[e].seenTrailers
    BY <2>1, <2>2
  <2>4. TrailersReached'
    BY <1>1, <1>2, <2>3, TrailersStay DEF EndInv
  <2> QED  BY <2>2, <2>4 DEF d
<1>10. CASE /\ Cur = "decode"
            /\ ps' = [ps EXCEPT ![Cur] = q]
            /\ stack' = <<At("localReply", Cur)>>
            /\ UNCHANGED closed
  <2>1. /\ MarksFit' /\ TrailersReached' /\ ps'[Cur] = q /\ ps'["encode"] = ps["encode"]
    BY <1>9, <1>10 DEF Dir
  <2>2. EndsFit'
    BY <1>3 DEF EndsFit
  <2>3. Started'
    BY <1>1, <1>2, <2>1 DEF EndInv, Started
  <2>4. HeadersHeldBack'
    BY <1>3, <1>7, <2>1 DEF HeadersHeldBack
  <2>5. EndIsDone'
    <3>1. {End, Trl} \cap ToSet(out[Cur]) = {}
      BY <1>2 DEF EndInv, EndIsDone, InGo
    <3>2. Head(stack').at # "forwardedTrailerData"
      BY <1>10 DEF At
    <3> QED  BY <1>1, <1>3, <3>1, <3>2 DEF EndIsDone
  <2>6. NothingAfterEnd'
    BY <1>1, <1>4, <1>10 DEF NothingAfterEnd
  <2> QED  BY <1>1, <2>1, <2>2, <2>3, <2>4, <2>5, <2>6 DEF EndInv
<1>11. CASE /\ Cur # "decode"
            /\ ps' = [ps EXCEPT ![Cur] = p]
            /\ closed' = TRUE
            /\ UNCHANGED stack
  <2>1. /\ MarksFit' /\ TrailersReached' /\ ps'[Cur] = p
    BY <1>9, <1>11
  <2>2. EndsFit'
    BY <1>3 DEF EndsFit
  <2>3. Started'
    BY <1>1, <1>2, <1>11 DEF EndInv, Started, Cur
  <2>4. HeadersHeldBack'
    BY <1>1, <1>2, <1>3, <1>5, <2>1 DEF EndInv, HeadersHeldBack
  <2>5. EndIsDone'
    BY <1>1, <1>2, <1>3, <1>5, <1>11, <2>1 DEF EndInv, EndIsDone
  <2>6. NothingAfterEnd'
    BY <1>1, <1>2, <1>4, <1>11 DEF NothingAfterEnd
  <2> QED  BY <1>1, <2>1, <2>2, <2>3, <2>4, <2>5, <2>6 DEF EndInv
<1> QED  BY <1>10, <1>11 DEF LocalReplyEvent, p, q

\* The stream is destroyed: before Go was called only when the filter manager
\* never called the filter.
LEMMA DestroyEnd ==
    ASSUME SerialInv, EndInv, Destroy
    PROVE  EndInv' /\ (crashed' = crashed \/ EarlyResets)
<1>1. /\ ~hasDestroyed /\ hasDestroyed'
      /\ UNCHANGED <<go, posted, ps, fed, out, enterEncoding, localReplyWaitingGo, localTrailers,
                     trailers, headers, dynamicLib, calls, closed, stack>>
  BY DEF Destroy, replyVars, goVars, streamVars
<1>2. Cur' = Cur /\ Unanswered' = Unanswered
  BY <1>1 DEF Cur, Unanswered
<1>3. CASE ~dynamicLib
  <2>1. reason' = reason /\ crashed' = crashed /\ ~dynamicLib'
    BY <1>1, <1>3 DEF Destroy
  <2>2. reason = "none"
    BY <1>3 DEF EndInv
  <2>3. EndInv'
    BY <2>1, <2>2 DEF EndInv
  <2> QED  BY <2>1, <2>3
<1>4. CASE dynamicLib
  <2>1. reason' = DestroyReason /\ crashed' = IF calls = 0 THEN "nullRequest" ELSE crashed
    BY <1>4 DEF Destroy
  <2>2. ASSUME stack # <<>>
        PROVE  Head(stack).at \in Forwarding /\ ps[Cur].state = "Done" /\ enterEncoding
    <3>1. Head(stack).at \in Forwarding \cup {"bufferFull"} /\ (closed \/ Ended(out["encode"]))
      BY <2>2 DEF Destroy
    <3>2. Head(stack).at \in Forwarding
      <4>1. "bufferFull" \notin GoFrames
        BY DEF GoFrames
      <4> QED  BY <2>2, <3>1, <4>1, OnlyFrame DEF FrameFits
    <3>3. Ended(out["encode"])
      BY <1>4, <2>2, <3>1 DEF EndInv, NothingAfterEnd
    <3>4. enterEncoding
      BY <1>4, <3>3 DEF EndInv, Started, Ended
    <3>5. {End, Trl} \cap ToSet(out["encode"]) # {}
      <4>1. out["encode"] \in Seq(Item) /\ out["encode"] # <<>>
        BY <3>3 DEF SerialInv, TypeOK, Dir, Ended
      <4>2. Len(out["encode"]) \in DOMAIN out["encode"]
        BY <4>1, EmptySeq, LenProperties
      <4>3. Last(out["encode"]) \in ToSet(out["encode"])
        BY <4>2 DEF Last, ToSet
      <4> QED  BY <3>3, <4>3 DEF Ended
    <3>6. ps[Cur].state = "Done"
      BY <1>4, <3>4, <3>5 DEF EndInv, EndIsDone, Cur
    <3> QED  BY <3>2, <3>4, <3>6
  <2>3. MarksFit' /\ EndsFit' /\ Started' /\ HeadersHeldBack' /\ TrailersReached' /\ EndIsDone'
    BY <1>1, <1>2, <1>4 DEF EndInv, MarksFit, EndsFit, Started, HeadersHeldBack, TrailersReached, EndIsDone
  <2>4. NothingAfterEnd'
    <3>1. reason' = "Normal" => go' = {}
      <4>1. reason' = "Normal" => ~InGo(ps[Cur])
        BY <2>1 DEF DestroyReason
      <4> QED  BY <1>1, <4>1, Idle DEF SerialInv
    <3> QED  BY <1>1, <1>2, <1>4, <2>2, <3>1 DEF EndInv, NothingAfterEnd
  <2>5. crashed' = crashed \/ EarlyResets
    <3>1. SUFFICES ASSUME ~EarlyResets PROVE calls # 0
      BY <2>1
    <3>2. CASE stack = <<>>
      <4>1. \E d \in Dir : fed[d] # <<>>
        BY <3>1, <3>2 DEF Destroy
      <4> QED  BY <1>4, <4>1 DEF EndInv, Started
    <3>3. CASE stack # <<>>
      <4>1. fed["encode"] # <<>> /\ "encode" \in Dir
        BY <2>2, <3>3 DEF SerialInv, FlowInv, StreamOrder, Dir
      <4> QED  BY <1>4, <4>1 DEF EndInv, Started
    <3> QED  BY <3>2, <3>3
  <2> QED  BY <1>1, <1>4, <2>3, <2>4, <2>5 DEF EndInv
<1> QED  BY <1>3, <1>4

\* The reply of another filter enters Go: Go is told its end, unless a body is
\* kept, or trailers.
LEMMA ContinueEncodeLocalReplyEnd ==
    ASSUME SerialInv, EndInv, ContinueEncodeLocalReply
    PROVE  EndInv' /\ crashed' = crashed
<1> DEFINE enc == ps["encode"]
           r == ClearAll(ps["decode"])
<1>1. /\ NextEvent({"continue", "reply"}) /\ ~hasDestroyed /\ localReplyWaitingGo
      /\ localReplyWaitingGo' = FALSE /\ enterEncoding' = TRUE
      /\ trailers' = IF localTrailers THEN "encode" ELSE trailers
      /\ UNCHANGED <<hasDestroyed, reason, dynamicLib, localTrailers, fed, out, closed>>
  BY DEF ContinueEncodeLocalReply, lifeVars, streamVars
<1>2. go = {} /\ posted' = <<>> /\ posted # <<>> /\ dynamicLib
  BY <1>1, TakenEvent DEF NextEvent
<1>3. ~enterEncoding /\ Cur = "decode" /\ Cur' = "encode"
  BY <1>1 DEF SerialInv, FlowInv, ReplyWaitsForRequest, Cur
<1>4. /\ ps \in [Dir -> Processor] /\ "decode" \in Dir /\ "encode" \in Dir /\ Dir = {"decode", "encode"}
      /\ calls \in Nat /\ localTrailers \in BOOLEAN
  BY DEF SerialInv, TypeOK, Dir
<1>5. \A d \in Dir : /\ Flags(ps[d], fed[d]) /\ Sound(ps[d]) /\ ps[d] \in Processor
                     /\ ps[d].seenTrailers => d \in WithTrailers
  BY <1>2, <1>4 DEF EndInv, MarksFit
<1>6. /\ ~closed /\ out["encode"] = <<>>
      /\ enc.seenTrailers <=> localTrailers
  BY <1>1, <1>2, <1>3, <1>4 DEF EndInv, NothingAfterEnd, Started, TrailersReached, Processor
<1>7. PICK b \in BOOLEAN : b = (enc.endStream /\ ~localTrailers /\ enc.dataBuffer = <<>>)
  OBVIOUS
<1>8. DoHeadersGo("encode", [ps EXCEPT !["decode"] = r], b, "localReplyHeaders", <<>>)
  BY <1>3, <1>7 DEF ContinueEncodeLocalReply
<1>9. (b => enc.endStream) /\ (enc.endStream => b \/ enc.hasBuffer) /\ (enc.dataBuffer # <<>> => enc.hasBuffer)
  <2>1. enc.dataBuffer # <<>> => enc.hasBuffer
    BY <1>4, <1>5 DEF Sound
  <2>2. ~(enc.endStream /\ enc.seenTrailers)
    BY <1>4, <1>5, EndIsNotTrailers
  <2> QED  BY <1>6, <1>7, <2>1, <2>2
<1>10. r \in Processor /\ Flags(r, fed["decode"]) /\ Sound(r) /\ r.seenTrailers = ps["decode"].seenTrailers
  BY <1>4, <1>5, ListsKeepMarks
<1> DEFINE p == ProcessHeader(enc, b)
<1>11. /\ Flags(p, fed["encode"]) /\ Sound(p) /\ p.doEndStream = b
       /\ p.state = "ProcessingHeader" /\ p.seenTrailers = enc.seenTrailers
  BY <1>4, <1>5, <1>9, EnteringKeepsMarks
<1> HIDE DEF r
<1>12. ps' = [[ps EXCEPT !["decode"] = r] EXCEPT !["encode"] = p]
       /\ headers' = "encode"
       /\ CallGo("encode", "headers", b, <<Hdr>> \o EndIf(b), "localReplyHeaders", <<>>)
  BY <1>4, <1>8 DEF DoHeadersGo
<1> HIDE DEF p
<1>13. ps'["encode"] = p /\ ps'["decode"] = r
  BY <1>4, <1>12
<1>14. MarksFit'
  BY <1>1, <1>4, <1>5, <1>10, <1>11, <1>13 DEF MarksFit
<1>15. TrailersReached'
  BY <1>1, <1>3, <1>6, <1>11, <1>13 DEF TrailersReached
<1>16. /\ "localReplyHeaders" \in GoFrames /\ Processing("headers") = "ProcessingHeader"
       /\ "headers" \in Kind /\ {End, Trl} \cap ToSet(out["encode"]) = {}
  BY <1>6 DEF GoFrames, Processing, Kind, ToSet
<1> DEFINE d == "encode"
<1>17. /\ d \in Dir /\ Cur' = d /\ ps'[d].state = Processing("headers") /\ ps'[d].doEndStream = b
       /\ CallGo(d, "headers", b, <<Hdr>> \o EndIf(b), "localReplyHeaders", <<>>)
       /\ headers' = d /\ out[d] = <<>> /\ {End, Trl} \cap ToSet(out[d]) = {}
  BY <1>3, <1>4, <1>6, <1>11, <1>12, <1>13, <1>16
<1> HIDE DEF d
<1> QED  BY <1>1, <1>2, <1>4, <1>6, <1>14, <1>15, <1>16, <1>17, EnteringKeepsEnd

LEMMA DispatchEnd ==
    ASSUME SerialInv, EndInv, Dispatch
    PROVE  EndInv' /\ crashed' = crashed
BY DropEventEnd, ContinueEncodeLocalReplyEnd, ContinueEventEnd, LocalReplyEventEnd DEF Dispatch

LEMMA ReceiveEnd ==
    ASSUME Calm, SerialInv, EndInv, dynamicLib, Receive
    PROVE  EndInv' /\ crashed' = crashed
<1>1. \/ \E endStream \in BOOLEAN :
            \/ DecodeHeaders(endStream)
            \/ \E data \in DataFrames("decode") : DecodeData(data, endStream)
            \/ ResponseHeaders(endStream)
            \/ \E data \in DataFrames("encode") : ResponseData(data, endStream)
      \/ DecodeTrailers
      \/ EncodeTrailers
  BY DEF Receive
<1> QED  BY <1>1, DecodeHeadersEnd, DecodeDataEnd, ResponseHeadersEnd, ResponseDataEnd,
            DecodeTrailersEnd, EncodeTrailersEnd

\* Without the library nothing enters Go, and nothing goes wrong.
LEMMA NoLibraryKeepsEnd ==
    ASSUME SerialInv, EndInv, ~dynamicLib, Next
    PROVE  EndInv' /\ crashed' = crashed
<1>1. go = {} /\ posted = <<>> /\ reason = "none"
  BY NoLibrary DEF EndInv
<1>2. CASE Receive
  <2>1. UNCHANGED <<dynamicLib, reason, crashed>>
    BY <1>2 DEF Receive, DecodeHeaders, DecodeData, DecodeTrailers, EncodeTrailers, ResponseHeaders,
                ResponseData, EncodeHeaders, EncodeData, Bypass, filterVars, lifeVars
  <2> QED  BY <1>1, <2>1 DEF EndInv
<1>3. CASE WorkerStep
  <2>1. stack # <<>> /\ Head(stack).at \notin GoFrames
    BY <1>3 DEF WorkerStep, BufferFullReturns, TrailerAfterData, TrailersForwarded, ResumeData,
                ResumeTrailer, LocalReply, LocalReplyBody, GoFrames
  <2>2. Head(stack).at \in {"localReply", "replyBody"}
    BY <2>1, OnlyFrame DEF FrameFits
  <2>3. LocalReply \/ LocalReplyBody
    BY <1>3, <2>2 DEF WorkerStep, BufferFullReturns, TrailerAfterData, TrailersForwarded, ResumeData,
                      ResumeTrailer
  <2>4. UNCHANGED <<dynamicLib, reason, crashed>>
    BY <2>3 DEF LocalReply, LocalReplyBody, EncodeHeaders, EncodeData, Bypass, filterVars, lifeVars
  <2> QED  BY <1>1, <2>4 DEF EndInv
<1>4. CASE Dispatch
  BY <1>1, <1>4 DEF Dispatch, DropEvent, ContinueEncodeLocalReply, ContinueEvent, LocalReplyEvent, NextEvent
<1>5. CASE GoReturn \/ Goroutine
  BY <1>1, <1>5 DEF GoReturn, Goroutine
<1>6. CASE OtherLocalReply
  <2>1. UNCHANGED <<dynamicLib, reason, crashed>>
    BY <1>6 DEF OtherLocalReply, filterVars, lifeVars
  <2> QED  BY <1>1, <2>1 DEF EndInv
<1>7. CASE Destroy
  <2>1. UNCHANGED <<dynamicLib, reason, crashed>>
    BY <1>7 DEF Destroy
  <2> QED  BY <1>1, <2>1 DEF EndInv
<1> QED  BY <1>2, <1>3, <1>4, <1>5, <1>6, <1>7 DEF Next

-----------------------------------------------------------------------------
(* The invariant                                                           *)

\* What can still go wrong: a stream destroyed before the filter was called,
\* and trailers after a message without a body that Go wanted to have whole.
CrashPossible == EarlyResets \/ ("StopAndBuffer" \in Answers /\ WithTrailers # {})

LEMMA NextEnd ==
    ASSUME Calm, SerialInv, EndInv, Next
    PROVE  EndInv' /\ (crashed' = crashed \/ CrashPossible)
<1>1. CASE ~dynamicLib
  BY <1>1, NoLibraryKeepsEnd
<1>2. CASE dynamicLib
  <2>1. CASE WorkerStep
    <3>1. /\ EndInv'
          /\ crashed' = crashed \/ (ps[Cur].state = "WaitingAllData" /\ ps[Cur].seenTrailers)
      BY <1>2, <2>1, WorkerStepEnd
    <3>2. Cur \in Dir
      BY DEF Cur, Dir
    <3>3. ps[Cur].state = "WaitingAllData" => "StopAndBuffer" \in Answers
      BY <3>2 DEF SerialInv, FlowInv, BufferFits
    <3>4. ps[Cur].seenTrailers => Cur \in WithTrailers
      BY <1>2, <3>2 DEF EndInv, MarksFit
    <3> QED  BY <3>1, <3>3, <3>4 DEF CrashPossible
  <2>2. CASE Destroy
    BY <2>2, DestroyEnd DEF CrashPossible
  <2>3. CASE Receive \/ Dispatch \/ GoReturn \/ Goroutine \/ OtherLocalReply
    BY <1>2, <2>3, ReceiveEnd, DispatchEnd, GoReturnEnd, GoroutineEnd, OtherLocalReplyEnd
  <2> QED  BY <2>1, <2>2, <2>3 DEF Next
<1> QED  BY <1>1, <1>2

LEMMA InitEnd == Init => EndInv
<1> SUFFICES ASSUME Init PROVE EndInv
  OBVIOUS
<1>1. Unanswered = {} /\ Cur = "decode" /\ go = {} /\ posted = <<>> /\ stack = <<>>
  BY EmptySeq DEF Init, Unanswered, Cur
<1>2. \A d \in Dir : ps[d] = NewProcessor /\ fed[d] = <<>> /\ out[d] = <<>>
  BY DEF Init
<1>3. MarksFit
  <2>1. Flags(NewProcessor, <<>>) /\ Sound(NewProcessor) /\ ~NewProcessor.seenTrailers
    BY DEF Flags, Sound, NewProcessor
  <2> QED  BY <1>2, <2>1 DEF MarksFit
<1>4. EndsFit /\ Started /\ HeadersHeldBack /\ TrailersReached
  <2>1. /\ ps["decode"] = NewProcessor /\ ps["encode"] = NewProcessor
        /\ fed["decode"] = <<>> /\ fed["encode"] = <<>> /\ out["decode"] = <<>> /\ out["encode"] = <<>>
    BY <1>2 DEF Dir
  <2>2. /\ NewProcessor.state = "WaitingHeader" /\ ~NewProcessor.seenTrailers
        /\ ~localReplyWaitingGo /\ ~localTrailers
    BY DEF Init, NewProcessor
  <2> QED  BY <1>1, <1>2, <2>1, <2>2 DEF EndsFit, Started, HeadersHeldBack, TrailersReached
<1>5. EndIsDone
  <2>1. out[Cur] = <<>> /\ ToSet(<<>>) = {}
    BY <1>1, <1>2 DEF Dir, ToSet
  <2> QED  BY <1>1, <2>1 DEF EndIsDone
<1>6. NothingAfterEnd /\ reason = "none"
  BY <1>1 DEF Init, NothingAfterEnd
<1> QED  BY <1>3, <1>4, <1>5, <1>6 DEF EndInv

LEMMA StutterEnd ==
    ASSUME EndInv, UNCHANGED vars
    PROVE  EndInv' /\ crashed' = crashed
<1>1. UNCHANGED <<go, posted, ps, fed, out, enterEncoding, localReplyWaitingGo, localTrailers, trailers,
                  headers, hasDestroyed, reason, dynamicLib, calls, closed, stack, crashed>>
  BY DEF vars, filterVars, lifeVars, replyVars, goVars, streamVars
<1>2. Cur' = Cur /\ Unanswered' = Unanswered
  BY <1>1 DEF Cur, Unanswered
<1> QED  BY <1>1, <1>2 DEF EndInv, MarksFit, EndsFit, Started, HeadersHeldBack, TrailersReached,
                           EndIsDone, NothingAfterEnd

\* In a calm environment, the whole invariant: besides SerialInv, Go was told
\* the end of a message only when it came in, its headers stay in the filter as
\* long as Go is at work on them, and nothing enters Go after the end.
THEOREM StreamInvariant ==
    ASSUME Calm
    PROVE  Spec => []StreamInv
<1>1. Init => StreamInv
  BY InitSerial, InitEnd DEF StreamInv
<1>2. StreamInv /\ [Next]_vars => StreamInv'
  BY NextSerial, NextEnd, StutterEnd DEF StreamInv
<1> QED  BY <1>1, <1>2, PTL DEF Spec

-----------------------------------------------------------------------------
(* What it says of the header API, of the end and of crashes               *)

LEMMA HeadersAreSafe ==
    ASSUME StreamInv
    PROVE  HeaderApiIsSafe
<1> SUFFICES ASSUME NEW c \in go, ~hasDestroyed
             PROVE  /\ c.kind = "headers" => headers = c.dir /\ out[c.dir] = <<>>
                    /\ c.kind = "trailers" => trailers = c.dir /\ Trl \notin ToSet(out[c.dir])
  BY DEF HeaderApiIsSafe
<1>1. c \in Unanswered /\ SerialInv /\ EndInv
  BY DEF Unanswered, StreamInv
<1>2. c.dir = Cur /\ ps[Cur].state = Processing(c.kind) /\ Cur \in Dir
  BY <1>1 DEF SerialInv, CallsInv, CallsFit, Cur, Dir
<1>3. dynamicLib
  BY <1>1 DEF SerialInv, FlowInv, StreamOrder
<1>4. c.kind = "headers" => headers = c.dir /\ out[c.dir] = <<>>
  BY <1>1, <1>2, <1>3 DEF EndInv, HeadersHeldBack, Processing
<1>5. ASSUME c.kind = "trailers"
      PROVE  trailers = c.dir /\ Trl \notin ToSet(out[c.dir])
  <2>1. ps[Cur].state = "ProcessingTrailer"
    BY <1>2, <1>5 DEF Processing
  <2>2. ps[Cur].seenTrailers
    BY <1>1, <1>2, <1>3, <2>1 DEF EndInv, MarksFit, Sound
  <2> QED  BY <1>1, <1>2, <1>3, <2>1, <2>2 DEF EndInv, TrailersReached, EndIsDone
<1> QED  BY <1>4, <1>5

\* getHeader, setHeader and the others, called by a running handler, reach the
\* headers or trailers the handler was called for, before they are passed on.
THEOREM HeaderApiSafe ==
    ASSUME Calm
    PROVE  Spec => []HeaderApiIsSafe
<1>1. StreamInv => HeaderApiIsSafe
  BY HeadersAreSafe
<1> QED  BY <1>1, StreamInvariant, PTL

\* onDestroy says Normal, so that Go frees the request at once, only when no
\* handler is at work.
THEOREM NormalIsIdle ==
    ASSUME Calm
    PROVE  Spec => []NormalMeansIdle
<1>1. StreamInv => NormalMeansIdle
  BY DEF StreamInv, EndInv, NothingAfterEnd, NormalMeansIdle
<1> QED  BY <1>1, StreamInvariant, PTL

\* In a calm environment, where no stream is destroyed before the filter is
\* called, and no trailers follow a message that Go wants to have whole, Go is
\* never called for a dead request, and getBufferData finds its buffer.
THEOREM NothingCrashes ==
    ASSUME Calm, ~EarlyResets, "StopAndBuffer" \notin Answers \/ WithTrailers = {}
    PROVE  Spec => []NoCrash
<1>1. Init => NoCrash
  BY DEF Init, NoCrash
<1>2. StreamInv /\ NoCrash /\ [Next]_vars => NoCrash'
  <2>1. ~CrashPossible
    BY DEF CrashPossible
  <2> QED  BY <2>1, NextEnd, StutterEnd DEF StreamInv, NoCrash
<1> QED  BY <1>1, <1>2, StreamInvariant, PTL DEF Spec

\* The library is loaded, or it is not.
LEMMA LibraryStays == [Next]_vars => dynamicLib' = dynamicLib
<1> SUFFICES ASSUME [Next]_vars PROVE dynamicLib' = dynamicLib
  OBVIOUS
<1>1. CASE Receive
  BY <1>1 DEF Receive, DecodeHeaders, DecodeData, DecodeTrailers, EncodeTrailers, DoTrailer,
              ResponseHeaders, ResponseData, EncodeHeaders, EncodeData, Bypass, filterVars, lifeVars
<1>2. CASE WorkerStep
  BY <1>2 DEF WorkerStep, BufferFullReturns, TrailerAfterData, TrailersForwarded, ResumeData,
              ResumeTrailer, LocalReply, LocalReplyBody, EncodeHeaders, EncodeData, Bypass,
              filterVars, lifeVars
<1>3. CASE Dispatch
  BY <1>3 DEF Dispatch, DropEvent, ContinueEncodeLocalReply, ContinueEvent, LocalReplyEvent,
              filterVars, lifeVars
<1>4. CASE GoReturn
  BY <1>4 DEF GoReturn, HeadersReturn, DataReturn, TrailerReturn, TrailerDataReturn, ResumeDataReturn,
              ResumeTrailerReturn, LocalReplyHeadersReturn, filterVars, lifeVars
<1>5. CASE Goroutine \/ OtherLocalReply \/ Destroy
  BY <1>5 DEF Goroutine, Continue, SendLocalReply, GoAnswers, OtherLocalReply, Destroy,
              filterVars, lifeVars
<1>6. CASE UNCHANGED vars
  BY <1>6 DEF vars, filterVars, lifeVars
<1> QED  BY <1>1, <1>2, <1>3, <1>4, <1>5, <1>6 DEF Next

\* Once the response is the current processor state it stays so.
LEMMA EncodingStays ==
    ASSUME [Next]_vars, enterEncoding
    PROVE  enterEncoding'
<1>1. CASE Receive
  BY <1>1 DEF Receive, DecodeHeaders, DecodeData, DecodeTrailers, EncodeTrailers, DoTrailer,
              ResponseHeaders, ResponseData, EncodeHeaders, EncodeData, Bypass, filterVars, replyVars
<1>2. CASE WorkerStep
  BY <1>2 DEF WorkerStep, BufferFullReturns, TrailerAfterData, TrailersForwarded, ResumeData,
              ResumeTrailer, LocalReply, LocalReplyBody, EncodeHeaders, EncodeData, Bypass,
              filterVars, replyVars
<1>3. CASE Dispatch
  BY <1>3 DEF Dispatch, DropEvent, ContinueEncodeLocalReply, ContinueEvent, LocalReplyEvent,
              filterVars, replyVars
<1>4. CASE GoReturn
  BY <1>4 DEF GoReturn, HeadersReturn, DataReturn, TrailerReturn, TrailerDataReturn, ResumeDataReturn,
              ResumeTrailerReturn, LocalReplyHeadersReturn, filterVars, replyVars
<1>5. CASE Goroutine \/ OtherLocalReply \/ Destroy
  BY <1>5 DEF Goroutine, Continue, SendLocalReply, GoAnswers, OtherLocalReply, Destroy,
              filterVars, replyVars
<1>6. CASE UNCHANGED vars
  BY <1>6 DEF vars, filterVars, replyVars
<1> QED  BY <1>1, <1>2, <1>3, <1>4, <1>5, <1>6 DEF Next

\* Go is not called about the request any more once the response has entered it.
THEOREM RequestIsOver ==
    ASSUME Calm
    PROVE  Spec => NoDecodeCallAfterEncode
<1>1. SerialInv /\ SerialInv' /\ [Next]_vars =>
          [\A c \in go' \ go : c.sync /\ c.dir = "decode" => ~enterEncoding]_vars
  <2> SUFFICES ASSUME SerialInv', [Next]_vars, NEW c \in go', c.dir = "decode"
               PROVE  ~enterEncoding
    OBVIOUS
  <2>1. c \in Unanswered'
    BY DEF Unanswered
  <2>2. Cur' = "decode"
    BY <2>1 DEF SerialInv, CallsInv, CallsFit
  <2> QED  BY <2>2, EncodingStays DEF Cur
<1> QED  BY <1>1, SerialInvariant, PTL DEF Spec, NoDecodeCallAfterEncode
=============================================================================
