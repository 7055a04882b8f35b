---------------------------- MODULE GolangFilter ----------------------------
(***************************************************************************)
(* One HTTP stream through the Golang filter: the C++ Filter object        *)
(* (src/envoy/http/golang/golang_filter.{h,cc}) between Envoy's filter     *)
(* manager and the Go code of the stream (pkg/http/moe.go, capi.go).       *)
(*                                                                         *)
(* Three kinds of actors take steps:                                       *)
(*   - the worker thread that owns the stream.  It runs one call at a      *)
(*     time; stack is its call stack, cut at the places where it leaves    *)
(*     the filter: into Go, into the next filter, or into the filter       *)
(*     manager for a local reply;                                          *)
(*   - the Go handlers.  A handler answers the call that started it with a *)
(*     status, or answers Running and goes on in a goroutine that ends by  *)
(*     calling Continue or SendLocalReply, from any thread;                *)
(*   - the filter manager with the peers and the other filters behind it:  *)
(*     they feed the messages in, reply locally, and destroy the stream.   *)
(***************************************************************************)
EXTENDS ProcessorState, SequencesExt

CONSTANTS
    MaxChunks,      \* bound: non-empty data frames fed in each direction
    Limit,          \* the buffer limit, in data frames
    Answers,        \* the statuses the Go filter may answer
    WithTrailers,   \* the directions whose message may end with trailers
    EarlyResponse,  \* the upstream may respond before it has the whole request
    LocalReplies,   \* another filter, or the filter manager, may reply locally
    NestedReplies,  \* ... also while this filter passes the request on to it
    EarlyResets     \* the stream may be destroyed before the filter is called

ASSUME BoundsAssumption == MaxChunks \in Nat /\ Limit \in Nat \ {0}

ASSUME EnvironmentAssumption ==
    /\ Answers \subseteq GolangStatus
    /\ WithTrailers \subseteq Dir
    /\ EarlyResponse \in BOOLEAN
    /\ LocalReplies \in BOOLEAN
    /\ NestedReplies \in BOOLEAN
    /\ EarlyResets \in BOOLEAN

VARIABLES
    \* members of class Filter
    dynamicLib,           \* the library of the Go plugin is loaded
    ps,                   \* decoding_state_ and encoding_state_
    enterEncoding,        \* enter_encoding_
    localReplyWaitingGo,  \* local_reply_waiting_go_
    localTrailers,        \* local_trailers_ is not null
    headers,              \* the direction whose headers headers_ points to
    trailers,             \* the direction whose trailers trailers_ points to
    hasDestroyed,         \* has_destroyed_
    reason,               \* the reason given to moeOnHttpDestroy
    \* Go
    go,                   \* the handlers that have not answered yet
    calls,                \* calls made into Go so far; req_ exists once it is > 0
    paniced,              \* httpRequest.paniced
    seen,                 \* history: what the Go filter was shown
    \* the worker thread
    stack,                \* its call stack, the innermost frame first
    posted,               \* callbacks posted to its dispatcher
    crashed,              \* "no", or why the process went down
    \* the filter manager
    fed,                  \* what came in
    out,                  \* what was passed on to the next filter
    dropped,              \* history: data the Go filter asked to drop
    closed                \* the stream was ended by a direct reply or a reset

lifeVars   == <<dynamicLib, hasDestroyed, reason>>
replyVars  == <<enterEncoding, localReplyWaitingGo, localTrailers>>
filterVars == <<lifeVars, replyVars, headers, trailers>>
goVars     == <<go, calls, paniced, seen>>
streamVars == <<fed, out, dropped, closed>>
vars       == <<filterVars, ps, goVars, stack, posted, crashed, streamVars>>

\* Places where the worker is inside Go.
GoFrames == {"doHeaders", "doData", "doTrailer", "doTrailerData",
             "localReplyHeaders", "resumeData", "resumeTrailer"}

\* Places inside continueStatusInternal where the next filter has the control.
Forwarding == {"forwarded", "forwardedData", "forwardedTrailerData"}

Label == GoFrames \cup Forwarding \cup
         {"checkData", "checkTrailer", "trailerAfterData", "bufferFull",
          "localReply", "replyBody"}

Frame == [at : Label, dir : Dir]

At(label, d) == [at |-> label, dir |-> d]

Call == [id : Nat, dir : Dir, kind : Kind, end : BOOLEAN,
         sync : BOOLEAN, refused : BOOLEAN]

Event == [act : {"continue", "reply"}, status : GolangStatus, call : Call]

\* Mutant: the encoding state is never the current one.
Cur_Decoding == "decode"

\* getProcessorState()
Cur == IF enterEncoding THEN "encode" ELSE "decode"

Ended(msg) == msg # <<>> /\ Last(msg) \in {End, Trl}

Init ==
    /\ dynamicLib \in BOOLEAN
    /\ ps = [d \in Dir |-> NewProcessor]
    /\ enterEncoding = FALSE
    /\ localReplyWaitingGo = FALSE
    /\ localTrailers = FALSE
    /\ headers = "none"
    /\ trailers = "none"
    /\ hasDestroyed = FALSE
    /\ reason = "none"
    /\ go = {}
    /\ calls = 0
    /\ paniced = FALSE
    /\ seen = [d \in Dir |-> <<>>]
    /\ stack = <<>>
    /\ posted = <<>>
    /\ crashed = "no"
    /\ fed = [d \in Dir |-> <<>>]
    /\ out = [d \in Dir |-> <<>>]
    /\ dropped = [d \in Dir |-> {}]
    /\ closed = FALSE

-----------------------------------------------------------------------------
(* The filter manager                                                      *)

\* Nothing more is passed on once the response has ended or was cut short.
Open(d) == /\ ~closed
           /\ ~hasDestroyed
           /\ d = "decode" => ~Ended(fed["encode"])

\* out after items were passed on; headers that were held back go first.
Passed(d, items) ==
    IF Open(d)
    THEN [out EXCEPT ![d] = @ \o (IF @ = <<>> THEN <<Hdr>> ELSE <<>>) \o items]
    ELSE out

\* out after continueDecoding or continueEncoding: the filter manager goes on
\* with what it knows of the message, except the data, which this filter keeps.
Resumed(d) ==
    Passed(d, CASE Last(fed[d]) = Trl                   -> <<Trl>>
                [] Last(fed[d]) = End /\ out[d] = <<>>  -> <<End>>
                [] OTHER                                -> <<>>)

Feed(d, items) == fed' = [fed EXCEPT ![d] = @ \o items]

\* The worker may take the next piece of direction d from its connection.
CanFeed(d) ==
    /\ stack = <<>>
    /\ ~hasDestroyed
    /\ ~closed
    /\ ~Ended(fed[d])
    /\ ~Ended(fed["encode"])

\* A data frame: one chunk, or nothing but the end of the stream.
DataFrames(d) ==
    {<<>>} \cup IF Len(fed[d]) <= MaxChunks THEN {<<Chunk(Len(fed[d]))>>} ELSE {}

-----------------------------------------------------------------------------
(* Calls into Go                                                           *)

\* The worker enters Go from the place at, to come back to the frames rest.
\* Go finds no request, or a freed one, when the stream was destroyed.
CallGo(d, kind, endStream, items, at, rest) ==
    /\ go' = go \cup {[id |-> calls, dir |-> d, kind |-> kind, end |-> endStream,
                       sync |-> TRUE, refused |-> paniced]}
    /\ calls' = calls + 1
    /\ seen' = IF paniced THEN seen ELSE [seen EXCEPT ![d] = @ \o items]
    /\ stack' = <<At(at, d)>> \o rest
    /\ crashed' = IF hasDestroyed THEN "deadRequest" ELSE crashed

\* Mutant: headers_ is only set while it is null.
DoHeadersGo_KeepsPointer(d, procs, endStream, at, rest) ==
    /\ ps' = [procs EXCEPT ![d] = ProcessHeader(@, endStream)]
    /\ headers' = IF headers = "none" THEN d ELSE headers
    /\ CallGo(d, "headers", endStream, <<Hdr>> \o EndIf(endStream), at, rest)

\* doHeadersGo after processHeader
DoHeadersGo(d, procs, endStream, at, rest) ==
    /\ ps' = [procs EXCEPT ![d] = ProcessHeader(@, endStream)]
    /\ headers' = d
    /\ CallGo(d, "headers", endStream, <<Hdr>> \o EndIf(endStream), at, rest)

DoDataGo(d, p, data, endStream, at, rest) ==
    /\ ps' = [ps EXCEPT ![d] = Push(ProcessData(p, endStream), data)]
    /\ CallGo(d, "data", endStream, data \o EndIf(endStream), at, rest)

DoTrailerGo(d, p, at, rest) ==
    /\ ps' = [ps EXCEPT ![d] = ProcessTrailer(p)]
    /\ CallGo(d, "trailers", TRUE, <<Trl>>, at, rest)

\* What a handler may answer: it asks for more data only while there may be
\* more, and a request that paniced is answered without running the handler.
Allowed(call) ==
    IF call.refused THEN {"Continue"}
    ELSE Answers \ ((IF call.end THEN {"StopAndBuffer", "StopAndBufferWatermark", "StopNoBuffer"} ELSE {})
                    \cup (IF call.kind = "headers" THEN {"StopNoBuffer"} ELSE {}))

\* continueStatus and sendLocalReply: refused, with a panic in Go, unless the
\* current processor state is in Go; otherwise posted to the worker.
Post(act, status, call) ==
    \/ /\ hasDestroyed
       /\ UNCHANGED <<posted, paniced>>
    \/ /\ ~hasDestroyed
       /\ ~InGo(ps[Cur])
       /\ paniced' = TRUE
       /\ UNCHANGED posted
    \/ /\ ~hasDestroyed
       /\ InGo(ps[Cur])
       /\ posted' = Append(posted, [act |-> act, status |-> status, call |-> call])
       /\ UNCHANGED paniced

\* Go returns status to the worker, which is at the place at.
GoReturns(at, call, status) ==
    /\ stack # <<>>
    /\ Head(stack).at = at
    /\ call.sync
    /\ call.dir = Head(stack).dir
    /\ status \in Allowed(call)
    /\ go' = IF status = "Running"
             THEN (go \ {call}) \cup {[call EXCEPT !.sync = FALSE]}
             ELSE go \ {call}
    /\ IF status = "LocalReply" \/ call.refused
       THEN Post("reply", "LocalReply", call)
       ELSE UNCHANGED <<posted, paniced>>
    /\ UNCHANGED <<calls, seen, crashed>>

Return == stack' = Tail(stack)

\* The data Go refused to keep is the last buffer of doDataList.
Drop(d, status) ==
    dropped' = IF status = "StopNoBuffer" /\ ps[d].state = "ProcessingData"
               THEN [dropped EXCEPT ![d] = @ \cup ToSet(ps[d].latest)]
               ELSE dropped

-----------------------------------------------------------------------------
(* Calls of the filter manager                                             *)

SetEndStream(d, endStream) == [ps EXCEPT ![d].endStream = endStream]

\* Without the library the filter passes everything on.
Bypass(d, items) ==
    /\ ~dynamicLib
    /\ out' = Passed(d, items)
    /\ UNCHANGED <<filterVars, goVars, posted, crashed, dropped, closed>>

SeeTrailers(d) == [ps EXCEPT ![d].seenTrailers = TRUE]

DecodeHeaders(endStream) ==
    /\ CanFeed("decode")
    /\ fed["decode"] = <<>>
    /\ Feed("decode", <<Hdr>> \o EndIf(endStream))
    /\ \/ Bypass("decode", EndIf(endStream)) /\ UNCHANGED <<ps, stack>>
       \/ /\ dynamicLib
          /\ DoHeadersGo("decode", SetEndStream("decode", endStream), endStream, "doHeaders", stack)
          /\ UNCHANGED <<lifeVars, replyVars, trailers, paniced, posted, out, dropped, closed>>

\* encodeHeaders, called with the frames rest below it: for the response of
\* the upstream, or by the filter manager for a local reply.
EncodeHeaders(endStream, rest) ==
    LET p     == ps[Cur]
        early == p.state # "Done"
        procs == SetEndStream("encode", endStream)
    IN  /\ Feed("encode", <<Hdr>> \o EndIf(endStream))
        /\ \/ Bypass("encode", EndIf(endStream)) /\ stack' = rest /\ UNCHANGED ps
           \/ /\ dynamicLib
              /\ InGo(p)
              /\ ps' = [procs EXCEPT ![Cur] = TakeBuffer(@)]
              /\ localReplyWaitingGo' = TRUE
              /\ stack' = rest
              /\ UNCHANGED <<lifeVars, enterEncoding, localTrailers, headers, trailers, goVars,
                             posted, crashed, out, dropped, closed>>
           \/ /\ dynamicLib
              /\ ~InGo(p)
              /\ enterEncoding' = TRUE
              /\ DoHeadersGo("encode",
                             IF early THEN [procs EXCEPT ![Cur] = ClearAll(TakeBuffer(@))] ELSE procs,
                             endStream, "doHeaders", rest)
              /\ UNCHANGED <<lifeVars, localReplyWaitingGo, localTrailers, trailers, paniced,
                             posted, out, dropped, closed>>

\* The watermark callback of a full buffer makes the filter manager answer 413,
\* before the caller goes on at rest.
Reply413(d, rest) ==
    IF d = "decode"
    THEN stack' = <<At("localReply", d)>> \o rest /\ UNCHANGED closed
    ELSE stack' = rest /\ closed' = TRUE

\* doData
DoData(d, data, endStream, rest) ==
    LET p == [ps[d] EXCEPT !.endStream = endStream]
        q == AddBufferData(p, data, Limit)
        Buffer == ps' = [ps EXCEPT ![d] = q] /\ UNCHANGED <<goVars, crashed>>
    IN  CASE p.state = "WaitingData" \/ (p.state = "WaitingAllData" /\ endStream /\ p.dataBuffer = <<>>)
                -> DoDataGo(d, p, data, endStream, "doData", rest) /\ UNCHANGED <<paniced, closed>>
          [] p.state = "WaitingAllData" /\ endStream /\ p.dataBuffer # <<>>
                -> IF Overflows(p, data, Limit)
                   THEN Buffer /\ Reply413(d, <<At("bufferFull", d)>> \o rest)
                   ELSE /\ DoDataGo(d, TakeBuffer(q), q.dataBuffer, TRUE, "doData", rest)
                        /\ UNCHANGED <<paniced, closed>>
          [] (p.state = "WaitingAllData" /\ ~endStream) \/ p.state \in {"ProcessingHeader", "ProcessingData"}
                -> /\ Buffer
                   /\ IF Overflows(p, data, Limit)
                      THEN Reply413(d, rest)
                      ELSE stack' = rest /\ UNCHANGED closed
          [] OTHER -> /\ ps' = [ps EXCEPT ![d] = p]
                      /\ stack' = rest
                      /\ UNCHANGED <<goVars, crashed, closed>>

\* doData goes on after its buffer was full: "check state again".
BufferFullReturns ==
    /\ stack # <<>>
    /\ Head(stack).at = "bufferFull"
    /\ LET d == Head(stack).dir
           p == ps[d]
       IN  IF p.state = "WaitingAllData"
           THEN DoDataGo(d, TakeBuffer(p), p.dataBuffer, TRUE, "doData", Tail(stack)) /\ UNCHANGED paniced
           ELSE Return /\ UNCHANGED <<ps, goVars, crashed>>
    /\ UNCHANGED <<filterVars, posted, streamVars>>

DecodeData(data, endStream) ==
    /\ CanFeed("decode")
    /\ fed["decode"] # <<>>
    /\ data # <<>> \/ endStream
    /\ Feed("decode", data \o EndIf(endStream))
    /\ \/ Bypass("decode", data \o EndIf(endStream)) /\ UNCHANGED <<ps, stack>>
       \/ /\ dynamicLib
          /\ DoData("decode", data, endStream, stack)
          /\ UNCHANGED <<filterVars, posted, out, dropped>>

EncodeData(data, endStream, rest) ==
    /\ Feed("encode", data \o EndIf(endStream))
    /\ \/ Bypass("encode", data \o EndIf(endStream)) /\ stack' = rest /\ UNCHANGED ps
       \/ /\ dynamicLib
          /\ localReplyWaitingGo
          /\ ps' = [ps EXCEPT !["encode"] =
                       AddBufferData([@ EXCEPT !.endStream = endStream], data, Limit)]
          /\ stack' = rest
          /\ UNCHANGED <<filterVars, goVars, posted, crashed, out, dropped, closed>>
       \/ /\ dynamicLib
          /\ ~localReplyWaitingGo
          /\ DoData("encode", data, endStream, rest)
          /\ UNCHANGED <<filterVars, posted, out, dropped>>

\* Mutant: trailers_ is only set while it is null.
SetTrailers_Once(d) == trailers' = IF trailers = "none" THEN d ELSE trailers

SetTrailers(d) == trailers' = d

\* doTrailer
DoTrailer(d) ==
    LET p == SeeTrailers(d)[d]
    IN  /\ SetTrailers(d)
        /\ CASE p.state \in {"WaitingTrailer", "WaitingData"}
                  -> DoTrailerGo(d, p, "doTrailer", stack)
             [] p.state = "WaitingAllData" /\ p.dataBuffer # <<>>
                  -> DoDataGo(d, TakeBuffer(p), p.dataBuffer, FALSE, "doTrailerData", stack)
             [] OTHER -> ps' = [ps EXCEPT ![d] = p] /\ UNCHANGED <<go, calls, seen, stack, crashed>>
        /\ UNCHANGED <<lifeVars, replyVars, headers, paniced, posted, out, dropped, closed>>

DecodeTrailers ==
    /\ CanFeed("decode")
    /\ "decode" \in WithTrailers
    /\ fed["decode"] # <<>>
    /\ Feed("decode", <<Trl>>)
    /\ \/ Bypass("decode", <<Trl>>) /\ ps' = SeeTrailers("decode") /\ UNCHANGED stack
       \/ dynamicLib /\ DoTrailer("decode")

EncodeTrailers ==
    /\ CanFeed("encode")
    /\ "encode" \in WithTrailers
    /\ fed["encode"] # <<>>
    /\ Feed("encode", <<Trl>>)
    /\ \/ Bypass("encode", <<Trl>>) /\ ps' = SeeTrailers("encode") /\ UNCHANGED stack
       \/ /\ dynamicLib
          /\ localReplyWaitingGo
          /\ localTrailers' = TRUE
          /\ ps' = SeeTrailers("encode")
          /\ UNCHANGED <<lifeVars, enterEncoding, localReplyWaitingGo, headers, trailers, goVars,
                         stack, posted, crashed, out, dropped, closed>>
       \/ dynamicLib /\ ~localReplyWaitingGo /\ DoTrailer("encode")

\* The upstream responds: after it has the whole request, unless EarlyResponse.
ResponseHeaders(endStream) ==
    /\ CanFeed("encode")
    /\ fed["encode"] = <<>>
    /\ out["decode"] # <<>>
    /\ EarlyResponse \/ (Ended(fed["decode"]) /\ Ended(out["decode"]))
    /\ EncodeHeaders(endStream, stack)

ResponseData(data, endStream) ==
    /\ CanFeed("encode")
    /\ fed["encode"] # <<>>
    /\ data # <<>> \/ endStream
    /\ EncodeData(data, endStream, stack)

-----------------------------------------------------------------------------
(* Go returns to the worker                                                *)

\* continueDoData: what is kept in doDataList is passed on, if there is any.
\* Mutant: the check for an empty doDataList is forgotten.
NothingToDo_Never(p) == FALSE

NothingToDo(p) == ~p.endStream /\ DataList(p) = <<>>

ContinueDoData(d, p) ==
    IF NothingToDo(p)
    THEN ps' = [ps EXCEPT ![d] = p] /\ UNCHANGED out
    ELSE /\ ps' = [ps EXCEPT ![d] = ClearAll(p)]
         /\ out' = Passed(d, DataList(p) \o EndIf(p.doEndStream))

\* decodeHeaders or encodeHeaders returns after Go did.
HeadersReturn(call, status) ==
    LET d == call.dir
    IN  /\ GoReturns("doHeaders", call, status)
        /\ ps' = [ps EXCEPT ![d] = HandleHeaderGolangStatus(@, status)]
        /\ IF IsDone(status)
           THEN headers' = "none" /\ out' = Passed(d, EndIf(call.end))
           ELSE UNCHANGED <<headers, out>>
        /\ Return
        /\ UNCHANGED <<lifeVars, replyVars, trailers, fed, dropped, closed>>

\* decodeData or encodeData returns after Go did.
DataReturn(call, status) ==
    LET d == call.dir
        p == HandleDataGolangStatus(ps[d], status)
    IN  /\ GoReturns("doData", call, status)
        /\ IF IsDone(status)
           THEN /\ ps' = [ps EXCEPT ![d] = ClearAll(p)]
                /\ out' = Passed(d, DataList(p) \o EndIf(call.end))
           ELSE ps' = [ps EXCEPT ![d] = p] /\ UNCHANGED out
        /\ Drop(d, status)
        /\ Return
        /\ UNCHANGED <<filterVars, fed, closed>>

\* decodeTrailers or encodeTrailers returns after Go did.
TrailerReturn(call, status) ==
    LET d == call.dir
    IN  /\ GoReturns("doTrailer", call, status)
        /\ ps' = [ps EXCEPT ![d] = HandleTrailerGolangStatus(@, status)]
        /\ out' = IF IsDone(status) THEN Passed(d, <<Trl>>) ELSE out
        /\ Return
        /\ UNCHANGED <<filterVars, fed, dropped, closed>>

\* doTrailer showed Go the buffered data first; then come the trailers.
TrailerDataReturn(call, status) ==
    LET d == call.dir
        p == HandleDataGolangStatus(ps[d], status)
    IN  /\ GoReturns("doTrailerData", call, status)
        /\ ps' = [ps EXCEPT ![d] = p]
        /\ Drop(d, status)
        /\ stack' = IF p.state = "WaitingTrailer"
                    THEN <<At("trailerAfterData", d)>> \o Tail(stack)
                    ELSE Tail(stack)
        /\ UNCHANGED <<filterVars, fed, out, closed>>

TrailerAfterData ==
    /\ stack # <<>>
    /\ Head(stack).at = "trailerAfterData"
    /\ LET d == Head(stack).dir IN DoTrailerGo(d, ps[d], "doTrailer", Tail(stack))
    /\ UNCHANGED <<filterVars, paniced, posted, streamVars>>

-----------------------------------------------------------------------------
(* continueStatusInternal, in the steps between its calls out of the filter *)

\* Mutant: the headers go on although the data that ends the stream is kept.
MayResumeHeaders_Always(p) == TRUE

\* The filter manager would end the stream with the headers when it knows the
\* end and Go does not.
MayResumeHeaders(p) == p.doEndStream \/ ~IsStreamEnd(p)

\* The first step: what Go answered, for the processor state d, called with
\* the frames rest below it.
ContinueStatusInternal(d, status, rest) ==
    LET p    == ps[d]
        q    == HandleGolangStatus(p, status)
        done == InGo(p) /\ IsDone(status)
        Goto(label) == stack' = <<At(label, d)>> \o rest
    IN  /\ Drop(d, status)
        /\ \/ /\ done
              /\ p.state = "ProcessingHeader"
              /\ ps' = [ps EXCEPT ![d] = q]
              /\ IF MayResumeHeaders(q)
                 THEN out' = Resumed(d) /\ Goto("forwarded")
                 ELSE UNCHANGED out /\ Goto("checkData")
           \/ /\ done
              /\ p.state = "ProcessingData"
              /\ ContinueDoData(d, q)
              /\ Goto(IF NothingToDo(q) THEN "checkData" ELSE "forwarded")
           \/ /\ done
              /\ p.state = "ProcessingTrailer"
              /\ ContinueDoData(d, q)
              /\ Goto("forwardedTrailerData")
           \/ /\ ~done
              /\ ps' = [ps EXCEPT ![d] = q]
              /\ UNCHANGED out
              /\ Goto("checkData")

\* The trailers follow the data: continueProcessing.
TrailersForwarded ==
    /\ stack # <<>>
    /\ Head(stack).at = "forwardedTrailerData"
    /\ LET d == Head(stack).dir
       IN  /\ out' = Resumed(d)
           /\ stack' = <<At("forwarded", d)>> \o Tail(stack)
    /\ UNCHANGED <<filterVars, ps, goVars, posted, crashed, fed, dropped, closed>>

\* Mutant: the check for an empty buffer is forgotten.
MoreData_IgnoresEmptyBuffer(p) ==
    p.state = "WaitingData" \/ (p.state = "WaitingAllData" /\ IsStreamEnd(p))

\* Mutant: buffered data is taken only once the stream has ended.
MoreData_OnlyAtEnd(p) == p.state \in {"WaitingData", "WaitingAllData"} /\ p.endStream

\* Mutant: an end of the stream that came without data is overlooked.
MoreData_IgnoresEnd(p) ==
    \/ p.state = "WaitingData" /\ p.dataBuffer # <<>>
    \/ p.state = "WaitingAllData" /\ IsStreamEnd(p)

\* Data arrived while Go was busy, or all of what Go waits for is there.
MoreData(p) ==
    \/ p.state = "WaitingData" /\ (p.dataBuffer # <<>> \/ p.endStream)
    \/ p.state = "WaitingAllData" /\ IsStreamEnd(p)

ResumeData ==
    /\ stack # <<>>
    /\ Head(stack).at \in {"checkData", "forwarded"}
    /\ LET d == Head(stack).dir
           p == ps[d]
       IN  IF MoreData(p)
           THEN \/ /\ p.hasBuffer
                   /\ DoDataGo(d, TakeBuffer(p), p.dataBuffer, p.endStream, "resumeData", Tail(stack))
                   /\ UNCHANGED paniced
                \* getBufferData() dereferences a null data_buffer_
                \/ /\ ~p.hasBuffer
                   /\ crashed' = "nullBuffer"
                   /\ UNCHANGED <<ps, goVars, stack>>
           ELSE /\ stack' = <<At("checkTrailer", d)>> \o Tail(stack)
                /\ UNCHANGED <<ps, goVars, crashed>>
    /\ UNCHANGED <<filterVars, posted, streamVars>>

ResumeDataReturn(call, status) ==
    LET d == call.dir
        p == HandleDataGolangStatus(ps[d], status)
    IN  /\ GoReturns("resumeData", call, status)
        /\ IF IsDone(status)
           THEN /\ ContinueDoData(d, p)
                /\ stack' = <<At(IF NothingToDo(p) THEN "checkTrailer" ELSE "forwardedData", d)>>
                            \o Tail(stack)
           ELSE /\ ps' = [ps EXCEPT ![d] = p]
                /\ UNCHANGED out
                /\ Return
        /\ Drop(d, status)
        /\ UNCHANGED <<filterVars, fed, closed>>

ResumeTrailer ==
    /\ stack # <<>>
    /\ Head(stack).at \in {"checkTrailer", "forwardedData"}
    /\ LET d == Head(stack).dir
       IN  IF ps[d].state = "WaitingTrailer" /\ trailers # "none"
           THEN DoTrailerGo(d, ps[d], "resumeTrailer", Tail(stack)) /\ UNCHANGED paniced
           ELSE Return /\ UNCHANGED <<ps, goVars, crashed>>
    /\ UNCHANGED <<filterVars, posted, streamVars>>

ResumeTrailerReturn(call, status) ==
    LET d == call.dir
    IN  /\ GoReturns("resumeTrailer", call, status)
        /\ ps' = [ps EXCEPT ![d] = HandleTrailerGolangStatus(@, status)]
        /\ out' = IF IsDone(status) THEN Resumed(d) ELSE out
        /\ Return
        /\ UNCHANGED <<filterVars, fed, dropped, closed>>

\* The headers of the local reply that had to wait for Go.
LocalReplyHeadersReturn(call, status) ==
    /\ GoReturns("localReplyHeaders", call, status)
    /\ ContinueStatusInternal(call.dir, status, Tail(stack))
    /\ UNCHANGED <<filterVars, fed, closed>>

-----------------------------------------------------------------------------
(* Go handlers that went on in a goroutine, and the events they post       *)

GoAnswers(call, act, status) ==
    /\ ~call.sync
    /\ status \in Allowed(call)
    /\ go' = go \ {call}
    /\ Post(act, status, call)
    /\ UNCHANGED <<filterVars, ps, calls, seen, stack, crashed, streamVars>>

\* continueStatus
Continue(call, status) ==
    /\ status \notin {"Running", "LocalReply"}
    /\ GoAnswers(call, "continue", status)

\* sendLocalReply
SendLocalReply(call) == GoAnswers(call, "reply", "LocalReply")

\* The worker takes the next posted callback.
NextEvent(act) ==
    /\ stack = <<>>
    /\ posted # <<>>
    /\ Head(posted).act \in act
    /\ posted' = Tail(posted)

\* Mutant: what Go answers is ignored while the reply of another filter waits.
DropEvent_ForWaitingReply ==
    /\ NextEvent({"continue", "reply"})
    /\ hasDestroyed \/ localReplyWaitingGo
    /\ UNCHANGED <<filterVars, ps, goVars, stack, crashed, streamVars>>

\* The filter is gone or destroyed.
DropEvent ==
    /\ NextEvent({"continue", "reply"})
    /\ hasDestroyed
    /\ UNCHANGED <<filterVars, ps, goVars, stack, crashed, streamVars>>

\* continueEncodeLocalReply: Go is out of the way, the reply of the other
\* filter can enter it.
ContinueEncodeLocalReply ==
    /\ NextEvent({"continue", "reply"})
    /\ ~hasDestroyed
    /\ localReplyWaitingGo
    /\ localReplyWaitingGo' = FALSE
    /\ enterEncoding' = TRUE
    /\ trailers' = IF localTrailers THEN "encode" ELSE trailers
    /\ LET enc == ps["encode"]
       IN  DoHeadersGo("encode", [ps EXCEPT ![Cur] = ClearAll(@)],
                       enc.endStream /\ ~localTrailers /\ enc.dataBuffer = <<>>,
                       "localReplyHeaders", <<>>)
    /\ UNCHANGED <<lifeVars, localTrailers, paniced, streamVars>>

ContinueEvent ==
    /\ NextEvent({"continue"})
    /\ ~hasDestroyed
    /\ ~localReplyWaitingGo
    /\ ContinueStatusInternal(Cur, Head(posted).status, <<>>)
    /\ UNCHANGED <<filterVars, goVars, crashed, fed, closed>>

\* sendLocalReplyInternal
LocalReplyEvent ==
    /\ NextEvent({"reply"})
    /\ ~hasDestroyed
    /\ ~localReplyWaitingGo
    /\ LET p == ClearAll(TakeBuffer(ps[Cur]))
       IN  IF Cur = "decode"
           THEN /\ ps' = [ps EXCEPT ![Cur] = [p EXCEPT !.state = "WaitingHeader"]]
                /\ stack' = <<At("localReply", Cur)>>
                /\ UNCHANGED closed
           ELSE /\ ps' = [ps EXCEPT ![Cur] = p]
                /\ closed' = TRUE
                /\ UNCHANGED stack
    /\ UNCHANGED <<filterVars, goVars, crashed, fed, out, dropped>>

-----------------------------------------------------------------------------
(* Local replies and the end of the stream                                 *)

\* sendLocalReply of the filter manager: through the encoder filters, unless
\* a response has started, which it then cuts short.
LocalReply ==
    /\ stack # <<>>
    /\ Head(stack).at = "localReply"
    /\ IF fed["encode"] = <<>>
       THEN \E body \in BOOLEAN :
              EncodeHeaders(~body, (IF body THEN <<At("replyBody", "encode")>> ELSE <<>>) \o Tail(stack))
       ELSE /\ closed' = TRUE
            /\ Return
            /\ UNCHANGED <<filterVars, ps, goVars, posted, crashed, fed, out, dropped>>

LocalReplyBody ==
    /\ stack # <<>>
    /\ Head(stack).at = "replyBody"
    /\ EncodeData(<<Chunk(1)>>, TRUE, Tail(stack))

\* Another filter, or the filter manager itself, replies locally.
OtherLocalReply ==
    /\ LocalReplies
    /\ fed["encode"] = <<>>
    /\ ~closed
    /\ ~hasDestroyed
    /\ \/ stack = <<>>
       \/ /\ NestedReplies
          /\ stack # <<>>
          /\ Head(stack).at \in Forwarding
          /\ Head(stack).dir = "decode"
    /\ stack' = <<At("localReply", "decode")>> \o stack
    /\ UNCHANGED <<filterVars, ps, goVars, posted, crashed, streamVars>>

\* Mutant: the reason is taken from the request's state only.
DestroyReason_OfDecoding == IF InGo(ps["decode"]) THEN "Terminate" ELSE "Normal"

DestroyReason == IF InGo(ps[Cur]) THEN "Terminate" ELSE "Normal"

\* onDestroy: at any time between two calls, and inside a call that completed
\* or cut short the response.
Destroy ==
    /\ ~hasDestroyed
    /\ \/ stack = <<>> /\ (EarlyResets \/ \E d \in Dir : fed[d] # <<>>)
       \/ /\ stack # <<>>
          /\ Head(stack).at \in Forwarding \cup {"bufferFull"}
          /\ closed \/ Ended(out["encode"])
    /\ hasDestroyed' = TRUE
    /\ IF dynamicLib
       THEN /\ reason' = DestroyReason
            /\ crashed' = IF calls = 0 THEN "nullRequest" ELSE crashed
       ELSE UNCHANGED <<reason, crashed>>
    /\ UNCHANGED <<dynamicLib, replyVars, headers, trailers, ps, goVars, stack, posted, streamVars>>

-----------------------------------------------------------------------------
GoReturn ==
    \E call \in go, status \in GolangStatus :
        \/ HeadersReturn(call, status)
        \/ DataReturn(call, status)
        \/ TrailerReturn(call, status)
        \/ TrailerDataReturn(call, status)
        \/ ResumeDataReturn(call, status)
        \/ ResumeTrailerReturn(call, status)
        \/ LocalReplyHeadersReturn(call, status)

Goroutine ==
    \E call \in go :
        \/ \E status \in GolangStatus : Continue(call, status)
        \/ SendLocalReply(call)

\* Steps the worker takes by itself once it has the control.
WorkerStep ==
    \/ BufferFullReturns
    \/ TrailerAfterData
    \/ TrailersForwarded
    \/ ResumeData
    \/ ResumeTrailer
    \/ LocalReply
    \/ LocalReplyBody

Dispatch ==
    \/ DropEvent
    \/ ContinueEncodeLocalReply
    \/ ContinueEvent
    \/ LocalReplyEvent

Receive ==
    \/ \E endStream \in BOOLEAN :
          \/ DecodeHeaders(endStream)
          \/ \E data \in DataFrames("decode") : DecodeData(data, endStream)
          \/ ResponseHeaders(endStream)
          \/ \E data \in DataFrames("encode") : ResponseData(data, endStream)
    \/ DecodeTrailers
    \/ EncodeTrailers

Next ==
    /\ crashed = "no"
    /\ \/ Receive
       \/ WorkerStep
       \/ Dispatch
       \/ GoReturn
       \/ Goroutine
       \/ OtherLocalReply
       \/ Destroy

Spec == Init /\ [][Next]_vars

\* The worker goes on when it can, and Go handlers answer in the end: the API
\* asks every handler to end with a status, Continue or SendLocalReply.
Fairness ==
    /\ WF_vars(crashed = "no" /\ (WorkerStep \/ Dispatch))
    /\ WF_vars(crashed = "no" /\ GoReturn)
    /\ WF_vars(crashed = "no" /\ Goroutine)

FairSpec == Spec /\ Fairness

-----------------------------------------------------------------------------
(* Properties                                                              *)

TypeOK ==
    /\ dynamicLib \in BOOLEAN
    /\ ps \in [Dir -> Processor]
    /\ enterEncoding \in BOOLEAN
    /\ localReplyWaitingGo \in BOOLEAN
    /\ localTrailers \in BOOLEAN
    /\ headers \in Dir \cup {"none"}
    /\ trailers \in Dir \cup {"none"}
    /\ hasDestroyed \in BOOLEAN
    /\ reason \in {"none", "Normal", "Terminate"}
    /\ go \in SUBSET Call
    /\ calls \in Nat
    /\ paniced \in BOOLEAN
    /\ seen \in [Dir -> Seq(Item)]
    /\ stack \in Seq(Frame)
    /\ posted \in Seq(Event)
    /\ crashed \in {"no", "nullBuffer", "nullRequest", "deadRequest"}
    /\ fed \in [Dir -> Seq(Item)]
    /\ out \in [Dir -> Seq(Item)]
    /\ dropped \in [Dir -> SUBSET Chunks]
    /\ closed \in BOOLEAN

\* The calls that are not answered yet, as far as the worker knows.
Unanswered == go \cup {posted[i].call : i \in DOMAIN posted}

\* README, Concurrency Safety: there is no concurrency in the Go side.  At most
\* one handler of the stream is at work, or its answer is on its way.
GoSerialized ==
    /\ \A c1, c2 \in go : c1 = c2
    /\ Len(posted) <= 1
    /\ go # {} => posted = <<>>

\* An answer is applied to the call it answers: while a handler is at work or
\* its answer is on its way, the current processor state is the one that
\* called it, in the state that stands for that call.
AnswerFitsState ==
    ~hasDestroyed =>
        \A c \in Unanswered : c.dir = Cur /\ ps[Cur].state = Processing(c.kind)

\* onDestroy gives Normal as the reason only when Go is done with the request:
\* Go then frees it at once.
NormalMeansIdle == reason = "Normal" => go = {}

\* Go is never called for a destroyed stream or without a request, and the
\* filter never uses a data buffer it does not have.
NoCrash == crashed = "no"

\* A local reply that waits for Go is woken up: somebody still has to answer.
WaitingReplyIsWoken ==
    localReplyWaitingGo /\ ~hasDestroyed =>
        \/ \E c \in go : ~c.sync
        \/ posted # <<>>

\* What came in of one message before something else of it.
Earlier(d, item, other) ==
    \E i, j \in DOMAIN fed[d] : i < j /\ fed[d][i] = item /\ fed[d][j] = other

\* What is passed on is what came in, in order, without repetition, and without
\* anything after the end; only data Go asked to drop is missing.
PassedOnIntact ==
    \A d \in Dir :
        /\ ToSet(out[d]) \subseteq ToSet(fed[d]) \ dropped[d]
        /\ \A i, j \in DOMAIN out[d] : i < j => Earlier(d, out[d][i], out[d][j])
        /\ \A item \in ToSet(fed[d]) \ dropped[d], other \in ToSet(out[d]) :
               Earlier(d, item, other) => item \in ToSet(out[d])

\* Go is shown all that came in, in order, each piece once.
ShownInOrder == \A d \in Dir : IsPrefix(seen[d], fed[d])

\* Nothing is passed on before Go has seen it.
PassedAfterShown ==
    dynamicLib => \A d \in Dir : ToSet(out[d]) \subseteq ToSet(seen[d])

\* The header API of a running handler (getHeader and the others: headers_ in
\* ProcessingHeader, trailers_ otherwise) reaches the headers or trailers of
\* the message it was called for, and they have not left the filter yet.
HeaderApiIsSafe ==
    \A c \in go :
        ~hasDestroyed =>
            /\ c.kind = "headers" => headers = c.dir /\ out[c.dir] = <<>>
            /\ c.kind = "trailers" => trailers = c.dir /\ Trl \notin ToSet(out[c.dir])

\* Reading that was disabled is enabled again, unless the stream comes to an end.
ReadingResumes ==
    \A d \in Dir : ps[d].watermarkRequested ~> (~ps[d].watermarkRequested \/ closed \/ hasDestroyed)

\* Reading is disabled only while the private buffer is over its limit, so
\* draining it, for a local reply too, enables reading again.
ReadingDisabledOnlyWhenFull ==
    \A d \in Dir : ps[d].watermarkRequested => Len(ps[d].dataBuffer) > Limit

\* Go is never called for the request any more once the response is in Go.
NoDecodeCallAfterEncode ==
    [][\A c \in go' \ go : c.sync /\ c.dir = "decode" => ~enterEncoding]_vars

\* A message that came in whole is passed on whole, unless the stream is
\* destroyed or answered by a response.
Delivered ==
    /\ Ended(fed["decode"]) ~> (Ended(out["decode"]) \/ fed["encode"] # <<>> \/ closed \/ hasDestroyed)
    /\ Ended(fed["encode"]) ~> (Ended(out["encode"]) \/ closed \/ hasDestroyed)

-----------------------------------------------------------------------------
(* The inductive invariant behind GoSerialized and the properties around it *)

\* The environments it holds in: the response comes after the request, nobody
\* replies while this filter passes the request on, and no buffer that waits
\* for all data overflows.
Calm == /\ ~EarlyResponse
        /\ ~NestedReplies
        /\ MaxChunks <= Limit \/ "StopAndBuffer" \notin Answers

\* What the Go frame the worker is in was called about.
FrameKind(at) == CASE at \in {"doHeaders", "localReplyHeaders"}         -> "headers"
                   [] at \in {"doData", "doTrailerData", "resumeData"}  -> "data"
                   [] at \in {"doTrailer", "resumeTrailer"}             -> "trailers"

\* An unanswered call belongs to the current processor state, and was let in.
CallsFit ==
    \A c \in Unanswered : /\ c.dir = Cur
                          /\ ps[Cur].state = Processing(c.kind)
                          /\ ~c.refused
                          /\ c.kind = "trailers" => c.end

\* Nobody was refused so far.
NeverRefused == ~paniced

\* The worker waits for a synchronous call on top of its stack.
SyncCallIsOnTop ==
    \A c \in go : c.sync => /\ stack # <<>>
                            /\ Head(stack).at \in GoFrames
                            /\ FrameKind(Head(stack).at) = c.kind
                            /\ Head(stack).dir = c.dir

\* The posted answers are allowed ones.
PostedIsAllowed ==
    \A i \in DOMAIN posted :
        posted[i].act = "continue" =>
            posted[i].status \in Allowed(posted[i].call) \ {"Running", "LocalReply"}

\* A processor state is in Go only while an answer is outstanding.
AnswerOutstanding ==
    InGo(ps[Cur]) /\ ~hasDestroyed /\ ~closed => Unanswered # {}

CallsInv ==
    /\ GoSerialized
    /\ CallsFit
    /\ NeverRefused
    /\ SyncCallIsOnTop
    /\ PostedIsAllowed
    /\ AnswerOutstanding

ReplyBody == At("replyBody", "encode")

\* The body of a local reply is about to come.
ReplyBodyPending == stack \in {<<ReplyBody>>, <<At("doHeaders", "encode"), ReplyBody>>}

\* When the worker is in a place of the filter: it works for the current
\* processor state, and local replies start, or go on with, the response.
FrameFits(frame) ==
    /\ frame.at # "bufferFull"
    /\ frame.at = "localReply" => fed["encode"] = <<>>
    /\ frame.at = "replyBody" => frame.dir = "encode" /\ fed["encode"] = <<Hdr>>
    /\ frame.at = "trailerAfterData" => ps[Cur].state = "WaitingTrailer"
    /\ frame.at \notin {"localReply", "replyBody"} => frame.dir = Cur /\ dynamicLib

\* The worker is in one place at a time, except that the headers of a local
\* reply enter Go while its body has to wait.
StackShape ==
    \/ stack = <<>>
    \/ \E frame \in Frame : stack = <<frame>> /\ FrameFits(frame)
    \/ /\ stack = <<At("doHeaders", "encode"), ReplyBody>>
       /\ FrameFits(At("doHeaders", "encode"))
       /\ FrameFits(ReplyBody)

\* How far the stream is, as the two messages and the flags of the filter say.
StreamOrder ==
    /\ fed["decode"] = <<>> => ps["decode"].state = "WaitingHeader"
    /\ fed["encode"] = <<>> => ~enterEncoding /\ ~localReplyWaitingGo
    /\ dynamicLib /\ fed["encode"] # <<>> => enterEncoding \/ localReplyWaitingGo
    /\ fed["encode"] # <<>> => Ended(fed["decode"]) \/ Ended(fed["encode"]) \/ ReplyBodyPending
    /\ Unanswered # {} => dynamicLib
    /\ closed => enterEncoding

\* A local reply waits only for the request's handler, which went asynchronous.
ReplyWaitsForRequest ==
    localReplyWaitingGo => /\ ~enterEncoding
                           /\ InGo(ps["decode"])
                           /\ stack \in {<<>>, <<ReplyBody>>}

\* The private buffers hold no more than what came in.
BufferFits ==
    /\ \A d \in Dir : ps[d].dataBuffer = <<>> \/ Len(ps[d].dataBuffer) < Len(fed[d])
    /\ "StopAndBuffer" \notin Answers => \A d \in Dir : ps[d].state # "WaitingAllData"

FlowInv ==
    /\ StackShape
    /\ StreamOrder
    /\ ReplyWaitsForRequest
    /\ BufferFits

SerialInv == TypeOK /\ CallsInv /\ FlowInv
-----------------------------------------------------------------------------
(* What HeaderApiIsSafe, NormalMeansIdle and NoCrash need besides          *)

\* The flags of a processor state say how its message ended so far.
Flags(p, msg) ==
    /\ p.endStream <=> msg # <<>> /\ Last(msg) = End
    /\ p.seenTrailers <=> msg # <<>> /\ Last(msg) = Trl

\* What Go was told of the end is true, and when Go does not know of an end
\* that came in, there is a buffer to resume with.
Sound(p) ==
    /\ p.state \in {"ProcessingHeader", "ProcessingData"} /\ p.doEndStream => p.endStream
    /\ p.state \in {"WaitingTrailer", "ProcessingTrailer"} => p.seenTrailers
    /\ p.state \in {"WaitingData", "WaitingAllData"} => ~p.doEndStream
    /\ p.dataBuffer # <<>> => p.hasBuffer
    /\ p.state \in {"ProcessingHeader", "ProcessingData", "WaitingData", "WaitingAllData"} /\ p.endStream
          => p.doEndStream \/ p.hasBuffer

MarksFit ==
    \A d \in Dir : /\ Flags(ps[d], fed[d])
                   /\ Sound(ps[d])
                   /\ ps[d].seenTrailers => d \in WithTrailers

\* Go has been told the end of the message exactly as the processor state says.
EndsFit == \A c \in Unanswered : c.end = ps[Cur].doEndStream

\* Nothing is passed on before it came in, and Go is called for what comes in.
Started ==
    /\ fed["decode"] = <<>> => out["decode"] = <<>>
    /\ ~enterEncoding => out["encode"] = <<>> /\ ps["encode"].state = "WaitingHeader"
    /\ \A d \in Dir : fed[d] # <<>> => calls > 0

\* The headers stay in the filter as long as Go is at work on them.
HeadersHeldBack ==
    ps[Cur].state = "ProcessingHeader" => headers = Cur /\ out[Cur] = <<>>

\* The trailers that came in are the ones trailers_ points to, or the ones of a
\* local reply that waits.
TrailersReached ==
    /\ ps[Cur].seenTrailers => trailers = Cur
    /\ localReplyWaitingGo /\ ps["encode"].seenTrailers => localTrailers
    /\ localTrailers => ps["encode"].seenTrailers

\* Go is done with a message whose end was passed on.
EndIsDone ==
    /\ {End, Trl} \cap ToSet(out[Cur]) # {} => ps[Cur].state = "Done"
    /\ stack # <<>> /\ Head(stack).at = "forwardedTrailerData" => ps[Cur].state = "Done"

\* After the end of the stream nothing enters Go.
NothingAfterEnd ==
    /\ closed => stack = <<>> /\ go = {} /\ posted = <<>>
    /\ hasDestroyed /\ stack # <<>> =>
          /\ ps[Cur].state = "Done"
          /\ Head(stack).at \in Forwarding \cup {"checkData", "checkTrailer"}
    /\ reason = "Normal" => hasDestroyed /\ go = {}

EndInv ==
    /\ ~dynamicLib => reason = "none"
    /\ dynamicLib => /\ MarksFit
                     /\ EndsFit
                     /\ Started
                     /\ HeadersHeldBack
                     /\ TrailersReached
                     /\ EndIsDone
                     /\ NothingAfterEnd

StreamInv == SerialInv /\ EndInv

-----------------------------------------------------------------------------
(* What ShownInOrder needs besides                                         *)

\* The order of the items of a message.
Before(item, other) ==
    \/ item = Hdr /\ other # Hdr
    \/ item \in Chunks /\ other \in {End, Trl}
    \/ item \in Chunks /\ other \in Chunks /\ item[2] < other[2]

Ordered(msg) == \A i, j \in DOMAIN msg : i < j => Before(msg[i], msg[j])

\* Each piece of a message that came in is new.
NumbersFit(msg) ==
    /\ Ordered(msg)
    /\ \A i \in DOMAIN msg : msg[i] \in Chunks => msg[i][2] < Len(msg)

\* The end of the message, while Go was not told of it.
Rest(p) ==
    IF p.doEndStream THEN <<>>
    ELSE IF p.seenTrailers THEN <<Trl>>
    ELSE EndIf(p.endStream)

\* What came in and was not shown to Go.
Unshown(p) == (IF p.state = "WaitingHeader" THEN <<Hdr>> ELSE <<>>) \o (p.dataBuffer \o Rest(p))

\* Go is still to be shown all of a message that came in, unless a local reply
\* took its place or cut it short.
FlowsIn(d) ==
    /\ fed[d] # <<>>
    /\ d = "encode" => ~closed
    /\ d = "decode" => ~enterEncoding /\ ~localReplyWaitingGo /\ ps[d].state # "WaitingHeader"

NothingSkipped(d) == FlowsIn(d) => fed[d] = seen[d] \o Unshown(ps[d])

\* While the worker is in one of these places, it looks after the private buffer.
LooksAtBuffer == stack # <<>> /\ Head(stack).at \in {"checkData", "forwarded"}

\* Data waits in the private buffer only until Go is done with what it is at, or
\* all of it is there.
Drained ==
    ps[Cur].dataBuffer # <<>> =>
        /\ ps[Cur].state = "WaitingData" => LooksAtBuffer
        /\ stack # <<>> => Head(stack).at \notin GoFrames \ {"localReplyHeaders"}

\* Go was told of an end that came in, with all the data before it, and of the
\* trailers only when it gets them.
EndsTold(p) ==
    /\ p.doEndStream => IsStreamEnd(p) /\ p.dataBuffer = <<>>
    /\ p.state = "Done" => p.doEndStream
    /\ p.state = "WaitingTrailer" => ~p.doEndStream /\ p.dataBuffer = <<>>

\* Go was shown nothing of a response it was not called for.
ResponseUntouched ==
    /\ ~enterEncoding => seen["encode"] = <<>> /\ ~ps["encode"].doEndStream
    /\ enterEncoding => ps["encode"].state # "WaitingHeader"

InInv ==
    /\ \A d \in Dir : NumbersFit(fed[d]) /\ IsPrefix(seen[d], fed[d])
    /\ dynamicLib => /\ \A d \in Dir : NothingSkipped(d) /\ EndsTold(ps[d])
                     /\ Drained
                     /\ ResponseUntouched
    /\ ~dynamicLib => seen = [d \in Dir |-> <<>>]

-----------------------------------------------------------------------------
(* What PassedOnIntact and PassedAfterShown need besides                   *)

\* Handlers keep no data, or there are no trailers that could overtake it.
KeepsNothing == Answers \cap {"StopAndBuffer", "StopAndBufferWatermark"} = {}
NothingOvertaken == WithTrailers = {} \/ KeepsNothing

\* What was passed on, and the data that may follow it, as far as Go was shown it.
InOrder(shown, passed, kept, refused) ==
    /\ ToSet(passed) \cup ToSet(kept) \cup refused \subseteq ToSet(shown)
    /\ ToSet(kept) \cup refused \subseteq Chunks
    /\ refused \cap (ToSet(passed) \cup ToSet(kept)) = {}
    /\ Ordered(passed \o kept)
    /\ passed # <<>> => Hdr \in ToSet(passed)
    /\ \A item \in ToSet(shown) \ refused, other \in ToSet(passed) :
           Before(item, other) => item \in ToSet(passed)

\* The headers were shown to Go, and all the data it was shown is passed on,
\* kept or refused.
NothingLost(shown, passed, kept, refused) ==
    /\ Hdr \in ToSet(shown)
    /\ Chunks \cap ToSet(shown) \subseteq refused \cup ToSet(passed) \cup ToSet(kept)

\* The message leaves the filter through the current processor state.
FlowsOut(d) ==
    /\ d = Cur
    /\ ~closed
    /\ ~hasDestroyed
    /\ ~localReplyWaitingGo
    /\ ps[d].state # "WaitingHeader"

\* Data stays in the filter only while Go is at work on it.
HoldsNothing(p) ==
    DataList(p) # <<>> => p.state = "ProcessingData" /\ p.held = <<>>

LeavesInOrder(d) ==
    /\ InOrder(seen[d], out[d], DataList(ps[d]), dropped[d])
    /\ FlowsOut(d) => NothingLost(seen[d], out[d], DataList(ps[d]), dropped[d])
    /\ ps[d].state = "ProcessingHeader" => Chunks \cap ToSet(seen[d]) = {}
    /\ KeepsNothing => HoldsNothing(ps[d])

\* The trailers that are about to follow the data were shown to Go, and nothing
\* was passed on that ends the message.
TrailersFollow ==
    stack # <<>> /\ Head(stack).at = "forwardedTrailerData" =>
        /\ ps[Cur].seenTrailers
        /\ ps[Cur].doEndStream
        /\ {End, Trl} \cap ToSet(out[Cur]) = {}

\* Without trailers behind kept data, none is shown to Go because of them.
NoTrailerData == KeepsNothing /\ stack # <<>> => Head(stack).at # "doTrailerData"

\* Without the library all that comes in goes on.
AllPassedOn ==
    /\ out = fed
    /\ ~closed
    /\ dropped = [d \in Dir |-> {}]
    /\ hasDestroyed => stack = <<>>

OutInv ==
    /\ dynamicLib => /\ \A d \in Dir : LeavesInOrder(d)
                     /\ TrailersFollow
                     /\ NoTrailerData
    /\ ~dynamicLib => AllPassedOn
=============================================================================
