-------------------------- MODULE GoPluginsProofs --------------------------
(***************************************************************************)
(* What GolangFilterProofs shows of any handlers holds of the filters of   *)
(* the repository, for any filter but echo; what the MOSN adapter passes   *)
(* on; and that echo keeps the requests it answers.                        *)
(***************************************************************************)
EXTENDS GoPlugins, GolangFilterDataProofs

\* Only the echo filter answers twice.  The others are serialized, so they are never
\* refused while the stream is alive.
PluginInv ==
    /\ plugin # "echo" => SerialInv /\ late = {}
    /\ OnlySamplesDie

\* A call of a handler is accepted until the stream is destroyed.
LEMMA AcceptedUntilDestroyed ==
    ASSUME SerialInv, NEW call \in go
    PROVE  Accepted <=> ~hasDestroyed
<1>1. call \in Unanswered /\ call \in Call
  BY DEF Unanswered, SerialInv, TypeOK
<1>2. ps[Cur].state = Processing(call.kind)
  BY <1>1 DEF SerialInv, CallsInv, CallsFit
<1>3. InGo(ps[Cur])
  BY <1>1, <1>2, ProcessingIsInGo DEF Call
<1> QED  BY <1>3 DEF Accepted

\* What the handlers return is a status of a handler.
LEMMA StatusType == ASSUME NEW call PROVE Status(call) \in GolangStatus
BY DEF Status, PassThroughStatus, AdapterStatus, AsyncStatus, GolangStatus

LEMMA PluginReturnIsGoReturn == PluginReturn => GoReturn
<1> SUFFICES ASSUME PluginReturn PROVE GoReturn
  OBVIOUS
<1>1. PICK call \in go :
           \/ HeadersReturn(call, Status(call))
           \/ DataReturn(call, Status(call))
           \/ TrailerReturn(call, Status(call))
           \/ TrailerDataReturn(call, Status(call))
           \/ ResumeDataReturn(call, Status(call))
           \/ ResumeTrailerReturn(call, Status(call))
           \/ LocalReplyHeadersReturn(call, Status(call))
  BY DEF PluginReturn
<1> QED  BY <1>1, StatusType DEF GoReturn

\* A refusal is that of a destroyed stream, where it is the end of a handler too.
LEMMA RefusalIsGoroutine ==
    ASSUME SerialInv, "Continue" \in Answers, NEW call \in go, ~call.sync, PoolRefuses(call)
    PROVE  Goroutine
<1>1. hasDestroyed
  BY AcceptedUntilDestroyed DEF PoolRefuses
<1>2. "Continue" \in Allowed(call)
  <2>1. ~call.refused
    BY DEF SerialInv, CallsInv, CallsFit, Unanswered
  <2> QED  BY <2>1 DEF Allowed
<1>3. Post("continue", "Continue", call)
  BY <1>1 DEF Post, PoolRefuses
<1>4. Continue(call, "Continue")
  BY <1>2, <1>3 DEF Continue, GoAnswers, PoolRefuses
<1> QED  BY <1>4 DEF Goroutine, GolangStatus

\* The goroutines of every filter but echo are goroutines of GolangFilter, or
\* leave the stream alone and end the process.
LEMMA PluginGoroutineIsGoroutine ==
    ASSUME SerialInv, "Continue" \in Answers, plugin # "echo", PluginGoroutine
    PROVE  /\ Goroutine \/ UNCHANGED vars
           /\ UNCHANGED <<plugin, late>>
           /\ died' # died => plugin \in {"async", "asyncSleep"} /\ hasDestroyed'
<1>1. PICK call \in go : /\ Runs(call)
                         /\ \/ AdapterGoroutine(call)
                            \/ SampleGoroutine(call)
                            \/ SampleDies(call)
                            \/ PoolGoroutine(call)
                            \/ EchoGoroutine(call)
  BY DEF PluginGoroutine
<1>2. ~call.sync
  BY <1>1 DEF Runs
<1>3. "Continue" \in GolangStatus
  BY DEF GolangStatus
<1>4. CASE AdapterGoroutine(call)
  BY <1>3, <1>4 DEF AdapterGoroutine, Goroutine
<1>5. CASE SampleGoroutine(call)
  <2>1. Continue(call, "Continue") \/ SendLocalReply(call)
    BY <1>5 DEF SampleGoroutine
  <2>2. Goroutine
    BY <1>3, <2>1 DEF Goroutine
  <2> QED  BY <1>5, <2>2 DEF SampleGoroutine, pluginVars
<1>6. CASE SampleDies(call)
  <2>1. hasDestroyed
    BY <1>6, AcceptedUntilDestroyed DEF SampleDies
  <2> QED  BY <1>6, <2>1 DEF SampleDies, vars, filterVars, lifeVars
<1>7. CASE PoolGoroutine(call)
  <2>1. Goroutine
    BY <1>2, <1>3, <1>7, RefusalIsGoroutine DEF PoolGoroutine, Goroutine
  <2> QED  BY <1>7, <2>1 DEF PoolGoroutine, pluginVars
<1>8. CASE EchoGoroutine(call)
  BY <1>8 DEF EchoGoroutine, Echoes
<1> QED  BY <1>1, <1>4, <1>5, <1>6, <1>7, <1>8

\* So every step is one of GolangFilter.
LEMMA PluginStepIsStep ==
    ASSUME SerialInv, "Continue" \in Answers, plugin # "echo", late = {}, PluginNext
    PROVE  /\ [Next]_vars
           /\ UNCHANGED <<plugin, late>>
           /\ died' # died => plugin \in {"async", "asyncSleep"} /\ hasDestroyed'
<1>1. CASE EnvoyStep
  BY <1>1 DEF EnvoyStep, PluginNext, Next, pluginVars
<1>2. CASE PluginReturn
  <2>1. Next
    BY <1>2, PluginReturnIsGoReturn DEF PluginNext, Next
  <2> QED  BY <1>2, <2>1 DEF PluginReturn
<1>3. CASE PluginGoroutine
  <2>1. Goroutine => Next
    BY DEF PluginNext, Next
  <2> QED  BY <1>3, <2>1, PluginGoroutineIsGoroutine
<1>4. CASE ContinueLate
  BY <1>4 DEF ContinueLate
<1> QED  BY <1>1, <1>2, <1>3, <1>4 DEF PluginNext

\* The filter that is registered is never changed, and echo does not die.
LEMMA EchoLives ==
    ASSUME plugin = "echo", PluginNext
    PROVE  UNCHANGED <<plugin, died>>
BY DEF PluginNext, EnvoyStep, pluginVars, PluginReturn, PluginGoroutine, AdapterGoroutine,
       SampleGoroutine, SampleDies, PoolGoroutine, EchoGoroutine, ContinueLate

LEMMA PluginInit_Inv == ASSUME PluginInit PROVE PluginInv
<1>1. SerialInv
  BY InitSerial DEF PluginInit
<1> QED  BY <1>1 DEF PluginInit, PluginInv, OnlySamplesDie

LEMMA PluginNext_Inv ==
    ASSUME Calm, "Continue" \in Answers, PluginInv, [PluginNext]_allVars
    PROVE  /\ PluginInv'
           /\ plugin # "echo" => [Next]_vars
<1>1. CASE UNCHANGED allVars
  <2>1. UNCHANGED vars /\ UNCHANGED <<plugin, late, died, hasDestroyed>>
    BY <1>1 DEF allVars, vars, pluginVars, filterVars, lifeVars
  <2>2. plugin # "echo" => SerialInv'
    BY <2>1, NextSerial DEF PluginInv
  <2> QED  BY <2>1, <2>2 DEF PluginInv, OnlySamplesDie
<1>2. CASE PluginNext /\ plugin = "echo"
  <2>1. plugin' = "echo" /\ ~died'
    BY <1>2, EchoLives DEF PluginNext
  <2> QED  BY <1>2, <2>1 DEF PluginInv, OnlySamplesDie
<1>3. CASE PluginNext /\ plugin # "echo"
  <2>1. /\ [Next]_vars
        /\ UNCHANGED <<plugin, late>>
        /\ died' # died => plugin \in {"async", "asyncSleep"} /\ hasDestroyed'
    BY <1>3, PluginStepIsStep DEF PluginInv
  <2>2. SerialInv'
    BY <1>3, <2>1, NextSerial DEF PluginInv
  <2>3. OnlySamplesDie'
    BY <1>3, <2>1 DEF OnlySamplesDie, PluginNext
  <2> QED  BY <1>3, <2>1, <2>2, <2>3 DEF PluginInv
<1> QED  BY <1>1, <1>2, <1>3

\* In a calm environment the handlers of every filter but echo are serialized,
\* fit the processor state they came from, and are let in.
THEOREM PluginInvariant ==
    ASSUME Calm, "Continue" \in Answers
    PROVE  PluginSpec => []PluginInv
BY PluginInit_Inv, PluginNext_Inv, PTL DEF PluginSpec

\* pkg/http/moe.go and capi.go: every filter but echo behaves as one of the
\* handlers GolangFilter describes, so what is proved of those holds of it.
THEOREM PluginsImplementHandlers ==
    ASSUME Calm, "Continue" \in Answers
    PROVE  PluginSpec => PluginsAreHandlers
<1>1. PluginInv /\ [PluginNext]_allVars => [plugin # "echo" => [Next]_vars]_allVars
  BY PluginNext_Inv
<1> QED  BY <1>1, PluginInvariant, PTL DEF PluginSpec, PluginsAreHandlers

\* samples/async and samples/async-sleep recover no panic; still only a request
\* that has gone makes them panic.
THEOREM SamplesDieLate ==
    ASSUME Calm, "Continue" \in Answers
    PROVE  PluginSpec => []OnlySamplesDie
<1>1. PluginInv => OnlySamplesDie
  BY DEF PluginInv
<1> QED  BY <1>1, PluginInvariant, PTL

\* README, Concurrency Safety, for the filters of the repository.
THEOREM PluginsOneAtATime ==
    ASSUME Calm, "Continue" \in Answers
    PROVE  PluginSpec => [](plugin # "echo" => GoSerialized)
<1>1. PluginInv => (plugin # "echo" => GoSerialized)
  BY DEF PluginInv, SerialInv, CallsInv
<1> QED  BY <1>1, PluginInvariant, PTL

-----------------------------------------------------------------------------
(* The MOSN adapter                                                        *)

LEMMA HeadersOnlyStays ==
    ASSUME NEW d \in Dir, HeadersOnly(d),
           ps'[d].state = ps[d].state, ps'[d].doEndStream = ps[d].doEndStream,
           out'[d] = out[d], fed'[d] = fed[d] \/ ~Ended(fed[d])
    PROVE  HeadersOnly(d)'
<1>1. Ended(<<Hdr, End>>)
  BY DEF Ended, Last
<1>2. fed[d] = <<Hdr, End>> => fed'[d] = fed[d]
  BY <1>1
<1> QED  BY <1>2 DEF HeadersOnly

LEMMA MosnStandsStill ==
    ASSUME MosnInv,
           \A d \in Dir : ps'[d].state = ps[d].state /\ ps'[d].doEndStream = ps[d].doEndStream,
           \A d \in Dir : fed'[d] = fed[d] \/ ~Ended(fed[d]),
           UNCHANGED <<dynamicLib, out, posted>>,
           stack' # <<>> => Head(stack').at \in PlacesOfHeaders
    PROVE  MosnInv'
<1>1. \A d \in Dir : HeadersOnly(d)'
  BY HeadersOnlyStays DEF MosnInv
<1> QED  BY <1>1 DEF MosnInv

\* Go is called with the headers of message d.
LEMMA MosnShowsHeaders ==
    ASSUME MosnInv, TypeOK, NEW d \in Dir, NEW endStream \in BOOLEAN,
           NEW procs \in [Dir -> Processor],
           \A e \in Dir : procs[e].state = ps[e].state /\ procs[e].doEndStream = ps[e].doEndStream,
           ps' = [procs EXCEPT ![d] = ProcessHeader(@, endStream)],
           endStream => fed'[d] = <<Hdr, End>>,
           out[d] # <<>> => fed'[d] = fed[d],
           \A e \in Dir : e # d => fed'[e] = fed[e],
           UNCHANGED <<dynamicLib, out>>,
           \A i \in DOMAIN posted' : posted'[i].act = "continue" /\ posted'[i].status = "Continue"
                                     /\ posted'[i].call.end,
           stack' # <<>> => Head(stack').at \in PlacesOfHeaders
    PROVE  MosnInv'
<1>1. ps'[d].state = "ProcessingHeader" /\ ps'[d].doEndStream = endStream
  BY DEF ProcessHeader, Processor
<1>2. HeadersOnly(d)'
  BY <1>1 DEF MosnInv, HeadersOnly
<1>3. ASSUME NEW e \in Dir, e # d
      PROVE  HeadersOnly(e)'
  <2>1. ps'[e] = procs[e]
    BY <1>3
  <2> QED  BY <1>3, <2>1, HeadersOnlyStays DEF MosnInv
<1> QED  BY <1>2, <1>3 DEF MosnInv

\* Data meets a message of which Go has the headers, or nothing.
LEMMA MosnDoData ==
    ASSUME MosnInv, TypeOK, NEW d \in Dir, NEW data \in Seq(Chunks), NEW endStream \in BOOLEAN, NEW rest,
           ~Ended(fed[d]),
           \A e \in Dir : e # d => fed'[e] = fed[e],
           DoData(d, data, endStream, rest),
           UNCHANGED <<dynamicLib, out, posted>>,
           rest # <<>> => Head(rest).at \in PlacesOfHeaders
    PROVE  MosnInv'
<1> DEFINE p == [ps[d] EXCEPT !.endStream = endStream]
           q == AddBufferData(p, data, Limit)
<1>1. ps \in [Dir -> Processor] /\ ps[d].state \in {"WaitingHeader", "ProcessingHeader", "Done"}
  BY DEF TypeOK, MosnInv, HeadersOnly
<1>2. /\ p.state = ps[d].state /\ q.state = ps[d].state
      /\ p.doEndStream = ps[d].doEndStream /\ q.doEndStream = ps[d].doEndStream
  BY <1>1 DEF Processor, AddBufferData
<1>3. ~Overflows(p, data, Limit)
  BY <1>1, <1>2 DEF Overflows
<1>4. (\E r \in {p, q} : ps' = [ps EXCEPT ![d] = r]) /\ stack' = rest
  BY <1>1, <1>2, <1>3 DEF DoData
<1>5. \A e \in Dir : ps'[e].state = ps[e].state /\ ps'[e].doEndStream = ps[e].doEndStream
  BY <1>1, <1>2, <1>4
<1> QED  BY <1>4, <1>5, MosnStandsStill

\* Trailers do, too.
LEMMA MosnDoTrailer ==
    ASSUME MosnInv, TypeOK, NEW d \in Dir, ~Ended(fed[d]),
           \A e \in Dir : e # d => fed'[e] = fed[e],
           DoTrailer(d), stack = <<>>
    PROVE  MosnInv'
<1> DEFINE p == SeeTrailers(d)[d]
<1>1. ps \in [Dir -> Processor] /\ ps[d].state \in {"WaitingHeader", "ProcessingHeader", "Done"}
  BY DEF TypeOK, MosnInv, HeadersOnly
<1>2. p.state = ps[d].state /\ p.doEndStream = ps[d].doEndStream
  BY <1>1 DEF SeeTrailers, Processor
<1>3. ps' = [ps EXCEPT ![d] = p] /\ UNCHANGED <<lifeVars, stack, posted, out>>
  BY <1>1, <1>2 DEF DoTrailer
<1>4. \A e \in Dir : ps'[e].state = ps[e].state /\ ps'[e].doEndStream = ps[e].doEndStream
  BY <1>1, <1>2, <1>3
<1> QED  BY <1>3, <1>4, MosnStandsStill DEF lifeVars

LEMMA HeadersAndEnd == <<>> \o (<<Hdr>> \o <<End>>) = <<Hdr, End>>
<1>1. ASSUME NEW x \in Item, NEW y \in Item
      PROVE  <<x>> \o <<y>> = <<x, y>>
  <2> DEFINE one == <<x>>
             two == <<y>>
             pair == <<x, y>>
  <2>1. /\ one \in Seq(Item) /\ Len(one) = 1 /\ one[1] = x
        /\ two \in Seq(Item) /\ Len(two) = 1 /\ two[1] = y
        /\ pair \in Seq(Item) /\ Len(pair) = 2 /\ pair[1] = x /\ pair[2] = y
    OBVIOUS
  <2> HIDE DEF one, two, pair
  <2>2. /\ one \o two \in Seq(Item) /\ Len(one \o two) = Len(one) + Len(two)
        /\ \A i \in 1 .. Len(one) + Len(two) :
              (one \o two)[i] = IF i <= Len(one) THEN one[i] ELSE two[i - Len(one)]
    BY <2>1, ConcatProperties
  <2> DEFINE both == one \o two
  <2>3. /\ both \in Seq(Item) /\ Len(both) = Len(pair)
        /\ \A i \in 1 .. Len(both) : both[i] = pair[i]
    <3> HIDE DEF both
    <3>1. /\ both \in Seq(Item) /\ Len(both) = 2
          /\ \A i \in 1 .. 2 : both[i] = IF i <= 1 THEN one[i] ELSE two[i - 1]
      BY <2>1, <2>2 DEF both
    <3>2. both[1] = x /\ both[2] = y
      BY <2>1, <3>1
    <3> QED  BY <2>1, <3>1, <3>2
  <2>4. both = pair
    <3> HIDE DEF both
    <3> QED  BY <2>1, <2>3, SeqEqual
  <2> QED  BY <2>4 DEF one, two, pair
<1>2. <<Hdr, End>> \in Seq(Item)
  BY ItemTypes
<1>3. <<Hdr>> \o <<End>> = <<Hdr, End>>
  BY <1>1, ItemTypes
<1>4. \A s \in Seq(Item) : <<>> \o s = s
  BY ConcatEmptySeq
<1> QED  BY <1>2, <1>3, <1>4, Zenon

LEMMA HeadersFed ==
    ASSUME TypeOK, NEW d \in Dir, NEW endStream \in BOOLEAN, fed[d] = <<>>,
           Feed(d, <<Hdr>> \o EndIf(endStream))
    PROVE  /\ endStream => fed'[d] = <<Hdr, End>>
           /\ \A e \in Dir : e # d => fed'[e] = fed[e]
<1>1. fed \in [Dir -> Seq(Item)]
  BY DEF TypeOK
<1>2. fed'[d] = <<>> \o (<<Hdr>> \o EndIf(endStream)) /\ \A e \in Dir : e # d => fed'[e] = fed[e]
  BY <1>1 DEF Feed
<1>3. CASE endStream
  <2>1. EndIf(endStream) = <<End>>
    BY <1>3 DEF EndIf
  <2> QED  BY <1>2, <2>1, HeadersAndEnd
<1> QED  BY <1>2, <1>3

LEMMA MosnReceivesRequest ==
    ASSUME MosnInv, TypeOK,
           \/ \E endStream \in BOOLEAN :
                 \/ DecodeHeaders(endStream)
                 \/ \E data \in DataFrames("decode") : DecodeData(data, endStream)
           \/ DecodeTrailers
    PROVE  MosnInv'
<1>1. /\ ps \in [Dir -> Processor] /\ fed \in [Dir -> Seq(Item)] /\ "decode" \in Dir /\ dynamicLib
  BY DEF TypeOK, MosnInv, Dir
<1>2. ASSUME NEW endStream \in BOOLEAN, DecodeHeaders(endStream)
      PROVE  MosnInv'
  <2> DEFINE procs == SetEndStream("decode", endStream)
  <2>1. /\ fed["decode"] = <<>> /\ Feed("decode", <<Hdr>> \o EndIf(endStream)) /\ stack = <<>>
        /\ DoHeadersGo("decode", procs, endStream, "doHeaders", stack)
        /\ UNCHANGED <<lifeVars, posted, out>>
    BY <1>1, <1>2 DEF DecodeHeaders, Bypass, CanFeed
  <2>2. procs \in [Dir -> Processor]
        /\ \A e \in Dir : procs[e].state = ps[e].state /\ procs[e].doEndStream = ps[e].doEndStream
    BY <1>1 DEF SetEndStream, Processor
  <2>3. ps' = [procs EXCEPT !["decode"] = ProcessHeader(@, endStream)]
    BY <2>1 DEF DoHeadersGo
  <2>4. /\ endStream => fed'["decode"] = <<Hdr, End>>
        /\ \A e \in Dir : e # "decode" => fed'[e] = fed[e]
    BY <1>1, <2>1, HeadersFed
  <2>5. out["decode"] = <<>>
    <3>1. HeadersOnly("decode") /\ fed["decode"] # <<Hdr, End>>
      BY <1>1, <2>1 DEF MosnInv
    <3> QED  BY <3>1 DEF HeadersOnly
  <2>6. stack' # <<>> => Head(stack').at \in PlacesOfHeaders
    BY <2>1 DEF DoHeadersGo, CallGo, At, PlacesOfHeaders
  <2> HIDE DEF procs
  <2>7. \A i \in DOMAIN posted' : posted'[i].act = "continue" /\ posted'[i].status = "Continue" /\ posted'[i].call.end
    BY <2>1 DEF MosnInv
  <2>8. UNCHANGED <<dynamicLib, out>>
    BY <2>1 DEF lifeVars
  <2> QED  BY <1>1, <2>2, <2>3, <2>4, <2>5, <2>6, <2>7, <2>8, MosnShowsHeaders
<1>3. ASSUME NEW endStream \in BOOLEAN, NEW data \in DataFrames("decode"), DecodeData(data, endStream)
      PROVE  MosnInv'
  <2>1. /\ ~Ended(fed["decode"]) /\ stack = <<>> /\ Feed("decode", data \o EndIf(endStream))
        /\ DoData("decode", data, endStream, stack)
        /\ UNCHANGED <<filterVars, posted, out>>
        /\ data # <<>> \/ endStream
    BY <1>1, <1>3 DEF DecodeData, Bypass, CanFeed
  <2>2. data \in Seq(Chunks)
    BY <1>1, <1>3, <2>1, DataFrame
  <2>3. \A e \in Dir : e # "decode" => fed'[e] = fed[e]
    BY <1>1, <2>1 DEF Feed
  <2> QED  BY <1>1, <2>1, <2>2, <2>3, MosnDoData DEF filterVars, lifeVars
<1>4. CASE DecodeTrailers
  <2>1. ~Ended(fed["decode"]) /\ stack = <<>> /\ Feed("decode", <<Trl>>) /\ DoTrailer("decode")
    BY <1>1, <1>4 DEF DecodeTrailers, Bypass, CanFeed
  <2>2. \A e \in Dir : e # "decode" => fed'[e] = fed[e]
    BY <1>1, <2>1 DEF Feed
  <2> QED  BY <1>1, <2>1, <2>2, MosnDoTrailer
<1> QED  BY <1>2, <1>3, <1>4

LEMMA MosnEncodeHeaders ==
    ASSUME MosnInv, TypeOK, NEW endStream \in BOOLEAN, fed["encode"] = <<>>,
           NEW rest \in {<<>>, <<ReplyBody>>}, EncodeHeaders(endStream, rest)
    PROVE  MosnInv'
<1> DEFINE procs   == SetEndStream("encode", endStream)
           drained == [procs EXCEPT ![Cur] = TakeBuffer(@)]
           cleared == [procs EXCEPT ![Cur] = ClearAll(TakeBuffer(@))]
<1>1. /\ ps \in [Dir -> Processor] /\ fed \in [Dir -> Seq(Item)] /\ "encode" \in Dir /\ dynamicLib /\ Cur \in Dir
  BY DEF TypeOK, MosnInv, Dir, Cur
<1>2. procs \in [Dir -> Processor]
      /\ \A e \in Dir : procs[e].state = ps[e].state /\ procs[e].doEndStream = ps[e].doEndStream
  BY <1>1 DEF SetEndStream, Processor
<1>3. Feed("encode", <<Hdr>> \o EndIf(endStream))
  BY DEF EncodeHeaders
<1>4. /\ endStream => fed'["encode"] = <<Hdr, End>>
      /\ \A e \in Dir : e # "encode" => fed'[e] = fed[e]
      /\ ~Ended(fed["encode"]) /\ out["encode"] = <<>>
  <2>1. HeadersOnly("encode") /\ fed["encode"] # <<Hdr, End>>
    BY <1>1 DEF MosnInv
  <2> QED  BY <1>1, <1>3, <2>1, HeadersFed DEF Ended, HeadersOnly
<1>5. rest # <<>> => Head(rest).at \in PlacesOfHeaders
  BY DEF ReplyBody, At, PlacesOfHeaders
<1>6. \A new \in {procs, drained, cleared} :
         /\ new \in [Dir -> Processor]
         /\ \A e \in Dir : new[e].state = ps[e].state /\ new[e].doEndStream = ps[e].doEndStream
  <2> HIDE DEF procs
  <2>1. ASSUME NEW p \in Processor
        PROVE  \A r \in {TakeBuffer(p), ClearAll(TakeBuffer(p))} :
                  r \in Processor /\ r.state = p.state /\ r.doEndStream = p.doEndStream
    <3>1. TakeBuffer(p) \in Processor /\ ClearAll(TakeBuffer(p)) \in Processor
      BY <2>1, ListTypes
    <3>2. TakeBuffer(p).state = p.state /\ TakeBuffer(p).doEndStream = p.doEndStream
      BY <2>1 DEF TakeBuffer, Processor
    <3>3. \A r \in Processor : ClearAll(r).state = r.state /\ ClearAll(r).doEndStream = r.doEndStream
      BY DEF ClearAll, Processor
    <3> QED  BY <3>1, <3>2, <3>3
  <2>2. ASSUME NEW r \in Processor, r.state = procs[Cur].state, r.doEndStream = procs[Cur].doEndStream,
               NEW new, new = [procs EXCEPT ![Cur] = r]
        PROVE  /\ new \in [Dir -> Processor]
               /\ \A e \in Dir : new[e].state = ps[e].state /\ new[e].doEndStream = ps[e].doEndStream
    BY <1>1, <1>2, <2>2
  <2>3. procs[Cur] \in Processor
    BY <1>1, <1>2
  <2> QED  BY <1>2, <2>1, <2>2, <2>3
<1> HIDE DEF procs
<1>7. CASE /\ ps' = drained
           /\ stack' = rest
           /\ UNCHANGED <<lifeVars, posted, out>>
  <2>1. \A d \in Dir : ps'[d].state = ps[d].state /\ ps'[d].doEndStream = ps[d].doEndStream
    BY <1>6, <1>7
  <2> HIDE DEF drained
  <2> QED  BY <1>1, <1>4, <1>5, <1>7, <2>1, MosnStandsStill DEF lifeVars
<1>8. ASSUME NEW new \in {procs, cleared},
             DoHeadersGo("encode", new, endStream, "doHeaders", rest),
             UNCHANGED <<lifeVars, posted, out>>
      PROVE  MosnInv'
  <2>1. ps' = [new EXCEPT !["encode"] = ProcessHeader(@, endStream)]
    BY <1>8 DEF DoHeadersGo
  <2>2. stack' = <<At("doHeaders", "encode")>> \o rest
    BY <1>8 DEF DoHeadersGo, CallGo
  <2>3. Head(stack').at \in PlacesOfHeaders
    BY <2>2 DEF At, PlacesOfHeaders, ReplyBody
  <2>4. /\ new \in [Dir -> Processor]
        /\ \A e \in Dir : new[e].state = ps[e].state /\ new[e].doEndStream = ps[e].doEndStream
    BY <1>6
  <2>5. \A i \in DOMAIN posted' : posted'[i].act = "continue" /\ posted'[i].status = "Continue" /\ posted'[i].call.end
    BY <1>8 DEF MosnInv
  <2>6. UNCHANGED <<dynamicLib, out>>
    BY <1>8 DEF lifeVars
  <2> HIDE DEF cleared, drained
  <2> QED  BY <1>1, <1>4, <2>1, <2>3, <2>4, <2>5, <2>6, MosnShowsHeaders
<1> QED  BY <1>1, <1>7, <1>8 DEF EncodeHeaders, Bypass, procs

LEMMA MosnEncodeData ==
    ASSUME MosnInv, TypeOK, NEW data \in Seq(Chunks), NEW endStream \in BOOLEAN, ~Ended(fed["encode"]),
           EncodeData(data, endStream, <<>>)
    PROVE  MosnInv'
<1>1. /\ ps \in [Dir -> Processor] /\ fed \in [Dir -> Seq(Item)] /\ "encode" \in Dir /\ dynamicLib
  BY DEF TypeOK, MosnInv, Dir
<1>2. \A e \in Dir : e # "encode" => fed'[e] = fed[e]
  BY <1>1 DEF EncodeData, Feed
<1>3. CASE /\ ps' = [ps EXCEPT !["encode"] =
                        AddBufferData([@ EXCEPT !.endStream = endStream], data, Limit)]
           /\ stack' = <<>>
           /\ UNCHANGED <<filterVars, posted, out>>
  <2>1. \A d \in Dir : ps'[d].state = ps[d].state /\ ps'[d].doEndStream = ps[d].doEndStream
    BY <1>1, <1>3 DEF AddBufferData, Processor
  <2> QED  BY <1>2, <1>3, <2>1, MosnStandsStill DEF filterVars, lifeVars
<1>4. CASE DoData("encode", data, endStream, <<>>) /\ UNCHANGED <<filterVars, posted, out, dropped>>
  BY <1>1, <1>2, <1>4, MosnDoData DEF filterVars, lifeVars
<1> QED  BY <1>1, <1>3, <1>4 DEF EncodeData, Bypass

LEMMA MosnReceivesResponse ==
    ASSUME MosnInv, TypeOK,
           \/ \E endStream \in BOOLEAN :
                 \/ ResponseHeaders(endStream)
                 \/ \E data \in DataFrames("encode") : ResponseData(data, endStream)
           \/ EncodeTrailers
    PROVE  MosnInv'
<1>1. /\ ps \in [Dir -> Processor] /\ fed \in [Dir -> Seq(Item)] /\ "encode" \in Dir /\ dynamicLib
  BY DEF TypeOK, MosnInv, Dir
<1>2. ASSUME NEW endStream \in BOOLEAN, ResponseHeaders(endStream)
      PROVE  MosnInv'
  BY <1>2, MosnEncodeHeaders DEF ResponseHeaders, CanFeed
<1>3. ASSUME NEW endStream \in BOOLEAN, NEW data \in DataFrames("encode"), ResponseData(data, endStream)
      PROVE  MosnInv'
  <2>1. ~Ended(fed["encode"]) /\ EncodeData(data, endStream, <<>>) /\ (data # <<>> \/ endStream)
    BY <1>3 DEF ResponseData, CanFeed
  <2>2. data \in Seq(Chunks)
    BY <1>1, <1>3, <2>1, DataFrame
  <2> QED  BY <2>1, <2>2, MosnEncodeData
<1>4. CASE EncodeTrailers
  <2>1. ~Ended(fed["encode"]) /\ stack = <<>> /\ Feed("encode", <<Trl>>)
    BY <1>1, <1>4 DEF EncodeTrailers, CanFeed
  <2>2. \A e \in Dir : e # "encode" => fed'[e] = fed[e]
    BY <1>1, <2>1 DEF Feed
  <2>3. CASE DoTrailer("encode")
    BY <1>1, <2>1, <2>2, <2>3, MosnDoTrailer
  <2>4. CASE ps' = SeeTrailers("encode") /\ UNCHANGED <<lifeVars, stack, posted, out>>
    <3>1. \A d \in Dir : ps'[d].state = ps[d].state /\ ps'[d].doEndStream = ps[d].doEndStream
      BY <1>1, <2>4 DEF SeeTrailers, Processor
    <3> QED  BY <2>1, <2>2, <2>4, <3>1, MosnStandsStill DEF lifeVars
  <2> QED  BY <1>1, <1>4, <2>3, <2>4 DEF EncodeTrailers, Bypass
<1> QED  BY <1>2, <1>3, <1>4

LEMMA MosnWorkerStep ==
    ASSUME MosnInv, SerialInv, WorkerStep
    PROVE  MosnInv'
<1>1. /\ TypeOK /\ stack # <<>> /\ ps \in [Dir -> Processor] /\ fed \in [Dir -> Seq(Item)]
      /\ Head(stack).at \in PlacesOfHeaders /\ Head(stack).dir \in Dir
  BY TopFrame DEF SerialInv, TypeOK, MosnInv, WorkerStep, BufferFullReturns, TrailerAfterData,
         TrailersForwarded, ResumeData, ResumeTrailer, LocalReply, LocalReplyBody
<1>2. ps[Head(stack).dir].state \in {"WaitingHeader", "ProcessingHeader", "Done"}
  BY <1>1 DEF MosnInv, HeadersOnly
<1>3. ~BufferFullReturns /\ ~TrailerAfterData /\ ~TrailersForwarded
  BY <1>1 DEF BufferFullReturns, TrailerAfterData, TrailersForwarded, PlacesOfHeaders
<1>4. Head(stack).at \notin GoFrames => Tail(stack) = <<>>
  BY <1>1, OnlyFrame
<1>5. CASE ResumeData
  <2>1. ~MoreData(ps[Head(stack).dir])
    BY <1>2 DEF MoreData
  <2>2. /\ stack' = <<At("checkTrailer", Head(stack).dir)>> \o Tail(stack)
        /\ UNCHANGED <<filterVars, ps, posted, fed, out>>
    BY <1>5, <2>1 DEF ResumeData, streamVars
  <2>3. Tail(stack) = <<>>
    BY <1>4, <1>5 DEF ResumeData, GoFrames
  <2>4. Head(stack').at \in PlacesOfHeaders
    BY <2>2, <2>3 DEF At, PlacesOfHeaders
  <2> QED  BY <2>2, <2>4, MosnStandsStill DEF filterVars, lifeVars
<1>6. CASE ResumeTrailer
  <2>1. stack' = Tail(stack) /\ UNCHANGED <<filterVars, ps, posted, fed, out>>
    BY <1>2, <1>6 DEF ResumeTrailer, Return, streamVars
  <2>2. Tail(stack) = <<>>
    BY <1>4, <1>6 DEF ResumeTrailer, GoFrames
  <2> QED  BY <2>1, <2>2, MosnStandsStill DEF filterVars, lifeVars
<1>7. CASE LocalReply
  <2>1. Tail(stack) = <<>>
    BY <1>4, <1>7 DEF LocalReply, GoFrames
  <2>2. CASE fed["encode"] = <<>>
    <3>1. PICK body \in BOOLEAN :
             EncodeHeaders(~body, (IF body THEN <<At("replyBody", "encode")>> ELSE <<>>) \o Tail(stack))
      BY <1>7, <2>2 DEF LocalReply
    <3> DEFINE rest == IF body THEN <<ReplyBody>> ELSE <<>>
    <3>2. (IF body THEN <<At("replyBody", "encode")>> ELSE <<>>) \o Tail(stack) = rest
      <4>1. \A x : <<x>> \o <<>> = <<x>>
        OBVIOUS
      <4>2. CASE body
        BY <2>1, <4>1, <4>2 DEF ReplyBody
      <4>3. CASE ~body
        BY <2>1, <4>3
      <4> QED  BY <4>2, <4>3
    <3>3. EncodeHeaders(~body, rest) /\ rest \in {<<>>, <<ReplyBody>>} /\ (~body) \in BOOLEAN
      BY <3>1, <3>2
    <3> HIDE DEF rest
    <3> QED  BY <1>1, <2>2, <3>3, MosnEncodeHeaders
  <2>3. CASE fed["encode"] # <<>>
    <3>1. stack' = Tail(stack) /\ UNCHANGED <<filterVars, ps, posted, fed, out>>
      BY <1>7, <2>3 DEF LocalReply, Return
    <3> QED  BY <2>1, <3>1, MosnStandsStill DEF filterVars, lifeVars
  <2> QED  BY <2>2, <2>3
<1>8. CASE LocalReplyBody
  <2>1. Head(stack).at = "replyBody"
    BY <1>8 DEF LocalReplyBody
  <2>2. Tail(stack) = <<>> /\ fed["encode"] = <<Hdr>>
    BY <1>1, <2>1, OnlyFrame DEF FrameFits, GoFrames
  <2>3. EncodeData(<<Chunk(1)>>, TRUE, <<>>)
    BY <1>8, <2>2 DEF LocalReplyBody
  <2>4. ~Ended(fed["encode"]) /\ <<Chunk(1)>> \in Seq(Chunks)
    BY <2>2, ItemTypes DEF Ended, Last, Hdr, End, Trl
  <2> QED  BY <1>1, <2>3, <2>4, MosnEncodeData
<1> QED  BY <1>3, <1>5, <1>6, <1>7, <1>8 DEF WorkerStep

\* The response that waited comes in: Go is told the end with its headers when
\* nothing else came in.
LEMMA MosnWaitingReply ==
    ASSUME MosnInv, StreamInv, InInv, ContinueEncodeLocalReply
    PROVE  MosnInv'
<1> DEFINE enc       == ps["encode"]
           procs     == [ps EXCEPT ![Cur] = ClearAll(@)]
           endStream == enc.endStream /\ ~localTrailers /\ enc.dataBuffer = <<>>
<1>1. /\ SerialInv /\ EndInv /\ TypeOK /\ dynamicLib /\ localReplyWaitingGo
      /\ ps \in [Dir -> Processor] /\ fed \in [Dir -> Seq(Item)] /\ "encode" \in Dir /\ Cur \in Dir
  BY DEF StreamInv, SerialInv, TypeOK, MosnInv, ContinueEncodeLocalReply, Dir, Cur
<1>2. /\ DoHeadersGo("encode", procs, endStream, "localReplyHeaders", <<>>)
      /\ posted' = Tail(posted) /\ posted # <<>>
      /\ UNCHANGED <<dynamicLib, out, fed>>
  BY DEF ContinueEncodeLocalReply, NextEvent, lifeVars, streamVars
<1>3. endStream \in BOOLEAN
  OBVIOUS
<1>4. procs \in [Dir -> Processor]
      /\ \A e \in Dir : procs[e].state = ps[e].state /\ procs[e].doEndStream = ps[e].doEndStream
  <2>1. \A p \in Processor : ClearAll(p) \in Processor /\ ClearAll(p).state = p.state
                             /\ ClearAll(p).doEndStream = p.doEndStream
    <3>1. \A p \in Processor : ClearAll(p) \in Processor
      BY ListTypes
    <3>2. \A p \in Processor : ClearAll(p).state = p.state /\ ClearAll(p).doEndStream = p.doEndStream
      BY DEF ClearAll, Processor
    <3> QED  BY <3>1, <3>2
  <2>2. procs = [ps EXCEPT ![Cur] = ClearAll(ps[Cur])]
    OBVIOUS
  <2> HIDE DEF procs
  <2>3. procs[Cur] = ClearAll(ps[Cur]) /\ \A e \in Dir \ {Cur} : procs[e] = ps[e]
    BY <1>1, <2>2
  <2> QED  BY <1>1, <2>1, <2>2, <2>3
<1>5. ps' = [procs EXCEPT !["encode"] = ProcessHeader(@, endStream)]
  BY <1>2 DEF DoHeadersGo
<1>6. endStream => fed["encode"] = <<Hdr, End>>
  <2> SUFFICES ASSUME endStream PROVE fed["encode"] = <<Hdr, End>>
    OBVIOUS
  <2>1. ~enterEncoding /\ fed["encode"] # <<>> /\ ~closed
    BY <1>1 DEF SerialInv, FlowInv, ReplyWaitsForRequest, StreamOrder
  <2>2. enc.state = "WaitingHeader" /\ ~enc.seenTrailers /\ ~enc.doEndStream /\ seen["encode"] = <<>>
    BY <1>1, <2>1 DEF EndInv, Started, TrailersReached, InInv, ResponseUntouched
  <2>3. FlowsIn("encode")
    BY <2>1 DEF FlowsIn
  <2>4. fed["encode"] = seen["encode"] \o Unshown(enc)
    BY <1>1, <2>3 DEF InInv, NothingSkipped
  <2>5. Unshown(enc) = <<Hdr>> \o (<<>> \o <<End>>)
    BY <2>2 DEF Unshown, Rest, EndIf
  <2>6. fed["encode"] = <<>> \o (<<Hdr>> \o (<<>> \o <<End>>))
    BY <2>2, <2>4, <2>5
  <2>7. <<>> \o <<End>> = <<End>>
    OBVIOUS
  <2> QED  BY <2>6, <2>7, HeadersAndEnd
<1>7. \A i \in DOMAIN posted' : posted'[i].act = "continue" /\ posted'[i].status = "Continue" /\ posted'[i].call.end
  <2>1. /\ posted \in Seq(Event) /\ DOMAIN posted' = 1 .. Len(posted) - 1 /\ DOMAIN posted = 1 .. Len(posted)
        /\ Len(posted) \in Nat
        /\ \A i \in 1 .. Len(posted) - 1 : posted'[i] = posted[i + 1]
    BY <1>1, <1>2 DEF TypeOK
  <2>2. \A i \in 1 .. Len(posted) - 1 : i + 1 \in 1 .. Len(posted)
    BY <2>1
  <2> QED  BY <2>1, <2>2 DEF MosnInv
<1>8. Head(stack').at \in PlacesOfHeaders
  BY <1>2 DEF DoHeadersGo, CallGo, At, PlacesOfHeaders
<1>9. /\ endStream => fed'["encode"] = <<Hdr, End>>
      /\ out["encode"] # <<>> => fed'["encode"] = fed["encode"]
      /\ \A e \in Dir : e # "encode" => fed'[e] = fed[e]
  BY <1>2, <1>6
<1> HIDE DEF procs, endStream
<1> QED  BY <1>1, <1>2, <1>3, <1>4, <1>5, <1>7, <1>8, <1>9, MosnShowsHeaders

LEMMA MosnDispatch ==
    ASSUME MosnInv, StreamInv, InInv, Dispatch
    PROVE  MosnInv'
<1>1. /\ SerialInv /\ EndInv /\ TypeOK /\ dynamicLib /\ Cur \in Dir
      /\ ps \in [Dir -> Processor] /\ fed \in [Dir -> Seq(Item)] /\ out \in [Dir -> Seq(Item)]
  BY DEF StreamInv, SerialInv, TypeOK, MosnInv, Dir, Cur
<1>2. posted # <<>> /\ posted' = Tail(posted) /\ stack = <<>>
  BY DEF Dispatch, DropEvent, ContinueEncodeLocalReply, ContinueEvent, LocalReplyEvent, NextEvent
<1>3. /\ Tail(posted) = <<>> /\ Head(posted) = posted[1] /\ 1 \in DOMAIN posted
      /\ posted[1].call \in Unanswered
  <2>1. 1 \in DOMAIN posted
    BY <1>1, <1>2, OnePosted DEF SerialInv, CallsInv, TypeOK
  <2> QED  BY <1>1, <1>2, <2>1, OnePosted DEF SerialInv, CallsInv
<1>4. Head(posted).act = "continue" /\ Head(posted).status = "Continue" /\ posted[1].call.end
  BY <1>3 DEF MosnInv
<1>5. CASE DropEvent
  <2>1. /\ UNCHANGED <<dynamicLib, ps, fed, out, stack>>
        /\ posted' = <<>>
    BY <1>2, <1>3, <1>5 DEF DropEvent, filterVars, lifeVars, streamVars
  <2>2. \A d \in Dir : HeadersOnly(d)'
    BY <2>1, HeadersOnlyStays DEF MosnInv
  <2> QED  BY <2>1, <2>2 DEF MosnInv
<1>6. CASE ContinueEncodeLocalReply
  BY <1>6, MosnWaitingReply
<1>7. CASE ContinueEvent
  <2> DEFINE p == ps[Cur]
             q == HandleGolangStatus(p, "Continue")
  <2>1. /\ ContinueStatusInternal(Cur, "Continue", <<>>)
        /\ UNCHANGED <<filterVars, fed>>
    BY <1>4, <1>7 DEF ContinueEvent
  <2>2. p.state = Processing(posted[1].call.kind) /\ p.doEndStream
    BY <1>1, <1>3, <1>4 DEF SerialInv, CallsInv, CallsFit, EndInv, EndsFit
  <2>3. p.state = "ProcessingHeader" /\ fed[Cur] = <<Hdr, End>>
    <3>1. HeadersOnly(Cur)
      BY <1>1 DEF MosnInv
    <3>2. p.state \notin {"WaitingHeader", "Done"}
      <4>1. posted[1].call.kind \in Kind
        BY <1>1, <1>2, <1>3, EventType DEF Event, Call
      <4> QED  BY <2>2, <4>1 DEF Processing, Kind
    <3> QED  BY <2>2, <3>1, <3>2 DEF HeadersOnly
  <2>4. q.state = "Done" /\ q.doEndStream
    BY <1>1, <2>2, <2>3 DEF HandleGolangStatus, HandleHeaderGolangStatus, AfterContinue, Processor
  <2>5. /\ ps' = [ps EXCEPT ![Cur] = q]
        /\ out' = Resumed(Cur)
        /\ stack' = <<At("forwarded", Cur)>> \o <<>>
    BY <2>1, <2>3, <2>4 DEF ContinueStatusInternal, InGo, IsDone, MayResumeHeaders
  <2>6. ps'[Cur] = q /\ \A d \in Dir : d # Cur => ps'[d] = ps[d] /\ out'[d] = out[d]
    <3> HIDE DEF q
    <3> QED  BY <1>1, <2>5 DEF Resumed, Passed
  <2>7. HeadersOnly(Cur)'
    <3>1. fed'[Cur] = <<Hdr, End>>
      BY <2>1, <2>3
    <3>2. Cur' = Cur
      BY <2>1 DEF Cur, filterVars, replyVars
    <3>3. PICK d \in Dir : d = Cur
      BY <1>1
    <3>4. HeadersOnly(d)'
      BY <2>1, <2>4, <2>6, <3>1, <3>2, <3>3 DEF HeadersOnly
    <3> QED  BY <3>2, <3>3, <3>4
  <2>8. \A d \in Dir : d # Cur => HeadersOnly(d)'
    BY <2>1, <2>6, HeadersOnlyStays DEF MosnInv
  <2>9. Head(stack').at \in PlacesOfHeaders
    BY <2>5 DEF At, PlacesOfHeaders
  <2>10. dynamicLib' /\ posted' = <<>> /\ Cur' = Cur
    BY <1>1, <1>2, <1>3, <2>1 DEF filterVars, lifeVars, replyVars, Cur
  <2> QED  BY <2>7, <2>8, <2>9, <2>10 DEF MosnInv
<1>8. ~LocalReplyEvent
  BY <1>4 DEF LocalReplyEvent, NextEvent
<1> QED  BY <1>5, <1>6, <1>7, <1>8 DEF Dispatch

LEMMA MosnReturns ==
    ASSUME MosnInv, SerialInv, plugin = "mosn", PluginReturn
    PROVE  MosnInv'
<1>1. PICK call \in go :
           \/ HeadersReturn(call, Status(call))
           \/ DataReturn(call, Status(call))
           \/ TrailerReturn(call, Status(call))
           \/ TrailerDataReturn(call, Status(call))
           \/ ResumeDataReturn(call, Status(call))
           \/ ResumeTrailerReturn(call, Status(call))
           \/ LocalReplyHeadersReturn(call, Status(call))
  BY DEF PluginReturn
<1>2. /\ call \in Call /\ call.dir \in Dir /\ ~call.refused
      /\ ps \in [Dir -> Processor] /\ stack \in Seq(Frame)
  BY DEF SerialInv, TypeOK, Call, CallsInv, CallsFit, Unanswered
<1>3. Status(call) = "Running"
  BY <1>2 DEF Status, AsyncStatus
<1>4. HeadersReturn(call, "Running") \/ LocalReplyHeadersReturn(call, "Running")
  BY <1>1, <1>3 DEF DataReturn, TrailerReturn, TrailerDataReturn, ResumeDataReturn, ResumeTrailerReturn,
         GoReturns, MosnInv, PlacesOfHeaders
<1>5. CASE HeadersReturn(call, "Running")
  <2>1. GoReturns("doHeaders", call, "Running") /\ "Running" \in GolangStatus /\ "doHeaders" \in GoFrames
    BY <1>5 DEF HeadersReturn, GolangStatus, GoFrames
  <2>2. Tail(stack) = <<>> \/ Tail(stack) = <<ReplyBody>>
    BY <2>1, GoFrame
  <2>3. /\ ps' = [ps EXCEPT ![call.dir] = HandleHeaderGolangStatus(@, "Running")]
        /\ stack' = Tail(stack) /\ UNCHANGED <<lifeVars, fed, out, posted>>
    BY <1>2, <1>5 DEF HeadersReturn, GoReturns, Return, IsDone
  <2>4. \A d \in Dir : ps'[d].state = ps[d].state /\ ps'[d].doEndStream = ps[d].doEndStream
    BY <1>2, <2>3 DEF HandleHeaderGolangStatus, Processor
  <2>5. stack' # <<>> => Head(stack').at \in PlacesOfHeaders
    <3>1. ReplyBody.at \in PlacesOfHeaders /\ Head(<<ReplyBody>>) = ReplyBody
      BY DEF ReplyBody, At, PlacesOfHeaders
    <3> HIDE DEF PlacesOfHeaders
    <3> QED  BY <2>2, <2>3, <3>1
  <2> QED  BY <2>3, <2>4, <2>5, MosnStandsStill DEF lifeVars
<1>6. CASE LocalReplyHeadersReturn(call, "Running")
  <2>1. /\ GoReturns("localReplyHeaders", call, "Running")
        /\ ContinueStatusInternal(call.dir, "Running", Tail(stack))
        /\ UNCHANGED <<filterVars, fed, posted>>
    BY <1>2, <1>6 DEF LocalReplyHeadersReturn, GoReturns
  <2>2. "Running" \in GolangStatus /\ "localReplyHeaders" \in GoFrames
    BY DEF GolangStatus, GoFrames
  <2>3. Tail(stack) = <<>>
    BY <2>1, <2>2, GoFrame
  <2>4. /\ ps' = [ps EXCEPT ![call.dir] = HandleGolangStatus(@, "Running")]
        /\ stack' = <<At("checkData", call.dir)>> \o <<>> /\ UNCHANGED out
    BY <1>2, <2>1, <2>3 DEF ContinueStatusInternal, IsDone
  <2>5. \A p \in Processor : HandleGolangStatus(p, "Running").state = p.state
                             /\ HandleGolangStatus(p, "Running").doEndStream = p.doEndStream
    BY DEF HandleGolangStatus, HandleHeaderGolangStatus, HandleDataGolangStatus, HandleTrailerGolangStatus, Processor
  <2>6. \A d \in Dir : ps'[d].state = ps[d].state /\ ps'[d].doEndStream = ps[d].doEndStream
    BY <1>2, <2>4, <2>5
  <2>7. Head(stack').at \in PlacesOfHeaders
    BY <2>4 DEF At, PlacesOfHeaders
  <2> QED  BY <2>1, <2>4, <2>6, <2>7, MosnStandsStill DEF filterVars, lifeVars
<1> QED  BY <1>4, <1>5, <1>6

LEMMA MosnGoroutines ==
    ASSUME MosnInv, SerialInv, plugin = "mosn", PluginGoroutine
    PROVE  MosnInv'
<1>1. PICK call \in go : Runs(call) /\ PoolGoroutine(call)
  BY DEF PluginGoroutine, AdapterGoroutine, SampleGoroutine, SampleDies, EchoGoroutine, Echoes
<1>2. call.end /\ call \in Call /\ posted \in Seq(Event)
  BY <1>1 DEF Runs, UsesPool, SerialInv, TypeOK
<1> DEFINE event == [act |-> "continue", status |-> "Continue", call |-> call]
<1>3. /\ posted' = posted \/ posted' = Append(posted, event)
      /\ UNCHANGED <<filterVars, ps, stack, streamVars>>
  BY <1>1 DEF PoolGoroutine, Continue, GoAnswers, Post, PoolRefuses
<1>4. event.act = "continue" /\ event.status = "Continue" /\ event.call.end /\ event \in Event
  BY <1>2 DEF Event, GolangStatus
<1> HIDE DEF event
<1>5. \A i \in DOMAIN posted' : posted'[i].act = "continue" /\ posted'[i].status = "Continue" /\ posted'[i].call.end
  <2>1. CASE posted' = Append(posted, event)
    <3>1. /\ Len(posted') = Len(posted) + 1 /\ DOMAIN posted' = 1 .. Len(posted) + 1
          /\ DOMAIN posted = 1 .. Len(posted) /\ Len(posted) \in Nat
          /\ \A i \in 1 .. Len(posted) : posted'[i] = posted[i]
          /\ posted'[Len(posted) + 1] = event
      BY <1>2, <1>4, <2>1, AppendProperties, LenProperties
    <3> QED  BY <1>4, <3>1 DEF MosnInv
  <2> QED  BY <1>3, <2>1 DEF MosnInv
<1>6. \A d \in Dir : HeadersOnly(d)'
  BY <1>3, HeadersOnlyStays DEF MosnInv, streamVars
<1> QED  BY <1>3, <1>5, <1>6 DEF MosnInv, filterVars, lifeVars

LEMMA MosnOtherStep ==
    ASSUME MosnInv, OtherLocalReply \/ Destroy
    PROVE  MosnInv'
<1>1. /\ UNCHANGED <<ps, fed, out, posted, dynamicLib>>
      /\ stack' = stack \/ stack' = <<At("localReply", "decode")>> \o stack
  BY DEF OtherLocalReply, Destroy, filterVars, lifeVars, streamVars
<1>2. stack' # <<>> => Head(stack').at \in PlacesOfHeaders
  <2>1. Head(<<At("localReply", "decode")>> \o stack).at = "localReply"
    BY DEF At
  <2> QED  BY <1>1, <2>1 DEF MosnInv, PlacesOfHeaders
<1> QED  BY <1>1, <1>2, MosnStandsStill

\* The request that is new is without a message and without a call.
LEMMA MosnInit ==
    ASSUME PluginInit
    PROVE  MosnInv
<1>1. \A d \in Dir : ps[d].state = "WaitingHeader" /\ out[d] = <<>>
  BY DEF PluginInit, Init, NewProcessor
<1>2. DOMAIN posted = {}
  <2>1. posted = <<>>
    BY DEF PluginInit, Init
  <2> QED  BY <2>1
<1> QED  BY <1>1, <1>2 DEF MosnInv, HeadersOnly, PluginInit, Init

LEMMA MosnNext ==
    ASSUME StreamInv, InInv, MosnInv, plugin = "mosn", late = {}, [PluginNext]_allVars
    PROVE  MosnInv'
<1>1. SerialInv /\ TypeOK
  BY DEF StreamInv, SerialInv
<1>2. CASE UNCHANGED allVars
  BY <1>2, MosnStandsStill DEF allVars, vars, filterVars, lifeVars, streamVars, MosnInv
<1>3. CASE EnvoyStep
  <2>1. CASE \/ \E endStream \in BOOLEAN :
                   \/ ResponseHeaders(endStream)
                   \/ \E data \in DataFrames("encode") : ResponseData(data, endStream)
             \/ EncodeTrailers
    BY <1>1, <2>1, MosnReceivesResponse
  <2>2. CASE \/ \E endStream \in BOOLEAN :
                   \/ DecodeHeaders(endStream)
                   \/ \E data \in DataFrames("decode") : DecodeData(data, endStream)
             \/ DecodeTrailers
    BY <1>1, <2>2, MosnReceivesRequest
  <2>3. CASE WorkerStep
    BY <1>1, <2>3, MosnWorkerStep
  <2>4. CASE Dispatch
    BY <2>4, MosnDispatch
  <2>5. CASE OtherLocalReply \/ Destroy
    BY <2>5, MosnOtherStep
  <2> QED  BY <1>3, <2>1, <2>2, <2>3, <2>4, <2>5 DEF EnvoyStep, Receive
<1>4. CASE PluginReturn
  BY <1>1, <1>4, MosnReturns
<1>5. CASE PluginGoroutine
  BY <1>1, <1>5, MosnGoroutines
<1>6. ~ContinueLate
  BY DEF ContinueLate
<1> QED  BY <1>2, <1>3, <1>4, <1>5, <1>6 DEF PluginNext

\* The filter that is registered is never replaced.
LEMMA NoOtherPlugin == ASSUME [PluginNext]_allVars PROVE plugin' = plugin
BY DEF PluginNext, EnvoyStep, allVars, pluginVars, PluginReturn, PluginGoroutine, AdapterGoroutine,
       SampleGoroutine, SampleDies, PoolGoroutine, EchoGoroutine, ContinueLate

\* What is proved of the handlers GolangFilter describes, of every filter but echo.
PluginStreamInv == plugin # "echo" => StreamInv /\ InInv

LEMMA PluginNext_StreamInv ==
    ASSUME Calm, "Continue" \in Answers, PluginInv, PluginStreamInv, [PluginNext]_allVars
    PROVE  PluginStreamInv'
<1>1. plugin' = plugin
  BY NoOtherPlugin
<1>2. ASSUME plugin # "echo"
      PROVE  StreamInv' /\ InInv'
  <2>1. [Next]_vars /\ StreamInv /\ InInv
    BY <1>2, PluginNext_Inv DEF PluginStreamInv
  <2>2. StreamInv'
    BY <2>1, NextSerial, NextEnd, StutterEnd DEF StreamInv
  <2> QED  BY <2>1, <2>2, NextIn
<1> QED  BY <1>1, <1>2 DEF PluginStreamInv

\* In a calm environment the MOSN adapter answers the end of a message only, so
\* that the filter stays with the headers until the message has come in.
THEOREM MosnInvariant ==
    ASSUME Calm, "Continue" \in Answers
    PROVE  PluginSpec => [](plugin = "mosn" => MosnInv)
<1>1. PluginInit => PluginStreamInv /\ (plugin = "mosn" => MosnInv)
  BY MosnInit, InitSerial, InitEnd, InitShown DEF PluginInit, PluginStreamInv, StreamInv
<1>2. /\ PluginInv /\ PluginStreamInv /\ (plugin = "mosn" => MosnInv)
      /\ [PluginNext]_allVars
      => PluginStreamInv' /\ (plugin = "mosn" => MosnInv)'
  <2> SUFFICES ASSUME PluginInv, PluginStreamInv, plugin = "mosn" => MosnInv, [PluginNext]_allVars
               PROVE  PluginStreamInv' /\ (plugin' = "mosn" => MosnInv')
    OBVIOUS
  <2>1. PluginStreamInv' /\ plugin' = plugin
    BY PluginNext_StreamInv, NoOtherPlugin
  <2>2. ASSUME plugin = "mosn"
        PROVE  MosnInv'
    <3>1. StreamInv /\ InInv /\ late = {}
      BY <2>2 DEF PluginStreamInv, PluginInv
    <3> QED  BY <2>2, <3>1, MosnNext
  <2> QED  BY <2>1, <2>2
<1> QED  BY <1>1, <1>2, PluginInvariant, PTL DEF PluginSpec

\* pkg/http/mosn/stream.go: the handlers run a chain, which ends with Continue,
\* only when they are called with endStream.  The filter calls with the headers
\* first, so all that is ever passed on are messages of headers alone.
THEOREM MosnPassesHeadersOnly ==
    ASSUME Calm, "Continue" \in Answers
    PROVE  PluginSpec => []MosnPassesOnHeadersOnly
<1>1. (plugin = "mosn" => MosnInv) => MosnPassesOnHeadersOnly
  BY DEF MosnInv, HeadersOnly, MosnPassesOnHeadersOnly
<1> QED  BY <1>1, MosnInvariant, PTL

-----------------------------------------------------------------------------
(* The echo filter.  The call stack as a set of frames                     *)

LEMMA ShiftedSets ==
    ASSUME NEW s, NEW t, NEW n \in Nat, DOMAIN s = 1 .. n, DOMAIN t = 1 .. n + 1,
           \A i \in 1 .. n : t[i + 1] = s[i]
    PROVE  ToSet(t) = {t[1]} \cup ToSet(s)
<1>1. t[1] \in ToSet(t)
  <2>1. 1 \in 1 .. n + 1
    OBVIOUS
  <2> QED  BY <2>1, InToSet
<1>2. ASSUME NEW x \in ToSet(s)
      PROVE  x \in ToSet(t)
  <2>1. PICK i \in 1 .. n : s[i] = x
    BY <1>2, InToSet
  <2>2. i + 1 \in 1 .. n + 1 /\ t[i + 1] = x
    BY <2>1
  <2> QED  BY <2>2, InToSet
<1>3. ASSUME NEW x \in ToSet(t), x # t[1]
      PROVE  x \in ToSet(s)
  <2>1. PICK i \in 1 .. n + 1 : t[i] = x
    BY <1>3, InToSet
  <2>2. i # 1
    BY <1>3, <2>1
  <2> DEFINE j == i - 1
  <2>3. j \in 1 .. n /\ j + 1 = i
    BY <2>1, <2>2
  <2> HIDE DEF j
  <2>4. s[j] = x
    BY <2>1, <2>3
  <2> QED  BY <2>3, <2>4, InToSet
<1> QED  BY <1>1, <1>2, <1>3

LEMMA FramesOfStack ==
    /\ \A s \in Seq(Frame) : s # <<>> => ToSet(s) = {Head(s)} \cup ToSet(Tail(s))
    /\ \A f \in Frame, s \in Seq(Frame) : ToSet(<<f>> \o s) = {f} \cup ToSet(s)
    /\ ToSet(<<>>) = {}
<1>1. ASSUME NEW s \in Seq(Frame), s # <<>>
      PROVE  ToSet(s) = {Head(s)} \cup ToSet(Tail(s))
  <2> DEFINE n == Len(Tail(s))
             tail == Tail(s)
  <2>1. Len(s) \in Nat /\ DOMAIN s = 1 .. Len(s) /\ Head(s) = s[1]
    BY LenProperties
  <2>2. /\ tail \in Seq(Frame) /\ n = Len(s) - 1
        /\ \A i \in 1 .. n : tail[i] = s[i + 1]
    BY <1>1, HeadTailProperties
  <2>3. n \in Nat /\ DOMAIN tail = 1 .. n
    BY <2>2, LenProperties
  <2> HIDE DEF n, tail
  <2>4. DOMAIN s = 1 .. n + 1
    BY <2>1, <2>2, <2>3
  <2>5. ToSet(s) = {s[1]} \cup ToSet(tail)
    BY <2>2, <2>3, <2>4, ShiftedSets
  <2> QED  BY <2>1, <2>5 DEF tail
<1>2. ASSUME NEW f \in Frame, NEW s \in Seq(Frame)
      PROVE  ToSet(<<f>> \o s) = {f} \cup ToSet(s)
  <2> DEFINE both == <<f>> \o s
             n    == Len(s)
             one  == <<f>>
  <2>1. one \in Seq(Frame) /\ Len(one) = 1 /\ one[1] = f
    BY <1>2
  <2>2. n \in Nat /\ DOMAIN s = 1 .. n
    BY <1>2, LenProperties
  <2>3. /\ both \in Seq(Frame) /\ Len(both) = Len(one) + n
        /\ \A i \in 1 .. Len(one) + n : both[i] = IF i <= Len(one) THEN one[i] ELSE s[i - Len(one)]
    BY <1>2, <2>1, ConcatProperties
  <2>4. DOMAIN both = 1 .. Len(both)
    BY <2>3, LenProperties
  <2> HIDE DEF both, n, one
  <2>5. /\ DOMAIN both = 1 .. n + 1 /\ both[1] = f
        /\ \A i \in 1 .. n : both[i + 1] = s[i]
    BY <2>1, <2>2, <2>3, <2>4
  <2>6. ToSet(both) = {f} \cup ToSet(s)
    BY <2>2, <2>5, ShiftedSets
  <2> QED  BY <2>6 DEF both
<1> QED  BY <1>1, <1>2, SmallSets

-----------------------------------------------------------------------------
(* Steps that keep what EchoedRequestStays needs                           *)

\* Steps of the response, once it has entered Go.
LEMMA ResponseSide ==
    ASSUME EchoInv, enterEncoding',
           ps'["decode"].state = ps["decode"].state,
           out'["decode"] = out["decode"],
           UNCHANGED paniced,
           \A c \in go' : c \in go \/ ~c.refused,
           \A frame \in ToSet(stack') : frame \in ToSet(stack) \/ frame.dir = "encode"
    PROVE  EchoFlow'
<1>1. RequestInGo'
  BY DEF EchoInv, EchoFlow, RequestInGo
<1>2. NeverPanics'
  BY DEF EchoInv, EchoFlow, NeverPanics
<1> QED  BY <1>1, <1>2 DEF EchoFlow, RequestAlone, ReplyGoesFirst

\* Steps that change nothing the invariant is about, but for the stack.
LEMMA StandsStill ==
    ASSUME EchoInv,
           \A d \in Dir : ps'[d].state = ps[d].state,
           out'["decode"] = out["decode"],
           fed["decode"] # <<>> => fed'["decode"] # <<>>,
           UNCHANGED <<enterEncoding, paniced, go, late, posted>>,
           hasDestroyed => hasDestroyed',
           \A frame \in ToSet(stack') :
              \/ frame \in ToSet(stack)
              \/ frame.dir = "decode" /\ frame.at \in AtHeaders
              \/ frame.dir = "encode" /\ frame.at = "replyBody"
    PROVE  EchoFlow'
<1>1. RequestInGo'
  BY DEF EchoInv, EchoFlow, RequestInGo, Dir
<1>2. NeverPanics'
  BY DEF EchoInv, EchoFlow, NeverPanics
<1>3. RequestAlone'
  BY DEF EchoInv, EchoFlow, RequestAlone, Dir
<1>4. ReplyGoesFirst'
  BY DEF EchoInv, EchoFlow, ReplyGoesFirst, Dir
<1> QED  BY <1>1, <1>2, <1>3, <1>4 DEF EchoFlow

LEMMA PushedFrame ==
    ASSUME NEW at \in Label, NEW d \in Dir, NEW rest \in Seq(Frame)
    PROVE  /\ At(at, d) \in Frame /\ At(at, d).at = at /\ At(at, d).dir = d
           /\ ToSet(<<At(at, d)>> \o rest) = {At(at, d)} \cup ToSet(rest)
<1>1. At(at, d) \in Frame /\ At(at, d).at = at /\ At(at, d).dir = d
  BY DEF At, Frame
<1> QED  BY <1>1, FramesOfStack

LEMMA FramePushed ==
    ASSUME NEW at \in Label, NEW d \in Dir, NEW rest \in Seq(Frame), stack' = <<At(at, d)>> \o rest
    PROVE  \A frame \in ToSet(stack') : frame \in ToSet(rest) \/ (frame.at = at /\ frame.dir = d)
<1>1. At(at, d).at = at /\ At(at, d).dir = d /\ ToSet(<<At(at, d)>> \o rest) = {At(at, d)} \cup ToSet(rest)
  BY PushedFrame
<1> DEFINE pushed == <<At(at, d)>> \o rest
<1>2. ToSet(pushed) = {At(at, d)} \cup ToSet(rest) /\ stack' = pushed
  BY <1>1
<1> HIDE DEF pushed
<1> QED  BY <1>1, <1>2

LEMMA SomeFramePushed ==
    ASSUME NEW d \in Dir, NEW rest \in Seq(Frame),
           \E label \in Label : stack' = <<At(label, d)>> \o rest
    PROVE  \A frame \in ToSet(stack') : frame \in ToSet(rest) \/ frame.dir = d
<1>1. PICK label \in Label : stack' = <<At(label, d)>> \o rest
  OBVIOUS
<1> QED  BY <1>1, FramePushed

LEMMA TopOfStack ==
    ASSUME EchoInv, stack # <<>>
    PROVE  /\ Head(stack) \in ToSet(stack) /\ ToSet(Tail(stack)) \subseteq ToSet(stack)
           /\ Head(stack).dir \in Dir /\ Tail(stack) \in Seq(Frame)
           /\ Head(stack).dir = "decode" => Head(stack).at \in AtHeaders
           /\ Head(stack).dir = "encode" /\ Head(stack).at # "replyBody" => enterEncoding
<1>1. stack \in Seq(Frame) /\ enterEncoding \in BOOLEAN
  BY DEF EchoInv, TypeOK
<1>2. Head(stack) \in ToSet(stack) /\ ToSet(Tail(stack)) \subseteq ToSet(stack)
  BY <1>1, FramesOfStack
<1>3. Head(stack).dir \in Dir /\ Tail(stack) \in Seq(Frame)
  BY TopFrame DEF EchoInv
<1> QED  BY <1>1, <1>2, <1>3 DEF EchoInv, EchoFlow, RequestInGo, RequestAlone

\* A call into Go is not refused, and puts its frame on top.
LEMMA NewCall ==
    ASSUME EchoInv, NEW d \in Dir, NEW kind, NEW endStream, NEW items, NEW at \in Label,
           NEW rest \in Seq(Frame), CallGo(d, kind, endStream, items, at, rest)
    PROVE  /\ \A c \in go' : c \in go \/ (~c.refused /\ c.dir = d)
           /\ \A frame \in ToSet(stack') : frame = At(at, d) \/ frame \in ToSet(rest)
           /\ At(at, d).at = at /\ At(at, d).dir = d
<1>1. ~paniced
  BY DEF EchoInv, EchoFlow, NeverPanics
<1>2. \A c \in go' : c \in go \/ (~c.refused /\ c.dir = d)
  BY <1>1 DEF CallGo
<1> QED  BY <1>2, PushedFrame DEF CallGo

LEMMA LabelsAreLabels ==
    /\ AtHeaders \subseteq Label
    /\ GoFrames \subseteq Label /\ Forwarding \subseteq Label
    /\ \A label \in {"doHeaders", "doData", "doTrailer", "doTrailerData", "localReplyHeaders",
                     "resumeData", "resumeTrailer", "forwarded", "forwardedData",
                     "forwardedTrailerData", "checkData", "checkTrailer", "trailerAfterData",
                     "bufferFull", "localReply", "replyBody"} : label \in Label
BY DEF AtHeaders, Label, GoFrames, Forwarding

\* The encoding processor is at work on data or trailers.
LEMMA GoSeesResponseData ==
    ASSUME EchoInv, enterEncoding, UNCHANGED <<enterEncoding, out, paniced>>,
           NEW p, NEW data, NEW endStream, NEW at \in Label, NEW rest \in Seq(Frame),
           ToSet(rest) \subseteq ToSet(stack),
           DoDataGo("encode", p, data, endStream, at, rest) \/ DoTrailerGo("encode", p, at, rest)
    PROVE  EchoFlow'
<1>1. PICK kind, end, items : CallGo("encode", kind, end, items, at, rest)
  BY DEF DoDataGo, DoTrailerGo
<1>2. ps'["decode"] = ps["decode"]
  BY DEF EchoInv, TypeOK, DoDataGo, DoTrailerGo, Dir
<1>3. "encode" \in Dir
  BY DEF Dir
<1>4. /\ \A c \in go' : c \in go \/ ~c.refused
      /\ \A frame \in ToSet(stack') : frame \in ToSet(stack) \/ frame.dir = "encode"
  BY <1>1, <1>3, NewCall
<1> QED  BY <1>2, <1>4, ResponseSide

LEMMA EchoDoData ==
    ASSUME EchoInv, NEW data, NEW endStream, NEW rest \in Seq(Frame), ToSet(rest) \subseteq ToSet(stack),
           DoData("encode", data, endStream, rest),
           UNCHANGED <<enterEncoding, hasDestroyed, posted, out, late>>, fed'["decode"] = fed["decode"]
    PROVE  EchoFlow'
<1> DEFINE p == [ps["encode"] EXCEPT !.endStream = endStream]
           q == AddBufferData(p, data, Limit)
<1>1. /\ ps \in [Dir -> Processor] /\ "encode" \in Dir /\ enterEncoding \in BOOLEAN
      /\ At("bufferFull", "encode").dir = "encode"
  BY DEF EchoInv, TypeOK, Dir, At
<1>2. p.state = ps["encode"].state
  BY <1>1 DEF Processor
<1>3. CASE enterEncoding
  <2>1. \/ \E r, more, end : DoDataGo("encode", r, more, end, "doData", rest) /\ UNCHANGED paniced
        \/ /\ \E r : ps' = [ps EXCEPT !["encode"] = r]
           /\ UNCHANGED goVars
           /\ stack' = rest \/ stack' = <<At("bufferFull", "encode")>> \o rest
    BY DEF DoData, Reply413
  <2>2. CASE \E r, more, end : DoDataGo("encode", r, more, end, "doData", rest) /\ UNCHANGED paniced
    BY <1>3, <2>2, LabelsAreLabels, GoSeesResponseData
  <2>3. CASE /\ \E r : ps' = [ps EXCEPT !["encode"] = r]
             /\ UNCHANGED goVars
             /\ stack' = rest \/ stack' = <<At("bufferFull", "encode")>> \o rest
    <3>1. ps'["decode"] = ps["decode"]
      BY <1>1, <2>3 DEF Dir
    <3>2. \A frame \in ToSet(stack') : frame \in ToSet(stack) \/ frame.dir = "encode"
      <4>1. CASE stack' = rest
        BY <4>1
      <4>2. CASE stack' = <<At("bufferFull", "encode")>> \o rest
        <5>1. ToSet(<<At("bufferFull", "encode")>> \o rest) = {At("bufferFull", "encode")} \cup ToSet(rest)
          BY <1>1, LabelsAreLabels, PushedFrame
        <5> QED  BY <1>1, <4>2, <5>1
      <4> QED  BY <2>3, <4>1, <4>2
    <3> QED  BY <1>3, <2>3, <3>1, <3>2, ResponseSide DEF goVars
  <2> QED  BY <2>1, <2>2, <2>3
<1>4. CASE ~enterEncoding
  <2>1. ps["encode"].state = "WaitingHeader"
    BY <1>4 DEF EchoInv, EchoFlow, RequestAlone
  <2>2. ps' = [ps EXCEPT !["encode"] = p] /\ stack' = rest /\ UNCHANGED goVars
    BY <1>2, <2>1 DEF DoData
  <2>3. \A d \in Dir : ps'[d].state = ps[d].state
    BY <1>1, <1>2, <2>2
  <2> QED  BY <1>4, <2>2, <2>3, StandsStill DEF goVars
<1> QED  BY <1>1, <1>3, <1>4

LEMMA EchoEncodeData ==
    ASSUME EchoInv, NEW data, NEW endStream, NEW rest \in Seq(Frame), ToSet(rest) \subseteq ToSet(stack),
           EncodeData(data, endStream, rest), UNCHANGED late
    PROVE  EchoFlow'
<1>1. fed'["decode"] = fed["decode"]
  BY DEF EncodeData, Feed, EchoInv, TypeOK, Dir
<1>2. CASE /\ localReplyWaitingGo
           /\ ps' = [ps EXCEPT !["encode"] =
                        AddBufferData([@ EXCEPT !.endStream = endStream], data, Limit)]
           /\ stack' = rest
           /\ UNCHANGED <<filterVars, goVars, posted, out>>
  <2>1. \A d \in Dir : ps'[d].state = ps[d].state
    BY <1>2 DEF EchoInv, TypeOK, AddBufferData, Processor
  <2> QED  BY <1>1, <1>2, <2>1, StandsStill DEF goVars, filterVars, replyVars, lifeVars
<1>3. CASE /\ DoData("encode", data, endStream, rest)
           /\ UNCHANGED <<filterVars, posted, out, dropped>>
  BY <1>1, <1>3, EchoDoData DEF filterVars, replyVars, lifeVars
<1> QED  BY <1>2, <1>3 DEF EncodeData, Bypass, EchoInv

LEMMA EchoEncodeHeaders ==
    ASSUME EchoInv, NEW endStream \in BOOLEAN, NEW rest \in Seq(Frame),
           \A frame \in ToSet(rest) :
              frame \in ToSet(stack) \/ (frame.dir = "encode" /\ frame.at = "replyBody"),
           EncodeHeaders(endStream, rest), UNCHANGED late
    PROVE  EchoFlow'
<1> DEFINE procs == SetEndStream("encode", endStream)
<1>1. /\ ps \in [Dir -> Processor] /\ "encode" \in Dir /\ "decode" \in Dir /\ Cur \in Dir
      /\ fed \in [Dir -> Seq(Item)] /\ dynamicLib
  BY DEF EchoInv, TypeOK, Dir, Cur
<1>2. fed'["decode"] = fed["decode"]
  BY <1>1 DEF EncodeHeaders, Feed
<1>3. procs \in [Dir -> Processor] /\ \A d \in Dir : procs[d].state = ps[d].state
  BY <1>1 DEF SetEndStream, Processor
<1>4. CASE /\ ps' = [procs EXCEPT ![Cur] = TakeBuffer(@)]
           /\ stack' = rest
           /\ UNCHANGED <<lifeVars, enterEncoding, goVars, posted, out>>
  <2>1. \A d \in Dir : ps'[d].state = ps[d].state
    BY <1>1, <1>3, <1>4, ListEffects
  <2> QED  BY <1>2, <1>4, <2>1, StandsStill DEF goVars, lifeVars
<1>5. CASE /\ enterEncoding'
           /\ \E early \in BOOLEAN :
                 DoHeadersGo("encode",
                             IF early THEN [procs EXCEPT ![Cur] = ClearAll(TakeBuffer(@))] ELSE procs,
                             endStream, "doHeaders", rest)
           /\ UNCHANGED <<paniced, posted, out>>
  <2>1. ps'["decode"].state = ps["decode"].state
    <3>1. PICK early \in BOOLEAN :
             ps' = [(IF early THEN [procs EXCEPT ![Cur] = ClearAll(TakeBuffer(@))] ELSE procs)
                       EXCEPT !["encode"] = ProcessHeader(@, endStream)]
      BY <1>5 DEF DoHeadersGo
    <3> HIDE DEF procs
    <3>2. ASSUME NEW d \in Dir
          PROVE  ClearAll(TakeBuffer(procs[d])).state = ps[d].state
      <4>1. procs[d] \in Processor
        BY <1>3
      <4>2. TakeBuffer(procs[d]) \in Processor /\ TakeBuffer(procs[d]).state = procs[d].state
        BY <4>1, ListEffects, ListTypes
      <4> QED  BY <1>3, <4>2, ListEffects
    <3> QED  BY <1>1, <1>3, <3>1, <3>2
  <2>2. PICK items : CallGo("encode", "headers", endStream, items, "doHeaders", rest)
    BY <1>5 DEF DoHeadersGo
  <2>3. /\ \A c \in go' : c \in go \/ ~c.refused
        /\ \A frame \in ToSet(stack') : frame \in ToSet(stack) \/ frame.dir = "encode"
    BY <1>1, <2>2, NewCall, LabelsAreLabels
  <2> QED  BY <1>5, <2>1, <2>3, ResponseSide
<1> QED  BY <1>1, <1>4, <1>5 DEF EncodeHeaders, Bypass

LEMMA EchoReceivesResponse ==
    ASSUME EchoInv, UNCHANGED late,
           \/ \E endStream \in BOOLEAN :
                 ResponseHeaders(endStream) \/ \E data : ResponseData(data, endStream)
           \/ EncodeTrailers
    PROVE  EchoFlow'
<1>1. /\ ps \in [Dir -> Processor] /\ "encode" \in Dir /\ "decode" \in Dir /\ stack \in Seq(Frame)
      /\ fed \in [Dir -> Seq(Item)] /\ dynamicLib /\ enterEncoding \in BOOLEAN
  BY DEF EchoInv, TypeOK, Dir
<1>2. ASSUME NEW endStream, ResponseHeaders(endStream)
      PROVE  FALSE
  BY <1>2 DEF ResponseHeaders, EchoInv, EchoFlow, RequestInGo
<1>3. ASSUME NEW endStream, NEW data, ResponseData(data, endStream)
      PROVE  EchoFlow'
  BY <1>1, <1>3, EchoEncodeData DEF ResponseData
<1>4. CASE EncodeTrailers
  <2>1. fed'["decode"] = fed["decode"]
    BY <1>1, <1>4 DEF EncodeTrailers, Feed
  <2>2. \A d \in Dir : SeeTrailers("encode")[d].state = ps[d].state
    BY SeeTrailersEffects, <1>1 DEF EchoInv
  <2>3. CASE /\ ps' = SeeTrailers("encode")
             /\ UNCHANGED <<lifeVars, enterEncoding, goVars, stack, posted, out>>
    BY <2>1, <2>2, <2>3, StandsStill DEF goVars, lifeVars
  <2>4. CASE DoTrailer("encode")
    <3>1. UNCHANGED <<lifeVars, enterEncoding, paniced, posted, out>>
      BY <2>4 DEF DoTrailer, replyVars
    <3>2. \/ \E p : DoTrailerGo("encode", p, "doTrailer", stack) /\ ps["encode"].state # "WaitingHeader"
          \/ \E p, data : /\ DoDataGo("encode", p, data, FALSE, "doTrailerData", stack)
                          /\ ps["encode"].state # "WaitingHeader"
          \/ /\ ps' = [ps EXCEPT !["encode"] = SeeTrailers("encode")["encode"]]
             /\ UNCHANGED <<go, stack>>
      BY <1>1, <2>2, <2>4 DEF DoTrailer
    <3>3. ASSUME ps["encode"].state # "WaitingHeader",
                 \/ \E p : DoTrailerGo("encode", p, "doTrailer", stack)
                 \/ \E p, data : DoDataGo("encode", p, data, FALSE, "doTrailerData", stack)
          PROVE  EchoFlow'
      <4>1. enterEncoding
        BY <3>3 DEF EchoInv, EchoFlow, RequestAlone
      <4> QED  BY <1>1, <3>1, <3>3, <4>1, LabelsAreLabels, GoSeesResponseData
    <3>4. CASE /\ ps' = [ps EXCEPT !["encode"] = SeeTrailers("encode")["encode"]]
               /\ UNCHANGED <<go, stack>>
      <4>1. \A d \in Dir : ps'[d].state = ps[d].state
        BY <1>1, <2>2, <3>4
      <4> QED  BY <2>1, <3>1, <3>4, <4>1, StandsStill DEF lifeVars
    <3> QED  BY <3>2, <3>3, <3>4
  <2> QED  BY <1>1, <1>4, <2>3, <2>4 DEF EncodeTrailers, Bypass
<1> QED  BY <1>2, <1>3, <1>4

LEMMA EchoReceivesRequest ==
    ASSUME EchoInv, UNCHANGED late,
           \/ \E endStream \in BOOLEAN :
                 DecodeHeaders(endStream) \/ \E data : DecodeData(data, endStream)
           \/ DecodeTrailers
    PROVE  EchoFlow'
<1>1. /\ ps \in [Dir -> Processor] /\ "encode" \in Dir /\ "decode" \in Dir /\ stack \in Seq(Frame)
      /\ fed \in [Dir -> Seq(Item)] /\ dynamicLib /\ enterEncoding \in BOOLEAN
      /\ ps["decode"].state \in {"WaitingHeader", "ProcessingHeader"}
  BY DEF EchoInv, EchoFlow, RequestInGo, TypeOK, Dir
<1>2. ASSUME NEW endStream \in BOOLEAN, DecodeHeaders(endStream)
      PROVE  EchoFlow'
  <2>1. /\ stack = <<>> /\ fed["decode"] = <<>>
        /\ \E items : CallGo("decode", "headers", endStream, items, "doHeaders", stack)
        /\ ps' = [SetEndStream("decode", endStream) EXCEPT !["decode"] = ProcessHeader(@, endStream)]
        /\ UNCHANGED <<lifeVars, replyVars, paniced, posted, out>>
    BY <1>1, <1>2 DEF DecodeHeaders, Bypass, CanFeed, DoHeadersGo
  <2>2. /\ ps'["decode"].state = "ProcessingHeader"
        /\ ps'["encode"] = ps["encode"]
    BY <1>1, <2>1 DEF SetEndStream, ProcessHeader, Processor, Dir
  <2>3. /\ \A c \in go' : c \in go \/ (~c.refused /\ c.dir = "decode")
        /\ \A frame \in ToSet(stack') : frame.at = "doHeaders" /\ frame.dir = "decode"
    <3>1. PICK items : CallGo("decode", "headers", endStream, items, "doHeaders", stack)
      BY <2>1
    <3>2. ToSet(stack) = {}
      BY <2>1, FramesOfStack
    <3>3. "doHeaders" \in Label
      BY LabelsAreLabels
    <3>4. \A c \in go' : c \in go \/ (~c.refused /\ c.dir = "decode")
      BY <1>1, <3>1, <3>3, NewCall
    <3>5. /\ \A frame \in ToSet(stack') : frame = At("doHeaders", "decode") \/ frame \in ToSet(stack)
          /\ At("doHeaders", "decode").at = "doHeaders" /\ At("doHeaders", "decode").dir = "decode"
      <4>1. "decode" \in Dir /\ stack \in Seq(Frame)
        BY <1>1
      <4>2. \A frame \in ToSet(stack') : frame = At("doHeaders", "decode") \/ frame \in ToSet(stack)
        BY <4>1, <3>1, <3>3, NewCall
      <4>3. At("doHeaders", "decode").at = "doHeaders" /\ At("doHeaders", "decode").dir = "decode"
        BY DEF At
      <4> QED  BY <4>2, <4>3
    <3> QED  BY <3>2, <3>4, <3>5
  <2>4. fed'["decode"] # <<>>
    BY <1>1, <1>2, <2>1 DEF DecodeHeaders, Feed, EndIf
  <2>5. RequestInGo'
    BY <2>1, <2>2, <2>3 DEF EchoInv, EchoFlow, RequestInGo, AtHeaders
  <2>6. NeverPanics'
    BY <2>1, <2>3 DEF EchoInv, EchoFlow, NeverPanics
  <2>7. RequestAlone'
    BY <2>1, <2>2, <2>3, <2>4 DEF EchoInv, EchoFlow, RequestAlone, replyVars
  <2>8. ReplyGoesFirst'
    BY <2>1 DEF EchoInv, EchoFlow, RequestAlone, ReplyGoesFirst, replyVars
  <2> QED  BY <2>5, <2>6, <2>7, <2>8 DEF EchoFlow
<1>3. ASSUME NEW endStream \in BOOLEAN, NEW data, DecodeData(data, endStream)
      PROVE  EchoFlow'
  <2> DEFINE p == [ps["decode"] EXCEPT !.endStream = endStream]
             q == AddBufferData(p, data, Limit)
  <2>1. p.state = ps["decode"].state /\ q.state = ps["decode"].state
    BY <1>1 DEF Processor, AddBufferData
  <2>2. ~Overflows(p, data, Limit)
    BY <1>1, <2>1 DEF Overflows
  <2>3. /\ fed["decode"] # <<>> /\ Feed("decode", data \o EndIf(endStream))
        /\ DoData("decode", data, endStream, stack)
        /\ UNCHANGED <<filterVars, posted, out>>
    BY <1>1, <1>3 DEF DecodeData, Bypass
  <2>4. /\ \E r \in {p, q} : ps' = [ps EXCEPT !["decode"] = r]
        /\ stack' = stack /\ UNCHANGED goVars
    BY <1>1, <2>1, <2>2, <2>3 DEF DoData
  <2>5. \A d \in Dir : ps'[d].state = ps[d].state
    BY <1>1, <2>1, <2>4
  <2>6. fed'["decode"] # <<>>
    BY <1>1, <1>3, <2>3 DEF Feed, DecodeData, EndIf
  <2> QED  BY <2>3, <2>4, <2>5, <2>6, StandsStill DEF goVars, filterVars, replyVars, lifeVars
<1>4. CASE DecodeTrailers
  <2>1. /\ Feed("decode", <<Trl>>) /\ DoTrailer("decode")
    BY <1>1, <1>4 DEF DecodeTrailers, Bypass
  <2>2. fed'["decode"] # <<>>
    BY <1>1, <2>1 DEF Feed
  <2>3. \A d \in Dir : SeeTrailers("decode")[d].state = ps[d].state
    BY SeeTrailersEffects, <1>1 DEF EchoInv
  <2>4. /\ ps' = [ps EXCEPT !["decode"] = SeeTrailers("decode")["decode"]]
        /\ UNCHANGED <<go, stack, lifeVars, replyVars, paniced, posted, out>>
    BY <1>1, <2>1, <2>3 DEF DoTrailer
  <2>5. \A d \in Dir : ps'[d].state = ps[d].state
    BY <1>1, <2>3, <2>4
  <2> QED  BY <2>2, <2>4, <2>5, StandsStill DEF lifeVars, replyVars
<1> QED  BY <1>2, <1>3, <1>4

\* The worker goes on, or takes a frame off the stack.
LEMMA EchoWorkerStep ==
    ASSUME EchoInv, UNCHANGED late, WorkerStep
    PROVE  EchoFlow'
<1> DEFINE d == Head(stack).dir
<1>1. /\ stack # <<>> /\ stack \in Seq(Frame)
      /\ ps \in [Dir -> Processor] /\ fed \in [Dir -> Seq(Item)] /\ out \in [Dir -> Seq(Item)]
      /\ dynamicLib /\ enterEncoding \in BOOLEAN /\ "encode" \in Dir /\ "decode" \in Dir
      /\ ps["decode"].state \in {"WaitingHeader", "ProcessingHeader"}
  BY DEF EchoInv, EchoFlow, RequestInGo, TypeOK, Dir, WorkerStep, BufferFullReturns, TrailerAfterData,
         TrailersForwarded, ResumeData, ResumeTrailer, LocalReply, LocalReplyBody
<1>2. /\ Head(stack) \in ToSet(stack) /\ ToSet(Tail(stack)) \subseteq ToSet(stack)
      /\ d \in {"decode", "encode"} /\ Tail(stack) \in Seq(Frame)
      /\ d = "decode" => Head(stack).at \in AtHeaders
      /\ d = "encode" /\ Head(stack).at # "replyBody" => enterEncoding
  BY <1>1, TopOfStack DEF Dir
<1>10. "encode" \in Dir /\ "decode" \in Dir /\ Tail(stack) \in Seq(Frame) /\ ToSet(Tail(stack)) \subseteq ToSet(stack)
  BY <1>1, <1>2
<1>3. CASE BufferFullReturns
  <2>1. d = "encode" /\ enterEncoding
    BY <1>2, <1>3 DEF BufferFullReturns, AtHeaders
  <2>2. \/ DoDataGo("encode", TakeBuffer(ps["encode"]), ps["encode"].dataBuffer, TRUE, "doData", Tail(stack))
           /\ UNCHANGED paniced
        \/ stack' = Tail(stack) /\ UNCHANGED <<ps, goVars>>
    BY <1>3, <2>1 DEF BufferFullReturns, Return
  <2>3. UNCHANGED <<enterEncoding, out>>
    BY <1>3 DEF BufferFullReturns, filterVars, replyVars, streamVars
  <2>4. CASE DoDataGo("encode", TakeBuffer(ps["encode"]), ps["encode"].dataBuffer, TRUE, "doData", Tail(stack))
             /\ UNCHANGED paniced
    BY <1>2, <2>1, <2>3, <2>4, LabelsAreLabels, GoSeesResponseData
  <2>5. CASE stack' = Tail(stack) /\ UNCHANGED <<ps, goVars>>
    BY <1>2, <2>1, <2>3, <2>5, ResponseSide DEF goVars
  <2> QED  BY <2>2, <2>4, <2>5
<1>4. CASE TrailerAfterData
  <2>1. d = "encode" /\ enterEncoding
    BY <1>2, <1>4 DEF TrailerAfterData, AtHeaders
  <2>2. DoTrailerGo("encode", ps["encode"], "doTrailer", Tail(stack))
    BY <1>4, <2>1 DEF TrailerAfterData
  <2> QED  BY <1>2, <1>4, <2>1, <2>2, LabelsAreLabels, GoSeesResponseData
           DEF TrailerAfterData, filterVars, replyVars, streamVars
<1>5. CASE TrailersForwarded
  <2>1. d = "encode" /\ enterEncoding
    BY <1>2, <1>5 DEF TrailersForwarded, AtHeaders
  <2>2. out'["decode"] = out["decode"]
    BY <1>1, <1>5, <2>1 DEF TrailersForwarded, Resumed, Passed
  <2>3. \A frame \in ToSet(stack') : frame \in ToSet(Tail(stack)) \/ frame.dir = "encode"
    <3>1. stack' = <<At("forwarded", "encode")>> \o Tail(stack)
      BY <1>5, <2>1 DEF TrailersForwarded
    <3>2. "forwarded" \in Label
      BY LabelsAreLabels
    <3>3. \A frame \in ToSet(stack') :
             frame \in ToSet(Tail(stack)) \/ (frame.at = "forwarded" /\ frame.dir = "encode")
      BY <1>10, <3>1, <3>2, FramePushed
    <3> QED  BY <3>3
  <2> QED  BY <1>2, <1>5, <2>1, <2>2, <2>3, ResponseSide
           DEF TrailersForwarded, filterVars, replyVars, goVars
<1>6. CASE ResumeData
  <2>1. UNCHANGED <<filterVars, posted, fed, out>>
    BY <1>6 DEF ResumeData, streamVars
  <2>2. CASE d = "decode"
    <3>1. ~MoreData(ps["decode"])
      BY <1>1 DEF MoreData
    <3>2. stack' = <<At("checkTrailer", "decode")>> \o Tail(stack) /\ UNCHANGED <<ps, goVars>>
      BY <1>6, <2>2, <3>1 DEF ResumeData
    <3>3. \A frame \in ToSet(stack') :
             frame \in ToSet(Tail(stack)) \/ (frame.dir = "decode" /\ frame.at \in AtHeaders)
      <4>1. "checkTrailer" \in Label
        BY LabelsAreLabels
      <4>2. \A frame \in ToSet(stack') :
               frame \in ToSet(Tail(stack)) \/ (frame.at = "checkTrailer" /\ frame.dir = "decode")
        BY <1>10, <3>2, <4>1, FramePushed
      <4> QED  BY <4>2 DEF AtHeaders
    <3> QED  BY <1>2, <2>1, <3>2, <3>3, StandsStill DEF filterVars, replyVars, lifeVars, goVars
  <2>3. CASE d = "encode"
    <3>1. enterEncoding
      BY <1>2, <1>6, <2>3 DEF ResumeData
    <3>2. \/ \E p, data, end : DoDataGo("encode", p, data, end, "resumeData", Tail(stack)) /\ UNCHANGED paniced
          \/ stack' = stack /\ UNCHANGED <<ps, goVars>>
          \/ stack' = <<At("checkTrailer", "encode")>> \o Tail(stack) /\ UNCHANGED <<ps, goVars>>
      BY <1>6, <2>3 DEF ResumeData
    <3>3. CASE \E p, data, end : DoDataGo("encode", p, data, end, "resumeData", Tail(stack)) /\ UNCHANGED paniced
      BY <1>2, <2>1, <3>1, <3>3, LabelsAreLabels, GoSeesResponseData DEF filterVars, replyVars
    <3>4. CASE stack' = stack /\ UNCHANGED <<ps, goVars>>
      BY <2>1, <3>1, <3>4, ResponseSide DEF filterVars, replyVars, goVars
    <3>5. CASE stack' = <<At("checkTrailer", "encode")>> \o Tail(stack) /\ UNCHANGED <<ps, goVars>>
      <4>1. \A frame \in ToSet(stack') : frame \in ToSet(Tail(stack)) \/ frame.dir = "encode"
        <5>1. "checkTrailer" \in Label
          BY LabelsAreLabels
        <5>2. \A frame \in ToSet(stack') :
                 frame \in ToSet(Tail(stack)) \/ (frame.at = "checkTrailer" /\ frame.dir = "encode")
          BY <1>10, <3>5, <5>1, FramePushed
        <5> QED  BY <5>2
      <4> QED  BY <1>2, <2>1, <3>1, <3>5, <4>1, ResponseSide DEF filterVars, replyVars, goVars
    <3> QED  BY <3>2, <3>3, <3>4, <3>5
  <2> QED  BY <1>2, <2>2, <2>3
<1>7. CASE ResumeTrailer
  <2>1. UNCHANGED <<filterVars, posted, fed, out>>
    BY <1>7 DEF ResumeTrailer, streamVars
  <2>2. \/ d = "encode" /\ DoTrailerGo("encode", ps["encode"], "resumeTrailer", Tail(stack)) /\ UNCHANGED paniced
        \/ stack' = Tail(stack) /\ UNCHANGED <<ps, goVars>>
    BY <1>1, <1>2, <1>7 DEF ResumeTrailer, Return
  <2>3. CASE d = "encode" /\ DoTrailerGo("encode", ps["encode"], "resumeTrailer", Tail(stack)) /\ UNCHANGED paniced
    <3>1. enterEncoding
      BY <1>2, <1>7, <2>3 DEF ResumeTrailer, Forwarding
    <3> QED  BY <1>2, <2>1, <2>3, <3>1, LabelsAreLabels, GoSeesResponseData DEF filterVars, replyVars
  <2>4. CASE stack' = Tail(stack) /\ UNCHANGED <<ps, goVars>>
    BY <1>2, <2>1, <2>4, StandsStill DEF filterVars, replyVars, lifeVars, goVars
  <2> QED  BY <2>2, <2>3, <2>4
<1>8. CASE LocalReply
  <2>1. \/ \E body \in BOOLEAN :
             EncodeHeaders(~body, (IF body THEN <<At("replyBody", "encode")>> ELSE <<>>) \o Tail(stack))
        \/ stack' = Tail(stack) /\ UNCHANGED <<filterVars, ps, goVars, posted, fed, out>>
    BY <1>8 DEF LocalReply, Return
  <2>2. ASSUME NEW body \in BOOLEAN,
               EncodeHeaders(~body, (IF body THEN <<At("replyBody", "encode")>> ELSE <<>>) \o Tail(stack))
        PROVE  EchoFlow'
    <3> DEFINE bodyFrame == At("replyBody", "encode")
               rest == (IF body THEN <<bodyFrame>> ELSE <<>>) \o Tail(stack)
    <3>1. bodyFrame \in Frame /\ bodyFrame.at = "replyBody" /\ bodyFrame.dir = "encode"
      BY <1>1, LabelsAreLabels, PushedFrame
    <3> HIDE DEF bodyFrame
    <3>2. rest \in Seq(Frame) /\ ToSet(rest) \subseteq {bodyFrame} \cup ToSet(Tail(stack))
      <4>1. CASE body
        <5>1. rest = <<bodyFrame>> \o Tail(stack)
          BY <4>1
        <5>2. rest \in Seq(Frame)
          BY <1>2, <3>1, <5>1
        <5> QED  BY <1>2, <3>1, <5>1, <5>2, FramesOfStack
      <4>2. CASE ~body
        <5>1. rest = Tail(stack)
          BY <1>2, <4>2
        <5> QED  BY <1>2, <5>1
      <4> QED  BY <4>1, <4>2
    <3>3. EncodeHeaders(~body, rest)
      BY <2>2 DEF bodyFrame
    <3> HIDE DEF rest
    <3>4. (~body) \in BOOLEAN
      BY <2>2
    <3> QED  BY <1>2, <3>1, <3>2, <3>3, <3>4, EchoEncodeHeaders
  <2>3. CASE stack' = Tail(stack) /\ UNCHANGED <<filterVars, ps, goVars, posted, fed, out>>
    BY <1>2, <2>3, StandsStill DEF filterVars, replyVars, lifeVars, goVars
  <2> QED  BY <2>1, <2>2, <2>3
<1>9. CASE LocalReplyBody
  BY <1>2, <1>9, EchoEncodeData DEF LocalReplyBody
<1> QED  BY <1>3, <1>4, <1>5, <1>6, <1>7, <1>8, <1>9 DEF WorkerStep

LEMMA EchoDispatch ==
    ASSUME EchoInv, UNCHANGED late, Dispatch
    PROVE  EchoFlow'
<1>1. /\ ps \in [Dir -> Processor] /\ fed \in [Dir -> Seq(Item)] /\ out \in [Dir -> Seq(Item)]
      /\ enterEncoding \in BOOLEAN /\ "encode" \in Dir /\ "decode" \in Dir /\ Cur \in Dir
      /\ ps["decode"].state \in {"WaitingHeader", "ProcessingHeader"}
  BY DEF EchoInv, EchoFlow, RequestInGo, TypeOK, Dir, Cur
<1>2. stack = <<>> /\ posted # <<>>
  BY DEF Dispatch, DropEvent, ContinueEncodeLocalReply, ContinueEvent, LocalReplyEvent, NextEvent
<1>3. ToSet(stack) = {}
  BY <1>2, FramesOfStack
<1>4. CASE DropEvent
  <2>1. hasDestroyed /\ UNCHANGED <<filterVars, ps, go, paniced, stack, fed, out>>
    BY <1>4 DEF DropEvent, goVars, streamVars
  <2>2. RequestInGo' /\ NeverPanics'
    BY <2>1 DEF EchoInv, EchoFlow, RequestInGo, NeverPanics
  <2>3. RequestAlone'
    BY <1>2, <2>1 DEF EchoInv, EchoFlow, RequestAlone, filterVars, replyVars
  <2>4. ReplyGoesFirst'
    BY <2>1 DEF ReplyGoesFirst, filterVars, lifeVars
  <2> QED  BY <2>2, <2>3, <2>4 DEF EchoFlow
<1>5. CASE ContinueEncodeLocalReply
  <2> DEFINE procs == [ps EXCEPT ![Cur] = ClearAll(@)]
  <2>1. PICK endStream : DoHeadersGo("encode", procs, endStream, "localReplyHeaders", <<>>)
    BY <1>5 DEF ContinueEncodeLocalReply
  <2>2. procs["decode"].state = ps["decode"].state /\ procs \in [Dir -> Processor]
    BY <1>1, ListEffects, ListTypes
  <2>3. ps' = [procs EXCEPT !["encode"] = ProcessHeader(@, endStream)]
    BY <2>1 DEF DoHeadersGo
  <2> HIDE DEF procs
  <2>4. ps'["decode"].state = ps["decode"].state
    BY <1>1, <2>2, <2>3 DEF Dir
  <2>5. PICK items : CallGo("encode", "headers", endStream, items, "localReplyHeaders", <<>>)
    BY <2>1 DEF DoHeadersGo
  <2>6. "localReplyHeaders" \in Label /\ "encode" \in Dir /\ <<>> \in Seq(Frame) /\ ToSet(<<>>) = {}
    BY LabelsAreLabels, FramesOfStack DEF Dir
  <2>7. /\ \A c \in go' : c \in go \/ (~c.refused /\ c.dir = "encode")
        /\ \A frame \in ToSet(stack') : frame.dir = "encode"
    <3> DEFINE none == <<>>
    <3>1. none \in Seq(Frame) /\ CallGo("encode", "headers", endStream, items, "localReplyHeaders", none)
      BY <2>5, <2>6
    <3>2. ToSet(none) = {}
      BY <2>6
    <3> HIDE DEF none
    <3>3. \A c \in go' : c \in go \/ (~c.refused /\ c.dir = "encode")
      BY <2>6, <3>1, NewCall
    <3>4. \A frame \in ToSet(stack') : frame = At("localReplyHeaders", "encode") \/ frame \in ToSet(none)
      BY <2>6, <3>1, NewCall
    <3>5. At("localReplyHeaders", "encode").dir = "encode"
      BY DEF At
    <3> QED  BY <3>2, <3>3, <3>4, <3>5
  <2>8. enterEncoding' /\ UNCHANGED <<paniced, out>>
    BY <1>5 DEF ContinueEncodeLocalReply, streamVars
  <2> QED  BY <2>4, <2>6, <2>7, <2>8, ResponseSide
<1>6. CASE ContinueEvent
  <2>1. /\ ~hasDestroyed /\ ContinueStatusInternal(Cur, Head(posted).status, <<>>)
        /\ Head(posted).act = "continue" /\ posted' = Tail(posted)
        /\ UNCHANGED <<filterVars, go, paniced, fed>>
    BY <1>6 DEF ContinueEvent, NextEvent, goVars
  <2>2. ASSUME NEW label \in Label, NEW d \in Dir
        PROVE  /\ ToSet(<<At(label, d)>> \o <<>>) = {At(label, d)}
               /\ At(label, d).dir = d /\ At(label, d).at = label
    <3> DEFINE none == <<>>
    <3>1. none \in Seq(Frame) /\ ToSet(none) = {}
      BY FramesOfStack
    <3> HIDE DEF none
    <3>2. ToSet(<<At(label, d)>> \o none) = {At(label, d)} \cup ToSet(none)
      BY <3>1, PushedFrame
    <3>3. At(label, d).dir = d /\ At(label, d).at = label
      BY PushedFrame, <3>1
    <3> QED  BY <3>1, <3>2, <3>3 DEF none
  <2>3. CASE enterEncoding
    <3>1. ContinueStatusInternal("encode", Head(posted).status, <<>>)
      BY <2>1, <2>3 DEF Cur
    <3>2. ps'["decode"] = ps["decode"] /\ out'["decode"] = out["decode"]
      BY <1>1, <3>1 DEF ContinueStatusInternal, ContinueDoData, Resumed, Passed, Dir
    <3>3. \E label \in {"forwarded", "forwardedTrailerData", "checkData"} : stack' = <<At(label, "encode")>> \o <<>>
      BY <3>1 DEF ContinueStatusInternal
    <3>4. \A frame \in ToSet(stack') : frame.dir = "encode"
      <4>1. PICK label \in {"forwarded", "forwardedTrailerData", "checkData"} : stack' = <<At(label, "encode")>> \o <<>>
        BY <3>3
      <4>2. label \in Label
        BY LabelsAreLabels
      <4> QED  BY <1>1, <2>2, <4>1, <4>2
    <3> QED  BY <2>1, <2>3, <3>2, <3>4, ResponseSide DEF filterVars, replyVars
  <2>4. CASE ~enterEncoding
    <3>1. ps["decode"].state = "WaitingHeader"
      BY <1>1, <1>2, <2>1, <2>4 DEF EchoInv, EchoFlow, ReplyGoesFirst
    <3>2. /\ ps' = ps /\ UNCHANGED out
          /\ stack' = <<At("checkData", "decode")>> \o <<>>
      BY <1>1, <2>1, <2>4, <3>1 DEF ContinueStatusInternal, InGo, HandleGolangStatus, Cur
    <3>3. \A frame \in ToSet(stack') : frame.dir = "decode" /\ frame.at \in AtHeaders
      <4>1. "checkData" \in Label /\ "checkData" \in AtHeaders
        BY LabelsAreLabels DEF AtHeaders
      <4> QED  BY <1>1, <2>2, <3>2, <4>1
    <3>4. RequestInGo'
      BY <3>2, <3>3 DEF EchoInv, EchoFlow, RequestInGo
    <3>5. NeverPanics'
      BY <2>1 DEF EchoInv, EchoFlow, NeverPanics
    <3>6. RequestAlone'
      BY <1>2, <2>1, <2>4, <3>2, <3>3 DEF EchoInv, EchoFlow, RequestAlone
    <3>7. ReplyGoesFirst'
      BY <3>1, <3>2 DEF ReplyGoesFirst
    <3> QED  BY <3>4, <3>5, <3>6, <3>7 DEF EchoFlow
  <2> QED  BY <1>1, <2>3, <2>4
<1>7. CASE LocalReplyEvent
  <2> DEFINE p == ClearAll(TakeBuffer(ps[Cur]))
  <2>1. p.state = ps[Cur].state /\ p \in Processor
    BY <1>1, ListEffects, ListTypes
  <2>2. UNCHANGED <<filterVars, go, paniced, fed, out>> /\ posted' = Tail(posted)
    BY <1>7 DEF LocalReplyEvent, NextEvent, goVars
  <2>3. CASE enterEncoding
    <3>1. ps' = [ps EXCEPT !["encode"] = p] /\ UNCHANGED stack
      BY <1>7, <2>3 DEF LocalReplyEvent, Cur
    <3>2. ps'["decode"] = ps["decode"]
      BY <1>1, <3>1
    <3> QED  BY <2>2, <2>3, <3>1, <3>2, ResponseSide DEF filterVars, replyVars
  <2>4. CASE ~enterEncoding
    <3>1. /\ ps' = [ps EXCEPT !["decode"] = [p EXCEPT !.state = "WaitingHeader"]]
          /\ stack' = <<At("localReply", "decode")>>
      BY <1>7, <2>4 DEF LocalReplyEvent, Cur
    <3>2. ps'["decode"].state = "WaitingHeader" /\ ps'["encode"] = ps["encode"]
      <4> HIDE DEF p
      <4> QED  BY <1>1, <2>1, <3>1 DEF Processor
    <3>3. \A frame \in ToSet(stack') : frame.dir = "decode" /\ frame.at \in AtHeaders
      BY <3>1, SmallSets DEF At, AtHeaders
    <3>4. RequestInGo'
      BY <2>2, <3>2, <3>3 DEF EchoInv, EchoFlow, RequestInGo
    <3>5. NeverPanics'
      BY <2>2 DEF EchoInv, EchoFlow, NeverPanics
    <3>6. RequestAlone'
      BY <1>2, <2>2, <2>4, <3>2, <3>3 DEF EchoInv, EchoFlow, RequestAlone
    <3>7. ReplyGoesFirst'
      BY <3>2 DEF ReplyGoesFirst
    <3> QED  BY <3>4, <3>5, <3>6, <3>7 DEF EchoFlow
  <2> QED  BY <1>1, <2>3, <2>4
<1> QED  BY <1>4, <1>5, <1>6, <1>7 DEF Dispatch

LEMMA EchoOtherStep ==
    ASSUME EchoInv, UNCHANGED late, OtherLocalReply \/ Destroy
    PROVE  EchoFlow'
<1>1. CASE OtherLocalReply
  <2>1. /\ stack' = <<At("localReply", "decode")>> \o stack
        /\ UNCHANGED <<filterVars, ps, goVars, posted, fed, out>>
    BY <1>1 DEF OtherLocalReply, streamVars
  <2>2. "localReply" \in Label /\ "decode" \in Dir /\ stack \in Seq(Frame)
    BY LabelsAreLabels DEF Dir, EchoInv, TypeOK
  <2>3. \A frame \in ToSet(stack') : frame \in ToSet(stack) \/ (frame.at = "localReply" /\ frame.dir = "decode")
    BY <2>1, <2>2, FramePushed
  <2>4. \A frame \in ToSet(stack') : frame \in ToSet(stack) \/ (frame.at \in AtHeaders /\ frame.dir = "decode")
    BY <2>3 DEF AtHeaders
  <2> QED  BY <2>1, <2>4, StandsStill DEF filterVars, replyVars, lifeVars, goVars
<1>2. CASE Destroy
  BY <1>2, StandsStill DEF Destroy, replyVars, goVars, streamVars
<1> QED  BY <1>1, <1>2

-----------------------------------------------------------------------------
(* The steps of the echo filter                                            *)

\* Every handler of the adapter answers Running.
LEMMA EchoReturns ==
    ASSUME EchoInv, plugin = "echo", UNCHANGED late, PluginReturn
    PROVE  EchoFlow'
<1>1. /\ ps \in [Dir -> Processor] /\ fed \in [Dir -> Seq(Item)] /\ out \in [Dir -> Seq(Item)]
      /\ enterEncoding \in BOOLEAN /\ go \in SUBSET Call
  BY DEF EchoInv, TypeOK
<1>2. PICK call \in go :
           \/ HeadersReturn(call, Status(call))
           \/ DataReturn(call, Status(call))
           \/ TrailerReturn(call, Status(call))
           \/ TrailerDataReturn(call, Status(call))
           \/ ResumeDataReturn(call, Status(call))
           \/ ResumeTrailerReturn(call, Status(call))
           \/ LocalReplyHeadersReturn(call, Status(call))
  BY DEF PluginReturn
<1>3. call \in Call /\ ~call.refused /\ call.dir \in Dir
  BY <1>1 DEF EchoInv, EchoFlow, NeverPanics, Call
<1>4. Status(call) = "Running"
  BY <1>3 DEF Status, AsyncStatus
<1>5. PICK at \in GoFrames : GoReturns(at, call, "Running")
  BY <1>2, <1>4 DEF HeadersReturn, DataReturn, TrailerReturn, TrailerDataReturn, ResumeDataReturn,
         ResumeTrailerReturn, LocalReplyHeadersReturn, GoFrames
<1>6. /\ stack # <<>> /\ Head(stack).at = at /\ Head(stack).dir = call.dir
      /\ go' = (go \ {call}) \cup {[call EXCEPT !.sync = FALSE]}
      /\ UNCHANGED <<posted, paniced>>
  BY <1>3, <1>5 DEF GoReturns
<1>7. \A c \in go' : ~c.refused /\ \E old \in go : c.dir = old.dir
  BY <1>1, <1>3, <1>6 DEF EchoInv, EchoFlow, NeverPanics, Call
<1>8. /\ ToSet(Tail(stack)) \subseteq ToSet(stack) /\ Tail(stack) \in Seq(Frame)
      /\ call.dir = "decode" => at \in AtHeaders
      /\ call.dir = "encode" => enterEncoding
  <2>1. at # "replyBody"
    BY DEF GoFrames
  <2> QED  BY <1>6, <2>1, TopOfStack
<1>9. UNCHANGED <<replyVars, lifeVars, fed>>
  BY <1>2 DEF HeadersReturn, DataReturn, TrailerReturn, TrailerDataReturn, ResumeDataReturn,
         ResumeTrailerReturn, LocalReplyHeadersReturn, filterVars
<1>10. CASE call.dir = "decode"
  <2>1. at = "doHeaders"
    BY <1>8, <1>10 DEF AtHeaders, GoFrames
  <2>2. HeadersReturn(call, "Running")
    BY <1>2, <1>4, <1>6, <2>1 DEF DataReturn, TrailerReturn, TrailerDataReturn, ResumeDataReturn,
           ResumeTrailerReturn, LocalReplyHeadersReturn, GoReturns
  <2>3. /\ ps' = [ps EXCEPT !["decode"] = HandleHeaderGolangStatus(@, "Running")]
        /\ UNCHANGED out /\ stack' = Tail(stack)
    BY <1>10, <2>2 DEF HeadersReturn, IsDone, Return
  <2>4. \A d \in Dir : ps'[d].state = ps[d].state
    BY <1>1, <2>3 DEF HandleHeaderGolangStatus, Processor
  <2>5. RequestInGo'
    BY <1>8, <2>3, <2>4 DEF EchoInv, EchoFlow, RequestInGo, Dir
  <2>6. NeverPanics'
    BY <1>6, <1>7 DEF EchoInv, EchoFlow, NeverPanics
  <2>7. RequestAlone'
    BY <1>6, <1>7, <1>8, <1>9, <2>3, <2>4 DEF EchoInv, EchoFlow, RequestAlone, Dir, replyVars
  <2>8. ReplyGoesFirst'
    BY <1>6, <1>9, <2>4 DEF EchoInv, EchoFlow, ReplyGoesFirst, Dir, replyVars, lifeVars
  <2> QED  BY <2>5, <2>6, <2>7, <2>8 DEF EchoFlow
<1>11. CASE call.dir = "encode"
  <2>1. enterEncoding
    BY <1>8, <1>11
  <2>2. \/ stack' = Tail(stack)
        \/ \E label \in Label : stack' = <<At(label, "encode")>> \o Tail(stack)
    BY <1>2, <1>4, <1>11, LabelsAreLabels
       DEF HeadersReturn, DataReturn, TrailerReturn, TrailerDataReturn, ResumeDataReturn,
           ResumeTrailerReturn, LocalReplyHeadersReturn, Return, ContinueStatusInternal, IsDone
  <2>3. \A frame \in ToSet(stack') : frame \in ToSet(stack) \/ frame.dir = "encode"
    <3>1. CASE stack' = Tail(stack)
      BY <1>8, <3>1
    <3>2. CASE \E label \in Label : stack' = <<At(label, "encode")>> \o Tail(stack)
      <4>1. "encode" \in Dir /\ Tail(stack) \in Seq(Frame)
        BY <1>8 DEF Dir
      <4>2. \A frame \in ToSet(stack') : frame \in ToSet(Tail(stack)) \/ frame.dir = "encode"
        BY <3>2, <4>1, SomeFramePushed
      <4> QED  BY <1>8, <4>2
    <3> QED  BY <2>2, <3>1, <3>2
  <2>4. ps'["decode"] = ps["decode"] /\ out'["decode"] = out["decode"]
    BY <1>1, <1>2, <1>4, <1>11
       DEF HeadersReturn, DataReturn, TrailerReturn, TrailerDataReturn, ResumeDataReturn,
           ResumeTrailerReturn, LocalReplyHeadersReturn, ContinueStatusInternal, IsDone, Dir
  <2> QED  BY <1>6, <1>7, <1>9, <2>1, <2>3, <2>4, ResponseSide DEF replyVars
<1> QED  BY <1>3, <1>10, <1>11 DEF Dir

\* Only the call of a request is answered, by a reply; then it is continued.
LEMMA EchoGoroutines ==
    ASSUME EchoInv, plugin = "echo", PluginGoroutine
    PROVE  /\ EchoFlow' /\ late' \subseteq Call
           /\ Goroutine \/ \E call \in go : PoolRefuses(call)
<1>1. go \in SUBSET Call /\ enterEncoding \in BOOLEAN /\ late \subseteq Call /\ ~paniced /\ posted \in Seq(Event)
  BY DEF EchoInv, EchoFlow, TypeOK, NeverPanics
<1>2. PICK call \in go : PoolGoroutine(call) \/ EchoGoroutine(call)
  BY DEF PluginGoroutine, AdapterGoroutine, SampleGoroutine, SampleDies
<1>3. call \in Call /\ call.dir \in Dir
  BY <1>1 DEF Call
<1>4. CASE PoolGoroutine(call)
  <2>1. call.dir = "encode" /\ enterEncoding
    BY <1>1, <1>3, <1>4 DEF PoolGoroutine, Echoes, EchoInv, EchoFlow, RequestAlone, Dir
  <2>2. /\ go' = go \ {call} /\ UNCHANGED <<filterVars, ps, stack, out, paniced, late>>
        /\ Continue(call, "Continue") \/ PoolRefuses(call)
    BY <1>4 DEF PoolGoroutine, Accepted, Continue, GoAnswers, Post, PoolRefuses, streamVars, pluginVars
  <2>3. EchoFlow'
    BY <2>1, <2>2, ResponseSide DEF filterVars, replyVars
  <2> QED  BY <1>1, <2>2, <2>3 DEF Goroutine, GolangStatus
<1>5. CASE EchoGoroutine(call)
  <2>1. late' = late \cup {call}
    BY <1>5 DEF EchoGoroutine
  <2>2. CASE HijackReply(call)
    <3>1. /\ go' = go \ {call} /\ UNCHANGED <<filterVars, ps, stack, fed, out, paniced>>
          /\ posted' = Append(posted, [act |-> "reply", status |-> "LocalReply", call |-> call])
          /\ SendLocalReply(call)
      BY <2>2 DEF HijackReply, Accepted, SendLocalReply, GoAnswers, Post, streamVars
    <3>2. /\ posted' # <<>>
          /\ Head(posted').act = "reply" \/ (posted # <<>> /\ Head(posted') = Head(posted))
      <4> DEFINE event == [act |-> "reply", status |-> "LocalReply", call |-> call]
      <4>1. event.act = "reply" /\ event \in Event
        BY <1>3 DEF Event, GolangStatus
      <4>2. posted' = Append(posted, event)
        BY <3>1
      <4> HIDE DEF event
      <4>3. posted' # <<>> /\ Head(posted') = IF posted = <<>> THEN event ELSE Head(posted)
        <5>1. posted \in Seq(Event)
          BY <1>1
        <5>2. Head(Append(posted, event)) = IF posted = <<>> THEN event ELSE Head(posted)
          BY <5>1, HeadTailAppend
        <5>3. Append(posted, event) # <<>>
          BY <4>1, <5>1, AppendProperties
        <5> QED  BY <4>2, <5>2, <5>3
      <4> QED  BY <4>1, <4>3
    <3>3. RequestInGo' /\ NeverPanics'
      BY <3>1 DEF EchoInv, EchoFlow, RequestInGo, NeverPanics
    <3>4. RequestAlone'
      BY <3>1 DEF EchoInv, EchoFlow, RequestAlone, filterVars, replyVars
    <3>5. ReplyGoesFirst'
      BY <3>1, <3>2 DEF EchoInv, EchoFlow, ReplyGoesFirst, filterVars, replyVars, lifeVars
    <3> QED  BY <1>1, <1>3, <2>1, <3>1, <3>3, <3>4, <3>5 DEF EchoFlow, Goroutine
  <2>3. CASE PoolRefuses(call)
    <3>1. /\ ~Accepted /\ go' = go \ {call}
          /\ UNCHANGED <<filterVars, ps, stack, fed, out, posted, paniced>>
      BY <2>3 DEF PoolRefuses, streamVars
    <3>2. RequestInGo' /\ NeverPanics'
      BY <3>1 DEF EchoInv, EchoFlow, RequestInGo, NeverPanics
    <3>3. RequestAlone'
      BY <3>1 DEF EchoInv, EchoFlow, RequestAlone, filterVars, replyVars
    <3>4. ReplyGoesFirst'
      BY <3>1 DEF Accepted, InGo, Cur, ReplyGoesFirst, filterVars, replyVars, lifeVars
    <3> QED  BY <1>1, <1>3, <2>1, <2>3, <3>2, <3>3, <3>4 DEF EchoFlow
  <2> QED  BY <1>5, <2>2, <2>3 DEF EchoGoroutine
<1> QED  BY <1>2, <1>4, <1>5

LEMMA EchoContinueLate ==
    ASSUME EchoInv, ContinueLate
    PROVE  EchoFlow' /\ late' \subseteq Call /\ TypeOK'
<1>1. PICK call \in late :
         /\ late' = late \ {call}
         /\ posted' = IF Accepted
                      THEN Append(posted, [act |-> "continue", status |-> "Continue", call |-> call])
                      ELSE posted
         /\ UNCHANGED <<filterVars, ps, goVars, stack, crashed, streamVars>>
  BY DEF ContinueLate
<1> DEFINE event == [act |-> "continue", status |-> "Continue", call |-> call]
<1>2. event \in Event /\ posted \in Seq(Event) /\ TypeOK /\ late \subseteq Call
  BY DEF EchoInv, TypeOK, Event, GolangStatus
<1>3. posted' \in {posted, Append(posted, event)}
  BY <1>1
<1> HIDE DEF event
<1>4. /\ posted' \in Seq(Event)
      /\ posted # <<>> => posted' # <<>> /\ Head(posted') = Head(posted)
  <2>1. CASE posted' = posted
    BY <1>2, <2>1
  <2>2. CASE posted' = Append(posted, event)
    BY <1>2, <2>2, HeadTailAppend
  <2> QED  BY <1>3, <2>1, <2>2
<1>5. TypeOK'
  BY <1>1, <1>2, <1>4 DEF TypeOK, filterVars, lifeVars, replyVars, goVars, streamVars
<1>6. UNCHANGED <<enterEncoding, hasDestroyed, ps, go, paniced, stack, fed, out>>
  BY <1>1 DEF filterVars, lifeVars, replyVars, goVars, streamVars
<1>7. RequestInGo' /\ NeverPanics'
  BY <1>6 DEF EchoInv, EchoFlow, RequestInGo, NeverPanics
<1>8. RequestAlone'
  BY <1>1, <1>6 DEF EchoInv, EchoFlow, RequestAlone
<1>9. ReplyGoesFirst'
  BY <1>1, <1>4, <1>6 DEF EchoInv, EchoFlow, ReplyGoesFirst
<1> QED  BY <1>1, <1>2, <1>5, <1>7, <1>8, <1>9 DEF EchoFlow

LEMMA EchoInit ==
    ASSUME PluginInit
    PROVE  EchoInv
<1>1. TypeOK
  BY InitType DEF PluginInit
<1>2. stack = <<>> /\ ToSet(stack) = {}
  BY FramesOfStack DEF PluginInit, Init
<1> QED  BY <1>1, <1>2 DEF EchoInv, EchoFlow, RequestInGo, NeverPanics, RequestAlone, ReplyGoesFirst,
                PluginInit, Init, NewProcessor, Dir

LEMMA EchoNext ==
    ASSUME EchoInv, plugin = "echo", [PluginNext]_allVars
    PROVE  EchoInv'
<1>1. CASE UNCHANGED allVars
  <2>1. UNCHANGED vars /\ UNCHANGED late
    BY <1>1 DEF allVars, pluginVars
  <2>2. TypeOK'
    BY <2>1, NextType DEF EchoInv
  <2>3. UNCHANGED <<dynamicLib, ps, out, fed, stack, go, paniced, posted, enterEncoding, hasDestroyed>>
    BY <2>1 DEF vars, filterVars, lifeVars, replyVars, goVars, streamVars
  <2>4. EchoFlow'
    BY <2>1, <2>3, StandsStill
  <2> QED  BY <2>1, <2>2, <2>3, <2>4 DEF EchoInv
<1>2. CASE PluginNext /\ EnvoyStep
  <2>1. Next /\ UNCHANGED <<plugin, late>>
    BY <1>2 DEF PluginNext, EnvoyStep, Next, pluginVars
  <2>2. EchoFlow'
    <3>1. \/ \E endStream \in BOOLEAN :
                 ResponseHeaders(endStream) \/ \E data : ResponseData(data, endStream)
          \/ EncodeTrailers
          \/ \E endStream \in BOOLEAN :
                 DecodeHeaders(endStream) \/ \E data : DecodeData(data, endStream)
          \/ DecodeTrailers
          \/ WorkerStep
          \/ Dispatch
          \/ OtherLocalReply
          \/ Destroy
      BY <1>2 DEF EnvoyStep, Receive
    <3> QED  BY <2>1, <3>1, EchoReceivesResponse, EchoReceivesRequest, EchoWorkerStep, EchoDispatch, EchoOtherStep
  <2>3. TypeOK'
    BY <2>1, NextType DEF EchoInv
  <2>4. dynamicLib'
    BY <2>1, LibraryStays DEF EchoInv
  <2> QED  BY <2>1, <2>2, <2>3, <2>4 DEF EchoInv
<1>3. CASE PluginNext /\ PluginReturn
  <2>1. Next /\ UNCHANGED late
    BY <1>3, PluginReturnIsGoReturn DEF PluginNext, PluginReturn, Next
  <2>2. EchoFlow'
    BY <1>3, <2>1, EchoReturns
  <2> QED  BY <2>1, <2>2, NextType, LibraryStays DEF EchoInv
<1>4. CASE PluginNext /\ PluginGoroutine
  <2>1. EchoFlow' /\ late' \subseteq Call
    BY <1>4, EchoGoroutines
  <2>2. TypeOK' /\ dynamicLib'
    <3>1. CASE Goroutine
      <4>1. Next
        BY <1>4, <3>1 DEF PluginNext, Next
      <4> QED  BY <4>1, NextType, LibraryStays DEF EchoInv
    <3>2. ASSUME NEW call \in go, PoolRefuses(call)
          PROVE  TypeOK' /\ dynamicLib'
      BY <3>2 DEF PoolRefuses, EchoInv, TypeOK, filterVars, lifeVars, replyVars, streamVars
    <3> QED  BY <1>4, <3>1, <3>2, EchoGoroutines
  <2> QED  BY <2>1, <2>2 DEF EchoInv
<1>5. CASE PluginNext /\ ContinueLate
  <2>1. EchoFlow' /\ late' \subseteq Call /\ TypeOK'
    BY <1>5, EchoContinueLate
  <2>2. dynamicLib'
    BY <1>5 DEF ContinueLate, EchoInv, filterVars, lifeVars
  <2> QED  BY <2>1, <2>2 DEF EchoInv
<1> QED  BY <1>1, <1>2, <1>3, <1>4, <1>5 DEF PluginNext

\* The echo filter, in any environment: its request stays in Go, nobody of it is
\* refused by the worker, and its reply is posted before the Continue behind it.
THEOREM EchoInvariant == PluginSpec => [](plugin = "echo" => EchoInv)
<1>1. PluginInit => (plugin = "echo" => EchoInv)
  BY EchoInit
<1>2. (plugin = "echo" => EchoInv) /\ [PluginNext]_allVars => (plugin = "echo" => EchoInv)'
  <2> SUFFICES ASSUME plugin = "echo" => EchoInv, [PluginNext]_allVars
               PROVE  plugin' = "echo" => EchoInv'
    OBVIOUS
  <2>1. plugin' = plugin
    BY NoOtherPlugin
  <2> QED  BY <2>1, EchoNext
<1> QED  BY <1>1, <1>2, PTL DEF PluginSpec

\* pkg/http/mosn/stream.go runReceiverFilters continues a request that the echo
\* filter has answered; still the request is never passed on.
THEOREM EchoKeepsRequests == PluginSpec => []EchoedRequestStays
<1>1. (plugin = "echo" => EchoInv) => EchoedRequestStays
  BY DEF EchoInv, EchoFlow, RequestInGo, EchoedRequestStays
<1> QED  BY <1>1, EchoInvariant, PTL
=============================================================================
