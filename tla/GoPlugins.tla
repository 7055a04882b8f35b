----------------------------- MODULE GoPlugins -----------------------------
(***************************************************************************)
(* The Go filters of the repository as handlers of one stream of           *)
(* GolangFilter:                                                           *)
(*   passThrough  the default filter (pkg/http/passthrough.go)             *)
(*   asyncSleep   samples/async-sleep: every handler goes asynchronous     *)
(*   async        samples/async: so does this one, and forbids responses   *)
(*   buffered     the buffered adapter (pkg/http/buffered) before a filter *)
(*                that wants whole messages                                *)
(*   mosn         the MOSN adapter (pkg/http/mosn) before a chain of       *)
(*                filters that let everything through                      *)
(*   echo         the MOSN adapter before the echo filter                  *)
(*                (pkg/filter/stream/echo), which answers requests itself  *)
(*                                                                         *)
(* Every step is a step of GolangFilter with the answers these filters     *)
(* give, except where an answer is refused and nobody recovers the panic,  *)
(* and where the MOSN adapter answers a second time.                       *)
(***************************************************************************)
EXTENDS GolangFilter

CONSTANT Plugins   \* the filters that may be registered

Plugin == {"passThrough", "asyncSleep", "async", "buffered", "mosn", "echo"}

ASSUME PluginsAssumption == Plugins \subseteq Plugin

VARIABLES
    plugin,  \* httpFilterConfigFactory: the filter that is registered
    fields,  \* reqHeader and reqData, rspHeader and rspData of the adapter
    handed,  \* history: the messages the filter behind the adapter was called with
    late,    \* calls that were answered by the echo filter, not yet by the adapter
    died     \* a panic nobody recovered ended the process

pluginVars == <<plugin, fields, handed, late, died>>
allVars    == <<vars, pluginVars>>

PluginInit ==
    /\ Init
    /\ dynamicLib
    /\ plugin \in Plugins
    /\ fields = [d \in Dir |-> <<>>]
    /\ handed = [d \in Dir |-> <<>>]
    /\ late = {}
    /\ died = FALSE

UsesPool == plugin \in {"mosn", "echo"}

-----------------------------------------------------------------------------
(* What a handler returns *)

PassThroughStatus == "Continue"

\* Every handler of the samples, and of the MOSN adapter, returns Running.
AsyncStatus == "Running"

\* Mutant: the adapter lets the data be shown whenever there is enough of it.
AdapterStatus_Watermark(call) == IF call.end THEN "Running" ELSE "StopAndBufferWatermark"

\* bufferedFilter: only the end of a message starts a goroutine.
AdapterStatus(call) == IF call.end THEN "Running" ELSE "StopAndBuffer"

Status(call) ==
    IF call.refused THEN "Continue"
    ELSE CASE plugin = "passThrough" -> PassThroughStatus
           [] plugin = "buffered"    -> AdapterStatus(call)
           [] OTHER                  -> AsyncStatus

\* The header, data and trailer the adapter has when it was called; data only
\* once, since every call overwrites the field.
Fields(call) ==
    LET hdr == SelectSeq(fields[call.dir], LAMBDA item : item = Hdr)
    IN  CASE call.kind = "headers"  -> <<Hdr>> \o EndIf(call.end)
          [] call.kind = "data"     -> hdr \o ps[call.dir].latest \o EndIf(call.end)
          [] call.kind = "trailers" -> fields[call.dir] \o <<Trl>>

PluginReturn ==
    \E call \in go :
        /\ LET status == Status(call)
           IN  \/ HeadersReturn(call, status)
               \/ DataReturn(call, status)
               \/ TrailerReturn(call, status)
               \/ TrailerDataReturn(call, status)
               \/ ResumeDataReturn(call, status)
               \/ ResumeTrailerReturn(call, status)
               \/ LocalReplyHeadersReturn(call, status)
        /\ fields' = IF plugin = "buffered" /\ ~call.refused
                     THEN [fields EXCEPT ![call.dir] = Fields(call)]
                     ELSE fields
        /\ UNCHANGED <<plugin, handed, late, died>>

-----------------------------------------------------------------------------
(* What the goroutines of the handlers do *)

\* Mutant: the trailers are remembered, but nothing is run for them.
Runs_NotForTrailers(call) ==
    ~call.sync /\ (UsesPool => call.end) /\ (plugin = "buffered" => call.kind # "trailers")

\* Mutant: the MOSN adapter does not look at endStream.
Runs_ForEachPiece(call) == ~call.sync

\* The MOSN adapter runs its chain only at the end of a message.
Runs(call) == ~call.sync /\ (UsesPool => call.end)

\* Mutant: the state of the request is asked, also for a response.
Accepted_OfDecoding == ~hasDestroyed /\ InGo(ps["decode"])

\* Continue and SendLocalReply are refused with a panic otherwise.
Accepted == ~hasDestroyed /\ InGo(ps[Cur])

\* runDecode, runEncode: the filter is called, then Continue; RecoverPanic is
\* deferred, and answers when the filter panics.
AdapterGoroutine(call) ==
    /\ plugin = "buffered"
    /\ Continue(call, "Continue") \/ SendLocalReply(call)
    /\ handed' = [handed EXCEPT ![call.dir] = Append(@, fields[call.dir])]
    /\ UNCHANGED <<plugin, fields, late, died>>

\* samples/async answers the headers of a response with 403.
Forbids(call) == plugin = "async" /\ call.dir = "encode" /\ call.kind = "headers"

SampleGoroutine(call) ==
    /\ plugin \in {"async", "asyncSleep"}
    /\ Accepted
    /\ IF Forbids(call) THEN SendLocalReply(call) ELSE Continue(call, "Continue")
    /\ UNCHANGED pluginVars

\* No RecoverPanic is deferred in the samples.
SampleDies(call) ==
    /\ plugin \in {"async", "asyncSleep"}
    /\ ~Accepted
    /\ died' = TRUE
    /\ UNCHANGED <<vars, plugin, fields, handed, late>>

\* A refused call panics, which the worker pool recovers.
PoolRefuses(call) ==
    /\ ~Accepted
    /\ go' = go \ {call}
    /\ UNCHANGED <<filterVars, ps, calls, paniced, seen, stack, posted, crashed, streamVars>>

\* Mutant: every filter chain answers the requests.
Echoes_AnyChain(call) == UsesPool /\ call.dir = "decode"

\* The chain has an echo filter with a status; one without replies to nothing
\* (echo.go:51), and is the plugin "mosn".
Echoes(call) == plugin = "echo" /\ call.dir = "decode"

\* SendHijackReply, SendDirectResponse, TerminateStream: SendLocalReply.
HijackReply(call) == Accepted /\ SendLocalReply(call)

\* runReceiverFilters, runSenderFilters: the chain runs, then Continue.
PoolGoroutine(call) ==
    /\ UsesPool
    /\ ~Echoes(call)
    /\ (Accepted /\ Continue(call, "Continue")) \/ PoolRefuses(call)
    /\ UNCHANGED pluginVars

\* Mutant: the adapter continues before the echo filter answers.
EchoGoroutine_ContinuesFirst(call) ==
    /\ Echoes(call)
    /\ (Accepted /\ Continue(call, "Continue")) \/ PoolRefuses(call)
    /\ late' = late \cup {call}
    /\ UNCHANGED <<plugin, fields, handed, died>>

\* OnReceive of the echo filter: the reply; it recovers a refusal itself.
EchoGoroutine(call) ==
    /\ Echoes(call)
    /\ HijackReply(call) \/ PoolRefuses(call)
    /\ late' = late \cup {call}
    /\ UNCHANGED <<plugin, fields, handed, died>>

\* Then runReceiverFilters continues what the filter has answered.
ContinueLate ==
    \E call \in late :
        /\ late' = late \ {call}
        /\ posted' = IF Accepted
                     THEN Append(posted, [act |-> "continue", status |-> "Continue", call |-> call])
                     ELSE posted
        /\ UNCHANGED <<filterVars, ps, goVars, stack, crashed, streamVars,
                       plugin, fields, handed, died>>

PluginGoroutine ==
    \E call \in go :
        /\ Runs(call)
        /\ \/ AdapterGoroutine(call)
           \/ SampleGoroutine(call)
           \/ SampleDies(call)
           \/ PoolGoroutine(call)
           \/ EchoGoroutine(call)

-----------------------------------------------------------------------------
\* The steps of Envoy are those of GolangFilter.
EnvoyStep ==
    /\ Receive \/ WorkerStep \/ Dispatch \/ OtherLocalReply \/ Destroy
    /\ UNCHANGED pluginVars

PluginNext ==
    /\ crashed = "no"
    /\ ~died
    /\ EnvoyStep \/ PluginReturn \/ PluginGoroutine \/ ContinueLate

PluginSpec == PluginInit /\ [][PluginNext]_allVars

Alive == crashed = "no" /\ ~died

PluginFairness ==
    /\ WF_allVars(Alive /\ (WorkerStep \/ Dispatch) /\ UNCHANGED pluginVars)
    /\ WF_allVars(Alive /\ PluginReturn)
    /\ WF_allVars(Alive /\ PluginGoroutine)
    /\ WF_allVars(Alive /\ ContinueLate)

FairPluginSpec == PluginSpec /\ PluginFairness

-----------------------------------------------------------------------------
(* Properties *)

\* pkg/http/moe.go and capi.go know the filters only by what they answer: each
\* of them, but echo, is one of the handlers GolangFilter describes.
PluginsAreHandlers == [][plugin # "echo" => [Next]_vars]_allVars

Whole == INSTANCE WholeMessage WITH
    Ends   <- {End, Trl},
    came   <- IF plugin = "buffered" THEN fed ELSE [d \in Dir |-> <<>>],
    handed <- handed,
    left   <- IF plugin = "buffered" THEN out ELSE [d \in Dir |-> <<>>]

\* The buffered adapter hands each message over whole, once, and passes nothing
\* on before, although it keeps one buffer only.
AdapterHandsOverWhole == Whole!Spec

\* A goroutine of a sample ends the process only when the stream has gone.
OnlySamplesDie == died => plugin \in {"async", "asyncSleep"} /\ hasDestroyed

\* The MOSN adapter answers no handler before the end of the message: what it
\* passes on is headers alone.
MosnPassesOnHeadersOnly ==
    plugin = "mosn" => \A d \in Dir : out[d] # <<>> => fed[d] = <<Hdr, End>>

\* A request that the echo filter answered is not passed on by the Continue
\* that follows, which meets the response instead.
EchoedRequestStays == plugin = "echo" => out["decode"] = <<>>

\* A message with data, or without trailers, that came in whole is passed on,
\* answered or cut short, unless the process died.
Deliverable(d) == Ended(fed[d]) /\ fed[d] # <<Hdr, Trl>>

PluginsDeliver ==
    \A d \in Dir :
        (plugin \in {"passThrough", "asyncSleep", "buffered"} /\ Deliverable(d))
            ~> (Ended(out[d]) \/ (d = "decode" /\ fed["encode"] # <<>>) \/ closed \/ hasDestroyed)

-----------------------------------------------------------------------------
(* What MosnPassesOnHeadersOnly needs besides                              *)

\* Go is called with headers alone, and done only with a message that ended with them.
HeadersOnly(d) ==
    /\ ps[d].state \in {"WaitingHeader", "ProcessingHeader", "Done"}
    /\ ps[d].state = "Done" => ps[d].doEndStream
    /\ ps[d].state # "WaitingHeader" /\ ps[d].doEndStream => fed[d] = <<Hdr, End>>
    /\ out[d] # <<>> => fed[d] = <<Hdr, End>>

\* The adapter answers nothing but the end of a message, so the worker is nowhere
\* it would only get to with data, trailers or a reply of this filter.
PlacesOfHeaders == {"doHeaders", "localReplyHeaders", "forwarded", "checkData", "checkTrailer",
                    "localReply", "replyBody"}

MosnInv ==
    /\ dynamicLib
    /\ \A d \in Dir : HeadersOnly(d)
    /\ \A i \in DOMAIN posted : posted[i].act = "continue" /\ posted[i].status = "Continue" /\ posted[i].call.end
    /\ stack # <<>> => Head(stack).at \in PlacesOfHeaders

-----------------------------------------------------------------------------
(* What EchoedRequestStays needs besides.  The echo filter answers twice,  *)
(* so SerialInv does not hold of it.                                       *)

\* The request stays in Go, and the worker gets to nothing behind its headers.
AtHeaders == {"doHeaders", "checkData", "checkTrailer", "localReply"}

RequestInGo ==
    /\ ps["decode"].state \in {"WaitingHeader", "ProcessingHeader"}
    /\ out["decode"] = <<>>
    /\ \A frame \in ToSet(stack) : frame.dir = "decode" => frame.at \in AtHeaders

\* Nobody is refused by the worker, which would answer with Continue.
NeverPanics == ~paniced /\ \A c \in go : ~c.refused

\* Until the response enters Go, only the headers of the request are there.
RequestAlone ==
    ~enterEncoding => /\ ps["encode"].state = "WaitingHeader"
                      /\ \A c \in go : c.dir = "decode"
                      /\ \A frame \in ToSet(stack) : frame.dir = "encode" => frame.at = "replyBody"
                      /\ fed["decode"] = <<>> => go = {} /\ late = {} /\ posted = <<>>

\* The Continue comes behind the reply, and the reply takes the request out of Go.
ReplyGoesFirst ==
    ~enterEncoding /\ ~hasDestroyed /\ ps["decode"].state = "ProcessingHeader" =>
        \/ late = {} /\ posted = <<>>
        \/ posted # <<>> /\ Head(posted).act = "reply"

EchoFlow == RequestInGo /\ NeverPanics /\ RequestAlone /\ ReplyGoesFirst

EchoInv ==
    /\ TypeOK
    /\ dynamicLib
    /\ late \subseteq Call
    /\ EchoFlow
=============================================================================
