# The Golang HTTP filter of envoy-go-extension, in TLA+

envoy-go-extension lets an Envoy HTTP filter be written in Go. Envoy loads the
Go code as a shared library; a C++ filter object per stream
(`src/envoy/http/golang`) calls it through cgo, and the Go code calls back, from
the worker thread or from any goroutine. What is hard about it is the meeting
of two schedulers: Envoy runs a stream on one worker thread, in callbacks that
may re-enter each other, and a Go handler may answer at any later time.

## The system

| Component | State | Operations | Talks to |
|---|---|---|---|
| `Filter` (`golang_filter.{h,cc}`) | two processor states, `enter_encoding_`, `local_reply_waiting_go_`, `local_headers_`/`local_trailers_`, `headers_`/`trailers_`, `req_`, `has_destroyed_` | decode/encode Headers, Data, Trailers; `continueStatus`, `sendLocalReply` (posted to the worker); `onDestroy`; header, buffer, metadata API | filter manager (calls, re-entrant), Go (cgo), dispatcher (posted callbacks) |
| `ProcessorState`, `BufferList` (`processor_state.{h,cc}`) | `state_`, `end_stream_`, `do_end_stream_`, `seen_trailers_`, `data_buffer_`, `doDataList`, `watermark_requested_` | `process*`, `handle*GolangStatus`, `addBufferData` (watermarks, 413), `continueDoData` | owned by `Filter` |
| Go entry points (`pkg/http/moe.go`, `filter.go`) | request map, `paniced`, semaphore, finalizer | `moeOnHttpHeader/Data/Destroy/SemaCallback`, `Continue`, `SendLocalReply`, panic recovery | `Filter` through `cgo.cc`/`capi.go` |
| Header and buffer views (`pkg/http/type.go`, `capi.go`) | lazily copied maps, lengths of buffers | get, set, add, delete; read, write, replace | C API, which acts on `headers_`, `trailers_` and `doDataList` |
| Plugin configuration (`config.*`, `FilterConfig`, `RoutePluginConfig`, `pkg/http/config.go`) | cached configuration ids | lazy creation and merging | all worker threads |
| DSO registry (`common/dso`, bootstrap) | table of libraries | pub, look up, unpub | all threads |
| Adapters (`pkg/http/buffered`, `pkg/http/mosn`) and filters (`passthrough.go`, echo, samples) | parts of the message | turn callbacks into one call of another filter, or answer themselves | Go API; MOSN and its worker pool |

What is hard, per component:

* `Filter`: answers that arrive late, for a state that has moved on, or after
  the stream is gone; local replies of other filters that overtake a busy
  handler; calls out of the filter (`continueDecoding`, inject, local reply)
  that re-enter it in the middle of a method; data that leaves by three
  different ways and has to stay in order; the end of the stream, known to the
  filter manager before it is known to Go.
* `ProcessorState`: buffers at their limit, with callbacks from inside
  `addBufferData`; reading that was disabled must be enabled again.
* Go side: the life of the request object against destroy and the garbage
  collector; the semaphore of a goroutine that waits for the worker.
* Header and buffer views: Go holds a copy, a number or an address of something
  that C++ owns and that has moved on when it is used: headers that were passed
  on, buffers that were erased, sizes of before a write.
* Adapters and filters: they keep part of a message between two calls and
  answer from goroutines, once for all of it, or twice.
* Configuration and DSO registry: caches filled by several workers at once.

`PROJECT.json` lists these as hazards, each at its line.

## Modules

* `ProcessorState`: the value kept by one processor state and its methods, one
  operator per method from the object before the call to the object after it.
* `GolangFilter` (EXTENDS `ProcessorState`): one stream. One action per
  handler of the filter manager, per return of Go, per posted callback and per
  step between two calls out of the filter.
* `MCGolangFilter`: values for TLC.
* `GolangFilterProofs`: lemmas on the operators of `ProcessorState`, type correctness
  for all constants, and the part of the invariant of calm environments that
  keeps the calls into Go apart, with the safety properties it implies.
* `GolangFilterFlowProofs`: flow control in every environment, and the rest of the
  invariant of calm ones: ends of messages, pointers, the end of the stream.
* `GolangFilterDataProofs`: what Go is shown of a message is what came in, and what
  leaves the filter is what Go was shown and did not drop.
* `GoRequest`: one request object between Go and C++, with the callers that
  share it: the worker (also inside `OnDestroy`) and any number of goroutines.
  It stands beside `GolangFilter`: there an answer is one step and the object
  is `req_`, present or not; here the stream is reduced to "a call into Go is
  unanswered", and each C call of a handler is taken apart into its steps.
* `MCGoRequest`: values for TLC.
* `GoRequestProofs`: the inductive invariant of the object and what it implies.
* `PluginConfig`: the configurations of one library and plugin name, shared by
  the workers. It takes `req_->configId = getMergedConfigId(state)`, which
  `GolangFilter` has inside its first call into Go, apart into its reads and
  writes.
* `MCPluginConfig`: values for TLC.
* `PluginConfigProofs`: the ids are right however the workers race, and without any
  condition they are ids of stored configurations.
* `KeptData` (abstract): what a handler is promised of the body it is shown.
* `BufferList`: `doDataList` of one direction and the buffer objects of Go, with
  their bytes. `GolangFilter` has the list with unchanged buffers and the whole
  stream around it; here the stream is reduced to "a handler is called" and the
  bytes may be changed. It refines `KeptData`.
* `HeaderStore` (abstract): what the header API promises.
* `HeaderMap` (EXTENDS `GolangFilter`): the header and trailer objects of one
  stream, used between any two steps of it. It refines `HeaderStore`.
* `WholeMessage` (abstract): what the filter behind the buffered adapter is
  promised.
* `GoPlugins` (EXTENDS `GolangFilter`): the filters of the repository, each as the
  handlers of a stream. It refines `WholeMessage` and, with every filter but
  one, `GolangFilter`.
* `MCBufferList`, `MCHeaderMap`, `MCGoPlugins`: values for TLC.
* `BufferListProofs`: handlers that keep to the rules have what `KeptData` promises.
* `HeaderMapProofs`: handlers that keep to the rules have what `HeaderStore` promises.
* `GoPluginsProofs`: the filters of the repository are handlers of `GolangFilter`.

### How the model stands for the code

| Model | Code |
|---|---|
| `ps["decode"]`, `ps["encode"]` | `decoding_state_`, `encoding_state_` |
| `Cur` | `getProcessorState()` |
| `stack` | the call stack of the worker inside the filter, cut where the control leaves the filter: in Go (`doHeaders`, `doData`, `doTrailer`, `doTrailerData`, `resumeData`, `resumeTrailer`, `localReplyHeaders`), in the next filter (`forwarded`, `forwardedData`, `forwardedTrailerData`), in the filter manager for a local reply (`localReply`, `replyBody`, `bufferFull`) |
| `go` | handlers at work; `sync` while the worker waits inside cgo, afterwards a goroutine |
| `posted` | callbacks posted to the dispatcher by `continueStatus` and `sendLocalReply` |
| `seen`, `fed`, `out`, `dropped` | history: what Go was shown, what came in, what went on, what Go asked to drop with `StopNoBuffer` |
| `headers`, `trailers` | which message `headers_` and `trailers_` point into |
| `dynamicLib` | `dynamicLib_ != nullptr`; FALSE makes the filter pass everything on |
| `crashed` | the outcome of undefined behaviour the model reached: a null `data_buffer_`, a null or freed request; nothing runs afterwards |

A message is a sequence of items: headers, numbered body chunks, then an end
mark or trailers. `held \o latest` is `doDataList`, kept as the last buffer and
all those before it, because `clearLatest` is the only operation that looks at
a single buffer.

Abstractions:

* Go handlers neither change buffers nor headers (`BufferList` and `HeaderMap` let
  them); what they answer is chosen
  from `Answers`, within the rules the API states (`Allowed`): no `Stop*` once
  the stream has ended for them, no `StopNoBuffer` for headers, one answer per
  call ("Continue or SendLocalReply should be last API invoked",
  `pkg/api/filter.go:93`).
* An ASSERT is no guard (release builds compile it away). The catch blocks
  around calls into Go are left out: the C interface throws nothing.
* `continueStatus` and `sendLocalReply` are one step: `mutex_` only orders them
  against `onDestroy`. Their unlocked reads of `state_` race with the worker;
  the model has the untorn outcomes.
* Buffer limits count data frames. Buffers are emptied as a whole only, so the
  low watermark is crossed exactly then.

### The request object

| `GoRequest` | Code |
|---|---|
| `pc[a]`, `api[a]` | where a caller is: its own code (`run`), the mutex (`lock`), the C function (`call`), `sema.Wait` (`wait`, `blocked`, `woken`), the copy of the result (`copy`) |
| `worker`, `filter`, `inGo`, `reason` | the worker in `moeOnHttp*`; `has_destroyed_` and the life of the weak pointer; `isProcessingInGo()`; the `DestroyReason` |
| `req`, `registered`, `finalizer` | `httpRequestInternal`; its entry in `Requests`; `runtime.SetFinalizer` |
| `mutex`, `sema`, `waitSema` | `httpRequest.mutex`, the counter of `httpRequest.sema`, the mark C++ sets for `moeOnHttpDestroy` |
| `strValue`, `buf` | who wrote `req_->strValue` last; whose Go string still points into it |
| `posted` | callbacks on the dispatcher, with the goroutine they serve |
| `faults` | history: use after free, double free, a `WaitGroup` used again too early |

`sync.WaitGroup` is modelled from its documentation: `Done` at one releases all
waiters, `Wait` returns later, and panics ("reused before previous Wait has
returned") when somebody has called `Add` in between. A panic goes the way of
`RecoverPanic`. A goroutine keeps its request reachable for as long as it runs,
so the finalizer comes after the last of them. Handlers give no answer but
`Continue`, by the last goroutine that ends; `paniced`, and what the answer
does next, are in `GolangFilter`.

### The plugin configurations

| `PluginConfig` | Code |
|---|---|
| `published` | the library is in `DsoInstanceManager::dso_map_` |
| `configCache` | the table of `pkg/http/config.go`: what was merged, in order; an id is the number of an entry, 0 is none |
| `filterId`, `routeId`, `mergedId` | `FilterConfig::config_id_`, `RoutePluginConfig::config_id_` and `merged_config_id_` |
| `pc[w]`, `level[w]`, `id[w]`, `fresh[w]` | where worker `w` is in `getMergedConfigId`; how many route configurations it has merged; the id so far; what Go returned last |

The C++ members have no lock and are read twice by each method, so every read
and write of one is a step; a call into Go is a step, since `sync.Map` and the
atomic counter make it one (a number is not known to anybody before its entry
is stored). Members are read and written untorn. `Streams` says which filter
chain and which nested route configurations meet; a route without a
configuration for the plugin is not in its chain. `merge_policy` is not
implemented in C++, and neither `moeDestroyHttpPluginConfig` nor `unpub` has a
caller, so entries are never removed. Left out: a configuration that cannot be
serialized, and a 0 from Go, which no path of the Go code returns.

### The buffers

| `BufferList` | Code |
|---|---|
| `queue[i].at`, `.data` | a buffer of `queue_`: its address, which is all Go knows of it, and what it holds |
| `queue[i].shown`, `.upTo` | history: what it held when Go was shown it; the bytes shown with it and those before it |
| `bytes` | `bytes_`, a number modulo `Word` |
| `objects` | the `httpBuffer` objects, each an address and a length that is never updated |
| `call`, `answer` | the last call into Go with `do_end_stream_`, and its answer |
| `passed` | the contents that went on to the next filter |
| `value`, `overrun` | what the last read returned; whether it wrote past its memory |

`checkExisting` is in `Existing` and `TouchGone`: the buffers before the one that
is looked for are erased, all of them if it is not found. A handler may touch a
buffer at any time until it answers, also one that was passed on, and an address
may come back with a later buffer. `KeptData` holds for handlers that keep to
six rules, none of which the code enforces. Each of them is needed:

| Rule | Without it |
|---|---|
| `TouchOldest` | touching the second kept buffer erases the first |
| `ReadFirst` | the length of the object is that of before the write, so a read is cut, padded, or too long for its memory (`read_after_write`) |
| `ChangedIsPassed` | `clearLatest` takes the new length from a counter that has the old one |
| `TrailersAlone` | trailers that are answered Continue at once leave the kept data behind |
| `OwnBuffer` | an old object reads and changes the buffer that has its address now |
| `FitsWord` | the counter wraps to 0 while data is kept, and is taken for "nothing to do" |

### The headers

| `HeaderMap` | Code |
|---|---|
| `maps` | the header and trailer maps of both messages |
| `objects[m].given`, `.num`, `.bytes` | `headerMapImpl` or `headerTrailerMapImpl` was made for the map, with `headerNum` and `headerBytes` |
| `objects[m].loaded`, `.copy` | `headers` was fetched; its values |
| `Pointer`, `RawPointer` | the map that `copyHeaders`, `setHeader`, ..., and `getHeader`, reach by then |
| `overrun` | `HttpCopyHeaders` was given more than it made room for |

A value is a number, its length; a name has one byte and is written in lower or
in mixed case. Envoy's inline headers, whose values are joined by `addCopy`,
are left out. A read returns all the values of the name (`Values`), or the first
one that Envoy has (`GetRaw`). `HeaderStore` holds for handlers that keep to four rules; each is
needed:

| Rule | Without it |
|---|---|
| `ReadsFirst` | after Set or Add the map has more than the copy has room for |
| `LowerCase` | the copy and the map disagree on the name |
| `BeforePassedOn` | `headers_` still points to what was passed on (it is reset on the synchronous path only), or to the other message already |
| `RawInHeaders` | `getHeader` reads `trailers_` in every phase but the headers |

### The filters

| `GoPlugins` | Code |
|---|---|
| `plugin` | `httpFilterConfigFactory`: one filter is registered |
| `fields[d]` | `reqHeader` and `reqData`, or `rspHeader` and `rspData`, with the end or the trailers |
| `handed[d]` | history: what the filter behind the buffered adapter was called with |
| `late` | calls the echo filter has answered and `runReceiverFilters` not yet |
| `died` | a panic that nobody recovered ended the process |

Every step is one of `GolangFilter`, with the answers the filter gives, but for
two: an answer that is refused, which panics and is recovered or not, and the
second answer of echo. The filter behind the buffered adapter may do anything
that ends: answer or panic, which `RecoverPanic` makes a local reply. MOSN's pool
recovers panics of its goroutines. An echo filter without a status replies to
nothing (`echo.go:51`): its chain is the plugin `mosn`.

### The environment

The filter manager is modelled from how the filter uses it (external in
`map`): it feeds headers, data and trailers in order, one piece at a time per
direction, holds the headers until they are continued, stops everything once
the response is complete, and runs local replies through `encodeHeaders`. Five
constants say what else it may do; each run chooses:

* `WithTrailers`, `EarlyResponse` (the upstream responds before it has the
  request), `LocalReplies` (other filters reply between two calls),
  `NestedReplies` (they reply while this filter passes the request on),
  `EarlyResets` (the stream is destroyed before `decodeHeaders`).

### Fairness

`Fairness` has three weak fairness conditions. The worker's event loop runs
what is posted and what it has begun (`WorkerStep`, `Dispatch`); a handler that
runs inside the worker returns (`GoReturn`); a goroutine ends with `Continue`
or `SendLocalReply` (`Goroutine`), which is what the API asks of every handler.
Nothing is assumed of the peers, the other filters or resets.

In `GoRequest` a thread goes on with the C call it is in as long as it can, and a
handler or `OnDestroy` that runs on the worker returns. What was posted is run
however often the worker calls Go before it (strong fairness): the event loop of
a worker comes to it after each round of I/O.
Handlers need not call, goroutines need not end, streams need not end and
garbage need not be collected.

In `GoPlugins` the worker's event loop runs, handlers of the worker return, a
goroutine of a filter ends, and `runReceiverFilters` comes to its `Continue`: each
is a loop or a sleep of bounded length in the code, and the pool has a worker
for it. `BufferList` and `HeaderMap` state safety only.

## Runs

All bounds are in the cfg files. Two data frames per direction give a first, a
middle and a last piece of a body: one that Go has, one that is buffered behind
it, and the end; a third only repeats the second. `Limit` 3 exceeds what two
frames can fill, `Limit` 1 makes buffers cross their limit, which disables reading; the
413 takes a handler that asked for all of the message, and no passing run with data has
one with that limit. Two goroutines are rivals
for mutex and semaphore, a third only makes the queue longer; three C calls let
both of them and the worker make one, or one of them call twice around another.
Two workers race for a member; a virtual host and a route in it are the two
levels at which Envoy keeps a configuration of a filter, used alone or nested.

`buffer_list` shows three buffers at three addresses (one kept, one touched, one
that takes an address again) of up to three bytes, empty ones too, and counts
them modulo 16, which three buffers cannot fill; `FitsWord` makes that the
general case. `go_plugins` has two data frames and `Limit` 2: with 1 the adapters
would overflow, and a 413 in the middle of a message breaks `AdapterHandsOverWhole` (below). `header_map` leaves
data out (`MaxChunks` 0), since headers are passed on or kept by the same answers
without it, and allows three operations: a read, a write and a read of what was
written, or operations of two objects or two phases.

| Run | Question |
|---|---|
| `filter_core` | All answers, goroutines, local replies and resets, without trailers: one handler at a time (`GoSerialized`), answers reach their call (`AnswerFitsState`), Normal means idle (`NormalMeansIdle`), no crash (`NoCrash`), a waiting local reply has somebody to wake it (`WaitingReplyIsWoken`), order and completeness (`PassedOnIntact`, `ShownInOrder`, `PassedAfterShown`), pointers (`HeaderApiIsSafe`), no way back to the request (`NoDecodeCallAfterEncode`), delivery (`Delivered`), and the inductive invariant `StreamInv`. |
| `filter_open` | Every environment constant on, trailers in both directions, buffers of one frame, handlers that never stop. What holds in spite of early responses, nested replies and resets: trailers follow the data and nothing is reordered or lost (`PassedOnIntact`), reading is off only while a buffer is too full (`ReadingDisabledOnlyWhenFull`) and comes back on under fairness (`ReadingResumes`), and a waiting local reply has somebody to wake it (`WaitingReplyIsWoken`). |
| `go_request` | Handlers on the worker, in `OnDestroy` and in two goroutines use one request: `ReadsOwnValue`, `SemaphoreIsBalanced`, freed once and unused (`FreedWhenUnused`), out of the map before its address can come back (`FreedIsUnregistered`), the invariant `CallProtocol`, and a call that is the only one under way returns whatever becomes of the stream, unless another is made before (`LoneCallReturns`). |
| `buffer_list` | Handlers read, write, keep, pass on and drop buffers, by the rules: nothing is lost, reordered or passed on twice (`DataIsKept`, a refinement of `KeptData`), and `bytes_` is 0 only if nothing is kept (`CounterIsReliable`). |
| `header_map` | Headers and trailers are read and written from synchronous handlers, goroutines and later phases, by the rules: every object is a store of its own (`MapsAreStores`, a refinement of `HeaderStore`), copies fit (`CopyFits`), what was passed on is not changed (`PassedMapsStay`), and with trailers and late answers `headers_` and `trailers_` are those of the running call (`HeaderApiIsSafe`). |
| `go_plugins` | Whole streams with each filter: all but echo are handlers of `GolangFilter` (`PluginsAreHandlers`), the buffered adapter hands over every message once and whole (`AdapterHandsOverWhole`, a refinement of `WholeMessage`), messages are delivered (`PluginsDeliver`), only the samples can end the process, and only when the stream has gone (`OnlySamplesDie`), the MOSN adapter passes on messages of headers alone (`MosnPassesOnHeadersOnly`), and the second answer of echo does not pass the request on (`EchoedRequestStays`). |
| `plugin_config` | Two workers, one filter, a virtual host and a route: handlers get the configuration of their stream (`HandlerGetsItsConfig`), Go keeps no more copies than workers (`CreatedOncePerWorker`), and the inductive invariant `IdsFit`. |

The runs that expect a violation each show one disagreement of the code with
what the repository says of it:

| Run | Violates | What happens |
|---|---|---|
| `early_response` | `GoSerialized` | The upstream responds while the request is still coming in. `encodeHeaders` starts a handler of the response, the next request frame starts one of the request: two handlers of one stream, against README "there is no concurrency in Go side, except `OnDestory`". |
| `nested_local_reply` | `NormalMeansIdle` | The next filter replies locally inside `continueDecoding`; `continueStatusInternal` then goes on with the decoding state and starts a handler, while `onDestroy` judges by the encoding state and reports Normal: Go frees a request in use (`pkg/http/moe.go:215`). |
| `two_waiting_goroutines` | `WakeOnDestroy` | `HttpGetDynamicMetadata` adds to the semaphore before it takes the mutex (`pkg/http/capi.go:232`). The goroutine that waits for the worker also waits for the `Done` of a second one, which waits for its mutex: nobody is woken, not even by the end of the stream (`pkg/http/moe.go:203`). |
| `shared_route_config` | `HandlerGetsItsConfig` | Two filter chains use one virtual host. Its `merged_config_id_` is that of the first merge (`golang_filter.cc:1024`), so streams of the second chain get the configuration of the first, although all configuration is to be passed on (`golang.proto:138`). |
| `read_after_write` | `CopyFits` | A handler appends to the buffer it was shown and reads it. The object has the length of before (`type.go:310`), Go makes memory of that length (`capi.go:159`), and C++ copies all the buffer has (`golang_filter.cc:754`): past the end of that memory, although users "do not need to care about memory safety" (`src/README.md:106`). Of the rules for handlers only `FitsWord` is on, which is none of the handlers' doing. |

Seen in the same way but not kept as runs. Of the stream: trailers that arrive in
`WaitingData`, after `StopAndBufferWatermark` kept data, are shown to Go and passed
on ahead of that data (`golang_filter.cc:421`; `filter_open` has handlers that
never stop). A `Continue` for trailers from a goroutine passes on what was kept of the
body with `do_end_stream_`, which `processTrailer` sets (`processor_state.h:158`,
`:138`): the end of the stream goes ahead of the trailers, although
"trailers will pass to next fitler" (`processor_state.cc:172`); the buffered
adapter does that to every message with a body and trailers
(`filtermanager.go:64`). A stream that is reset before `decodeHeaders` makes
`onDestroy` pass a null request to Go, against its ASSERT (`golang_filter.cc:243`); with a limit of one frame, a 413
from inside `doData` with `end_stream` leaves the state at `WaitingAllData`, so
"check state again" (`golang_filter.cc:361`) does not stop the call into Go
after the reply has started; a buffer in `WaitingAllData` that is full already
when the state is entered is never answered with 413
(`processor_state.cc:331`), because the watermark callback runs on crossing
only; where such a 413 cuts a message short, the buffered adapter may hand over what
it has as if it were all (`go_plugins` with `Limit` 1 refutes `AdapterHandsOverWhole`);
headers may be continued with the stream's end known to the filter
manager when trailers were seen (`golang_filter.cc:500`). When trailers arrive
while a goroutine has the headers and no data came, nobody handles them after
`Continue` (the TODO at `golang_filter.cc:524`), and after `StopAndBuffer`
`getBufferData()` (`processor_state.h:122`) dereferences a null `data_buffer_`
(`NoCrash` is therefore checked without trailers).

Of the request object: a handler on the worker that takes the mutex
(`GetRouteName`) while a goroutine of its own holds it and waits for the worker
blocks both for good; an `OnDestroy` that reads the metadata adds to the
semaphore again before the goroutine it just released has returned, with the
same end (`LoneCallReturns` therefore speaks of a call as long as it is `Alone`); the panic of a
`WaitGroup` that is used again too early answers for a goroutine that is still
at work, after which a Normal end frees its request (`FreedWhenUnused` excepts
it); an `OnDestroy` that calls the C API panics past `DeleteReq`, and the
request stays in the map; `setDynamicMetadata` called from a goroutine posts a
callback that reads the caller's memory and returns `CAPIOK`, so Go does not
wait, although `golang_filter.cc:914` relies on it.

Of the views: `headers_` and `trailers_` are not reset on the asynchronous path,
against the comments at `processor_state.cc:53` and `:171`; a `Set` before the first
`Get` makes `HttpCopyHeaders` write past its buffers; upper-case names make the
copy and the map disagree; `setHeader` runs on the Go thread, although the
README says that write operations happen in Envoy's (`src/README.md:129`).

Of the filters: the MOSN adapter, which `main.go` registers, answers Running to the
headers of a message that has more, and only the end of a message starts
anything that continues them (`stream.go:122`). C++ waits for that answer, shows it
no more, and the stream hangs. The echo filter behind it answers twice, against `pkg/api/filter.go:93`; the samples'
goroutines answer without a deferred `RecoverPanic`, so one that sleeps while its
stream is destroyed ends the process; `samples/buffered` calls `Drain` in its
`Encode`, which panics with "implement me", so every response with a body becomes
a 500; and `OnDestroy` of the MOSN adapter gives the chain back to its pool while
a goroutine may run it (`stream.go:170`).

Deadlock is checked for `PluginConfig`, whose workers never stop. Elsewhere it is
not: a stream ends, and then nothing is left to do. Every
property of a passing run has a mutant in `PROJECT.json`, an operator of the
model changed as a plausible bug would, under which TLC finds it violated.

## Proofs

Proved by TLAPS, for every value of the constants that satisfies
`BoundsAssumption` (frame counts are naturals, the limit is positive) and
`EnvironmentAssumption` (the types of the other constants):

* `TypeCorrect`: `Spec => []TypeOK`, without further assumptions.
* `SerialInvariant`: `Spec => []SerialInv` in a calm environment, and from it
  `OneHandlerAtATime` (`GoSerialized`), `AnswersFit` (`AnswerFitsState`) and
  `WaitingRepliesAreWoken` (`WaitingReplyIsWoken`).

`Calm` excludes exactly what the violation runs and the overflow show to break
serialization: a response before the end of the request (`EarlyResponse`), a
reply from inside `continueDecoding` (`NestedReplies`), and a message that
overflows its buffer while Go waits for all of it (`MaxChunks <= Limit`, or no
`StopAndBuffer`). Everything else stays open: any number of frames, trailers,
handlers that go on in goroutines, other filters that reply between two calls,
resets, a missing library.

Why a strengthening is needed: `GoSerialized` alone is not inductive, because a
step that calls Go checks only one processor state. The argument is this. A
processor state is in Go (`Processing*`) exactly while a call of it is
unanswered, and only the current one can be (`CallsFit`, `AnswerOutstanding`),
so a step that finds the current state out of Go finds no call at all (lemma
`Idle`). That needs to know that every such step works on the current state:
what is on the worker's stack belongs to it (`StackShape`, with the one
exception of a local reply whose body has to wait while its headers are in Go),
and the request comes in only before the response has started (`StreamOrder`).
A reply that waits for Go waits for a handler that went asynchronous
(`ReplyWaitsForRequest`), so the answer that is posted finds the request still
current. `BufferFits` bounds the private buffers by what came in, which is what
keeps them from crossing the limit (lemma `NoOverflow`); without it the 413 of
a full buffer re-enters the filter in the middle of `doData`. An answer must be
let in, since a refused one is lost and the request panics: `NeverRefused`.

The proof has one lemma per action (`DecodeHeadersSerial` ... `DestroySerial`),
on top of four for what actions have in common: `EntersGo` (a call into Go),
`QuietStep` (nobody is called), `FlowGoesOn` with `ComesBack` (Go has answered
the worker) and `LeaveGo` (Go is not involved).

Further, of the same stream:

* `ReadingStopsWhenFull` (`ReadingDisabledOnlyWhenFull`), in every environment: a
  private buffer over its limit only grows or is emptied, and emptying it enables
  reading (`BuffersFull`).
* `StreamInvariant`: `Spec => []StreamInv` in a calm environment, that is `SerialInv`
  with `EndInv`, and from it `HeaderApiSafe` (`HeaderApiIsSafe`), `NormalIsIdle`
  (`NormalMeansIdle`) and, with `SerialInv` alone, `RequestIsOver`
  (`NoDecodeCallAfterEncode`).
* `NothingCrashes` (`NoCrash`), if also no stream is destroyed before the filter is
  called (`~EarlyResets`) and trailers do not follow a message that Go wants whole
  (`WithTrailers = {}` or no `StopAndBuffer`); both do crash, see above.

`EndInv` follows the end of a message through the filter. The flags of a processor
state say how the message ended so far (`Flags`), and Go knows of an end only
when it came in (`Sound`, `EndsFit`). If Go does not know of one that came in, a
buffer is there to tell it with later, which is what `getBufferData()` relies on;
trailers are the exception, hence the condition of `NothingCrashes`. An answer to
a call that carried the end moves the state to `Done`, and only such an answer
passes the end on (`EndIsDone`). So a stream whose response is over is in `Done`:
the frames that are left do not call Go again, nothing is lost when `onDestroy`
says Normal, and `headers_` and `trailers_` are those of a message that is still
in the filter (`HeadersHeldBack`, `TrailersReached`). There is one lemma per action
again (`DecodeHeadersEnd` ... `DestroyEnd`), on top of `EnteringKeepsEnd`,
`AnsweringKeepsEnd`, `KeepingKeepsEnd` and `MovingKeepsEnd`. TLC checks `StreamInv`
in `filter_core`.

Of the data that flows into Go, in a calm environment:

* `InInvariant`: `Spec => []InInv`, and from it `GoSeesInOrder` (`ShownInOrder`).

That `seen` is a prefix of `fed` is not inductive: a step that shows Go what was
buffered has to know that the buffer is exactly what comes next. `InInv` says so
(`NothingSkipped`): what came in is what Go was shown, then the private buffer, then
the end of the message as long as Go was not told of it. This holds while Go is
still to be shown all of the message (`FlowsIn`); a local reply that takes the place
of the upstream's response, or cuts a message short, ends it, and nothing of that
message enters Go any more. The end must not be told before the data in front of it
(`EndsTold`), which is where `do_end_stream_` and the private buffer meet; and data
stays in the buffer only while Go is busy, or the worker is just about to look
(`Drained`), so a new frame that goes straight to Go overtakes nothing. The messages
themselves are in order because each piece that comes in is new (`NumbersFit`). One
lemma per action again (`DecodeHeadersShown` ... `DestroyShown`).

Of the data that flows out, in a calm environment in which there are no trailers or
handlers keep no data (`NothingOvertaken`):

* `OutInvariant`: `Spec => []OutInv`, and from it `MessagesStayIntact`
  (`PassedOnIntact`) and `GoSeesFirst` (`PassedAfterShown`).

The assumption excludes what the code gets wrong: trailers that come in while the filter
still keeps data leave ahead of that data, and a `Continue` for trailers ends the stream
before them (see "Seen in the same way" above). `filter_core` satisfies it by its first
half; with handlers that keep nothing, `filter_open` checks `PassedOnIntact` even where the
environment is not calm. `OutInv` sorts what Go was shown
of a message into what was passed on, what is kept in the filter (`DataList`: the data
with Go and the data Go gave back to keep) and what Go refused (`InOrder`): the three
are apart, what is kept comes after all that was passed on, and nothing that Go was
shown earlier is left out between two pieces that were passed on. While the message
flows out (`FlowsOut`), nothing of its data is anywhere else (`NothingLost`), so the
end of the message, or a later piece, cannot go on over data that was forgotten; that is
false once a local reply takes over or the stream is closed, and then nothing of that
message is passed on any more. Where trailers do come in, nothing may be kept once
Go is done with the data (`HoldsNothing`), and the trailers that follow it were shown to
Go with the data in front (`TrailersFollow`). That a piece of the message belongs to
the end or the beginning of what was passed on is read off `ShownInOrder`, so the
step needs `InInv` and `StreamInv`. Without the library all that comes in goes on
(`AllPassedOn`). One lemma per action (`DecodeHeadersLeaves`, ..., `NextBypassed`).

Of the headers, in a calm environment in which handlers keep to all four rules
(`Rules = Rule`), for names, values and maps of any size:

* `HeaderInvariant`: `HeaderSpec => [](StreamInv /\ HeaderInv)`, and from it
  `CopiesFitTheirBuffers` (`CopyFits`) and `MapsStayAsPassed` (`PassedMapsStay`);
* `EachMapIsAStore` (`MapsAreStores`): `HeaderMap` refines `HeaderStore`.

`HeaderInv` relates the three places a header is in. An object that was not read
yet knows the number and the bytes its map still has (`SizesFit`), which is what makes
room for the copy; one that was read holds, for every lower-case name, the values the
map has (`CopiesFit`), so that a read of the copy is a read of the map; and `headers_`
points to the headers that are worked on as long as these are in the filter
(`HeadersReached`), so that a write reaches the map the object was made for. The
last needs `StreamInv`: the handler that writes is the one of the current processor
state. `FilterGoesOn` takes every step of `HeaderMap` for a step of `GolangFilter`, or
a stutter. That `ByteSize` is a natural number, and that writing a name leaves the
values of the others alone, is shown for every length of a map by induction: the set
of the lengths for which it holds contains 0 and is closed under successor
(`SetInduction`), which needs no operator as a parameter.

Of the request object, for any finite set of goroutines and any number of
calls (`CallersAssumption`, `MaxCallsAssumption`), which make their calls when they
like. A handler answers once, by the last goroutine that ends; a panic of user code
in one of two goroutines, which `RecoverPanic` answers while the other is still at work
(`pkg/http/filter.go:92`), is not modelled:

* `RequestInvariant`: `Spec => []RequestInv`, and from it `RequestTypes`
  (`TypeOK`), `OneCallerAtATime` (`CallProtocol`), `SemaphoreBalances`
  (`SemaphoreIsBalanced`) and `EachReadsItsOwn` (`ReadsOwnValue`);
* `FreedRequestIsUnregistered` (`FreedIsUnregistered`), from an invariant of
  its own on the map and the reason;
* `RequestIsFreedUnused` (`FreedWhenUnused`), from `FreeInv` and `RequestInv`.

None of these is inductive alone. That the counter is not decremented below
zero needs to know that a callback on its way is matched by the mark
`waitSema`, that this mark belongs to the holder of the mutex, and that the
holder is still waiting, which is what the balance says: as long as the mark is
set the counter is positive, so `Wait` cannot return. That `strValue` is not
overwritten needs the same: who reads it holds the mutex, and the callback that
writes it works for the holder. The lemmas `ProtocolGoesOn` and `BetweenCalls`
treat the steps that leave the protocol alone; each of the others has a lemma
of its own (`LockKeeps` ... `OnDestroyKeeps`).

`FreeInv` says who has the request and who still runs. `LifeFits`: while the worker is
at work for Go or a finalizer is set, the request is live, and a stream that has not
ended keeps it in the map. `AnswersFit`: as long as a goroutine is alive, or its answer
is on its way, the filter takes Go to be in a call; so a Normal end, which deletes
the request at once, finds no goroutine left (`NobodyLeft`), and a finalizer does not
run before the last of them is gone. The panic of a reused `WaitGroup` breaks just this,
by answering while another goroutine works, which is why `FreedWhenUnused`
excepts it; `FaultsStay` makes the exception final. Who runs may therefore use the
request (`InUse`), and every step of a caller, a callback or the worker keeps
`NotUsedFreed` (`CallsUnused` ... `EndsUnused`).

Of the plugin configurations, for any number of workers, filters and nested
route configurations (`ConfigAssumption`), with a parser or without:

* `IdsAreRight`: `OneParent => (Spec => [](TypeOK /\ IdsFit))`;
* `HandlersGetTheirConfig` (`HandlerGetsItsConfig`), under the same condition;
* `IdsAreAlwaysStored` (`TypeOK`): `Spec => [](TypeOK /\ IdsAreStored)`, under none;
* `CreationInvariant`: `Spec => []CreationInv`, and from it `EachWorkerCreatesOnce`
  (`CreatedOncePerWorker`), under none either.

`OneParent` excludes what `shared_route_config` shows: a route configuration
that is reached with two different parents. That is not inductive without
`IdsFit`: a worker checks a member, and reads it again later, when another
worker may have stored an id of its own; so every id that is cached or on its
way has to denote the right configuration, and a member that holds one must
never lose it. The table only grows (`Grows`), so what an id denotes stays
(`CachesKept`, `OthersFit`); what a merge makes is one level more because
concatenation is associative (`OneLevelMore`). `IdsAreStored` needs no such
condition: a shared route configuration may hand a handler the wrong
configuration, but never one that does not exist (`RouteOfSound`, `StaysSound`, one
lemma for each kind of step), so the lookups whose failure the code leaves open
(`config.go:75`, `filtermanager.go:41`) succeed.

How many copies of a configuration the table holds is bounded without recording who
made them. The last part of a configuration tells which member is to keep its id. A
worker is about to create it (`Creators`) only if it found no id there; once Go has
stored it, the worker holds the number (`Keepers`) until the member has an id, which it
never loses. So those about to create it and the copies are together no more than
there are workers, and while the member has no id the copies are no more than those who
hold one (`CreatedOnce`): a worker that finds no id then is one more beside them
(`OneMoves`). That what is merged for a route ends with its part needs that the id in
`config_id_` of the route is the right one (`RoutesFit`), which holds also for a route
configuration with several parents.

Of the buffers, for any number of buffers and addresses, any bytes, and a counter
of any width (`BufferListAssumption`), when handlers keep to all six rules
(`Rules = Rule`):

* `ListInvariant`: `Spec => []ListInv`, and from it `CounterReliable`
  (`CounterIsReliable`);
* `ImplementsKeptData` (`DataIsKept`): `BufferList` refines `KeptData`.

`ListInv` says that the buffers of the list have different addresses (`Unique`), so
that an address that comes back cannot be taken for an old buffer; that `bytes_`
is the sum of what the buffers held when Go was shown them, and fits its width
(`Sums`, `Counted`); that an object that may still be used has the length of its
buffer (`LengthsFit`); and that nothing is kept once the end went on
(`EmptyAtEnd`). Each step of the list then maps to one step of `KeptData`, or to
none: `moveOut` passes on all that is kept because the counter is not 0 when
something is, and `checkExisting` erases nothing because the rules let it be called
for the oldest buffer only. That no copy goes past its memory is not among the
theorems: the code promises it to handlers that keep to no rules, and they do not
have it (`read_after_write`).

Of the filters, in a calm environment in which handlers may answer Continue:

* `PluginInvariant`: `PluginSpec => []PluginInv`, and from it `PluginsImplementHandlers`
  (`PluginsAreHandlers`), `SamplesDieLate` (`OnlySamplesDie`) and
  `PluginsOneAtATime` (`GoSerialized`, for every filter but echo).

Invariant and step simulation need each other here. A goroutine of the MOSN adapter
whose call is refused ends without an answer and without a panic of the
request, which `GolangFilter` allows after the end of the stream only; that
it happens only then (`AcceptedUntilDestroyed`) follows from `SerialInv`, which holds of
the filters only because their steps are steps of `GolangFilter` so far.

* `MosnInvariant`: `PluginSpec => [](plugin = "mosn" => MosnInv)` in the same environment,
  and from it `MosnPassesHeadersOnly` (`MosnPassesOnHeadersOnly`);
* `EchoInvariant`: `PluginSpec => [](plugin = "echo" => EchoInv)` in every environment,
  and from it `EchoKeepsRequests` (`EchoedRequestStays`).

`MosnInv` says that a processor state never gets beyond the headers, except to `Done`
with a message that ended with them (`HeadersOnly`), and that every answer that is on
its way is a Continue for a call that carried the end. The rest is what the worker
cannot meet then: it is never at data, trailers or a reply of the filter itself
(`PlacesOfHeaders`). That Go was told the end with the headers only when nothing else
came in rests on `EndInv`, and for a response that waited behind a local reply on
`InInv`, so `PluginStreamInv` carries both along.

The echo filter answers twice, so neither `SerialInv` nor anything that follows from it
holds of it, and `EchoInv` is proved from `TypeOK` alone. The request stays with its
headers in Go (`RequestInGo`); a call is refused only by the Continue that comes late,
not by the worker (`NeverPanics`); as long as the response has not entered, Go is at work
on nothing but the request (`RequestAlone`); and a Continue that is posted, or about to
be, has the reply in front of it until the reply is sent (`ReplyGoesFirst`). Sending it
lets the response in before the Continue is looked at, so what that Continue meets is
the response.

Only model-checked: every liveness property (fairness and ENABLED are out of
the prover's reach), and of the adapters `AdapterHandsOverWhole`.

## Plan

1. Proofs: `AdapterHandsOverWhole`, the refinement of `WholeMessage` by the buffered adapter.
2. `DsoManager`: the registry, with the check before the lock in `pub`; today
   the bootstrap extension publishes from one thread, before any worker runs.
3. A model of the memory accesses to `state_` and `enter_encoding_` from Go threads.

## Not modelled

MOSN (its chains, pools and buffers; `pkg/http/mosn/buffer.go`, `type.go` and
`filtermanager.go` only give its interfaces to the objects of Go), access log and
statistics, symbol lookup in the shared library, the bootstrap extension (it only
fills the registry), `main.go`, build and packaging, what `samples/buffered` does
with its messages. Also left out: exceptions from calls into Go, inline headers,
the wording of logs and replies, and torn reads of `state_` from Go threads.
