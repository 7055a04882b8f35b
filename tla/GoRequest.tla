------------------------------ MODULE GoRequest ------------------------------
(* The request object of one stream, shared by C++ and Go: the               *)
(* httpRequestInternal of the filter, the Go httpRequest that points to it,    *)
(* the map from one to the other, the mutex and the semaphore of the Go side,  *)
(* and who frees what, and when.                                              *)
(*                                                                            *)
(* Handler code runs on the worker, where its C calls are served at once, or   *)
(* in goroutines, whose access to the dynamic metadata is posted to the        *)
(* worker. A stream has one call into Go at a time here; GolangFilter models   *)
(* the filter that sees to it.                                                *)
EXTENDS Integers, Sequences, FiniteSets

CONSTANTS
    Goroutines,     \* the goroutines a handler may start
    MaxCalls        \* C calls made by the handlers of the stream, a bound

\* The thread of the stream, which also runs handler code.
Worker == "worker"
\* No holder of the mutex, no writer of strValue.
Nobody == "nobody"

ASSUME CallersAssumption ==
    /\ Goroutines # {} /\ IsFiniteSet(Goroutines)
    /\ Worker \notin Goroutines /\ Nobody \notin Goroutines
ASSUME MaxCallsAssumption == MaxCalls \in Nat

Callers == Goroutines \cup {Worker}

VARIABLES
    req,            \* the httpRequestInternal: "none", "live" or "freed"
    registered,     \* Requests maps it to the Go request
    finalizer,      \* requestFinalize is set on the Go request
    filter,         \* "alive", "destroyed" (has_destroyed_) or "gone" (expired)
    inGo,           \* isProcessingInGo() of the current processor state
    reason,         \* the DestroyReason, once the filter is destroyed
    worker,         \* where the worker is
    async,          \* the handler has started its goroutines
    pc,             \* where each caller is: "off", "run" (its own code), a step of a C call
    api,            \* the call a caller is in
    calls,          \* number of C calls so far
    mutex,          \* who holds httpRequest.mutex
    sema,           \* the counter of httpRequest.sema, a WaitGroup
    waitSema,       \* httpRequest.waitSema, in C
    strValue,       \* whose value is in req_->strValue
    buf,            \* the callers whose buf (or value) points into strValue
    posted,         \* callbacks on their way to the worker
    faults          \* history: what went wrong in memory or in the WaitGroup

vars == << req, registered, finalizer, filter, inGo, reason, worker, async, pc, api, calls,
           mutex, sema, waitSema, strValue, buf, posted, faults >>
object == << req, registered, finalizer, reason >>
stream == << filter, inGo, worker, async >>

Apis == {"none", "GetRouteName", "GetDynamicMetadata", "SetDynamicMetadata"}
CallSteps == {"lock", "call", "wait", "blocked", "woken", "copy"}
Faults == {"useAfterFree", "doubleFree", "waitGroupReused"}
Events == [kind : {"continue", "get", "set"}, by : Goroutines]

Init ==
    /\ req = "none" /\ registered = FALSE /\ finalizer = FALSE /\ reason = "none"
    /\ filter = "alive" /\ inGo = FALSE /\ worker = "loop" /\ async = FALSE
    /\ pc = [a \in Callers |-> "off"] /\ api = [a \in Callers |-> "none"] /\ calls = 0
    /\ mutex = Nobody /\ sema = 0 /\ waitSema = 0
    /\ strValue = Nobody /\ buf = {} /\ posted = << >> /\ faults = {}

-----------------------------------------------------------------------------
(* Steps that several actions share.                                          *)

At(a, step) == pc' = [pc EXCEPT ![a] = step]

\* An access to the httpRequestInternal by way of a pointer kept in Go.
UseReq == faults' = IF req = "freed" THEN faults \cup {"useAfterFree"} ELSE faults

\* C++ deletes the httpRequestInternal for Go.
HttpFinalize ==
    /\ req' = "freed"
    /\ faults' = IF req = "freed" THEN faults \cup {"doubleFree"} ELSE faults

\* What sema.Done() does to where the callers are: at zero the waiters are released.
Wake(at) == IF sema = 1 THEN [a \in Callers |-> IF at[a] = "blocked" THEN "woken" ELSE at[a]]
                        ELSE at

\* The value of a's call is copied to strValue, buf points to it.
SetStrValue(a) == strValue' = a /\ buf' = buf \cup {a}

Live == {g \in Goroutines : pc[g] # "off"}

-----------------------------------------------------------------------------
(* Handlers.                                                                  *)

\* The worker calls Go: the first call creates the request on both sides.
Handler ==
    /\ worker = "loop" /\ filter = "alive" /\ ~ inGo
    /\ worker' = "handler" /\ inGo' = TRUE /\ async' = FALSE
    /\ At(Worker, "run")
    /\ IF req = "none"
         THEN req' = "live" /\ registered' = TRUE /\ finalizer' = TRUE
         ELSE UNCHANGED << req, registered, finalizer >>
    /\ UNCHANGED << filter, reason, api, calls, mutex, sema, waitSema, strValue, buf, posted,
                    faults >>

\* The handler starts goroutines, before it returns Running.
StartGoroutines ==
    /\ worker = "handler" /\ pc[Worker] = "run" /\ ~ async
    /\ \E S \in SUBSET (Goroutines \ Live) \ {{}} :
         pc' = [a \in Callers |-> IF a \in S THEN "run" ELSE pc[a]]
    /\ async' = TRUE
    /\ UNCHANGED << object, filter, inGo, worker, api, calls, mutex, sema, waitSema, strValue,
                    buf, posted, faults >>

\* It returns: Running if there are goroutines to answer, or else a final status.
HandlerReturn ==
    /\ worker = "handler" /\ pc[Worker] = "run"
    /\ worker' = "loop" /\ inGo' = async
    /\ At(Worker, "off")
    /\ UNCHANGED << object, filter, async, api, calls, mutex, sema, waitSema, strValue, buf,
                    posted, faults >>

\* A goroutine ends; the last one answers with Continue or SendLocalReply, so the
\* handlers are such that answer once, when all their goroutines have done their work.
\* Refused, the panic ends in RecoverPanic.
GoroutineEnds(g) ==
    /\ pc[g] = "run"
    /\ At(g, "off")
    /\ IF Live = {g}
         THEN /\ UseReq
              /\ posted' = IF filter = "alive" /\ inGo
                             THEN Append(posted, [kind |-> "continue", by |-> g])
                             ELSE posted
         ELSE UNCHANGED << faults, posted >>
    /\ UNCHANGED << object, stream, api, calls, mutex, sema, waitSema, strValue, buf >>

-----------------------------------------------------------------------------
(* C calls of handler code.                                                   *)

Begin(a, name, step) ==
    /\ pc[a] = "run" /\ calls < MaxCalls
    /\ calls' = calls + 1
    /\ api' = [api EXCEPT ![a] = name]
    /\ At(a, step)
    /\ UNCHANGED << object, stream, mutex, waitSema, strValue, buf, posted, faults >>

GetRouteName(a) == Begin(a, "GetRouteName", "lock") /\ UNCHANGED sema

\* The semaphore is taken before the lock.
GetDynamicMetadata(a) == Begin(a, "GetDynamicMetadata", "lock") /\ sema' = sema + 1

SetDynamicMetadata(a) == Begin(a, "SetDynamicMetadata", "call") /\ UNCHANGED sema

\* Mutant: the mutex does not exclude anybody.
Lock_Ignored(a) ==
    /\ pc[a] = "lock"
    /\ mutex' = a
    /\ At(a, "call")
    /\ UNCHANGED << object, stream, api, calls, sema, waitSema, strValue, buf, posted, faults >>

Lock(a) ==
    /\ pc[a] = "lock" /\ mutex = Nobody
    /\ mutex' = a
    /\ At(a, "call")
    /\ UNCHANGED << object, stream, api, calls, sema, waitSema, strValue, buf, posted, faults >>

Unlocked(a) == IF mutex = a THEN Nobody ELSE mutex

\* Where a caller is after a panic: RecoverPanic ends the goroutine, or the call into Go.
Panicked(a) == /\ worker' = IF a = Worker THEN "loop" ELSE worker
               /\ mutex' = Unlocked(a)
               /\ api' = [api EXCEPT ![a] = "none"]

\* The C call is refused: the filter is gone or destroyed, or Go has answered.
\* Out of OnDestroy the panic skips the rest of moeOnHttpDestroy.
Refused(a) ==
    /\ pc[a] = "call" /\ (filter # "alive" \/ ~ inGo)
    /\ UseReq
    /\ IF api[a] = "GetDynamicMetadata"
         THEN sema' = sema - 1 /\ pc' = Wake([pc EXCEPT ![a] = "off"])
         ELSE UNCHANGED sema /\ At(a, "off")
    /\ Panicked(a)
    /\ UNCHANGED << object, filter, inGo, async, calls, waitSema, strValue, buf, posted >>

Granted(a, name) == pc[a] = "call" /\ api[a] = name /\ filter = "alive" /\ inGo /\ UseReq

GetStringValue(a) ==
    /\ Granted(a, "GetRouteName")
    /\ SetStrValue(a)
    /\ At(a, "copy")
    /\ UNCHANGED << object, stream, api, calls, mutex, sema, waitSema, posted >>

\* The metadata named by the caller may not exist; buf is empty then.
ReadMetadata(a) == SetStrValue(a) \/ UNCHANGED << strValue, buf >>

\* isThreadSafe(): served at once.
GetMetadataOnWorker ==
    /\ Granted(Worker, "GetDynamicMetadata")
    /\ ReadMetadata(Worker)
    /\ sema' = sema - 1
    /\ pc' = Wake([pc EXCEPT ![Worker] = "copy"])
    /\ UNCHANGED << object, stream, api, calls, mutex, waitSema, posted >>

\* Mutant: nobody notes that a goroutine waits.
MarkWaiting_Forgotten == UNCHANGED waitSema

MarkWaiting == waitSema' = 1

\* CAPIYield: the worker will serve it; Go waits for the semaphore.
GetMetadataYields(g) ==
    /\ Granted(g, "GetDynamicMetadata")
    /\ MarkWaiting
    /\ posted' = Append(posted, [kind |-> "get", by |-> g])
    /\ At(g, "wait")
    /\ UNCHANGED << object, stream, api, calls, mutex, sema, strValue, buf >>

\* CAPIOK on every thread: the call returns, and with it the life of its arguments ends.
SetMetadata(a) ==
    /\ Granted(a, "SetDynamicMetadata")
    /\ posted' = IF a = Worker THEN posted ELSE Append(posted, [kind |-> "set", by |-> a])
    /\ api' = [api EXCEPT ![a] = "none"]
    /\ At(a, "run")
    /\ UNCHANGED << object, stream, calls, mutex, sema, waitSema, strValue, buf >>

\* sema.Wait(), up to where it blocks.
Wait(g) ==
    /\ pc[g] = "wait"
    /\ At(g, IF sema = 0 THEN "copy" ELSE "blocked")
    /\ UNCHANGED << object, stream, api, calls, mutex, sema, waitSema, strValue, buf, posted,
                    faults >>

WaitReturns(g) ==
    /\ pc[g] = "woken" /\ sema = 0
    /\ At(g, "copy")
    /\ UNCHANGED << object, stream, api, calls, mutex, sema, waitSema, strValue, buf, posted,
                    faults >>

\* A WaitGroup that is used again before Wait has returned panics; RecoverPanic
\* answers with SendLocalReply.
WaitPanics(g) ==
    /\ pc[g] = "woken" /\ sema # 0
    /\ faults' = faults \cup {"waitGroupReused"}
                       \cup (IF req = "freed" THEN {"useAfterFree"} ELSE {})
    /\ posted' = IF filter = "alive" /\ inGo
                   THEN Append(posted, [kind |-> "continue", by |-> g])
                   ELSE posted
    /\ At(g, "off")
    /\ Panicked(g)
    /\ buf' = buf \ {g}
    /\ UNCHANGED << object, filter, inGo, async, calls, sema, waitSema, strValue >>

\* Go copies what buf points to, unlocks and returns.
CopyAndUnlock(a) ==
    /\ pc[a] = "copy"
    /\ IF a \in buf THEN UseReq ELSE UNCHANGED faults
    /\ buf' = buf \ {a}
    /\ mutex' = Unlocked(a)
    /\ api' = [api EXCEPT ![a] = "none"]
    /\ At(a, "run")
    /\ UNCHANGED << object, stream, calls, sema, waitSema, strValue, posted >>

-----------------------------------------------------------------------------
(* Callbacks the worker runs.                                                 *)

TakeEvent(kind) ==
    /\ worker = "loop" /\ posted # << >> /\ Head(posted).kind = kind
    /\ posted' = Tail(posted)

\* The stream has gone on without it.
EventDropped ==
    /\ filter # "alive"
    /\ \E kind \in {"continue", "get", "set"} : TakeEvent(kind)
    /\ UNCHANGED << object, stream, pc, api, calls, mutex, sema, waitSema, strValue, buf, faults >>

ContinueEvent ==
    /\ TakeEvent("continue") /\ filter = "alive"
    /\ inGo' = FALSE
    /\ UNCHANGED << object, filter, worker, async, pc, api, calls, mutex, sema, waitSema,
                    strValue, buf, faults >>

\* Mutant: the callback leaves the mark.
ClearWaiting_Forgotten == UNCHANGED waitSema

ClearWaiting == waitSema' = 0

GetMetadataEvent ==
    /\ TakeEvent("get") /\ filter = "alive"
    /\ ClearWaiting
    /\ ReadMetadata(Head(posted).by)
    /\ sema' = sema - 1
    /\ pc' = Wake(pc)
    /\ UseReq
    /\ UNCHANGED << object, stream, api, calls, mutex >>

SetMetadataEvent ==
    /\ TakeEvent("set") /\ filter = "alive"
    /\ UNCHANGED << object, stream, pc, api, calls, mutex, sema, waitSema, strValue, buf, faults >>

-----------------------------------------------------------------------------
(* The end of the stream.                                                     *)

\* Mutant: every end is Normal.
DestroyReason_AlwaysNormal == "Normal"

DestroyReason == IF inGo THEN "Terminate" ELSE "Normal"

\* Mutant: moeOnHttpDestroy leaves the waiting goroutine alone.
WakeWaiting_Never == UNCHANGED sema /\ At(Worker, "run")

\* moeOnHttpDestroy wakes a goroutine whose callback will not come any more.
WakeWaiting ==
    IF waitSema = 1 THEN sema' = sema - 1 /\ pc' = Wake([pc EXCEPT ![Worker] = "run"])
                    ELSE UNCHANGED sema /\ At(Worker, "run")

\* Filter::onDestroy, up to the handler's own OnDestroy.
OnDestroy ==
    /\ worker = "loop" /\ filter = "alive" /\ req # "none"
    /\ filter' = "destroyed"
    /\ reason' = DestroyReason
    /\ WakeWaiting
    /\ worker' = "onDestroy"
    /\ UseReq
    /\ UNCHANGED << req, registered, finalizer, inGo, async, api, calls, mutex, waitSema,
                    strValue, buf, posted >>

\* Mutant: the request stays in the map.
DeleteReq_Forgotten == UNCHANGED registered

DeleteReq == registered' = FALSE

\* OnDestroy has returned; a Normal end takes over from the finalizer.
OnDestroyReturns ==
    /\ worker = "onDestroy" /\ pc[Worker] = "run"
    /\ At(Worker, "off")
    /\ DeleteReq
    /\ IF reason = "Normal" THEN worker' = "finalize" /\ finalizer' = FALSE
                            ELSE worker' = "loop" /\ UNCHANGED finalizer
    /\ UNCHANGED << req, reason, filter, inGo, async, api, calls, mutex, sema, waitSema,
                    strValue, buf, posted, faults >>

FinalizeNormal ==
    /\ worker = "finalize"
    /\ worker' = "loop"
    /\ HttpFinalize
    /\ UNCHANGED << registered, finalizer, reason, filter, inGo, async, pc, api, calls, mutex,
                    sema, waitSema, strValue, buf, posted >>

\* The filter manager drops the filter: no weak pointer to it locks any more.
FilterGone ==
    /\ worker = "loop" /\ filter = "destroyed"
    /\ filter' = "gone"
    /\ UNCHANGED << object, inGo, worker, async, pc, api, calls, mutex, sema, waitSema,
                    strValue, buf, posted, faults >>

\* The Go request is garbage: nothing leads to it from the map, a handler or a goroutine.
Unreachable == ~ registered /\ worker = "loop" /\ Live = {}

RequestFinalize ==
    /\ finalizer /\ Unreachable
    /\ finalizer' = FALSE
    /\ HttpFinalize
    /\ UNCHANGED << registered, reason, stream, pc, api, calls, mutex, sema, waitSema, strValue,
                    buf, posted >>

-----------------------------------------------------------------------------
CCall(a) ==
    \/ Lock(a)
    \/ GetStringValue(a)
    \/ SetMetadata(a)
    \/ Refused(a)
    \/ CopyAndUnlock(a)

WaitingCall(g) ==
    \/ GetMetadataYields(g)
    \/ Wait(g)
    \/ WaitReturns(g)
    \/ WaitPanics(g)

\* Handler code makes a C call.
CallC(a) == GetRouteName(a) \/ GetDynamicMetadata(a) \/ SetDynamicMetadata(a)

Dispatch == EventDropped \/ ContinueEvent \/ GetMetadataEvent \/ SetMetadataEvent

Next ==
    \/ \E a \in Callers : CallC(a) \/ CCall(a)
    \/ \E g \in Goroutines : WaitingCall(g) \/ GoroutineEnds(g)
    \/ GetMetadataOnWorker
    \/ Handler \/ StartGoroutines \/ HandlerReturn
    \/ Dispatch
    \/ OnDestroy \/ OnDestroyReturns \/ FinalizeNormal \/ FilterGone
    \/ RequestFinalize

Spec == Init /\ [][Next]_vars

(* A thread goes on with a C call it is in, as far as it can; the worker comes *)
(* to what was posted, however often it calls Go before; a handler that runs   *)
(* on the worker returns. Streams need not end, garbage need not be collected, *)
(* and handlers need not call.                                                 *)
Fairness ==
    /\ \A g \in Goroutines : WF_vars(CCall(g) \/ WaitingCall(g))
    /\ WF_vars(CCall(Worker) \/ GetMetadataOnWorker)
    /\ WF_vars(HandlerReturn) /\ WF_vars(OnDestroyReturns) /\ WF_vars(FinalizeNormal)
    /\ SF_vars(Dispatch)

FairSpec == Spec /\ Fairness

-----------------------------------------------------------------------------
(* Properties.                                                                *)

\* The declared types. A negative counter makes WaitGroup.Done panic.
TypeOK ==
    /\ req \in {"none", "live", "freed"} /\ registered \in BOOLEAN /\ finalizer \in BOOLEAN
    /\ filter \in {"alive", "destroyed", "gone"} /\ inGo \in BOOLEAN /\ async \in BOOLEAN
    /\ reason \in {"none", "Normal", "Terminate"}
    /\ worker \in {"loop", "handler", "onDestroy", "finalize"}
    /\ pc \in [Callers -> {"off", "run"} \cup CallSteps]
    /\ api \in [Callers -> Apis]
    /\ calls \in Nat /\ sema \in Nat /\ waitSema \in {0, 1}
    /\ mutex \in Callers \cup {Nobody} /\ strValue \in Callers \cup {Nobody}
    /\ buf \subseteq Callers
    /\ posted \in Seq(Events)
    /\ faults \subseteq Faults

\* The C++ request is deleted once, when neither Go nor the worker will use it again:
\* "no one is using req now, we can remove it manually" (pkg/http/moe.go:215). Not so
\* after a panic of the WaitGroup, which answers for a goroutine that is still at work.
FreedWhenUnused == faults \cap {"useAfterFree", "doubleFree"} = {} \/ "waitGroupReused" \in faults

\* What a caller copies out of strValue is the value of its own call, whoever
\* else calls meanwhile: "lock the req_->strValue in the C side, which do not allow
\* concurrency" (pkg/http/filter.go:48).
ReadsOwnValue == \A a \in buf : strValue = a

\* The address of a freed request is not in the map: C++ may allocate the next
\* request there, and StoreReq would refuse it (pkg/http/moe.go:51).
FreedIsUnregistered == req = "freed" => ~ registered

TakenNotDone == {a \in Callers : api[a] = "GetDynamicMetadata" /\ pc[a] \in {"lock", "call"}}

\* Every Add of the semaphore has exactly one Done to come: from its caller before it
\* yields, and afterwards from the callback, or else from moeOnHttpDestroy.
SemaphoreIsBalanced ==
    sema = Cardinality(TakenNotDone) + (IF filter = "alive" THEN waitSema ELSE 0)

\* No caller but a is in a C call, except for an OnDestroy that leaves the metadata alone.
Alone(a) ==
    \A b \in Callers \ {a} :
        \/ pc[b] \in {"off", "run"}
        \/ b = Worker /\ worker = "onDestroy" /\ api[b] # "GetDynamicMetadata"

InCall(a) == pc[a] \in CallSteps

\* A C call that is the only one under way comes back, from a goroutine too, and whether or
\* not the stream ends meanwhile, unless another one is made before it has come back.
LoneCallReturns == \A a \in Callers : InCall(a) /\ Alone(a) ~> ~ InCall(a) \/ ~ Alone(a)

\* "should wakeup the waiting goroutine when request destroyed earlier"
\* (pkg/http/moe.go:203).
WakeOnDestroy ==
    \A g \in Goroutines :
        (filter # "alive" /\ pc[g] \in {"wait", "blocked"}) ~> pc[g] \notin {"wait", "blocked"}

-----------------------------------------------------------------------------
(* Why the semaphore balances and strValue is not overwritten: an invariant    *)
(* that every step preserves.                                                 *)

\* From the lock to the copy, a caller of a call that locks holds the mutex.
Holding(a) == \/ pc[a] \in {"wait", "blocked", "woken", "copy"}
              \/ pc[a] = "call" /\ api[a] # "SetDynamicMetadata"

\* A get on its way to the worker is the one of the goroutine that waits.
GetFits(i) == posted[i].kind = "get" =>
    waitSema = 1 /\ mutex = posted[i].by /\ pc[posted[i].by] \in {"wait", "blocked"}

GetsFit ==
    filter = "alive" =>
        /\ \A i \in 1..Len(posted) : GetFits(i)
        /\ \A i, j \in 1..Len(posted) :
             posted[i].kind = "get" /\ posted[j].kind = "get" => i = j

\* waitSema marks that the holder of the mutex waits for a callback still to come.
MarkFits ==
    filter = "alive" /\ waitSema = 1 => mutex \in Goroutines /\ pc[mutex] \in {"wait", "blocked"}

\* Between two calls into Go, the worker runs no handler code.
WorkerFits == worker \in {"loop", "finalize"} => pc[Worker] = "off"

\* The invariant of the call protocol: one caller between lock and unlock, buf is read by
\* it alone, and the mark and the callback belong to it.
CallProtocol ==
    /\ \A a \in Callers : Holding(a) => mutex = a
    /\ \A a \in buf : pc[a] \in {"wait", "blocked", "woken", "copy"}
    /\ MarkFits /\ GetsFit /\ WorkerFits

-----------------------------------------------------------------------------
(* Why a freed request is not used: an invariant of the object's life, and of  *)
(* the answer Go owes the filter.                                             *)

\* The worker works for a request that is there; who is to free it has not done so.
LifeFits ==
    /\ worker # "loop" \/ finalizer => req = "live"
    /\ worker = "handler" => filter = "alive"
    /\ worker \in {"onDestroy", "finalize"} => filter # "alive"
    /\ worker = "finalize" => reason = "Normal" /\ ~ finalizer
    /\ filter = "alive" => req # "freed" /\ reason = "none" /\ (req = "live" => registered)

Answers == {i \in 1..Len(posted) : posted[i].kind = "continue"}

\* Go is in a call as long as one of its goroutines is alive, and until the worker has
\* taken the one answer of the last of them.
AnswersFit ==
    /\ worker = "handler" => inGo
    /\ inGo /\ ~ async => worker = "handler"
    /\ Live # {} => inGo /\ async
    /\ Answers # {} => inGo /\ async /\ Live = {}
    /\ \A i, j \in Answers : i = j

\* Nobody is left to use a request that is free, or will be by a Normal end.
NobodyLeft == req = "freed" \/ reason = "Normal" => Live = {}

NotUsedFreed ==
    /\ filter = "alive" => AnswersFit
    /\ NobodyLeft
    /\ faults \cap {"useAfterFree", "doubleFree"} = {}

FreeInv == LifeFits /\ ("waitGroupReused" \in faults \/ NotUsedFreed)
=============================================================================
