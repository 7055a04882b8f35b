-------------------------- MODULE GoRequestProofs --------------------------
(* Theorems about GoRequest, for any number of goroutines and C calls.        *)
EXTENDS GoRequest, FiniteSetTheorems, TLAPS

\* The invariant that is inductive: the semaphore is what tells when Wait may return.
RequestInv == TypeOK /\ SemaphoreIsBalanced /\ ReadsOwnValue /\ CallProtocol

\* All of TypeOK but the counter, which SemaphoreIsBalanced bounds.
TypesAsDeclared ==
    /\ req \in {"none", "live", "freed"} /\ registered \in BOOLEAN /\ finalizer \in BOOLEAN
    /\ filter \in {"alive", "destroyed", "gone"} /\ inGo \in BOOLEAN /\ async \in BOOLEAN
    /\ reason \in {"none", "Normal", "Terminate"}
    /\ worker \in {"loop", "handler", "onDestroy", "finalize"}
    /\ pc \in [Callers -> {"off", "run"} \cup CallSteps]
    /\ api \in [Callers -> Apis]
    /\ calls \in Nat /\ waitSema \in {0, 1}
    /\ mutex \in Callers \cup {Nobody} /\ strValue \in Callers \cup {Nobody}
    /\ buf \subseteq Callers
    /\ posted \in Seq(Events)
    /\ faults \subseteq Faults

-----------------------------------------------------------------------------
(* The semaphore.                                                             *)

LEMMA FiniteCallers == IsFiniteSet(Callers)
BY CallersAssumption, FS_AddElement DEF Callers

\* The callers between Add and Done can be counted.
LEMMA TakenIsFinite ==
    /\ IsFiniteSet(TakenNotDone)
    /\ Cardinality(TakenNotDone) \in Nat
<1>1. TakenNotDone \in SUBSET Callers
  BY DEF TakenNotDone
<1>2. IsFiniteSet(TakenNotDone)
  BY <1>1, FiniteCallers, FS_Subset
<1> QED  BY <1>2, FS_CardinalityType

LEMMA TakenIsFinitePrime ==
    /\ IsFiniteSet(TakenNotDone')
    /\ Cardinality(TakenNotDone') \in Nat
<1>1. TakenNotDone' \in SUBSET Callers
  BY DEF TakenNotDone
<1>2. IsFiniteSet(TakenNotDone')
  BY <1>1, FiniteCallers, FS_Subset
<1> QED  BY <1>2, FS_CardinalityType

\* A counter that covers every Add is a natural number.
LEMMA CounterIsNatural ==
    ASSUME TypesAsDeclared', SemaphoreIsBalanced'
    PROVE  TypeOK'
<1>1. sema' \in Nat
  BY TakenIsFinitePrime DEF TypesAsDeclared, SemaphoreIsBalanced
<1> QED  BY <1>1 DEF TypesAsDeclared, TypeOK

\* One more Add without its Done, one fewer, or as many.
LEMMA OneMore ==
    ASSUME NEW a, a \notin TakenNotDone, TakenNotDone' = TakenNotDone \cup {a}
    PROVE  Cardinality(TakenNotDone') = Cardinality(TakenNotDone) + 1
BY TakenIsFinite, FS_AddElement

LEMMA OneFewer ==
    ASSUME NEW a, a \in TakenNotDone, TakenNotDone' = TakenNotDone \ {a}
    PROVE  /\ Cardinality(TakenNotDone') = Cardinality(TakenNotDone) - 1
           /\ Cardinality(TakenNotDone) >= 1
BY TakenIsFinite, TakenIsFinitePrime, FS_RemoveElement

-----------------------------------------------------------------------------
(* Callbacks on their way.                                                    *)

LEMMA EventTypes ==
    ASSUME RequestInv, NEW i \in 1..Len(posted)
    PROVE  posted[i] \in Events /\ posted[i].by \in Goroutines
<1>1. posted \in Seq(Events)
  BY DEF RequestInv, TypeOK
<1>2. posted[i] \in Events
  BY <1>1
<1> QED  BY <1>2 DEF Events

LEMMA AppendedLast ==
    ASSUME NEW s \in Seq(Events), NEW e \in Events
    PROVE  /\ Len(Append(s, e)) = Len(s) + 1 /\ Append(s, e)[Len(s) + 1] = e
           /\ Len(s) \in Nat
           /\ \A i \in 1..Len(s) : Append(s, e)[i] = s[i]
OBVIOUS

\* Taking the first callback, posting one that is no get, or neither: the gets on their way
\* fit as before if nobody disturbs the goroutine that waits.
LEMMA GetsStillFit ==
    ASSUME RequestInv, filter' = "alive" => filter = "alive",
           \/ posted' = posted
           \/ posted # << >> /\ posted' = Tail(posted)
           \/ \E e \in Events : e.kind # "get" /\ posted' = Append(posted, e),
           MarkFits /\ filter = "alive" /\ waitSema = 1 =>
             waitSema' = 1 /\ mutex' = mutex /\ pc'[mutex] \in {"wait", "blocked"}
    PROVE  GetsFit'
<1> SUFFICES ASSUME filter' = "alive"
             PROVE  /\ \A i \in 1..Len(posted') : GetFits(i)'
                    /\ \A i, j \in 1..Len(posted') :
                         posted'[i].kind = "get" /\ posted'[j].kind = "get" => i = j
  BY DEF GetsFit
<1>1. /\ filter = "alive" /\ posted \in Seq(Events) /\ MarkFits
      /\ \A i \in 1..Len(posted) : GetFits(i)
      /\ \A i, j \in 1..Len(posted) :
           posted[i].kind = "get" /\ posted[j].kind = "get" => i = j
  BY DEF RequestInv, CallProtocol, GetsFit, TypeOK
<1>2. \A i \in 1..Len(posted) : posted[i].kind = "get" =>
        waitSema' = 1 /\ mutex' = posted[i].by /\ pc'[posted[i].by] \in {"wait", "blocked"}
  BY <1>1 DEF GetFits
<1>3. CASE posted' = posted
  BY <1>1, <1>2, <1>3 DEF GetFits
<1>4. CASE posted # << >> /\ posted' = Tail(posted)
  <2>1. /\ Len(posted') = Len(posted) - 1 /\ Len(posted) \in Nat
        /\ \A i \in 1..Len(posted') : i + 1 \in 1..Len(posted) /\ posted'[i] = posted[i + 1]
    BY <1>1, <1>4
  <2>2. \A i \in 1..Len(posted') : GetFits(i)'
    BY <1>2, <2>1 DEF GetFits
  <2>3. ASSUME NEW i \in 1..Len(posted'), NEW j \in 1..Len(posted'),
               posted'[i].kind = "get", posted'[j].kind = "get"
        PROVE  i = j
    <3>1. i + 1 = j + 1
      BY <1>1, <2>1, <2>3
    <3> QED  BY <3>1
  <2> QED  BY <2>2, <2>3
<1>5. CASE \E e \in Events : e.kind # "get" /\ posted' = Append(posted, e)
  <2> PICK e \in Events : e.kind # "get" /\ posted' = Append(posted, e)
    BY <1>5
  <2>0. /\ Len(posted') = Len(posted) + 1 /\ posted'[Len(posted) + 1] = e
        /\ Len(posted) \in Nat
        /\ \A i \in 1..Len(posted) : posted'[i] = posted[i]
    BY <1>1, AppendedLast
  <2>1. \A i \in 1..Len(posted') : posted'[i].kind = "get" =>
          i \in 1..Len(posted) /\ posted'[i] = posted[i]
    BY <2>0
  <2> QED  BY <1>1, <1>2, <2>1 DEF GetFits
<1> QED  BY <1>3, <1>4, <1>5

-----------------------------------------------------------------------------
(* Handlers, and how the stream ends.                                         *)

\* A step that touches neither the callers' protocol nor what is posted.
LEMMA OutsideCalls ==
    ASSUME RequestInv, TypesAsDeclared', filter' = "alive" <=> filter = "alive", WorkerFits',
           UNCHANGED << pc, api, mutex, sema, waitSema, strValue, buf, posted >>
    PROVE  RequestInv'
<1>1. SemaphoreIsBalanced'
  BY DEF RequestInv, SemaphoreIsBalanced, TakenNotDone, TypeOK
<1>2. ReadsOwnValue' /\ CallProtocol'
  BY DEF RequestInv, ReadsOwnValue, CallProtocol, Holding, MarkFits, GetsFit,
     GetFits
<1> QED  BY <1>1, <1>2, CounterIsNatural DEF RequestInv

LEMMA FinalizeNormalKeeps ==
    ASSUME RequestInv, FinalizeNormal
    PROVE  RequestInv'
<1>1. TypesAsDeclared'
  BY DEF RequestInv, TypeOK, TypesAsDeclared, FinalizeNormal, HttpFinalize, Faults
<1>2. WorkerFits'
  BY DEF RequestInv, CallProtocol, WorkerFits, FinalizeNormal
<1> QED  BY <1>1, <1>2, OutsideCalls DEF FinalizeNormal

LEMMA RequestFinalizeKeeps ==
    ASSUME RequestInv, RequestFinalize
    PROVE  RequestInv'
<1>1. TypesAsDeclared'
  BY DEF RequestInv, TypeOK, TypesAsDeclared, RequestFinalize, HttpFinalize, Faults, stream
<1>2. WorkerFits'
  BY DEF RequestInv, CallProtocol, WorkerFits, RequestFinalize, stream
<1> QED  BY <1>1, <1>2, OutsideCalls DEF RequestFinalize, stream

LEMMA FilterGoneKeeps ==
    ASSUME RequestInv, FilterGone
    PROVE  RequestInv'
<1>1. TypesAsDeclared'
  BY DEF RequestInv, TypeOK, TypesAsDeclared, FilterGone, object
<1>2. WorkerFits'
  BY DEF RequestInv, CallProtocol, WorkerFits, FilterGone
<1> QED  BY <1>1, <1>2, OutsideCalls DEF FilterGone

Waiting == {"wait", "blocked"}

\* A step that lets nobody take the mutex or write strValue, and leaves the goroutine alone
\* that waits for a callback.
LEMMA ProtocolGoesOn ==
    ASSUME RequestInv, TypesAsDeclared', SemaphoreIsBalanced', WorkerFits',
           filter' = filter, strValue' = strValue,
           \A a \in Callers : Holding(a)' => Holding(a) /\ mutex' = mutex,
           \A a \in buf' : a \in buf /\ pc'[a] \in {"wait", "blocked", "woken", "copy"},
           waitSema' = 1 => waitSema = 1,
           MarkFits /\ filter = "alive" /\ waitSema = 1 =>
             waitSema' = 1 /\ mutex' = mutex /\ pc'[mutex] \in Waiting,
           \/ posted' = posted
           \/ posted # << >> /\ posted' = Tail(posted)
           \/ \E e \in Events : e.kind # "get" /\ posted' = Append(posted, e)
    PROVE  RequestInv'
<1>1. ReadsOwnValue'
  BY DEF RequestInv, ReadsOwnValue
<1>2. GetsFit'
  BY GetsStillFit DEF Waiting
<1>3. MarkFits'
  BY DEF RequestInv, CallProtocol, MarkFits, Waiting
<1>4. CallProtocol'
  BY <1>2, <1>3 DEF RequestInv, CallProtocol
<1> QED  BY <1>1, <1>4, CounterIsNatural DEF RequestInv

\* A step that moves callers outside of their C calls only.
LEMMA BetweenCalls ==
    ASSUME RequestInv, TypesAsDeclared', filter' = filter,
           \A a \in Callers : \/ pc[a] \in {"off", "run"} /\ pc'[a] \in {"off", "run"}
                              \/ pc'[a] = pc[a],
           UNCHANGED << api, mutex, sema, waitSema, strValue, buf >>,
           \/ posted' = posted
           \/ posted # << >> /\ posted' = Tail(posted)
           \/ \E e \in Events : e.kind # "get" /\ posted' = Append(posted, e),
           WorkerFits'
    PROVE  RequestInv'
<1>1. TakenNotDone' = TakenNotDone
  BY DEF TakenNotDone
<1>2. SemaphoreIsBalanced'
  BY <1>1 DEF RequestInv, SemaphoreIsBalanced
<1>3. \A a \in Callers : Holding(a)' => Holding(a)
  BY DEF Holding
<1>4. \A a \in Callers : pc[a] \in {"wait", "blocked", "woken", "copy"} => pc'[a] = pc[a]
  OBVIOUS
<1>5. \A a \in buf' : a \in buf /\ pc'[a] \in {"wait", "blocked", "woken", "copy"}
  BY <1>4 DEF RequestInv, CallProtocol, TypeOK
<1>6. MarkFits /\ filter = "alive" /\ waitSema = 1 =>
        waitSema' = 1 /\ mutex' = mutex /\ pc'[mutex] \in Waiting
  BY <1>4 DEF MarkFits, Callers, Waiting
<1> QED  BY <1>2, <1>3, <1>5, <1>6, ProtocolGoesOn

\* What the shared steps do to the types.
LEMMA UseReqType ==
    ASSUME RequestInv, UseReq
    PROVE  faults' \subseteq Faults
BY DEF RequestInv, TypeOK, UseReq, Faults

LEMMA AtType ==
    ASSUME RequestInv, NEW a \in Callers, NEW step \in {"off", "run"} \cup CallSteps, At(a, step)
    PROVE  pc' \in [Callers -> {"off", "run"} \cup CallSteps]
BY DEF RequestInv, TypeOK, At

LEMMA PostType ==
    ASSUME RequestInv, NEW e \in Events, posted' = Append(posted, e)
    PROVE  posted' \in Seq(Events)
BY DEF RequestInv, TypeOK

LEMMA TakeType ==
    ASSUME RequestInv, posted # << >>, posted' = Tail(posted)
    PROVE  posted' \in Seq(Events)
BY DEF RequestInv, TypeOK

LEMMA ApiType ==
    ASSUME RequestInv, NEW a \in Callers, NEW name \in Apis, api' = [api EXCEPT ![a] = name]
    PROVE  api' \in [Callers -> Apis]
BY DEF RequestInv, TypeOK

LEMMA WorkerIsNoGoroutine ==
    ASSUME NEW g \in Goroutines
    PROVE  g # Worker /\ g \in Callers /\ Worker \in Callers /\ Nobody \notin Callers
BY CallersAssumption DEF Callers, Worker, Nobody

-----------------------------------------------------------------------------
(* Handlers.                                                                  *)

LEMMA HandlerKeeps ==
    ASSUME RequestInv, Handler
    PROVE  RequestInv'
<1>1. TypesAsDeclared'
  BY DEF RequestInv, TypeOK, TypesAsDeclared, Handler, At, Callers
<1>2. pc[Worker] = "off" /\ pc' = [pc EXCEPT ![Worker] = "run"]
  BY DEF RequestInv, CallProtocol, WorkerFits, Handler, At
<1>3. WorkerFits'
  BY DEF WorkerFits, Handler
<1>4. \A a \in Callers : \/ pc[a] \in {"off", "run"} /\ pc'[a] \in {"off", "run"}
                         \/ pc'[a] = pc[a]
  BY <1>2 DEF RequestInv, TypeOK
<1> QED  BY <1>1, <1>3, <1>4, BetweenCalls DEF Handler

LEMMA StartGoroutinesKeeps ==
    ASSUME RequestInv, StartGoroutines
    PROVE  RequestInv'
<1>0. PICK S \in SUBSET (Goroutines \ Live) \ {{}} :
        pc' = [a \in Callers |-> IF a \in S THEN "run" ELSE pc[a]]
  BY DEF StartGoroutines
<1>1. \A a \in Callers : \/ pc[a] \in {"off", "run"} /\ pc'[a] \in {"off", "run"}
                         \/ pc'[a] = pc[a]
  BY <1>0 DEF Live
<1>2. TypesAsDeclared'
  BY <1>0 DEF RequestInv, TypeOK, TypesAsDeclared, StartGoroutines, object
<1>3. WorkerFits'
  BY DEF WorkerFits, StartGoroutines
<1> QED  BY <1>1, <1>2, <1>3, BetweenCalls DEF StartGoroutines

LEMMA HandlerReturnKeeps ==
    ASSUME RequestInv, HandlerReturn
    PROVE  RequestInv'
<1>1. \A a \in Callers : \/ pc[a] \in {"off", "run"} /\ pc'[a] \in {"off", "run"}
                         \/ pc'[a] = pc[a]
  BY DEF RequestInv, TypeOK, HandlerReturn, At
<1>2. TypesAsDeclared'
  BY DEF RequestInv, TypeOK, TypesAsDeclared, HandlerReturn, At, object
<1>3. WorkerFits'
  BY DEF RequestInv, TypeOK, Callers, WorkerFits, HandlerReturn, At
<1> QED  BY <1>1, <1>2, <1>3, BetweenCalls DEF HandlerReturn

LEMMA GoroutineEndsKeeps ==
    ASSUME RequestInv, NEW g \in Goroutines, GoroutineEnds(g)
    PROVE  RequestInv'
<1>1. \A a \in Callers : \/ pc[a] \in {"off", "run"} /\ pc'[a] \in {"off", "run"}
                         \/ pc'[a] = pc[a]
  BY DEF RequestInv, TypeOK, GoroutineEnds, At
<1>2. posted' = posted \/ \E e \in Events : e.kind # "get" /\ posted' = Append(posted, e)
  <2>1. [kind |-> "continue", by |-> g] \in Events
    BY DEF Events
  <2> QED  BY <2>1 DEF GoroutineEnds
<1>3. posted' \in Seq(Events)
  BY <1>2 DEF RequestInv, TypeOK
<1>4. TypesAsDeclared'
  <2>1. faults' \subseteq Faults
    BY UseReqType DEF RequestInv, TypeOK, GoroutineEnds
  <2>2. pc' \in [Callers -> {"off", "run"} \cup CallSteps]
    BY AtType, WorkerIsNoGoroutine DEF GoroutineEnds
  <2> QED  BY <1>3, <2>1, <2>2 DEF RequestInv, TypeOK, TypesAsDeclared, GoroutineEnds, object, stream
<1>5. WorkerFits'
  BY CallersAssumption DEF RequestInv, TypeOK, Callers, CallProtocol, WorkerFits, GoroutineEnds,
     At, stream
<1> QED  BY <1>1, <1>2, <1>4, <1>5, BetweenCalls DEF GoroutineEnds, stream

-----------------------------------------------------------------------------
(* C calls.                                                                   *)

\* Handler code starts a C call.
LEMMA BeginKeeps ==
    ASSUME RequestInv, NEW a \in Callers, NEW name \in Apis,
           NEW step \in {"lock", "call"}, Begin(a, name, step),
           step = "call" => name = "SetDynamicMetadata",
           sema' = IF name = "GetDynamicMetadata" THEN sema + 1 ELSE sema
    PROVE  RequestInv'
<1>1. pc[a] = "run" /\ pc' = [pc EXCEPT ![a] = step] /\ api' = [api EXCEPT ![a] = name]
  BY DEF Begin, At
<1>2. TypesAsDeclared'
  <2>1. api' \in [Callers -> Apis]
    BY <1>1, ApiType
  <2>2. pc' \in [Callers -> {"off", "run"} \cup CallSteps]
    BY AtType DEF Begin, CallSteps
  <2> QED  BY <2>1, <2>2 DEF RequestInv, TypeOK, TypesAsDeclared, Begin, object, stream
<1>3. pc \in [Callers -> {"off", "run"} \cup CallSteps] /\ api \in [Callers -> Apis]
      /\ sema \in Nat /\ waitSema \in {0, 1}
  BY DEF RequestInv, TypeOK
<1>4. SemaphoreIsBalanced'
  <2>1. CASE name = "GetDynamicMetadata"
    <3>1. a \notin TakenNotDone /\ TakenNotDone' = TakenNotDone \cup {a}
      BY <1>1, <1>3, <2>1 DEF TakenNotDone
    <3> QED  BY <1>3, <2>1, <3>1, OneMore, TakenIsFinite
             DEF RequestInv, SemaphoreIsBalanced, Begin, stream
  <2>2. CASE name # "GetDynamicMetadata"
    <3>1. TakenNotDone' = TakenNotDone
      BY <1>1, <1>3, <2>2 DEF TakenNotDone
    <3> QED  BY <2>2, <3>1 DEF RequestInv, SemaphoreIsBalanced, Begin, stream
  <2> QED  BY <2>1, <2>2
<1>5. WorkerFits'
  <2>1. Worker \in Callers
    BY DEF Callers
  <2> QED  BY <1>1, <1>3, <2>1 DEF RequestInv, CallProtocol, WorkerFits, Begin, stream
<1>6. \A b \in Callers : Holding(b)' => Holding(b)
  BY <1>1, <1>3 DEF Holding
<1>7. \A b \in Callers : pc[b] \in {"wait", "blocked", "woken", "copy"} => pc'[b] = pc[b]
  BY <1>1, <1>3
<1>8. \A b \in buf' : b \in buf /\ pc'[b] \in {"wait", "blocked", "woken", "copy"}
  BY <1>7 DEF RequestInv, CallProtocol, TypeOK, Begin
<1>9. MarkFits /\ filter = "alive" /\ waitSema = 1 =>
        waitSema' = 1 /\ mutex' = mutex /\ pc'[mutex] \in Waiting
  BY <1>7 DEF MarkFits, Callers, Waiting, Begin
<1> QED  BY <1>2, <1>4, <1>5, <1>6, <1>8, <1>9, ProtocolGoesOn DEF Begin, stream

LEMMA WorkerStays ==
    ASSUME RequestInv, worker' = worker, pc[Worker] = "off" => pc'[Worker] = "off"
    PROVE  WorkerFits'
BY DEF RequestInv, CallProtocol, WorkerFits

\* The types of the call protocol, and who may be where.
LEMMA InProtocol ==
    ASSUME RequestInv
    PROVE  /\ pc \in [Callers -> {"off", "run"} \cup CallSteps] /\ api \in [Callers -> Apis]
           /\ sema \in Nat /\ waitSema \in {0, 1} /\ buf \subseteq Callers
           /\ mutex \in Callers \cup {Nobody}
           /\ \A a \in Callers : Holding(a) => mutex = a
           /\ \A a \in buf : pc[a] \in {"wait", "blocked", "woken", "copy"}
           /\ \A a \in buf : mutex = a
           /\ MarkFits
BY DEF RequestInv, TypeOK, CallProtocol, Holding

\* The caller takes the mutex, which nobody has.
LEMMA LockKeeps ==
    ASSUME RequestInv, NEW a \in Callers, Lock(a)
    PROVE  RequestInv'
<1>1. pc[a] = "lock" /\ mutex = Nobody /\ mutex' = a /\ pc' = [pc EXCEPT ![a] = "call"]
      /\ UNCHANGED << api, sema, waitSema, strValue, buf, posted, worker, filter >>
  BY DEF Lock, At, stream
<1>2. Nobody \notin Callers
  BY CallersAssumption DEF Callers, Worker, Nobody
<1>3. \A b \in Callers : ~ Holding(b)
  BY <1>1, <1>2, InProtocol
<1>4. buf = {}
  BY <1>1, <1>2, InProtocol
<1>5. TypesAsDeclared'
  <2>1. pc' \in [Callers -> {"off", "run"} \cup CallSteps]
    BY AtType DEF Lock, CallSteps
  <2> QED  BY <1>1, <2>1 DEF RequestInv, TypeOK, TypesAsDeclared, Lock, object, stream
<1>6. SemaphoreIsBalanced'
  <2>1. TakenNotDone' = TakenNotDone
    BY <1>1, InProtocol DEF TakenNotDone
  <2> QED  BY <1>1, <2>1 DEF RequestInv, SemaphoreIsBalanced
<1>7. ReadsOwnValue'
  BY <1>1, <1>4 DEF ReadsOwnValue
<1>8. ~ (MarkFits /\ filter = "alive" /\ waitSema = 1)
  BY <1>1, <1>2 DEF MarkFits, Callers
<1>9. GetsFit'
  BY <1>1, <1>8, GetsStillFit
<1>10. MarkFits'
  BY <1>1, <1>8, InProtocol DEF MarkFits
<1>11. WorkerFits'
  <2>1. Worker \in Callers
    BY DEF Callers
  <2> QED  BY <1>1, <2>1, InProtocol, WorkerStays
<1>12. CallProtocol'
  BY <1>1, <1>3, <1>4, <1>9, <1>10, <1>11, InProtocol DEF CallProtocol, Holding
<1> QED  BY <1>5, <1>6, <1>7, <1>12, CounterIsNatural DEF RequestInv

\* A caller that holds the mutex is not disturbed by anybody, nor waits for the worker.
LEMMA HolderAlone ==
    ASSUME RequestInv, NEW a \in Callers, Holding(a), pc[a] \notin Waiting
    PROVE  /\ buf \subseteq {a}
           /\ ~ (MarkFits /\ filter = "alive" /\ waitSema = 1)
           /\ \A b \in Callers : pc[b] \in {"wait", "blocked", "woken", "copy"} => b = a
BY InProtocol DEF MarkFits, Waiting, Holding

\* The caller copies a value to strValue and keeps the mutex until it has read it.
LEMMA GetStringValueKeeps ==
    ASSUME RequestInv, NEW a \in Callers, GetStringValue(a)
    PROVE  RequestInv'
<1>1. pc[a] = "call" /\ api[a] = "GetRouteName" /\ pc' = [pc EXCEPT ![a] = "copy"]
      /\ strValue' = a /\ buf' = buf \cup {a}
      /\ UNCHANGED << api, mutex, sema, waitSema, posted, worker, filter >>
  BY DEF GetStringValue, Granted, SetStrValue, At, stream
<1>2. Holding(a) /\ mutex = a
  BY <1>1, InProtocol DEF Holding
<1>3. TypesAsDeclared'
  <2>1. pc' \in [Callers -> {"off", "run"} \cup CallSteps]
    BY AtType DEF GetStringValue, CallSteps
  <2>2. faults' \subseteq Faults
    BY UseReqType DEF GetStringValue, Granted
  <2> QED  BY <1>1, <2>1, <2>2 DEF RequestInv, TypeOK, TypesAsDeclared, GetStringValue, object, stream
<1>4. SemaphoreIsBalanced'
  <2>1. TakenNotDone' = TakenNotDone
    BY <1>1, InProtocol DEF TakenNotDone
  <2> QED  BY <1>1, <2>1 DEF RequestInv, SemaphoreIsBalanced
<1>5. ~ (MarkFits /\ filter = "alive" /\ waitSema = 1) /\ buf' = {a}
  BY <1>1, <1>2, HolderAlone DEF Waiting
<1>6. ReadsOwnValue'
  BY <1>1, <1>5 DEF ReadsOwnValue
<1>7. GetsFit'
  BY <1>1, <1>5, GetsStillFit
<1>8. MarkFits'
  BY <1>1, <1>5, InProtocol DEF MarkFits
<1>9. WorkerFits'
  <2>1. Worker \in Callers
    BY DEF Callers
  <2> QED  BY <1>1, <2>1, InProtocol, WorkerStays
<1>10. CallProtocol'
  BY <1>1, <1>2, <1>5, <1>7, <1>8, <1>9, InProtocol DEF CallProtocol, Holding
<1> QED  BY <1>3, <1>4, <1>6, <1>10, CounterIsNatural DEF RequestInv

\* CAPIOK: the caller goes on, whether or not its value waits for the worker.
LEMMA SetMetadataKeeps ==
    ASSUME RequestInv, NEW a \in Callers, SetMetadata(a)
    PROVE  RequestInv'
<1>1. pc[a] = "call" /\ api[a] = "SetDynamicMetadata" /\ pc' = [pc EXCEPT ![a] = "run"]
      /\ api' = [api EXCEPT ![a] = "none"]
      /\ UNCHANGED << mutex, sema, waitSema, strValue, buf, worker, filter >>
  BY DEF SetMetadata, Granted, At, stream
<1>2. posted' = posted \/ \E e \in Events : e.kind # "get" /\ posted' = Append(posted, e)
  <2>1. a # Worker => [kind |-> "set", by |-> a] \in Events
    BY DEF Events, Callers
  <2> QED  BY <2>1 DEF SetMetadata
<1>3. TypesAsDeclared'
  <2>1. pc' \in [Callers -> {"off", "run"} \cup CallSteps]
    BY AtType DEF SetMetadata
  <2>2. faults' \subseteq Faults
    BY UseReqType DEF SetMetadata, Granted
  <2>3. posted' \in Seq(Events)
    BY <1>2, PostType DEF RequestInv, TypeOK
  <2>4. api' \in [Callers -> Apis]
    BY <1>1, ApiType DEF Apis
  <2> QED  BY <1>1, <2>1, <2>2, <2>3, <2>4
           DEF RequestInv, TypeOK, TypesAsDeclared, SetMetadata, object, stream
<1>4. SemaphoreIsBalanced'
  <2>1. TakenNotDone' = TakenNotDone
    BY <1>1, InProtocol DEF TakenNotDone
  <2> QED  BY <1>1, <2>1 DEF RequestInv, SemaphoreIsBalanced
<1>5. WorkerFits'
  <2>1. Worker \in Callers
    BY DEF Callers
  <2> QED  BY <1>1, <2>1, InProtocol, WorkerStays
<1>6. \A b \in Callers : Holding(b)' => Holding(b) /\ mutex' = mutex
  BY <1>1, InProtocol DEF Holding
<1>7. \A b \in Callers : pc[b] \in {"wait", "blocked", "woken", "copy"} => pc'[b] = pc[b]
  BY <1>1, InProtocol
<1>8. \A b \in buf' : b \in buf /\ pc'[b] \in {"wait", "blocked", "woken", "copy"}
  BY <1>1, <1>7, InProtocol
<1>9. MarkFits /\ filter = "alive" /\ waitSema = 1 =>
        waitSema' = 1 /\ mutex' = mutex /\ pc'[mutex] \in Waiting
  BY <1>1, <1>7 DEF MarkFits, Callers, Waiting
<1> QED  BY <1>1, <1>2, <1>3, <1>4, <1>5, <1>6, <1>8, <1>9, ProtocolGoesOn

\* Wait() only goes through when the callback, or the end of the stream, has come.
LEMMA WaitKeeps ==
    ASSUME RequestInv, NEW g \in Goroutines, Wait(g)
    PROVE  RequestInv'
<1>1. pc[g] = "wait" /\ pc' = [pc EXCEPT ![g] = IF sema = 0 THEN "copy" ELSE "blocked"]
      /\ UNCHANGED << api, mutex, sema, waitSema, strValue, buf, posted, worker, filter >>
  BY DEF Wait, At, stream
<1>2. g \in Callers /\ g # Worker
  BY WorkerIsNoGoroutine
<1>3. TypesAsDeclared'
  <2>1. pc' \in [Callers -> {"off", "run"} \cup CallSteps]
    BY <1>2, AtType DEF Wait, CallSteps
  <2> QED  BY <1>1, <2>1 DEF RequestInv, TypeOK, TypesAsDeclared, Wait, object, stream
<1>4. SemaphoreIsBalanced'
  <2>1. TakenNotDone' = TakenNotDone
    BY <1>1, <1>2, InProtocol DEF TakenNotDone
  <2> QED  BY <1>1, <2>1 DEF RequestInv, SemaphoreIsBalanced
<1>5. filter = "alive" /\ waitSema = 1 => sema # 0
  BY TakenIsFinite DEF RequestInv, SemaphoreIsBalanced
<1>6. WorkerFits'
  BY <1>1, <1>2, InProtocol, WorkerStays
<1>7. \A b \in Callers : Holding(b)' => Holding(b) /\ mutex' = mutex
  BY <1>1, <1>2, InProtocol DEF Holding
<1>8. \A b \in buf' : b \in buf /\ pc'[b] \in {"wait", "blocked", "woken", "copy"}
  BY <1>1, <1>2, InProtocol
<1>9. MarkFits /\ filter = "alive" /\ waitSema = 1 =>
        waitSema' = 1 /\ mutex' = mutex /\ pc'[mutex] \in Waiting
  BY <1>1, <1>2, <1>5, InProtocol DEF MarkFits, Callers, Waiting
<1> QED  BY <1>1, <1>3, <1>4, <1>6, <1>7, <1>8, <1>9, ProtocolGoesOn

LEMMA WaitReturnsKeeps ==
    ASSUME RequestInv, NEW g \in Goroutines, WaitReturns(g)
    PROVE  RequestInv'
<1>1. pc[g] = "woken" /\ pc' = [pc EXCEPT ![g] = "copy"]
      /\ UNCHANGED << api, mutex, sema, waitSema, strValue, buf, posted, worker, filter >>
  BY DEF WaitReturns, At, stream
<1>2. g \in Callers /\ g # Worker
  BY WorkerIsNoGoroutine
<1>3. TypesAsDeclared'
  <2>1. pc' \in [Callers -> {"off", "run"} \cup CallSteps]
    BY <1>2, AtType DEF WaitReturns, CallSteps
  <2> QED  BY <1>1, <2>1 DEF RequestInv, TypeOK, TypesAsDeclared, WaitReturns, object, stream
<1>4. SemaphoreIsBalanced'
  <2>1. TakenNotDone' = TakenNotDone
    BY <1>1, <1>2, InProtocol DEF TakenNotDone
  <2> QED  BY <1>1, <2>1 DEF RequestInv, SemaphoreIsBalanced
<1>5. WorkerFits'
  BY <1>1, <1>2, InProtocol, WorkerStays
<1>6. \A b \in Callers : Holding(b)' => Holding(b) /\ mutex' = mutex
  BY <1>1, <1>2, InProtocol DEF Holding
<1>7. \A b \in buf' : b \in buf /\ pc'[b] \in {"wait", "blocked", "woken", "copy"}
  BY <1>1, <1>2, InProtocol
<1>8. MarkFits /\ filter = "alive" /\ waitSema = 1 =>
        waitSema' = 1 /\ mutex' = mutex /\ pc'[mutex] \in Waiting
  BY <1>1, <1>2, InProtocol DEF MarkFits, Callers, Waiting
<1> QED  BY <1>1, <1>3, <1>4, <1>5, <1>6, <1>7, <1>8, ProtocolGoesOn

\* The caller leaves the call and the mutex, by the copy or by the panic of Wait.
LEMMA LeaveCall ==
    ASSUME RequestInv, TypesAsDeclared', WorkerFits', NEW a \in Callers,
           pc[a] \in {"woken", "copy"}, NEW step \in {"off", "run"},
           pc' = [pc EXCEPT ![a] = step], api' = [api EXCEPT ![a] = "none"],
           mutex' = Unlocked(a), buf' = buf \ {a},
           UNCHANGED << sema, waitSema, strValue, filter >>,
           posted' = posted \/ \E e \in Events : e.kind # "get" /\ posted' = Append(posted, e)
    PROVE  RequestInv'
<1>1. Holding(a)
  BY DEF Holding
<1>2. SemaphoreIsBalanced'
  <2>1. TakenNotDone' = TakenNotDone
    BY InProtocol DEF TakenNotDone
  <2> QED  BY <2>1 DEF RequestInv, SemaphoreIsBalanced
<1>3. \A b \in Callers : ~ Holding(b)'
  <2>1. \A b \in Callers : Holding(b) => b = a
    BY <1>1, InProtocol
  <2> QED  BY <2>1, InProtocol DEF Holding
<1>4. buf' = {} /\ ~ (MarkFits /\ filter = "alive" /\ waitSema = 1)
  BY <1>1, HolderAlone DEF Waiting
<1> QED  BY <1>2, <1>3, <1>4, ProtocolGoesOn

LEMMA CopyAndUnlockKeeps ==
    ASSUME RequestInv, NEW a \in Callers, CopyAndUnlock(a)
    PROVE  RequestInv'
<1>1. pc[a] = "copy" /\ pc' = [pc EXCEPT ![a] = "run"]
      /\ UNCHANGED << waitSema, posted, worker, filter >>
  BY DEF CopyAndUnlock, At, stream
<1>2. TypesAsDeclared'
  <2>1. pc' \in [Callers -> {"off", "run"} \cup CallSteps]
    BY AtType DEF CopyAndUnlock
  <2>2. faults' \subseteq Faults
    BY UseReqType DEF CopyAndUnlock, RequestInv, TypeOK
  <2>3. api' \in [Callers -> Apis]
    BY ApiType DEF CopyAndUnlock, Apis
  <2> QED  BY <2>1, <2>2, <2>3
           DEF RequestInv, TypeOK, TypesAsDeclared, CopyAndUnlock, Unlocked, object, stream
<1>3. WorkerFits'
  <2>1. Worker \in Callers
    BY DEF Callers
  <2> QED  BY <1>1, <2>1, InProtocol, WorkerStays
<1> QED  BY <1>1, <1>2, <1>3, LeaveCall DEF CopyAndUnlock

LEMMA WaitPanicsKeeps ==
    ASSUME RequestInv, NEW g \in Goroutines, WaitPanics(g)
    PROVE  RequestInv'
<1>1. pc[g] = "woken" /\ pc' = [pc EXCEPT ![g] = "off"] /\ worker' = worker
      /\ api' = [api EXCEPT ![g] = "none"] /\ mutex' = Unlocked(g)
      /\ UNCHANGED << sema, waitSema, strValue, filter >>
  BY WorkerIsNoGoroutine DEF WaitPanics, Panicked, At
<1>2. g \in Callers /\ g # Worker
  BY WorkerIsNoGoroutine
<1>3. posted' = posted \/ \E e \in Events : e.kind # "get" /\ posted' = Append(posted, e)
  <2>1. [kind |-> "continue", by |-> g] \in Events
    BY DEF Events
  <2> QED  BY <2>1 DEF WaitPanics
<1>4. TypesAsDeclared'
  <2>1. pc' \in [Callers -> {"off", "run"} \cup CallSteps]
    BY <1>2, AtType DEF WaitPanics
  <2>2. faults' \subseteq Faults
    BY DEF WaitPanics, RequestInv, TypeOK, Faults
  <2>3. api' \in [Callers -> Apis]
    BY <1>1, <1>2, ApiType DEF Apis
  <2>4. posted' \in Seq(Events)
    BY <1>3, PostType DEF RequestInv, TypeOK
  <2> QED  BY <1>1, <2>1, <2>2, <2>3, <2>4
           DEF RequestInv, TypeOK, TypesAsDeclared, WaitPanics, Unlocked, object
<1>5. WorkerFits'
  BY <1>1, <1>2, InProtocol, WorkerStays
<1> QED  BY <1>1, <1>2, <1>3, <1>4, <1>5, LeaveCall DEF WaitPanics

\* Done by a caller that has not yielded wakes no goroutine that waits for a callback: the
\* counter covers both.
LEMMA DoneBeforeYield ==
    ASSUME RequestInv, NEW a \in TakenNotDone, TakenNotDone' = TakenNotDone \ {a},
           sema' = sema - 1, UNCHANGED << filter, waitSema >>
    PROVE  /\ SemaphoreIsBalanced'
           /\ filter = "alive" /\ waitSema = 1 => sema # 1
BY OneFewer, TakenIsFinite, TakenIsFinitePrime, InProtocol DEF RequestInv, SemaphoreIsBalanced

LEMMA RefusedKeeps ==
    ASSUME RequestInv, NEW a \in Callers, Refused(a)
    PROVE  RequestInv'
<1>1. pc[a] = "call" /\ api' = [api EXCEPT ![a] = "none"] /\ mutex' = Unlocked(a)
      /\ UNCHANGED << filter, waitSema, strValue, buf, posted >>
  BY DEF Refused, Panicked
<1> DEFINE gets == api[a] = "GetDynamicMetadata"
           off  == [pc EXCEPT ![a] = "off"]
<1>2. IF gets THEN sema' = sema - 1 /\ pc' = Wake(off) ELSE sema' = sema /\ pc' = off
  BY DEF Refused, At
<1>3. off[a] = "off" /\ \A b \in Callers : b # a => off[b] = pc[b]
  BY InProtocol
<1>4. pc'[a] = "off" /\ \A b \in Callers : b # a =>
        \/ pc'[b] = pc[b]
        \/ gets /\ sema = 1 /\ pc[b] = "blocked" /\ pc'[b] = "woken"
  <2>1. CASE ~ gets
    BY <1>2, <1>3, <2>1, InProtocol
  <2>2. CASE gets
    <3>1. pc' = Wake(off)
      BY <1>2, <2>2
    <3> QED  BY <1>3, <2>2, <3>1, InProtocol DEF Wake
  <2> QED  BY <2>1, <2>2
<1>5. pc' \in [Callers -> {"off", "run"} \cup CallSteps]
  <2>1. off \in [Callers -> {"off", "run"} \cup CallSteps]
    BY InProtocol
  <2>2. Wake(off) \in [Callers -> {"off", "run"} \cup CallSteps]
    BY <2>1 DEF Wake, CallSteps
  <2> QED  BY <1>2, <2>1, <2>2
<1>6. TypesAsDeclared'
  <2>1. faults' \subseteq Faults
    BY UseReqType DEF Refused
  <2>2. api' \in [Callers -> Apis]
    BY <1>1, ApiType DEF Apis
  <2>3. worker' \in {"loop", "handler", "onDestroy", "finalize"} /\ mutex' \in Callers \cup {Nobody}
    BY DEF RequestInv, TypeOK, Refused, Panicked, Unlocked
  <2> QED  BY <1>1, <1>5, <2>1, <2>2, <2>3 DEF RequestInv, TypeOK, TypesAsDeclared, Refused, object
<1>7. /\ SemaphoreIsBalanced'
      /\ gets => (filter = "alive" /\ waitSema = 1 => sema # 1)
  <2>1. CASE gets
    <3>1. a \in TakenNotDone /\ TakenNotDone' = TakenNotDone \ {a}
      BY <1>1, <1>4, <2>1, InProtocol DEF TakenNotDone
    <3> QED  BY <1>1, <1>2, <2>1, <3>1, DoneBeforeYield
  <2>2. CASE ~ gets
    <3>1. TakenNotDone' = TakenNotDone
      BY <1>1, <1>4, <2>2, InProtocol DEF TakenNotDone
    <3> QED  BY <1>1, <1>2, <2>2, <3>1 DEF RequestInv, SemaphoreIsBalanced
  <2> QED  BY <2>1, <2>2
<1>8. WorkerFits'
  <2>1. Worker \in Callers
    BY DEF Callers
  <2>2. CASE a = Worker
    BY <1>4, <2>2 DEF WorkerFits
  <2>3. CASE a # Worker
    <3>1. worker' = worker
      BY <2>3 DEF Refused, Panicked
    <3> QED  BY <1>4, <2>1, <2>3, <3>1, WorkerStays
  <2> QED  BY <2>2, <2>3
<1>9. \A b \in Callers : Holding(b)' => Holding(b) /\ mutex' = mutex
  <2> SUFFICES ASSUME NEW b \in Callers, Holding(b)'
               PROVE  Holding(b) /\ mutex' = mutex
    OBVIOUS
  <2>1. b # a
    BY <1>4 DEF Holding
  <2>2. Holding(b)
    BY <1>1, <1>4, <2>1, InProtocol DEF Holding
  <2>3. mutex # a
    BY <2>1, <2>2, InProtocol
  <2> QED  BY <1>1, <2>2, <2>3 DEF Unlocked
<1>10. \A b \in buf' : b \in buf /\ pc'[b] \in {"wait", "blocked", "woken", "copy"}
  BY <1>1, <1>4, InProtocol
<1>11. MarkFits /\ filter = "alive" /\ waitSema = 1 =>
         waitSema' = 1 /\ mutex' = mutex /\ pc'[mutex] \in Waiting
  <2> SUFFICES ASSUME MarkFits, filter = "alive", waitSema = 1
               PROVE  waitSema' = 1 /\ mutex' = mutex /\ pc'[mutex] \in Waiting
    OBVIOUS
  <2>1. mutex \in Callers /\ pc[mutex] \in Waiting /\ mutex # a
    BY <1>1 DEF MarkFits, Callers, Waiting
  <2>2. pc'[mutex] = pc[mutex]
    BY <1>4, <1>7, <2>1
  <2> QED  BY <1>1, <2>1, <2>2 DEF Unlocked
<1> QED  BY <1>1, <1>6, <1>7, <1>8, <1>9, <1>10, <1>11, ProtocolGoesOn

LEMMA GetMetadataOnWorkerKeeps ==
    ASSUME RequestInv, GetMetadataOnWorker
    PROVE  RequestInv'
<1>0. Worker \in Callers
  BY DEF Callers
<1>1. pc[Worker] = "call" /\ api[Worker] = "GetDynamicMetadata"
      /\ UNCHANGED << api, mutex, waitSema, posted, worker, filter >>
      /\ sema' = sema - 1 /\ pc' = Wake([pc EXCEPT ![Worker] = "copy"])
      /\ ((strValue' = Worker /\ buf' = buf \cup {Worker}) \/ UNCHANGED << strValue, buf >>)
  BY DEF GetMetadataOnWorker, Granted, ReadMetadata, SetStrValue, stream
<1>2. Holding(Worker) /\ mutex = Worker
  BY <1>0, <1>1, InProtocol DEF Holding
<1>3. /\ buf \subseteq {Worker} /\ ~ (MarkFits /\ filter = "alive" /\ waitSema = 1)
      /\ \A b \in Callers : pc[b] \notin {"wait", "blocked", "woken", "copy"}
  BY <1>0, <1>1, <1>2, HolderAlone DEF Waiting
<1>4. pc' = [pc EXCEPT ![Worker] = "copy"]
  BY <1>1, <1>3, InProtocol DEF Wake
<1>5. TypesAsDeclared'
  <2>1. pc' \in [Callers -> {"off", "run"} \cup CallSteps]
    BY <1>0, <1>4, AtType DEF At, CallSteps
  <2>2. faults' \subseteq Faults
    BY UseReqType DEF GetMetadataOnWorker, Granted
  <2>3. strValue' \in Callers \cup {Nobody} /\ buf' \subseteq Callers
    BY <1>0, <1>1 DEF RequestInv, TypeOK
  <2>4. UNCHANGED << req, registered, finalizer, reason, filter, inGo, worker, async, api, calls,
                    mutex, waitSema, posted >>
    BY DEF GetMetadataOnWorker, object, stream
  <2> QED  BY <2>1, <2>2, <2>3, <2>4 DEF RequestInv, TypeOK, TypesAsDeclared
<1>6. SemaphoreIsBalanced'
  <2>1. Worker \in TakenNotDone /\ TakenNotDone' = TakenNotDone \ {Worker}
    BY <1>0, <1>1, <1>4, InProtocol DEF TakenNotDone
  <2> QED  BY <1>1, <2>1, DoneBeforeYield
<1>7. ReadsOwnValue'
  BY <1>1, <1>3 DEF RequestInv, ReadsOwnValue
<1>8. GetsFit'
  BY <1>1, <1>3, GetsStillFit
<1>9. MarkFits'
  BY <1>1, <1>3, InProtocol DEF MarkFits
<1>10. WorkerFits'
  BY <1>0, <1>1, WorkerStays
<1>11. \A b \in Callers : Holding(b)' => mutex' = b
  <2>1. \A b \in Callers : b # Worker => ~ Holding(b) /\ pc'[b] = pc[b]
    BY <1>2, <1>4, InProtocol
  <2> QED  BY <1>1, <1>2, <2>1 DEF Holding
<1>12. \A b \in buf' : pc'[b] \in {"wait", "blocked", "woken", "copy"}
  BY <1>0, <1>1, <1>3, <1>4, InProtocol
<1>13. CallProtocol'
  BY <1>8, <1>9, <1>10, <1>11, <1>12 DEF CallProtocol
<1> QED  BY <1>5, <1>6, <1>7, <1>13, CounterIsNatural DEF RequestInv

\* The get goes to the worker, and its Done with it.
LEMMA GetMetadataYieldsKeeps ==
    ASSUME RequestInv, NEW g \in Goroutines, GetMetadataYields(g)
    PROVE  RequestInv'
<1>0. g \in Callers /\ g # Worker
  BY WorkerIsNoGoroutine
<1> DEFINE e == [kind |-> "get", by |-> g]
<1>1. pc[g] = "call" /\ api[g] = "GetDynamicMetadata" /\ filter = "alive"
      /\ pc' = [pc EXCEPT ![g] = "wait"] /\ waitSema' = 1 /\ posted' = Append(posted, e)
      /\ UNCHANGED << api, mutex, sema, strValue, buf, worker, filter >>
  BY DEF GetMetadataYields, Granted, MarkWaiting, At, stream
<1>2. Holding(g) /\ mutex = g
  BY <1>0, <1>1, InProtocol DEF Holding
<1>3. buf = {} /\ waitSema = 0
  BY <1>0, <1>1, <1>2, HolderAlone, InProtocol DEF Waiting
<1>4. e \in Events /\ posted \in Seq(Events)
  BY DEF Events, RequestInv, TypeOK
<1>5. TypesAsDeclared'
  <2>1. pc' \in [Callers -> {"off", "run"} \cup CallSteps]
    BY <1>0, AtType DEF GetMetadataYields, CallSteps
  <2>2. faults' \subseteq Faults
    BY UseReqType DEF GetMetadataYields, Granted
  <2>3. posted' \in Seq(Events)
    BY <1>1, <1>4, PostType
  <2>4. /\ waitSema' = 1
        /\ UNCHANGED << req, registered, finalizer, reason, filter, inGo, worker, async, api,
                        calls, mutex, strValue, buf >>
    BY DEF GetMetadataYields, MarkWaiting, object, stream
  <2> QED  BY <2>1, <2>2, <2>3, <2>4 DEF RequestInv, TypeOK, TypesAsDeclared
<1>6. SemaphoreIsBalanced'
  <2>1. g \in TakenNotDone /\ TakenNotDone' = TakenNotDone \ {g}
    BY <1>0, <1>1, InProtocol DEF TakenNotDone
  <2>2. Cardinality(TakenNotDone') = Cardinality(TakenNotDone) - 1
    BY <2>1, OneFewer
  <2> QED  BY <1>1, <1>3, <2>2, TakenIsFinite DEF RequestInv, SemaphoreIsBalanced
<1>7. ReadsOwnValue'
  BY <1>1, <1>3 DEF ReadsOwnValue
<1>8. GetsFit'
  <2>1. /\ Len(posted') = Len(posted) + 1 /\ posted'[Len(posted) + 1] = e
        /\ Len(posted) \in Nat /\ \A i \in 1..Len(posted) : posted'[i] = posted[i]
    BY <1>1, <1>4, AppendedLast
  <2>2. \A i \in 1..Len(posted) : posted[i].kind # "get"
    BY <1>1, <1>3 DEF RequestInv, CallProtocol, GetsFit, GetFits
  <2>3. \A i \in 1..Len(posted') : posted'[i].kind = "get" =>
          i = Len(posted) + 1 /\ posted'[i] = e
    BY <2>1, <2>2
  <2>4. \A i \in 1..Len(posted') : GetFits(i)'
    BY <1>0, <1>1, <1>2, <2>3, InProtocol DEF GetFits
  <2> QED  BY <2>3, <2>4 DEF GetsFit
<1>9. MarkFits'
  BY <1>0, <1>1, <1>2, InProtocol DEF MarkFits
<1>10. WorkerFits'
  <2>1. Worker \in Callers
    BY DEF Callers
  <2> QED  BY <1>0, <1>1, <2>1, InProtocol, WorkerStays
<1>11. CallProtocol'
  BY <1>0, <1>1, <1>2, <1>3, <1>8, <1>9, <1>10, InProtocol DEF CallProtocol, Holding
<1> QED  BY <1>5, <1>6, <1>7, <1>11, CounterIsNatural DEF RequestInv

-----------------------------------------------------------------------------
(* Callbacks the worker runs, and the end of the stream.                      *)

\* Released callers are still between lock and unlock.
LEMMA WakeMoves ==
    ASSUME NEW at \in [Callers -> {"off", "run"} \cup CallSteps]
    PROVE  /\ Wake(at) \in [Callers -> {"off", "run"} \cup CallSteps]
           /\ \A a \in Callers : \/ Wake(at)[a] = at[a]
                                 \/ sema = 1 /\ at[a] = "blocked" /\ Wake(at)[a] = "woken"
BY DEF Wake, CallSteps

LEMMA EventDroppedKeeps ==
    ASSUME RequestInv, EventDropped
    PROVE  RequestInv'
<1>1. posted # << >> /\ posted' = Tail(posted) /\ worker' = worker
      /\ UNCHANGED << filter, pc, api, mutex, sema, waitSema, strValue, buf >>
  BY DEF EventDropped, TakeEvent, stream
<1>2. posted' \in Seq(Events)
  BY <1>1, TakeType
<1>3. TypesAsDeclared'
  BY <1>1, <1>2 DEF RequestInv, TypeOK, TypesAsDeclared, EventDropped, object, stream
<1>4. WorkerFits'
  BY <1>1, WorkerStays
<1> QED  BY <1>1, <1>3, <1>4, BetweenCalls

LEMMA ContinueEventKeeps ==
    ASSUME RequestInv, ContinueEvent
    PROVE  RequestInv'
<1>1. posted # << >> /\ posted' = Tail(posted) /\ worker' = worker
      /\ UNCHANGED << filter, pc, api, mutex, sema, waitSema, strValue, buf >>
  BY DEF ContinueEvent, TakeEvent
<1>2. posted' \in Seq(Events)
  BY <1>1, TakeType
<1>3. TypesAsDeclared'
  BY <1>1, <1>2 DEF RequestInv, TypeOK, TypesAsDeclared, ContinueEvent, object
<1>4. WorkerFits'
  BY <1>1, WorkerStays
<1> QED  BY <1>1, <1>3, <1>4, BetweenCalls

LEMMA SetMetadataEventKeeps ==
    ASSUME RequestInv, SetMetadataEvent
    PROVE  RequestInv'
<1>1. posted # << >> /\ posted' = Tail(posted) /\ worker' = worker
      /\ UNCHANGED << filter, pc, api, mutex, sema, waitSema, strValue, buf >>
  BY DEF SetMetadataEvent, TakeEvent, stream
<1>2. posted' \in Seq(Events)
  BY <1>1, TakeType
<1>3. TypesAsDeclared'
  BY <1>1, <1>2 DEF RequestInv, TypeOK, TypesAsDeclared, SetMetadataEvent, object, stream
<1>4. WorkerFits'
  BY <1>1, WorkerStays
<1> QED  BY <1>1, <1>3, <1>4, BetweenCalls

\* The worker serves the goroutine that waits, which holds the mutex.
LEMMA GetMetadataEventKeeps ==
    ASSUME RequestInv, GetMetadataEvent
    PROVE  RequestInv'
<1> DEFINE g == Head(posted).by
<1>1. posted # << >> /\ Head(posted).kind = "get" /\ posted' = Tail(posted)
      /\ filter = "alive" /\ waitSema' = 0 /\ sema' = sema - 1 /\ pc' = Wake(pc)
      /\ UNCHANGED << api, mutex, worker, filter >>
      /\ ((strValue' = g /\ buf' = buf \cup {g}) \/ UNCHANGED << strValue, buf >>)
  BY DEF GetMetadataEvent, TakeEvent, ClearWaiting, ReadMetadata, SetStrValue, stream
<1>2. posted \in Seq(Events) /\ 1 \in 1..Len(posted) /\ posted[1] = Head(posted)
  BY <1>1 DEF RequestInv, TypeOK
<1>3. g \in Goroutines /\ g \in Callers
  BY <1>2, EventTypes DEF Callers
<1>4. waitSema = 1 /\ mutex = g /\ pc[g] \in {"wait", "blocked"}
  BY <1>1, <1>2 DEF RequestInv, CallProtocol, GetsFit, GetFits
<1>5. buf \subseteq {g}
  BY <1>4, InProtocol
<1>6. pc' \in [Callers -> {"off", "run"} \cup CallSteps]
      /\ \A a \in Callers : \/ pc'[a] = pc[a]
                            \/ pc[a] = "blocked" /\ pc'[a] = "woken"
  BY <1>1, InProtocol, WakeMoves
<1>7. TypesAsDeclared'
  <2>1. faults' \subseteq Faults
    BY UseReqType DEF GetMetadataEvent
  <2>2. strValue' \in Callers \cup {Nobody} /\ buf' \subseteq Callers
    BY <1>1, <1>3 DEF RequestInv, TypeOK
  <2>3. posted' \in Seq(Events)
    BY <1>1, TakeType
  <2>4. /\ waitSema' = 0
        /\ UNCHANGED << req, registered, finalizer, reason, filter, inGo, worker, async, api,
                        calls, mutex >>
    BY DEF GetMetadataEvent, ClearWaiting, object, stream
  <2> QED  BY <1>6, <2>1, <2>2, <2>3, <2>4 DEF RequestInv, TypeOK, TypesAsDeclared
<1>8. SemaphoreIsBalanced'
  <2>1. TakenNotDone' = TakenNotDone
    BY <1>1, <1>6 DEF TakenNotDone
  <2> QED  BY <1>1, <1>4, <2>1, TakenIsFinite DEF RequestInv, SemaphoreIsBalanced
<1>9. ReadsOwnValue'
  BY <1>1, <1>5 DEF RequestInv, ReadsOwnValue
<1>10. GetsFit'
  <2>1. /\ Len(posted') = Len(posted) - 1 /\ Len(posted) \in Nat
        /\ \A i \in 1..Len(posted') : i + 1 \in 1..Len(posted) /\ posted'[i] = posted[i + 1]
    BY <1>1, <1>2
  <2>2. ASSUME NEW i \in 1..Len(posted'), posted'[i].kind = "get"
        PROVE  FALSE
    <3>1. i + 1 \in 1..Len(posted) /\ posted[i + 1].kind = "get"
      BY <2>1, <2>2
    <3>2. i + 1 = 1
      BY <1>1, <1>2, <3>1 DEF RequestInv, CallProtocol, GetsFit
    <3> QED  BY <2>1, <3>2
  <2> QED  BY <2>2 DEF GetsFit, GetFits
<1>11. MarkFits'
  BY <1>1 DEF MarkFits
<1>12. WorkerFits'
  <2>1. Worker \in Callers
    BY DEF Callers
  <2> QED  BY <1>1, <1>6, <2>1, WorkerStays
<1>13. \A a \in Callers : Holding(a)' => mutex' = a
  <2>1. \A a \in Callers : Holding(a)' => Holding(a)
    BY <1>1, <1>6 DEF Holding
  <2> QED  BY <1>1, <2>1, InProtocol
<1>14. \A a \in buf' : pc'[a] \in {"wait", "blocked", "woken", "copy"}
  BY <1>1, <1>3, <1>4, <1>5, <1>6
<1>15. CallProtocol'
  BY <1>10, <1>11, <1>12, <1>13, <1>14 DEF CallProtocol
<1> QED  BY <1>7, <1>8, <1>9, <1>15, CounterIsNatural DEF RequestInv

\* The end of the stream does what a callback still to come would have done.
LEMMA OnDestroyKeeps ==
    ASSUME RequestInv, OnDestroy
    PROVE  RequestInv'
<1> DEFINE run == [pc EXCEPT ![Worker] = "run"]
<1>0. Worker \in Callers
  BY DEF Callers
<1>1. filter = "alive" /\ filter' = "destroyed" /\ worker' = "onDestroy" /\ pc[Worker] = "off"
      /\ UNCHANGED << api, mutex, waitSema, strValue, buf, posted >>
  BY DEF OnDestroy, RequestInv, CallProtocol, WorkerFits
<1>2. \/ waitSema = 1 /\ sema' = sema - 1 /\ pc' = Wake(run)
      \/ waitSema # 1 /\ sema' = sema /\ pc' = run
  BY DEF OnDestroy, WakeWaiting, At
<1>3. run \in [Callers -> {"off", "run"} \cup CallSteps]
  BY InProtocol
<1>4. pc' \in [Callers -> {"off", "run"} \cup CallSteps]
      /\ \A a \in Callers : \/ pc'[a] = run[a]
                            \/ run[a] = "blocked" /\ pc'[a] = "woken"
  <2>1. CASE pc' = run
    BY <1>3, <2>1
  <2>2. CASE pc' = Wake(run)
    <3> HIDE DEF run
    <3> QED  BY <1>3, <2>2, WakeMoves
  <2> QED  BY <1>2, <2>1, <2>2
<1>5. pc'[Worker] = "run"
      /\ \A a \in Callers : a # Worker =>
           (\/ pc'[a] = pc[a]
            \/ pc[a] = "blocked" /\ pc'[a] = "woken")
  BY <1>0, <1>4, InProtocol
<1>6. TypesAsDeclared'
  <2>1. faults' \subseteq Faults
    BY UseReqType DEF OnDestroy
  <2>2. reason' \in {"none", "Normal", "Terminate"}
    BY DEF OnDestroy, DestroyReason
  <2> QED  BY <1>1, <1>4, <2>1, <2>2 DEF RequestInv, TypeOK, TypesAsDeclared, OnDestroy
<1>7. SemaphoreIsBalanced'
  <2>1. TakenNotDone' = TakenNotDone
    BY <1>1, <1>5 DEF TakenNotDone
  <2> QED  BY <1>1, <1>2, <2>1, TakenIsFinite, InProtocol DEF RequestInv, SemaphoreIsBalanced
<1>8. ReadsOwnValue'
  BY <1>1 DEF RequestInv, ReadsOwnValue
<1>9. \A a \in Callers : Holding(a)' => mutex' = a
  <2>1. \A a \in Callers : Holding(a)' => Holding(a)
    BY <1>1, <1>5 DEF Holding
  <2> QED  BY <1>1, <2>1, InProtocol
<1>10. \A a \in buf' : pc'[a] \in {"wait", "blocked", "woken", "copy"}
  BY <1>1, <1>5, InProtocol
<1>11. CallProtocol'
  BY <1>1, <1>9, <1>10 DEF CallProtocol, MarkFits, GetsFit, WorkerFits
<1> QED  BY <1>6, <1>7, <1>8, <1>11, CounterIsNatural DEF RequestInv

LEMMA OnDestroyReturnsKeeps ==
    ASSUME RequestInv, OnDestroyReturns
    PROVE  RequestInv'
<1>1. \A a \in Callers : \/ pc[a] \in {"off", "run"} /\ pc'[a] \in {"off", "run"}
                         \/ pc'[a] = pc[a]
  BY DEF RequestInv, TypeOK, OnDestroyReturns, At
<1>2. TypesAsDeclared'
  BY DEF RequestInv, TypeOK, TypesAsDeclared, OnDestroyReturns, DeleteReq, At
<1>3. WorkerFits'
  BY DEF RequestInv, TypeOK, Callers, WorkerFits, OnDestroyReturns, At
<1> QED  BY <1>1, <1>2, <1>3, BetweenCalls DEF OnDestroyReturns

-----------------------------------------------------------------------------
(* The theorems.                                                              *)

LEMMA InitRequest == Init => RequestInv
<1> SUFFICES ASSUME Init PROVE RequestInv
  OBVIOUS
<1>1. TakenNotDone = {}
  BY DEF Init, TakenNotDone
<1>2. sema = 0 /\ waitSema = 0 /\ SemaphoreIsBalanced
  BY <1>1, FS_EmptySet DEF Init, SemaphoreIsBalanced
<1>3. TypeOK
  <2>1. << >> \in Seq(Events)
    OBVIOUS
  <2>2. pc \in [Callers -> {"off", "run"} \cup CallSteps] /\ api \in [Callers -> Apis]
    BY DEF Init, Apis
  <2> QED  BY <2>1, <2>2 DEF Init, TypeOK
<1>4. ReadsOwnValue
  BY DEF Init, ReadsOwnValue
<1>5. CallProtocol
  BY DEF Init, CallProtocol, Holding, MarkFits, GetsFit, GetFits, WorkerFits, Callers
<1> QED  BY <1>2, <1>3, <1>4, <1>5 DEF RequestInv

LEMMA CallKeeps ==
    ASSUME RequestInv, NEW a \in Callers, CallC(a) \/ CCall(a)
    PROVE  RequestInv'
<1>1. CASE GetRouteName(a)
  BY <1>1, BeginKeeps DEF GetRouteName, Apis
<1>2. CASE GetDynamicMetadata(a)
  BY <1>2, BeginKeeps DEF GetDynamicMetadata, Apis
<1>3. CASE SetDynamicMetadata(a)
  BY <1>3, BeginKeeps DEF SetDynamicMetadata, Apis
<1>4. CASE CCall(a)
  BY <1>4, LockKeeps, GetStringValueKeeps, SetMetadataKeeps, RefusedKeeps, CopyAndUnlockKeeps
     DEF CCall
<1> QED  BY <1>1, <1>2, <1>3, <1>4 DEF CallC

LEMMA GoroutineKeeps ==
    ASSUME RequestInv, NEW g \in Goroutines, WaitingCall(g) \/ GoroutineEnds(g)
    PROVE  RequestInv'
BY GetMetadataYieldsKeeps, WaitKeeps, WaitReturnsKeeps, WaitPanicsKeeps, GoroutineEndsKeeps
   DEF WaitingCall

LEMMA NextRequest == RequestInv /\ [Next]_vars => RequestInv'
<1> SUFFICES ASSUME RequestInv, [Next]_vars PROVE RequestInv'
  OBVIOUS
<1>1. CASE UNCHANGED vars
  <2>1. TypesAsDeclared'
    BY <1>1 DEF RequestInv, TypeOK, TypesAsDeclared, vars
  <2>2. WorkerFits'
    BY <1>1, WorkerStays DEF vars
  <2> QED  BY <1>1, <2>1, <2>2, OutsideCalls DEF vars
<1>2. CASE Next
  <2>1. CASE Dispatch
    BY <2>1, EventDroppedKeeps, ContinueEventKeeps, GetMetadataEventKeeps, SetMetadataEventKeeps
       DEF Dispatch
  <2> QED  BY <1>2, <2>1, CallKeeps, GoroutineKeeps, GetMetadataOnWorkerKeeps, HandlerKeeps,
              StartGoroutinesKeeps, HandlerReturnKeeps, OnDestroyKeeps, OnDestroyReturnsKeeps,
              FinalizeNormalKeeps, FilterGoneKeeps, RequestFinalizeKeeps DEF Next
<1> QED  BY <1>1, <1>2

\* The inductive invariant: types, the balance of the semaphore, the owner of strValue and
\* the call protocol (pkg/http/capi.go:230-255) hold together, each because of the others.
THEOREM RequestInvariant == Spec => []RequestInv
BY InitRequest, NextRequest, PTL DEF Spec

\* However many goroutines call at once, one is between lock and unlock
\* (pkg/http/capi.go:235), and the mark and the callback of a wait are its own.
THEOREM OneCallerAtATime == Spec => []CallProtocol
BY RequestInvariant, PTL DEF RequestInv

\* Types, with the WaitGroup counter never negative.
THEOREM RequestTypes == Spec => []TypeOK
BY RequestInvariant, PTL DEF RequestInv

\* However many goroutines call at once, each Add of the semaphore has one Done to come
\* (pkg/http/capi.go:232, moe.go:204, moe.go:226).
THEOREM SemaphoreBalances == Spec => []SemaphoreIsBalanced
BY RequestInvariant, PTL DEF RequestInv

\* However many goroutines call at once, each reads the value of its own call out of the
\* one strValue they share (pkg/http/filter.go:48).
THEOREM EachReadsItsOwn == Spec => []ReadsOwnValue
BY RequestInvariant, PTL DEF RequestInv

-----------------------------------------------------------------------------
(* The map of requests.                                                       *)

\* The request is out of the map before the worker, or the finalizer, deletes it in C++.
OutOfMapFirst == req = "freed" \/ worker = "finalize" => ~ registered

LEMMA CallLeavesMap ==
    ASSUME OutOfMapFirst, NEW a \in Callers, CallC(a) \/ CCall(a)
    PROVE  OutOfMapFirst'
<1>1. UNCHANGED << req, registered >>
  BY DEF CallC, CCall, GetRouteName, GetDynamicMetadata, SetDynamicMetadata, Begin, Lock,
         GetStringValue, SetMetadata, Refused, CopyAndUnlock, object
<1>2. worker' = worker \/ worker' = "loop"
  BY DEF CallC, CCall, GetRouteName, GetDynamicMetadata, SetDynamicMetadata, Begin, Lock,
         GetStringValue, SetMetadata, Refused, Panicked, CopyAndUnlock, stream
<1> QED  BY <1>1, <1>2 DEF OutOfMapFirst

LEMMA GoroutineLeavesMap ==
    ASSUME OutOfMapFirst, NEW g \in Goroutines, WaitingCall(g) \/ GoroutineEnds(g)
    PROVE  OutOfMapFirst'
BY WorkerIsNoGoroutine
   DEF WaitingCall, GetMetadataYields, Wait, WaitReturns, WaitPanics, Panicked, GoroutineEnds,
       OutOfMapFirst, object, stream

LEMMA NextLeavesMap == OutOfMapFirst /\ [Next]_vars => OutOfMapFirst'
<1> SUFFICES ASSUME OutOfMapFirst, [Next]_vars PROVE OutOfMapFirst'
  OBVIOUS
<1>1. CASE UNCHANGED vars
  BY <1>1 DEF vars, OutOfMapFirst
<1>2. CASE GetMetadataOnWorker \/ Dispatch
  BY <1>2 DEF GetMetadataOnWorker, Dispatch, EventDropped, ContinueEvent, GetMetadataEvent,
              SetMetadataEvent, TakeEvent, OutOfMapFirst, object, stream
<1>3. CASE Handler \/ StartGoroutines \/ HandlerReturn
  BY <1>3 DEF Handler, StartGoroutines, HandlerReturn, OutOfMapFirst, object
<1>4. CASE OnDestroy \/ OnDestroyReturns \/ FilterGone
  BY <1>4 DEF OnDestroy, OnDestroyReturns, DeleteReq, FilterGone, OutOfMapFirst, object
<1>5. CASE FinalizeNormal \/ RequestFinalize
  BY <1>5 DEF FinalizeNormal, RequestFinalize, HttpFinalize, Unreachable, OutOfMapFirst, stream
<1> QED  BY <1>1, <1>2, <1>3, <1>4, <1>5, CallLeavesMap, GoroutineLeavesMap DEF Next

\* A freed request has left the map: its address may come back as another stream's key
\* (pkg/http/moe.go:51, moe.go:213).
THEOREM FreedRequestIsUnregistered == Spec => []FreedIsUnregistered
<1>1. Init => OutOfMapFirst
  BY DEF Init, OutOfMapFirst
<1>2. OutOfMapFirst => FreedIsUnregistered
  BY DEF OutOfMapFirst, FreedIsUnregistered
<1> QED  BY <1>1, <1>2, NextLeavesMap, PTL DEF Spec

-----------------------------------------------------------------------------
(* Freed once, and unused.                                                    *)

\* The worker and the finalizer in turn have the request, and it is there till then.
LEMMA CallLivesOn ==
    ASSUME RequestInv, LifeFits, NEW a \in Callers,
           \/ CallC(a) \/ CCall(a)
           \/ a \in Goroutines /\ (WaitingCall(a) \/ GoroutineEnds(a))
    PROVE  LifeFits'
<1>1. UNCHANGED << req, registered, finalizer, reason, filter >>
  BY DEF CallC, CCall, GetRouteName, GetDynamicMetadata, SetDynamicMetadata, Begin, Lock,
         GetStringValue, SetMetadata, Refused, CopyAndUnlock, WaitingCall, GetMetadataYields, Wait,
         WaitReturns, WaitPanics, GoroutineEnds, object, stream
<1>2. worker' = worker \/ worker' = "loop"
  BY DEF CallC, CCall, GetRouteName, GetDynamicMetadata, SetDynamicMetadata, Begin, Lock,
         GetStringValue, SetMetadata, Refused, CopyAndUnlock, WaitingCall, GetMetadataYields, Wait,
         WaitReturns, WaitPanics, GoroutineEnds, Panicked, stream
<1> QED  BY <1>1, <1>2 DEF LifeFits

LEMMA NextLivesOn ==
    ASSUME RequestInv, LifeFits, [Next]_vars
    PROVE  LifeFits'
<1>1. req \in {"none", "live", "freed"} /\ filter \in {"alive", "destroyed", "gone"}
  BY DEF RequestInv, TypeOK
<1>2. CASE UNCHANGED vars
  BY <1>2 DEF vars, LifeFits
<1>3. CASE GetMetadataOnWorker \/ Dispatch
  BY <1>3 DEF GetMetadataOnWorker, Dispatch, EventDropped, ContinueEvent, GetMetadataEvent,
              SetMetadataEvent, TakeEvent, LifeFits, object, stream
<1>4. CASE Handler
  BY <1>1, <1>4 DEF Handler, LifeFits
<1>5. CASE StartGoroutines \/ HandlerReturn
  BY <1>5 DEF StartGoroutines, HandlerReturn, LifeFits, object
<1>6. CASE OnDestroy
  BY <1>1, <1>6 DEF OnDestroy, LifeFits
<1>7. CASE OnDestroyReturns
  <2>1. filter # "alive"
    BY <1>7 DEF OnDestroyReturns, LifeFits
  <2> QED  BY <1>7, <2>1 DEF OnDestroyReturns, LifeFits
<1>8. CASE FilterGone
  BY <1>8 DEF FilterGone, LifeFits, object
<1>9. CASE FinalizeNormal \/ RequestFinalize
  BY <1>9 DEF FinalizeNormal, RequestFinalize, HttpFinalize, Unreachable, LifeFits, stream
<1> QED  BY <1>2, <1>3, <1>4, <1>5, <1>6, <1>7, <1>8, <1>9, CallLivesOn DEF Next, Callers

\* What went wrong stays noted.
LEMMA FaultsStay ==
    ASSUME [Next]_vars
    PROVE  faults \subseteq faults'
<1>1. CASE UNCHANGED vars
  BY <1>1 DEF vars
<1>2. ASSUME NEW a \in Callers, CallC(a) \/ CCall(a)
      PROVE  faults \subseteq faults'
  BY <1>2 DEF CallC, CCall, GetRouteName, GetDynamicMetadata, SetDynamicMetadata, Begin, Lock,
              GetStringValue, SetMetadata, Refused, CopyAndUnlock, Granted, UseReq
<1>3. ASSUME NEW g \in Goroutines, WaitingCall(g) \/ GoroutineEnds(g)
      PROVE  faults \subseteq faults'
  BY <1>3 DEF WaitingCall, GetMetadataYields, Wait, WaitReturns, WaitPanics, GoroutineEnds,
              Granted, UseReq
<1>4. CASE GetMetadataOnWorker \/ Dispatch
  BY <1>4 DEF GetMetadataOnWorker, Dispatch, EventDropped, ContinueEvent, GetMetadataEvent,
              SetMetadataEvent, Granted, UseReq
<1>5. CASE Handler \/ StartGoroutines \/ HandlerReturn \/ OnDestroyReturns \/ FilterGone
  BY <1>5 DEF Handler, StartGoroutines, HandlerReturn, OnDestroyReturns, FilterGone
<1>6. CASE OnDestroy \/ FinalizeNormal \/ RequestFinalize
  BY <1>6 DEF OnDestroy, FinalizeNormal, RequestFinalize, HttpFinalize, UseReq
<1> QED  BY <1>1, <1>2, <1>3, <1>4, <1>5, <1>6 DEF Next

\* Who runs may use the request.
LEMMA InUse ==
    ASSUME RequestInv, LifeFits, NotUsedFreed, NEW a \in Callers, pc[a] # "off"
    PROVE  req # "freed"
<1>1. CASE a = Worker
  BY <1>1 DEF RequestInv, TypeOK, CallProtocol, WorkerFits, LifeFits
<1>2. CASE a \in Goroutines
  BY <1>2 DEF NotUsedFreed, NobodyLeft, Live
<1> QED  BY <1>1, <1>2 DEF Callers

\* The answers, after a callback was taken, or one posted that is no answer.
LEMMA AnswersStay ==
    ASSUME RequestInv, \A i, j \in Answers : i = j,
           \/ posted' = posted
           \/ posted # << >> /\ posted' = Tail(posted)
           \/ \E e \in Events : e.kind # "continue" /\ posted' = Append(posted, e)
    PROVE  (Answers' # {} => Answers # {}) /\ \A i, j \in Answers' : i = j
<1>1. posted \in Seq(Events) /\ Len(posted) \in Nat
  BY DEF RequestInv, TypeOK
<1>2. CASE posted' = posted
  BY <1>2 DEF Answers
<1>3. CASE posted # << >> /\ posted' = Tail(posted)
  <2>1. Len(posted') = Len(posted) - 1 /\ \A i \in 1..Len(posted') : posted'[i] = posted[i + 1]
    BY <1>1, <1>3
  <2>2. \A i \in Answers' : i \in Int /\ i + 1 \in Answers
    BY <1>1, <2>1 DEF Answers
  <2> QED  BY <2>2
<1>4. ASSUME NEW e \in Events, e.kind # "continue", posted' = Append(posted, e)
      PROVE  Answers' = Answers
  <2>1. /\ Len(posted') = Len(posted) + 1 /\ posted'[Len(posted) + 1] = e
        /\ \A i \in 1..Len(posted) : posted'[i] = posted[i]
    BY <1>1, <1>4, AppendedLast
  <2> QED  BY <1>1, <1>4, <2>1 DEF Answers
<1> QED  BY <1>2, <1>3, <1>4

\* A step in which Go goes on, or ends without an answer that the filter would wait for.
LEMMA GoGoesOn ==
    ASSUME RequestInv, NotUsedFreed, UNCHANGED << req, reason, filter, inGo, async >>,
           worker' = worker \/ filter # "alive",
           \A g \in Goroutines : pc[g] = "off" => pc'[g] = "off",
           \/ posted' = posted
           \/ posted # << >> /\ posted' = Tail(posted)
           \/ \E e \in Events : e.kind # "continue" /\ posted' = Append(posted, e),
           faults' = faults
    PROVE  NotUsedFreed'
<1>1. Live' \subseteq Live
  BY DEF Live
<1>2. NobodyLeft'
  BY <1>1 DEF NotUsedFreed, NobodyLeft
<1>3. ASSUME filter = "alive" PROVE AnswersFit'
  <2>1. (Answers' # {} => Answers # {}) /\ \A i, j \in Answers' : i = j
    BY <1>3, AnswersStay DEF NotUsedFreed, AnswersFit
  <2> QED  BY <1>1, <1>3, <2>1 DEF NotUsedFreed, AnswersFit
<1> QED  BY <1>2, <1>3 DEF NotUsedFreed

LEMMA CallsUnused ==
    ASSUME RequestInv, LifeFits, NotUsedFreed, NEW a \in Callers, CallC(a) \/ CCall(a)
    PROVE  NotUsedFreed'
<1> USE DEF At
<1>1. pc \in [Callers -> {"off", "run"} \cup CallSteps] /\ a \in Callers
  BY DEF RequestInv, TypeOK
<1>2. pc[a] # "off"
  BY DEF CallC, CCall, GetRouteName, GetDynamicMetadata, SetDynamicMetadata, Begin, Lock,
         GetStringValue, SetMetadata, Refused, CopyAndUnlock, Granted
<1>3. faults' = faults
  BY <1>2, InUse
     DEF CallC, CCall, GetRouteName, GetDynamicMetadata, SetDynamicMetadata, Begin, Lock,
         GetStringValue, SetMetadata, Refused, CopyAndUnlock, Granted, UseReq
<1>4. UNCHANGED << req, reason, filter, inGo, async >>
  BY DEF CallC, CCall, GetRouteName, GetDynamicMetadata, SetDynamicMetadata, Begin, Lock,
         GetStringValue, SetMetadata, Refused, CopyAndUnlock, object, stream
<1>5. \A g \in Goroutines : pc[g] = "off" => pc'[g] = "off"
  <2>1. CASE Refused(a)
    <3> DEFINE at == [pc EXCEPT ![a] = "off"]
    <3>1. pc' = at \/ pc' = Wake(at)
      BY <2>1 DEF Refused
    <3>2. /\ at \in [Callers -> {"off", "run"} \cup CallSteps]
          /\ \A b \in Callers : pc[b] = "off" => at[b] = "off"
      BY <1>1
    <3> HIDE DEF at
    <3> QED  BY <3>1, <3>2, WakeMoves DEF Callers
  <2>2. ASSUME ~ Refused(a)
        PROVE  \E step \in CallSteps \cup {"run"} : pc' = [pc EXCEPT ![a] = step]
    BY <2>2 DEF CallC, CCall, GetRouteName, GetDynamicMetadata, SetDynamicMetadata, Begin, Lock,
                GetStringValue, SetMetadata, CopyAndUnlock, CallSteps
  <2> QED  BY <1>1, <1>2, <2>1, <2>2 DEF Callers
<1>6. worker' = worker \/ filter # "alive"
  <2>1. CASE Refused(a)
    <3>1. filter = "alive" => ~ inGo /\ Live = {} /\ worker # "handler"
      BY <2>1 DEF Refused, NotUsedFreed, AnswersFit
    <3>2. filter = "alive" => a = Worker /\ worker # "handler"
      BY <1>2, <3>1 DEF Live, Callers
    <3>3. filter = "alive" /\ a = Worker => worker = "handler"
      BY <1>2 DEF RequestInv, TypeOK, CallProtocol, WorkerFits, LifeFits
    <3> QED  BY <3>2, <3>3
  <2> QED
    BY <2>1 DEF CallC, CCall, GetRouteName, GetDynamicMetadata, SetDynamicMetadata, Begin, Lock,
                GetStringValue, SetMetadata, CopyAndUnlock, stream
<1>7. \/ posted' = posted
      \/ \E e \in Events : e.kind # "continue" /\ posted' = Append(posted, e)
  <2>1. CASE SetMetadata(a)
    <3>1. a # Worker => [kind |-> "set", by |-> a] \in Events
      BY DEF Callers, Events
    <3> QED  BY <2>1, <3>1 DEF SetMetadata
  <2> QED
    BY <2>1 DEF CallC, CCall, GetRouteName, GetDynamicMetadata, SetDynamicMetadata, Begin, Lock,
                GetStringValue, Refused, CopyAndUnlock
<1> QED  BY <1>3, <1>4, <1>5, <1>6, <1>7, GoGoesOn

\* sema.Wait() and what leads to it; its panic is what FreedWhenUnused excepts.
LEMMA WaitUnused ==
    ASSUME RequestInv, LifeFits, NotUsedFreed, NEW g \in Goroutines, WaitingCall(g)
    PROVE  "waitGroupReused" \in faults' \/ NotUsedFreed'
<1>1. CASE WaitPanics(g)
  BY <1>1 DEF WaitPanics
<1>2. CASE Wait(g) \/ WaitReturns(g)
  <2>1. \A h \in Goroutines : pc[h] = "off" => pc'[h] = "off"
    BY <1>2 DEF Wait, WaitReturns, At, RequestInv, TypeOK, Callers
  <2> QED  BY <1>2, <2>1, GoGoesOn DEF Wait, WaitReturns, object, stream
<1>3. CASE GetMetadataYields(g)
  <2>1. g \in Callers /\ pc[g] = "call"
    BY <1>3 DEF GetMetadataYields, Granted, Callers
  <2>2. faults' = faults
    BY <1>3, <2>1, InUse DEF GetMetadataYields, Granted, UseReq
  <2>3. \A h \in Goroutines : pc[h] = "off" => pc'[h] = "off"
    BY <1>3, <2>1 DEF GetMetadataYields, At, RequestInv, TypeOK, Callers
  <2>4. \E e \in Events : e.kind # "continue" /\ posted' = Append(posted, e)
    <3>1. [kind |-> "get", by |-> g] \in Events
      BY DEF Events
    <3> QED  BY <1>3, <3>1 DEF GetMetadataYields
  <2> QED  BY <1>3, <2>2, <2>3, <2>4, GoGoesOn DEF GetMetadataYields, object, stream
<1> QED  BY <1>1, <1>2, <1>3 DEF WaitingCall

\* The last goroutine answers.
LEMMA LastAnswers ==
    ASSUME RequestInv, LifeFits, NotUsedFreed, NEW g \in Goroutines, GoroutineEnds(g)
    PROVE  NotUsedFreed'
<1>1. /\ g \in Callers /\ pc[g] = "run" /\ pc' = [pc EXCEPT ![g] = "off"]
      /\ UNCHANGED << req, reason, filter, inGo, async, worker >>
  BY DEF GoroutineEnds, At, Callers, object, stream
<1>2. Live' = Live \ {g} /\ g \in Live
  BY <1>1 DEF Live, RequestInv, TypeOK, Callers
<1>3. faults' = faults
  BY <1>1, InUse DEF GoroutineEnds, UseReq
<1>4. CASE posted' = posted
  <2>1. \A h \in Goroutines : pc[h] = "off" => pc'[h] = "off"
    BY <1>1 DEF RequestInv, TypeOK, Callers
  <2> QED  BY <1>1, <1>3, <1>4, <2>1, GoGoesOn
<1>5. CASE posted' # posted
  <2>1. /\ Live = {g} /\ filter = "alive" /\ inGo
        /\ posted' = Append(posted, [kind |-> "continue", by |-> g])
    BY <1>5 DEF GoroutineEnds
  <2>2. Answers = {} /\ async /\ AnswersFit
    BY <1>2, <2>1 DEF NotUsedFreed, AnswersFit
  <2>3. /\ posted \in Seq(Events) /\ [kind |-> "continue", by |-> g] \in Events
    BY DEF RequestInv, TypeOK, Events
  <2>4. /\ Len(posted) \in Nat /\ Len(posted') = Len(posted) + 1
        /\ \A i \in 1..Len(posted) : posted'[i] = posted[i]
    BY <2>1, <2>3, AppendedLast
  <2>5. \A i, j \in Answers' : i = j
    BY <2>2, <2>4 DEF Answers
  <2>6. Live' = {}
    BY <1>2, <2>1
  <2>7. AnswersFit'
    BY <1>1, <2>1, <2>2, <2>5, <2>6 DEF AnswersFit
  <2> QED  BY <1>3, <2>6, <2>7 DEF NotUsedFreed, NobodyLeft
<1> QED  BY <1>4, <1>5

LEMMA WorkerCallUnused ==
    ASSUME RequestInv, LifeFits, NotUsedFreed, GetMetadataOnWorker
    PROVE  NotUsedFreed'
<1>1. Worker \in Callers /\ pc[Worker] = "call"
  BY DEF GetMetadataOnWorker, Granted, Callers
<1>2. faults' = faults
  BY <1>1, InUse DEF GetMetadataOnWorker, Granted, UseReq
<1>3. [pc EXCEPT ![Worker] = "copy"] \in [Callers -> {"off", "run"} \cup CallSteps]
  BY <1>1 DEF RequestInv, TypeOK, CallSteps
<1>4. \A g \in Goroutines : pc[g] = "off" => pc'[g] = "off"
  BY <1>1, <1>3, WakeMoves, WorkerIsNoGoroutine DEF GetMetadataOnWorker, RequestInv, TypeOK
<1> QED  BY <1>2, <1>4, GoGoesOn DEF GetMetadataOnWorker, object, stream

LEMMA DispatchUnused ==
    ASSUME RequestInv, LifeFits, NotUsedFreed, Dispatch
    PROVE  NotUsedFreed'
<1>1. CASE EventDropped \/ SetMetadataEvent
  <2>1. /\ posted # << >> /\ posted' = Tail(posted) /\ faults' = faults /\ pc' = pc
        /\ UNCHANGED << req, reason, filter, inGo, async, worker >>
    BY <1>1 DEF EventDropped, SetMetadataEvent, TakeEvent, object, stream
  <2> QED  BY <2>1, GoGoesOn
<1>2. CASE GetMetadataEvent
  <2>1. /\ posted # << >> /\ posted' = Tail(posted)
        /\ UNCHANGED << req, reason, filter, inGo, async, worker >>
    BY <1>2 DEF GetMetadataEvent, TakeEvent, object, stream
  <2>2. faults' = faults
    BY <1>2 DEF GetMetadataEvent, UseReq, LifeFits
  <2>3. \A g \in Goroutines : pc[g] = "off" => pc'[g] = "off"
    BY <1>2, WakeMoves DEF GetMetadataEvent, RequestInv, TypeOK, Callers
  <2> QED  BY <2>1, <2>2, <2>3, GoGoesOn
<1>3. CASE ContinueEvent
  <2>1. /\ posted # << >> /\ Head(posted).kind = "continue" /\ posted' = Tail(posted)
        /\ filter = "alive" /\ worker = "loop" /\ inGo' = FALSE
        /\ UNCHANGED << req, reason, filter, async, worker, pc, faults >>
    BY <1>3 DEF ContinueEvent, TakeEvent, object
  <2>2. posted \in Seq(Events) /\ Len(posted) \in Nat /\ AnswersFit
    BY <2>1 DEF RequestInv, TypeOK, NotUsedFreed
  <2>3. 1 \in Answers
    BY <2>1, <2>2 DEF Answers
  <2>4. Live = {} /\ Answers = {1}
    BY <2>2, <2>3 DEF AnswersFit
  <2>5. Len(posted') = Len(posted) - 1 /\ \A i \in 1..Len(posted') : posted'[i] = posted[i + 1]
    BY <2>1, <2>2
  <2>6. \A i \in Answers' : i \in Int /\ i >= 1 /\ i + 1 \in Answers
    BY <2>2, <2>5 DEF Answers
  <2>7. Answers' = {}
    BY <2>4, <2>6
  <2>8. Live' = {}
    BY <2>1, <2>4 DEF Live
  <2> QED  BY <2>1, <2>7, <2>8 DEF AnswersFit, NotUsedFreed, NobodyLeft
<1> QED  BY <1>1, <1>2, <1>3 DEF Dispatch

\* The handler runs on the worker, and may leave goroutines behind.
LEMMA HandlersUnused ==
    ASSUME RequestInv, LifeFits, NotUsedFreed, Handler \/ StartGoroutines \/ HandlerReturn
    PROVE  NotUsedFreed'
<1>1. pc \in [Callers -> {"off", "run"} \cup CallSteps] /\ Worker \in Callers
  BY DEF RequestInv, TypeOK, Callers
<1>2. filter = "alive" /\ filter' = filter /\ reason = "none" /\ reason' = reason /\ req # "freed"
  BY DEF Handler, StartGoroutines, HandlerReturn, LifeFits, object
<1>3. req' # "freed" /\ posted' = posted /\ faults' = faults
  BY <1>2 DEF Handler, StartGoroutines, HandlerReturn, object
<1>4. AnswersFit /\ Answers' = Answers /\ NobodyLeft'
  BY <1>2, <1>3 DEF NotUsedFreed, NobodyLeft, Answers
<1>5. ASSUME Handler \/ HandlerReturn PROVE Live' = Live
  <2>1. \A g \in Goroutines : pc'[g] = pc[g]
    BY <1>1, <1>5, WorkerIsNoGoroutine DEF Handler, HandlerReturn, At
  <2> QED  BY <2>1 DEF Live
<1>6. CASE Handler
  <2>1. Live = {} /\ Answers = {}
    BY <1>4, <1>6 DEF Handler, AnswersFit
  <2>2. AnswersFit'
    BY <1>4, <1>5, <1>6, <2>1 DEF Handler, AnswersFit
  <2> QED  BY <1>3, <1>4, <2>2 DEF NotUsedFreed
<1>7. CASE StartGoroutines
  <2>1. Live = {} /\ Answers = {} /\ inGo
    BY <1>4, <1>7 DEF StartGoroutines, AnswersFit
  <2>2. AnswersFit'
    BY <1>4, <1>7, <2>1 DEF StartGoroutines, AnswersFit
  <2> QED  BY <1>3, <1>4, <2>2 DEF NotUsedFreed
<1>8. CASE HandlerReturn
  <2>1. AnswersFit'
    BY <1>4, <1>5, <1>8 DEF HandlerReturn, AnswersFit
  <2> QED  BY <1>3, <1>4, <2>1 DEF NotUsedFreed
<1> QED  BY <1>6, <1>7, <1>8

\* The stream ends: Normal says that Go is not in a call, so none of its goroutines is left.
LEMMA EndsUnused ==
    ASSUME RequestInv, LifeFits, NotUsedFreed,
           OnDestroy \/ OnDestroyReturns \/ FilterGone \/ FinalizeNormal \/ RequestFinalize
    PROVE  NotUsedFreed'
<1>1. pc \in [Callers -> {"off", "run"} \cup CallSteps] /\ Worker \in Callers
  BY DEF RequestInv, TypeOK, Callers
<1>2. filter' # "alive"
  BY DEF OnDestroy, OnDestroyReturns, FilterGone, FinalizeNormal, RequestFinalize, LifeFits,
         Unreachable, stream
<1>3. Live' \subseteq Live
  <2>1. CASE OnDestroy
    <3> DEFINE at == [pc EXCEPT ![Worker] = "run"]
    <3>1. pc' = at \/ pc' = Wake(at)
      BY <2>1 DEF OnDestroy, WakeWaiting, At
    <3>2. /\ at \in [Callers -> {"off", "run"} \cup CallSteps]
          /\ \A g \in Goroutines : g \in Callers /\ (pc[g] = "off" => at[g] = "off")
      BY <1>1, WorkerIsNoGoroutine
    <3> HIDE DEF at
    <3> QED  BY <3>1, <3>2, WakeMoves DEF Live
  <2>2. CASE OnDestroyReturns
    BY <1>1, <2>2, WorkerIsNoGoroutine DEF OnDestroyReturns, At, Live
  <2> QED  BY <2>1, <2>2 DEF FilterGone, FinalizeNormal, RequestFinalize, Live
<1>4. faults' = faults
  BY DEF OnDestroy, OnDestroyReturns, FilterGone, FinalizeNormal, RequestFinalize, HttpFinalize,
         UseReq, LifeFits
<1>5. NobodyLeft'
  <2>1. CASE OnDestroy
    <3>1. filter = "alive" /\ req' = req /\ reason' = IF inGo THEN "Terminate" ELSE "Normal"
      BY <2>1 DEF OnDestroy, DestroyReason
    <3>2. req # "freed" /\ (~ inGo => Live = {})
      BY <3>1 DEF LifeFits, NotUsedFreed, AnswersFit
    <3> QED  BY <1>3, <3>1, <3>2 DEF NobodyLeft
  <2>2. CASE OnDestroyReturns \/ FilterGone
    BY <1>3, <2>2 DEF OnDestroyReturns, FilterGone, NobodyLeft, NotUsedFreed, object
  <2>3. CASE FinalizeNormal
    <3>1. reason = "Normal"
      BY <2>3 DEF FinalizeNormal, LifeFits
    <3> QED  BY <1>3, <3>1 DEF NobodyLeft, NotUsedFreed
  <2>4. CASE RequestFinalize
    BY <1>3, <2>4 DEF RequestFinalize, Unreachable, NobodyLeft
  <2> QED  BY <2>1, <2>2, <2>3, <2>4
<1> QED  BY <1>2, <1>4, <1>5 DEF NotUsedFreed

LEMMA NextUnused ==
    ASSUME RequestInv, FreeInv, [Next]_vars
    PROVE  FreeInv'
<1>1. LifeFits /\ LifeFits'
  BY NextLivesOn DEF FreeInv
<1>2. CASE "waitGroupReused" \in faults
  BY <1>1, <1>2, FaultsStay DEF FreeInv
<1>3. CASE NotUsedFreed
  <2>1. CASE UNCHANGED vars
    BY <1>1, <1>3, <2>1
       DEF vars, FreeInv, NotUsedFreed, AnswersFit, Answers, Live, NobodyLeft
  <2>2. CASE \E g \in Goroutines : WaitingCall(g)
    BY <1>1, <1>3, <2>2, WaitUnused DEF FreeInv
  <2>3. CASE \/ \E a \in Callers : CallC(a) \/ CCall(a)
             \/ \E g \in Goroutines : GoroutineEnds(g)
             \/ GetMetadataOnWorker \/ Dispatch
    BY <1>1, <1>3, <2>3, CallsUnused, LastAnswers, WorkerCallUnused, DispatchUnused DEF FreeInv
  <2>4. CASE Handler \/ StartGoroutines \/ HandlerReturn
    BY <1>1, <1>3, <2>4, HandlersUnused DEF FreeInv
  <2>5. CASE OnDestroy \/ OnDestroyReturns \/ FilterGone \/ FinalizeNormal \/ RequestFinalize
    BY <1>1, <1>3, <2>5, EndsUnused DEF FreeInv
  <2> QED  BY <2>1, <2>2, <2>3, <2>4, <2>5 DEF Next
<1> QED  BY <1>2, <1>3 DEF FreeInv

\* moeOnHttpDestroy and requestFinalize (pkg/http/moe.go:85, moe.go:215): the C++ request is
\* deleted once, and neither a goroutine, nor an OnDestroy, nor a late callback uses it then,
\* unless a panic of the WaitGroup has answered for a goroutine that is still at work.
THEOREM RequestIsFreedUnused == Spec => []FreedWhenUnused
<1>1. Init => FreeInv
  <2> SUFFICES ASSUME Init PROVE FreeInv
    OBVIOUS
  <2>1. Live = {} /\ Answers = {}
    BY DEF Init, Live, Answers, Callers
  <2> QED  BY <2>1 DEF Init, FreeInv, LifeFits, NotUsedFreed, AnswersFit, NobodyLeft
<1>2. RequestInv /\ FreeInv /\ [Next]_vars => FreeInv'
  BY NextUnused
<1>3. FreeInv => FreedWhenUnused
  BY DEF FreeInv, NotUsedFreed, FreedWhenUnused
<1> QED  BY <1>1, <1>2, <1>3, RequestInvariant, PTL DEF Spec
=============================================================================
