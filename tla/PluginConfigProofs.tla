------------------------- MODULE PluginConfigProofs -------------------------
(* The ids of the plugin configurations denote what they should, and each     *)
(* configuration is created at most once per worker, for every number of      *)
(* workers, filter chains and route configurations.                           *)
EXTENDS PluginConfig, SequenceTheorems, FiniteSetTheorems, TLAPS

ConfigInv == TypeOK /\ IdsFit

-----------------------------------------------------------------------------
(* Sequences.                                                                 *)

\* The route configurations and the filter of a stream, as parts of configurations.
LEMMA StreamParts ==
    ASSUME NEW s \in Streams
    PROVE  /\ s.chain \in Seq(Routes) /\ s.chain \in Configs /\ Len(s.chain) \in Nat
           /\ s.filter \in Filters /\ << s.filter >> \in Configs
           /\ \A n \in 1..Len(s.chain) : s.chain[n] \in Routes /\ << s.chain[n] >> \in Configs
<1>1. s.chain \in Seq(Routes) /\ s.filter \in Filters
  BY ConfigAssumption
<1>2. s.chain \in Configs
  BY <1>1, SeqMonotonic DEF Configs
<1>3. \A n \in 1..Len(s.chain) : s.chain[n] \in Routes
  BY <1>1, ElementOfSeq
<1> QED  BY <1>1, <1>2, <1>3 DEF Configs

\* What the first route configurations make of the filter's is a configuration.
LEMMA ConfigTypes ==
    ASSUME NEW s \in Streams, NEW n \in 0..Len(s.chain)
    PROVE  ConfigOf(s, n) \in Configs /\ SubSeq(s.chain, 1, n) \in Configs
<1>1. n \in Nat /\ n <= Len(s.chain) /\ Len(s.chain) \in Nat
  BY StreamParts
<1>2. \A i \in 1..n : s.chain[i] \in Filters \cup Routes
  <2> SUFFICES ASSUME NEW i \in 1..n PROVE s.chain[i] \in Filters \cup Routes
    OBVIOUS
  <2>1. i \in 1..Len(s.chain)
    BY <1>1
  <2> QED  BY <2>1, StreamParts
<1>3. SubSeq(s.chain, 1, n) \in Configs
  BY <1>1, <1>2, SubSeqProperties DEF Configs
<1>4. << s.filter >> \o SubSeq(s.chain, 1, n) \in Configs
  BY <1>3, StreamParts, ConcatProperties DEF Configs
<1>5. ASSUME n # 0 PROVE << s.chain[n] >> \in Configs
  <2>1. n \in 1..Len(s.chain)
    BY <1>1, <1>5
  <2> QED  BY <2>1, StreamParts
<1> QED  BY <1>3, <1>4, <1>5, StreamParts DEF ConfigOf

\* Merging is associative.
LEMMA Associative ==
    ASSUME NEW x \in Configs, NEW y \in Configs, NEW z \in Configs
    PROVE  x \o (y \o z) = (x \o y) \o z
BY ConcatAssociative DEF Configs

\* One level more is one route configuration more at the end.
LEMMA OneLevelMore ==
    ASSUME NEW s \in Streams, NEW n \in 0..(Len(s.chain) - 1), WithParser
    PROVE  ConfigOf(s, n + 1) = ConfigOf(s, n) \o << s.chain[n + 1] >>
<1> DEFINE rest == SubSeq(s.chain, 1, n)
           last == << s.chain[n + 1] >>
<1>1. /\ n \in Nat /\ n \in 0..Len(s.chain) /\ n + 1 \in 1..Len(s.chain) /\ 1 \in 1..Len(s.chain)
      /\ n + 1 # 0 /\ (n + 1) - 1 = n
  BY StreamParts
<1>2. SubSeq(s.chain, 1, n + 1) = rest \o last
  BY <1>1, StreamParts, SubSeqRecursiveSecond
<1>3. rest \in Configs /\ last \in Configs /\ << s.filter >> \in Configs
  BY <1>1, StreamParts, ConfigTypes
<1>4. << s.filter >> \o (rest \o last) = (<< s.filter >> \o rest) \o last
  BY <1>3, Associative
<1>5. ConfigOf(s, n) = << s.filter >> \o rest
  <2>1. CASE n = 0
    <3>1. rest = << >>
      BY <2>1, SubSeqEmpty
    <3>2. << s.filter >> \o << >> = << s.filter >>
      BY <1>3, ConcatEmptySeq DEF Configs
    <3> QED  BY <2>1, <3>1, <3>2 DEF ConfigOf
  <2>2. CASE n # 0
    BY <2>2 DEF ConfigOf
  <2> QED  BY <2>1, <2>2
<1>6. ConfigOf(s, n + 1) = << s.filter >> \o SubSeq(s.chain, 1, n + 1)
  BY <1>1 DEF ConfigOf
<1> QED  BY <1>2, <1>4, <1>5, <1>6

-----------------------------------------------------------------------------
(* What a step leaves as it is.                                               *)

\* The table of Go only grows.
Grows ==
    /\ configCache' \in Seq(Configs)
    /\ \A n \in Ids : n \in Ids' /\ (n # 0 => configCache'[n] = configCache[n])

\* A member that holds an id never loses it.
KeepsIds ==
    /\ \A f \in Filters : filterId[f] # 0 => filterId'[f] # 0
    /\ \A r \in Routes : routeId[r] # 0 => routeId'[r] # 0
    /\ \A r \in Routes : mergedId[r] # 0 => mergedId'[r] # 0

\* The step is one of w.
OnlyMoves(w) ==
    \A v \in Workers \ {w} :
        /\ pc'[v] = pc[v] /\ stream'[v] = stream[v] /\ level'[v] = level[v]
        /\ id'[v] = id[v] /\ fresh'[v] = fresh[v]

\* The route configuration of a worker in the middle of the chain.
LEMMA RouteInChain ==
    ASSUME TypeOK, NEW w \in Workers, WorkerFits(w), pc[w] \in MergeSteps
    PROVE  /\ stream[w] \in Streams /\ level[w] \in 0..(Len(stream[w].chain) - 1)
           /\ level[w] + 1 \in 1..Len(stream[w].chain)
           /\ Route(w) = stream[w].chain[level[w] + 1]
           /\ Route(w) \in Routes /\ << Route(w) >> \in Configs
<1>1. stream[w] \in Streams /\ level[w] \in Nat /\ level[w] < Len(stream[w].chain)
  BY DEF TypeOK, WorkerFits
<1>2. Len(stream[w].chain) \in Nat
  BY <1>1, StreamParts
<1>3. level[w] + 1 \in 1..Len(stream[w].chain) /\ level[w] \in 0..(Len(stream[w].chain) - 1)
  BY <1>1, <1>2
<1> QED  BY <1>1, <1>3, StreamParts DEF Route

\* A table that stays as it is.
LEMMA TableKept ==
    ASSUME TypeOK, UNCHANGED configCache
    PROVE  Grows
BY DEF TypeOK, Grows, Ids

\* A configuration that Go stores gets a number of its own.
LEMMA Stored ==
    ASSUME TypeOK, NEW w \in Workers, NEW config \in Configs, Store(w, config)
    PROVE  /\ Grows /\ fresh' \in [Workers -> Ids'] /\ Denotes(fresh[w], config)'
           /\ \A v \in Workers \ {w} : fresh'[v] = fresh[v]
<1>1. configCache \in Seq(Configs) /\ Len(configCache) \in Nat
  BY DEF TypeOK
<1>2. /\ configCache' \in Seq(Configs) /\ Len(configCache') = Len(configCache) + 1
      /\ \A n \in 1..Len(configCache) : configCache'[n] = configCache[n]
      /\ configCache'[Len(configCache) + 1] = config
  BY <1>1, AppendProperties DEF Store
<1>3. Grows
  BY <1>1, <1>2 DEF Grows, Ids
<1>4. fresh' = [fresh EXCEPT ![w] = Len(configCache) + 1] /\ fresh \in [Workers -> Ids]
  BY DEF Store, TypeOK
<1>5. fresh' \in [Workers -> Ids'] /\ fresh'[w] = Len(configCache) + 1
  BY <1>1, <1>2, <1>4 DEF Ids
<1>6. Denotes(fresh[w], config)'
  BY <1>1, <1>2, <1>5 DEF Denotes
<1> QED  BY <1>3, <1>4, <1>5, <1>6

\* Ids in a range that grows.
LEMMA RangesGrow ==
    ASSUME Grows, NEW D, NEW F, F \in [D -> Ids]
    PROVE  F \in [D -> Ids']
BY DEF Grows

\* Members that stay as they are still fit a table that grows.
LEMMA CachesKept ==
    ASSUME TypeOK, CachesFit, Grows, UNCHANGED caches
    PROVE  CachesFit'
<1>1. \A n \in Ids : \A config : Denotes(n, config) => n # 0 /\ configCache'[n] = config
  BY DEF Denotes, Grows
<1>2. \A f \in Filters : filterId[f] # 0 => filterId[f] # 0 /\ configCache'[filterId[f]] = << f >>
  BY <1>1 DEF TypeOK, CachesFit
<1>3. \A r \in Routes : routeId[r] # 0 => routeId[r] # 0 /\ configCache'[routeId[r]] = << r >>
  BY <1>1 DEF TypeOK, CachesFit
<1>4. ASSUME NEW s \in Streams, NEW n \in 1..Len(s.chain), mergedId[s.chain[n]] # 0
      PROVE  mergedId[s.chain[n]] # 0 /\ configCache'[mergedId[s.chain[n]]] = ConfigOf(s, n)
  <2>1. s.chain[n] \in Routes
    BY StreamParts
  <2>2. mergedId[s.chain[n]] \in Ids
    BY <2>1 DEF TypeOK
  <2> QED  BY <1>1, <1>4, <2>2 DEF CachesFit
<1> QED  BY <1>2, <1>3, <1>4 DEF caches, CachesFit, Denotes, ConfigOf

\* The other workers still fit.
LEMMA OthersFit ==
    ASSUME TypeOK, NEW w \in Workers, NEW v \in Workers \ {w},
           WorkerFits(v), Grows, KeepsIds, OnlyMoves(w)
    PROVE  WorkerFits(v)'
<1>1. /\ pc'[v] = pc[v] /\ stream'[v] = stream[v] /\ level'[v] = level[v]
      /\ id'[v] = id[v] /\ fresh'[v] = fresh[v]
  BY DEF OnlyMoves
<1>2. id[v] \in Ids /\ fresh[v] \in Ids /\ stream[v] \in Streams /\ stream[v].filter \in Filters
  BY StreamParts DEF TypeOK
<1>3. \A config : /\ Denotes(id[v], config) => id[v] # 0 /\ configCache'[id[v]] = config
                  /\ Denotes(fresh[v], config) => fresh[v] # 0 /\ configCache'[fresh[v]] = config
  BY <1>2 DEF Denotes, Grows
<1>4. pc[v] \in MergeSteps => Route(v) \in Routes
  BY RouteInChain
<1>5. filterId[stream[v].filter] # 0 => filterId'[stream[v].filter] # 0
  BY <1>2 DEF KeepsIds
<1>6. pc[v] \in MergeSteps => /\ routeId[Route(v)] # 0 => routeId'[Route(v)] # 0
                              /\ mergedId[Route(v)] # 0 => mergedId'[Route(v)] # 0
  BY <1>4 DEF KeepsIds
<1>7. Route(v)' = Route(v) /\ \A n : ConfigOf(stream[v], n)' = ConfigOf(stream[v], n)
  BY <1>1 DEF Route, ConfigOf
<1> QED  BY <1>1, <1>3, <1>5, <1>6, <1>7 DEF WorkerFits, Denotes, MergeSteps, Route, ConfigOf

\* What a step of w has to preserve for everybody to fit.
LEMMA Fit ==
    ASSUME TypeOK, IdsFit, NEW w \in Workers, Grows, KeepsIds, OnlyMoves(w),
           CachesFit', WorkerFits(w)'
    PROVE  IdsFit'
<1>1. \A v \in Workers \ {w} : WorkerFits(v)'
  BY OthersFit DEF IdsFit
<1> QED  BY <1>1 DEF IdsFit

-----------------------------------------------------------------------------
(* The steps.                                                                 *)

\* Steps that change neither the table nor the members.
LEMMA LookSteps ==
    ASSUME ConfigInv, NEW w \in Workers,
           NewStream(w) \/ CheckFilterId(w) \/ ReadFilterId(w) \/ CheckMergedId(w)
             \/ CheckRouteId(w) \/ ReadMergedId(w) \/ CreateHandler(w)
    PROVE  ConfigInv'
<1> USE DEF ConfigInv
<1>1. UNCHANGED << published, configCache, caches, fresh >> \/ CreateHandler(w)
  BY DEF NewStream, CheckFilterId, ReadFilterId, CheckMergedId, CheckRouteId, ReadMergedId
<1>2. UNCHANGED << published, configCache, caches >>
  BY <1>1 DEF CreateHandler
<1>3. Grows /\ KeepsIds /\ CachesFit' /\ Ids' = Ids
  BY <1>2, TableKept, CachesKept DEF caches, KeepsIds, IdsFit, Ids
<1>4. WorkerFits(w) /\ stream[w] \in Streams /\ Len(stream[w].chain) \in Nat
      /\ stream[w].filter \in Filters
  BY StreamParts DEF TypeOK, IdsFit
<1> SUFFICES TypeOK' /\ OnlyMoves(w) /\ WorkerFits(w)'
  BY <1>3, Fit
<1> USE <1>2 DEF Goto, NextLevel, caches, threads, OnlyMoves, Steps, MergeSteps, Denotes
<1>5. CASE NewStream(w)
  <2>1. TypeOK' /\ OnlyMoves(w)
    BY <1>3, <1>5 DEF NewStream, TypeOK
  <2>2. pc'[w] = "filterCheck" /\ level'[w] = 0
    BY <1>4, <1>5 DEF NewStream, TypeOK, WorkerFits
  <2> QED  BY <2>1, <2>2 DEF WorkerFits
<1>6. CASE CheckFilterId(w)
  <2>1. TypeOK' /\ OnlyMoves(w)
    BY <1>3, <1>6 DEF CheckFilterId, TypeOK
  <2>2. /\ pc'[w] = IF filterId[stream[w].filter] # 0 THEN "filterRead" ELSE "filterNew"
        /\ stream' = stream /\ level' = level /\ pc[w] = "filterCheck"
    BY <1>6 DEF CheckFilterId, TypeOK
  <2>3. level[w] = 0
    BY <1>4, <2>2 DEF WorkerFits
  <2> QED  BY <2>1, <2>2, <2>3 DEF WorkerFits
<1>7. CASE ReadFilterId(w)
  <2>1. /\ filterId[stream[w].filter] \in Ids /\ stream' = stream /\ level' = level
        /\ level[w] = 0 /\ id' = [id EXCEPT ![w] = filterId[stream[w].filter]]
        /\ pc' = [pc EXCEPT ![w] = IF 0 < Len(stream[w].chain) THEN "mergedCheck" ELSE "ready"]
    BY <1>4, <1>7 DEF ReadFilterId, TypeOK, WorkerFits
  <2>2. TypeOK' /\ OnlyMoves(w)
    BY <1>3, <1>7, <2>1 DEF ReadFilterId, TypeOK
  <2>3. Denotes(filterId[stream[w].filter], << stream[w].filter >>)
    BY <1>4, <1>7 DEF ReadFilterId, WorkerFits, IdsFit, CachesFit
  <2>4. id'[w] = filterId[stream[w].filter]
        /\ pc'[w] = IF 0 < Len(stream[w].chain) THEN "mergedCheck" ELSE "ready"
    BY <2>1 DEF TypeOK
  <2>5. ConfigOf(stream[w], 0) = << stream[w].filter >>
    BY DEF ConfigOf
  <2> QED  BY <1>4, <2>1, <2>2, <2>3, <2>4, <2>5 DEF WorkerFits, ConfigOf
<1>8. CASE CheckMergedId(w)
  <2>1. TypeOK' /\ OnlyMoves(w)
    BY <1>3, <1>8 DEF CheckMergedId, TypeOK
  <2>2. Route(w) \in Routes
    BY <1>4, <1>8, RouteInChain DEF CheckMergedId
  <2>3. /\ pc'[w] = IF mergedId[Route(w)] > 0 THEN "mergedRead" ELSE "routeCheck"
        /\ stream' = stream /\ level' = level /\ id' = id /\ pc[w] = "mergedCheck"
    BY <1>8 DEF CheckMergedId, TypeOK
  <2>4. mergedId[Route(w)] > 0 => mergedId[Route(w)] # 0
    BY <2>2 DEF TypeOK, Ids
  <2> QED  BY <1>4, <2>1, <2>3, <2>4 DEF WorkerFits, ConfigOf, Route
<1>9. CASE CheckRouteId(w)
  <2>1. TypeOK' /\ OnlyMoves(w)
    BY <1>3, <1>9 DEF CheckRouteId, TypeOK
  <2>2. /\ pc'[w] = IF routeId[Route(w)] = 0 THEN "routeNew" ELSE "merge"
        /\ stream' = stream /\ level' = level /\ id' = id /\ pc[w] = "routeCheck"
    BY <1>9 DEF CheckRouteId, TypeOK
  <2> QED  BY <1>4, <2>1, <2>2 DEF WorkerFits, ConfigOf, Route
<1>10. CASE ReadMergedId(w)
  <2>1. /\ stream' = stream /\ level[w] + 1 \in 1..Len(stream[w].chain)
        /\ Route(w) = stream[w].chain[level[w] + 1] /\ Route(w) \in Routes
        /\ mergedId[Route(w)] \in Ids /\ mergedId[Route(w)] # 0
    BY <1>4, <1>10, RouteInChain DEF ReadMergedId, TypeOK, WorkerFits
  <2>2. TypeOK' /\ OnlyMoves(w)
    BY <1>3, <1>10, <2>1 DEF ReadMergedId, TypeOK
  <2>3. Denotes(mergedId[Route(w)], ConfigOf(stream[w], level[w] + 1))
    BY <1>4, <2>1 DEF IdsFit, CachesFit
  <2>4. /\ id'[w] = mergedId[Route(w)] /\ level'[w] = level[w] + 1
        /\ pc'[w] = IF level[w] + 1 < Len(stream[w].chain) THEN "mergedCheck" ELSE "ready"
    BY <1>10 DEF ReadMergedId, TypeOK
  <2> QED  BY <1>4, <2>1, <2>2, <2>3, <2>4 DEF WorkerFits, ConfigOf
<1>11. CASE CreateHandler(w)
  <2>1. SomeStream \in Streams /\ 0 \in Ids
    <3>1. Streams # {} /\ Len(configCache) \in Nat
      BY ConfigAssumption DEF TypeOK
    <3> QED  BY <3>1 DEF SomeStream, Ids
  <2>2. TypeOK' /\ OnlyMoves(w)
    BY <1>3, <1>11, <2>1 DEF CreateHandler, TypeOK
  <2>3. pc'[w] = "idle" /\ level'[w] = 0
    BY <1>11 DEF CreateHandler, TypeOK
  <2> QED  BY <2>2, <2>3 DEF WorkerFits
<1> QED  BY <1>5, <1>6, <1>7, <1>8, <1>9, <1>10, <1>11

\* Steps in which Go stores a configuration.
LEMMA StoreSteps ==
    ASSUME ConfigInv, NEW w \in Workers, NEW config \in Configs, NEW next \in Steps,
           Store(w, config), Goto(w, next), UNCHANGED << published, caches, threads >>
    PROVE  /\ TypeOK' /\ Grows /\ KeepsIds /\ CachesFit' /\ OnlyMoves(w)
           /\ Denotes(fresh[w], config)' /\ pc'[w] = next
<1> USE DEF ConfigInv
<1>1. /\ Grows /\ fresh' \in [Workers -> Ids'] /\ Denotes(fresh[w], config)'
      /\ \A v \in Workers \ {w} : fresh'[v] = fresh[v]
  BY Stored
<1>2. KeepsIds /\ CachesFit'
  BY <1>1, CachesKept DEF KeepsIds, caches, IdsFit
<1>3. /\ filterId' \in [Filters -> Ids'] /\ routeId' \in [Routes -> Ids']
      /\ mergedId' \in [Routes -> Ids'] /\ id' \in [Workers -> Ids']
  BY <1>1, RangesGrow DEF TypeOK, caches, threads
<1>4. pc' \in [Workers -> Steps] /\ pc'[w] = next /\ \A v \in Workers \ {w} : pc'[v] = pc[v]
  BY DEF TypeOK, Goto
<1>5. TypeOK'
  BY <1>1, <1>3, <1>4 DEF TypeOK, Grows, threads
<1> QED  BY <1>1, <1>2, <1>4, <1>5 DEF OnlyMoves, threads

LEMMA NewFilterConfigFits ==
    ASSUME ConfigInv, NEW w \in Workers, NewFilterConfig(w)
    PROVE  ConfigInv'
<1> USE DEF ConfigInv
<1>1. << stream[w].filter >> \in Configs /\ WorkerFits(w) /\ "filterStore" \in Steps
  BY StreamParts DEF TypeOK, IdsFit, Steps
<1>2. /\ TypeOK' /\ Grows /\ KeepsIds /\ CachesFit' /\ OnlyMoves(w)
      /\ Denotes(fresh[w], << stream[w].filter >>)' /\ pc'[w] = "filterStore"
  <2>1. /\ TypeOK' /\ Grows /\ KeepsIds /\ CachesFit' /\ OnlyMoves(w)
        /\ fresh'[w] # 0 /\ configCache'[fresh'[w]] = << stream[w].filter >>
        /\ pc'[w] = "filterStore"
    BY <1>1, StoreSteps DEF NewFilterConfig, Denotes
  <2> QED  BY <2>1 DEF NewFilterConfig, Denotes, threads
<1>3. pc[w] = "filterNew" /\ level' = level
  BY DEF NewFilterConfig, threads
<1>4. WorkerFits(w)'
  BY <1>1, <1>2, <1>3 DEF WorkerFits, MergeSteps, Steps
<1> QED  BY <1>2, <1>4, Fit

\* What a merge step keeps while it is on its way to the next level.
LEMMA OnTheWay ==
    ASSUME ConfigInv, NEW w \in Workers, pc[w] \in MergeSteps, pc'[w] \in MergeSteps,
           Grows, UNCHANGED threads
    PROVE  /\ level'[w] < Len(stream'[w].chain) /\ Route(w)' = Route(w)
           /\ Denotes(id[w], ConfigOf(stream[w], level[w]))'
<1>1. /\ level[w] < Len(stream[w].chain) /\ id[w] \in Ids
      /\ Denotes(id[w], ConfigOf(stream[w], level[w]))
  BY DEF ConfigInv, TypeOK, IdsFit, WorkerFits
<1> QED  BY <1>1 DEF Grows, Denotes, ConfigOf, Route, threads

LEMMA NewRouteConfigFits ==
    ASSUME ConfigInv, NEW w \in Workers, NewRouteConfig(w)
    PROVE  ConfigInv'
<1> USE DEF ConfigInv
<1>1. WorkerFits(w) /\ pc[w] = "routeNew" /\ pc[w] \in MergeSteps /\ "routeStore" \in Steps
  BY DEF NewRouteConfig, IdsFit, MergeSteps, Steps
<1>2. << Route(w) >> \in Configs
  BY <1>1, RouteInChain
<1>3. /\ TypeOK' /\ Grows /\ KeepsIds /\ CachesFit' /\ OnlyMoves(w) /\ UNCHANGED threads
      /\ fresh'[w] # 0 /\ configCache'[fresh'[w]] = << Route(w) >> /\ pc'[w] = "routeStore"
  BY <1>1, <1>2, StoreSteps DEF NewRouteConfig, Denotes
<1>4. /\ level'[w] < Len(stream'[w].chain) /\ Route(w)' = Route(w)
      /\ Denotes(id[w], ConfigOf(stream[w], level[w]))'
  BY <1>1, <1>3, OnTheWay DEF MergeSteps
<1>5. WorkerFits(w)'
  BY <1>3, <1>4 DEF WorkerFits, MergeSteps, Steps, Denotes
<1> QED  BY <1>3, <1>5, Fit

\* What Go merges is one level more.
LEMMA Merged ==
    ASSUME ConfigInv, NEW w \in Workers, pc[w] = "merge"
    PROVE  /\ id[w] \in 1..Len(configCache) /\ routeId[Route(w)] \in 1..Len(configCache)
           /\ configCache[routeId[Route(w)]] = << Route(w) >>
           /\ ConfigOf(stream[w], level[w] + 1) \in Configs
           /\ WithParser => configCache[id[w]] \o configCache[routeId[Route(w)]]
                              = ConfigOf(stream[w], level[w] + 1)
           /\ ~ WithParser => ConfigOf(stream[w], level[w] + 1) = << Route(w) >>
<1> USE DEF ConfigInv
<1>1. WorkerFits(w) /\ pc[w] \in MergeSteps
  BY DEF IdsFit, MergeSteps
<1>2. /\ stream[w] \in Streams /\ level[w] \in 0..(Len(stream[w].chain) - 1)
      /\ level[w] + 1 \in 1..Len(stream[w].chain)
      /\ Route(w) = stream[w].chain[level[w] + 1] /\ Route(w) \in Routes
  BY <1>1, RouteInChain
<1>3. Denotes(id[w], ConfigOf(stream[w], level[w])) /\ routeId[Route(w)] # 0
  BY <1>1 DEF WorkerFits
<1>4. Denotes(routeId[Route(w)], << Route(w) >>)
  BY <1>2, <1>3 DEF IdsFit, CachesFit
<1>5. /\ id[w] \in 0..Len(configCache) /\ routeId[Route(w)] \in 0..Len(configCache)
      /\ Len(configCache) \in Nat
  BY <1>2 DEF TypeOK, Ids
<1>6. id[w] \in 1..Len(configCache) /\ routeId[Route(w)] \in 1..Len(configCache)
  BY <1>3, <1>4, <1>5 DEF Denotes
<1>7. level[w] + 1 \in 0..Len(stream[w].chain) /\ level[w] + 1 # 0
  BY <1>2
<1>8. ConfigOf(stream[w], level[w] + 1) \in Configs
  BY <1>2, <1>7, ConfigTypes
<1>9. WithParser => ConfigOf(stream[w], level[w] + 1)
                      = ConfigOf(stream[w], level[w]) \o << stream[w].chain[level[w] + 1] >>
  BY <1>2, OneLevelMore
<1>10. ~ WithParser => ConfigOf(stream[w], level[w] + 1) = << Route(w) >>
  BY <1>2, <1>7 DEF ConfigOf
<1> QED  BY <1>2, <1>3, <1>4, <1>6, <1>8, <1>9, <1>10 DEF Denotes

LEMMA MergeFits ==
    ASSUME ConfigInv, NEW w \in Workers, Merge(w)
    PROVE  ConfigInv'
<1> USE DEF ConfigInv
<1> DEFINE config == ConfigOf(stream[w], level[w] + 1)
<1>1. WorkerFits(w) /\ pc[w] = "merge" /\ pc[w] \in MergeSteps /\ "mergedStore" \in Steps
  BY DEF Merge, IdsFit, MergeSteps, Steps
<1>2. /\ TypeOK' /\ Grows /\ KeepsIds /\ CachesFit' /\ OnlyMoves(w) /\ UNCHANGED threads
      /\ fresh'[w] # 0 /\ configCache'[fresh'[w]] = config /\ pc'[w] = "mergedStore"
  <2>1. CASE WithParser
    <3>1. config \in Configs /\ Store(w, config) /\ Goto(w, "mergedStore")
          /\ UNCHANGED << published, caches, threads >>
      BY <1>1, <2>1, Merged DEF Merge
    <3> HIDE DEF config
    <3> QED  BY <1>1, <3>1, StoreSteps DEF Denotes
  <2>2. CASE ~ WithParser
    <3>1. /\ fresh' = [fresh EXCEPT ![w] = routeId[Route(w)]]
          /\ UNCHANGED << published, configCache, caches, threads >>
          /\ pc' = [pc EXCEPT ![w] = "mergedStore"]
      BY <2>2 DEF Merge, Goto
    <3>2. /\ routeId[Route(w)] \in Ids /\ routeId[Route(w)] # 0
          /\ configCache[routeId[Route(w)]] = config
      <4>1. /\ routeId[Route(w)] \in 1..Len(configCache)
            /\ configCache[routeId[Route(w)]] = << Route(w) >> /\ config = << Route(w) >>
        BY <1>1, <2>2, Merged
      <4> HIDE DEF config
      <4> QED  BY <4>1 DEF Ids
    <3>3. Grows /\ KeepsIds /\ CachesFit' /\ Ids' = Ids
      BY <3>1, TableKept, CachesKept DEF caches, KeepsIds, IdsFit, Ids
    <3>4. TypeOK' /\ OnlyMoves(w) /\ pc'[w] = "mergedStore" /\ fresh'[w] = routeId[Route(w)]
      BY <1>1, <3>1, <3>2, <3>3 DEF TypeOK, OnlyMoves, caches, threads
    <3> QED  BY <3>1, <3>2, <3>3, <3>4
  <2> QED  BY <2>1, <2>2
<1>3. /\ level'[w] < Len(stream'[w].chain) /\ Route(w)' = Route(w)
      /\ Denotes(id[w], ConfigOf(stream[w], level[w]))'
  BY <1>1, <1>2, OnTheWay DEF MergeSteps
<1>4. ConfigOf(stream[w], level[w] + 1)' = config
  BY <1>2 DEF ConfigOf, threads
<1>5. WorkerFits(w)'
  BY <1>2, <1>3, <1>4 DEF WorkerFits, MergeSteps, Steps, Denotes
<1> QED  BY <1>2, <1>5, Fit

\* Steps in which a worker stores an id in a member.
LEMMA StoreFilterIdFits ==
    ASSUME ConfigInv, NEW w \in Workers, StoreFilterId(w)
    PROVE  ConfigInv'
<1> USE DEF ConfigInv
<1> DEFINE f == stream[w].filter
<1>1. /\ WorkerFits(w) /\ pc[w] = "filterStore" /\ f \in Filters /\ fresh[w] \in Ids
      /\ "filterRead" \in Steps
  BY StreamParts DEF StoreFilterId, IdsFit, TypeOK, Steps
<1>2. Denotes(fresh[w], << f >>) /\ level[w] = 0
  BY <1>1 DEF WorkerFits, Steps, MergeSteps
<1>3. /\ filterId' = [filterId EXCEPT ![f] = fresh[w]] /\ pc' = [pc EXCEPT ![w] = "filterRead"]
      /\ UNCHANGED << published, configCache, routeId, mergedId, stream, level, id, fresh >>
  BY DEF StoreFilterId, Goto, threads
<1> HIDE DEF f
<1>4. TypeOK' /\ OnlyMoves(w) /\ pc'[w] = "filterRead" /\ filterId'[f] = fresh[w]
  BY <1>1, <1>3 DEF TypeOK, OnlyMoves, Ids
<1>5. Grows /\ KeepsIds
  BY <1>1, <1>2, <1>3, TableKept DEF KeepsIds, TypeOK, Denotes
<1>6. \A g \in Filters : filterId'[g] # 0 => Denotes(filterId'[g], << g >>)
  BY <1>1, <1>2, <1>3 DEF IdsFit, CachesFit, TypeOK
<1>7. CachesFit'
  BY <1>3, <1>6 DEF IdsFit, CachesFit, Denotes, ConfigOf
<1>8. WorkerFits(w)'
  BY <1>2, <1>3, <1>4 DEF WorkerFits, Steps, MergeSteps, Denotes, f
<1> QED  BY <1>4, <1>5, <1>7, <1>8, Fit

LEMMA StoreRouteIdFits ==
    ASSUME ConfigInv, NEW w \in Workers, StoreRouteId(w)
    PROVE  ConfigInv'
<1> USE DEF ConfigInv
<1> DEFINE r == Route(w)
<1>1. /\ WorkerFits(w) /\ pc[w] = "routeStore" /\ pc[w] \in MergeSteps /\ fresh[w] \in Ids
      /\ "merge" \in Steps
  BY DEF StoreRouteId, IdsFit, TypeOK, Steps, MergeSteps
<1>2. r \in Routes /\ Denotes(fresh[w], << r >>)
  BY <1>1, RouteInChain DEF WorkerFits
<1>3. /\ routeId' = [routeId EXCEPT ![r] = fresh[w]] /\ pc' = [pc EXCEPT ![w] = "merge"]
      /\ UNCHANGED << published, configCache, filterId, mergedId, stream, level, id, fresh >>
  BY DEF StoreRouteId, Goto, threads
<1> HIDE DEF r
<1>4. TypeOK' /\ OnlyMoves(w) /\ pc'[w] = "merge" /\ routeId'[r] = fresh[w]
  BY <1>1, <1>2, <1>3 DEF TypeOK, OnlyMoves, Ids
<1>5. Grows /\ KeepsIds
  BY <1>2, <1>3, TableKept DEF KeepsIds, TypeOK, Denotes
<1>6. \A q \in Routes : routeId'[q] # 0 => Denotes(routeId'[q], << q >>)
  BY <1>2, <1>3 DEF IdsFit, CachesFit, TypeOK
<1>7. CachesFit'
  BY <1>3, <1>6 DEF IdsFit, CachesFit, Denotes, ConfigOf
<1>8. /\ level'[w] < Len(stream'[w].chain) /\ Route(w)' = r
      /\ Denotes(id[w], ConfigOf(stream[w], level[w]))'
  BY <1>1, <1>3, <1>4, <1>5, OnTheWay DEF MergeSteps, threads, r
<1>9. WorkerFits(w)'
  BY <1>2, <1>4, <1>8 DEF WorkerFits, Steps, MergeSteps, Denotes
<1> QED  BY <1>4, <1>5, <1>7, <1>9, Fit

LEMMA StoreMergedIdFits ==
    ASSUME ConfigInv, OneParent, NEW w \in Workers, StoreMergedId(w)
    PROVE  ConfigInv'
<1> USE DEF ConfigInv
<1> DEFINE r == Route(w)
           config == ConfigOf(stream[w], level[w] + 1)
<1>1. /\ WorkerFits(w) /\ pc[w] = "mergedStore" /\ pc[w] \in MergeSteps /\ fresh[w] \in Ids
      /\ "mergedRead" \in Steps
  BY DEF StoreMergedId, IdsFit, TypeOK, Steps, MergeSteps
<1>2. /\ r \in Routes /\ Denotes(fresh[w], config) /\ stream[w] \in Streams
      /\ level[w] + 1 \in 1..Len(stream[w].chain) /\ r = stream[w].chain[level[w] + 1]
  BY <1>1, RouteInChain DEF WorkerFits
<1>3. /\ mergedId' = [mergedId EXCEPT ![r] = fresh[w]] /\ pc' = [pc EXCEPT ![w] = "mergedRead"]
      /\ UNCHANGED << published, configCache, filterId, routeId, stream, level, id, fresh >>
  BY DEF StoreMergedId, Goto, threads
<1>4. \A s \in Streams : \A n \in 1..Len(s.chain) : s.chain[n] = r => ConfigOf(s, n) = config
  BY <1>2 DEF OneParent
<1> HIDE DEF r, config
<1>5. TypeOK' /\ OnlyMoves(w) /\ pc'[w] = "mergedRead" /\ mergedId'[r] = fresh[w]
  BY <1>1, <1>2, <1>3 DEF TypeOK, OnlyMoves, Ids
<1>6. Grows /\ KeepsIds
  BY <1>2, <1>3, TableKept DEF KeepsIds, TypeOK, Denotes
<1>7. ASSUME NEW s \in Streams, NEW n \in 1..Len(s.chain), mergedId'[s.chain[n]] # 0
      PROVE  Denotes(mergedId'[s.chain[n]], ConfigOf(s, n))
  <2>1. s.chain[n] \in Routes
    BY StreamParts
  <2>2. CASE s.chain[n] = r
    BY <1>2, <1>4, <1>5, <2>2
  <2>3. CASE s.chain[n] # r
    <3>1. mergedId'[s.chain[n]] = mergedId[s.chain[n]]
      BY <1>3, <2>1, <2>3 DEF TypeOK
    <3> QED  BY <1>7, <3>1 DEF IdsFit, CachesFit
  <2> QED  BY <2>2, <2>3
<1>8. CachesFit'
  BY <1>3, <1>7 DEF IdsFit, CachesFit, Denotes, ConfigOf
<1>9. /\ level'[w] < Len(stream'[w].chain) /\ Route(w)' = r
      /\ Denotes(id[w], ConfigOf(stream[w], level[w]))'
  BY <1>1, <1>3, <1>5, <1>6, OnTheWay DEF MergeSteps, threads, r
<1>10. WorkerFits(w)'
  BY <1>2, <1>5, <1>9 DEF WorkerFits, Steps, MergeSteps, Denotes
<1> QED  BY <1>5, <1>6, <1>8, <1>10, Fit

-----------------------------------------------------------------------------
(* The theorems.                                                              *)

LEMMA ConfigInit == Init => ConfigInv
<1> SUFFICES ASSUME Init PROVE ConfigInv
  OBVIOUS
<1>1. SomeStream \in Streams
  BY ConfigAssumption DEF SomeStream
<1>2. configCache \in Seq(Configs) /\ Ids = {0}
  BY EmptySeq DEF Init, Ids
<1>3. TypeOK
  BY <1>1, <1>2 DEF Init, TypeOK, Steps
<1>4. CachesFit
  BY StreamParts DEF Init, CachesFit
<1>5. \A w \in Workers : WorkerFits(w)
  BY DEF Init, WorkerFits, Steps, MergeSteps
<1> QED  BY <1>3, <1>4, <1>5 DEF ConfigInv, IdsFit

LEMMA ConfigNext ==
    ASSUME ConfigInv, OneParent, [Next]_vars
    PROVE  ConfigInv'
<1>1. CASE Publish
  <2>1. published' \in BOOLEAN /\ UNCHANGED << configCache, filterId, routeId, mergedId >>
        /\ UNCHANGED << pc, stream, level, id, fresh >>
    BY <1>1 DEF Publish, caches, threads
  <2> QED
    BY <2>1 DEF ConfigInv, TypeOK, Ids, IdsFit, CachesFit, WorkerFits, Denotes, ConfigOf, Route
<1>2. CASE UNCHANGED vars
  BY <1>2 DEF vars, ConfigInv, TypeOK, Ids, IdsFit, CachesFit, WorkerFits, Denotes, ConfigOf, Route
<1>3. ASSUME NEW w \in Workers, NewStream(w) \/ FilterStep(w) \/ RouteStep(w) \/ CreateHandler(w)
      PROVE  ConfigInv'
  BY <1>3, LookSteps, NewFilterConfigFits, StoreFilterIdFits, NewRouteConfigFits, StoreRouteIdFits,
     MergeFits, StoreMergedIdFits DEF FilterStep, RouteStep
<1> QED  BY <1>1, <1>2, <1>3 DEF Next

\* Filter::getMergedConfigId: however the workers race, every id that is kept, or is on its
\* way to Go, is that of the configuration it is used for, as long as a route configuration
\* always meets the same parents.
THEOREM IdsAreRight == OneParent => (Spec => [](TypeOK /\ IdsFit))
<1> SUFFICES ASSUME OneParent PROVE Spec => []ConfigInv
  BY DEF ConfigInv
<1>1. ConfigInv /\ [Next]_vars => ConfigInv'
  BY ConfigNext
<1> QED  BY ConfigInit, <1>1, PTL DEF Spec

\* createHttpFilter of Go: the handler of a stream is made with what its own filter and route
\* configurations make.
THEOREM HandlersGetTheirConfig == OneParent => (Spec => []HandlerGetsItsConfig)
<1> SUFFICES ASSUME OneParent PROVE Spec => []HandlerGetsItsConfig
  OBVIOUS
<1>1. IdsFit => HandlerGetsItsConfig
  BY DEF IdsFit, WorkerFits, HandlerGetsItsConfig, Denotes, MergeSteps
<1>2. Spec => []IdsFit
  BY IdsAreRight, PTL
<1> QED  BY <1>1, <1>2, PTL
-----------------------------------------------------------------------------
(* Without OneParent: an id may be that of another configuration, but it is    *)
(* always one that Go has stored.                                             *)

SoundInv == TypeOK /\ IdsAreStored

\* The route configuration of a worker in the middle of the chain.
LEMMA RouteOfSound ==
    ASSUME TypeOK, NEW w \in Workers, WorkerIsSound(w), pc[w] \in MergeSteps
    PROVE  /\ stream[w] \in Streams /\ level[w] \in Nat /\ Len(stream[w].chain) \in Nat
           /\ level[w] < Len(stream[w].chain)
           /\ Route(w) \in Routes /\ << Route(w) >> \in Configs
<1>1. stream[w] \in Streams /\ level[w] \in Nat /\ level[w] < Len(stream[w].chain)
  BY DEF TypeOK, WorkerIsSound
<1>2. Len(stream[w].chain) \in Nat
  BY <1>1, StreamParts
<1>3. level[w] + 1 \in 1..Len(stream[w].chain)
  BY <1>1, <1>2
<1> QED  BY <1>1, <1>2, <1>3, StreamParts DEF Route

\* What a step of w has to preserve for everybody to be sound.
LEMMA StaysSound ==
    ASSUME SoundInv, NEW w \in Workers, KeepsIds, OnlyMoves(w), TypeOK', WorkerIsSound(w)'
    PROVE  SoundInv'
<1> SUFFICES ASSUME NEW v \in Workers \ {w} PROVE WorkerIsSound(v)'
  BY DEF SoundInv, IdsAreStored
<1>1. TypeOK /\ WorkerIsSound(v)
  BY DEF SoundInv, IdsAreStored
<1>2. /\ pc'[v] = pc[v] /\ stream'[v] = stream[v] /\ level'[v] = level[v]
      /\ id'[v] = id[v] /\ fresh'[v] = fresh[v]
  BY DEF OnlyMoves
<1>3. stream[v].filter \in Filters /\ (pc[v] \in MergeSteps => Route(v) \in Routes)
  BY <1>1, StreamParts, RouteOfSound DEF TypeOK
<1>4. filterId[stream[v].filter] # 0 => filterId'[stream[v].filter] # 0
  BY <1>3 DEF KeepsIds
<1>5. pc[v] \in MergeSteps => /\ routeId[Route(v)] # 0 => routeId'[Route(v)] # 0
                              /\ mergedId[Route(v)] # 0 => mergedId'[Route(v)] # 0
  BY <1>3 DEF KeepsIds
<1>6. Route(v)' = Route(v)
  BY <1>2 DEF Route
<1> QED  BY <1>1, <1>2, <1>4, <1>5, <1>6 DEF WorkerIsSound, MergeSteps

\* Steps that change neither the table nor the members.
LEMMA LookSound ==
    ASSUME SoundInv, NEW w \in Workers,
           NewStream(w) \/ CheckFilterId(w) \/ ReadFilterId(w) \/ CheckMergedId(w)
             \/ CheckRouteId(w) \/ ReadMergedId(w) \/ CreateHandler(w)
    PROVE  SoundInv'
<1>1. UNCHANGED << published, configCache, caches >>
  BY DEF NewStream, CheckFilterId, ReadFilterId, CheckMergedId, CheckRouteId, ReadMergedId,
         CreateHandler
<1>2. /\ TypeOK /\ WorkerIsSound(w) /\ stream[w] \in Streams
      /\ Len(stream[w].chain) \in Nat /\ stream[w].filter \in Filters
  BY StreamParts DEF SoundInv, IdsAreStored, TypeOK
<1>3. KeepsIds /\ Ids' = Ids
  BY <1>1 DEF caches, KeepsIds, Ids
<1> SUFFICES TypeOK' /\ OnlyMoves(w) /\ WorkerIsSound(w)'
  BY <1>3, StaysSound
<1> USE <1>1 DEF Goto, NextLevel, caches, threads, OnlyMoves, Steps, MergeSteps
<1>4. CASE NewStream(w)
  <2>1. TypeOK' /\ OnlyMoves(w)
    BY <1>2, <1>3, <1>4 DEF NewStream, TypeOK
  <2>2. pc'[w] = "filterCheck" /\ level'[w] = 0
    BY <1>2, <1>4 DEF NewStream, TypeOK, WorkerIsSound
  <2> QED  BY <2>1, <2>2 DEF WorkerIsSound
<1>5. CASE CheckFilterId(w)
  <2>1. TypeOK' /\ OnlyMoves(w)
    BY <1>2, <1>3, <1>5 DEF CheckFilterId, TypeOK
  <2>2. /\ pc'[w] = IF filterId[stream[w].filter] # 0 THEN "filterRead" ELSE "filterNew"
        /\ stream' = stream /\ level'[w] = 0
    BY <1>2, <1>5 DEF CheckFilterId, TypeOK, WorkerIsSound
  <2> QED  BY <2>1, <2>2 DEF WorkerIsSound
<1>6. CASE ReadFilterId(w)
  <2>1. /\ filterId[stream[w].filter] \in Ids /\ filterId[stream[w].filter] # 0
        /\ stream' = stream /\ level'[w] = 0
    BY <1>2, <1>6 DEF ReadFilterId, TypeOK, WorkerIsSound
  <2>2. TypeOK' /\ OnlyMoves(w)
    BY <1>2, <1>3, <1>6, <2>1 DEF ReadFilterId, TypeOK
  <2>3. /\ id'[w] = filterId[stream[w].filter]
        /\ pc'[w] = IF 0 < Len(stream[w].chain) THEN "mergedCheck" ELSE "ready"
    BY <1>2, <1>6 DEF ReadFilterId, TypeOK
  <2> QED  BY <1>2, <2>1, <2>2, <2>3 DEF WorkerIsSound
<1>7. CASE CheckMergedId(w)
  <2>1. TypeOK' /\ OnlyMoves(w)
    BY <1>2, <1>3, <1>7 DEF CheckMergedId, TypeOK
  <2>2. Route(w) \in Routes
    BY <1>2, <1>7, RouteOfSound DEF CheckMergedId
  <2>3. /\ pc'[w] = IF mergedId[Route(w)] > 0 THEN "mergedRead" ELSE "routeCheck"
        /\ stream' = stream /\ level' = level /\ id' = id /\ pc[w] = "mergedCheck"
    BY <1>2, <1>7 DEF CheckMergedId, TypeOK
  <2>4. mergedId[Route(w)] > 0 => mergedId[Route(w)] # 0
    BY <1>2, <2>2 DEF TypeOK, Ids
  <2> QED  BY <1>2, <2>1, <2>3, <2>4 DEF WorkerIsSound, Route
<1>8. CASE CheckRouteId(w)
  <2>1. TypeOK' /\ OnlyMoves(w)
    BY <1>2, <1>3, <1>8 DEF CheckRouteId, TypeOK
  <2>2. /\ pc'[w] = IF routeId[Route(w)] = 0 THEN "routeNew" ELSE "merge"
        /\ stream' = stream /\ level' = level /\ id' = id /\ pc[w] = "routeCheck"
    BY <1>2, <1>8 DEF CheckRouteId, TypeOK
  <2> QED  BY <1>2, <2>1, <2>2 DEF WorkerIsSound, Route
<1>9. CASE ReadMergedId(w)
  <2>1. /\ Route(w) \in Routes /\ mergedId[Route(w)] \in Ids /\ mergedId[Route(w)] # 0
        /\ level[w] \in Nat /\ level[w] < Len(stream[w].chain)
    BY <1>2, <1>9, RouteOfSound DEF ReadMergedId, TypeOK, WorkerIsSound
  <2>2. TypeOK' /\ OnlyMoves(w)
    BY <1>2, <1>3, <1>9, <2>1 DEF ReadMergedId, TypeOK
  <2>3. /\ stream' = stream /\ id'[w] = mergedId[Route(w)] /\ level'[w] = level[w] + 1
        /\ pc'[w] = IF level[w] + 1 < Len(stream[w].chain) THEN "mergedCheck" ELSE "ready"
    BY <1>2, <1>9 DEF ReadMergedId, TypeOK
  <2> QED  BY <1>2, <2>1, <2>2, <2>3 DEF WorkerIsSound
<1>10. CASE CreateHandler(w)
  <2>1. SomeStream \in Streams /\ 0 \in Ids
    <3>1. Streams # {} /\ Len(configCache) \in Nat
      BY <1>2, ConfigAssumption DEF TypeOK
    <3> QED  BY <3>1 DEF SomeStream, Ids
  <2>2. TypeOK' /\ OnlyMoves(w)
    BY <1>2, <1>3, <1>10, <2>1 DEF CreateHandler, TypeOK
  <2>3. pc'[w] = "idle" /\ level'[w] = 0
    BY <1>2, <1>10 DEF CreateHandler, TypeOK
  <2> QED  BY <2>2, <2>3 DEF WorkerIsSound
<1> QED  BY <1>4, <1>5, <1>6, <1>7, <1>8, <1>9, <1>10

\* Steps in which Go stores a configuration; next is the step that keeps its number.
LEMMA StoreSound ==
    ASSUME SoundInv, NEW w \in Workers, NEW config \in Configs,
           NEW next \in {"filterStore", "routeStore", "mergedStore"},
           Store(w, config), Goto(w, next), UNCHANGED << published, caches, threads >>,
           IF next = "filterStore" THEN pc[w] = "filterNew" ELSE pc[w] \in MergeSteps
    PROVE  SoundInv'
<1>1. TypeOK /\ WorkerIsSound(w)
  BY DEF SoundInv, IdsAreStored
<1>2. Grows /\ fresh' \in [Workers -> Ids'] /\ fresh'[w] # 0
      /\ \A v \in Workers \ {w} : fresh'[v] = fresh[v]
  BY <1>1, Stored DEF Denotes
<1>3. /\ filterId' \in [Filters -> Ids'] /\ routeId' \in [Routes -> Ids']
      /\ mergedId' \in [Routes -> Ids'] /\ id' \in [Workers -> Ids']
  BY <1>1, <1>2, RangesGrow DEF TypeOK, caches, threads
<1>4. pc' \in [Workers -> Steps] /\ pc'[w] = next /\ \A v \in Workers \ {w} : pc'[v] = pc[v]
  BY <1>1 DEF TypeOK, Goto, Steps
<1>5. TypeOK' /\ OnlyMoves(w) /\ KeepsIds
  BY <1>1, <1>2, <1>3, <1>4 DEF TypeOK, Grows, threads, OnlyMoves, KeepsIds, caches
<1>6. WorkerIsSound(w)'
  BY <1>1, <1>2, <1>4 DEF WorkerIsSound, MergeSteps, Steps, threads
<1> QED  BY <1>5, <1>6, StaysSound

LEMMA GoSound ==
    ASSUME SoundInv, NEW w \in Workers, NewFilterConfig(w) \/ NewRouteConfig(w) \/ Merge(w)
    PROVE  SoundInv'
<1>1. TypeOK /\ WorkerIsSound(w)
  BY DEF SoundInv, IdsAreStored
<1>2. CASE NewFilterConfig(w)
  <2>1. << stream[w].filter >> \in Configs
    BY <1>1, StreamParts DEF TypeOK
  <2> QED  BY <1>2, <2>1, StoreSound DEF NewFilterConfig
<1>3. CASE NewRouteConfig(w)
  <2>1. pc[w] = "routeNew" /\ pc[w] \in MergeSteps
    BY <1>3 DEF NewRouteConfig, MergeSteps
  <2>2. << Route(w) >> \in Configs
    BY <1>1, <2>1, RouteOfSound
  <2> QED  BY <1>3, <2>1, <2>2, StoreSound DEF NewRouteConfig
<1>4. CASE Merge(w)
  <2>1. pc[w] = "merge" /\ pc[w] \in MergeSteps
    BY <1>4 DEF Merge, MergeSteps
  <2>2. Route(w) \in Routes
    BY <1>1, <2>1, RouteOfSound
  <2>3. /\ id[w] \in Ids /\ id[w] # 0 /\ routeId[Route(w)] \in Ids /\ routeId[Route(w)] # 0
        /\ configCache \in Seq(Configs) /\ Len(configCache) \in Nat
    BY <1>1, <2>1, <2>2 DEF TypeOK, WorkerIsSound
  <2>4. CASE WithParser
    <3>1. id[w] \in 1..Len(configCache) /\ routeId[Route(w)] \in 1..Len(configCache)
      BY <2>3 DEF Ids
    <3>2. configCache[id[w]] \in Configs /\ configCache[routeId[Route(w)]] \in Configs
      BY <2>3, <3>1, ElementOfSeq
    <3>3. configCache[id[w]] \o configCache[routeId[Route(w)]] \in Configs
      BY <3>2, ConcatProperties DEF Configs
    <3> QED  BY <1>4, <2>1, <2>4, <3>3, StoreSound DEF Merge
  <2>5. CASE ~ WithParser
    <3>1. /\ fresh' = [fresh EXCEPT ![w] = routeId[Route(w)]]
          /\ pc' = [pc EXCEPT ![w] = "mergedStore"]
          /\ UNCHANGED << published, configCache, caches, threads >>
      BY <1>4, <2>5 DEF Merge, Goto
    <3>2. TypeOK' /\ OnlyMoves(w) /\ KeepsIds
      BY <1>1, <2>3, <3>1 DEF TypeOK, OnlyMoves, KeepsIds, Ids, Steps, caches, threads
    <3>3. pc'[w] = "mergedStore" /\ fresh'[w] = routeId[Route(w)]
      BY <1>1, <3>1 DEF TypeOK
    <3>4. WorkerIsSound(w)'
      BY <1>1, <2>1, <2>3, <3>1, <3>3 DEF WorkerIsSound, MergeSteps, Steps, threads
    <3> QED  BY <3>2, <3>4, StaysSound
  <2> QED  BY <2>4, <2>5
<1> QED  BY <1>2, <1>3, <1>4

\* Steps in which a worker stores an id in a member.
LEMMA KeepSound ==
    ASSUME SoundInv, NEW w \in Workers, StoreFilterId(w) \/ StoreRouteId(w) \/ StoreMergedId(w)
    PROVE  SoundInv'
<1>1. /\ TypeOK /\ WorkerIsSound(w) /\ stream[w].filter \in Filters
      /\ pc[w] \in MergeSteps => Route(w) \in Routes
  BY StreamParts, RouteOfSound DEF SoundInv, IdsAreStored, TypeOK
<1>2. fresh[w] \in Ids /\ fresh[w] # 0
  BY <1>1 DEF StoreFilterId, StoreRouteId, StoreMergedId, TypeOK, WorkerIsSound
<1>3. UNCHANGED << published, configCache, threads, fresh >> /\ Ids' = Ids
  BY DEF StoreFilterId, StoreRouteId, StoreMergedId, Ids
<1>4. Route(w)' = Route(w)
  BY <1>3 DEF Route, threads
<1> USE DEF Goto, threads, OnlyMoves, KeepsIds, Steps, MergeSteps
<1>5. CASE StoreFilterId(w)
  <2>1. TypeOK' /\ OnlyMoves(w) /\ KeepsIds
    BY <1>1, <1>2, <1>3, <1>5 DEF StoreFilterId, TypeOK
  <2>2. pc[w] = "filterStore" /\ pc'[w] = "filterRead" /\ filterId'[stream[w].filter] # 0
    BY <1>1, <1>2, <1>5 DEF StoreFilterId, TypeOK
  <2>3. WorkerIsSound(w)'
    BY <1>1, <1>3, <2>2 DEF WorkerIsSound
  <2> QED  BY <2>1, <2>3, StaysSound
<1>6. CASE StoreRouteId(w)
  <2>1. pc[w] = "routeStore" /\ Route(w) \in Routes
    BY <1>1, <1>6 DEF StoreRouteId
  <2>2. TypeOK' /\ OnlyMoves(w) /\ KeepsIds
    BY <1>1, <1>2, <1>3, <1>6, <2>1 DEF StoreRouteId, TypeOK
  <2>3. pc'[w] = "merge" /\ routeId'[Route(w)] # 0
    BY <1>1, <1>2, <1>6, <2>1 DEF StoreRouteId, TypeOK
  <2>4. WorkerIsSound(w)'
    BY <1>1, <1>3, <1>4, <2>1, <2>3 DEF WorkerIsSound
  <2> QED  BY <2>2, <2>4, StaysSound
<1>7. CASE StoreMergedId(w)
  <2>1. pc[w] = "mergedStore" /\ Route(w) \in Routes
    BY <1>1, <1>7 DEF StoreMergedId
  <2>2. TypeOK' /\ OnlyMoves(w) /\ KeepsIds
    BY <1>1, <1>2, <1>3, <1>7, <2>1 DEF StoreMergedId, TypeOK
  <2>3. pc'[w] = "mergedRead" /\ mergedId'[Route(w)] # 0
    BY <1>1, <1>2, <1>7, <2>1 DEF StoreMergedId, TypeOK
  <2>4. WorkerIsSound(w)'
    BY <1>1, <1>3, <1>4, <2>1, <2>3 DEF WorkerIsSound
  <2> QED  BY <2>2, <2>4, StaysSound
<1> QED  BY <1>5, <1>6, <1>7

LEMMA SoundNext ==
    ASSUME SoundInv, [Next]_vars
    PROVE  SoundInv'
<1> USE DEF SoundInv, IdsAreStored
<1>1. CASE Publish
  <2>1. published' \in BOOLEAN /\ UNCHANGED << configCache, filterId, routeId, mergedId >>
        /\ UNCHANGED << pc, stream, level, id, fresh >>
    BY <1>1 DEF Publish, caches, threads
  <2> QED  BY <2>1 DEF TypeOK, Ids, WorkerIsSound, Route
<1>2. CASE UNCHANGED vars
  BY <1>2 DEF vars, TypeOK, Ids, WorkerIsSound, Route
<1>3. ASSUME NEW w \in Workers, NewStream(w) \/ FilterStep(w) \/ RouteStep(w) \/ CreateHandler(w)
      PROVE  SoundInv'
  BY <1>3, LookSound, GoSound, KeepSound DEF FilterStep, RouteStep
<1> QED  BY <1>1, <1>2, <1>3 DEF Next

\* getMergedConfigId and the lookups of moeMergeHttpPluginConfig: whatever the route
\* configurations share and however the workers race, every id that is passed to Go is that of
\* a configuration Go has stored, so what is left open there ("TODO: throw error", config.go:75)
\* and in getOrCreateHttpFilterFactory ("TODO: panic", filtermanager.go:41) does not occur.
THEOREM IdsAreAlwaysStored == Spec => [](TypeOK /\ IdsAreStored)
<1>1. Init => SoundInv
  <2> SUFFICES ASSUME Init PROVE SoundInv
    OBVIOUS
  <2>1. TypeOK
    BY ConfigInit DEF ConfigInv
  <2>2. \A w \in Workers : WorkerIsSound(w)
    BY DEF Init, WorkerIsSound, Steps, MergeSteps
  <2> QED  BY <2>1, <2>2 DEF SoundInv, IdsAreStored
<1>2. SoundInv /\ [Next]_vars => SoundInv'
  BY SoundNext
<1>3. SoundInv => TypeOK /\ IdsAreStored
  BY DEF SoundInv
<1> QED  BY <1>1, <1>2, <1>3, PTL DEF Spec

-----------------------------------------------------------------------------
(* Each worker creates a configuration once.                                  *)

\* One worker moves around one member: from those who create a configuration (A) to those
\* who keep its id (P), and Go may store n as one more copy of it.
OneMove(w, n, C, C1, A, A1, P, P1, kept, kept1) ==
    /\ IsFiniteSet(C)
    /\ A \subseteq Workers /\ A1 \subseteq Workers /\ P \subseteq Workers /\ P1 \subseteq Workers
    /\ A \ {w} = A1 \ {w} /\ P \ {w} = P1 \ {w} /\ A \cap P = {} /\ A1 \cap P1 = {}
    /\ kept => kept1
    /\ \/ C1 = C
       \/ C1 = C \cup {n} /\ w \in A /\ w \notin A1 /\ w \notin P /\ w \in P1
    /\ w \in A1 /\ w \notin A => ~ kept /\ w \notin P
    /\ w \in P /\ w \notin P1 => kept1
    /\ Cardinality(C) + Cardinality(A) <= Cardinality(Workers)
    /\ ~ kept => Cardinality(C) <= Cardinality(P)

LEMMA OneMoves ==
    ASSUME NEW w, NEW n, NEW C, NEW C1, NEW A, NEW A1, NEW P, NEW P1,
           NEW kept \in BOOLEAN, NEW kept1 \in BOOLEAN,
           OneMove(w, n, C, C1, A, A1, P, P1, kept, kept1)
    PROVE  /\ Cardinality(C1) + Cardinality(A1) <= Cardinality(Workers)
           /\ ~ kept1 => Cardinality(C1) <= Cardinality(P1)
<1> USE DEF OneMove
<1>1. /\ IsFiniteSet(Workers) /\ Cardinality(Workers) \in Nat
      /\ IsFiniteSet(A) /\ IsFiniteSet(A1) /\ IsFiniteSet(P) /\ IsFiniteSet(P1)
  BY ConfigAssumption, FS_CardinalityType, FS_Subset
<1>2. /\ Cardinality(C) \in Nat /\ Cardinality(A) \in Nat /\ Cardinality(A1) \in Nat
      /\ Cardinality(P) \in Nat /\ Cardinality(P1) \in Nat
  BY <1>1, FS_CardinalityType
<1>3. Cardinality(C \cup {n}) \in Nat /\ Cardinality(C \cup {n}) <= Cardinality(C) + 1
  <2>1. Cardinality(C \cup {n}) = IF n \in C THEN Cardinality(C) ELSE Cardinality(C) + 1
    BY FS_AddElement
  <2> QED  BY <1>2, <2>1
<1>4. ASSUME NEW S \in SUBSET Workers, NEW T \in SUBSET Workers, S \ {w} = T \ {w},
             IsFiniteSet(S), IsFiniteSet(T)
      PROVE  /\ w \in S /\ w \notin T => Cardinality(S) = Cardinality(T) + 1
             /\ (w \in S <=> w \in T) => S = T
  <2>1. w \in S /\ w \notin T => S = T \cup {w}
    BY <1>4
  <2>2. Cardinality(T \cup {w}) = IF w \in T THEN Cardinality(T) ELSE Cardinality(T) + 1
    BY <1>4, FS_AddElement
  <2>3. (w \in S <=> w \in T) => S = T
    BY <1>4
  <2> QED  BY <2>1, <2>2, <2>3
<1>5. /\ w \in A /\ w \notin A1 => Cardinality(A) = Cardinality(A1) + 1
      /\ (w \in A <=> w \in A1) => A = A1
  BY <1>1, <1>4
<1>6. /\ w \notin P /\ w \in P1 => Cardinality(P1) = Cardinality(P) + 1
      /\ (w \in P <=> w \in P1) => P = P1
  BY <1>1, <1>4
<1>7. CASE C1 = C /\ (w \in A1 => w \in A)
  <2>1. Cardinality(A1) <= Cardinality(A)
    BY <1>2, <1>5, <1>7
  <2>2. ~ kept1 => Cardinality(P) <= Cardinality(P1)
    BY <1>2, <1>6
  <2> QED  BY <1>2, <1>7, <2>1, <2>2, <1>1
<1>8. CASE C1 = C /\ w \in A1 /\ w \notin A
  <2>1. P \cap A1 = {}
    BY <1>8
  <2>2. Cardinality(P \cup A1) = Cardinality(P) + Cardinality(A1)
    <3>1. Cardinality(P \cup A1) = Cardinality(P) + Cardinality(A1) - Cardinality(P \cap A1)
      BY <1>1, FS_Union
    <3>2. Cardinality(P \cap A1) = 0
      BY <2>1, FS_EmptySet
    <3> QED  BY <1>2, <3>1, <3>2
  <2>3. Cardinality(P \cup A1) <= Cardinality(Workers)
    <3>1. P \cup A1 \in SUBSET Workers
      OBVIOUS
    <3> QED  BY <1>1, <3>1, FS_Subset
  <2>4. ~ kept1 => Cardinality(P) <= Cardinality(P1)
    BY <1>2, <1>6
  <2> QED  BY <1>1, <1>2, <1>8, <2>2, <2>3, <2>4
<1>9. CASE C1 = C \cup {n} /\ w \in A /\ w \notin A1 /\ w \notin P /\ w \in P1
  <2>1. Cardinality(C1) \in Nat /\ Cardinality(C1) <= Cardinality(C) + 1
    BY <1>3, <1>9
  <2>2. Cardinality(A) = Cardinality(A1) + 1 /\ Cardinality(P1) = Cardinality(P) + 1
    BY <1>5, <1>6, <1>9
  <2> QED  BY <1>1, <1>2, <2>1, <2>2
<1> QED  BY <1>7, <1>8, <1>9

\* The numbers of a configuration in the table.
LEMMA CopiesAre ==
    ASSUME TypeOK, NEW config
    PROVE  /\ IsFiniteSet(Copies(config))
           /\ (\A n \in 1..Len(configCache) : configCache[n] # config) => Copies(config) = {}
<1>1. Len(configCache) \in Nat
  BY DEF TypeOK
<1>2. IsFiniteSet(1..Len(configCache))
  BY <1>1, FS_Interval
<1>3. Copies(config) \in SUBSET (1..Len(configCache))
  BY DEF Copies
<1> QED  BY <1>2, <1>3, FS_Subset DEF Copies

\* Go adds one copy of one configuration.
LEMMA CopiesStored ==
    ASSUME TypeOK, NEW w \in Workers, NEW config, NEW other, Store(w, config)
    PROVE  Copies(other)' = IF other = config THEN Copies(other) \cup {Len(configCache) + 1}
                            ELSE Copies(other)
<1>1. configCache \in Seq(Configs) /\ Len(configCache) \in Nat
  BY DEF TypeOK
<1>2. configCache' = Append(configCache, config)
  BY DEF Store
<1>3. /\ Len(configCache') = Len(configCache) + 1
      /\ \A n \in 1..Len(configCache) : configCache'[n] = configCache[n]
      /\ configCache'[Len(configCache) + 1] = config
  BY <1>1, <1>2
<1>4. 1..(Len(configCache) + 1) = 1..Len(configCache) \cup {Len(configCache) + 1}
  BY <1>1
<1> QED  BY <1>3, <1>4 DEF Copies

\* What is not in the table yet was not created.
LEMMA NotCreated ==
    ASSUME TypeOK, NEW config, Copies(config) = {}
    PROVE  CreatedOnce(config)
<1>1. Cardinality(Copies(config)) = 0
  BY FS_EmptySet
<1>2. IsFiniteSet(Workers) /\ Creators(config) \in SUBSET Workers /\ Keepers(config) \in SUBSET Workers
  BY ConfigAssumption DEF Creators, Keepers
<1>3. /\ Cardinality(Creators(config)) \in Nat /\ Cardinality(Keepers(config)) \in Nat
      /\ Cardinality(Creators(config)) <= Cardinality(Workers)
  BY <1>2, FS_Subset, FS_CardinalityType
<1> QED  BY <1>1, <1>3 DEF CreatedOnce

\* One worker moves: what that means for one configuration.
MovesFor(w, config) ==
    /\ Kept(config) => Kept(config)'
    /\ \/ Copies(config)' = Copies(config)
       \/ /\ Copies(config)' = Copies(config) \cup {Len(configCache) + 1}
          /\ Creates(w, config) /\ ~ Creates(w, config)' /\ Keeps(w, config)'
    /\ Creates(w, config)' /\ ~ Creates(w, config) => ~ Kept(config) /\ ~ Keeps(w, config)
    /\ Keeps(w, config) /\ ~ Keeps(w, config)' => Kept(config)'

\* Then it was still created once per worker.
LEMMA OnceMore ==
    ASSUME TypeOK, TypeOK', NEW w \in Workers, OnlyMoves(w), NEW config, CreatedOnce(config),
           MovesFor(w, config)
    PROVE  CreatedOnce(config)'
<1> DEFINE C  == Copies(config)
           C1 == Copies(config)'
           A  == Creators(config)
           A1 == Creators(config)'
           P  == Keepers(config)
           P1 == Keepers(config)'
           kept  == Kept(config)
           kept1 == Kept(config)'
<1>1. IsFiniteSet(C)
  BY CopiesAre
<1>2. A \in SUBSET Workers /\ A1 \in SUBSET Workers /\ P \in SUBSET Workers /\ P1 \in SUBSET Workers
  BY DEF Creators, Keepers
<1>3. A \ {w} = A1 \ {w} /\ P \ {w} = P1 \ {w}
  <2>1. ASSUME NEW v \in Workers \ {w}
        PROVE  Creates(v, config)' = Creates(v, config) /\ Keeps(v, config)' = Keeps(v, config)
    <3>1. pc'[v] = pc[v] /\ stream'[v] = stream[v] /\ Route(v)' = Route(v)
      BY DEF OnlyMoves, Route
    <3> QED  BY <3>1 DEF Creates, Keeps, OfFilter, OfRoute
  <2> QED  BY <2>1 DEF Creators, Keepers
<1>4. A \cap P = {} /\ A1 \cap P1 = {}
  BY DEF Creators, Keepers, Creates, Keeps
<1>5. kept \in BOOLEAN /\ kept1 \in BOOLEAN
  BY DEF Kept
<1>6. /\ w \in A <=> Creates(w, config)
      /\ w \in A1 <=> Creates(w, config)'
      /\ w \in P <=> Keeps(w, config)
      /\ w \in P1 <=> Keeps(w, config)'
  BY DEF Creators, Keepers
<1>7. /\ kept => kept1
      /\ \/ C1 = C
         \/ C1 = C \cup {Len(configCache) + 1} /\ w \in A /\ w \notin A1 /\ w \in P1
      /\ w \in A1 /\ w \notin A => ~ kept /\ w \notin P
      /\ w \in P /\ w \notin P1 => kept1
  BY <1>6 DEF MovesFor
<1>8. /\ Cardinality(C) + Cardinality(A) <= Cardinality(Workers)
      /\ ~ kept => Cardinality(C) <= Cardinality(P)
  BY DEF CreatedOnce
<1>9. \/ C1 = C
      \/ C1 = C \cup {Len(configCache) + 1} /\ w \in A /\ w \notin A1 /\ w \notin P /\ w \in P1
  <2>1. w \in A => w \notin P
    BY <1>4
  <2> QED  BY <1>7, <2>1
<1> HIDE DEF C, C1, A, A1, P, P1, kept, kept1
<1>10. OneMove(w, Len(configCache) + 1, C, C1, A, A1, P, P1, kept, kept1)
  BY <1>1, <1>2, <1>3, <1>4, <1>7, <1>8, <1>9, Zenon DEF OneMove
<1>11. /\ Cardinality(C1) + Cardinality(A1) <= Cardinality(Workers)
       /\ ~ kept1 => Cardinality(C1) <= Cardinality(P1)
  BY <1>5, <1>10, OneMoves, Zenon
<1> QED  BY <1>11 DEF CreatedOnce, C1, A1, P1, kept1

WorkerStep(w) == NewStream(w) \/ FilterStep(w) \/ RouteStep(w) \/ CreateHandler(w)

\* What holds of every step of a worker.
LEMMA WorkerStepFacts ==
    ASSUME SoundInv, NEW w \in Workers, WorkerStep(w)
    PROVE  TypeOK' /\ OnlyMoves(w) /\ KeepsIds /\ WorkerIsSound(w)
<1>1. Next
  BY DEF WorkerStep, Next
<1>2. TypeOK /\ TypeOK' /\ WorkerIsSound(w)
  BY <1>1, SoundNext DEF SoundInv, IdsAreStored
<1>3. OnlyMoves(w)
  BY <1>2 DEF TypeOK, WorkerStep, FilterStep, RouteStep, NewStream, CheckFilterId, NewFilterConfig,
     StoreFilterId, ReadFilterId, CheckMergedId, CheckRouteId, NewRouteConfig, StoreRouteId, Merge,
     StoreMergedId, ReadMergedId, CreateHandler, Goto, NextLevel, Store, threads, OnlyMoves
<1>4. KeepsIds
  <2>1. CASE StoreFilterId(w)
    BY <1>2, <2>1 DEF StoreFilterId, TypeOK, WorkerIsSound, KeepsIds
  <2>2. CASE StoreRouteId(w)
    BY <1>2, <2>2 DEF StoreRouteId, TypeOK, WorkerIsSound, KeepsIds
  <2>3. CASE StoreMergedId(w)
    BY <1>2, <2>3 DEF StoreMergedId, TypeOK, WorkerIsSound, KeepsIds
  <2>4. CASE UNCHANGED caches
    BY <2>4 DEF caches, KeepsIds
  <2> QED  BY <2>1, <2>2, <2>3, <2>4 DEF WorkerStep, FilterStep, RouteStep, NewStream, CheckFilterId,
                NewFilterConfig, ReadFilterId, CheckMergedId, CheckRouteId, NewRouteConfig, Merge,
                ReadMergedId, CreateHandler
<1> QED  BY <1>2, <1>3, <1>4

\* The last part of a configuration tells what it was made for.
LEMMA LastParts ==
    ASSUME NEW config \in Configs, config # << >>
    PROVE  /\ Last(config) \in Filters \cup Routes
           /\ Last(config) \in Filters => Last(config) \notin Routes
           /\ KeepsIds /\ Kept(config) => Kept(config)'
<1>1. Last(config) \in Filters \cup Routes
  <2>1. Len(config) \in Nat /\ config \in Seq(Filters \cup Routes)
    BY DEF Configs
  <2>2. Len(config) # 0
    BY <2>1, EmptySeq
  <2>3. Len(config) \in 1..Len(config)
    BY <2>1, <2>2
  <2> QED  BY <2>1, <2>3, ElementOfSeq DEF Last
<1>2. Filters \cap Routes = {}
  BY ConfigAssumption
<1>3. KeepsIds /\ Kept(config) => Kept(config)'
  BY <1>1, <1>2 DEF KeepsIds, Kept, OfFilter, OfRoute
<1> QED  BY <1>1, <1>2, <1>3

\* One part alone.
LEMMA OnePart ==
    ASSUME NEW x \in Filters \cup Routes
    PROVE  << x >> \in Configs /\ << x >> # << >> /\ Len(<< x >>) = 1 /\ Last(<< x >>) = x
BY DEF Configs, Last

\* Two configurations of one part are the same if they end alike.
LEMMA OneIsLast ==
    ASSUME NEW config \in Configs, Len(config) = 1
    PROVE  config = << Last(config) >>
BY DEF Configs, Last

\* It is enough to look at what the step of one worker means for each configuration.
LEMMA CreationStep ==
    ASSUME TypeOK, TypeOK', CreationInv, NEW w \in Workers, OnlyMoves(w), RoutesFit',
           \A config \in Configs \ {<< >>} : MovesFor(w, config),
           \/ UNCHANGED configCache
           \/ \E config \in Configs \ {<< >>} :
                /\ Store(w, config)
                /\ OfFilter(config) => Len(config) = 1
    PROVE  CreationInv'
<1>1. configCache \in Seq(Configs) /\ configCache' \in Seq(Configs) /\ Len(configCache) \in Nat
  BY DEF TypeOK
<1>2. ASSUME NEW n \in 1..Len(configCache')
      PROVE  /\ configCache'[n] # << >>
             /\ OfFilter(configCache'[n]) => Len(configCache'[n]) = 1
  <2>1. CASE UNCHANGED configCache
    BY <1>2, <2>1 DEF CreationInv, TableFits
  <2>2. ASSUME NEW config \in Configs \ {<< >>}, Store(w, config),
               OfFilter(config) => Len(config) = 1
        PROVE  /\ configCache'[n] # << >>
               /\ OfFilter(configCache'[n]) => Len(configCache'[n]) = 1
    <3>1. configCache' = Append(configCache, config)
      BY <2>2 DEF Store
    <3>2. \/ n \in 1..Len(configCache) /\ configCache'[n] = configCache[n]
          \/ configCache'[n] = config
      BY <1>1, <1>2, <3>1
    <3> QED  BY <2>2, <3>2 DEF CreationInv, TableFits
  <2> QED  BY <2>1, <2>2
<1>3. ASSUME NEW n \in 1..Len(configCache'), NEW config, config = configCache'[n]
      PROVE  CreatedOnce(config)'
  <2>1. config \in Configs /\ config # << >>
    BY <1>1, <1>2, <1>3, ElementOfSeq
  <2>2. CreatedOnce(config)
    <3>1. CASE \E m \in 1..Len(configCache) : configCache[m] = config
      BY <3>1 DEF CreationInv, TableFits
    <3>2. CASE \A m \in 1..Len(configCache) : configCache[m] # config
      <4>1. Copies(config) = {}
        BY <3>2, CopiesAre
      <4> QED  BY <4>1, NotCreated
    <3> QED  BY <3>1, <3>2
  <2> QED  BY <2>1, <2>2, OnceMore
<1>4. TableFits'
  <2>1. ASSUME NEW n \in 1..Len(configCache')
        PROVE  CreatedOnce(configCache[n])'
    BY <1>3, Zenon DEF CreatedOnce, Copies, Kept, Creators, Keepers, Creates, Keeps,
                       OfFilter, OfRoute, Last
  <2> QED  BY <1>2, <2>1 DEF TableFits, OfFilter, Last
<1> QED  BY <1>4 DEF CreationInv

\* Workers outside of what it takes to create a configuration.
Outside(step) == step \notin {"filterNew", "filterStore", "routeCheck", "routeNew", "routeStore",
                              "merge", "mergedStore"}

\* Steps that do not create a configuration, and do not touch the ids of the routes.
LEMMA RoutesStayFit ==
    ASSUME TypeOK, RoutesFit, NEW w \in Workers, OnlyMoves(w), UNCHANGED routeId, Grows,
           pc'[w] = "routeStore" => Denotes(fresh[w], << Route(w) >>)'
    PROVE  RoutesFit'
<1>1. ASSUME NEW n \in Ids, NEW config, Denotes(n, config) PROVE Denotes(n, config)'
  BY <1>1 DEF Denotes, Grows
<1>2. ASSUME NEW r \in Routes, routeId'[r] # 0 PROVE Denotes(routeId[r], << r >>)'
  <2>1. routeId[r] \in Ids /\ Denotes(routeId[r], << r >>) /\ routeId' = routeId
    BY <1>2 DEF RoutesFit, TypeOK
  <2> QED  BY <1>1, <2>1 DEF Denotes
<1>3. ASSUME NEW v \in Workers, pc'[v] = "routeStore", v # w PROVE Denotes(fresh[v], << Route(v) >>)'
  <2>1. /\ pc[v] = "routeStore" /\ fresh[v] \in Ids /\ fresh'[v] = fresh[v]
        /\ stream'[v] = stream[v] /\ level'[v] = level[v]
    BY <1>3 DEF OnlyMoves, TypeOK
  <2>2. Denotes(fresh[v], << Route(v) >>)
    BY <2>1 DEF RoutesFit
  <2> QED  BY <1>1, <2>1, <2>2 DEF Denotes, Route
<1> QED  BY <1>2, <1>3 DEF RoutesFit

\* Steps in which Go stores nothing.
LEMMA QuietCreation ==
    ASSUME SoundInv, CreationInv, NEW w \in Workers, WorkerStep(w), RoutesFit',
           UNCHANGED configCache,
           \A config \in Configs \ {<< >>} :
              /\ Creates(w, config)' /\ ~ Creates(w, config) => ~ Kept(config) /\ ~ Keeps(w, config)
              /\ Keeps(w, config) /\ ~ Keeps(w, config)' => Kept(config)'
    PROVE  CreationInv'
<1>1. TypeOK /\ TypeOK' /\ OnlyMoves(w) /\ KeepsIds
  BY WorkerStepFacts DEF SoundInv
<1>2. ASSUME NEW config \in Configs \ {<< >>} PROVE MovesFor(w, config)
  <2>1. Kept(config) => Kept(config)'
    BY <1>1, LastParts
  <2>2. Copies(config)' = Copies(config)
    BY DEF Copies
  <2> QED  BY <2>1, <2>2 DEF MovesFor
<1> QED  BY <1>1, <1>2, CreationStep

\* Steps outside of the creation of a configuration.
LEMMA OutsideCreates ==
    ASSUME SoundInv, CreationInv, NEW w \in Workers,
           NewStream(w) \/ ReadFilterId(w) \/ ReadMergedId(w) \/ CreateHandler(w)
    PROVE  CreationInv'
<1>1. WorkerStep(w) /\ UNCHANGED <<configCache, caches>>
  BY DEF WorkerStep, FilterStep, RouteStep, NewStream, ReadFilterId, ReadMergedId, CreateHandler
<1>2. TypeOK /\ TypeOK' /\ OnlyMoves(w)
  BY <1>1, WorkerStepFacts DEF SoundInv
<1>3. Outside(pc[w]) /\ Outside(pc'[w])
  BY <1>2 DEF TypeOK, NewStream, ReadFilterId, ReadMergedId, CreateHandler, Goto, NextLevel, Outside
<1>4. ASSUME NEW config \in Configs \ {<< >>}
      PROVE  ~ Creates(w, config)' /\ ~ Keeps(w, config)
  BY <1>3 DEF Creates, Keeps, Outside
<1>5. RoutesFit'
  BY <1>1, <1>2, <1>3, TableKept, RoutesStayFit DEF CreationInv, caches, Outside
<1> QED  BY <1>1, <1>4, <1>5, QuietCreation

\* A worker looks whether an id is there.
LEMMA ChecksCreate ==
    ASSUME SoundInv, CreationInv, NEW w \in Workers,
           CheckFilterId(w) \/ CheckMergedId(w) \/ CheckRouteId(w)
    PROVE  CreationInv'
<1>1. WorkerStep(w) /\ UNCHANGED <<configCache, caches, threads, fresh>>
  BY DEF WorkerStep, FilterStep, RouteStep, CheckFilterId, CheckMergedId, CheckRouteId
<1>2. TypeOK /\ TypeOK' /\ OnlyMoves(w) /\ Route(w)' = Route(w) /\ stream'[w] = stream[w]
  BY <1>1, WorkerStepFacts DEF SoundInv, threads, Route
<1>3. \/ /\ pc[w] = "filterCheck" /\ pc'[w] \in {"filterRead", "filterNew"}
         /\ pc'[w] = "filterNew" => filterId[stream[w].filter] = 0
      \/ /\ pc[w] = "mergedCheck" /\ pc'[w] \in {"mergedRead", "routeCheck"}
         /\ pc'[w] = "routeCheck" => ~ (mergedId[Route(w)] > 0)
      \/ /\ pc[w] = "routeCheck" /\ pc'[w] \in {"routeNew", "merge"}
         /\ pc'[w] = "routeNew" => routeId[Route(w)] = 0
  BY <1>2 DEF TypeOK, CheckFilterId, CheckMergedId, CheckRouteId, Goto
<1>4. pc[w] = "mergedCheck" => mergedId[Route(w)] \in Nat
  <2>1. pc[w] = "mergedCheck" => Route(w) \in Routes
    BY <1>2, RouteOfSound DEF SoundInv, IdsAreStored, MergeSteps
  <2> QED  BY <1>2, <2>1 DEF TypeOK, Ids
<1>5. ASSUME NEW config \in Configs \ {<< >>}
      PROVE  /\ Creates(w, config)' /\ ~ Creates(w, config) => ~ Kept(config)
             /\ ~ Keeps(w, config)
  <2>1. ~ Keeps(w, config)
    BY <1>3 DEF Keeps
  <2>2. Creates(w, config)' /\ ~ Creates(w, config) => ~ Kept(config)
    BY <1>2, <1>3, <1>4 DEF Creates, Kept, OfFilter, OfRoute
  <2> QED  BY <2>1, <2>2
<1>6. RoutesFit'
  BY <1>1, <1>2, <1>3, TableKept, RoutesStayFit DEF CreationInv, caches
<1> QED  BY <1>1, <1>5, <1>6, QuietCreation

\* A worker keeps the id of what Go has stored.
LEMMA KeepingCreates ==
    ASSUME SoundInv, CreationInv, NEW w \in Workers,
           StoreFilterId(w) \/ StoreRouteId(w) \/ StoreMergedId(w)
    PROVE  CreationInv'
<1>1. WorkerStep(w) /\ UNCHANGED <<configCache, threads, fresh>>
  BY DEF WorkerStep, FilterStep, RouteStep, StoreFilterId, StoreRouteId, StoreMergedId
<1>2. /\ TypeOK /\ TypeOK' /\ OnlyMoves(w) /\ Route(w)' = Route(w) /\ stream'[w] = stream[w]
      /\ WorkerIsSound(w)
  BY <1>1, WorkerStepFacts DEF SoundInv, threads, Route
<1>3. /\ stream[w].filter \in Filters
      /\ pc[w] \in MergeSteps => Route(w) \in Routes
  BY <1>2, RouteOfSound, StreamParts DEF TypeOK
<1>4. \/ /\ pc[w] = "filterStore" /\ pc'[w] = "filterRead"
         /\ filterId'[stream[w].filter] # 0 /\ UNCHANGED <<routeId, mergedId>>
      \/ /\ pc[w] = "routeStore" /\ pc'[w] = "merge"
         /\ routeId' = [routeId EXCEPT ![Route(w)] = fresh[w]]
         /\ routeId'[Route(w)] # 0 /\ UNCHANGED <<filterId, mergedId>>
      \/ /\ pc[w] = "mergedStore" /\ pc'[w] = "mergedRead"
         /\ mergedId'[Route(w)] # 0 /\ UNCHANGED <<filterId, routeId>>
  <2>1. CASE StoreFilterId(w)
    BY <1>2, <1>3, <2>1 DEF StoreFilterId, Goto, TypeOK, WorkerIsSound
  <2>2. CASE StoreRouteId(w)
    BY <1>2, <1>3, <2>2 DEF StoreRouteId, Goto, TypeOK, WorkerIsSound, MergeSteps
  <2>3. CASE StoreMergedId(w)
    BY <1>2, <1>3, <2>3 DEF StoreMergedId, Goto, TypeOK, WorkerIsSound, MergeSteps
  <2> QED  BY <2>1, <2>2, <2>3
<1>5. ASSUME NEW config \in Configs \ {<< >>}
      PROVE  /\ Creates(w, config)' => Creates(w, config)
             /\ Keeps(w, config) => Kept(config)'
  BY <1>2, <1>4 DEF Creates, Keeps, Kept, OfFilter, OfRoute
<1>6. RoutesFit'
  <2>1. CASE UNCHANGED routeId
    BY <1>1, <1>2, <1>4, <2>1, TableKept, RoutesStayFit DEF CreationInv
  <2>2. CASE pc[w] = "routeStore" /\ routeId' = [routeId EXCEPT ![Route(w)] = fresh[w]]
    <3>1. Denotes(fresh[w], << Route(w) >>) /\ configCache' = configCache /\ fresh' = fresh
      BY <1>1, <2>2 DEF CreationInv, RoutesFit
    <3>2. ASSUME NEW r \in Routes, routeId'[r] # 0 PROVE Denotes(routeId[r], << r >>)'
      BY <1>2, <2>2, <3>1, <3>2 DEF Denotes, TypeOK, CreationInv, RoutesFit
    <3>3. ASSUME NEW v \in Workers, pc'[v] = "routeStore" PROVE Denotes(fresh[v], << Route(v) >>)'
      <4>1. pc[v] = "routeStore" /\ Route(v)' = Route(v)
        <5>1. CASE v = w
          BY <1>2, <2>2, <5>1
        <5>2. CASE v # w
          BY <1>2, <3>3, <5>2 DEF OnlyMoves, Route
        <5> QED  BY <5>1, <5>2
      <4>2. Denotes(fresh[v], << Route(v) >>)
        BY <4>1 DEF CreationInv, RoutesFit
      <4> QED  BY <3>1, <4>1, <4>2 DEF Denotes
    <3> QED  BY <3>2, <3>3 DEF RoutesFit
  <2> QED  BY <1>4, <2>1, <2>2
<1> QED  BY <1>1, <1>5, <1>6, QuietCreation

\* Go stores a configuration.
LEMMA StoringCreates ==
    ASSUME SoundInv, CreationInv, NEW w \in Workers, WorkerStep(w), RoutesFit',
           NEW config \in Configs \ {<< >>}, Store(w, config), OfFilter(config) => Len(config) = 1,
           \A other \in Configs \ {<< >>} :
              /\ Creates(w, other)' => Creates(w, other)
              /\ Keeps(w, other) => Keeps(w, other)',
           Creates(w, config) /\ ~ Creates(w, config)' /\ Keeps(w, config)'
    PROVE  CreationInv'
<1>1. TypeOK /\ TypeOK' /\ OnlyMoves(w) /\ KeepsIds
  BY WorkerStepFacts DEF SoundInv
<1>2. ASSUME NEW other \in Configs \ {<< >>} PROVE MovesFor(w, other)
  <2>1. Kept(other) => Kept(other)'
    BY <1>1, LastParts
  <2>2. Copies(other)' = IF other = config THEN Copies(other) \cup {Len(configCache) + 1}
                         ELSE Copies(other)
    BY <1>1, CopiesStored
  <2> QED  BY <2>1, <2>2 DEF MovesFor
<1> QED  BY <1>1, <1>2, CreationStep

\* Go stores the configuration of a filter chain ...
LEMMA NewFilterCreates ==
    ASSUME SoundInv, CreationInv, NEW w \in Workers, NewFilterConfig(w)
    PROVE  CreationInv'
<1>0. PICK config : config = << stream[w].filter >>
  OBVIOUS
<1>1. /\ WorkerStep(w) /\ Store(w, config) /\ UNCHANGED <<caches, threads>>
      /\ pc[w] = "filterNew" /\ pc' = [pc EXCEPT ![w] = "filterStore"]
  BY <1>0 DEF WorkerStep, FilterStep, NewFilterConfig, Goto
<1>2. TypeOK /\ TypeOK' /\ OnlyMoves(w) /\ Route(w)' = Route(w) /\ stream'[w] = stream[w]
  BY <1>1, WorkerStepFacts DEF SoundInv, threads, Route
<1>3. stream[w].filter \in Filters /\ pc'[w] = "filterStore"
  BY <1>1, <1>2, StreamParts DEF TypeOK
<1>4. config \in Configs \ {<< >>} /\ Len(config) = 1 /\ Last(config) = stream[w].filter
  BY <1>0, <1>3, OnePart
<1>5. Grows
  BY <1>1, <1>2, <1>4, Stored
<1>6. RoutesFit'
  BY <1>1, <1>2, <1>3, <1>5, RoutesStayFit DEF CreationInv, caches
<1>7. ASSUME NEW other
      PROVE  ~ Creates(w, other)' /\ ~ Keeps(w, other)
  BY <1>1, <1>3 DEF Creates, Keeps
<1>8. Creates(w, config) /\ Keeps(w, config)'
  BY <1>1, <1>2, <1>3, <1>4 DEF Creates, Keeps, OfFilter, OfRoute
<1> QED  BY <1>1, <1>4, <1>6, <1>7, <1>8, StoringCreates

\* ... that of a route level ...
LEMMA NewRouteCreates ==
    ASSUME SoundInv, CreationInv, NEW w \in Workers, NewRouteConfig(w)
    PROVE  CreationInv'
<1>0. PICK config : config = << Route(w) >>
  OBVIOUS
<1>1. /\ WorkerStep(w) /\ Store(w, config) /\ UNCHANGED <<caches, threads>>
      /\ pc[w] = "routeNew" /\ pc' = [pc EXCEPT ![w] = "routeStore"]
  BY <1>0 DEF WorkerStep, RouteStep, NewRouteConfig, Goto
<1>2. /\ TypeOK /\ TypeOK' /\ OnlyMoves(w) /\ Route(w)' = Route(w) /\ stream'[w] = stream[w]
      /\ WorkerIsSound(w)
  BY <1>1, WorkerStepFacts DEF SoundInv, threads, Route
<1>3. Route(w) \in Routes /\ Route(w) \notin Filters /\ pc'[w] = "routeStore"
  BY <1>1, <1>2, RouteOfSound, ConfigAssumption DEF TypeOK, MergeSteps
<1>4. config \in Configs \ {<< >>} /\ Len(config) = 1 /\ Last(config) = Route(w)
  BY <1>0, <1>3, OnePart
<1>5. Grows /\ Denotes(fresh[w], config)'
  BY <1>1, <1>2, <1>4, Stored
<1>6. Denotes(fresh[w], << Route(w) >>)'
  BY <1>0, <1>2, <1>5 DEF Denotes
<1>7. RoutesFit'
  BY <1>1, <1>2, <1>3, <1>5, <1>6, RoutesStayFit DEF CreationInv, caches
<1>8. ~ OfFilter(config) /\ OfRoute(config)
  BY <1>3, <1>4 DEF OfFilter, OfRoute
<1>9. ASSUME NEW other
      PROVE  (Creates(w, other)' => Creates(w, other)) /\ ~ Keeps(w, other)
  BY <1>1, <1>2, <1>3 DEF Creates, Keeps, OfFilter, OfRoute
<1>10. Creates(w, config) /\ ~ Creates(w, config)' /\ Keeps(w, config)'
  BY <1>1, <1>2, <1>3, <1>4, <1>8 DEF Creates, Keeps, OfFilter, OfRoute
<1> QED  BY <1>1, <1>4, <1>7, <1>8, <1>9, <1>10, StoringCreates

\* ... or a merged one.
LEMMA MergeCreates ==
    ASSUME SoundInv, CreationInv, NEW w \in Workers, Merge(w)
    PROVE  CreationInv'
<1> DEFINE parent == configCache[id[w]]
           child  == configCache[routeId[Route(w)]]
<1>0. PICK config : config = parent \o child
  OBVIOUS
<1>1. /\ WorkerStep(w) /\ UNCHANGED <<caches, threads>>
      /\ pc[w] = "merge" /\ pc' = [pc EXCEPT ![w] = "mergedStore"]
      /\ IF WithParser THEN Store(w, config)
         ELSE fresh' = [fresh EXCEPT ![w] = routeId[Route(w)]] /\ UNCHANGED configCache
  BY <1>0 DEF WorkerStep, RouteStep, Merge, Goto
<1>2. /\ TypeOK /\ TypeOK' /\ OnlyMoves(w) /\ Route(w)' = Route(w) /\ stream'[w] = stream[w]
      /\ WorkerIsSound(w)
  BY <1>1, WorkerStepFacts DEF SoundInv, threads, Route
<1>3. Route(w) \in Routes /\ Route(w) \notin Filters /\ pc'[w] = "mergedStore"
  BY <1>1, <1>2, RouteOfSound, ConfigAssumption DEF TypeOK, MergeSteps
<1>4. ASSUME NEW other
      PROVE  (Creates(w, other)' => Creates(w, other)) /\ ~ Keeps(w, other)
  BY <1>1, <1>2, <1>3 DEF Creates, Keeps, OfFilter, OfRoute
<1>5. CASE ~ WithParser
  <2>1. RoutesFit'
    <3>1. Grows
      BY <1>1, <1>2, <1>5, TableKept
    <3> QED  BY <1>1, <1>2, <1>3, <3>1, RoutesStayFit DEF CreationInv, caches
  <2> QED  BY <1>1, <1>4, <1>5, <2>1, QuietCreation
<1>6. CASE WithParser
  <2>1. child = << Route(w) >>
    BY <1>1, <1>2, <1>3 DEF WorkerIsSound, CreationInv, RoutesFit, Denotes
  <2>2. parent \in Configs \ {<< >>} /\ Len(parent) \in Nat /\ Len(parent) # 0
    <3>1. id[w] \in 1..Len(configCache)
      BY <1>1, <1>2 DEF WorkerIsSound, MergeSteps, TypeOK, Ids
    <3>2. parent \in Configs /\ parent # << >>
      BY <1>2, <3>1, ElementOfSeq DEF TypeOK, CreationInv, TableFits
    <3> QED  BY <3>2, EmptySeq DEF Configs
  <2> HIDE DEF parent
  <2>3. << Route(w) >> \in Configs /\ Len(<< Route(w) >>) = 1 /\ << Route(w) >>[1] = Route(w)
    BY <1>3 DEF Configs
  <2>4. /\ config \in Configs /\ Len(config) = Len(parent) + 1
        /\ config[Len(parent) + 1] = Route(w)
    <3> DEFINE r == << Route(w) >>
    <3>1. /\ parent \in Seq(Filters \cup Routes) /\ r \in Seq(Filters \cup Routes)
          /\ Len(r) = 1 /\ r[1] = Route(w) /\ config = parent \o r
      BY <1>0, <2>1, <2>2, <2>3 DEF Configs
    <3> HIDE DEF r
    <3>2. /\ config \in Seq(Filters \cup Routes) /\ Len(config) = Len(parent) + Len(r)
          /\ \A i \in 1..(Len(parent) + Len(r)) :
                config[i] = IF i <= Len(parent) THEN parent[i] ELSE r[i - Len(parent)]
      BY <3>1, ConcatProperties, Zenon
    <3>3. Len(parent) + 1 \in 1..(Len(parent) + Len(r)) /\ ~ (Len(parent) + 1 <= Len(parent))
      BY <2>2, <3>1
    <3>4. (Len(parent) + 1) - Len(parent) = 1
      BY <2>2
    <3>5. config[Len(parent) + 1] = r[1]
      BY <3>2, <3>3, <3>4
    <3> QED  BY <3>1, <3>2, <3>5 DEF Configs
  <2>5. /\ config \in Configs \ {<< >>} /\ ~ OfFilter(config) /\ ~ OfRoute(config)
        /\ Last(config) = Route(w)
    <3>1. Len(config) # 0 /\ Len(config) # 1
      BY <2>2, <2>4
    <3>2. Last(config) = Route(w)
      BY <2>4 DEF Last
    <3>3. config # << >>
      BY <3>1
    <3> QED  BY <1>3, <2>4, <3>1, <3>2, <3>3 DEF OfFilter, OfRoute
  <2>6. Store(w, config) /\ Grows
    BY <1>1, <1>2, <1>6, <2>5, Stored
  <2>7. RoutesFit'
    BY <1>1, <1>2, <1>3, <2>6, RoutesStayFit DEF CreationInv, caches
  <2>8. Creates(w, config) /\ ~ Creates(w, config)' /\ Keeps(w, config)'
    BY <1>1, <1>2, <1>3, <2>5 DEF Creates, Keeps, OfFilter, OfRoute
  <2> QED  BY <1>1, <1>4, <2>5, <2>6, <2>7, <2>8, StoringCreates
<1> QED  BY <1>5, <1>6

LEMMA CreationInit == Init => CreationInv
<1> SUFFICES ASSUME Init PROVE CreationInv
  OBVIOUS
<1>1. RoutesFit
  BY DEF Init, RoutesFit
<1>2. Len(configCache) = 0
  BY DEF Init
<1> QED  BY <1>1, <1>2 DEF CreationInv, TableFits

LEMMA CreationNext ==
    ASSUME SoundInv, CreationInv, [Next]_vars
    PROVE  CreationInv'
<1>1. CASE UNCHANGED vars \/ Publish
  <2>1. /\ configCache' = configCache /\ filterId' = filterId /\ routeId' = routeId
        /\ mergedId' = mergedId /\ pc' = pc /\ stream' = stream /\ level' = level /\ fresh' = fresh
    BY <1>1 DEF vars, Publish, caches, threads
  <2>2. RoutesFit'
    BY <2>1 DEF CreationInv, RoutesFit, Denotes, Route
  <2>3. TableFits'
    <3>1. ASSUME NEW config
          PROVE  /\ Copies(config)' = Copies(config) /\ Kept(config)' = Kept(config)
                 /\ Creators(config)' = Creators(config) /\ Keepers(config)' = Keepers(config)
      BY <2>1 DEF Copies, Kept, Creators, Keepers, Creates, Keeps, Route
    <3>2. ASSUME NEW config, CreatedOnce(config) PROVE CreatedOnce(config)'
      BY <3>1, <3>2 DEF CreatedOnce
    <3>3. ASSUME NEW n \in 1..Len(configCache')
          PROVE  CreatedOnce(configCache[n])'
      <4>1. PICK config : config = configCache'[n]
        OBVIOUS
      <4>2. CreatedOnce(config)
        BY <2>1, <3>3, <4>1 DEF CreationInv, TableFits
      <4>3. CreatedOnce(config)'
        BY <3>2, <4>2
      <4> QED  BY <4>1, <4>3, Zenon DEF CreatedOnce, Copies, Kept, Creators, Keepers, Creates, Keeps,
                                        OfFilter, OfRoute, Last
    <3> QED  BY <2>1, <3>3 DEF CreationInv, TableFits, OfFilter, Last
  <2> QED  BY <2>2, <2>3 DEF CreationInv
<1>2. ASSUME NEW w \in Workers, WorkerStep(w)
      PROVE  CreationInv'
  BY <1>2, OutsideCreates, ChecksCreate, KeepingCreates, NewFilterCreates, NewRouteCreates,
     MergeCreates DEF WorkerStep, FilterStep, RouteStep
<1> QED  BY <1>1, <1>2 DEF Next, WorkerStep

\* Whatever the route configurations share and however the workers race, a worker asks Go
\* for a configuration only if it has found no id of it, and stores the id before it looks again.
THEOREM CreationInvariant == Spec => []CreationInv
<1>1. Init => SoundInv
  <2> SUFFICES ASSUME Init PROVE SoundInv
    OBVIOUS
  <2>1. TypeOK
    BY ConfigInit DEF ConfigInv
  <2>2. \A w \in Workers : WorkerIsSound(w)
    BY DEF Init, WorkerIsSound, Steps, MergeSteps
  <2> QED  BY <2>1, <2>2 DEF SoundInv, IdsAreStored
<1>2. SoundInv /\ [Next]_vars => SoundInv'
  BY SoundNext
<1>3. SoundInv /\ CreationInv /\ [Next]_vars => CreationInv'
  BY CreationNext
<1> QED  BY <1>1, <1>2, <1>3, CreationInit, PTL DEF Spec

\* "TODO: delete config in Go" (golang_filter.h:33): the table of Go does not grow with the
\* streams, it has each configuration at most once per worker.
THEOREM EachWorkerCreatesOnce == Spec => []CreatedOncePerWorker
<1>1. TypeOK /\ CreationInv => CreatedOncePerWorker
  <2> SUFFICES ASSUME TypeOK, CreationInv, NEW n \in 1..Len(configCache)
               PROVE  Cardinality(Copies(configCache[n])) <= Cardinality(Workers)
    BY DEF CreatedOncePerWorker
  <2> DEFINE config == configCache[n]
  <2>1. CreatedOnce(config)
    BY DEF CreationInv, TableFits
  <2> HIDE DEF config
  <2>2. IsFiniteSet(Creators(config)) /\ IsFiniteSet(Copies(config)) /\ IsFiniteSet(Workers)
    <3>1. Creators(config) \in SUBSET Workers
      BY DEF Creators
    <3> QED  BY <3>1, ConfigAssumption, FS_Subset, CopiesAre
  <2>3. /\ Cardinality(Creators(config)) \in Nat /\ Cardinality(Copies(config)) \in Nat
        /\ Cardinality(Workers) \in Nat
    BY <2>2, FS_CardinalityType
  <2>4. Cardinality(Copies(config)) <= Cardinality(Workers)
    BY <2>1, <2>3 DEF CreatedOnce
  <2> QED  BY <2>4 DEF config
<1> QED  BY <1>1, CreationInvariant, IdsAreAlwaysStored, PTL
=============================================================================
