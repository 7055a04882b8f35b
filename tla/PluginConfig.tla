---------------------------- MODULE PluginConfig ----------------------------
(* The plugin configurations of one Go library and one plugin name: the        *)
(* FilterConfig of every filter chain, the RoutePluginConfig of every route    *)
(* level, and the table of parsed configurations in Go. All of them are        *)
(* shared by the worker threads; ids are created by the first streams that     *)
(* need them, without a lock.                                                 *)
(*                                                                            *)
(* A configuration in Go is the sequence of what was merged into it. Its id is *)
(* its number in the table; 0 stands for none.                                *)
EXTENDS Integers, Sequences, FiniteSets

CONSTANTS
    Workers,        \* worker threads
    Filters,        \* filter chains with a FilterConfig of their own
    Routes,         \* RoutePluginConfigs, of virtual hosts and routes
    Streams,        \* which filter and which route configurations, outermost first, meet
    WithParser      \* the library registered a HttpFilterConfigParser

ASSUME ConfigAssumption ==
    /\ IsFiniteSet(Workers) /\ Workers # {}
    /\ Filters \cap Routes = {}
    /\ Streams # {} /\ \A s \in Streams : s \in [filter : Filters, chain : Seq(Routes)]
    /\ WithParser \in BOOLEAN

VARIABLES
    published,      \* the library is in dso_map_
    configCache,    \* Go: the configurations; configNumGenerator is how many there are
    filterId,       \* FilterConfig::config_id_
    routeId,        \* RoutePluginConfig::config_id_
    mergedId,       \* RoutePluginConfig::merged_config_id_
    pc,             \* per worker: the next step of Filter::getMergedConfigId
    stream,         \* per worker: the stream it works for
    level,          \* per worker: how many route configurations are merged
    id,             \* per worker: the id so far, parent_id of the next merge
    fresh           \* per worker: the id Go has returned and nobody has stored yet

vars == << published, configCache, filterId, routeId, mergedId, pc, stream, level, id, fresh >>
caches == << filterId, routeId, mergedId >>
threads == << stream, level, id >>

Configs == Seq(Filters \cup Routes)

Steps == {"idle", "filterCheck", "filterNew", "filterStore", "filterRead", "mergedCheck",
          "routeCheck", "routeNew", "routeStore", "merge", "mergedStore", "mergedRead", "ready"}

\* Any stream, for a worker that has none.
SomeStream == CHOOSE s \in Streams : TRUE

Init ==
    /\ published = FALSE
    /\ configCache = << >>
    /\ filterId = [f \in Filters |-> 0]
    /\ routeId = [r \in Routes |-> 0] /\ mergedId = [r \in Routes |-> 0]
    /\ pc = [w \in Workers |-> "idle"]
    /\ stream = [w \in Workers |-> SomeStream]
    /\ level = [w \in Workers |-> 0]
    /\ id = [w \in Workers |-> 0] /\ fresh = [w \in Workers |-> 0]

-----------------------------------------------------------------------------
Goto(w, step) == pc' = [pc EXCEPT ![w] = step]

\* The route configuration whose turn it is.
Route(w) == stream[w].chain[level[w] + 1]

\* Mutant: the number returned is that of the next configuration.
Store_OffByOne(w, config) ==
    /\ configCache' = Append(configCache, config)
    /\ fresh' = [fresh EXCEPT ![w] = Len(configCache) + 2]

\* Go numbers and stores a configuration, and returns its number to w.
Store(w, config) ==
    /\ configCache' = Append(configCache, config)
    /\ fresh' = [fresh EXCEPT ![w] = Len(configCache) + 1]

\* The library is published when the server is initialized.
Publish ==
    /\ ~ published
    /\ published' = TRUE
    /\ UNCHANGED << configCache, caches, pc, threads, fresh >>

\* The first call into Go of a stream. A filter made before the library was there
\* passes everything on instead.
NewStream(w) ==
    /\ pc[w] = "idle" /\ published
    /\ \E s \in Streams : stream' = [stream EXCEPT ![w] = s]
    /\ Goto(w, "filterCheck")
    /\ UNCHANGED << published, configCache, caches, level, id, fresh >>

CheckFilterId(w) ==
    /\ pc[w] = "filterCheck"
    /\ Goto(w, IF filterId[stream[w].filter] # 0 THEN "filterRead" ELSE "filterNew")
    /\ UNCHANGED << published, configCache, caches, threads, fresh >>

NewFilterConfig(w) ==
    /\ pc[w] = "filterNew"
    /\ Store(w, << stream[w].filter >>)
    /\ Goto(w, "filterStore")
    /\ UNCHANGED << published, caches, threads >>

StoreFilterId(w) ==
    /\ pc[w] = "filterStore"
    /\ filterId' = [filterId EXCEPT ![stream[w].filter] = fresh[w]]
    /\ Goto(w, "filterRead")
    /\ UNCHANGED << published, configCache, routeId, mergedId, threads, fresh >>

\* With n levels merged, go on with the next one, or to Go.
NextLevel(w, n) == Goto(w, IF n < Len(stream[w].chain) THEN "mergedCheck" ELSE "ready")

\* return config_id_: a second read of the member.
ReadFilterId(w) ==
    /\ pc[w] = "filterRead"
    /\ id' = [id EXCEPT ![w] = filterId[stream[w].filter]]
    /\ NextLevel(w, 0)
    /\ UNCHANGED << published, configCache, caches, stream, level, fresh >>

CheckMergedId(w) ==
    /\ pc[w] = "mergedCheck"
    /\ Goto(w, IF mergedId[Route(w)] > 0 THEN "mergedRead" ELSE "routeCheck")
    /\ UNCHANGED << published, configCache, caches, threads, fresh >>

CheckRouteId(w) ==
    /\ pc[w] = "routeCheck"
    /\ Goto(w, IF routeId[Route(w)] = 0 THEN "routeNew" ELSE "merge")
    /\ UNCHANGED << published, configCache, caches, threads, fresh >>

NewRouteConfig(w) ==
    /\ pc[w] = "routeNew"
    /\ Store(w, << Route(w) >>)
    /\ Goto(w, "routeStore")
    /\ UNCHANGED << published, caches, threads >>

StoreRouteId(w) ==
    /\ pc[w] = "routeStore"
    /\ routeId' = [routeId EXCEPT ![Route(w)] = fresh[w]]
    /\ Goto(w, "merge")
    /\ UNCHANGED << published, configCache, filterId, mergedId, threads, fresh >>

\* moeMergeHttpPluginConfig: without a parser, the child overrides its parent.
Merge(w) ==
    /\ pc[w] = "merge"
    /\ IF WithParser
         THEN Store(w, configCache[id[w]] \o configCache[routeId[Route(w)]])
         ELSE fresh' = [fresh EXCEPT ![w] = routeId[Route(w)]] /\ UNCHANGED configCache
    /\ Goto(w, "mergedStore")
    /\ UNCHANGED << published, caches, threads >>

\* Mutant: the merged id is returned, but not kept.
StoreMergedId_Forgotten(w) ==
    /\ pc[w] = "mergedStore"
    /\ id' = [id EXCEPT ![w] = fresh[w]]
    /\ level' = [level EXCEPT ![w] = level[w] + 1]
    /\ NextLevel(w, level[w] + 1)
    /\ UNCHANGED << published, configCache, caches, stream, fresh >>

\* Mutant: the merged id takes the place of the route's own, too.
StoreMergedId_OverOwn(w) ==
    /\ pc[w] = "mergedStore"
    /\ mergedId' = [mergedId EXCEPT ![Route(w)] = fresh[w]]
    /\ routeId' = [routeId EXCEPT ![Route(w)] = fresh[w]]
    /\ Goto(w, "mergedRead")
    /\ UNCHANGED << published, configCache, filterId, threads, fresh >>

StoreMergedId(w) ==
    /\ pc[w] = "mergedStore"
    /\ mergedId' = [mergedId EXCEPT ![Route(w)] = fresh[w]]
    /\ Goto(w, "mergedRead")
    /\ UNCHANGED << published, configCache, filterId, routeId, threads, fresh >>

\* Mutant: the next level is merged with the filter's configuration again.
ReadMergedId_KeepsParent(w) ==
    /\ pc[w] = "mergedRead"
    /\ id' = IF level[w] + 1 = Len(stream[w].chain)
               THEN [id EXCEPT ![w] = mergedId[Route(w)]] ELSE id
    /\ level' = [level EXCEPT ![w] = level[w] + 1]
    /\ NextLevel(w, level[w] + 1)
    /\ UNCHANGED << published, configCache, caches, stream, fresh >>

ReadMergedId(w) ==
    /\ pc[w] = "mergedRead"
    /\ id' = [id EXCEPT ![w] = mergedId[Route(w)]]
    /\ level' = [level EXCEPT ![w] = level[w] + 1]
    /\ NextLevel(w, level[w] + 1)
    /\ UNCHANGED << published, configCache, caches, stream, fresh >>

\* Go looks the id up and makes the handler of the stream.
CreateHandler(w) ==
    /\ pc[w] = "ready"
    /\ Goto(w, "idle")
    /\ stream' = [stream EXCEPT ![w] = SomeStream]
    /\ level' = [level EXCEPT ![w] = 0]
    /\ id' = [id EXCEPT ![w] = 0] /\ fresh' = [fresh EXCEPT ![w] = 0]
    /\ UNCHANGED << published, configCache, caches >>

FilterStep(w) == CheckFilterId(w) \/ NewFilterConfig(w) \/ StoreFilterId(w) \/ ReadFilterId(w)

RouteStep(w) ==
    \/ CheckMergedId(w)
    \/ CheckRouteId(w) \/ NewRouteConfig(w) \/ StoreRouteId(w)
    \/ Merge(w) \/ StoreMergedId(w) \/ ReadMergedId(w)

Next ==
    \/ Publish
    \/ \E w \in Workers : NewStream(w) \/ FilterStep(w) \/ RouteStep(w) \/ CreateHandler(w)

Spec == Init /\ [][Next]_vars

-----------------------------------------------------------------------------
(* Properties.                                                                *)

Ids == 0..Len(configCache)

\* The declared types; an id in use is the number of a stored configuration.
TypeOK ==
    /\ published \in BOOLEAN
    /\ configCache \in Seq(Configs)
    /\ filterId \in [Filters -> Ids]
    /\ routeId \in [Routes -> Ids] /\ mergedId \in [Routes -> Ids]
    /\ pc \in [Workers -> Steps]
    /\ stream \in [Workers -> Streams]
    /\ level \in [Workers -> Nat]
    /\ id \in [Workers -> Ids] /\ fresh \in [Workers -> Ids]

\* What the first n route configurations make of the filter's.
ConfigOf(s, n) ==
    IF n = 0 THEN << s.filter >>
    ELSE IF WithParser THEN << s.filter >> \o SubSeq(s.chain, 1, n)
    ELSE << s.chain[n] >>

\* "pass all configuration into go plugin" (api/http/golang/v3/golang.proto:138): the
\* handler of a stream is made with what its own filter and route configurations make,
\* whichever of the racing workers created the ids.
HandlerGetsItsConfig ==
    \A w \in Workers : pc[w] = "ready" =>
        /\ id[w] # 0
        /\ configCache[id[w]] = ConfigOf(stream[w], Len(stream[w].chain))

Copies(config) == {n \in 1..Len(configCache) : configCache[n] = config}

\* Workers that race create a configuration once each, never once per stream: Go deletes
\* none of them ("TODO: delete config in Go", golang_filter.h:33).
CreatedOncePerWorker ==
    \A n \in 1..Len(configCache) :
        Cardinality(Copies(configCache[n])) <= Cardinality(Workers)

-----------------------------------------------------------------------------
(* Why the ids are right: an invariant that every step preserves, provided     *)
(* that a route configuration always meets the same parents.                  *)

OneParent ==
    \A s, t \in Streams : \A m \in 1..Len(s.chain), n \in 1..Len(t.chain) :
        s.chain[m] = t.chain[n] => ConfigOf(s, m) = ConfigOf(t, n)

\* A number of the table that stands for config.
Denotes(n, config) == n # 0 /\ configCache[n] = config

CachesFit ==
    /\ \A f \in Filters : filterId[f] # 0 => Denotes(filterId[f], << f >>)
    /\ \A r \in Routes : routeId[r] # 0 => Denotes(routeId[r], << r >>)
    /\ \A s \in Streams : \A n \in 1..Len(s.chain) :
         mergedId[s.chain[n]] # 0 => Denotes(mergedId[s.chain[n]], ConfigOf(s, n))

MergeSteps == {"mergedCheck", "routeCheck", "routeNew", "routeStore", "merge", "mergedStore",
               "mergedRead"}

\* What a worker relies on at each step.
WorkerFits(w) ==
    /\ pc[w] \in Steps \ (MergeSteps \cup {"ready"}) => level[w] = 0
    /\ pc[w] = "filterStore" => Denotes(fresh[w], << stream[w].filter >>)
    /\ pc[w] = "filterRead" => filterId[stream[w].filter] # 0
    /\ pc[w] \in MergeSteps => level[w] < Len(stream[w].chain)
    /\ pc[w] = "ready" => level[w] = Len(stream[w].chain)
    /\ pc[w] \in MergeSteps \cup {"ready"} => Denotes(id[w], ConfigOf(stream[w], level[w]))
    /\ pc[w] = "routeStore" => Denotes(fresh[w], << Route(w) >>)
    /\ pc[w] = "merge" => routeId[Route(w)] # 0
    /\ pc[w] = "mergedStore" => Denotes(fresh[w], ConfigOf(stream[w], level[w] + 1))
    /\ pc[w] = "mergedRead" => mergedId[Route(w)] # 0

IdsFit == CachesFit /\ \A w \in Workers : WorkerFits(w)

\* What a worker may rely on even if a route configuration meets several parents: no id
\* is used before somebody has stored it, and no level twice.
WorkerIsSound(w) ==
    /\ pc[w] \in Steps \ (MergeSteps \cup {"ready"}) => level[w] = 0
    /\ pc[w] \in MergeSteps => level[w] < Len(stream[w].chain)
    /\ pc[w] = "ready" => level[w] = Len(stream[w].chain)
    /\ pc[w] \in MergeSteps \cup {"ready"} => id[w] # 0
    /\ pc[w] \in {"filterStore", "routeStore", "mergedStore"} => fresh[w] # 0
    /\ pc[w] = "filterRead" => filterId[stream[w].filter] # 0
    /\ pc[w] = "merge" => routeId[Route(w)] # 0
    /\ pc[w] = "mergedRead" => mergedId[Route(w)] # 0

IdsAreStored == \A w \in Workers : WorkerIsSound(w)

-----------------------------------------------------------------------------
(* Why a worker creates a configuration once: it does so only between finding *)
(* no id and storing one, and an id that is stored is never taken back.       *)

Last(config) == config[Len(config)]

\* What is made for a filter chain, or a route level; the rest was merged.
OfFilter(config) == Last(config) \in Filters
OfRoute(config)  == ~ OfFilter(config) /\ Len(config) = 1

\* The member that is to keep the id of config has one.
Kept(config) ==
    \/ OfFilter(config) /\ filterId[Last(config)] # 0
    \/ OfRoute(config) /\ routeId[Last(config)] # 0
    \/ ~ OfFilter(config) /\ ~ OfRoute(config) /\ mergedId[Last(config)] # 0

\* w has found no id there, and Go has not stored the configuration yet ...
Creates(w, config) ==
    \/ OfFilter(config) /\ pc[w] = "filterNew" /\ stream[w].filter = Last(config)
    \/ OfRoute(config) /\ pc[w] = "routeNew" /\ Route(w) = Last(config)
    \/ /\ ~ OfFilter(config) /\ ~ OfRoute(config)
       /\ pc[w] \in {"routeCheck", "routeNew", "routeStore", "merge"}
       /\ Route(w) = Last(config)

\* ... or Go has, and w has not stored the id yet.
Keeps(w, config) ==
    \/ OfFilter(config) /\ pc[w] = "filterStore" /\ stream[w].filter = Last(config)
    \/ OfRoute(config) /\ pc[w] = "routeStore" /\ Route(w) = Last(config)
    \/ /\ ~ OfFilter(config) /\ ~ OfRoute(config)
       /\ pc[w] = "mergedStore"
       /\ Route(w) = Last(config)

Creators(config) == {w \in Workers : Creates(w, config)}
Keepers(config)  == {w \in Workers : Keeps(w, config)}

\* Those who will still create config have not done so; before an id is kept, those who
\* have done so hold it.
CreatedOnce(config) ==
    /\ Cardinality(Copies(config)) + Cardinality(Creators(config)) <= Cardinality(Workers)
    /\ ~ Kept(config) => Cardinality(Copies(config)) <= Cardinality(Keepers(config))

\* A merged configuration ends with that of the route it was merged for.
RoutesFit ==
    /\ \A r \in Routes : routeId[r] # 0 => Denotes(routeId[r], << r >>)
    /\ \A w \in Workers : pc[w] = "routeStore" => Denotes(fresh[w], << Route(w) >>)

TableFits ==
    \A n \in 1..Len(configCache) :
        /\ configCache[n] # << >>
        /\ OfFilter(configCache[n]) => Len(configCache[n]) = 1
        /\ CreatedOnce(configCache[n])

CreationInv == RoutesFit /\ TableFits
=============================================================================
