----------------------------- MODULE HeaderMap -----------------------------
(***************************************************************************)
(* Headers and trailers, as a Go filter reads and changes them during one  *)
(* stream of GolangFilter.                                                 *)
(*                                                                         *)
(* A call for headers or trailers gives Go an object with the number and   *)
(* the bytes of the fields (pkg/http/type.go).  The first read copies all  *)
(* of them into a buffer of that size (HttpCopyHeaders); later reads use   *)
(* the copy, and a write changes the copy and, through the C API, the map  *)
(* of Envoy.  The C API does not know the object: it takes the map that    *)
(* headers_ or trailers_ points to.                                        *)
(*                                                                         *)
(* A C API call that is refused panics in Go and ends the handler: that is *)
(* one of the answers GolangFilter lets it give.                           *)
(***************************************************************************)
EXTENDS GolangFilter

CONSTANTS
    Key,     \* names of fields, none of them one of Envoy's inline headers
    Value,   \* values, each named by its length
    Fields,  \* the headers and trailers a message may come with
    Rules,   \* the rules the handlers follow
    MaxOps   \* bound: operations on the objects

\* What a handler has to do for the properties below to hold:
\*   ReadsFirst      it reads an object before it changes it
\*   LowerCase       it names the fields in lower case
\*   BeforePassedOn  it uses the objects of its own message only, while the
\*                   headers or trailers have not been passed on
\*   RawInHeaders    it uses GetRaw only when it is called for headers
Rule == {"ReadsFirst", "LowerCase", "BeforePassedOn", "RawInHeaders"}

Name == Key \X {"lower", "mixed"}

Lower(name) == <<name[1], "lower">>

Map == Dir \X {"headers", "trailers"}

ASSUME FieldsAssumption ==
    /\ Value \subseteq Nat
    /\ \A fields \in Fields, kind \in {"headers", "trailers"} :
           fields[kind] \in Seq([name : {Lower(name) : name \in Name}, value : Value])
    /\ MaxOps \in Nat

ASSUME RulesAssumption == Rules \subseteq Rule

VARIABLES
    maps,     \* the header and trailer maps of Envoy
    objects,  \* headerMapImpl, headerTrailerMapImpl
    last,     \* history: the last operation, and what a read returned
    overrun,  \* a copy went past the buffer Go made for it
    ops       \* operations done

headerVars == <<maps, objects, last, overrun, ops>>
allVars    == <<vars, headerVars>>

Store == INSTANCE HeaderStore WITH store <- maps

-----------------------------------------------------------------------------
(* The objects                                                             *)

\* HeaderMap::byteSize: each name has length 1, a value the length it names.
ByteSize(entries) ==
    LET size[i \in 0 .. Len(entries)] ==
            IF i = 0 THEN 0 ELSE size[i - 1] + 1 + entries[i].value
    IN  size[Len(entries)]

\* The Go map: the values of each name in order, <<>> for none.
AsGoMap(entries) == [name \in Name |-> Store!ValuesOf(entries, name)]

NoObject == [given |-> FALSE, num |-> 0, bytes |-> 0, loaded |-> FALSE, copy |-> AsGoMap(<<>>)]

\* moeOnHttpHeader: what Go learns of a map when it is called for it.
NewObject(entries) ==
    [NoObject EXCEPT !.given = TRUE, !.num = Len(entries), !.bytes = ByteSize(entries)]

\* A call for headers or trailers that reaches the filter makes an object.
Given(map) ==
    \E call \in go' \ go :
        call.id = calls /\ ~call.refused /\ <<call.dir, call.kind>> = map

FilterStep ==
    /\ Next
    /\ objects' = [map \in Map |-> IF Given(map) THEN NewObject(maps[map]) ELSE objects[map]]
    /\ UNCHANGED <<maps, last, overrun, ops>>

-----------------------------------------------------------------------------
(* The C API                                                               *)

Accepted == ~hasDestroyed /\ InGo(ps[Cur])

\* The map that the object's C API calls reach.
Pointer(map) ==
    IF map[2] = "headers" THEN <<headers, "headers">> ELSE <<trailers, "trailers">>

\* getHeader: the headers while they are processed, the trailers after that.
RawPointer ==
    IF ps[Cur].state = "ProcessingHeader" THEN <<headers, "headers">> ELSE <<trailers, "trailers">>

\* setHeader, removeHeader, setTrailer
Put(map, entries) ==
    /\ Accepted
    /\ Pointer(map) \in Map
    /\ maps' = [maps EXCEPT ![Pointer(map)] = entries]

-----------------------------------------------------------------------------
(* The operations of the objects                                           *)

\* headerTrailerMapImpl has no Add, which does nothing, no Del and no Range,
\* which panic, and no GetRaw.
HasAll(map) == map[2] = "headers"

PassedOn(map) ==
    IF map[2] = "headers" THEN out[map[1]] # <<>> ELSE Trl \in ToSet(out[map[1]])

MayUse(map, name) ==
    /\ ops < MaxOps
    /\ objects[map].given
    /\ "BeforePassedOn" \in Rules =>
          ~PassedOn(map) /\ \E call \in go : call.dir = map[1]
    /\ "LowerCase" \in Rules => name = Lower(name)

MayWrite(map, name) ==
    /\ MayUse(map, name)
    /\ "ReadsFirst" \in Rules => objects[map].loaded

\* Mutant: every read copies the fields again.
Load_EachTime(map) ==
    /\ Accepted
    /\ Pointer(map) \in Map
    /\ LET entries == maps[Pointer(map)]
       IN  /\ objects' = [objects EXCEPT ![map].loaded = TRUE, ![map].copy = AsGoMap(entries)]
           /\ overrun' = (overrun \/ Len(entries) > objects[map].num
                                  \/ ByteSize(entries) > objects[map].bytes)

\* HttpCopyHeaders, HttpCopyTrailers: as many fields are written as the map has
\* now, into buffers for as many as it had when the object was made.
Load(map) ==
    IF objects[map].loaded
    THEN UNCHANGED <<objects, overrun>>
    ELSE /\ Accepted
         /\ Pointer(map) \in Map
         /\ LET entries == maps[Pointer(map)]
            IN  /\ objects' = [objects EXCEPT ![map].loaded = TRUE, ![map].copy = AsGoMap(entries)]
                /\ overrun' = (overrun \/ Len(entries) > objects[map].num
                                       \/ ByteSize(entries) > objects[map].bytes)

\* Get, Values, and what is read with them: Protocol, Method, Status, ...
Get(map, name) ==
    /\ MayUse(map, name)
    /\ Load(map)
    /\ last' = <<map, name, objects'[map].copy[name]>>
    /\ UNCHANGED maps

\* GetRaw of the headers asks Envoy for the first value each time.
GetRaw(map, name) ==
    /\ HasAll(map)
    /\ MayUse(map, name)
    /\ "RawInHeaders" \in Rules => ps[Cur].state = "ProcessingHeader"
    /\ Accepted
    /\ RawPointer \in Map
    /\ last' = <<map, name, Store!FirstOf(Store!ValuesOf(maps[RawPointer], Lower(name)))>>
    /\ UNCHANGED <<maps, objects, overrun>>

CopyPut(map, name, values) ==
    /\ objects' = IF objects[map].loaded
                  THEN [objects EXCEPT ![map].copy[name] = values]
                  ELSE objects
    /\ last' = <<map, "write">>
    /\ UNCHANGED overrun

\* Mutant: Set leaves the other values of the name in the map of Envoy.
Set_KeepsOthers(map, name, value) ==
    /\ MayWrite(map, name)
    /\ CopyPut(map, name, <<value>>)
    /\ Put(map, Store!With(maps[Pointer(map)], Lower(name), value))

Set(map, name, value) ==
    /\ MayWrite(map, name)
    /\ CopyPut(map, name, <<value>>)
    /\ Put(map, Store!With(Store!Without(maps[Pointer(map)], Lower(name)), Lower(name), value))

Add(map, name, value) ==
    /\ HasAll(map)
    /\ MayWrite(map, name)
    /\ CopyPut(map, name, Append(objects[map].copy[name], value))
    /\ Put(map, Store!With(maps[Pointer(map)], Lower(name), value))

Del(map, name) ==
    /\ HasAll(map)
    /\ MayWrite(map, name)
    /\ CopyPut(map, name, <<>>)
    /\ Put(map, Store!Without(maps[Pointer(map)], Lower(name)))

Operation ==
    \E map \in Map, name \in Name :
        /\ \/ Get(map, name)
           \/ GetRaw(map, name)
           \/ Del(map, name)
           \/ \E value \in Value : Set(map, name, value) \/ Add(map, name, value)
        /\ ops' = ops + 1
        /\ UNCHANGED vars

HeaderInit ==
    /\ Init
    /\ dynamicLib
    /\ \E fields \in Fields : maps = [map \in Map |-> fields[map[2]]]
    /\ objects = [map \in Map |-> NoObject]
    /\ last = <<>>
    /\ overrun = FALSE
    /\ ops = 0

HeaderNext == FilterStep \/ (crashed = "no" /\ Operation)

HeaderSpec == HeaderInit /\ [][HeaderNext]_allVars

-----------------------------------------------------------------------------
(* Properties *)

\* pkg/api/type.go, HeaderMap: each object behaves as a store of its own,
\* although its reads are answered by a copy, and its writes reach whatever
\* headers_ and trailers_ point to by then.
MapsAreStores == Store!Spec

\* HttpCopyHeaders and HttpCopyTrailers never write past the buffers that were
\* made when the message came in.
CopyFits == ~overrun

\* Headers and trailers are not changed any more once they are passed on: "we should
\* not read/write trailers then, since trailers will pass to next fitler"
\* (processor_state.cc:172), which holds of headers as well (line 53).
PassedMapsStay == [][\A map \in Map : PassedOn(map) => maps'[map] = maps[map]]_allVars

-----------------------------------------------------------------------------
(* The inductive invariant behind the properties, for handlers that keep   *)
(* to all the rules                                                        *)

Object == [given : BOOLEAN, num : Nat, bytes : Nat, loaded : BOOLEAN, copy : [Name -> Seq(Value)]]

\* An object that was not read yet knows the size its map still has.
SizesFit ==
    \A map \in Map :
        objects[map].given /\ ~objects[map].loaded =>
            /\ objects[map].num = Len(maps[map])
            /\ objects[map].bytes = ByteSize(maps[map])

\* A copy holds what its map holds, for the names a handler may use.
CopiesFit ==
    \A map \in Map, name \in Name :
        objects[map].loaded /\ name = Lower(name) =>
            objects[map].copy[name] = Store!ValuesOf(maps[map], name)

\* While the headers that are worked on are in the filter, headers_ points to them.
HeadersReached ==
    /\ ps[Cur].state # "WaitingHeader"
    /\ ~closed
    /\ ~hasDestroyed
    /\ out[Cur] = <<>>
    => headers = Cur

\* Only trailers that came in have an object.
TrailersCame == \A d \in Dir : objects[<<d, "trailers">>].given => ps[d].seenTrailers

HeaderInv ==
    /\ dynamicLib
    /\ maps \in [Map -> Seq(Store!Field)]
    /\ objects \in [Map -> Object]
    /\ SizesFit
    /\ CopiesFit
    /\ HeadersReached
    /\ TrailersCame
    /\ CopyFits
=============================================================================
