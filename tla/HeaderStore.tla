---------------------------- MODULE HeaderStore ----------------------------
(***************************************************************************)
(* What the header API promises a Go filter (pkg/api/type.go, HeaderMap):  *)
(* every header or trailer map is a store of its own.  A write goes to the *)
(* map it was called on, and a read returns what that map holds.           *)
(***************************************************************************)
EXTENDS Integers, Sequences

CONSTANTS Map, Name, Value

VARIABLES
    store,   \* the fields of each map, in order
    last     \* the last operation: the map, and what a read of a name returned

storeVars == <<store, last>>

Field == [name : Name, value : Value]

\* What pick makes of each field, in order.
Collect(entries, pick) ==
    LET picked[i \in 0 .. Len(entries)] ==
            IF i = 0 THEN <<>> ELSE picked[i - 1] \o pick[entries[i]]
    IN  picked[Len(entries)]

\* The values of a name, in order.
ValuesOf(entries, name) ==
    Collect(entries, [entry \in Field |-> IF entry.name = name THEN <<entry.value>> ELSE <<>>])

\* The first one, if there are any.
FirstOf(values) == IF values = <<>> THEN <<>> ELSE <<values[1]>>

Without(entries, name) ==
    Collect(entries, [entry \in Field |-> IF entry.name # name THEN <<entry>> ELSE <<>>])

With(entries, name, value) == Append(entries, [name |-> name, value |-> value])

Init == store \in [Map -> Seq(Field)] /\ last = <<>>

Write(map, entries) ==
    /\ store' = [store EXCEPT ![map] = entries]
    /\ last' = <<map, "write">>

Read(map, name) ==
    /\ last' = <<map, name, ValuesOf(store[map], name)>>
    /\ UNCHANGED store

ReadFirst(map, name) ==
    /\ last' = <<map, name, FirstOf(ValuesOf(store[map], name))>>
    /\ UNCHANGED store

Next ==
    \E map \in Map, name \in Name :
        \/ Read(map, name)
        \/ ReadFirst(map, name)
        \/ Write(map, Without(store[map], name))
        \/ \E value \in Value :
              \/ Write(map, With(store[map], name, value))
              \/ Write(map, With(Without(store[map], name), name, value))

Spec == Init /\ [][Next]_storeVars
=============================================================================
