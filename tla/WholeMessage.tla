---------------------------- MODULE WholeMessage ----------------------------
(***************************************************************************)
(* What the filter behind the buffered adapter is promised, in each        *)
(* direction: it is called once, with the whole message, after the last of *)
(* it came in; nothing of the message is passed on before it was called.   *)
(***************************************************************************)
EXTENDS Naturals, Sequences, SequencesExt, FiniteSets

CONSTANT
    Dir,   \* the directions a message goes in
    Ends   \* the pieces that end a message

VARIABLES
    came,    \* what came in
    handed,  \* the messages the filter was called with
    left     \* what was passed on

wholeVars == <<came, handed, left>>

Init ==
    /\ came   = [d \in Dir |-> <<>>]
    /\ handed = [d \in Dir |-> <<>>]
    /\ left   = [d \in Dir |-> <<>>]

Complete(d) == came[d] # <<>> /\ Last(came[d]) \in Ends

Come(d) ==
    /\ ~Complete(d)
    /\ IsStrictPrefix(came[d], came'[d])
    /\ \A c \in Dir \ {d} : came'[c] = came[c]
    /\ UNCHANGED handed

HandOver(d) ==
    /\ Complete(d)
    /\ handed[d] = <<>>
    /\ handed' = [handed EXCEPT ![d] = <<came[d]>>]
    /\ UNCHANGED <<came, left>>

PassOn(d) ==
    /\ handed[d] # <<>>
    /\ IsStrictPrefix(left[d], left'[d])
    /\ \A c \in Dir \ {d} : left'[c] = left[c]
    /\ UNCHANGED handed

\* One thing at a time: a piece comes in, the filter is called, or pieces are
\* passed on.
Next ==
    \E d \in Dir :
        \/ Come(d) /\ UNCHANGED left
        \/ HandOver(d)
        \/ PassOn(d) /\ UNCHANGED came

Spec == Init /\ [][Next]_wholeVars
=============================================================================
