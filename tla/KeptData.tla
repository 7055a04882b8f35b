------------------------------ MODULE KeptData ------------------------------
(***************************************************************************)
(* What a Go handler is promised of the body of one message: the pieces it *)
(* was shown and that were not passed on yet are kept, in order, whatever  *)
(* it reads; it changes a piece only by writing to it; its answer decides  *)
(* what becomes of the pieces, of all of them at once or of the newest.    *)
(*                                                                         *)
(* BufferList implements this for handlers that keep to some rules.        *)
(***************************************************************************)
EXTENDS Naturals, Sequences, SequencesExt

CONSTANTS
    Frame,   \* the pieces of the body that may come in
    String   \* the texts that may be written

VARIABLES
    pieces,   \* the contents of the pieces shown and not passed on
    passed,   \* what was passed on
    answer,   \* the last answer, or "none" while a handler is at work
    value     \* what the last read returned

keptVars == <<pieces, passed, answer, value>>

Init ==
    /\ pieces = <<>>
    /\ passed = <<>>
    /\ answer = "Continue"
    /\ value = <<>>

Rewritten(data, action, s) ==
    CASE action = "set"     -> s
      [] action = "append"  -> data \o s
      [] action = "prepend" -> s \o data

\* A handler is called, about a piece of the body or about the trailers.
Show(new) ==
    /\ answer # "none"
    /\ answer' = "none"
    /\ pieces' = pieces \o new
    /\ UNCHANGED <<passed, value>>

Read(i) ==
    /\ answer = "none"
    /\ value' = pieces[i]
    /\ UNCHANGED <<pieces, passed, answer>>

Write(i, action, s) ==
    /\ answer = "none"
    /\ pieces' = [pieces EXCEPT ![i] = Rewritten(@, action, s)]
    /\ UNCHANGED <<passed, answer, value>>

Pass ==
    /\ answer' = "Continue"
    /\ passed' = passed \o pieces
    /\ pieces' = <<>>

Keep == answer' \in {"StopAndBuffer", "StopAndBufferWatermark"} /\ UNCHANGED <<pieces, passed>>

DropNewest == answer' = "StopNoBuffer" /\ pieces' = Front(pieces) /\ UNCHANGED passed

DropAll == answer' = "LocalReply" /\ pieces' = <<>> /\ UNCHANGED passed

Answer ==
    /\ answer = "none"
    /\ Pass \/ Keep \/ DropNewest \/ DropAll
    /\ UNCHANGED value

Next ==
    \/ Show(<<>>)
    \/ \E data \in Frame : Show(<<data>>)
    \/ \E i \in DOMAIN pieces :
          \/ Read(i)
          \/ \E action \in {"set", "append", "prepend"}, s \in String : Write(i, action, s)
    \/ Answer

Spec == Init /\ [][Next]_keptVars
=============================================================================
