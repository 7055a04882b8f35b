---------------------------- MODULE MCHeaderMap ----------------------------
EXTENDS HeaderMap

AllRules == Rule

Buffering == {"Continue", "StopAndBuffer", "Running", "LocalReply"}

\* Headers with two fields of one name, and a trailer of that name.
SameName == {[headers  |-> <<[name |-> <<"a", "lower">>, value |-> 1],
                             [name |-> <<"a", "lower">>, value |-> 2]>>,
              trailers |-> <<[name |-> <<"a", "lower">>, value |-> 2]>>]}
=============================================================================
