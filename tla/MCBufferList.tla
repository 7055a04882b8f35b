---------------------------- MODULE MCBufferList ----------------------------
EXTENDS BufferList, TLC

Frames  == {<<>>, <<1>>, <<2, 2>>}
Strings == {<<>>, <<3, 3>>}

AnyAddress == Permutations(Address)
=============================================================================
