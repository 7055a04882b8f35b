--------------------------- MODULE MCGolangFilter ---------------------------
(***************************************************************************)
(* Instances of GolangFilter for TLC.                                      *)
(***************************************************************************)
EXTENDS GolangFilter

AllAnswers == GolangStatus
NeverStop  == {"Running", "LocalReply", "Continue"}

NoDir    == {}
BothDirs == Dir
=============================================================================
