---------------------------- MODULE MCGoPlugins ----------------------------
EXTENDS GoPlugins

AllAnswers == GolangStatus
AllPlugins == Plugin
=============================================================================
