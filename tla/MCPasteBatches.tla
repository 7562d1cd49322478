--------------------------- MODULE MCPasteBatches ---------------------------
(* Small instances of PasteBatches for TLC.                                 *)
EXTENDS PasteBatches

OneTab  == {"shell"}
TwoTabs == {"shell", "files"}

\* One batch of two files.
TwoInOneBatch == <<1, 1>>
BothOfShell   == <<"shell", "shell">>

\* Two transfers from two tabs.
OneAndOne == <<1, 2>>
OneOfEach == <<"shell", "files">>
=============================================================================
