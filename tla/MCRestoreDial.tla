--------------------------- MODULE MCRestoreDial ---------------------------
(* Three placeholders in two records, one with a project, one of an SFTP
   node, and two panes of the first on other machines, one of which
   cannot be dialled. *)
EXTENDS RestoreDial

MCTabs == 1 .. 3
MCRecords == {{1, 2}, {3}}
MCProjectTabs == {2}
MCFilesTabs == {3}
MCFarLeaves == [t \in MCTabs |-> IF t = 1 THEN 2 ELSE 0]
MCBadLeaves == {<<1, 2>>}
=============================================================================
