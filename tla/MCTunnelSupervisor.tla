------------------------- MODULE MCTunnelSupervisor -------------------------
(* Small instances of TunnelSupervisor for TLC.                            *)
EXTENDS TunnelSupervisor

Local  == 1   \* a -L or -D tunnel
Remote == 2   \* a -R tunnel
BothKinds  == {Local, Remote}
OnlyRemote == {Remote}
=============================================================================
