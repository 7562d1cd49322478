---------------------------- MODULE MCTunnelDesk ----------------------------
(* Small instances of TunnelDesk for TLC.                                  *)
EXTENDS TunnelDesk

One == {1}
Empty == {}
=============================================================================
