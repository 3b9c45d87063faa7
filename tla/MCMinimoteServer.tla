--------------------------- MODULE MCMinimoteServer ---------------------------
(***************************************************************************)
(* MinimoteServer for TLC.  Two hosts, so that one may try to disturb the  *)
(* other; how many connections, descriptors and datagrams there are is for *)
(* each run to say.                                                        *)
(***************************************************************************)
EXTENDS MinimoteServer, TLC

MCUdpPorts == {11, 12}
MCSymmetry == Permutations(Hosts)
=============================================================================
