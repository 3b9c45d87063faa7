-------------------------------- MODULE MCHash --------------------------------
(***************************************************************************)
(* Hash for TLC: three keys in one bucket of two, where the addresses of   *)
(* one network end up, and a fourth one in the other.                      *)
(***************************************************************************)
EXTENDS Hash

CONSTANTS k1, k2, k3, k4

MCKey == {k1, k2, k3, k4}
MCHashOf == [k \in MCKey |-> CASE k = k1 -> 2 [] k = k2 -> 4 [] k = k3 -> 0 [] k = k4 -> 1]
=============================================================================
