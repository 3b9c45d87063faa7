------------------------------ MODULE MCLifecycle ------------------------------
(***************************************************************************)
(* Lifecycle for TLC: two ticks of timeout, so that data may arrive in the *)
(* middle of a wait, and SIGINT up to twice.                               *)
(***************************************************************************)
EXTENDS Lifecycle
=============================================================================
