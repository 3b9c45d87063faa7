------------------------------- MODULE MCPointer -------------------------------
(***************************************************************************)
(* Pointer for TLC: a finger moves on both axes by one, three or four, so  *)
(* that halves are cut off in both directions, over positions that use all *)
(* bytes of a payload, and is lifted twice.                                *)
(***************************************************************************)
EXTENDS Pointer

MCPositions == {[x |-> 1023, y |-> 260], [x |-> 1024, y |-> 256], [x |-> 1027, y |-> 257]}
=============================================================================
