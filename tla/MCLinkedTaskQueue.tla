------------------------- MODULE MCLinkedTaskQueue -------------------------
(***************************************************************************)
(* LinkedTaskQueue with a small pool of addresses, which are               *)
(* interchangeable.                                                        *)
(***************************************************************************)
EXTENDS LinkedTaskQueue, TLC

Symmetry == Permutations(Task)
=============================================================================
