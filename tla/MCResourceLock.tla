--------------------------- MODULE MCResourceLock ---------------------------
(* Instances of ResourceLock for TLC. *)
EXTENDS ResourceLock, TLC

\* References are only compared for equality.
RefSymmetry == Permutations(Refs)
=============================================================================
