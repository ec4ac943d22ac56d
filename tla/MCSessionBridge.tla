--------------------------- MODULE MCSessionBridge ---------------------------
(* Instances of SessionBridge for TLC. *)
EXTENDS SessionBridge, TLC

\* No constant and no property names one of these values.
BridgeSymmetry ==
  Permutations(Keys) \cup Permutations(Handlers) \cup Permutations(Sessions)
=============================================================================
