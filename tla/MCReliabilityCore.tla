-------------------------- MODULE MCReliabilityCore --------------------------
(* The outbox with a few keys and workers.  Keys for which the sender       *)
(* answers are alike, and so are those for which it may raise.              *)
EXTENDS ReliabilityCore, TLC

Symmetry ==
  Permutations(AnsweredKeys) \cup Permutations(RaisingKeys) \cup Permutations(Workers)

=============================================================================
