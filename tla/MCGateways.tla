------------------------------ MODULE MCGateways ------------------------------
(* The instance of Gateways for TLC.                                         *)
EXTENDS Gateways, TLC

\* Batches, items, keys and ids are interchangeable.
Symmetry ==
    Permutations(Batches) \cup Permutations(Items)
    \cup Permutations(Keys) \cup Permutations(Rids)
=============================================================================
