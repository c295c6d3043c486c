-------------------------------- MODULE MCEmm --------------------------------
(* Instances of Emm for TLC.                                               *)
EXTENDS Emm, TLC

\* Requests, keys and parts are interchangeable: no action or property names
\* one.  Used only where no liveness property is checked.
Symmetry == Permutations(Requests) \cup Permutations(Keys) \cup Permutations(Parts)
=============================================================================
