-------------------------- MODULE MCGenericStream --------------------------
(* Instances of GenericStream for TLC.                                     *)
EXTENDS GenericStream, TLC

Symmetry == Permutations(BareKeys) \cup Permutations(Values)
=============================================================================
