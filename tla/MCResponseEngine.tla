-------------------------- MODULE MCResponseEngine --------------------------
(***************************************************************************)
(* Small instances of ResponseEngine for TLC.                              *)
(***************************************************************************)
EXTENDS ResponseEngine, TLC

\* Calls, records and approvers are interchangeable.
Symmetry == Permutations(Calls) \cup Permutations(Records) \cup Permutations(Subjects)
=============================================================================
