---------------------------- MODULE MCInterruptIn ----------------------------
(***************************************************************************)
(* InterruptIn, for TLC.                                                   *)
(***************************************************************************)
EXTENDS InterruptIn, TLC

\* The instances and the token variables are interchangeable.
Symmetry == Permutations(Instances) \cup Permutations(Tokens)

=============================================================================
