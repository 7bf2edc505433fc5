------------------------------- MODULE MCSync -------------------------------
(***************************************************************************)
(* Sync, for TLC.                                                          *)
(***************************************************************************)
EXTENDS Sync, TLC

\* The threads are interchangeable.
Symmetry == Permutations(Threads)

=============================================================================
