------------------------------ MODULE MCThread ------------------------------
(***************************************************************************)
(* Thread, for TLC.                                                        *)
(***************************************************************************)
EXTENDS Thread, TLC

\* The objects and the clients are interchangeable.
Symmetry == Permutations(Objects) \cup Permutations(Clients)

=============================================================================
