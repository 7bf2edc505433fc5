------------------------------ MODULE MCTiming ------------------------------
(***************************************************************************)
(* Timing, for TLC.                                                        *)
(***************************************************************************)
EXTENDS Timing

\* Sleeping threads do not affect one another: one is enough.
MCRoles ==
  {[t \in Threads |-> {"attach"}]}
  \cup {[t \in Threads |-> IF t = one THEN {"sleep", "attach"} ELSE {}] : one \in Threads}

=============================================================================
