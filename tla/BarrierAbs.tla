----------------------------- MODULE BarrierAbs -----------------------------
(***************************************************************************)
(* What Barrier::wait promises (zpp_include/barrier.hpp): the barrier      *)
(* opens when Total threads have arrived, at the time of the last arrival, *)
(* and every thread leaves after that with that one time.                  *)
(***************************************************************************)
EXTENDS Naturals

CONSTANTS Threads, Total, MaxTime, None

VARIABLES
  clock,     \* the uptime
  arrived,   \* how many threads have arrived
  opened,    \* when the barrier opened, or None
  result     \* what each thread got, or None

vars == <<clock, arrived, opened, result>>

Init ==
  /\ clock = 0
  /\ arrived = 0
  /\ opened = None
  /\ result = [t \in Threads |-> None]

Tick ==
  /\ clock < MaxTime
  /\ clock' = clock + 1
  /\ UNCHANGED <<arrived, opened, result>>

Arrive ==
  /\ arrived < Total
  /\ arrived' = arrived + 1
  /\ opened' = IF arrived' = Total THEN clock ELSE None
  /\ UNCHANGED <<clock, result>>

Leave(t) ==
  /\ opened # None
  /\ result[t] = None
  /\ result' = [result EXCEPT ![t] = opened]
  /\ UNCHANGED <<clock, arrived, opened>>

Next == Tick \/ Arrive \/ \E t \in Threads : Leave(t)

Spec == Init /\ [][Next]_vars

=============================================================================
