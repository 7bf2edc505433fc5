---------------------------- MODULE BarrierProofs ----------------------------
(***************************************************************************)
(* Proofs about Barrier, for every number of threads.                      *)
(***************************************************************************)
EXTENDS Barrier, FiniteSetTheorems, TLAPS

\* The threads that have called wait() and have not decremented _count.
Outstanding == {t \in Threads : pc[t] \in {"lock", "arrive"}}

\* Every call is either outstanding or has arrived, and there are no more
\* calls than the round has threads: _count never wraps.
CountInv ==
  /\ IsFiniteSet(Outstanding)
  /\ calls = arrived + Cardinality(Outstanding)
  /\ calls <= Total
  /\ count = Total - arrived

\* Tokens, and what they let through, exist only once the barrier is open.
OpenInv ==
  /\ sem > 0 => arrived = Total
  /\ \A t \in Threads : pc[t] \in {"release", "return"} => arrived = Total

\* What a thread got; before the barrier opens nobody got anything.
ResultInv ==
  \A t \in Threads :
    /\ result[t] # None => arrived = Total /\ result[t] = startTime
    /\ rounds[t] = IF result[t] = None THEN 0 ELSE 1
    /\ pc[t] # "idle" => result[t] = None

BInv == TypeOK /\ CountInv /\ OpenInv /\ ResultInv

-----------------------------------------------------------------------------
\* No thread has called wait().
LEMMA BInit == Init => BInv
<1> SUFFICES ASSUME Init PROVE BInv
  OBVIOUS
<1> USE BoundAssumption, NoneAssumption DEF Init
<1>1. TypeOK
  BY DEF TypeOK, Pc
<1>2. CountInv
  <2>1. Outstanding = {}
    BY DEF Outstanding
  <2> QED
    BY <2>1, FS_EmptySet DEF CountInv
<1>3. OpenInv /\ ResultInv
  BY DEF OpenInv, ResultInv
<1> QED
  BY <1>1, <1>2, <1>3 DEF BInv

\* The types are kept, however the barrier is used.
LEMMA BTypeStep == TypeOK /\ [Next]_vars => TypeOK'
<1> SUFFICES ASSUME TypeOK, [Next]_vars PROVE TypeOK'
  OBVIOUS
<1> USE BoundAssumption, NoneAssumption DEF TypeOK, Pc, HoldPc, envVars, histVars
<1>1. CASE Tick
  BY <1>1 DEF Tick
<1>2. CASE OtherBarrierOpens
  BY <1>2 DEF OtherBarrierOpens
<1>3. ASSUME NEW t \in Threads, Call(t) PROVE TypeOK'
  BY <1>3 DEF Call, Step
<1>4. ASSUME NEW t \in Threads, Lock(t) PROVE TypeOK'
  BY <1>4 DEF Lock, Step
<1>5. ASSUME NEW t \in Threads, Arrive(t) PROVE TypeOK'
  BY <1>5 DEF Arrive, Step, Decremented
<1>6. ASSUME NEW t \in Threads, Release(t) PROVE TypeOK'
  BY <1>6 DEF Release, SemGive
<1>7. ASSUME NEW t \in Threads, Unlock(t) PROVE TypeOK'
  BY <1>7 DEF Unlock, Step
<1>8. ASSUME NEW t \in Threads, Acquire(t) PROVE TypeOK'
  BY <1>8 DEF Acquire, Step
<1>9. ASSUME NEW t \in Threads, Return(t) PROVE TypeOK'
  BY <1>9 DEF Return, Step
<1>10. CASE UNCHANGED vars
  BY <1>10 DEF vars
<1> QED
  BY <1>1, <1>2, <1>3, <1>4, <1>5, <1>6, <1>7, <1>8, <1>9, <1>10 DEF Next, WaitStep

\* A call of wait() adds an outstanding thread, an arrival takes one away, and
\* an outstanding thread means that the round is not complete.
LEMMA CountStep ==
  ASSUME OneRound, TypeOK, TypeOK', CountInv, OpenInv, [Next]_vars PROVE CountInv'
<1> USE BoundAssumption
<1> DEFINE N == Cardinality(Outstanding)
<1>0. N \in Nat
  BY FS_CardinalityType DEF CountInv
<1>1. ASSUME NEW t \in Threads, Call(t) PROVE CountInv'
  <2>1. t \notin Outstanding /\ Outstanding' = Outstanding \cup {t}
    BY <1>1 DEF TypeOK, Call, Step, Outstanding
  <2>2. IsFiniteSet(Outstanding') /\ Cardinality(Outstanding') = N + 1
    BY <2>1, FS_AddElement DEF CountInv
  <2>3. calls < Total /\ calls' = calls + 1 /\ arrived' = arrived /\ count' = count
    BY <1>1 DEF Call, histVars
  <2> QED
    BY <1>0, <2>2, <2>3 DEF TypeOK, CountInv
<1>2. ASSUME NEW t \in Threads, Arrive(t) PROVE CountInv'
  <2>1. t \in Outstanding /\ Outstanding' = Outstanding \ {t}
    BY <1>2 DEF TypeOK, Arrive, Step, Outstanding
  <2>2. IsFiniteSet(Outstanding') /\ Cardinality(Outstanding') = N - 1
    BY <2>1, FS_RemoveElement DEF CountInv
  <2>3. N # 0
    BY <2>1, FS_EmptySet DEF CountInv
  <2>4. calls' = calls /\ arrived' = arrived + 1 /\ count' = Decremented(count)
    BY <1>2 DEF Arrive
  <2>5. count > 0
    BY <1>0, <2>3 DEF TypeOK, CountInv
  <2> QED
    BY <1>0, <2>2, <2>4, <2>5 DEF TypeOK, CountInv, Decremented
<1>3. ASSUME NEW t \in Threads,
             Lock(t) \/ Release(t) \/ Unlock(t) \/ Acquire(t) \/ Return(t)
      PROVE  CountInv'
  <2>1. Outstanding' = Outstanding
    BY <1>3 DEF TypeOK, Outstanding, Lock, Release, SemGive, Unlock, Acquire, Return, Step
  <2>2. UNCHANGED <<calls, arrived, count>>
    BY <1>3 DEF Lock, Release, Unlock, Acquire, Return, histVars
  <2> QED
    BY <2>1, <2>2 DEF CountInv
<1>4. CASE Tick \/ OtherBarrierOpens \/ UNCHANGED vars
  BY <1>4 DEF Tick, OtherBarrierOpens, vars, CountInv, Outstanding, histVars
<1> QED
  BY <1>1, <1>2, <1>3, <1>4 DEF Next, WaitStep

\* Nothing gets out of wait() before the barrier is open, nothing arrives after
\* it, and _start_time does not change any more once it is open.
LEMMA OpenStep ==
  ASSUME OneRound, ~OtherBarriers, BInv, TypeOK', CountInv', [Next]_vars
  PROVE  OpenInv' /\ ResultInv'
<1> USE BoundAssumption, NoneAssumption
    DEF BInv, TypeOK, CountInv, OpenInv, ResultInv, Pc, HoldPc, envVars, histVars
<1>0. calls < Total => arrived < Total
  BY FS_CardinalityType, SMTT(20)
<1>1. ASSUME NEW t \in Threads, Call(t) PROVE OpenInv' /\ ResultInv'
  BY <1>0, <1>1 DEF Call, Step
<1>2. ASSUME NEW t \in Threads, Arrive(t) PROVE OpenInv' /\ ResultInv'
  <2>1. arrived < Total
    <3>1. arrived' = arrived + 1
      BY <1>2 DEF Arrive
    <3>2. arrived' <= Total
      BY FS_CardinalityType, SMTT(20)
    <3> QED
      BY <3>1, <3>2
  <2>2. count' = Total - (arrived + 1)
    BY <1>2 DEF Arrive
  <2> QED
    BY <1>2, <2>1, <2>2 DEF Arrive, Step
<1>3. ASSUME NEW t \in Threads, Lock(t) PROVE OpenInv' /\ ResultInv'
  BY <1>3 DEF Lock, Step
<1>4. ASSUME NEW t \in Threads, Release(t) PROVE OpenInv' /\ ResultInv'
  BY <1>4 DEF Release, SemGive
<1>5. ASSUME NEW t \in Threads, Unlock(t) PROVE OpenInv' /\ ResultInv'
  BY <1>5 DEF Unlock, Step
<1>6. ASSUME NEW t \in Threads, Acquire(t) PROVE OpenInv' /\ ResultInv'
  BY <1>6 DEF Acquire, Step
<1>7. ASSUME NEW t \in Threads, Return(t) PROVE OpenInv' /\ ResultInv'
  BY <1>7 DEF Return, Step
<1>8. CASE OtherBarrierOpens
  <2>1. arrived < Total
    BY <1>8 DEF OtherBarrierOpens
  <2>2. \A t \in Threads : result[t] = None
    BY <2>1
  <2>3. UNCHANGED <<sem, arrived, pc, result, rounds>>
    BY <1>8 DEF OtherBarrierOpens
  <2>4. OpenInv'
    BY <2>3
  <2>5. ResultInv'
    BY <2>2, <2>3
  <2> QED
    BY <2>4, <2>5
<1>9. CASE Tick \/ UNCHANGED vars
  BY <1>9 DEF Tick, vars
<1> QED
  BY <1>1, <1>2, <1>3, <1>4, <1>5, <1>6, <1>7, <1>8, <1>9 DEF Next, WaitStep

-----------------------------------------------------------------------------
\* The invariant holds in every round of Total calls after which no other
\* barrier opens.
LEMMA BInvariant == ASSUME OneRound, ~OtherBarriers PROVE Spec => []BInv
<1>1. BInv /\ [Next]_vars => BInv'
  BY BTypeStep, CountStep, OpenStep DEF BInv
<1> QED
  BY <1>1, BInit, PTL DEF Spec

\* wait() returns to nobody before all the threads of the round have arrived,
\* and it returns the same time to all of them.
THEOREM BarrierCorrect ==
  ASSUME OneRound, ~OtherBarriers PROVE Spec => [](WaitsForAll /\ SameTime)
<1>1. BInv => WaitsForAll
  BY BoundAssumption DEF BInv, TypeOK, CountInv, ResultInv, WaitsForAll
<1>2. BInv => SameTime
  BY DEF BInv, ResultInv, SameTime
<1> QED
  BY <1>1, <1>2, BInvariant, PTL

\* The barrier, made of a mutex, a semaphore and a counter, implements the
\* abstract barrier: every step of wait() is an abstract step or a stutter.
THEOREM BarrierRefinement ==
  ASSUME OneRound, ~OtherBarriers PROVE Spec => AbsSpec
<1> USE BoundAssumption, NoneAssumption
<1>1. Init => Abs!Init
  BY DEF Init, Abs!Init
<1>2. BInv /\ BInv' /\ [Next]_vars => [Abs!Next]_Abs!vars
  <2> SUFFICES ASSUME BInv, BInv', [Next]_vars PROVE [Abs!Next]_Abs!vars
    OBVIOUS
  <2>0. arrived \in Nat /\ arrived' \in Nat /\ arrived' <= Total
    <3>1. arrived \in Nat /\ arrived' \in Nat
      BY DEF BInv, TypeOK
    <3>2. arrived' <= Total
      BY FS_CardinalityType, <3>1 DEF BInv, CountInv
    <3> QED
      BY <3>1, <3>2
  <2>1. CASE Tick
    BY <2>1 DEF Tick, Abs!Next, Abs!Tick, histVars
  <2>2. ASSUME NEW t \in Threads, Arrive(t) PROVE Abs!Arrive
    <3>1. arrived' = arrived + 1 /\ UNCHANGED <<clock, result>>
      BY <2>2 DEF Arrive
    <3>2. arrived < Total
      BY <2>0, <3>1
    <3>3. arrived' = Total => startTime' = clock
      BY <2>0, <2>2, <3>1 DEF Arrive, BInv, CountInv
    <3> QED
      BY <2>0, <3>1, <3>2, <3>3 DEF Abs!Arrive
  <2>3. ASSUME NEW t \in Threads, Return(t) PROVE Abs!Leave(t)
    <3>1. arrived = Total /\ result[t] = None /\ startTime # None
      BY <2>3 DEF Return, Step, BInv, TypeOK, OpenInv, ResultInv
    <3>2. /\ result' = [result EXCEPT ![t] = startTime]
          /\ UNCHANGED <<clock, arrived, startTime>>
      BY <2>3 DEF Return, envVars
    <3>3. /\ (IF arrived < Total THEN None ELSE startTime) = startTime
          /\ (IF arrived < Total THEN None ELSE startTime)' = startTime
      BY <2>0, <3>1, <3>2
    <3> QED
      BY <3>1, <3>2, <3>3 DEF Abs!Leave
  <2>4. ASSUME NEW t \in Threads,
               Call(t) \/ Lock(t) \/ Release(t) \/ Unlock(t) \/ Acquire(t)
        PROVE  UNCHANGED <<clock, arrived, startTime, result>>
    BY <2>4 DEF Call, Lock, Release, Unlock, Acquire, envVars, histVars
  <2>5. CASE UNCHANGED vars
    BY <2>5 DEF vars, envVars, histVars, Abs!vars
  <2>6. CASE OtherBarrierOpens
    <3>1. arrived < Total /\ UNCHANGED <<clock, arrived, result>>
      BY <2>6 DEF OtherBarrierOpens, histVars
    <3> QED
      BY <3>1 DEF Abs!vars
  <2> QED
    BY <2>1, <2>2, <2>3, <2>4, <2>5, <2>6 DEF Next, WaitStep, Abs!Next, Abs!vars
<1> QED
  BY <1>1, <1>2, BInvariant, PTL DEF Spec, AbsSpec, Abs!Spec

=============================================================================
