------------------------------- MODULE Barrier -------------------------------
(***************************************************************************)
(* zpp_lib::Barrier (zpp_rtos/barrier.cpp, zpp_include/barrier.hpp) with   *)
(* the Mutex and the Semaphore it is made of (zpp_rtos/mutex.cpp,          *)
(* zpp_rtos/semaphore.cpp), built without CONFIG_USERSPACE.                *)
(*                                                                         *)
(* One barrier is modelled in full.  What it shares with the other         *)
(* barriers of the program is the static _start_time, which they write     *)
(* when they open (OtherBarrierOpens).                                     *)
(***************************************************************************)
EXTENDS Integers, FiniteSets

CONSTANTS
  Threads,         \* the threads that call wait()
  Total,           \* nbr_of_threads
  Modulus,         \* the modulus of _count: 2^32 in the code
  MaxTime,         \* bound on the clock
  MaxCalls,        \* bound on the calls of wait()
  None,
  OneRound,        \* usage: wait() is called Total times and never again
  OtherBarriers    \* usage: other barriers may open at any time; when FALSE,
                   \* only before this one does

ASSUME BoundAssumption ==
  /\ Total \in Nat \ {0}
  /\ Modulus \in Nat /\ Total < Modulus
  /\ MaxTime \in Nat
  /\ MaxCalls \in Nat
ASSUME UsageAssumption == OneRound \in BOOLEAN /\ OtherBarriers \in BOOLEAN
ASSUME NoneAssumption == None \notin Threads \cup Int

VARIABLES
  count,       \* _count, "number of threads still waiting"
  startTime,   \* the static _start_time
  mutex,       \* the owner of _mutex, or None
  sem,         \* the count of _wait_semaphore, whose limit is Total
  clock,       \* Time::get_uptime()
  pc,          \* where each thread is in wait()
  loop,        \* i of the thread that releases the others
  result,      \* what wait() last returned to each thread, or None
  calls,       \* history: how often wait() was called
  arrived,     \* history: how often _count was decremented
  rounds       \* history: how often wait() has returned to each thread

envVars == <<startTime, clock>>
histVars == <<calls, arrived, rounds>>
vars == <<count, mutex, sem, pc, loop, result, envVars, histVars>>

HoldPc == {"arrive", "release", "unlock"}
Pc == {"idle", "lock", "acquire", "pend", "return"} \cup HoldPc

TypeOK ==
  /\ count \in 0 .. Modulus - 1
  /\ startTime \in 0 .. MaxTime
  /\ mutex \in Threads \cup {None}
  /\ sem \in 0 .. Total
  /\ clock \in 0 .. MaxTime
  /\ pc \in [Threads -> Pc]
  /\ loop \in 0 .. Total
  /\ result \in [Threads -> (0 .. MaxTime) \cup {None}]
  /\ calls \in Nat
  /\ arrived \in Nat
  /\ rounds \in [Threads -> Nat]

\* Barrier::Barrier
Init ==
  /\ count = Total
  /\ startTime = 0
  /\ mutex = None
  /\ sem = 0
  /\ clock = 0
  /\ pc = [t \in Threads |-> "idle"]
  /\ loop = 0
  /\ result = [t \in Threads |-> None]
  /\ calls = 0
  /\ arrived = 0
  /\ rounds = [t \in Threads |-> 0]

-----------------------------------------------------------------------------
\* Time::get_uptime goes on.
Tick ==
  /\ clock < MaxTime
  /\ clock' = clock + 1
  /\ UNCHANGED <<count, startTime, mutex, sem, pc, loop, result, histVars>>

\* The last thread to arrive at another barrier writes the static _start_time.
OtherBarrierOpens ==
  /\ OtherBarriers \/ arrived < Total
  /\ startTime' = clock
  /\ UNCHANGED <<count, mutex, sem, clock, pc, loop, result, histVars>>

\* What -- makes of an unsigned integer.
Decremented(n) == IF n = 0 THEN Modulus - 1 ELSE n - 1

Step(t, from, to) == pc[t] = from /\ pc' = [pc EXCEPT ![t] = to]

Call(t) ==
  /\ calls < IF OneRound THEN Total ELSE MaxCalls
  /\ Step(t, "idle", "lock")
  /\ calls' = calls + 1
  /\ UNCHANGED <<count, mutex, sem, loop, result, envVars, arrived, rounds>>

\* _mutex.lock()
Lock(t) ==
  /\ Step(t, "lock", "arrive")
  /\ mutex = None
  /\ mutex' = t
  /\ UNCHANGED <<count, sem, loop, result, envVars, histVars>>

\* Mutants: the barrier opens one thread early; the start time is not taken.
ArriveEager(t) ==
  /\ count' = Decremented(count)
  /\ arrived' = arrived + 1
  /\ loop' = 0
  /\ IF count' <= 1
     THEN startTime' = clock /\ Step(t, "arrive", "release")
     ELSE UNCHANGED startTime /\ Step(t, "arrive", "unlock")
  /\ UNCHANGED <<mutex, sem, clock, result, calls, rounds>>

ArriveNoTime(t) ==
  /\ count' = Decremented(count)
  /\ arrived' = arrived + 1
  /\ loop' = 0
  /\ Step(t, "arrive", IF count' = 0 THEN "release" ELSE "unlock")
  /\ UNCHANGED <<mutex, sem, envVars, result, calls, rounds>>

\* _count--, and the last thread to arrive takes the start time.  The trace mark
\* and the callback that test builds add here (CONFIG_TEST) are left out.
Arrive(t) ==
  /\ count' = Decremented(count)
  /\ arrived' = arrived + 1
  /\ loop' = 0
  /\ IF count' = 0
     THEN startTime' = clock /\ Step(t, "arrive", "release")
     ELSE UNCHANGED startTime /\ Step(t, "arrive", "unlock")
  /\ UNCHANGED <<mutex, sem, clock, result, calls, rounds>>

\* k_sem_give: a thread that waits gets the token, whichever the scheduler
\* prefers; when none waits the count goes up, as far as the limit.
SemGive ==
  LET waiting == {u \in Threads : pc[u] = "pend"} IN
  IF waiting = {}
  THEN /\ sem' = IF sem < Total THEN sem + 1 ELSE sem
       /\ UNCHANGED pc
  ELSE /\ \E u \in waiting : pc' = [pc EXCEPT ![u] = "return"]
       /\ UNCHANGED sem

\* Mutant: the loop stops one short.
ReleaseTooFew(t) ==
  /\ pc[t] = "release" /\ loop < Total
  /\ IF loop < Total - 1 THEN SemGive ELSE UNCHANGED <<sem, pc>>
  /\ loop' = loop + 1
  /\ UNCHANGED <<count, mutex, result, envVars, histVars>>

\* One turn of the loop that releases _wait_semaphore _total times.
Release(t) ==
  /\ pc[t] = "release" /\ loop < Total
  /\ SemGive
  /\ loop' = loop + 1
  /\ UNCHANGED <<count, mutex, result, envVars, histVars>>

\* _mutex.unlock()
Unlock(t) ==
  /\ \/ Step(t, "unlock", "acquire")
     \/ loop = Total /\ Step(t, "release", "acquire")
  /\ mutex' = None
  /\ UNCHANGED <<count, sem, loop, result, envVars, histVars>>

\* _wait_semaphore.acquire(), that is k_sem_take(K_FOREVER).
Acquire(t) ==
  /\ IF sem > 0
     THEN Step(t, "acquire", "return") /\ sem' = sem - 1
     ELSE Step(t, "acquire", "pend") /\ UNCHANGED sem
  /\ UNCHANGED <<count, mutex, loop, result, envVars, histVars>>

\* Mutant: every thread takes the time for itself.
ReturnOwnTime(t) ==
  /\ Step(t, "return", "idle")
  /\ result' = [result EXCEPT ![t] = clock]
  /\ rounds' = [rounds EXCEPT ![t] = @ + 1]
  /\ UNCHANGED <<count, mutex, sem, loop, envVars, calls, arrived>>

\* return _start_time, read after the mutex was released.
Return(t) ==
  /\ Step(t, "return", "idle")
  /\ result' = [result EXCEPT ![t] = startTime]
  /\ rounds' = [rounds EXCEPT ![t] = @ + 1]
  /\ UNCHANGED <<count, mutex, sem, loop, envVars, calls, arrived>>

-----------------------------------------------------------------------------
WaitStep(t) ==
  Lock(t) \/ Arrive(t) \/ Release(t) \/ Unlock(t) \/ Acquire(t) \/ Return(t)

Next ==
  \/ Tick
  \/ OtherBarrierOpens
  \/ \E t \in Threads : Call(t) \/ WaitStep(t)

Spec == Init /\ [][Next]_vars

\* Every ready thread runs in turn, and the kernel hands the mutex to the
\* threads that wait for it.  Nothing obliges a thread to call wait().
Fairness == \A t \in Threads : SF_vars(WaitStep(t))

FairSpec == Spec /\ Fairness

-----------------------------------------------------------------------------
(***************************************************************************)
(* Properties.                                                             *)
(***************************************************************************)

\* "Wait for all thread to reach the barrier": when wait() returns to a
\* thread for the n-th time, n rounds of Total threads have arrived.
WaitsForAll == \A t \in Threads : arrived >= Total * rounds[t]

\* "all threads get the same synchronized time", although _start_time is read
\* after the mutex was released.
SameTime ==
  \A t, u \in Threads : result[t] # None /\ result[u] # None => result[t] = result[u]

\* Once Total threads have arrived, every thread in wait() gets out of it: no
\* token of the semaphore is lost between those that wait already and those
\* that have still to reach acquire().
WaitReturns ==
  \A t \in Threads : arrived >= Total /\ pc[t] # "idle" ~> pc[t] = "idle"

\* The barrier implements its abstract specification.
Abs == INSTANCE BarrierAbs WITH
         opened <- IF arrived < Total THEN None ELSE startTime

AbsSpec == Abs!Spec

=============================================================================
