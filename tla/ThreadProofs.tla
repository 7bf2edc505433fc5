---------------------------- MODULE ThreadProofs ----------------------------
(***************************************************************************)
(* Proofs about Thread, for every set of objects and clients and every     *)
(* pool size.  TypeCorrect, SafeJoin and HonestCounter hold however the    *)
(* class is used; SafePool assumes nested lifetimes.                       *)
(***************************************************************************)
EXTENDS Thread, FiniteSetTheorems, TLAPS

(***************************************************************************)
(* The inductive invariants.                                               *)
(***************************************************************************)

\* A client in a member function has an object.
CallInv == \A c \in Clients : cpc[c] # "idle" => cobj[c] \in Objects
IdleInv == \A c \in Clients : cpc[c] = "idle" => cobj[c] = None

\* A kernel thread that is not dead runs s_thunk for an object.
OwnInv == \A s \in Slots : Live(s) => wobj[s] \in Objects

TypeInv == TypeOK /\ CallInv

\* The labels at which a member function, and s_thunk, own the mutex.
HoldPc == {"start_check", "start_create", "start_run", "start_load", "start_store",
           "join_check", "join_reset"}
ExitHoldPc == {"exit_load", "exit_store"}

LockInv ==
  /\ \A c \in Clients : cpc[c] \in HoldPc => mutex[cobj[c]] = c
  /\ \A s \in Slots : wpc[s] \in ExitHoldPc => mutex[wobj[s]] = s

\* An object in use exists, by a client or by the thread that runs its task;
\* nobody else uses one that is being destroyed.
UseInv ==
  /\ \A c \in Clients : cpc[c] # "idle" => cobj[c] \in alive
  /\ \A c, d \in Clients : cpc[c] \in DtorPc /\ c # d => cobj[d] # cobj[c]
  /\ \A s \in Slots :
       Live(s) /\ wpc[s] # "exiting" /\ fault = "none" => wobj[s] \in alive

\* The thread that start() has created is there until start() unlocks: it
\* cannot lock the mutex before.
StartInv ==
  \A c \in Clients :
    /\ cpc[c] = "start_create" => tid[cobj[c]] = None
    /\ cpc[c] \in {"start_run", "start_load", "start_store"} /\ fault = "none" =>
         /\ tid[cobj[c]] \in Slots
         /\ wobj[tid[cobj[c]]] = cobj[c]
         /\ wpc[tid[cobj[c]]] \in
              IF cpc[c] = "start_run" THEN {"created"} ELSE {"ready", "task", "exit_lock"}

\* The object has no thread that is not dead.
Ended(o) == \A s \in Slots : Live(s) => wobj[s] # o

\* A join() past its test of _tid has a thread to join, unless another join()
\* of the object has ended since.
JoinInv ==
  \A c \in Clients : cobj[c] \notin raced =>
    /\ cpc[c] \in TestedPc => tid[cobj[c]] # None
    /\ cpc[c] \in {"join_pend", "dtor_pend"} => creg[c] = tid[cobj[c]]
    /\ cpc[c] \in {"join_relock", "join_reset", "dtor_done"} => Ended(cobj[c])

LifeInv ==
  /\ IdleInv /\ LockInv /\ UseInv /\ OwnInv
  /\ StartInv /\ JoinInv /\ NoOrphanThread /\ JoinNotNull

SInv == TypeInv /\ LifeInv

(***************************************************************************)
(* Nested lifetimes: the slots below s_thread_instance_count run, the ones *)
(* above it are free, and a start has the slot at the count for itself.    *)
(***************************************************************************)
EarlyPc == {"start_lock", "start_check", "start_create"}
LatePc == {"start_run", "start_load", "start_store"}
RunPc == {"ready", "task"}
ExitPc == {"exit_lock", "exit_load", "exit_store"}

OneStart == \A c, d \in Clients : cpc[c] \in StartPc /\ cpc[d] \in StartPc => c = d

QuietInv ==
  (\A c \in Clients : cpc[c] \notin StartPc) =>
    \A s \in Slots :
      /\ s < count - 1 => wpc[s] \in RunPc
      /\ s = count - 1 => wpc[s] \in RunPc \cup ExitPc
      /\ s >= count => wpc[s] \in {"dead", "exiting"}

EarlyInv ==
  (\E c \in Clients : cpc[c] \in EarlyPc) =>
    \A s \in Slots : IF s < count THEN wpc[s] \in RunPc ELSE wpc[s] = "dead"

LateInv ==
  \A c \in Clients :
    /\ cpc[c] = "start_create" => count < PoolSize
    /\ cpc[c] \in LatePc =>
         /\ count \in Slots
         /\ tid[cobj[c]] = count
         /\ wpc[count] \in IF cpc[c] = "start_run" THEN {"created"} ELSE RunPc
         /\ \A s \in Slots : s < count => wpc[s] \in RunPc
         /\ \A s \in Slots : s > count => wpc[s] = "dead"
    /\ cpc[c] = "start_store" => creg[c] = count

\* As long as nothing went wrong.
NInv ==
  /\ count <= PoolSize
  /\ \A s \in Slots : wpc[s] = "exit_store" => wreg[s] = count
  /\ OneStart /\ QuietInv /\ EarlyInv /\ LateInv

PoolInv ==
  /\ fault \notin {"overwrite", "oob"}
  /\ fault = "none" => NInv

(***************************************************************************)
(* However the class is used: s_thread_instance_count is the number of     *)
(* threads that were counted and have not yet been discounted, as long as  *)
(* no update is lost.                                                      *)
(***************************************************************************)
CountedPc == {"ready", "task", "exit_lock", "exit_load", "exit_store"}
CountedSlots ==
  {s \in Slots : /\ wpc[s] \in CountedPc
                 /\ \A c \in Clients :
                      cpc[c] \in {"start_load", "start_store"} => tid[cobj[c]] # s}

CounterInv == fault = "none" /\ ~torn => count = Cardinality(CountedSlots)

-----------------------------------------------------------------------------
(***************************************************************************)
(* Type correctness.                                                       *)
(***************************************************************************)

\* The initial state is well typed.
LEMMA TypeInit == Init => TypeInv
<1> SUFFICES ASSUME Init PROVE TypeInv
  OBVIOUS
<1>1. torn \in BOOLEAN
  BY Zenon DEF Init
<1> QED
  BY <1>1, PoolSizeAssumption DEF Init, TypeInv, TypeOK, CallInv, ClientPc, Slots, Byte

\* The value of a uint8_t after an increment or a decrement.
LEMMA ByteArith ==
  \A n \in Byte : (n + 1) % 256 \in Byte /\ (n + 255) % 256 \in Byte
BY DEF Byte

\* Every step of the code keeps the types.
LEMMA TypeStep == TypeInv /\ [Next]_vars => TypeInv'
<1> SUFFICES ASSUME TypeInv, [Next]_vars PROVE TypeInv'
  OBVIOUS
<1>d. 0 \in Byte /\ Slots \subseteq Byte
  BY PoolSizeAssumption DEF Byte, Slots
<1>h. raced' \subseteq Objects /\ torn' \in BOOLEAN
  BY DEF TypeInv, TypeOK, Next, Record, vars, history
<1>a. \A c \in Clients : (creg[c] + 1) % 256 \in Byte
  <2>1. \A c \in Clients : creg[c] \in Byte
    BY DEF TypeInv, TypeOK
  <2> QED
    BY <2>1, ByteArith
<1>b. \A s \in Slots : (wreg[s] + 255) % 256 \in Byte
  <2>1. \A s \in Slots : wreg[s] \in Byte
    BY DEF TypeInv, TypeOK
  <2> QED
    BY <2>1, ByteArith
<1>c. \A c \in Clients : cpc[c] # "idle" /\ tid[cobj[c]] # None => tid[cobj[c]] \in Byte
  <2>1. \A c \in Clients : cpc[c] # "idle" => tid[cobj[c]] \in Slots \cup {None}
    BY DEF TypeInv, TypeOK, CallInv
  <2> QED
    BY <2>1, <1>d
<1> USE <1>d, <1>h
    DEF TypeInv, TypeOK, CallInv, LivePc, ClientPc, StartPc, WaitPc, JoinPc, TestedPc,
        DtorPc, objectVars, workerVars, clientVars
<1>1. ASSUME NEW c \in Clients, NEW o \in Objects, CallStep(c, o) PROVE TypeInv'
  <2>1. PICK label \in {"start_lock", "ws_wait", "join_lock", "dtor_check"} :
               Call(c, o, label)
    BY <1>1 DEF CallStep, CallStart, CallWaitStarted, CallJoin, CallDestroy
  <2> QED
    BY <2>1 DEF Call
<1>2. ASSUME NEW o \in Objects, Construct(o) PROVE TypeInv'
  BY <1>2 DEF Construct
<1>3. ASSUME NEW c \in Clients, ClientStep(c) PROVE TypeInv'
  <2>1. CASE StartLock(c)
    BY <2>1 DEF StartLock, Step, Lock
  <2>2. CASE StartAlready(c)
    BY <2>2 DEF StartAlready, Return, Unlock
  <2>3. CASE StartCheck(c)
    BY <2>3 DEF StartCheck, Step
  <2>4. CASE StartCreate(c)
    <3>1. CASE count \in Slots /\ ~Live(count)
      BY <2>4, <3>1 DEF StartCreate, Step
    <3>2. CASE ~(count \in Slots /\ ~Live(count))
      BY <2>4, <3>2 DEF StartCreate, Step
    <3> QED
      BY <3>1, <3>2
  <2>5. CASE StartRun(c)
    BY <2>5 DEF StartRun, Step
  <2>6. CASE StartLoad(c)
    BY <2>6 DEF StartLoad, Step
  <2>7. CASE StartStore(c)
    <3>1. count' \in Byte
      BY <1>a, <2>7 DEF StartStore
    <3>2. /\ Return(c, "start_store") /\ Unlock(cobj[c])
          /\ UNCHANGED <<tid, flag, alive, workerVars, fault>>
      BY <2>7 DEF StartStore
    <3> QED
      BY <3>1, <3>2 DEF Return, Unlock
  <2>8. CASE EventWait(c)
    BY <2>8 DEF EventWait, Step
  <2>9. CASE EventClear(c)
    BY <2>9 DEF EventClear, Return
  <2>10. CASE JoinLock(c)
    BY <2>10 DEF JoinLock, Step, Lock
  <2>11. CASE JoinNothing(c)
    BY <2>11 DEF JoinNothing, Return, Unlock
  <2>12. CASE JoinUnlock(c)
    BY <2>12 DEF JoinUnlock, Step, Unlock
  <2>13. CASE JoinCall(c)
    <3>1. CASE tid[cobj[c]] = None
      BY <2>13, <3>1 DEF JoinCall, Step
    <3>2. CASE tid[cobj[c]] # None
      <4>1. tid[cobj[c]] \in Byte
        BY <1>c, <2>13, <3>2 DEF JoinCall
      <4> QED
        BY <2>13, <3>2, <4>1 DEF JoinCall, Step
    <3> QED
      BY <3>1, <3>2
  <2>14. CASE JoinRelock(c)
    BY <2>14 DEF JoinRelock, Step, Lock
  <2>15. CASE JoinReset(c)
    BY <2>15 DEF JoinReset, Return, Unlock
  <2>16. CASE DtorCheck(c)
    <3>1. tid[cobj[c]] # None => tid[cobj[c]] \in Byte
      BY <1>c, <2>16 DEF DtorCheck, Step
    <3> QED
      BY <2>16, <3>1 DEF DtorCheck, Step
  <2>17. CASE DtorDone(c)
    BY <2>17 DEF DtorDone, Return
  <2> QED
    BY <1>3, <2>1, <2>2, <2>3, <2>4, <2>5, <2>6, <2>7, <2>8, <2>9, <2>10,
       <2>11, <2>12, <2>13, <2>14, <2>15, <2>16, <2>17
       DEF ClientStep
<1>4. ASSUME NEW s \in Slots, WorkerStep(s) PROVE TypeInv'
  <2>1. CASE ThunkSetEvent(s)
    BY <2>1 DEF ThunkSetEvent, Using
  <2>2. CASE TaskReturn(s)
    BY <2>2 DEF TaskReturn
  <2>3. CASE ExitLock(s)
    BY <2>3 DEF ExitLock, Lock
  <2>4. CASE ExitLoad(s)
    BY <2>4 DEF ExitLoad
  <2>5. CASE ExitStore(s)
    <3>1. count' \in Byte
      BY <1>b, <2>5 DEF ExitStore
    <3>2. /\ wreg' = [wreg EXCEPT ![s] = 0] /\ Unlock(wobj[s])
          /\ wpc' = [wpc EXCEPT ![s] = "exiting"]
          /\ UNCHANGED <<tid, flag, alive, wobj, clientVars, fault>>
      BY <2>5 DEF ExitStore
    <3> QED
      BY <3>1, <3>2 DEF Unlock
  <2>6. CASE ThreadDies(s)
    BY <2>6 DEF ThreadDies, AfterJoin, Joining
  <2> QED
    BY <1>4, <2>1, <2>2, <2>3, <2>4, <2>5, <2>6 DEF WorkerStep
<1>5. CASE UNCHANGED vars
  BY <1>5 DEF vars
<1> QED
  BY <1>1, <1>2, <1>3, <1>4, <1>5 DEF Next

\* The variables of the class and of the pool keep their types, whatever the
\* order of the calls: in particular s_thread_instance_count stays a uint8_t.
THEOREM TypeCorrect == Spec => []TypeOK
<1>1. TypeInv => TypeOK
  BY DEF TypeInv
<1> QED
  BY <1>1, TypeInit, TypeStep, PTL DEF Spec

-----------------------------------------------------------------------------
(***************************************************************************)
(* The thread of an object is known to it until it is dead, and nobody     *)
(* takes _tid away from a join() in progress, unless two joins race.       *)
(***************************************************************************)

\* None is neither a slot, an object nor a client; slots are not clients.
LEMMA Names ==
  /\ None \notin Slots /\ None \notin Objects /\ None \notin Clients
  /\ Clients \cap Slots = {}
BY NamesAssumption DEF Slots

\* No object has a thread yet.
LEMMA SafeInit == Init => SInv
<1> SUFFICES ASSUME Init PROVE SInv
  OBVIOUS
<1>1. TypeInv
  BY TypeInit
<1>2. LifeInv
  BY DEF Init, LifeInv, IdleInv, LockInv, UseInv, OwnInv, StartInv, JoinInv,
         NoOrphanThread, JoinNotNull, Live, LivePc, HoldPc, ExitHoldPc, JoinPc, TestedPc, DtorPc
<1> QED
  BY <1>1, <1>2 DEF SInv

\* Every step of the code keeps an object and its thread together.
LEMMA SafeStep == SInv /\ [Next]_vars => LifeInv'
<1> SUFFICES ASSUME SInv, [Next]_vars PROVE LifeInv'
  OBVIOUS
<1>h. raced \subseteq raced'
  BY DEF Next, Record, vars, history
<1> USE <1>h
<1> USE Names
    DEF SInv, TypeInv, TypeOK, CallInv, LifeInv, IdleInv, LockInv, UseInv, OwnInv,
        StartInv, JoinInv, NoOrphanThread, JoinNotNull, Ended, Live, HoldPc, ExitHoldPc,
        LivePc, StartPc, WaitPc, JoinPc, TestedPc, DtorPc, objectVars, workerVars, clientVars
<1>1. ASSUME fault = "none", NEW c \in Clients, NEW o \in Objects, CallStart(c, o)
      PROVE LifeInv'
  BY <1>1 DEF CallStart, MayStart, Using, Call
<1>2. ASSUME fault = "none", NEW c \in Clients, NEW o \in Objects, CallWaitStarted(c, o)
      PROVE LifeInv'
  BY <1>2 DEF CallWaitStarted, Using, Call
<1>3. ASSUME fault = "none", NEW c \in Clients, NEW o \in Objects, CallJoin(c, o)
      PROVE LifeInv'
  BY <1>3 DEF CallJoin, MayJoin, Using, Call
<1>4. ASSUME fault = "none", NEW c \in Clients, NEW o \in Objects, CallDestroy(c, o)
      PROVE LifeInv'
  BY <1>4 DEF CallDestroy, MayDestroy, Call
<1>5. ASSUME fault = "none", NEW o \in Objects, Construct(o) PROVE LifeInv'
  BY <1>5 DEF Construct
<1>6. ASSUME fault = "none", NEW c \in Clients, StartLock(c) PROVE LifeInv'
  BY <1>6 DEF StartLock, Step, Lock
<1>7. ASSUME fault = "none", NEW c \in Clients, StartAlready(c) PROVE LifeInv'
  BY <1>7 DEF StartAlready, Return, Unlock
<1>8. ASSUME fault = "none", NEW c \in Clients, StartCheck(c) PROVE LifeInv'
  BY <1>8 DEF StartCheck, Step
<1>9. ASSUME fault = "none", NEW c \in Clients, StartCreate(c) PROVE LifeInv'
  <2>1. \A s \in Slots : Live(s) /\ cobj[c] \notin raced => wobj[s] # cobj[c]
    BY <1>9 DEF StartCreate, Step
  <2>2. NoOrphanThread' /\ OwnInv'
    BY <1>9, <2>1 DEF StartCreate, Step
  <2>3. StartInv'
    BY <1>9, <2>1 DEF StartCreate, Step
  <2>4. JoinInv' /\ JoinNotNull'
    BY <1>9, <2>1 DEF StartCreate, Step
  <2>5. IdleInv' /\ LockInv' /\ UseInv'
    BY <1>9 DEF StartCreate, Step
  <2> QED
    BY <2>2, <2>3, <2>4, <2>5
<1>10. ASSUME fault = "none", NEW c \in Clients, StartRun(c) PROVE LifeInv'
  BY <1>10 DEF StartRun, Step
<1>11. ASSUME fault = "none", NEW c \in Clients, StartLoad(c) PROVE LifeInv'
  BY <1>11 DEF StartLoad, Step
<1>12. ASSUME fault = "none", NEW c \in Clients, StartStore(c) PROVE LifeInv'
  BY <1>12 DEF StartStore, Return, Unlock
<1>13. ASSUME fault = "none", NEW c \in Clients, EventWait(c) PROVE LifeInv'
  BY <1>13 DEF EventWait, Step
<1>14. ASSUME fault = "none", NEW c \in Clients, EventClear(c) PROVE LifeInv'
  BY <1>14 DEF EventClear, Return
<1>15. ASSUME fault = "none", NEW c \in Clients, JoinLock(c) PROVE LifeInv'
  BY <1>15 DEF JoinLock, Step, Lock
<1>16. ASSUME fault = "none", NEW c \in Clients, JoinNothing(c) PROVE LifeInv'
  BY <1>16 DEF JoinNothing, Return, Unlock
<1>17. ASSUME fault = "none", NEW c \in Clients, JoinUnlock(c) PROVE LifeInv'
  BY <1>17 DEF JoinUnlock, Step, Unlock
<1>18. ASSUME fault = "none", NEW c \in Clients, JoinCall(c) PROVE LifeInv'
  <2>1. tid[cobj[c]] = None => cobj[c] \in raced
    BY <1>18 DEF JoinCall, Step
  <2>2. cobj[c] \notin raced /\ ~Live(tid[cobj[c]]) => Ended(cobj[c])
    BY <1>18 DEF JoinCall, Step
  <2> QED
    BY <1>18, <2>1, <2>2 DEF JoinCall, Step
<1>19. ASSUME fault = "none", NEW c \in Clients, JoinRelock(c) PROVE LifeInv'
  BY <1>19 DEF JoinRelock, Step, Lock
<1>20. ASSUME fault = "none", NEW c \in Clients, JoinReset(c), Record PROVE LifeInv'
  <2>1. cobj[c] \notin raced => Ended(cobj[c])
    BY <1>20 DEF JoinReset, Return, Unlock
  <2>2. \A d \in Clients : d # c /\ cpc[d] \in TestedPc /\ cobj[d] = cobj[c] => cobj[c] \in raced'
    <3>1. Using(c, cobj[c], {"join_reset"}) /\ cpc'[c] = "idle" /\ cobj[c] \in Objects
      BY <1>20 DEF JoinReset, Return, Using
    <3> QED
      BY <1>20, <3>1 DEF Record, Using
  <2> QED
    BY <1>20, <2>1, <2>2 DEF JoinReset, Return, Unlock
<1>21. ASSUME fault = "none", NEW c \in Clients, DtorCheck(c) PROVE LifeInv'
  BY <1>21 DEF DtorCheck, Step
<1>22. ASSUME fault = "none", NEW c \in Clients, DtorDone(c) PROVE LifeInv'
  <2>1. /\ cobj[c] \notin raced => Ended(cobj[c])
        /\ \A d \in Clients : d # c => cobj[d] # cobj[c]
    BY <1>22 DEF DtorDone, Return
  <2> QED
    BY <1>22, <2>1 DEF DtorDone, Return
<1>23. ASSUME fault = "none", NEW s \in Slots, ThunkSetEvent(s) PROVE LifeInv'
  BY <1>23 DEF ThunkSetEvent, Using
<1>24. ASSUME fault = "none", NEW s \in Slots, TaskReturn(s) PROVE LifeInv'
  BY <1>24 DEF TaskReturn
<1>25. ASSUME fault = "none", NEW s \in Slots, ExitLock(s) PROVE LifeInv'
  BY <1>25 DEF ExitLock, Lock
<1>26. ASSUME fault = "none", NEW s \in Slots, ExitLoad(s) PROVE LifeInv'
  BY <1>26 DEF ExitLoad
<1>27. ASSUME fault = "none", NEW s \in Slots, ExitStore(s) PROVE LifeInv'
  BY <1>27 DEF ExitStore, Unlock
<1>28. ASSUME fault = "none", NEW s \in Slots, ThreadDies(s) PROVE LifeInv'
  <2>1. \A c \in Clients :
          c \in Joining(s) /\ cobj[c] \notin raced => Ended(cobj[c])'
    BY <1>28 DEF ThreadDies, AfterJoin, Joining
  <2> QED
    BY <1>28, <2>1 DEF ThreadDies, AfterJoin, Joining
<1>29. CASE UNCHANGED vars
  BY <1>29 DEF vars
<1> HIDE DEF LifeInv, SInv
<1> QED
  BY <1>1, <1>2, <1>3, <1>4, <1>5, <1>6, <1>7, <1>8, <1>9, <1>10, <1>11,
     <1>12, <1>13, <1>14, <1>15, <1>16, <1>17, <1>18, <1>19, <1>20, <1>21,
     <1>22, <1>23, <1>24, <1>25, <1>26, <1>27, <1>28, <1>29
     DEF Next, CallStep, ClientStep, WorkerStep

\* For any number of objects, clients and slots and any order of the calls:
\* join() passes a null _tid to k_thread_join only when another join() of the
\* object has ended after both had found _tid set, and an object whose joins do
\* not race in this way knows its thread until the thread is dead and outlives
\* it, whatever joins, restarts and destructors do.
THEOREM SafeJoin == Spec => [](JoinNotNull /\ NoOrphanThread)
<1>1. SInv /\ [Next]_vars => SInv'
  BY SafeStep, TypeStep DEF SInv
<1>2. SInv => JoinNotNull /\ NoOrphanThread
  BY DEF SInv, LifeInv
<1> QED
  BY <1>1, <1>2, SafeInit, PTL DEF Spec

-----------------------------------------------------------------------------
(***************************************************************************)
(* Nested lifetimes: the static pool is a stack of threads.                *)
(***************************************************************************)

\* An uint8_t that is not zero does not wrap when it is decremented.
LEMMA ByteDecrement == \A n \in 1 .. 255 : (n + 255) % 256 = n - 1
OBVIOUS

\* One that is below 255 does not wrap when it is incremented.
LEMMA ByteIncrement == \A n \in 0 .. 254 : (n + 1) % 256 = n + 1
OBVIOUS

\* No slot is taken.
LEMMA PoolInit == Init => PoolInv
BY PoolSizeAssumption, Names
   DEF Init, PoolInv, NInv, OneStart, QuietInv, EarlyInv, LateInv,
       EarlyPc, LatePc, StartPc, RunPc, ExitPc, Slots

\* Every step of the code keeps the pool a stack.
LEMMA PoolStep == NestedLifetimes /\ SInv /\ PoolInv /\ [Next]_vars => PoolInv'
<1> SUFFICES ASSUME NestedLifetimes, SInv, PoolInv, [Next]_vars PROVE PoolInv'
  OBVIOUS
<1> USE PoolSizeAssumption, Names
    DEF SInv, TypeInv, TypeOK, CallInv, LifeInv, IdleInv, LockInv, UseInv,
        Live, HoldPc, PoolInv, NInv, OneStart,
        QuietInv, EarlyInv, LateInv, EarlyPc, LatePc, RunPc, ExitPc,
        LivePc, StartPc, WaitPc, JoinPc, TestedPc, DtorPc, objectVars, workerVars, clientVars,
        Slots, Byte
<1>1. ASSUME fault = "none", NEW c \in Clients, NEW o \in Objects, CallStart(c, o)
      PROVE PoolInv'
  BY <1>1 DEF CallStart, MayStart, NestedStart, Using, Call
<1>2. ASSUME fault = "none", NEW c \in Clients, NEW o \in Objects, CallWaitStarted(c, o)
      PROVE PoolInv'
  BY <1>2 DEF CallWaitStarted, Using, Call
<1>3. ASSUME fault = "none", NEW c \in Clients, NEW o \in Objects, CallJoin(c, o)
      PROVE PoolInv'
  BY <1>3 DEF CallJoin, MayJoin, Using, Call
<1>4. ASSUME fault = "none", NEW c \in Clients, NEW o \in Objects, CallDestroy(c, o)
      PROVE PoolInv'
  BY <1>4 DEF CallDestroy, MayDestroy, Call
<1>5. ASSUME fault = "none", NEW o \in Objects, Construct(o) PROVE PoolInv'
  BY <1>5 DEF Construct
<1>6. ASSUME fault = "none", NEW c \in Clients, StartLock(c) PROVE PoolInv'
  BY <1>6 DEF StartLock, Step, Lock
<1>7. ASSUME fault = "none", NEW c \in Clients, StartAlready(c) PROVE PoolInv'
  BY <1>7 DEF StartAlready, Return, Unlock
<1>8. ASSUME fault = "none", NEW c \in Clients, StartCheck(c) PROVE PoolInv'
  BY <1>8 DEF StartCheck, Step
<1>9. ASSUME fault = "none", NEW c \in Clients, StartCreate(c) PROVE PoolInv'
  <2>1. count \in Slots /\ wpc[count] = "dead" /\ cobj[c] \in Objects
    BY <1>9 DEF StartCreate, Step
  <2>2. /\ tid' = [tid EXCEPT ![cobj[c]] = count]
        /\ wpc' = [wpc EXCEPT ![count] = "created"]
        /\ wobj' = [wobj EXCEPT ![count] = cobj[c]]
        /\ cpc' = [cpc EXCEPT ![c] = "start_run"]
        /\ UNCHANGED <<mutex, flag, alive, wreg, fault, count, creg, cobj>>
    BY <1>9, <2>1 DEF StartCreate, Step
  <2>3. OneStart' /\ QuietInv' /\ EarlyInv'
    BY <1>9, <2>1, <2>2 DEF StartCreate, Step
  <2>4. LateInv'
    BY <1>9, <2>1, <2>2 DEF StartCreate, Step
  <2>6. (count <= PoolSize /\ \A t \in Slots : wpc[t] = "exit_store" => wreg[t] = count)'
    BY <1>9, <2>1, <2>2 DEF StartCreate, Step
  <2> QED
    BY <1>9, <2>2, <2>3, <2>4, <2>6
<1>10. ASSUME fault = "none", NEW c \in Clients, StartRun(c) PROVE PoolInv'
  BY <1>10 DEF StartRun, Step
<1>11. ASSUME fault = "none", NEW c \in Clients, StartLoad(c) PROVE PoolInv'
  BY <1>11 DEF StartLoad, Step
<1>12. ASSUME fault = "none", NEW c \in Clients, StartStore(c) PROVE PoolInv'
  <2>1. creg[c] = count /\ count' = count + 1
    BY <1>12 DEF StartStore, Return, Unlock
  <2>2. QuietInv'
    BY <1>12, <2>1 DEF StartStore, Return, Unlock
  <2>3. EarlyInv' /\ LateInv' /\ OneStart'
    BY <1>12, <2>1 DEF StartStore, Return, Unlock
  <2>4. fault' = "none"
    BY <1>12, <2>1 DEF StartStore, Return, Unlock
  <2>5. (count <= PoolSize /\ \A t \in Slots : wpc[t] = "exit_store" => wreg[t] = count)'
    BY <1>12, <2>1 DEF StartStore, Return, Unlock
  <2> QED
    BY <2>2, <2>3, <2>4, <2>5
<1>13. ASSUME fault = "none", NEW c \in Clients, EventWait(c) PROVE PoolInv'
  BY <1>13 DEF EventWait, Step
<1>14. ASSUME fault = "none", NEW c \in Clients, EventClear(c) PROVE PoolInv'
  BY <1>14 DEF EventClear, Return
<1>15. ASSUME fault = "none", NEW c \in Clients, JoinLock(c) PROVE PoolInv'
  BY <1>15 DEF JoinLock, Step, Lock
<1>16. ASSUME fault = "none", NEW c \in Clients, JoinNothing(c) PROVE PoolInv'
  BY <1>16 DEF JoinNothing, Return, Unlock
<1>17. ASSUME fault = "none", NEW c \in Clients, JoinUnlock(c) PROVE PoolInv'
  BY <1>17 DEF JoinUnlock, Step, Unlock
<1>18. ASSUME fault = "none", NEW c \in Clients, JoinCall(c) PROVE PoolInv'
  BY <1>18 DEF JoinCall, Step
<1>19. ASSUME fault = "none", NEW c \in Clients, JoinRelock(c) PROVE PoolInv'
  BY <1>19 DEF JoinRelock, Step, Lock
<1>20. ASSUME fault = "none", NEW c \in Clients, JoinReset(c) PROVE PoolInv'
  BY <1>20 DEF JoinReset, Return, Unlock
<1>21. ASSUME fault = "none", NEW c \in Clients, DtorCheck(c) PROVE PoolInv'
  BY <1>21, SMTT(20) DEF DtorCheck, Step
<1>22. ASSUME fault = "none", NEW c \in Clients, DtorDone(c) PROVE PoolInv'
  BY <1>22 DEF DtorDone, Return
<1>23. ASSUME fault = "none", NEW s \in Slots, ThunkSetEvent(s) PROVE PoolInv'
  BY <1>23 DEF ThunkSetEvent, Using
<1>24. ASSUME fault = "none", NEW s \in Slots, TaskReturn(s) PROVE PoolInv'
  BY <1>24 DEF TaskReturn, NestedReturn
<1>25. ASSUME fault = "none", NEW s \in Slots, ExitLock(s) PROVE PoolInv'
  <2>1. /\ wpc[s] = "exit_lock" /\ wpc' = [wpc EXCEPT ![s] = "exit_load"]
        /\ UNCHANGED <<count, wreg, clientVars, fault, tid>>
    BY <1>25 DEF ExitLock
  <2>2. QuietInv'
    BY <1>25, <2>1
  <2>3. EarlyInv' /\ OneStart'
    BY <1>25, <2>1
  <2>4. LateInv'
    BY <1>25, <2>1
  <2> QED
    BY <1>25, <2>1, <2>2, <2>3, <2>4
<1>26. ASSUME fault = "none", NEW s \in Slots, ExitLoad(s) PROVE PoolInv'
  BY <1>26 DEF ExitLoad
<1>27. ASSUME fault = "none", NEW s \in Slots, ExitStore(s) PROVE PoolInv'
  <2>1. \A c \in Clients : cpc[c] \notin StartPc
    BY <1>27, SMTT(20) DEF ExitStore, Unlock
  <2>2. s = count - 1
    <3>1. wpc[s] = "exit_store" /\ QuietInv
      BY <1>27 DEF ExitStore
    <3>2. ~(s < count - 1) /\ ~(s >= count)
      BY <2>1, <3>1
    <3> QED
      BY <3>2
  <2>3. wreg[s] = count /\ count \in 1 .. 255
    BY <1>27, <2>2 DEF ExitStore, Unlock
  <2>4. count' = (count + 255) % 256
    BY <1>27, <2>3 DEF ExitStore, Unlock
  <2>5. count' = count - 1
    BY <2>3, <2>4, ByteDecrement DEF ExitStore, Unlock
  <2>6. QuietInv'
    BY <2>1, <2>2, <2>5, <1>27 DEF ExitStore, Unlock
  <2>7. EarlyInv' /\ LateInv' /\ OneStart'
    BY <2>1, <2>5, <1>27 DEF ExitStore, Unlock
  <2>8. fault' = "none"
    BY <1>27 DEF ExitStore, Unlock
  <2>9. (count <= PoolSize /\ \A t \in Slots : wpc[t] = "exit_store" => wreg[t] = count)'
    BY <2>1, <2>2, <2>5, <1>27 DEF ExitStore, Unlock
  <2> QED
    BY <2>6, <2>7, <2>8, <2>9
<1>28. ASSUME fault = "none", NEW s \in Slots, ThreadDies(s) PROVE PoolInv'
  BY <1>28 DEF ThreadDies, AfterJoin, Joining
<1>29. CASE UNCHANGED vars
  BY <1>29 DEF vars
<1> HIDE DEF PoolInv, SInv
<1> QED
  BY <1>1, <1>2, <1>3, <1>4, <1>5, <1>6, <1>7, <1>8, <1>9, <1>10, <1>11,
     <1>12, <1>13, <1>14, <1>15, <1>16, <1>17, <1>18, <1>19, <1>20, <1>21,
     <1>22, <1>23, <1>24, <1>25, <1>26, <1>27, <1>28, <1>29
     DEF Next, CallStep, ClientStep, WorkerStep

\* When threads end in the reverse order of their start, and none starts while
\* another starts or ends, the counter is a correct allocator for any number of
\* objects and slots: no stack is handed out twice and no index leaves the pool.
THEOREM SafePool == ASSUME NestedLifetimes PROVE Spec => []StackExclusive
<1>1. SInv /\ [Next]_vars => SInv'
  BY SafeStep, TypeStep DEF SInv
<1>2. PoolInv => StackExclusive
  BY DEF PoolInv, StackExclusive
<1>3. SInv /\ PoolInv /\ [Next]_vars => PoolInv'
  BY PoolStep
<1> QED
  BY <1>1, <1>2, <1>3, SafeInit, PoolInit, PTL DEF Spec

-----------------------------------------------------------------------------
(***************************************************************************)
(* The counter, however the class is used.                                 *)
(***************************************************************************)

\* The counted slots are a finite set, of at most PoolSize elements.
LEMMA CountedFinite ==
  /\ IsFiniteSet(CountedSlots)
  /\ Cardinality(CountedSlots) \in 0 .. PoolSize
  /\ Cardinality(CountedSlots) = PoolSize => CountedSlots = Slots
<1>1. IsFiniteSet(Slots) /\ Cardinality(Slots) = PoolSize
  BY FS_Interval, PoolSizeAssumption DEF Slots
<1>2. CountedSlots \subseteq Slots
  BY DEF CountedSlots
<1>3. /\ IsFiniteSet(CountedSlots)
      /\ Cardinality(CountedSlots) <= Cardinality(Slots)
      /\ Cardinality(CountedSlots) = Cardinality(Slots) => CountedSlots = Slots
  BY <1>1, <1>2, FS_Subset
<1>4. Cardinality(CountedSlots) \in Nat
  BY <1>3, FS_CardinalityType
<1> QED
  BY <1>1, <1>3, <1>4, PoolSizeAssumption

\* No thread is counted at the start.
LEMMA CounterInit == Init => CounterInv /\ PoolFullIsReal
<1> SUFFICES ASSUME Init PROVE CounterInv /\ PoolFullIsReal
  OBVIOUS
<1>1. CountedSlots = {}
  BY DEF Init, CountedSlots, CountedPc
<1> QED
  BY <1>1, FS_EmptySet DEF Init, CounterInv, PoolFullIsReal

\* A step that neither changes the counter nor who is counted.
LEMMA CounterKept ==
  ASSUME CounterInv, torn \in BOOLEAN, torn => torn', fault = "none", count' = count,
         CountedSlots' = CountedSlots, fault' # "assert"
  PROVE  CounterInv' /\ PoolFullIsReal'
BY DEF CounterInv, PoolFullIsReal

\* Every step of the code keeps the counter exact, or loses an update.
LEMMA CounterStep ==
  SInv /\ CounterInv /\ PoolFullIsReal /\ [Next]_vars => CounterInv' /\ PoolFullIsReal'
<1> SUFFICES ASSUME SInv, CounterInv, PoolFullIsReal, [Next]_vars
             PROVE  CounterInv' /\ PoolFullIsReal'
  OBVIOUS
<1> DEFINE Kept == count' = count /\ CountedSlots' = CountedSlots /\ fault' # "assert"
<1>h. torn \in BOOLEAN /\ (torn => torn')
  BY DEF SInv, TypeInv, TypeOK, Next, Record, vars, history
<1> USE Names
    DEF SInv, TypeInv, TypeOK, CallInv, LifeInv, LockInv, UseInv, OwnInv, StartInv,
        CountedPc, CountedSlots, Live, HoldPc, ExitHoldPc, LivePc, StartPc, WaitPc,
        JoinPc, TestedPc, DtorPc, objectVars, workerVars, clientVars
<1>1. ASSUME fault = "none", NEW c \in Clients, NEW o \in Objects, CallStep(c, o) PROVE Kept
  <2>1. PICK label \in {"start_lock", "ws_wait", "join_lock", "dtor_check"} :
               Call(c, o, label)
    BY <1>1 DEF CallStep, CallStart, CallWaitStarted, CallJoin, CallDestroy
  <2> QED
    BY <1>1, <2>1 DEF Call
<1>2. ASSUME fault = "none", NEW o \in Objects, Construct(o) PROVE Kept
  BY <1>2 DEF Construct
<1>3. ASSUME fault = "none", NEW c \in Clients,
             StartLock(c) \/ StartAlready(c) \/ StartLoad(c) \/ EventWait(c) \/ EventClear(c)
      PROVE  Kept
  BY <1>3 DEF StartLock, StartAlready, StartLoad, EventWait, EventClear, Step, Return, Lock, Unlock
<1>4. ASSUME fault = "none", NEW c \in Clients, StartCreate(c) PROVE Kept
  <2>1. fault' # "assert" /\ count' = count
    BY <1>4 DEF StartCreate
  <2>2. CASE count \in Slots /\ ~Live(count)
    <3>1. /\ tid' = [tid EXCEPT ![cobj[c]] = count]
          /\ wpc' = [wpc EXCEPT ![count] = "created"]
          /\ cpc' = [cpc EXCEPT ![c] = "start_run"]
          /\ cobj' = cobj
      BY <1>4, <2>2 DEF StartCreate, Step
    <3>2. \A d \in Clients : d # c /\ cpc[d] \in {"start_load", "start_store"}
                             => cobj[d] # cobj[c]
      BY <1>4 DEF StartCreate, Step
    <3> QED
      BY <1>4, <2>1, <2>2, <3>1, <3>2 DEF StartCreate, Step
  <2>3. CASE ~(count \in Slots /\ ~Live(count))
    BY <1>4, <2>1, <2>3 DEF StartCreate, Step
  <2> QED
    BY <2>2, <2>3
<1>5. ASSUME fault = "none", NEW c \in Clients, StartRun(c) PROVE Kept
  BY <1>5 DEF StartRun, Step
<1>6. ASSUME fault = "none", NEW c \in Clients,
             JoinLock(c) \/ JoinNothing(c) \/ JoinUnlock(c) \/ JoinCall(c) \/ JoinRelock(c)
      PROVE  Kept
  BY <1>6 DEF JoinLock, JoinNothing, JoinUnlock, JoinCall, JoinRelock, Step, Return, Lock, Unlock
<1>7. ASSUME fault = "none", NEW c \in Clients, JoinReset(c) PROVE Kept
  BY <1>7 DEF JoinReset, Return, Unlock
<1>8. ASSUME fault = "none", NEW c \in Clients, DtorCheck(c) \/ DtorDone(c) PROVE Kept
  BY <1>8 DEF DtorCheck, DtorDone, Step, Return
<1>9. ASSUME fault = "none", NEW s \in Slots,
             ThunkSetEvent(s) \/ TaskReturn(s) \/ ExitLock(s) \/ ExitLoad(s) \/ ThreadDies(s)
      PROVE  Kept
  BY <1>9 DEF ThunkSetEvent, TaskReturn, ExitLock, ExitLoad, ThreadDies, AfterJoin, Joining,
              Using, Lock
<1>10. ASSUME fault = "none", NEW c \in Clients, StartCheck(c)
       PROVE  CounterInv' /\ PoolFullIsReal'
  <2>1. count' = count /\ CountedSlots' = CountedSlots
    BY <1>10 DEF StartCheck, Step
  <2>2. PoolFullIsReal'
    <3> SUFFICES ASSUME fault' = "assert", ~torn' PROVE \A s \in Slots : Live(s)'
      BY <1>h DEF PoolFullIsReal
    <3>1. count = Cardinality(CountedSlots) /\ ~(count < PoolSize)
      BY <1>10, <1>h DEF StartCheck, CounterInv
    <3>2. CountedSlots = Slots
      <4> HIDE DEF CountedSlots
      <4> QED
        BY <3>1, CountedFinite, PoolSizeAssumption
    <3> QED
      BY <1>10, <3>2 DEF StartCheck
  <2>3. CounterInv'
    BY <1>10, <1>h, <2>1 DEF CounterInv
  <2> QED
    BY <2>2, <2>3
<1>11. ASSUME fault = "none", NEW c \in Clients, StartStore(c), Record
       PROVE  CounterInv' /\ PoolFullIsReal'
  <2> DEFINE s == tid[cobj[c]]
  <2>1. cpc[c] = "start_store" /\ cpc'[c] = "idle" /\ fault' = "none"
    BY <1>11 DEF StartStore, Return
  <2>2. s \in Slots /\ s \notin CountedSlots
    BY <1>11, <2>1
  <2>3. CountedSlots' = CountedSlots \cup {s}
    <3>1. \A d \in Clients : d # c /\ cpc[d] \in {"start_load", "start_store"} => tid[cobj[d]] # s
      BY <1>11, <2>1
    <3> QED
      BY <1>11, <2>1, <2>2, <3>1 DEF StartStore, Return
  <2>4. ASSUME ~torn' PROVE count' = Cardinality(CountedSlots')
    <3>1. creg[c] = count /\ count = Cardinality(CountedSlots)
      BY <1>11, <1>h, <2>1, <2>4 DEF Record, CounterInv
    <3>2. count' = (count + 1) % 256
      BY <1>11, <3>1 DEF StartStore
    <3> HIDE DEF CountedSlots, s
    <3>3. Cardinality(CountedSlots') = Cardinality(CountedSlots) + 1
      BY <2>2, <2>3, CountedFinite, FS_AddElement
    <3>4. count < PoolSize
      BY <2>2, <3>1, CountedFinite, PoolSizeAssumption
    <3>5. count \in 0 .. 254
      <4> HIDE DEF SInv
      <4>1. count \in 0 .. PoolSize
        BY <3>1, CountedFinite
      <4> QED
        BY <3>4, <4>1, PoolSizeAssumption
    <3> QED
      BY <3>1, <3>2, <3>3, <3>5, ByteIncrement
  <2> QED
    BY <2>1, <2>4 DEF CounterInv, PoolFullIsReal
<1>12. ASSUME fault = "none", NEW s \in Slots, ExitStore(s), Record
       PROVE  CounterInv' /\ PoolFullIsReal'
  <2>1. /\ wpc[s] = "exit_store" /\ wpc' = [wpc EXCEPT ![s] = "exiting"]
        /\ fault' = "none" /\ UNCHANGED <<cpc, cobj, tid>>
    BY <1>12 DEF ExitStore
  <2>2. s \in CountedSlots
    BY <1>12, <2>1
  <2>3. CountedSlots' = CountedSlots \ {s}
    BY <2>1, <2>2
  <2>4. ASSUME ~torn' PROVE count' = Cardinality(CountedSlots')
    <3>1. wreg[s] = count /\ count = Cardinality(CountedSlots)
      BY <1>12, <1>h, <2>1, <2>4 DEF Record, CounterInv
    <3>2. count' = (count + 255) % 256
      BY <1>12, <3>1 DEF ExitStore
    <3> HIDE DEF CountedSlots
    <3>3. Cardinality(CountedSlots') = Cardinality(CountedSlots) - 1
      BY <2>2, <2>3, CountedFinite, FS_RemoveElement
    <3>4. Cardinality(CountedSlots) # 0
      BY <2>2, CountedFinite, FS_EmptySet
    <3>5. count \in 1 .. 255
      <4> HIDE DEF SInv
      <4>1. count \in 0 .. PoolSize /\ count # 0
        BY <3>1, <3>4, CountedFinite
      <4> QED
        BY <4>1, PoolSizeAssumption
    <3> QED
      BY <3>1, <3>2, <3>3, <3>5, ByteDecrement
  <2> QED
    BY <2>1, <2>4 DEF CounterInv, PoolFullIsReal
<1>13. CASE UNCHANGED vars
  BY <1>13 DEF vars, history, CounterInv, PoolFullIsReal
<1>14. ASSUME fault = "none", Kept PROVE CounterInv' /\ PoolFullIsReal'
  <2> HIDE DEF CountedSlots
  <2> QED
    BY <1>14, <1>h, CounterKept
<1> HIDE DEF Kept, SInv, CountedSlots
<1> QED
  BY <1>1, <1>2, <1>3, <1>4, <1>5, <1>6, <1>7, <1>8, <1>9, <1>10, <1>11, <1>12, <1>13, <1>14
     DEF Next, ClientStep, WorkerStep

\* For any number of objects, clients and slots and any order of the calls,
\* "Too many threads created" is true as long as no update of the counter is
\* lost: the counter is then exactly the number of threads that start() has
\* counted and that have not yet taken themselves off, and it does not wrap.
THEOREM HonestCounter == Spec => []PoolFullIsReal
<1>1. SInv /\ [Next]_vars => SInv'
  BY SafeStep, TypeStep DEF SInv
<1> QED
  BY <1>1, SafeInit, CounterInit, CounterStep, PTL DEF Spec

=============================================================================
