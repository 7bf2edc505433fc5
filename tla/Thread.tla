------------------------------- MODULE Thread -------------------------------
(***************************************************************************)
(* zpp_lib::Thread (zpp_rtos/thread.cpp, zpp_include/thread.hpp), built    *)
(* without CONFIG_USERSPACE and with CONFIG_ASSERT.                        *)
(*                                                                         *)
(* Application threads (Clients) call start(), wait_started(), join() and  *)
(* the destructor of Thread objects (Objects).  start() creates a kernel   *)
(* thread in a slot of the static pool (thread_data[], and the stack with  *)
(* the same index); the slot runs s_thunk.  The slot index is taken from   *)
(* s_thread_instance_count, one static uint8_t shared by all the objects,  *)
(* which start() increments and s_thunk decrements under the mutex of      *)
(* THEIR OWN object: neither operation is atomic, both are a load and a    *)
(* store here.                                                             *)
(*                                                                         *)
(* A failed assertion (the system is halted) and undefined behaviour (the  *)
(* stack of a live thread reused, the pool indexed out of its bounds, a    *)
(* null pointer joined, an object freed under its running thread) set      *)
(* fault and end the behaviour: nothing can be said of what follows.       *)
(***************************************************************************)
EXTENDS Integers

CONSTANTS
  Objects,           \* the Thread objects
  Clients,           \* the application threads that use them
  PoolSize,          \* CONFIG_ZPP_THREAD_POOL_SIZE
  None,              \* nullptr, no owner
  SingleJoiner,      \* usage: one client at a time is in join() of an object
  NestedLifetimes    \* usage: threads end in the reverse order of their start

ASSUME PoolSizeAssumption == PoolSize \in 1 .. 255
ASSUME UsageAssumption == SingleJoiner \in BOOLEAN /\ NestedLifetimes \in BOOLEAN
ASSUME NamesAssumption ==
  /\ None \notin Objects \cup Clients \cup Int
  /\ Clients \cap Int = {}

Slots == 0 .. PoolSize - 1

\* The values of a uint8_t.
Byte == 0 .. 255

VARIABLES
  tid,           \* _tid of each object: its slot, or None
  mutex,         \* owner of _mutex of each object: a client, a slot, or None
  flag,          \* the objects with kStartedEvent set in their _event
  alive,         \* the objects that are constructed and not destroyed
  count,         \* s_thread_instance_count
  wpc,           \* where the kernel thread of each slot is in s_thunk
  wobj,          \* the object whose s_thunk the slot runs (p1)
  wreg,          \* count as loaded by the decrement of s_thunk
  cpc,           \* where each client is in a member function
  cobj,          \* the object of that call
  creg,          \* what a call keeps in a register: the count as loaded by the
                 \* increment of start(), the slot k_thread_join waits for
  fault,         \* "none", or what ended the behaviour
  raced,         \* history: objects whose _tid a join() reset while another
                 \* join() of theirs had found it set
  torn           \* history: an update of the count has overwritten another

objectVars == <<tid, mutex, flag, alive>>
workerVars == <<wpc, wobj, wreg>>
clientVars == <<cpc, cobj, creg>>
history == <<raced, torn>>
vars == <<objectVars, count, workerVars, clientVars, fault, history>>

\* A slot holds a kernel thread that was created and has not died.
LivePc == {"created", "ready", "task", "exit_lock", "exit_load", "exit_store", "exiting"}
Live(s) == wpc[s] \in LivePc

StartPc == {"start_lock", "start_check", "start_create", "start_run", "start_load",
            "start_store"}
WaitPc == {"ws_wait", "ws_pend", "ws_clear"}
TestedPc == {"join_call", "join_pend", "join_relock", "join_reset"}
JoinPc == {"join_lock", "join_check"} \cup TestedPc
DtorPc == {"dtor_check", "dtor_pend", "dtor_done"}
ClientPc == {"idle"} \cup StartPc \cup WaitPc \cup JoinPc \cup DtorPc

Using(c, o, labels) == cobj[c] = o /\ cpc[c] \in labels

TypeOK ==
  /\ tid \in [Objects -> Slots \cup {None}]
  /\ mutex \in [Objects -> Clients \cup Slots \cup {None}]
  /\ flag \subseteq Objects
  /\ alive \subseteq Objects
  /\ count \in Byte
  /\ wpc \in [Slots -> LivePc \cup {"dead"}]
  /\ wobj \in [Slots -> Objects \cup {None}]
  /\ wreg \in [Slots -> Byte]
  /\ cpc \in [Clients -> ClientPc]
  /\ cobj \in [Clients -> Objects \cup {None}]
  /\ creg \in [Clients -> Byte]
  /\ fault \in {"none", "assert", "oob", "overwrite", "nulljoin", "freed"}
  /\ raced \subseteq Objects
  /\ torn \in BOOLEAN

Init ==
  /\ tid = [o \in Objects |-> None]
  /\ mutex = [o \in Objects |-> None]
  /\ flag = {}
  /\ alive = Objects
  /\ count = 0
  /\ wpc = [s \in Slots |-> "dead"]
  /\ wobj = [s \in Slots |-> None]
  /\ wreg = [s \in Slots |-> 0]
  /\ cpc = [c \in Clients |-> "idle"]
  /\ cobj = [c \in Clients |-> None]
  /\ creg = [c \in Clients |-> 0]
  /\ fault = "none"
  /\ raced = {}
  /\ torn = FALSE

-----------------------------------------------------------------------------
(***************************************************************************)
(* How the application uses the class: the conditions under which a client *)
(* calls a member function and a task returns.                             *)
(***************************************************************************)

\* Nested lifetimes, at a start: no other start is in progress and no thread
\* is on its way out.
NestedStart ==
  /\ \A c \in Clients : cpc[c] \notin StartPc
  /\ \A s \in Slots : wpc[s] \in {"dead", "ready", "task"}

\* Nested lifetimes, at the end of a task: it is the task started last.
NestedReturn(s) ==
  /\ \A c \in Clients : cpc[c] \notin StartPc
  /\ s = count - 1

MayStart(o) ==
  /\ o \in alive
  /\ \A c \in Clients : ~Using(c, o, DtorPc)
  /\ NestedLifetimes => NestedStart

MayJoin(o) ==
  /\ o \in alive
  /\ \A c \in Clients : ~Using(c, o, DtorPc)
  /\ SingleJoiner => \A c \in Clients : ~Using(c, o, JoinPc)

\* C++ requires that nobody else uses an object that is being destroyed.
MayDestroy(o) ==
  /\ o \in alive
  /\ \A c \in Clients : cobj[c] # o

Call(c, o, label) ==
  /\ cpc[c] = "idle"
  /\ cpc' = [cpc EXCEPT ![c] = label]
  /\ cobj' = [cobj EXCEPT ![c] = o]
  /\ UNCHANGED <<objectVars, count, workerVars, creg, fault>>

CallStart(c, o) == MayStart(o) /\ Call(c, o, "start_lock")
CallWaitStarted(c, o) ==
  /\ o \in alive
  /\ \A d \in Clients : ~Using(d, o, DtorPc)
  /\ Call(c, o, "ws_wait")
CallJoin(c, o) == MayJoin(o) /\ Call(c, o, "join_lock")
CallDestroy(c, o) == MayDestroy(o) /\ Call(c, o, "dtor_check")

\* Step from one label to another inside a member function, and return.
Step(c, from, to) == cpc[c] = from /\ cpc' = [cpc EXCEPT ![c] = to] /\ UNCHANGED cobj
Return(c, from) ==
  /\ cpc[c] = from
  /\ cpc' = [cpc EXCEPT ![c] = "idle"]
  /\ cobj' = [cobj EXCEPT ![c] = None]
  /\ creg' = [creg EXCEPT ![c] = 0]

\* k_mutex_lock(K_FOREVER) and k_mutex_unlock on _mutex.  The class never
\* locks it twice in one thread, so ownership without a count is enough.
Lock(o, a) == mutex[o] = None /\ mutex' = [mutex EXCEPT ![o] = a]
Unlock(o) == mutex' = [mutex EXCEPT ![o] = None]

-----------------------------------------------------------------------------
(***************************************************************************)
(* Thread::Thread, the members in their initial state.                     *)
(***************************************************************************)
Construct(o) ==
  /\ o \notin alive
  /\ alive' = alive \cup {o}
  /\ tid' = [tid EXCEPT ![o] = None]
  /\ mutex' = [mutex EXCEPT ![o] = None]
  /\ flag' = flag \ {o}
  /\ UNCHANGED <<count, workerVars, clientVars, fault>>

(***************************************************************************)
(* Thread::start                                                           *)
(***************************************************************************)
StartLock(c) ==
  /\ Step(c, "start_lock", "start_check")
  /\ Lock(cobj[c], c)
  /\ UNCHANGED <<tid, flag, alive, count, workerVars, creg, fault>>

\* A thread exists already: ZephyrErrorCode::Already, and the guard unlocks.
StartAlready(c) ==
  /\ Return(c, "start_check")
  /\ tid[cobj[c]] # None
  /\ Unlock(cobj[c])
  /\ UNCHANGED <<tid, flag, alive, count, workerVars, fault>>

\* ZPP_ASSERT(s_thread_instance_count < CONFIG_ZPP_THREAD_POOL_SIZE)
StartCheck(c) ==
  /\ Step(c, "start_check", "start_create")
  /\ tid[cobj[c]] = None
  /\ fault' = IF count < PoolSize THEN fault ELSE "assert"
  /\ UNCHANGED <<objectVars, count, workerVars, creg>>

\* k_thread_create(&thread_data[count], zpp_threads_stacks[count], ...) with
\* the delay K_FOREVER.  The count is read anew: it is not the value that
\* the assertion saw.  One load serves both arguments: nothing is called
\* between their evaluations and the counter is neither volatile nor atomic.
\* (A build that loaded it for each could also pair the k_thread of one slot
\* with the stack of another.)  k_thread_create returns the address it is given and
\* k_thread_name_set succeeds (Kconfig selects THREAD_NAME), so the two error
\* returns that follow them in start() are never taken.
StartCreate(c) ==
  LET o == cobj[c]
      s == count
  IN
  /\ Step(c, "start_create", "start_run")
  /\ IF s \notin Slots
     THEN fault' = "oob" /\ UNCHANGED <<objectVars, workerVars>>
     ELSE IF Live(s)
     THEN fault' = "overwrite" /\ UNCHANGED <<objectVars, workerVars>>
     ELSE /\ tid' = [tid EXCEPT ![o] = s]
          /\ wpc' = [wpc EXCEPT ![s] = "created"]
          /\ wobj' = [wobj EXCEPT ![s] = o]
          /\ UNCHANGED <<mutex, flag, alive, wreg, fault>>
  /\ UNCHANGED <<count, creg>>

\* k_thread_start(_tid): from here on the new thread runs.
StartRun(c) ==
  /\ Step(c, "start_run", "start_load")
  /\ wpc' = [wpc EXCEPT ![tid[cobj[c]]] = "ready"]
  /\ UNCHANGED <<objectVars, count, wobj, wreg, creg, fault>>

\* s_thread_instance_count++, then the guard unlocks and start() returns.
StartLoad(c) ==
  /\ Step(c, "start_load", "start_store")
  /\ creg' = [creg EXCEPT ![c] = count]
  /\ UNCHANGED <<objectVars, count, workerVars, fault>>

\* Mutant: the increment of s_thread_instance_count is missing.
StartStoreNoIncrement(c) ==
  /\ Return(c, "start_store")
  /\ Unlock(cobj[c])
  /\ UNCHANGED <<tid, flag, alive, count, workerVars, fault>>

StartStore(c) ==
  /\ Return(c, "start_store")
  /\ count' = (creg[c] + 1) % 256
  /\ Unlock(cobj[c])
  /\ UNCHANGED <<tid, flag, alive, workerVars, fault>>

(***************************************************************************)
(* Thread::wait_started, that is Event::wait_any(kStartedEvent): wait for  *)
(* the flag without clearing it, then clear it.                            *)
(***************************************************************************)
EventWait(c) ==
  /\ Step(c, "ws_wait", IF cobj[c] \in flag THEN "ws_clear" ELSE "ws_pend")
  /\ UNCHANGED <<objectVars, count, workerVars, creg, fault>>

EventClear(c) ==
  /\ Return(c, "ws_clear")
  /\ flag' = flag \ {cobj[c]}
  /\ UNCHANGED <<tid, mutex, alive, count, workerVars, fault>>

(***************************************************************************)
(* Thread::join                                                            *)
(***************************************************************************)
JoinLock(c) ==
  /\ Step(c, "join_lock", "join_check")
  /\ Lock(cobj[c], c)
  /\ UNCHANGED <<tid, flag, alive, count, workerVars, creg, fault>>

\* Nothing to join: unlock and return.
JoinNothing(c) ==
  /\ Return(c, "join_check")
  /\ tid[cobj[c]] = None
  /\ Unlock(cobj[c])
  /\ UNCHANGED <<tid, flag, alive, count, workerVars, fault>>

\* Mutants: _tid is not tested; the mutex is kept across k_thread_join.
JoinUnlockUntested(c) ==
  /\ Step(c, "join_check", "join_call")
  /\ Unlock(cobj[c])
  /\ UNCHANGED <<tid, flag, alive, count, workerVars, creg, fault>>

JoinUnlockLater(c) ==
  /\ Step(c, "join_check", "join_call")
  /\ tid[cobj[c]] # None
  /\ UNCHANGED <<objectVars, count, workerVars, creg, fault>>

\* "we need to unlock the mutex before calling k_thread_join"
JoinUnlock(c) ==
  /\ Step(c, "join_check", "join_call")
  /\ tid[cobj[c]] # None
  /\ Unlock(cobj[c])
  /\ UNCHANGED <<tid, flag, alive, count, workerVars, creg, fault>>

\* k_thread_join(_tid, K_FOREVER): _tid is read here, without the mutex.  It
\* returns at once for a thread that is dead.  A client is not a thread of the
\* pool and cannot join itself, so k_thread_join returns no error.
JoinCall(c) ==
  LET s == tid[cobj[c]] IN
  /\ cpc[c] = "join_call"
  /\ IF s = None
     THEN /\ Step(c, "join_call", "join_pend")
          /\ fault' = "nulljoin"
          /\ UNCHANGED creg
     ELSE /\ Step(c, "join_call", IF Live(s) THEN "join_pend" ELSE "join_relock")
          /\ creg' = [creg EXCEPT ![c] = IF Live(s) THEN s ELSE 0]
          /\ UNCHANGED fault
  /\ UNCHANGED <<objectVars, count, workerVars>>

JoinRelock(c) ==
  /\ Step(c, "join_relock", "join_reset")
  /\ Lock(cobj[c], c)
  /\ UNCHANGED <<tid, flag, alive, count, workerVars, creg, fault>>

JoinReset(c) ==
  /\ Return(c, "join_reset")
  /\ tid' = [tid EXCEPT ![cobj[c]] = None]
  /\ Unlock(cobj[c])
  /\ UNCHANGED <<flag, alive, count, workerVars, fault>>

(***************************************************************************)
(* Thread::~Thread: join the thread if there is one, without the mutex;    *)
(* then the members are destroyed.                                         *)
(***************************************************************************)
\* Mutant: the destructor does not join.
DtorCheckNoJoin(c) ==
  /\ Step(c, "dtor_check", "dtor_done")
  /\ UNCHANGED <<objectVars, count, workerVars, creg, fault>>

DtorCheck(c) ==
  LET s == tid[cobj[c]] IN
  /\ Step(c, "dtor_check",
          IF s # None /\ Live(s) THEN "dtor_pend" ELSE "dtor_done")
  /\ creg' = [creg EXCEPT ![c] = IF s # None /\ Live(s) THEN s ELSE 0]
  /\ UNCHANGED <<objectVars, count, workerVars, fault>>

\* The members go.  A thread that still runs the _task of the object, or has
\* still to lock its _mutex, is left without them.
DtorDone(c) ==
  /\ Return(c, "dtor_done")
  /\ alive' = alive \ {cobj[c]}
  /\ fault' = IF \E s \in Slots : wobj[s] = cobj[c] /\ wpc[s] \notin {"exiting", "dead"}
              THEN "freed" ELSE fault
  /\ tid' = [tid EXCEPT ![cobj[c]] = None]
  /\ flag' = flag \ {cobj[c]}
  /\ UNCHANGED <<mutex, count, workerVars>>

(***************************************************************************)
(* Thread::s_thunk, in the kernel thread of slot s.                        *)
(***************************************************************************)

\* Mutant: the thread does not signal that it has started.
ThunkNoEvent(s) ==
  /\ wpc[s] = "ready"
  /\ wpc' = [wpc EXCEPT ![s] = "task"]
  /\ UNCHANGED <<objectVars, count, wobj, wreg, clientVars, fault>>

\* event.set(kStartedEvent): k_event_set wakes every thread that waits.
ThunkSetEvent(s) ==
  /\ wpc[s] = "ready"
  /\ wpc' = [wpc EXCEPT ![s] = "task"]
  /\ flag' = {o \in Objects : o \in flag \/ o = wobj[s]}
  /\ cpc' = [c \in Clients |->
               IF Using(c, wobj[s], {"ws_pend"}) THEN "ws_clear" ELSE cpc[c]]
  /\ UNCHANGED <<tid, mutex, alive, count, wobj, wreg, cobj, creg, fault>>

\* t->_task() returns.
TaskReturn(s) ==
  /\ wpc[s] = "task"
  /\ NestedLifetimes => NestedReturn(s)
  /\ wpc' = [wpc EXCEPT ![s] = "exit_lock"]
  /\ UNCHANGED <<objectVars, count, wobj, wreg, clientVars, fault>>

ExitLock(s) ==
  /\ wpc[s] = "exit_lock"
  /\ Lock(wobj[s], s)
  /\ wpc' = [wpc EXCEPT ![s] = "exit_load"]
  /\ UNCHANGED <<tid, flag, alive, count, wobj, wreg, clientVars, fault>>

\* s_thread_instance_count--, then the guard unlocks.
ExitLoad(s) ==
  /\ wpc[s] = "exit_load"
  /\ wreg' = [wreg EXCEPT ![s] = count]
  /\ wpc' = [wpc EXCEPT ![s] = "exit_store"]
  /\ UNCHANGED <<objectVars, count, wobj, clientVars, fault>>

\* Mutants: the decrement is missing; it does not wrap as a uint8_t does.
ExitStoreNoDecrement(s) ==
  /\ wpc[s] = "exit_store"
  /\ wreg' = [wreg EXCEPT ![s] = 0]
  /\ Unlock(wobj[s])
  /\ wpc' = [wpc EXCEPT ![s] = "exiting"]
  /\ UNCHANGED <<tid, flag, alive, count, wobj, clientVars, fault>>

ExitStoreNoWrap(s) ==
  /\ wpc[s] = "exit_store"
  /\ count' = wreg[s] - 1
  /\ wreg' = [wreg EXCEPT ![s] = 0]
  /\ Unlock(wobj[s])
  /\ wpc' = [wpc EXCEPT ![s] = "exiting"]
  /\ UNCHANGED <<tid, flag, alive, wobj, clientVars, fault>>

ExitStore(s) ==
  /\ wpc[s] = "exit_store"
  /\ count' = (wreg[s] + 255) % 256
  /\ wreg' = [wreg EXCEPT ![s] = 0]
  /\ Unlock(wobj[s])
  /\ wpc' = [wpc EXCEPT ![s] = "exiting"]
  /\ UNCHANGED <<tid, flag, alive, wobj, clientVars, fault>>

\* The clients whose k_thread_join waits for the thread of slot s, and where
\* they continue.
Joining(s) == {c \in Clients : cpc[c] \in {"join_pend", "dtor_pend"} /\ creg[c] = s}
AfterJoin(label) == IF label = "join_pend" THEN "join_relock" ELSE "dtor_done"

\* s_thunk has returned and the kernel ends the thread: only now is its stack
\* out of use.  Whoever waits in k_thread_join for it is made ready.
ThreadDies(s) ==
  /\ wpc[s] = "exiting"
  /\ wpc' = [wpc EXCEPT ![s] = "dead"]
  /\ wobj' = [wobj EXCEPT ![s] = None]
  /\ cpc' = [c \in Clients |-> IF c \in Joining(s) THEN AfterJoin(cpc[c]) ELSE cpc[c]]
  /\ creg' = [c \in Clients |-> IF c \in Joining(s) THEN 0 ELSE creg[c]]
  /\ UNCHANGED <<objectVars, count, wreg, cobj, fault>>

-----------------------------------------------------------------------------
CallStep(c, o) ==
  \/ CallStart(c, o)
  \/ CallWaitStarted(c, o)
  \/ CallJoin(c, o)
  \/ CallDestroy(c, o)

ClientStep(c) ==
  \/ StartLock(c) \/ StartAlready(c) \/ StartCheck(c) \/ StartCreate(c)
  \/ StartRun(c) \/ StartLoad(c) \/ StartStore(c)
  \/ EventWait(c) \/ EventClear(c)
  \/ JoinLock(c) \/ JoinNothing(c) \/ JoinUnlock(c) \/ JoinCall(c)
  \/ JoinRelock(c) \/ JoinReset(c)
  \/ DtorCheck(c) \/ DtorDone(c)

WorkerStep(s) ==
  \/ ThunkSetEvent(s) \/ TaskReturn(s) \/ ExitLock(s)
  \/ ExitLoad(s) \/ ExitStore(s) \/ ThreadDies(s)

\* What the history variables record of a step: the end of a join() while
\* another one of the same object is past its test of _tid, and a store of
\* the count after somebody else's.
Record ==
  /\ raced' = raced \cup
       {o \in Objects : \E c, d \in Clients :
          /\ c # d /\ Using(c, o, {"join_reset"}) /\ Using(d, o, TestedPc)
          /\ cpc'[c] = "idle"}
  /\ torn' = \/ torn
             \/ \E c \in Clients : cpc[c] = "start_store" /\ cpc'[c] = "idle" /\ creg[c] # count
             \/ \E s \in Slots : wpc[s] = "exit_store" /\ wpc'[s] = "exiting" /\ wreg[s] # count

Next ==
  /\ fault = "none"
  /\ \/ \E c \in Clients, o \in Objects : CallStep(c, o)
     \/ \E o \in Objects : Construct(o)
     \/ \E c \in Clients : ClientStep(c)
     \/ \E s \in Slots : WorkerStep(s)
  /\ Record

Spec == Init /\ [][Next]_vars

\* The kernel runs every ready thread in turn and hands a mutex to the
\* threads that wait for it, so a thread that can step again and again steps;
\* tasks end.  Nothing obliges a client to call a member function.
Fairness ==
  /\ \A c \in Clients : SF_vars(fault = "none" /\ ClientStep(c) /\ Record)
  /\ \A s \in Slots : SF_vars(fault = "none" /\ WorkerStep(s) /\ Record)

FairSpec == Spec /\ Fairness

-----------------------------------------------------------------------------
(***************************************************************************)
(* Properties.                                                             *)
(***************************************************************************)

\* The stack and the k_thread of a thread that is not dead are never given to
\* another thread, and start() never indexes the pool out of its bounds,
\* although the index comes from a counter that several mutexes "protect".
StackExclusive == fault \notin {"overwrite", "oob"}

\* "Too many threads created" (thread.cpp:113) stops the system only when every
\* slot of the pool holds a thread, or when an update of the counter has been
\* lost: start() and the end of a thread update it under different mutexes, and
\* one that stores what it loaded before another's store is the only way to make
\* the assertion lie.  In particular the uint8_t does not wrap without it.
PoolFullIsReal == fault = "assert" => torn \/ \A s \in Slots : Live(s)

\* join() reads _tid after it has released the mutex (thread.cpp:217): it passes
\* null to k_thread_join only for an object whose _tid another join() has reset
\* after both had found it set.
JoinNotNull ==
  fault = "nulljoin" => \E c \in Clients : cpc[c] = "join_pend" /\ cobj[c] \in raced

\* A thread that has not died is the one its object knows (_tid), and the
\* object still exists: s_thunk never uses a destroyed _event, _task or
\* _mutex, and the object has no second thread behind the first.  Two join()
\* that end one after the other (raced) are exempt: the second forgets a thread
\* that was started in between.
NoOrphanThread ==
  \A s \in Slots :
    Live(s) /\ wobj[s] \notin raced => wobj[s] \in alive /\ tid[wobj[s]] = s

\* join() is to "Wait for thread to terminate" (thread.hpp:91): it waits for the
\* thread of its own object, and not for the thread of another object that has
\* taken over the pool slot in which the own thread has ended.
JoinsOwnThread ==
  \A c \in Clients : cpc[c] = "join_pend" /\ fault = "none" => wobj[creg[c]] = cobj[c]

\* Who calls join() or the destructor eventually gets out of it, once the
\* task ends.
JoinReturns ==
  \A c \in Clients : cpc[c] \in JoinPc \cup DtorPc ~> cpc[c] = "idle"

\* A client that is blocked in wait_started() while the thread it waits for
\* has still to signal its start is released, however many others wait for
\* the same event and clear it.
PendedWaiterReleased ==
  \A c \in Clients, o \in Objects :
    (Using(c, o, {"ws_pend"})
       /\ \E s \in Slots : wobj[s] = o /\ wpc[s] \in {"created", "ready"})
      ~> cpc[c] = "idle"

=============================================================================
