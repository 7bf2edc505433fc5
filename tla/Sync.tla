-------------------------------- MODULE Sync --------------------------------
(***************************************************************************)
(* zpp_lib::Mutex, Semaphore and MessageQueue (zpp_rtos/mutex.cpp,         *)
(* zpp_rtos/semaphore.cpp, zpp_include/message_queue.hpp), one object of   *)
(* each, without CONFIG_USERSPACE and with CONFIG_ASSERT.                  *)
(*                                                                         *)
(* Threads call their operations.  A call enters the kernel, which serves  *)
(* it at once, refuses it, or blocks the thread until another thread's     *)
(* call serves it or its timeout expires; then the wrapper turns what the  *)
(* kernel returned into a ZephyrResult or a ZephyrBoolResult.              *)
(*                                                                         *)
(* Which of several blocked threads is served depends on priorities, which *)
(* are left out: any may be.  A failed assertion sets fault and halts the  *)
(* system.                                                                 *)
(***************************************************************************)
EXTENDS Naturals, Sequences

CONSTANTS
  Threads,     \* the threads that use the objects
  None,        \* no owner, no message
  SemLimit,    \* max_count of the semaphore, which is created empty
  QueueSize,   \* QueueSize of the message queue
  MaxLocks,    \* bound on the nested locks of the mutex
  MaxPuts      \* bound on the calls of try_put_for; the n-th puts message n

ASSUME SizeAssumption ==
  /\ SemLimit \in Nat \ {0} /\ QueueSize \in Nat \ {0}
  /\ MaxLocks \in Nat \ {0} /\ MaxPuts \in Nat

Ops == {"lock", "acquire", "put", "get"}
ASSUME NoneAssumption == None \notin Threads \cup Nat \cup Ops

VARIABLES
  owner,      \* the owner of _mutex, or None
  lockCount,  \* its lock_count
  sem,        \* the count of _sem
  queue,      \* the messages in _msgq
  pc,         \* where each thread is in an operation
  op,         \* the operation
  wait,       \* its timeout: none at all (K_NO_WAIT), limited, or K_FOREVER
  msg,        \* the message that a thread puts or has got
  ret,        \* what the kernel returned
  fault,      \* "none", or the operation whose assertion failed
  puts,       \* how often try_put_for was called
  held,       \* history: the locks each thread was told to have, minus unlocks
  granted,    \* history: the threads whose acquire has taken a token
  sent,       \* history: the messages whose try_put_for returned true
  refused,    \* history: the messages whose try_put_for returned false
  got         \* history: the messages that a try_get_for returned with true

mutexVars == <<owner, lockCount, held>>
semVars == <<sem, granted>>
toldVars == <<sent, refused, got>>
queueVars == <<queue, msg, puts, toldVars>>
callVars == <<pc, op, wait, ret>>
vars == <<mutexVars, semVars, queueVars, callVars, fault>>

Timeouts == {"no_wait", "limited", "forever"}
Messages == 1 .. MaxPuts

TypeOK ==
  /\ owner \in Threads \cup {None} /\ lockCount \in 0 .. MaxLocks
  /\ owner = None <=> lockCount = 0
  /\ sem \in 0 .. SemLimit
  /\ queue \in Seq(Messages) /\ Len(queue) <= QueueSize
  /\ pc \in [Threads -> {"idle", "call", "pend", "return"}]
  /\ op \in [Threads -> Ops \cup {None}]
  /\ wait \in [Threads -> Timeouts]
  /\ msg \in [Threads -> Messages \cup {None}]
  /\ ret \in [Threads -> {"ok", "EAGAIN", "EBUSY", "ENOMSG"}]
  /\ fault \in Ops \cup {"none"}
  /\ puts \in 0 .. MaxPuts
  /\ held \in [Threads -> 0 .. MaxLocks]
  /\ granted \subseteq Threads
  /\ sent \subseteq Messages /\ refused \subseteq Messages /\ got \subseteq Messages

Init ==
  /\ owner = None /\ lockCount = 0
  /\ sem = 0
  /\ queue = <<>>
  /\ pc = [t \in Threads |-> "idle"]
  /\ op = [t \in Threads |-> None]
  /\ wait = [t \in Threads |-> "forever"]
  /\ msg = [t \in Threads |-> None]
  /\ ret = [t \in Threads |-> "ok"]
  /\ fault = "none"
  /\ puts = 0
  /\ held = [t \in Threads |-> 0]
  /\ granted = {}
  /\ sent = {} /\ refused = {} /\ got = {}

-----------------------------------------------------------------------------
(***************************************************************************)
(* What the calls share.                                                   *)
(***************************************************************************)
Begin(t, o, w) ==
  /\ pc[t] = "idle"
  /\ pc' = [pc EXCEPT ![t] = "call"]
  /\ op' = [op EXCEPT ![t] = o]
  /\ wait' = [wait EXCEPT ![t] = w]
  /\ UNCHANGED <<ret, fault>>

Calls(t, o) == pc[t] = "call" /\ op[t] = o
Blocked(o) == {t \in Threads : pc[t] = "pend" /\ op[t] = o}

\* The kernel is done with the calls of the threads in done, with success.
Succeed(done) ==
  /\ pc' = [t \in Threads |-> IF t \in done THEN "return" ELSE pc[t]]
  /\ ret' = [t \in Threads |-> IF t \in done THEN "ok" ELSE ret[t]]
  /\ UNCHANGED <<op, wait, fault>>

\* It cannot serve the call now: it refuses it, or the thread blocks.
Refuse(t, errno) ==
  /\ IF wait[t] = "no_wait"
     THEN /\ pc' = [pc EXCEPT ![t] = "return"]
          /\ ret' = [ret EXCEPT ![t] = errno]
     ELSE pc' = [pc EXCEPT ![t] = "pend"] /\ UNCHANGED ret
  /\ UNCHANGED <<op, wait, fault, mutexVars, semVars, queueVars>>

Timeout(t) ==
  /\ pc[t] = "pend" /\ wait[t] = "limited"
  /\ pc' = [pc EXCEPT ![t] = "return"]
  /\ ret' = [ret EXCEPT ![t] = "EAGAIN"]
  /\ UNCHANGED <<op, wait, fault, mutexVars, semVars, queueVars>>

-----------------------------------------------------------------------------
(***************************************************************************)
(* Mutex: lock() waits for ever, try_lock_for() for a time, and try_lock() *)
(* is try_lock_for(0).  The owner may lock it again.                       *)
(***************************************************************************)
CallLock(t, w) ==
  /\ owner = t => lockCount < MaxLocks
  /\ Begin(t, "lock", w)
  /\ UNCHANGED <<mutexVars, semVars, queueVars>>

KMutexLock(t) ==
  /\ Calls(t, "lock") /\ owner \in {None, t}
  /\ owner' = t /\ lockCount' = lockCount + 1
  /\ Succeed({t})
  /\ UNCHANGED <<held, semVars, queueVars>>

KMutexBusy(t) ==
  /\ Calls(t, "lock") /\ owner \notin {None, t}
  /\ Refuse(t, "EBUSY")

\* Mutant: nested locks are not counted.
UnlockAll(t) ==
  /\ pc[t] = "idle" /\ held[t] > 0
  /\ held' = [held EXCEPT ![t] = @ - 1]
  /\ owner' = None /\ lockCount' = 0 /\ UNCHANGED <<callVars, fault>>
  /\ UNCHANGED <<semVars, queueVars>>

\* unlock() by the thread that has locked it: k_mutex_unlock returns 0, and
\* hands the mutex to one of the threads that wait for it.
Unlock(t) ==
  /\ pc[t] = "idle" /\ held[t] > 0
  /\ held' = [held EXCEPT ![t] = @ - 1]
  /\ \/ /\ lockCount > 1
        /\ lockCount' = lockCount - 1
        /\ UNCHANGED <<owner, callVars, fault>>
     \/ /\ lockCount = 1
        /\ \E next \in Blocked("lock") :
             owner' = next /\ lockCount' = 1 /\ Succeed({next})
     \/ /\ lockCount = 1 /\ Blocked("lock") = {}
        /\ owner' = None /\ lockCount' = 0
        /\ UNCHANGED <<callVars, fault>>
  /\ UNCHANGED <<semVars, queueVars>>

-----------------------------------------------------------------------------
(***************************************************************************)
(* Semaphore: acquire() waits for ever, try_acquire() does not wait.       *)
(***************************************************************************)
CallAcquire(t, w) ==
  /\ w # "limited"
  /\ Begin(t, "acquire", w)
  /\ UNCHANGED <<mutexVars, semVars, queueVars>>

KSemTake(t) ==
  /\ Calls(t, "acquire") /\ sem > 0
  /\ sem' = sem - 1
  /\ granted' = granted \cup {t}
  /\ Succeed({t})
  /\ UNCHANGED <<mutexVars, queueVars>>

KSemEmpty(t) == Calls(t, "acquire") /\ sem = 0 /\ Refuse(t, "EBUSY")

\* release(), by a thread or an interrupt: k_sem_give serves one of those that
\* wait, or counts up to the limit; a token beyond the limit is dropped.
Release(t) ==
  /\ pc[t] = "idle"
  /\ \/ \E next \in Blocked("acquire") :
          /\ granted' = granted \cup {next}
          /\ Succeed({next})
          /\ UNCHANGED sem
     \/ /\ Blocked("acquire") = {}
        /\ sem' = IF sem < SemLimit THEN sem + 1 ELSE sem
        /\ UNCHANGED <<granted, callVars, fault>>
  /\ UNCHANGED <<mutexVars, queueVars>>

-----------------------------------------------------------------------------
(***************************************************************************)
(* MessageQueue.                                                           *)
(***************************************************************************)
CallPut(t, w) ==
  /\ w # "forever" /\ puts < MaxPuts
  /\ Begin(t, "put", w)
  /\ puts' = puts + 1
  /\ msg' = [msg EXCEPT ![t] = puts + 1]
  /\ UNCHANGED <<mutexVars, semVars, queue, toldVars>>

\* k_msgq_put hands the message to a thread that waits for one, or appends it.
KMsgqPut(t) ==
  /\ Calls(t, "put") /\ Len(queue) < QueueSize
  /\ \/ \E g \in Blocked("get") :
          /\ msg' = [msg EXCEPT ![g] = msg[t]]
          /\ Succeed({t, g})
          /\ UNCHANGED queue
     \/ /\ Blocked("get") = {}
        /\ queue' = Append(queue, msg[t])
        /\ Succeed({t})
        /\ UNCHANGED msg
  /\ UNCHANGED <<mutexVars, semVars, puts, toldVars>>

KMsgqFull(t) == Calls(t, "put") /\ Len(queue) = QueueSize /\ Refuse(t, "ENOMSG")

CallGet(t, w) ==
  /\ w # "forever"
  /\ Begin(t, "get", w)
  /\ UNCHANGED <<mutexVars, semVars, queueVars>>

\* k_msgq_get takes the first message, and the place it leaves goes to a
\* thread that waits to put one.
KMsgqGet(t) ==
  /\ Calls(t, "get") /\ queue # <<>>
  /\ msg' = [msg EXCEPT ![t] = Head(queue)]
  /\ \/ \E p \in Blocked("put") :
          /\ queue' = Append(Tail(queue), msg[p])
          /\ Succeed({t, p})
     \/ /\ Blocked("put") = {}
        /\ queue' = Tail(queue)
        /\ Succeed({t})
  /\ UNCHANGED <<mutexVars, semVars, puts, toldVars>>

KMsgqEmpty(t) == Calls(t, "get") /\ queue = <<>> /\ Refuse(t, "ENOMSG")

-----------------------------------------------------------------------------
(***************************************************************************)
(* The result of a call.                                                   *)
(***************************************************************************)

\* The kernel results that try_lock_for, try_acquire, and try_put_for and
\* try_get_for take for "no": they return false without an error.
LockTimeout(t) == wait[t] # "forever" /\ ret[t] = "EAGAIN"
AcquireTimeout(t) == wait[t] # "forever" /\ ret[t] = "EBUSY"

\* Mutant: -EAGAIN is a failure of a message queue.
QueueTimeoutNoMsg(t) == ret[t] = "ENOMSG"

\* Mutant: a call that may not wait is taken for refused whatever it returned.
QueueTimeoutPoll(t) == wait[t] = "no_wait" \/ ret[t] = "EAGAIN"

QueueTimeout(t) == ret[t] = IF wait[t] = "no_wait" THEN "ENOMSG" ELSE "EAGAIN"

IsTimeout(t) ==
  \/ op[t] = "lock" /\ LockTimeout(t)
  \/ op[t] = "acquire" /\ AcquireTimeout(t)
  \/ op[t] \in {"put", "get"} /\ QueueTimeout(t)

\* Mutant: false is not assigned to the ZephyrBoolResult, which starts as true.
OutcomeDefault(t) == IF IsTimeout(t) \/ ret[t] = "ok" THEN "true" ELSE "error"

\* A ZephyrBoolResult is true until a value or an error is assigned to it.
Outcome(t) ==
  IF IsTimeout(t) THEN "false" ELSE IF ret[t] = "ok" THEN "true" ELSE "error"

\* An error fails the assertion of Mutex and MessageQueue; Semaphore has none.
Return(t) ==
  /\ pc[t] = "return"
  /\ IF Outcome(t) = "error" /\ op[t] # "acquire"
     THEN fault' = op[t] /\ UNCHANGED <<callVars, held, granted, msg, toldVars>>
     ELSE /\ pc' = [pc EXCEPT ![t] = "idle"]
          /\ op' = [op EXCEPT ![t] = None]
          /\ wait' = [wait EXCEPT ![t] = "forever"]
          /\ ret' = [ret EXCEPT ![t] = "ok"]
          /\ held' = IF op[t] = "lock" /\ Outcome(t) = "true"
                     THEN [held EXCEPT ![t] = @ + 1] ELSE held
          /\ granted' = granted \ {t}
          /\ msg' = [msg EXCEPT ![t] = None]
          /\ sent' = IF op[t] = "put" /\ Outcome(t) = "true" THEN sent \cup {msg[t]} ELSE sent
          /\ refused' = IF op[t] = "put" /\ Outcome(t) = "false"
                        THEN refused \cup {msg[t]} ELSE refused
          /\ got' = IF op[t] = "get" /\ Outcome(t) = "true"
                    THEN got \cup ({msg[t]} \ {None}) ELSE got
          /\ UNCHANGED fault
  /\ UNCHANGED <<owner, lockCount, sem, queue, puts>>

-----------------------------------------------------------------------------
Serve(t) ==
  \/ KMutexLock(t) \/ KMutexBusy(t)
  \/ KSemTake(t) \/ KSemEmpty(t)
  \/ KMsgqPut(t) \/ KMsgqFull(t)
  \/ KMsgqGet(t) \/ KMsgqEmpty(t)

ThreadStep(t) == fault = "none" /\ (Serve(t) \/ Timeout(t) \/ Return(t))

UserStep(t) ==
  /\ fault = "none"
  /\ \/ \E w \in Timeouts : CallLock(t, w) \/ CallAcquire(t, w) \/ CallPut(t, w) \/ CallGet(t, w)
     \/ Unlock(t)
     \/ Release(t)

Next == \E t \in Threads : ThreadStep(t) \/ UserStep(t)

Spec == Init /\ [][Next]_vars

-----------------------------------------------------------------------------
(***************************************************************************)
(* Properties.                                                             *)
(***************************************************************************)

\* The messages in the buffer, and those the kernel has given to a thread whose
\* try_get_for has not returned yet: on their way, with those that have arrived.
Buffered == {queue[i] : i \in DOMAIN queue}
InHand == {m \in Messages : \E t \in Threads : op[t] = "get" /\ msg[t] = m}
Present == Buffered \cup InHand \cup got

\* What the call of t was to do has been done.
Took(t) ==
  \/ op[t] = "lock" /\ owner = t
  \/ op[t] = "acquire" /\ t \in granted
  \/ op[t] = "put" /\ msg[t] \in Present
  \/ op[t] = "get" /\ msg[t] # None

\* A call reports success exactly when it had its effect: a thread that is
\* served while its timeout expires does not lose a lock, a token or a message,
\* and one that is told false has none.
ReportsEffect == \A t \in Threads : pc[t] = "return" => (Outcome(t) = "true" <=> Took(t))

\* Threads agree with the kernel on who has the mutex and how often it must
\* still be unlocked.
HoldersAgree ==
  \A t \in Threads : pc[t] = "idle" => held[t] = IF owner = t THEN lockCount ELSE 0

\* What try_put_for told its callers stays true: a message it reported as sent
\* is in the queue, on its way to a thread, or was returned by a try_get_for that
\* reported it, and one it reported as refused is not, so that a caller who puts
\* it again does not send it twice.  (The order of the messages is the kernel's.)
PutsAreKept == sent \subseteq Present /\ refused \cap Present = {}

\* Of all operations only the try_lock of a mutex that another thread has ends
\* in an assertion: a refusal or a timeout of any other is not an error.
OnlyTryLockAsserts ==
  fault # "none" => \E t \in Threads : op[t] = "lock" /\ wait[t] = "no_wait" /\ owner # t

=============================================================================
