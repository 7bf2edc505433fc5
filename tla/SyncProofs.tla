----------------------------- MODULE SyncProofs -----------------------------
(***************************************************************************)
(* Proofs about Sync, for any number of threads and any sizes.             *)
(***************************************************************************)
EXTENDS Sync, SequenceTheorems, TLAPS

\* The kernel has served the call of t, and t has yet to see the result.
Served(t) == pc[t] = "return" /\ ret[t] = "ok"

\* What a call in progress looks like: who waits had a timeout to wait for,
\* who was refused had none, and who was served has the token or the message.
CallInv ==
  \A t \in Threads :
    /\ pc[t] = "idle" <=> op[t] = None
    /\ pc[t] = "idle" => msg[t] = None
    /\ op[t] = "acquire" => wait[t] # "limited"
    /\ op[t] \in {"put", "get"} => wait[t] # "forever"
    /\ pc[t] = "pend" => wait[t] # "no_wait"
    /\ pc[t] = "return" =>
         \/ ret[t] = "ok"
         \/ ret[t] = "EAGAIN" /\ wait[t] = "limited"
         \/ ret[t] = "EBUSY" /\ wait[t] = "no_wait" /\ op[t] \in {"lock", "acquire"}
         \/ ret[t] = "ENOMSG" /\ wait[t] = "no_wait" /\ op[t] \in {"put", "get"}
    /\ t \in granted <=> op[t] = "acquire" /\ Served(t)
    /\ op[t] = "get" => (msg[t] # None <=> Served(t))

\* What the threads believe about the mutex differs from what the kernel knows
\* by the one lock whose result has not been returned yet.
LockInv ==
  \A t \in Threads :
    /\ op[t] = "lock" /\ Served(t) => owner = t /\ lockCount = held[t] + 1
    /\ ~(op[t] = "lock" /\ Served(t)) => held[t] = IF owner = t THEN lockCount ELSE 0
    /\ op[t] = "lock" /\ pc[t] = "call" /\ owner = t => lockCount < MaxLocks
    /\ op[t] = "lock" /\ pc[t] = "pend" => owner # t
    /\ op[t] = "lock" /\ pc[t] = "return" /\ ret[t] # "ok" => owner # t

\* Every call of try_put_for has a message of its own, which is present from the
\* moment the call is served; and what the callers were told is true.
PutInv ==
  /\ \A m \in Present : m <= puts
  /\ \A t \in Threads :
       op[t] = "put" =>
         /\ msg[t] \in Messages /\ msg[t] <= puts
         /\ msg[t] \in Present <=> Served(t)
  /\ \A t, u \in Threads :
       t # u /\ op[t] = "put" /\ op[u] = "put" => msg[t] # msg[u]
  /\ \A m \in sent \cup refused :
       m <= puts /\ \A u \in Threads : op[u] = "put" => msg[u] # m
  /\ PutsAreKept

\* An assertion fails in a try_lock that was refused.
FaultInv ==
  fault # "none" =>
    \E t \in Threads : /\ pc[t] = "return" /\ ret[t] = "EBUSY"
                       /\ op[t] = "lock" /\ wait[t] = "no_wait"

SInv == TypeOK /\ CallInv /\ LockInv /\ PutInv /\ FaultInv

-----------------------------------------------------------------------------
\* Nothing has been called.
LEMMA SInit == Init => SInv
<1> SUFFICES ASSUME Init PROVE SInv
  OBVIOUS
<1> USE SizeAssumption, NoneAssumption DEF Init
<1>1. TypeOK
  BY DEF TypeOK, Timeouts, Ops, Messages
<1>2. CallInv
  BY DEF CallInv, Served, Ops
<1>3. LockInv
  BY DEF LockInv, Served
<1>4. PutInv
  BY DEF PutInv, PutsAreKept, Present, Buffered, InHand, Ops
<1>5. FaultInv
  BY DEF FaultInv
<1> QED
  BY <1>1, <1>2, <1>3, <1>4, <1>5 DEF SInv

\* A call reports true exactly when the kernel has served it.
LEMMA OutcomeServed ==
  ASSUME NEW t \in Threads, pc[t] = "return"
  PROVE  Outcome(t) = "true" <=> Served(t)
BY DEF Outcome, IsTimeout, LockTimeout, AcquireTimeout, QueueTimeout, Served

\* The types are kept: a lock that is granted was called for below the bound.
LEMMA STypeStep ==
  ASSUME SInv, [Next]_vars
  PROVE  TypeOK'
<1> USE SizeAssumption, NoneAssumption
    DEF TypeOK, SInv, Timeouts, Ops,
        mutexVars, semVars, queueVars, toldVars, callVars
<1>1. ASSUME NEW t \in Threads, NEW w \in Timeouts, fault = "none", CallLock(t, w) PROVE TypeOK'
  BY <1>1 DEF CallLock, Begin
<1>2. ASSUME NEW t \in Threads, fault = "none", KMutexLock(t) PROVE TypeOK'
  <2>1. owner = None \/ lockCount < MaxLocks
    BY <1>2 DEF KMutexLock, Calls, LockInv
  <2>2. lockCount + 1 \in 1 .. MaxLocks
    BY <2>1
  <2> QED
    BY <1>2, <2>2 DEF KMutexLock, Succeed
<1>3. ASSUME NEW t \in Threads, fault = "none", KMutexBusy(t) PROVE TypeOK'
  BY <1>3 DEF KMutexBusy, Calls, Refuse
<1>4. ASSUME NEW t \in Threads, fault = "none", Unlock(t) PROVE TypeOK'
  <2>1. owner = t /\ lockCount = held[t]
    BY <1>4 DEF Unlock, CallInv, LockInv, Served
  <2> QED
    BY <1>4, <2>1 DEF Unlock, Blocked, Succeed
<1>5. ASSUME NEW t \in Threads, NEW w \in Timeouts, fault = "none", CallAcquire(t, w) PROVE TypeOK'
  BY <1>5 DEF CallAcquire, Begin
<1>6. ASSUME NEW t \in Threads, fault = "none", KSemTake(t) PROVE TypeOK'
  BY <1>6 DEF KSemTake, Calls, Succeed
<1>7. ASSUME NEW t \in Threads, fault = "none", KSemEmpty(t) PROVE TypeOK'
  BY <1>7 DEF KSemEmpty, Calls, Refuse
<1>8. ASSUME NEW t \in Threads, fault = "none", Release(t) PROVE TypeOK'
  BY <1>8 DEF Release, Blocked, Succeed
<1>9. ASSUME NEW t \in Threads, NEW w \in Timeouts, fault = "none", CallPut(t, w) PROVE TypeOK'
  <2>1. puts + 1 \in Messages /\ puts + 1 \in 0 .. MaxPuts
    BY <1>9 DEF CallPut, Messages
  <2> QED
    BY <1>9, <2>1 DEF CallPut, Begin
<1>10. ASSUME NEW t \in Threads, fault = "none", KMsgqPut(t) PROVE TypeOK'
  <2>1. msg[t] \in Messages /\ Len(queue) \in Nat
    BY <1>10, LenProperties DEF KMsgqPut, Calls, PutInv
  <2>3. Append(queue, msg[t]) \in Seq(Messages) /\ Len(Append(queue, msg[t])) = Len(queue) + 1
    BY <2>1, AppendProperties
  <2>4. Len(queue) < QueueSize
    BY <1>10 DEF KMsgqPut
  <2>5. queue' \in Seq(Messages) /\ Len(queue') <= QueueSize
    <3>1. CASE queue' = queue
      BY <3>1
    <3>2. CASE queue' = Append(queue, msg[t])
      <4>1. Len(queue) + 1 <= QueueSize
        BY <2>1, <2>4
      <4> QED
        BY <2>3, <3>2, <4>1
    <3> QED
      BY <1>10, <3>1, <3>2 DEF KMsgqPut
  <2>6. msg' \in [Threads -> Messages \cup {None}]
    BY <1>10, <2>1 DEF KMsgqPut
  <2>7. /\ pc' \in [Threads -> {"idle", "call", "pend", "return"}]
        /\ ret' \in [Threads -> {"ok", "EAGAIN", "EBUSY", "ENOMSG"}]
        /\ UNCHANGED <<op, wait, fault>>
    BY <1>10 DEF KMsgqPut, Succeed
  <2> QED
    BY <1>10, <2>5, <2>6, <2>7 DEF KMsgqPut
<1>11. ASSUME NEW t \in Threads, fault = "none", KMsgqFull(t) PROVE TypeOK'
  BY <1>11 DEF KMsgqFull, Calls, Refuse
<1>12. ASSUME NEW t \in Threads, NEW w \in Timeouts, fault = "none", CallGet(t, w) PROVE TypeOK'
  BY <1>12 DEF CallGet, Begin
<1>13. ASSUME NEW t \in Threads, fault = "none", KMsgqGet(t) PROVE TypeOK'
  <2>0. queue # <<>>
    BY <1>13 DEF KMsgqGet
  <2>1. /\ Head(queue) \in Messages /\ Tail(queue) \in Seq(Messages)
        /\ Len(Tail(queue)) = Len(queue) - 1 /\ Len(queue) \in Nat
    BY <2>0, HeadTailProperties, LenProperties
  <2>3. ASSUME NEW p \in Blocked("put")
        PROVE  /\ Append(Tail(queue), msg[p]) \in Seq(Messages)
               /\ Len(Append(Tail(queue), msg[p])) = Len(queue)
    <3>1. msg[p] \in Messages
      BY <2>3 DEF Blocked, PutInv
    <3>2. Len(Append(Tail(queue), msg[p])) = Len(Tail(queue)) + 1
      BY <2>1, <3>1, AppendProperties
    <3> QED
      BY <2>1, <3>1, <3>2, AppendProperties
  <2>4. queue' \in Seq(Messages) /\ Len(queue') <= QueueSize
    <3>1. CASE queue' = Tail(queue)
      BY <2>1, <3>1
    <3>2. ASSUME NEW p \in Blocked("put"), queue' = Append(Tail(queue), msg[p])
          PROVE  queue' \in Seq(Messages) /\ Len(queue') <= QueueSize
      BY <2>3, <3>2
    <3> QED
      BY <1>13, <3>1, <3>2 DEF KMsgqGet
  <2>5. msg' \in [Threads -> Messages \cup {None}]
    BY <1>13, <2>1 DEF KMsgqGet
  <2>6. /\ pc' \in [Threads -> {"idle", "call", "pend", "return"}]
        /\ ret' \in [Threads -> {"ok", "EAGAIN", "EBUSY", "ENOMSG"}]
        /\ UNCHANGED <<op, wait, fault>>
    BY <1>13 DEF KMsgqGet, Succeed
  <2> QED
    BY <1>13, <2>4, <2>5, <2>6 DEF KMsgqGet
<1>14. ASSUME NEW t \in Threads, fault = "none", KMsgqEmpty(t) PROVE TypeOK'
  BY <1>14 DEF KMsgqEmpty, Calls, Refuse
<1>15. ASSUME NEW t \in Threads, fault = "none", Timeout(t) PROVE TypeOK'
  BY <1>15 DEF Timeout
<1>16. ASSUME NEW t \in Threads, fault = "none", Return(t) PROVE TypeOK'
  <2>1. op[t] = "lock" /\ Outcome(t) = "true" => held[t] + 1 \in 0 .. MaxLocks
    BY <1>16, OutcomeServed DEF Return, LockInv, Served
  <2>2. op[t] \in Ops
    BY <1>16 DEF Return, CallInv
  <2>3. held' \in [Threads -> 0 .. MaxLocks]
    <3>1. \/ held' = held
          \/ op[t] = "lock" /\ Outcome(t) = "true" /\ held' = [held EXCEPT ![t] = @ + 1]
      BY <1>16 DEF Return
    <3> QED
      BY <2>1, <3>1
  <2>4. granted' \subseteq Threads /\ msg' \in [Threads -> Messages \cup {None}]
    BY <1>16 DEF Return
  <2>5. /\ pc' \in [Threads -> {"idle", "call", "pend", "return"}]
        /\ ret' \in [Threads -> {"ok", "EAGAIN", "EBUSY", "ENOMSG"}]
        /\ op' \in [Threads -> Ops \cup {None}] /\ wait' \in [Threads -> Timeouts]
        /\ fault' \in Ops \cup {"none"}
    BY <1>16, <2>2 DEF Return
  <2>6. op[t] = "put" => msg[t] \in Messages
    BY DEF PutInv
  <2>7. sent' \subseteq Messages /\ refused' \subseteq Messages /\ got' \subseteq Messages
    <3>1. sent' = sent \/ (op[t] = "put" /\ sent' = sent \cup {msg[t]})
      BY <1>16 DEF Return
    <3>2. refused' = refused \/ (op[t] = "put" /\ refused' = refused \cup {msg[t]})
      BY <1>16 DEF Return
    <3>3. got' = got \/ got' = got \cup ({msg[t]} \ {None})
      BY <1>16 DEF Return
    <3> QED
      BY <2>6, <3>1, <3>2, <3>3
  <2> QED
    BY <1>16, <2>3, <2>4, <2>5, <2>7 DEF Return
<1>17. CASE UNCHANGED vars
  BY <1>17 DEF vars
<1> HIDE DEF TypeOK, SInv
<1> QED
  BY <1>1, <1>2, <1>3, <1>4, <1>5, <1>6, <1>7, <1>8, <1>9, <1>10, <1>11, <1>12, <1>13, <1>14,
     <1>15, <1>16, <1>17 DEF Next, ThreadStep, UserStep, Serve

\* Every call goes through its phases.
LEMMA SCallStep ==
  ASSUME SInv, TypeOK', [Next]_vars
  PROVE  CallInv'
<1> USE SizeAssumption, NoneAssumption
    DEF TypeOK, SInv, CallInv, Served, Timeouts, Ops,
        mutexVars, semVars, queueVars, toldVars, callVars
<1>1. ASSUME NEW t \in Threads, NEW w \in Timeouts, fault = "none", CallLock(t, w) PROVE CallInv'
  BY <1>1 DEF CallLock, Begin
<1>2. ASSUME NEW t \in Threads, fault = "none", KMutexLock(t) PROVE CallInv'
  BY <1>2 DEF KMutexLock, Calls, Succeed
<1>3. ASSUME NEW t \in Threads, fault = "none", KMutexBusy(t) PROVE CallInv'
  BY <1>3 DEF KMutexBusy, Calls, Refuse
<1>4. ASSUME NEW t \in Threads, fault = "none", Unlock(t) PROVE CallInv'
  BY <1>4 DEF Unlock, Blocked, Succeed
<1>5. ASSUME NEW t \in Threads, NEW w \in Timeouts, fault = "none", CallAcquire(t, w) PROVE CallInv'
  BY <1>5 DEF CallAcquire, Begin
<1>6. ASSUME NEW t \in Threads, fault = "none", KSemTake(t) PROVE CallInv'
  BY <1>6 DEF KSemTake, Calls, Succeed
<1>7. ASSUME NEW t \in Threads, fault = "none", KSemEmpty(t) PROVE CallInv'
  BY <1>7 DEF KSemEmpty, Calls, Refuse
<1>8. ASSUME NEW t \in Threads, fault = "none", Release(t) PROVE CallInv'
  BY <1>8 DEF Release, Blocked, Succeed
<1>9. ASSUME NEW t \in Threads, NEW w \in Timeouts, fault = "none", CallPut(t, w) PROVE CallInv'
  BY <1>9 DEF CallPut, Begin
<1>10. ASSUME NEW t \in Threads, fault = "none", KMsgqPut(t) PROVE CallInv'
  <2>1. msg[t] # None
    BY <1>10 DEF KMsgqPut, Calls, PutInv, Messages
  <2>2. ASSUME NEW g \in Blocked("get"), msg' = [msg EXCEPT ![g] = msg[t]], Succeed({t, g})
        PROVE  CallInv'
    BY <1>10, <2>1, <2>2 DEF KMsgqPut, Calls, Blocked, Succeed
  <2>3. CASE Succeed({t}) /\ UNCHANGED msg
    BY <1>10, <2>3 DEF KMsgqPut, Calls, Succeed
  <2> QED
    BY <1>10, <2>2, <2>3 DEF KMsgqPut
<1>11. ASSUME NEW t \in Threads, fault = "none", KMsgqFull(t) PROVE CallInv'
  BY <1>11 DEF KMsgqFull, Calls, Refuse
<1>12. ASSUME NEW t \in Threads, NEW w \in Timeouts, fault = "none", CallGet(t, w) PROVE CallInv'
  BY <1>12 DEF CallGet, Begin
<1>13. ASSUME NEW t \in Threads, fault = "none", KMsgqGet(t) PROVE CallInv'
  <2>1. Head(queue) # None
    BY <1>13, HeadTailProperties DEF KMsgqGet, Messages
  <2> QED
    BY <1>13, <2>1 DEF KMsgqGet, Calls, Blocked, Succeed
<1>14. ASSUME NEW t \in Threads, fault = "none", KMsgqEmpty(t) PROVE CallInv'
  BY <1>14 DEF KMsgqEmpty, Calls, Refuse
<1>15. ASSUME NEW t \in Threads, fault = "none", Timeout(t) PROVE CallInv'
  BY <1>15 DEF Timeout
<1>16. ASSUME NEW t \in Threads, fault = "none", Return(t) PROVE CallInv'
  <2>1. CASE UNCHANGED <<callVars, granted, msg>>
    BY <2>1
  <2>2. CASE /\ pc' = [pc EXCEPT ![t] = "idle"] /\ op' = [op EXCEPT ![t] = None]
             /\ wait' = [wait EXCEPT ![t] = "forever"] /\ ret' = [ret EXCEPT ![t] = "ok"]
             /\ granted' = granted \ {t} /\ msg' = [msg EXCEPT ![t] = None]
    BY <2>2
  <2> QED
    BY <1>16, <2>1, <2>2 DEF Return
<1>17. CASE UNCHANGED vars
  BY <1>17 DEF vars
<1> HIDE DEF CallInv, SInv
<1> QED
  BY <1>1, <1>2, <1>3, <1>4, <1>5, <1>6, <1>7, <1>8, <1>9, <1>10, <1>11, <1>12, <1>13, <1>14,
     <1>15, <1>16, <1>17 DEF Next, ThreadStep, UserStep, Serve

\* The kernel hands the mutex over when the owner has nothing left to unlock.
LEMMA SLockStep ==
  ASSUME SInv, TypeOK', [Next]_vars
  PROVE  LockInv'
<1> USE SizeAssumption, NoneAssumption
    DEF TypeOK, SInv, CallInv, LockInv, Served, Timeouts, Ops,
        mutexVars, semVars, queueVars, toldVars, callVars
<1>1. ASSUME NEW t \in Threads, NEW w \in Timeouts, fault = "none", CallLock(t, w) PROVE LockInv'
  BY <1>1 DEF CallLock, Begin
<1>2. ASSUME NEW t \in Threads, fault = "none", KMutexLock(t) PROVE LockInv'
  BY <1>2 DEF KMutexLock, Calls, Succeed
<1>3. ASSUME NEW t \in Threads, fault = "none", KMutexBusy(t) PROVE LockInv'
  BY <1>3 DEF KMutexBusy, Calls, Refuse
<1>4. ASSUME NEW t \in Threads, fault = "none", Unlock(t) PROVE LockInv'
  <2>1. owner = t /\ lockCount = held[t]
    BY <1>4 DEF Unlock
  <2>2. CASE lockCount > 1
    BY <1>4, <2>1, <2>2 DEF Unlock
  <2>3. ASSUME NEW next \in Blocked("lock"), lockCount = 1,
               owner' = next, lockCount' = 1, Succeed({next})
        PROVE  LockInv'
    BY <1>4, <2>1, <2>3 DEF Unlock, Blocked, Succeed
  <2>4. CASE lockCount = 1 /\ owner' = None /\ lockCount' = 0 /\ UNCHANGED callVars
    BY <1>4, <2>1, <2>4 DEF Unlock
  <2> QED
    BY <1>4, <2>2, <2>3, <2>4 DEF Unlock
<1>5. ASSUME NEW t \in Threads, NEW w \in Timeouts, fault = "none", CallAcquire(t, w) PROVE LockInv'
  BY <1>5 DEF CallAcquire, Begin
<1>6. ASSUME NEW t \in Threads, fault = "none", KSemTake(t) PROVE LockInv'
  BY <1>6 DEF KSemTake, Calls, Succeed
<1>7. ASSUME NEW t \in Threads, fault = "none", KSemEmpty(t) PROVE LockInv'
  BY <1>7 DEF KSemEmpty, Calls, Refuse
<1>8. ASSUME NEW t \in Threads, fault = "none", Release(t) PROVE LockInv'
  BY <1>8 DEF Release, Blocked, Succeed
<1>9. ASSUME NEW t \in Threads, NEW w \in Timeouts, fault = "none", CallPut(t, w) PROVE LockInv'
  BY <1>9 DEF CallPut, Begin
<1>10. ASSUME NEW t \in Threads, fault = "none", KMsgqPut(t) PROVE LockInv'
  BY <1>10 DEF KMsgqPut, Calls, Blocked, Succeed
<1>11. ASSUME NEW t \in Threads, fault = "none", KMsgqFull(t) PROVE LockInv'
  BY <1>11 DEF KMsgqFull, Calls, Refuse
<1>12. ASSUME NEW t \in Threads, NEW w \in Timeouts, fault = "none", CallGet(t, w) PROVE LockInv'
  BY <1>12 DEF CallGet, Begin
<1>13. ASSUME NEW t \in Threads, fault = "none", KMsgqGet(t) PROVE LockInv'
  BY <1>13 DEF KMsgqGet, Calls, Blocked, Succeed
<1>14. ASSUME NEW t \in Threads, fault = "none", KMsgqEmpty(t) PROVE LockInv'
  BY <1>14 DEF KMsgqEmpty, Calls, Refuse
<1>15. ASSUME NEW t \in Threads, fault = "none", Timeout(t) PROVE LockInv'
  BY <1>15 DEF Timeout
<1>16. ASSUME NEW t \in Threads, fault = "none", Return(t) PROVE LockInv'
  <2>1. CASE UNCHANGED <<callVars, held>>
    BY <1>16, <2>1 DEF Return
  <2>2. CASE /\ pc' = [pc EXCEPT ![t] = "idle"] /\ op' = [op EXCEPT ![t] = None]
             /\ ret' = [ret EXCEPT ![t] = "ok"]
             /\ held' = IF op[t] = "lock" /\ Outcome(t) = "true"
                        THEN [held EXCEPT ![t] = @ + 1] ELSE held
    <3>1. Outcome(t) = "true" <=> Served(t)
      BY <1>16, OutcomeServed DEF Return
    <3> QED
      BY <1>16, <2>2, <3>1 DEF Return
  <2> QED
    BY <1>16, <2>1, <2>2 DEF Return
<1>17. CASE UNCHANGED vars
  BY <1>17 DEF vars
<1> HIDE DEF LockInv, SInv
<1> QED
  BY <1>1, <1>2, <1>3, <1>4, <1>5, <1>6, <1>7, <1>8, <1>9, <1>10, <1>11, <1>12, <1>13, <1>14,
     <1>15, <1>16, <1>17 DEF Next, ThreadStep, UserStep, Serve

\* No message is None.
LEMMA NoneNoMessage == None \notin Messages
BY NoneAssumption, SizeAssumption DEF Messages

\* The messages present after a step that moves none.
LEMMA PresentFrame ==
  ASSUME UNCHANGED <<queue, got>>,
         \A u \in Threads :
           /\ op'[u] = "get" /\ msg'[u] # None <=> op[u] = "get" /\ msg[u] # None
           /\ op[u] = "get" /\ msg[u] # None => msg'[u] = msg[u]
  PROVE  Present' = Present
<1>1. Buffered' = Buffered
  BY DEF Buffered
<1>2. InHand' = InHand
  BY NoneNoMessage DEF InHand
<1> QED
  BY <1>1, <1>2 DEF Present

\* The messages in the buffer after one more was appended.
LEMMA AppendElements ==
  ASSUME NEW s \in Seq(Messages), NEW m \in Messages
  PROVE  {Append(s, m)[i] : i \in DOMAIN Append(s, m)} = {s[i] : i \in DOMAIN s} \cup {m}
<1>1. /\ DOMAIN s = 1 .. Len(s) /\ Len(s) \in Nat
      /\ DOMAIN Append(s, m) = 1 .. Len(s) + 1
  BY LenProperties, AppendProperties
<1>2. /\ \A i \in 1 .. Len(s) : Append(s, m)[i] = s[i]
      /\ Append(s, m)[Len(s) + 1] = m
  BY AppendProperties
<1>3. 1 .. Len(s) + 1 = (1 .. Len(s)) \cup {Len(s) + 1}
  BY <1>1
<1> QED
  BY <1>1, <1>2, <1>3

\* The messages in the buffer are its first one and those behind it.
LEMMA TailElements ==
  ASSUME NEW s \in Seq(Messages), s # <<>>
  PROVE  {s[i] : i \in DOMAIN s} = {Head(s)} \cup {Tail(s)[i] : i \in DOMAIN Tail(s)}
<1>1. /\ DOMAIN s = 1 .. Len(s) /\ Len(s) \in Nat \ {0}
      /\ Head(s) = s[1] /\ DOMAIN Tail(s) = 1 .. Len(s) - 1
      /\ \A i \in 1 .. Len(s) - 1 : Tail(s)[i] = s[i + 1]
  BY LenProperties, HeadTailProperties, EmptySeq
<1>2. \A i \in 1 .. Len(s) : i = 1 \/ (i - 1 \in 1 .. Len(s) - 1 /\ s[i] = Tail(s)[i - 1])
  BY <1>1
<1>3. \A i \in 1 .. Len(s) - 1 : i + 1 \in 1 .. Len(s)
  BY <1>1
<1>4. 1 \in 1 .. Len(s)
  BY <1>1
<1>5. ASSUME NEW i \in DOMAIN s
      PROVE  s[i] \in {Head(s)} \cup {Tail(s)[k] : k \in DOMAIN Tail(s)}
  BY <1>1, <1>2, <1>5
<1>6. Head(s) \in {s[i] : i \in DOMAIN s}
  BY <1>1, <1>4
<1>7. ASSUME NEW k \in DOMAIN Tail(s) PROVE Tail(s)[k] \in {s[i] : i \in DOMAIN s}
  BY <1>1, <1>3, <1>7
<1> QED
  BY <1>5, <1>6, <1>7

\* Steps that move no message.
LEMMA PutFrame ==
  ASSUME PutInv, Present' = Present, UNCHANGED <<puts, sent, refused>>,
         \A u \in Threads :
           op'[u] = "put" => /\ op[u] = "put" /\ msg'[u] = msg[u]
                             /\ Served(u)' <=> Served(u)
  PROVE  PutInv'
BY DEF PutInv, PutsAreKept

\* The step that serves the call of p makes its message present.
LEMMA PutServed ==
  ASSUME TypeOK, PutInv, NEW p \in Threads, op[p] = "put", ~Served(p),
         Present' = Present \cup {msg[p]}, UNCHANGED <<puts, op, sent, refused>>,
         \A u \in Threads :
           op[u] = "put" => msg'[u] = msg[u] /\ (Served(u)' <=> Served(u) \/ u = p)
  PROVE  PutInv'
<1>1. msg[p] \in Messages /\ msg[p] <= puts
  BY DEF PutInv
<1>3. \A m \in Present' : m <= puts'
  BY <1>1 DEF PutInv
<1>4. ASSUME NEW u \in Threads, op'[u] = "put"
      PROVE  /\ msg'[u] \in Messages /\ msg'[u] <= puts'
             /\ msg'[u] \in Present' <=> Served(u)'
  <2>1. msg'[u] = msg[u] /\ msg[u] \in Messages /\ msg[u] <= puts
    BY <1>4 DEF PutInv
  <2>2. u # p => msg[u] # msg[p]
    BY <1>4 DEF PutInv
  <2>3. msg[u] \in Present <=> Served(u)
    BY <1>4 DEF PutInv
  <2>4. Served(u)' <=> Served(u) \/ u = p
    BY <1>4
  <2> QED
    BY <2>1, <2>2, <2>3, <2>4
<1>5. \A u, v \in Threads :
        u # v /\ op'[u] = "put" /\ op'[v] = "put" => msg'[u] # msg'[v]
  BY DEF PutInv
<1>6. \A m \in (sent \cup refused)' :
        m <= puts' /\ \A u \in Threads : op'[u] = "put" => msg'[u] # m
  BY DEF PutInv
<1>7. PutsAreKept'
  BY DEF PutInv, PutsAreKept
<1> QED
  BY <1>3, <1>4, <1>5, <1>6, <1>7 DEF PutInv

\* A message becomes present once, in the step that serves its call.
LEMMA SPutStep ==
  ASSUME SInv, TypeOK', [Next]_vars
  PROVE  PutInv'
<1> USE SizeAssumption, NoneAssumption
    DEF TypeOK, SInv, CallInv, Served, Ops, mutexVars, semVars, queueVars, toldVars, callVars
<1> DEFINE Same(u) == op'[u] = "put" => /\ op[u] = "put" /\ msg'[u] = msg[u]
                                        /\ Served(u)' <=> Served(u)
           Hand(u) == op[u] = "get" /\ msg[u] # None
           HandNext(u) == op'[u] = "get" /\ msg'[u] # None
<1>1. ASSUME NEW t \in Threads, NEW w \in Timeouts,
             CallLock(t, w) \/ CallAcquire(t, w) \/ CallGet(t, w)
      PROVE  PutInv'
  <2>1. UNCHANGED <<queue, toldVars, puts, msg>>
    BY <1>1 DEF CallLock, CallAcquire, CallGet
  <2>2. \A u \in Threads : Same(u)
    BY <1>1, <2>1 DEF CallLock, CallAcquire, CallGet, Begin
  <2>3. \A u \in Threads : HandNext(u) <=> Hand(u)
    BY <1>1, <2>1 DEF CallLock, CallAcquire, CallGet, Begin
  <2>4. Present' = Present
    BY <2>1, <2>3, PresentFrame
  <2> QED
    BY <2>1, <2>2, <2>4, PutFrame
<1>2. ASSUME NEW t \in Threads, NEW w \in Timeouts, CallPut(t, w) PROVE PutInv'
  <2>0. \A m \in Messages : m <= puts => m <= puts + 1
    BY DEF Messages
  <2>1. /\ puts' = puts + 1 /\ UNCHANGED <<queue, toldVars>>
        /\ msg' = [msg EXCEPT ![t] = puts + 1]
        /\ op' = [op EXCEPT ![t] = "put"] /\ pc' = [pc EXCEPT ![t] = "call"]
        /\ ret' = ret /\ puts < MaxPuts /\ op[t] = None
    BY <1>2 DEF CallPut, Begin
  <2>2. Present' = Present
    <3>1. \A u \in Threads : HandNext(u) <=> Hand(u)
      BY <2>1
    <3>2. \A u \in Threads : Hand(u) => msg'[u] = msg[u]
      BY <2>1
    <3> QED
      BY <2>1, <3>1, <3>2, PresentFrame
  <2>3. \A m \in Present : m <= puts
    BY DEF PutInv
  <2>4. puts + 1 \in Messages /\ puts + 1 \notin Present
    BY <2>1, <2>3 DEF Messages
  <2>5. ASSUME NEW u \in Threads, op'[u] = "put"
        PROVE  /\ msg'[u] \in Messages /\ msg'[u] <= puts'
               /\ msg'[u] \in Present' <=> Served(u)'
    <3>1. CASE u = t
      BY <2>1, <2>2, <2>4, <3>1
    <3>2. CASE u # t
      <4>1. /\ msg'[u] = msg[u] /\ msg[u] \in Messages /\ msg[u] <= puts
            /\ msg[u] \in Present <=> Served(u)
        BY <2>1, <2>5, <3>2 DEF PutInv
      <4>2. Served(u)' <=> Served(u)
        BY <2>1, <3>2
      <4> HIDE DEF TypeOK, SInv, CallInv, Served
      <4>4. msg[u] <= puts + 1
        BY <2>0, <4>1
      <4> QED
        BY <2>1, <2>2, <4>1, <4>2, <4>4
    <3> QED
      BY <3>1, <3>2
  <2>6. \A u, v \in Threads :
          u # v /\ op'[u] = "put" /\ op'[v] = "put" => msg'[u] # msg'[v]
    <3>1. \A u \in Threads : u # t => msg'[u] = msg[u] /\ op'[u] = op[u]
      BY <2>1
    <3>2. \A u \in Threads : u # t /\ op[u] = "put" => msg[u] # puts + 1
      BY DEF PutInv, Messages
    <3>3. msg'[t] = puts + 1
      BY <2>1
    <3>4. \A u, v \in Threads : u # v /\ op[u] = "put" /\ op[v] = "put" => msg[u] # msg[v]
      BY DEF PutInv
    <3> HIDE DEF TypeOK, SInv, CallInv, Served
    <3> QED
      BY <3>1, <3>2, <3>3, <3>4
  <2>7. \A m \in Present : m \in Messages
    <3>1. Buffered \subseteq Messages
      <4>1. DOMAIN queue = 1 .. Len(queue) /\ \A i \in 1 .. Len(queue) : queue[i] \in Messages
        BY LenProperties, ElementOfSeq
      <4> QED
        BY <4>1 DEF Buffered
    <3>2. InHand \subseteq Messages /\ got \subseteq Messages
      BY DEF InHand
    <3> QED
      BY <3>1, <3>2 DEF Present
  <2>8. \A m \in Present' : m <= puts'
    BY <2>0, <2>1, <2>2, <2>3, <2>7
  <2>9. \A m \in (sent \cup refused)' :
          m <= puts' /\ \A u \in Threads : op'[u] = "put" => msg'[u] # m
    <3>1. \A m \in sent \cup refused :
            m \in Messages /\ m <= puts /\ \A u \in Threads : op[u] = "put" => msg[u] # m
      BY DEF PutInv
    <3>2. \A m \in Messages : m <= puts => m # puts + 1
      BY DEF Messages
    <3>3. \A u \in Threads : msg'[u] = IF u = t THEN puts + 1 ELSE msg[u]
      BY <2>1
    <3>4. \A u \in Threads : u # t => op'[u] = op[u]
      BY <2>1
    <3>5. puts' = puts + 1 /\ (sent \cup refused)' = sent \cup refused
      BY <2>1
    <3> HIDE DEF TypeOK, SInv, CallInv, Served
    <3> QED
      BY <2>0, <3>1, <3>2, <3>3, <3>4, <3>5
  <2>10. PutsAreKept'
    BY <2>1, <2>2 DEF PutInv, PutsAreKept
  <2> HIDE DEF TypeOK, SInv, CallInv, Served
  <2> QED
    BY <2>5, <2>6, <2>8, <2>9, <2>10 DEF PutInv
<1>3. ASSUME NEW t \in Threads,
             \/ KMutexLock(t) \/ KMutexBusy(t) \/ KSemTake(t) \/ KSemEmpty(t)
             \/ KMsgqFull(t) \/ KMsgqEmpty(t) \/ Timeout(t) \/ Unlock(t) \/ Release(t)
      PROVE  PutInv'
  <2>1. UNCHANGED <<queue, toldVars, puts, msg>>
    BY <1>3 DEF KMutexLock, KMutexBusy, KSemTake, KSemEmpty, KMsgqFull, KMsgqEmpty,
                Timeout, Unlock, Release, Refuse
  <2>2. \A u \in Threads : Same(u)
    <3>1. CASE KMutexLock(t) \/ KSemTake(t)
      BY <2>1, <3>1 DEF KMutexLock, KSemTake, Calls, Succeed
    <3>2. CASE KMutexBusy(t) \/ KSemEmpty(t) \/ KMsgqFull(t) \/ KMsgqEmpty(t)
      <4>1. PICK errno \in {"EBUSY", "ENOMSG"} : Refuse(t, errno)
        BY <3>2 DEF KMutexBusy, KSemEmpty, KMsgqFull, KMsgqEmpty
      <4>2. pc[t] = "call"
        BY <3>2 DEF KMutexBusy, KSemEmpty, KMsgqFull, KMsgqEmpty, Calls
      <4> QED
        BY <2>1, <4>1, <4>2 DEF Refuse
    <3>3. CASE Timeout(t)
      BY <2>1, <3>3 DEF Timeout
    <3>4. CASE Unlock(t) \/ Release(t)
      BY <2>1, <3>4 DEF Unlock, Release, Blocked, Succeed
    <3> QED
      BY <1>3, <3>1, <3>2, <3>3, <3>4
  <2>3. op' = op
    BY <1>3 DEF KMutexLock, KMutexBusy, KSemTake, KSemEmpty, KMsgqFull, KMsgqEmpty,
                Timeout, Unlock, Release, Refuse, Succeed
  <2>4. Present' = Present
    BY <2>1, <2>3, PresentFrame
  <2> QED
    BY <2>1, <2>2, <2>4, PutFrame
<1>4. ASSUME NEW t \in Threads, Return(t) PROVE PutInv'
  <2>1. UNCHANGED <<queue, puts>> /\ pc[t] = "return"
    BY <1>4 DEF Return
  <2>2. CASE UNCHANGED <<callVars, msg, toldVars>>
    <3>1. \A u \in Threads : Same(u)
      BY <2>2
    <3>2. Present' = Present
      BY <2>1, <2>2, PresentFrame
    <3> QED
      BY <2>1, <2>2, <3>1, <3>2, PutFrame
  <2>3. CASE /\ pc' = [pc EXCEPT ![t] = "idle"] /\ op' = [op EXCEPT ![t] = None]
             /\ ret' = [ret EXCEPT ![t] = "ok"] /\ msg' = [msg EXCEPT ![t] = None]
             /\ sent' = IF op[t] = "put" /\ Outcome(t) = "true"
                        THEN sent \cup {msg[t]} ELSE sent
             /\ refused' = IF op[t] = "put" /\ Outcome(t) = "false"
                           THEN refused \cup {msg[t]} ELSE refused
             /\ got' = IF op[t] = "get" /\ Outcome(t) = "true"
                       THEN got \cup ({msg[t]} \ {None}) ELSE got
    <3>1. Outcome(t) = "true" <=> Served(t)
      BY <2>1, OutcomeServed
    <3>2. \A u \in Threads : Same(u) /\ (u # t => msg'[u] = msg[u] /\ op'[u] = op[u])
      BY <2>3
    <3>3. Present' = Present
      <4>1. Buffered' = Buffered
        BY <2>1 DEF Buffered
      <4>2. op'[t] = None
        BY <2>3
      <4>3. CASE Hand(t)
        <5>1. got' = got \cup {msg[t]}
          BY <2>3, <3>1, <4>3
        <5>2. InHand = InHand' \cup {msg[t]}
          <6>1. msg[t] \in Messages
            BY <4>3
          <6> HIDE DEF TypeOK, SInv, CallInv, Served
          <6> QED
            BY <3>2, <4>2, <4>3, <6>1 DEF InHand
        <5> QED
          BY <4>1, <5>1, <5>2 DEF Present
      <4>4. CASE ~Hand(t)
        <5>1. got' = got
          BY <2>3, <3>1, <4>4
        <5>2. InHand = InHand'
          <6> HIDE DEF TypeOK, SInv, CallInv, Served
          <6> QED
            BY <3>2, <4>2, <4>4, NoneNoMessage DEF InHand
        <5> QED
          BY <4>1, <5>1, <5>2 DEF Present
      <4> QED
        BY <4>3, <4>4
    <3>4. CASE op[t] # "put"
      <4>1. UNCHANGED <<sent, refused>>
        BY <2>3, <3>4
      <4> QED
        BY <2>1, <3>2, <3>3, <4>1, PutFrame
    <3>5. CASE op[t] = "put"
      <4>1. /\ sent' = sent \/ (Served(t) /\ sent' = sent \cup {msg[t]})
            /\ refused' = refused \/ (~Served(t) /\ refused' = refused \cup {msg[t]})
        BY <2>3, <3>1
      <4>2. /\ msg[t] <= puts /\ (msg[t] \in Present <=> Served(t))
            /\ \A u \in Threads : u # t /\ op[u] = "put" => msg[u] # msg[t]
        BY <3>5 DEF PutInv
      <4>3. op'[t] # "put"
        BY <2>3
      <4> HIDE DEF TypeOK, SInv, CallInv, Served
      <4>4. PutsAreKept'
        BY <3>3, <4>1, <4>2 DEF PutInv, PutsAreKept, SInv
      <4>5. \A m \in (sent \cup refused)' :
              m <= puts' /\ \A u \in Threads : op'[u] = "put" => msg'[u] # m
        BY <2>1, <3>2, <4>1, <4>2, <4>3 DEF PutInv, SInv
      <4>6. \A u \in Threads :
              op'[u] = "put" =>
                /\ msg'[u] \in Messages /\ msg'[u] <= puts'
                /\ msg'[u] \in Present' <=> Served(u)'
        BY <2>1, <3>2, <3>3 DEF PutInv, SInv
      <4>7. \A u, v \in Threads :
              u # v /\ op'[u] = "put" /\ op'[v] = "put" => msg'[u] # msg'[v]
        BY <3>2, <4>3 DEF PutInv, SInv
      <4>8. \A m \in Present' : m <= puts'
        BY <2>1, <3>3 DEF PutInv, SInv
      <4> QED
        BY <4>4, <4>5, <4>6, <4>7, <4>8 DEF PutInv
    <3> QED
      BY <3>4, <3>5
  <2> QED
    BY <1>4, <2>2, <2>3 DEF Return
<1>5. ASSUME NEW t \in Threads, KMsgqPut(t) PROVE PutInv'
  <2>1. /\ op[t] = "put" /\ ~Served(t) /\ msg[t] \in Messages /\ msg[t] # None
        /\ UNCHANGED <<puts, op, sent, refused, got>>
    BY <1>5 DEF KMsgqPut, Calls, Succeed, PutInv, Messages
  <2>2. \A u \in Threads :
          op[u] = "put" => msg'[u] = msg[u] /\ (Served(u)' <=> Served(u) \/ u = t)
    BY <1>5 DEF KMsgqPut, Calls, Blocked, Succeed
  <2>3. Present' = Present \cup {msg[t]}
    <3>1. ASSUME NEW g \in Blocked("get"), msg' = [msg EXCEPT ![g] = msg[t]], queue' = queue
          PROVE  Present' = Present \cup {msg[t]}
      <4>1. /\ g \in Threads /\ op[g] = "get" /\ msg[g] = None /\ msg'[g] = msg[t]
            /\ \A u \in Threads : u # g => msg'[u] = msg[u]
        BY <3>1 DEF Blocked
      <4>2. InHand' = InHand \cup {msg[t]}
        <5> HIDE DEF TypeOK, SInv, CallInv, Served
        <5> QED
          BY <2>1, <4>1, NoneNoMessage DEF InHand
      <4>3. Buffered' = Buffered
        BY <3>1 DEF Buffered
      <4> QED
        BY <2>1, <4>2, <4>3 DEF Present
    <3>2. CASE queue' = Append(queue, msg[t]) /\ UNCHANGED msg
      <4>1. Buffered' = Buffered \cup {msg[t]}
        <5> HIDE DEF TypeOK, SInv, CallInv, Served
        <5>1. queue \in Seq(Messages)
          BY DEF SInv, TypeOK
        <5> QED
          BY <2>1, <3>2, <5>1, AppendElements DEF Buffered
      <4>2. InHand' = InHand
        BY <2>1, <3>2 DEF InHand
      <4> QED
        BY <2>1, <4>1, <4>2 DEF Present
    <3> QED
      BY <1>5, <3>1, <3>2 DEF KMsgqPut
  <2> QED
    BY <2>1, <2>2, <2>3, PutServed
<1>6. ASSUME NEW t \in Threads, KMsgqGet(t) PROVE PutInv'
  <2>1. /\ UNCHANGED <<puts, op, sent, refused, got>> /\ op[t] = "get" /\ msg[t] = None
        /\ msg' = [msg EXCEPT ![t] = Head(queue)] /\ queue # <<>>
    BY <1>6 DEF KMsgqGet, Calls, Succeed
  <2>2. \A u \in Threads : op[u] = "put" => msg'[u] = msg[u]
    BY <2>1
  <2>3. Head(queue) \in Messages /\ Head(queue) # None /\ Tail(queue) \in Seq(Messages)
    BY <2>1, HeadTailProperties DEF Messages
  <2>4. InHand' = InHand \cup {Head(queue)}
    <3>1. msg'[t] = Head(queue) /\ \A u \in Threads : u # t => msg'[u] = msg[u]
      BY <2>1
    <3> QED
      <4> HIDE DEF TypeOK, SInv, CallInv, Served
      <4> QED
        BY <2>1, <2>3, <3>1, NoneNoMessage DEF InHand
  <2>5. Buffered = {Head(queue)} \cup {Tail(queue)[i] : i \in DOMAIN Tail(queue)}
    BY <2>1, TailElements DEF Buffered
  <2>6. ASSUME NEW p \in Blocked("put"), queue' = Append(Tail(queue), msg[p]), Succeed({t, p})
        PROVE  PutInv'
    <3>1. p \in Threads /\ op[p] = "put" /\ ~Served(p) /\ msg[p] \in Messages
      BY <2>6 DEF Blocked, PutInv
    <3>2. \A u \in Threads : op[u] = "put" => (Served(u)' <=> Served(u) \/ u = p)
      BY <2>1, <2>6 DEF Succeed
    <3>3. TypeOK /\ PutInv
      OBVIOUS
    <3>4. Buffered' = {Tail(queue)[i] : i \in DOMAIN Tail(queue)} \cup {msg[p]}
      <4> HIDE DEF TypeOK, SInv, CallInv, Served
      <4> QED
        BY <2>3, <2>6, <3>1, AppendElements DEF Buffered
    <3>5. Present' = Present \cup {msg[p]}
      BY <2>1, <2>4, <2>5, <3>4 DEF Present
    <3> HIDE DEF TypeOK, SInv, CallInv, Served
    <3> QED
      BY <2>1, <2>2, <2>6, <3>1, <3>2, <3>3, <3>5, PutServed
  <2>7. CASE queue' = Tail(queue) /\ Succeed({t})
    <3>1. \A u \in Threads : Same(u)
      BY <2>1, <2>2, <2>7 DEF Succeed
    <3>2. Buffered' = {Tail(queue)[i] : i \in DOMAIN Tail(queue)}
      BY <2>7 DEF Buffered
    <3>3. Present' = Present
      BY <2>1, <2>4, <2>5, <3>2 DEF Present
    <3> QED
      BY <2>1, <2>7, <3>1, <3>3, PutFrame
  <2> QED
    BY <1>6, <2>6, <2>7 DEF KMsgqGet
<1>7. CASE UNCHANGED vars
  <2>1. UNCHANGED <<queue, toldVars, puts, msg, op, pc, ret>>
    BY <1>7 DEF vars
  <2>2. \A u \in Threads : Same(u)
    BY <2>1
  <2>3. Present' = Present
    BY <2>1, PresentFrame
  <2> QED
    BY <2>1, <2>2, <2>3, PutFrame
<1> HIDE DEF TypeOK, SInv
<1> QED
  BY <1>1, <1>2, <1>3, <1>4, <1>5, <1>6, <1>7 DEF Next, ThreadStep, UserStep, Serve

\* Only a try_lock that was refused ends in an assertion.
LEMMA SFaultStep ==
  ASSUME SInv, TypeOK', [Next]_vars
  PROVE  FaultInv'
<1> USE SizeAssumption, NoneAssumption
    DEF TypeOK, SInv, CallInv, FaultInv, Timeouts, Ops,
        mutexVars, semVars, queueVars, toldVars, callVars
<1>1. ASSUME NEW t \in Threads, NEW w \in Timeouts, fault = "none", CallLock(t, w) PROVE FaultInv'
  BY <1>1 DEF CallLock, Begin
<1>2. ASSUME NEW t \in Threads, fault = "none", KMutexLock(t) PROVE FaultInv'
  BY <1>2 DEF KMutexLock, Calls, Succeed
<1>3. ASSUME NEW t \in Threads, fault = "none", KMutexBusy(t) PROVE FaultInv'
  BY <1>3 DEF KMutexBusy, Calls, Refuse
<1>4. ASSUME NEW t \in Threads, fault = "none", Unlock(t) PROVE FaultInv'
  BY <1>4 DEF Unlock, Blocked, Succeed
<1>5. ASSUME NEW t \in Threads, NEW w \in Timeouts, fault = "none", CallAcquire(t, w)
      PROVE  FaultInv'
  BY <1>5 DEF CallAcquire, Begin
<1>6. ASSUME NEW t \in Threads, fault = "none", KSemTake(t) PROVE FaultInv'
  BY <1>6 DEF KSemTake, Calls, Succeed
<1>7. ASSUME NEW t \in Threads, fault = "none", KSemEmpty(t) PROVE FaultInv'
  BY <1>7 DEF KSemEmpty, Calls, Refuse
<1>8. ASSUME NEW t \in Threads, fault = "none", Release(t) PROVE FaultInv'
  BY <1>8 DEF Release, Blocked, Succeed
<1>9. ASSUME NEW t \in Threads, NEW w \in Timeouts, fault = "none", CallPut(t, w) PROVE FaultInv'
  BY <1>9 DEF CallPut, Begin
<1>10. ASSUME NEW t \in Threads, fault = "none", KMsgqPut(t) PROVE FaultInv'
  BY <1>10 DEF KMsgqPut, Calls, Blocked, Succeed
<1>11. ASSUME NEW t \in Threads, fault = "none", KMsgqFull(t) PROVE FaultInv'
  BY <1>11 DEF KMsgqFull, Calls, Refuse
<1>12. ASSUME NEW t \in Threads, NEW w \in Timeouts, fault = "none", CallGet(t, w) PROVE FaultInv'
  BY <1>12 DEF CallGet, Begin
<1>13. ASSUME NEW t \in Threads, fault = "none", KMsgqGet(t) PROVE FaultInv'
  BY <1>13 DEF KMsgqGet, Calls, Blocked, Succeed
<1>14. ASSUME NEW t \in Threads, fault = "none", KMsgqEmpty(t) PROVE FaultInv'
  BY <1>14 DEF KMsgqEmpty, Calls, Refuse
<1>15. ASSUME NEW t \in Threads, fault = "none", Timeout(t) PROVE FaultInv'
  BY <1>15 DEF Timeout
<1>16. ASSUME NEW t \in Threads, fault = "none", Return(t) PROVE FaultInv'
  BY <1>16 DEF Return, Outcome, IsTimeout, LockTimeout, AcquireTimeout, QueueTimeout
<1>17. CASE UNCHANGED vars
  BY <1>17 DEF vars
<1> HIDE DEF FaultInv, SInv
<1> QED
  BY <1>1, <1>2, <1>3, <1>4, <1>5, <1>6, <1>7, <1>8, <1>9, <1>10, <1>11, <1>12, <1>13, <1>14,
     <1>15, <1>16, <1>17 DEF Next, ThreadStep, UserStep, Serve

-----------------------------------------------------------------------------
\* The inductive invariant.
LEMMA SInvariant == Spec => []SInv
<1>1. SInv /\ [Next]_vars => SInv'
  BY STypeStep, SCallStep, SLockStep, SPutStep, SFaultStep DEF SInv
<1> QED
  BY <1>1, SInit, PTL DEF Spec

\* For any number of threads, counts and sizes: the threads agree with the kernel
\* on the mutex, what try_put_for reported of a message stays true, and only the
\* try_lock of a taken mutex fails an assertion.
THEOREM SyncSafe ==
  Spec => [](TypeOK /\ HoldersAgree /\ PutsAreKept /\ OnlyTryLockAsserts)
<1>1. SInv => HoldersAgree
  BY NoneAssumption DEF SInv, CallInv, LockInv, Served, HoldersAgree, Ops
<1>2. SInv => OnlyTryLockAsserts
  BY DEF SInv, FaultInv, LockInv, OnlyTryLockAsserts
<1>3. SInv => TypeOK /\ PutsAreKept
  BY DEF SInv, PutInv
<1> QED
  BY <1>1, <1>2, <1>3, SInvariant, PTL

\* A call reports success exactly when it has had its effect.
THEOREM ResultsAreTrue == Spec => []ReportsEffect
<1>1. SInv => ReportsEffect
  <2> SUFFICES ASSUME SInv, NEW t \in Threads, pc[t] = "return"
               PROVE  Outcome(t) = "true" <=> Took(t)
    BY DEF ReportsEffect
  <2>1. Outcome(t) = "true" <=> ret[t] = "ok"
    BY OutcomeServed DEF Served
  <2>2. op[t] \in Ops
    BY DEF SInv, CallInv, TypeOK
  <2>3. CASE op[t] = "lock"
    BY <2>1, <2>3 DEF SInv, LockInv, Served, Took
  <2>4. CASE op[t] = "acquire"
    BY <2>1, <2>4 DEF SInv, CallInv, Served, Took
  <2>5. CASE op[t] = "put"
    BY <2>1, <2>5 DEF SInv, PutInv, Served, Took
  <2>6. CASE op[t] = "get"
    BY <2>1, <2>6 DEF SInv, CallInv, Served, Took
  <2> QED
    BY <2>2, <2>3, <2>4, <2>5, <2>6 DEF Ops
<1> QED
  BY <1>1, SInvariant, PTL

=============================================================================
