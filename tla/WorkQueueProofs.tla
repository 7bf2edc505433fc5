--------------------------- MODULE WorkQueueProofs ---------------------------
(***************************************************************************)
(* What stop(), call() and set_params() of zpp_lib::WorkQueue guarantee,   *)
(* for any number of works, threads and parameters.                        *)
(*                                                                         *)
(* QueueInv and ParamsInv hold of any use in which set_params() and call() *)
(* of a work are not made together; LifeInv needs that one thread at a     *)
(* time enters run() and one at a time is in stop().                       *)
(***************************************************************************)
EXTENDS WorkQueue, TLAPS

RunnerPc == EnterPc \cup {"idle", "main", "return", "dead"}
ClientPc == {"idle", "ws_wait", "ws_pend", "ws_clear", "refused"} \cup CallPc \cup StopPc \cup SetPc
Flags == {"started", "drain", "plugged", "stop"}

\* What a thread that runs the queue, and one that uses it, may do.
RunnerActs(r) == CallRun(r) \/ RunStep(r)
ClientActs(c) ==
  \/ CallWaitStarted(c) \/ CallStop(c) \/ ClientStep(c)
  \/ \E w \in Works : CallCall(c, w) \/ CallSetParams(c, w)

\* The threads between the store of _is_started and k_work_queue_run.
Starting(r) == rpc[r] \in {"signal", "enter"}

TypeInv ==
  /\ isStarted \in BOOLEAN
  /\ qflags \in SUBSET Flags
  /\ running \in Works \cup {None}
  /\ queueThread \in Runners \cup {None}
  /\ rpc \in [Runners -> RunnerPc]
  /\ cpc \in [Clients -> ClientPc]
  /\ cwork \in [Clients -> Works \cup {None}]
  /\ joined \in [Clients -> Runners \cup {None}]
  /\ \A c \in Clients : cpc[c] \in CallPc \cup SetPc => cwork[c] \in Works

\* The queue holds a work once, and holds exactly the works that are owed;
\* only a started queue holds works.
QueueInv ==
  /\ pending \in Seq(Works)
  /\ \A i, j \in 1 .. Len(pending) : pending[i] = pending[j] => i = j
  /\ owed = {w \in Works : \E i \in 1 .. Len(pending) : pending[i] = w}
  /\ pending # <<>> => "started" \in qflags

\* A work whose parameters are being assigned is not queued, and no other
\* client is in call() with it.
ParamsInv ==
  /\ args \in [Works -> Params]
  /\ sent \in [Works -> Params \cup {None}]
  /\ \A c \in Clients : cpc[c] = "set_assign" => cwork[c] \notin owed
  /\ \A c, d \in Clients : cpc[c] \in SetPc /\ cpc[d] \in CallPc => cwork[c] # cwork[d]

\* One thread at a time starts or runs the queue.
RunnerInv ==
  /\ \A q, r \in Runners : rpc[q] \in EnterPc /\ rpc[r] \in EnterPc => q = r
  /\ \A r \in Runners : rpc[r] = "store" => ~isStarted
  /\ \A r \in Runners : Starting(r) => isStarted /\ "started" \notin qflags
  /\ \A r \in Runners : rpc[r] = "main" => isStarted /\ "started" \in qflags /\ queueThread = r
  /\ "started" \in qflags => \E r \in Runners : rpc[r] = "main"
  /\ running # None => "started" \in qflags

\* A started queue is run or about to be, or stop() has just ended its thread.
StartedInv ==
  isStarted => \/ "started" \in qflags
               \/ \E r \in Runners : Starting(r)
               \/ \E c \in Clients : cpc[c] \in {"stop_join", "stop_store"}

\* The flags of the queue follow the one stop() that is under way.
FlagInv ==
  /\ \A c, d \in Clients : cpc[c] \in StopPc /\ cpc[d] \in StopPc => c = d
  /\ "drain" \in qflags => \E c \in Clients : cpc[c] = "stop_pend"
  /\ "plugged" \in qflags => \E c \in Clients : cpc[c] \in {"stop_pend", "stop_stop", "stop_join"}
  /\ "stop" \in qflags => \E c \in Clients : cpc[c] = "stop_join"
  /\ \A c \in Clients : cpc[c] = "stop_pend" => "plugged" \in qflags

\* From the end of the drain on the queue is empty.
Empty == pending = <<>> /\ running = None
StopInv ==
  \A c \in Clients :
    /\ cpc[c] \in StopPc \ {"stop_check"} => isStarted
    /\ cpc[c] = "stop_stop" => Empty /\ {"started", "plugged"} \subseteq qflags
    /\ cpc[c] = "stop_join" =>
         /\ Empty
         /\ joined[c] \in Runners
         /\ \/ rpc[joined[c]] = "main" /\ {"started", "plugged"} \subseteq qflags
            \/ rpc[joined[c]] = "return" /\ qflags = {}
         /\ \A r \in Runners : ~Starting(r)
    /\ cpc[c] = "stop_store" =>
         Empty /\ "started" \notin qflags /\ \A r \in Runners : ~Starting(r)

\* A call() that was made of a started queue and overlaps no stop() finds it
\* started; one that fails halts the system.
CallInv ==
  /\ \A c \in Clients : cpc[c] \in CallPc /\ c \notin unready =>
       isStarted /\ \A d \in Clients : cpc[d] \notin StopPc
  /\ \A c \in Clients : cpc[c] = "refused" => fault # "none"
  /\ RefusedOnlyAround

\* Neither k_work_queue_run nor k_work_queue_stop fails.
KernelAccepts == fault \notin {"run_twice", "stop"}

LifeInv == RunnerInv /\ StartedInv /\ FlagInv /\ StopInv /\ CallInv /\ KernelAccepts

-----------------------------------------------------------------------------
(***************************************************************************)
(* The queue and its works, for every use.                                 *)
(***************************************************************************)

\* What the first work leaves behind.
LEMMA TailFacts ==
  ASSUME NEW S, NEW q \in Seq(S), q # <<>>
  PROVE  /\ Head(q) = q[1] /\ Head(q) \in S /\ Len(q) \in Nat /\ Len(q) >= 1
         /\ Tail(q) \in Seq(S) /\ Len(Tail(q)) = Len(q) - 1
         /\ \A i \in 1 .. Len(q) - 1 : Tail(q)[i] = q[i + 1]
  OBVIOUS

\* A queue with one work more.
LEMMA AppendFacts ==
  ASSUME NEW S, NEW q \in Seq(S), NEW x \in S
  PROVE  /\ Append(q, x) \in Seq(S) /\ Len(q) \in Nat /\ Len(Append(q, x)) = Len(q) + 1
         /\ \A i \in 1 .. Len(q) : Append(q, x)[i] = q[i]
         /\ Append(q, x)[Len(q) + 1] = x
  OBVIOUS

\* k_work_is_pending of a work finds it exactly when it is owed.
LEMMA QueuedIsOwed == QueueInv => \A w \in Works : Queued(w) <=> w \in owed
  BY DEF QueueInv, Queued

\* The threads that run the queue keep the types.
LEMMA TypeRunner ==
  ASSUME TypeInv, QueueInv, NEW r \in Runners, RunnerActs(r)
  PROVE  TypeInv'
<1>1. CASE CallRun(r)
  BY <1>1 DEF CallRun, RunnerStep, TypeInv, RunnerPc, EnterPc, queueVars, clientVars
<1>2. CASE RunCheck(r)
  BY <1>2 DEF RunCheck, RunnerStep, TypeInv, RunnerPc, EnterPc, queueVars, clientVars
<1>3. CASE RunStore(r)
  BY <1>3 DEF RunStore, RunnerStep, TypeInv, RunnerPc, EnterPc, queueVars, clientVars
<1>4. CASE RunSignal(r)
  BY <1>4 DEF RunSignal, RunnerStep, TypeInv, RunnerPc, ClientPc, EnterPc, CallPc, SetPc,
       queueVars
<1>5. CASE RunEnter(r)
  <2>1. rpc' = [rpc EXCEPT ![r] = "main"] /\ UNCHANGED <<isStarted, cwork, joined, running>>
    BY <1>5 DEF RunEnter, RunnerStep, queueVars
  <2>2. qflags' \in SUBSET Flags /\ queueThread' \in Runners \cup {None}
    BY <1>5 DEF RunEnter, queueVars, TypeInv, Flags
  <2>3. /\ cpc' \in [Clients -> ClientPc]
        /\ \A c \in Clients : cpc'[c] \in CallPc \cup SetPc => cpc'[c] = cpc[c]
    BY <1>5 DEF RunEnter, TypeInv, ClientPc, CallPc, StopPc, SetPc
  <2> QED
    BY <2>1, <2>2, <2>3 DEF TypeInv, RunnerPc
<1>6. CASE WorkBegin(r)
  BY <1>6, TailFacts DEF WorkBegin, TypeInv, clientVars, QueueInv
<1>7. CASE WorkEnd(r)
  BY <1>7 DEF WorkEnd, TypeInv, clientVars
<1>8. CASE DrainDone(r)
  BY <1>8 DEF DrainDone, TypeInv, ClientPc, CallPc, StopPc, SetPc
<1>9. CASE MainExit(r)
  BY <1>9 DEF MainExit, RunnerStep, TypeInv, RunnerPc, clientVars
<1>10. CASE RunnerDies(r)
  BY <1>10 DEF RunnerDies, RunnerStep, TypeInv, RunnerPc, ClientPc, CallPc, StopPc, SetPc,
       queueVars
<1> QED
  BY <1>1, <1>2, <1>3, <1>4, <1>5, <1>6, <1>7, <1>8, <1>9, <1>10 DEF RunnerActs, RunStep

\* So do the clients.
LEMMA TypeClient ==
  ASSUME TypeInv, NEW c \in Clients, ClientActs(c)
  PROVE  TypeInv'
<1>1. CASE CallWaitStarted(c)
  BY <1>1 DEF CallWaitStarted, Step, TypeInv, ClientPc, CallPc, SetPc, queueVars
<1>2. CASE EventWait(c)
  BY <1>2 DEF EventWait, Step, TypeInv, ClientPc, CallPc, SetPc, queueVars
<1>3. CASE EventClear(c)
  BY <1>3 DEF EventClear, Return, Step, TypeInv, ClientPc, CallPc, SetPc, queueVars
<1>4. CASE CallCheck(c)
  BY <1>4 DEF CallCheck, Step, TypeInv, ClientPc, CallPc, queueVars
<1>5. CASE CallAccepts(c)
  BY <1>5 DEF CallAccepts, Return, Step, TypeInv, ClientPc, CallPc, SetPc
<1>6. CASE CallRefused(c)
  BY <1>6 DEF CallRefused, Step, TypeInv, ClientPc, CallPc, queueVars
<1>7. CASE CallStop(c)
  BY <1>7 DEF CallStop, Step, TypeInv, ClientPc, CallPc, StopPc, SetPc, queueVars
<1>8. CASE StopCheck(c)
  BY <1>8 DEF StopCheck, Return, Step, TypeInv, ClientPc, CallPc, StopPc, SetPc, queueVars
<1>9. CASE StopDrain(c)
  BY <1>9 DEF StopDrain, Step, TypeInv, ClientPc, Flags, CallPc, StopPc, SetPc
<1>10. CASE StopStop(c)
  BY <1>10 DEF StopStop, Step, TypeInv, ClientPc, Flags, CallPc, StopPc, SetPc
<1>11. CASE StopStore(c)
  BY <1>11 DEF StopStore, Return, Step, TypeInv, ClientPc, CallPc, SetPc, queueVars
<1>12. CASE SetCheck(c)
  BY <1>12 DEF SetCheck, Return, Step, TypeInv, ClientPc, CallPc, SetPc, queueVars
<1>13. CASE SetAssign(c)
  BY <1>13 DEF SetAssign, Return, Step, TypeInv, ClientPc, CallPc, SetPc, queueVars
<1>14. ASSUME NEW w \in Works, CallCall(c, w) PROVE TypeInv'
  BY <1>14 DEF CallCall, Step, TypeInv, ClientPc, CallPc, queueVars
<1>15. ASSUME NEW w \in Works, CallSetParams(c, w) PROVE TypeInv'
  BY <1>15 DEF CallSetParams, Step, TypeInv, ClientPc, SetPc, queueVars
<1> QED
  BY <1>1, <1>2, <1>3, <1>4, <1>5, <1>6, <1>7, <1>8, <1>9, <1>10, <1>11, <1>12, <1>13, <1>14,
       <1>15 DEF ClientActs, ClientStep

\* The thread that runs the queue takes works out one by one; it enters and
\* leaves an empty queue.
LEMMA QueueRunner ==
  ASSUME TypeInv, QueueInv, NEW r \in Runners, RunnerActs(r)
  PROVE  QueueInv'
<1>1. CASE CallRun(r) \/ RunCheck(r) \/ RunStore(r) \/ RunSignal(r) \/ WorkEnd(r) \/ RunnerDies(r)
  <2>1. UNCHANGED <<qflags, pending, owed>>
    BY <1>1 DEF CallRun, RunCheck, RunStore, RunSignal, WorkEnd, RunnerDies, queueVars, histVars
  <2> QED
    BY <2>1 DEF QueueInv
<1>2. CASE RunEnter(r)
  <2>1. CASE "started" \in qflags
    BY <1>2, <2>1 DEF RunEnter, queueVars, histVars, QueueInv
  <2>2. CASE "started" \notin qflags
    <3>1. pending = <<>> /\ pending' = <<>> /\ UNCHANGED owed
      BY <1>2, <2>2 DEF RunEnter, histVars, QueueInv
    <3> QED
      BY <3>1 DEF QueueInv
  <2> QED
    BY <2>1, <2>2
<1>3. CASE WorkBegin(r)
  <2> DEFINE n == Len(pending)
  <2>1. /\ pending \in Seq(Works) /\ pending # <<>> /\ pending' = Tail(pending)
        /\ owed' = owed \ {Head(pending)} /\ UNCHANGED qflags
    BY <1>3 DEF WorkBegin, QueueInv
  <2>2. /\ n \in Nat /\ n >= 1 /\ Head(pending) = pending[1] /\ Len(pending') = n - 1
        /\ pending' \in Seq(Works)
        /\ \A i \in 1 .. n - 1 : pending'[i] = pending[i + 1]
    BY <2>1, TailFacts
  <2>3. ASSUME NEW i \in 1 .. Len(pending'), NEW j \in 1 .. Len(pending'), pending'[i] = pending'[j]
        PROVE  i = j
    <3>1. i + 1 \in 1 .. n /\ j + 1 \in 1 .. n /\ pending[i + 1] = pending[j + 1]
      BY <2>2, <2>3
    <3>2. i + 1 = j + 1
      BY <3>1 DEF QueueInv
    <3> QED
      BY <2>2, <3>2
  <2>4. ASSUME NEW v \in Works
        PROVE  v \in owed' <=> \E i \in 1 .. Len(pending') : pending'[i] = v
    <3>1. ASSUME v \in owed' PROVE \E i \in 1 .. Len(pending') : pending'[i] = v
      <4>1. PICK k \in 1 .. n : pending[k] = v
        BY <2>1, <3>1 DEF QueueInv
      <4>2. k # 1
        BY <2>1, <2>2, <3>1, <4>1
      <4>3. k - 1 \in 1 .. Len(pending') /\ pending'[k - 1] = pending[(k - 1) + 1]
        BY <2>2, <4>2
      <4> QED
        BY <2>2, <4>1, <4>3
    <3>2. ASSUME NEW i \in 1 .. Len(pending'), pending'[i] = v PROVE v \in owed'
      <4>1. i + 1 \in 1 .. n /\ 1 \in 1 .. n /\ i + 1 # 1 /\ pending[i + 1] = v
        BY <2>2, <3>2
      <4>2. pending[1] # v /\ v \in owed
        BY <4>1 DEF QueueInv
      <4> QED
        BY <2>1, <2>2, <4>2
    <3> QED
      BY <3>1, <3>2
  <2>5. owed' \subseteq Works
    BY <2>1 DEF QueueInv
  <2>6. pending' # <<>> => "started" \in qflags'
    BY <2>1 DEF QueueInv
  <2>7. owed' = {v \in Works : \E i \in 1 .. Len(pending') : pending'[i] = v}
    BY <2>4, <2>5
  <2> QED
    BY <2>2, <2>3, <2>6, <2>7 DEF QueueInv
<1>4. CASE DrainDone(r)
  BY <1>4 DEF DrainDone, histVars, QueueInv
<1>5. CASE MainExit(r)
  BY <1>5 DEF MainExit, InMain, histVars, QueueInv
<1> QED
  BY <1>1, <1>2, <1>3, <1>4, <1>5 DEF RunnerActs, RunStep

\* call() appends a work that is not queued, to a queue that is started.
LEMMA QueueClient ==
  ASSUME TypeInv, QueueInv, NEW c \in Clients, ClientActs(c)
  PROVE  QueueInv'
<1>1. CASE \/ CallWaitStarted(c) \/ EventWait(c) \/ EventClear(c) \/ CallCheck(c) \/ CallRefused(c)
           \/ CallStop(c) \/ StopCheck(c) \/ StopStore(c) \/ SetCheck(c) \/ SetAssign(c)
           \/ \E w \in Works : CallCall(c, w) \/ CallSetParams(c, w)
  <2>1. UNCHANGED <<qflags, pending, owed>>
    BY <1>1 DEF CallWaitStarted, EventWait, EventClear, CallCheck, CallRefused, CallStop,
         StopCheck, StopStore, SetCheck, SetAssign, CallCall, CallSetParams, queueVars, histVars
  <2> QED
    BY <2>1 DEF QueueInv
<1>2. CASE StopDrain(c) \/ StopStop(c)
  <2>1. UNCHANGED <<pending, owed>> /\ qflags \subseteq qflags'
    BY <1>2 DEF StopDrain, StopStop, histVars
  <2> QED
    BY <2>1 DEF QueueInv
<1>3. CASE CallAccepts(c)
  <2> DEFINE x == cwork[c]
             n == Len(pending)
  <2>1. x \in Works /\ UNCHANGED qflags /\ owed' = owed \cup {x}
    BY <1>3 DEF CallAccepts, Return, Step, TypeInv, CallPc
  <2>2. CASE Queued(x)
    <3>1. pending' = pending /\ x \in owed
      BY <1>3, <2>1, <2>2, QueuedIsOwed DEF CallAccepts
    <3>2. owed' = owed
      BY <2>1, <3>1
    <3> QED
      BY <2>1, <3>1, <3>2 DEF QueueInv
  <2>3. CASE ~Queued(x)
    <3>1. x \notin owed /\ pending' = Append(pending, x) /\ "started" \in qflags'
      BY <1>3, <2>1, <2>3, QueuedIsOwed DEF CallAccepts
    <3>2. pending \in Seq(Works)
      BY DEF QueueInv
    <3> HIDE DEF x
    <3>3. /\ pending' \in Seq(Works) /\ n \in Nat /\ Len(pending') = n + 1
          /\ \A i \in 1 .. n : pending'[i] = pending[i]
          /\ pending'[n + 1] = x
      BY <2>1, <3>1, <3>2, AppendFacts
    <3>4. ASSUME NEW i \in 1 .. n PROVE pending[i] # x
      BY <2>1, <3>1 DEF QueueInv
    <3>5. ASSUME NEW i \in 1 .. Len(pending'), NEW j \in 1 .. Len(pending'),
                 pending'[i] = pending'[j]
          PROVE  i = j
      <4>1. CASE i \in 1 .. n /\ j \in 1 .. n
        BY <3>3, <3>5, <4>1 DEF QueueInv
      <4>2. CASE i = n + 1 \/ j = n + 1
        BY <3>3, <3>4, <3>5, <4>2
      <4> QED
        BY <3>3, <4>1, <4>2
    <3>6. ASSUME NEW v \in Works
          PROVE  v \in owed' <=> \E i \in 1 .. Len(pending') : pending'[i] = v
      <4>1. v \in owed <=> \E i \in 1 .. n : pending[i] = v
        BY DEF QueueInv
      <4>2. ASSUME v \in owed' PROVE \E i \in 1 .. Len(pending') : pending'[i] = v
        <5>1. CASE v = x
          BY <3>3, <5>1
        <5>2. CASE v \in owed
          <6>1. PICK k \in 1 .. n : pending[k] = v
            BY <4>1, <5>2
          <6> QED
            BY <3>3, <6>1
        <5> QED
          BY <2>1, <4>2, <5>1, <5>2
      <4>3. ASSUME NEW i \in 1 .. Len(pending'), pending'[i] = v PROVE v \in owed'
        <5>1. i \in 1 .. n \/ i = n + 1
          BY <3>3
        <5> QED
          BY <2>1, <3>3, <4>1, <4>3, <5>1
      <4> QED
        BY <4>2, <4>3
    <3>7. owed' \subseteq Works
      BY <2>1 DEF QueueInv
    <3>8. owed' = {v \in Works : \E i \in 1 .. Len(pending') : pending'[i] = v}
      BY <3>6, <3>7
    <3> QED
      BY <3>1, <3>3, <3>5, <3>8 DEF QueueInv
  <2> QED
    BY <2>2, <2>3
<1> QED
  BY <1>1, <1>2, <1>3 DEF ClientActs, ClientStep

\* Every step is one of a thread that runs the queue or of one that uses it.
LEMMA NextActs ==
  Next => /\ fault = "none"
          /\ (\E r \in Runners : RunnerActs(r)) \/ (\E c \in Clients : ClientActs(c))
  BY DEF Next, RunnerActs, ClientActs

-----------------------------------------------------------------------------
(***************************************************************************)
(* set_params() and call().                                                *)
(***************************************************************************)
ParamsIInv == TypeInv /\ QueueInv /\ ParamsInv /\ ParamsAsSent

\* A step that makes nothing owed, sets no parameters and starts no call.
LEMMA ParamsFrame ==
  ASSUME TypeInv, ParamsInv, ParamsAsSent, UNCHANGED <<args, cwork>>,
         owed' \subseteq owed, sent' \in [Works -> Params \cup {None}],
         \A w \in owed' : sent'[w] = sent[w],
         \A c \in Clients : cpc'[c] \in SetPc \cup CallPc => cpc'[c] = cpc[c]
  PROVE  ParamsInv' /\ ParamsAsSent'
<1>1. ParamsAsSent'
  BY DEF ParamsAsSent
<1>2. ASSUME NEW c \in Clients, cpc'[c] = "set_assign" PROVE cwork'[c] \notin owed'
  BY <1>2 DEF ParamsInv, SetPc
<1>3. ASSUME NEW c \in Clients, NEW d \in Clients, cpc'[c] \in SetPc, cpc'[d] \in CallPc
      PROVE  cwork'[c] # cwork'[d]
  BY <1>3 DEF ParamsInv
<1> QED
  BY <1>1, <1>2, <1>3 DEF ParamsInv

\* The thread that runs the queue takes a work out, and touches no parameters.
LEMMA ParamsRunner ==
  ASSUME ParamsIInv, NEW r \in Runners, RunnerActs(r)
  PROVE  ParamsInv' /\ ParamsAsSent'
<1> USE DEF ParamsIInv
<1>1. UNCHANGED <<args, cwork>>
  BY DEF RunnerActs, RunStep, CallRun, RunCheck, RunStore, RunSignal, RunEnter, WorkBegin,
       WorkEnd, DrainDone, MainExit, RunnerDies, clientVars
<1>2. ASSUME NEW c \in Clients, cpc'[c] \in SetPc \cup CallPc PROVE cpc'[c] = cpc[c]
  <2>1. CASE RunSignal(r) \/ RunEnter(r) \/ DrainDone(r) \/ RunnerDies(r)
    BY <1>2, <2>1 DEF RunSignal, RunEnter, DrainDone, RunnerDies, SetPc, CallPc
  <2> QED
    BY <2>1 DEF RunnerActs, RunStep, CallRun, RunCheck, RunStore, WorkBegin, WorkEnd, MainExit,
         clientVars
<1>3. CASE WorkBegin(r)
  <2> DEFINE h == Head(pending)
  <2>1. h \in Works
    BY <1>3, TailFacts DEF WorkBegin, QueueInv
  <2>2. owed' = owed \ {h} /\ sent' = [sent EXCEPT ![h] = None]
    BY <1>3 DEF WorkBegin
  <2> HIDE DEF h
  <2>3. sent' \in [Works -> Params \cup {None}] /\ \A w \in owed' : sent'[w] = sent[w]
    BY <2>1, <2>2 DEF ParamsInv, QueueInv
  <2> QED
    BY <1>1, <1>2, <2>2, <2>3, ParamsFrame
<1>4. CASE ~WorkBegin(r)
  <2>1. UNCHANGED <<owed, sent>>
    BY <1>4 DEF RunnerActs, RunStep, CallRun, RunCheck, RunStore, RunSignal, RunEnter, WorkEnd,
         DrainDone, MainExit, RunnerDies, histVars
  <2> QED
    BY <1>1, <1>2, <2>1, ParamsFrame DEF ParamsInv
<1> QED
  BY <1>3, <1>4

\* A client assigns parameters only to a work that is not owed, and nobody
\* submits it before the assignment is made.
LEMMA ParamsClient ==
  ASSUME ParamsExclusive, ParamsIInv, NEW c \in Clients, ClientActs(c)
  PROVE  ParamsInv' /\ ParamsAsSent'
<1> USE DEF ParamsIInv
<1>1. CASE CallAccepts(c)
  <2> DEFINE x == cwork[c]
  <2>1. /\ cpc[c] = "call_submit" /\ x \in Works /\ UNCHANGED args
        /\ cpc' = [cpc EXCEPT ![c] = "idle"] /\ cwork' = [cwork EXCEPT ![c] = None]
        /\ owed' = owed \cup {x}
    BY <1>1 DEF CallAccepts, Return, Step, TypeInv, CallPc
  <2>2. \/ x \in owed /\ sent' = sent
        \/ sent' = [sent EXCEPT ![x] = args[x]]
    BY <1>1, <2>1, QueuedIsOwed DEF CallAccepts
  <2> HIDE DEF x
  <2>3. sent' \in [Works -> Params \cup {None}]
    BY <2>1, <2>2 DEF ParamsInv
  <2>4. ParamsAsSent'
    BY <2>1, <2>2 DEF ParamsInv, ParamsAsSent, QueueInv
  <2>5. ASSUME NEW d \in Clients, cpc'[d] = "set_assign" PROVE cwork'[d] \notin owed'
    <3>1. cpc[d] = "set_assign" /\ cwork'[d] = cwork[d]
      BY <2>1, <2>5 DEF TypeInv
    <3>2. cwork[d] # x
      BY <2>1, <3>1 DEF x, ParamsInv, SetPc, CallPc
    <3> QED
      BY <2>1, <3>1, <3>2 DEF ParamsInv
  <2>6. ASSUME NEW d \in Clients, NEW e \in Clients, cpc'[d] \in SetPc, cpc'[e] \in CallPc
        PROVE  cwork'[d] # cwork'[e]
    <3>1. d # c /\ e # c
      BY <2>1, <2>6 DEF TypeInv, SetPc, CallPc
    <3> QED
      BY <2>1, <2>6, <3>1 DEF TypeInv, ParamsInv
  <2> QED
    BY <2>1, <2>3, <2>4, <2>5, <2>6 DEF ParamsInv
<1>2. CASE SetAssign(c)
  <2>1. PICK v \in Params :
          /\ cpc[c] = "set_assign" /\ args' = [args EXCEPT ![cwork[c]] = v]
          /\ UNCHANGED <<owed, sent>>
          /\ cpc' = [cpc EXCEPT ![c] = "idle"] /\ cwork' = [cwork EXCEPT ![c] = None]
    BY <1>2 DEF SetAssign, Return, Step, histVars
  <2>2. cwork[c] \in Works /\ cwork[c] \notin owed
    BY <2>1 DEF TypeInv, ParamsInv, SetPc
  <2>3. ParamsAsSent' /\ args' \in [Works -> Params]
    BY <2>1, <2>2 DEF ParamsInv, ParamsAsSent, QueueInv
  <2>4. ASSUME NEW d \in Clients, cpc'[d] # "idle"
        PROVE  cpc'[d] = cpc[d] /\ cwork'[d] = cwork[d]
    BY <2>1, <2>4 DEF TypeInv
  <2> QED
    BY <2>1, <2>3, <2>4 DEF ParamsInv, SetPc, CallPc
<1>3. CASE ~CallAccepts(c) /\ ~SetAssign(c)
  <2>1. UNCHANGED <<args, owed, sent>>
    BY <1>3 DEF ClientActs, ClientStep, CallWaitStarted, EventWait, EventClear, CallCheck,
         CallRefused, CallStop, StopCheck, StopDrain, StopStop, StopStore, SetCheck, CallCall,
         CallSetParams, histVars
  <2>2. ParamsAsSent'
    BY <2>1 DEF ParamsAsSent
  <2> SUFFICES
        /\ \A d \in Clients : cpc'[d] = "set_assign" => cwork'[d] \notin owed
        /\ \A d, e \in Clients : cpc'[d] \in SetPc /\ cpc'[e] \in CallPc => cwork'[d] # cwork'[e]
    BY <2>1, <2>2 DEF ParamsInv
  <2>3. CASE \/ CallWaitStarted(c) \/ EventWait(c) \/ EventClear(c) \/ CallRefused(c) \/ CallStop(c)
             \/ StopCheck(c) \/ StopDrain(c) \/ StopStop(c) \/ StopStore(c)
    <3>1. ASSUME NEW d \in Clients, cpc'[d] \in SetPc \cup CallPc
          PROVE  cpc'[d] = cpc[d] /\ cwork'[d] = cwork[d]
      BY <2>3, <3>1 DEF CallWaitStarted, EventWait, EventClear, CallRefused, CallStop, StopCheck,
           StopDrain, StopStop, StopStore, Return, Step, TypeInv, SetPc, CallPc
    <3> QED
      BY <3>1 DEF ParamsInv, SetPc
  <2>4. CASE CallCheck(c)
    BY <2>4 DEF CallCheck, Step, TypeInv, ParamsInv, SetPc, CallPc
  <2>5. CASE SetCheck(c)
    BY <2>5, QueuedIsOwed DEF SetCheck, IsPending, Return, Step, TypeInv, ParamsInv, SetPc, CallPc
  <2>6. ASSUME NEW w \in Works, CallCall(c, w)
        PROVE  /\ \A d \in Clients : cpc'[d] = "set_assign" => cwork'[d] \notin owed
               /\ \A d, e \in Clients :
                    cpc'[d] \in SetPc /\ cpc'[e] \in CallPc => cwork'[d] # cwork'[e]
    BY <2>6 DEF CallCall, Step, TypeInv, ParamsInv, SetPc, CallPc
  <2>7. ASSUME NEW w \in Works, CallSetParams(c, w)
        PROVE  /\ \A d \in Clients : cpc'[d] = "set_assign" => cwork'[d] \notin owed
               /\ \A d, e \in Clients :
                    cpc'[d] \in SetPc /\ cpc'[e] \in CallPc => cwork'[d] # cwork'[e]
    BY <2>7 DEF CallSetParams, Step, TypeInv, ParamsInv, SetPc, CallPc
  <2> QED
    BY <1>3, <2>3, <2>4, <2>5, <2>6, <2>7 DEF ClientActs, ClientStep
<1> QED
  BY <1>1, <1>2, <1>3

\* At the start nothing is queued and nobody is in a member function.
LEMMA InitBase == Init => TypeInv /\ QueueInv /\ ParamsInv /\ ParamsAsSent
<1> SUFFICES ASSUME Init PROVE TypeInv /\ QueueInv /\ ParamsInv /\ ParamsAsSent
  OBVIOUS
<1>1. TypeInv
  BY DEF Init, TypeInv, RunnerPc, ClientPc, CallPc, SetPc
<1>2. QueueInv
  BY DEF Init, QueueInv
<1>3. ParamsInv /\ ParamsAsSent
  BY DEF Init, ParamsInv, ParamsAsSent, SetPc, CallPc
<1> QED
  BY <1>1, <1>2, <1>3

\* Every step keeps the types and the queue, however the queue is used.
LEMMA BaseStep ==
  ASSUME TypeInv, QueueInv, [Next]_vars PROVE TypeInv' /\ QueueInv'
<1>1. CASE UNCHANGED vars
  BY <1>1 DEF vars, queueVars, clientVars, histVars, TypeInv, QueueInv
<1>2. CASE Next
  BY <1>2, NextActs, TypeRunner, TypeClient, QueueRunner, QueueClient
<1> QED
  BY <1>1, <1>2

\* If no set_params() of a work is called together with its call(), every work
\* that the queue still owes would be run with the parameters it was accepted
\* with: s_thunk never sees another call's parameters.
THEOREM SentParams == ASSUME ParamsExclusive PROVE Spec => []ParamsAsSent
<1>1. Init => ParamsIInv
  BY InitBase DEF ParamsIInv
<1>2. ASSUME ParamsIInv, [Next]_vars PROVE ParamsIInv'
  <2>1. TypeInv' /\ QueueInv'
    BY <1>2, BaseStep DEF ParamsIInv
  <2>2. CASE UNCHANGED vars
    BY <1>2, <2>2 DEF vars, queueVars, clientVars, histVars, ParamsIInv, ParamsInv, ParamsAsSent,
         TypeInv, QueueInv
  <2>3. CASE Next
    BY <1>2, <2>1, <2>3, NextActs, ParamsRunner, ParamsClient DEF ParamsIInv
  <2> QED
    BY <1>2, <2>2, <2>3
<1>3. ParamsIInv => ParamsAsSent
  BY DEF ParamsIInv
<1> QED
  BY <1>1, <1>2, <1>3, PTL DEF Spec

-----------------------------------------------------------------------------
(***************************************************************************)
(* run() and stop().                                                       *)
(***************************************************************************)
LifeIInv == TypeInv /\ QueueInv /\ LifeInv

\* The steps of wait_started(), call() and set_params() leave the threads that
\* run the queue, its flags and a stop() under way as they are, and put no work
\* into a queue that is plugged or not started.
LEMMA QuietKeeps ==
  ASSUME LifeIInv, TypeInv', UNCHANGED <<isStarted, rpc, qflags, running, queueThread>>,
         pending = <<>> /\ ("plugged" \in qflags \/ "started" \notin qflags) => pending' = <<>>,
         \A c \in Clients : cpc'[c] \in StopPc \/ cpc[c] \in StopPc =>
           cpc'[c] = cpc[c] /\ joined'[c] = joined[c]
  PROVE  RunnerInv' /\ StartedInv' /\ FlagInv' /\ StopInv'
<1> USE DEF LifeIInv, LifeInv
<1>1. RunnerInv'
  BY DEF RunnerInv, Starting
<1>2. StartedInv'
  BY DEF StartedInv, Starting, StopPc
<1>3. FlagInv'
  BY DEF FlagInv, StopPc
<1>4. StopInv'
  BY DEF StopInv, Starting, Empty, StopPc
<1> QED
  BY <1>1, <1>2, <1>3, <1>4

\* The threads that run the queue.
LEMMA LifeRunner ==
  ASSUME OneRunner, OneStopper, LifeIInv, fault = "none", TypeInv', QueueInv',
         NEW r \in Runners, RunnerActs(r)
  PROVE  LifeInv'
<1> USE DEF LifeIInv, LifeInv
<1>1. CASE CallRun(r)
  <2>1. RunnerInv'
    BY <1>1 DEF CallRun, RunnerStep, RunnerInv, Starting, queueVars
  <2>2. StartedInv'
    BY <1>1 DEF CallRun, RunnerStep, StartedInv, Starting, queueVars, clientVars
  <2>3. FlagInv'
    BY <1>1 DEF CallRun, FlagInv, queueVars, clientVars
  <2>4. StopInv'
    BY <1>1 DEF CallRun, RunnerStep, StopInv, Starting, Empty, queueVars, clientVars
  <2>5. CallInv'
    BY <1>1 DEF CallRun, CallInv, RefusedOnlyAround, clientVars, histVars
  <2>6. KernelAccepts'
    BY <1>1 DEF CallRun, KernelAccepts
  <2> QED
    BY <2>1, <2>2, <2>3, <2>4, <2>5, <2>6
<1>2. CASE RunCheck(r)
  <2>1. RunnerInv'
    BY <1>2 DEF RunCheck, RunnerStep, RunnerInv, Starting, TypeInv, RunnerPc, queueVars
  <2>2. StartedInv'
    BY <1>2 DEF RunCheck, RunnerStep, StartedInv, Starting, queueVars, clientVars
  <2>3. FlagInv'
    BY <1>2 DEF RunCheck, FlagInv, queueVars, clientVars
  <2>4. StopInv'
    BY <1>2 DEF RunCheck, RunnerStep, StopInv, Starting, Empty, queueVars, clientVars
  <2>5. CallInv'
    BY <1>2 DEF RunCheck, CallInv, RefusedOnlyAround, clientVars, histVars
  <2>6. KernelAccepts'
    BY <1>2 DEF RunCheck, KernelAccepts
  <2> QED
    BY <2>1, <2>2, <2>3, <2>4, <2>5, <2>6
<1>3. CASE RunStore(r)
  <2>1. RunnerInv'
    BY <1>3 DEF RunStore, RunnerStep, RunnerInv, TypeInv, RunnerPc, queueVars
  <2>2. StartedInv'
    BY <1>3 DEF RunStore, RunnerStep, StartedInv, Starting, TypeInv
  <2>3. FlagInv'
    BY <1>3 DEF RunStore, FlagInv, queueVars, clientVars
  <2>4. StopInv'
    BY <1>3 DEF RunStore, RunnerStep, StopInv, RunnerInv, StopPc, clientVars
  <2>5. CallInv'
    BY <1>3 DEF RunStore, CallInv, RefusedOnlyAround, clientVars, histVars
  <2>6. KernelAccepts'
    BY <1>3 DEF RunStore, KernelAccepts
  <2> QED
    BY <2>1, <2>2, <2>3, <2>4, <2>5, <2>6
<1>4. CASE RunSignal(r)
  <2>1. RunnerInv'
    BY <1>4 DEF RunSignal, RunnerStep, RunnerInv, Starting, TypeInv, RunnerPc, queueVars
  <2>2. StartedInv'
    BY <1>4 DEF RunSignal, RunnerStep, StartedInv, Starting
  <2>3. FlagInv'
    BY <1>4 DEF RunSignal, FlagInv, StopPc, queueVars
  <2>4. StopInv'
    BY <1>4 DEF RunSignal, RunnerStep, StopInv, RunnerInv, Starting
  <2>5. CallInv'
    BY <1>4 DEF RunSignal, CallInv, RefusedOnlyAround, CallPc, StopPc, histVars
  <2>6. KernelAccepts'
    BY <1>4 DEF RunSignal, KernelAccepts
  <2> QED
    BY <2>1, <2>2, <2>3, <2>4, <2>5, <2>6
<1>5. CASE RunEnter(r)
  <2>1. RunnerInv'
    BY <1>5 DEF RunEnter, RunnerStep, RunnerInv, Starting, TypeInv, RunnerPc
  <2>2. StartedInv'
    BY <1>5 DEF RunEnter, RunnerStep, RunnerInv, StartedInv, Starting
  <2>3. FlagInv'
    BY <1>5 DEF RunEnter, FlagInv, StopPc, queueVars
  <2>4. StopInv'
    BY <1>5 DEF RunEnter, RunnerStep, StopInv, RunnerInv, Starting
  <2>5. CallInv'
    BY <1>5 DEF RunEnter, CallInv, RefusedOnlyAround, CallPc, StopPc, histVars
  <2>6. KernelAccepts'
    BY <1>5 DEF RunEnter, RunnerStep, KernelAccepts, RunnerInv, Starting
  <2> QED
    BY <2>1, <2>2, <2>3, <2>4, <2>5, <2>6
<1>6. CASE WorkBegin(r)
  <2>1. RunnerInv'
    BY <1>6 DEF WorkBegin, InMain, RunnerInv, Starting
  <2>2. StartedInv'
    BY <1>6 DEF WorkBegin, InMain, RunnerInv, StartedInv
  <2>3. FlagInv'
    BY <1>6 DEF WorkBegin, FlagInv, clientVars
  <2>4. StopInv'
    BY <1>6 DEF WorkBegin, StopInv, Empty, clientVars
  <2>5. CallInv'
    BY <1>6 DEF WorkBegin, CallInv, RefusedOnlyAround, clientVars
  <2>6. KernelAccepts'
    BY <1>6 DEF WorkBegin, KernelAccepts
  <2> QED
    BY <2>1, <2>2, <2>3, <2>4, <2>5, <2>6
<1>7. CASE WorkEnd(r)
  <2>1. RunnerInv'
    BY <1>7 DEF WorkEnd, RunnerInv, Starting
  <2>2. StartedInv'
    BY <1>7 DEF WorkEnd, RunnerInv, StartedInv
  <2>3. FlagInv'
    BY <1>7 DEF WorkEnd, FlagInv, clientVars
  <2>4. StopInv'
    BY <1>7 DEF WorkEnd, StopInv, Empty, clientVars
  <2>5. CallInv'
    BY <1>7 DEF WorkEnd, CallInv, RefusedOnlyAround, clientVars, histVars
  <2>6. KernelAccepts'
    BY <1>7 DEF WorkEnd, KernelAccepts
  <2> QED
    BY <2>1, <2>2, <2>3, <2>4, <2>5, <2>6
<1>8. CASE DrainDone(r)
  <2>1. RunnerInv'
    BY <1>8 DEF DrainDone, RunnerInv, Starting
  <2>2. StartedInv'
    BY <1>8 DEF DrainDone, InMain, RunnerInv, StartedInv
  <2>3. FlagInv'
    BY <1>8 DEF DrainDone, FlagInv, StopPc
  <2>4. StopInv'
    BY <1>8 DEF DrainDone, InMain, FlagInv, StopInv, RunnerInv, Starting, Empty
  <2>5. CallInv'
    BY <1>8 DEF DrainDone, CallInv, RefusedOnlyAround, CallPc, StopPc, histVars
  <2>6. KernelAccepts'
    BY <1>8 DEF DrainDone, KernelAccepts
  <2> QED
    BY <2>1, <2>2, <2>3, <2>4, <2>5, <2>6
<1>9. CASE MainExit(r)
  <2>1. RunnerInv'
    BY <1>9 DEF MainExit, InMain, RunnerStep, RunnerInv, TypeInv, EnterPc
  <2>2. StartedInv'
    BY <1>9 DEF MainExit, StartedInv, FlagInv, clientVars
  <2>3. FlagInv'
    BY <1>9 DEF MainExit, FlagInv, StopPc, clientVars
  <2>4. StopInv'
    BY <1>9 DEF MainExit, RunnerStep, FlagInv, StopInv, RunnerInv, Starting, Empty, TypeInv,
         StopPc, clientVars
  <2>5. CallInv'
    BY <1>9 DEF MainExit, CallInv, RefusedOnlyAround, clientVars, histVars
  <2>6. KernelAccepts'
    BY <1>9 DEF MainExit, KernelAccepts
  <2> QED
    BY <2>1, <2>2, <2>3, <2>4, <2>5, <2>6
<1>10. CASE RunnerDies(r)
  <2>1. RunnerInv'
    BY <1>10 DEF RunnerDies, RunnerStep, RunnerInv, Starting, EnterPc, queueVars
  <2>2. StartedInv'
    BY <1>10 DEF RunnerDies, RunnerStep, StartedInv, Starting, queueVars
  <2>3. FlagInv'
    BY <1>10 DEF RunnerDies, RunnerStep, FlagInv, StopInv, StopPc, queueVars
  <2>4. StopInv'
    BY <1>10 DEF RunnerDies, RunnerStep, StopInv, Starting, Empty, StopPc, queueVars
  <2>5. CallInv'
    BY <1>10 DEF RunnerDies, CallInv, RefusedOnlyAround, CallPc, StopPc, histVars
  <2>6. KernelAccepts'
    BY <1>10 DEF RunnerDies, KernelAccepts
  <2> QED
    BY <2>1, <2>2, <2>3, <2>4, <2>5, <2>6
<1> QED
  BY <1>1, <1>2, <1>3, <1>4, <1>5, <1>6, <1>7, <1>8, <1>9, <1>10 DEF RunnerActs, RunStep

\* The clients.
LEMMA LifeClient ==
  ASSUME OneRunner, OneStopper, LifeIInv, fault = "none", TypeInv', QueueInv',
         NEW c \in Clients, ClientActs(c)
  PROVE  LifeInv'
<1> USE DEF LifeIInv, LifeInv
<1>1. CASE CallStop(c)
  <2>1. RunnerInv'
    BY <1>1 DEF CallStop, RunnerInv, Starting, queueVars
  <2>2. StartedInv'
    BY <1>1 DEF CallStop, Step, StartedInv, Starting, queueVars
  <2>3. FlagInv'
    BY <1>1 DEF CallStop, Step, FlagInv, queueVars
  <2>4. StopInv'
    BY <1>1 DEF CallStop, Step, StopInv, StopPc
  <2>5. CallInv'
    BY <1>1 DEF CallStop, Step, CallInv, RefusedOnlyAround, CallPc
  <2>6. KernelAccepts'
    BY <1>1 DEF CallStop, KernelAccepts
  <2> QED
    BY <2>1, <2>2, <2>3, <2>4, <2>5, <2>6
<1>2. CASE StopCheck(c)
  <2>1. RunnerInv'
    BY <1>2 DEF StopCheck, RunnerInv, Starting, queueVars
  <2>2. StartedInv'
    BY <1>2 DEF StopCheck, Step, StartedInv, Starting, TypeInv, queueVars
  <2>3. FlagInv'
    BY <1>2 DEF StopCheck, Return, Step, FlagInv, TypeInv, StopPc, queueVars
  <2>4. StopInv'
    BY <1>2 DEF StopCheck, Return, Step, FlagInv, StopInv, TypeInv, StopPc
  <2>5. CallInv'
    BY <1>2 DEF StopCheck, Return, Step, CallInv, RefusedOnlyAround, TypeInv, CallPc, StopPc,
         histVars
  <2>6. KernelAccepts'
    BY <1>2 DEF StopCheck, KernelAccepts
  <2> QED
    BY <2>1, <2>2, <2>3, <2>4, <2>5, <2>6
<1>3. CASE StopDrain(c)
  <2>1. RunnerInv'
    BY <1>3 DEF StopDrain, RunnerInv, Starting
  <2>2. StartedInv'
    BY <1>3 DEF StopDrain, Step, StartedInv, Starting
  <2>3. FlagInv'
    BY <1>3 DEF StopDrain, Step, FlagInv, TypeInv, StopPc
  <2>4. StopInv'
    BY <1>3 DEF StopDrain, Step, FlagInv, StopInv, StopPc
  <2>5. CallInv'
    BY <1>3 DEF StopDrain, Step, CallInv, RefusedOnlyAround, CallPc, StopPc, histVars
  <2>6. KernelAccepts'
    BY <1>3 DEF StopDrain, KernelAccepts
  <2> QED
    BY <2>1, <2>2, <2>3, <2>4, <2>5, <2>6
<1>4. CASE StopStop(c)
  <2>1. RunnerInv'
    BY <1>4 DEF StopStop, RunnerInv, Starting
  <2>2. StartedInv'
    BY <1>4 DEF StopStop, Step, StartedInv, Starting
  <2>3. FlagInv'
    BY <1>4 DEF StopStop, Step, FlagInv, TypeInv, StopPc
  <2>4. StopInv'
    BY <1>4 DEF StopStop, Step, StopInv, RunnerInv, Starting, Empty, TypeInv
  <2>5. CallInv'
    BY <1>4 DEF StopStop, Step, CallInv, RefusedOnlyAround, CallPc, StopPc, histVars
  <2>6. KernelAccepts'
    BY <1>4 DEF StopStop, Step, KernelAccepts, StopInv
  <2> QED
    BY <2>1, <2>2, <2>3, <2>4, <2>5, <2>6
<1>5. CASE StopStore(c)
  <2>1. RunnerInv'
    BY <1>5 DEF StopStore, Return, Step, RunnerInv, StopInv, Starting, queueVars
  <2>2. StartedInv'
    BY <1>5 DEF StopStore, StartedInv
  <2>3. FlagInv'
    BY <1>5 DEF StopStore, Return, Step, FlagInv, StopPc, queueVars
  <2>4. StopInv'
    BY <1>5 DEF StopStore, Return, Step, FlagInv, StopInv, TypeInv, StopPc
  <2>5. CallInv'
    BY <1>5 DEF StopStore, Return, Step, CallInv, RefusedOnlyAround, CallPc, StopPc, histVars
  <2>6. KernelAccepts'
    BY <1>5 DEF StopStore, KernelAccepts
  <2> QED
    BY <2>1, <2>2, <2>3, <2>4, <2>5, <2>6
<1>6. CASE \/ CallWaitStarted(c) \/ EventWait(c) \/ EventClear(c)
           \/ CallCheck(c) \/ CallAccepts(c) \/ CallRefused(c) \/ SetCheck(c) \/ SetAssign(c)
           \/ \E w \in Works : CallCall(c, w) \/ CallSetParams(c, w)
  <2>1. UNCHANGED <<isStarted, rpc, qflags, running, queueThread>>
    BY <1>6 DEF CallWaitStarted, EventWait, EventClear, CallCheck, CallAccepts, CallRefused,
         SetCheck, SetAssign, CallCall, CallSetParams, queueVars
  <2>2. pending = <<>> /\ ("plugged" \in qflags \/ "started" \notin qflags) => pending' = <<>>
    BY <1>6 DEF CallWaitStarted, EventWait, EventClear, CallCheck, CallAccepts, CallRefused,
         SetCheck, SetAssign, CallCall, CallSetParams, queueVars
  <2>3. ASSUME NEW d \in Clients, cpc'[d] \in StopPc \/ cpc[d] \in StopPc
        PROVE  cpc'[d] = cpc[d] /\ joined'[d] = joined[d]
    BY <1>6, <2>3 DEF CallWaitStarted, EventWait, EventClear, CallCheck, CallAccepts, CallRefused,
         SetCheck, SetAssign, CallCall, CallSetParams, Return, Step, TypeInv, StopPc
  <2>4. RunnerInv' /\ StartedInv' /\ FlagInv' /\ StopInv'
    BY <2>1, <2>2, <2>3, QuietKeeps
  <2>5. KernelAccepts'
    BY <1>6 DEF CallWaitStarted, EventWait, EventClear, CallCheck, CallAccepts, CallRefused,
         SetCheck, SetAssign, CallCall, CallSetParams, KernelAccepts
  <2>6. CallInv'
    <3>1. CASE CallWaitStarted(c) \/ EventWait(c) \/ EventClear(c) \/ SetCheck(c) \/ SetAssign(c)
      <4>1. ASSUME NEW d \in Clients
            PROVE  cpc'[d] \in CallPc \cup StopPc \cup {"refused"} => cpc'[d] = cpc[d]
        BY <3>1 DEF CallWaitStarted, EventWait, EventClear, SetCheck, SetAssign, Return, Step,
             TypeInv, CallPc, StopPc
      <4>2. UNCHANGED <<isStarted, unready, fault>>
        BY <3>1 DEF CallWaitStarted, EventWait, EventClear, SetCheck, SetAssign, histVars
      <4> QED
        BY <4>1, <4>2 DEF CallInv, RefusedOnlyAround
    <3>2. CASE CallCheck(c)
      BY <2>3, <3>2 DEF CallCheck, Step, CallInv, RefusedOnlyAround, TypeInv, CallPc, histVars
    <3>3. CASE CallRefused(c)
      <4>1. cpc[c] = "call_submit" /\ cpc' = [cpc EXCEPT ![c] = "refused"]
        BY <3>3 DEF CallRefused, Step
      <4>2. UNCHANGED <<unready, isStarted, rpc>> /\ fault' = "submit"
        BY <3>3 DEF CallRefused, histVars
      <4>3. c \in unready \/ \E r \in Runners : Starting(r)
        <5>1. SUFFICES ASSUME c \notin unready PROVE \E r \in Runners : Starting(r)
          OBVIOUS
        <5>2. isStarted /\ \A d \in Clients : cpc[d] \notin StopPc
          BY <4>1, <5>1 DEF CallInv, CallPc
        <5>3. "drain" \notin qflags /\ "plugged" \notin qflags
          BY <5>2 DEF FlagInv, StopPc
        <5>4. "started" \notin qflags
          BY <3>3, <5>3 DEF CallRefused
        <5> QED
          BY <5>2, <5>4 DEF StartedInv, StopPc
      <4> QED
        BY <4>1, <4>2, <4>3 DEF CallInv, RefusedOnlyAround, Starting, CallPc, StopPc
    <3>4. CASE CallAccepts(c)
      BY <3>4 DEF CallAccepts, Return, Step, CallInv, RefusedOnlyAround, TypeInv, CallPc, StopPc
    <3>5. ASSUME NEW w \in Works, CallCall(c, w) PROVE CallInv'
      BY <3>5 DEF CallCall, Step, CallInv, RefusedOnlyAround, StopPc
    <3>6. ASSUME NEW w \in Works, CallSetParams(c, w) PROVE CallInv'
      BY <3>6 DEF CallSetParams, Step, CallInv, RefusedOnlyAround, CallPc, StopPc, histVars
    <3> QED
      BY <1>6, <3>1, <3>2, <3>3, <3>4, <3>5, <3>6
  <2> QED
    BY <2>4, <2>5, <2>6
<1> QED
  BY <1>1, <1>2, <1>3, <1>4, <1>5, <1>6 DEF ClientActs, ClientStep

\* At the start no thread is in run() or in stop().
LEMMA InitLife == Init => LifeInv
<1> SUFFICES ASSUME Init PROVE LifeInv
  OBVIOUS
<1>1. RunnerInv /\ StartedInv
  BY DEF Init, RunnerInv, StartedInv, Starting, EnterPc
<1>2. FlagInv /\ StopInv
  BY DEF Init, FlagInv, StopInv, StopPc
<1>3. CallInv /\ KernelAccepts
  BY DEF Init, CallInv, RefusedOnlyAround, KernelAccepts, CallPc
<1> QED
  BY <1>1, <1>2, <1>3 DEF LifeInv

\* The strengthening is inductive.
LEMMA LifeStep ==
  ASSUME OneRunner, OneStopper, LifeIInv, [Next]_vars PROVE LifeIInv'
<1>1. TypeInv' /\ QueueInv'
  BY BaseStep DEF LifeIInv
<1>2. CASE UNCHANGED vars
  <2> USE <1>2 DEF vars, queueVars, clientVars, histVars, LifeIInv, LifeInv
  <2>1. RunnerInv' /\ StartedInv'
    BY DEF RunnerInv, StartedInv, Starting
  <2>2. FlagInv' /\ StopInv'
    BY DEF FlagInv, StopInv, Starting, Empty
  <2>3. CallInv' /\ KernelAccepts'
    BY DEF CallInv, RefusedOnlyAround, KernelAccepts
  <2> QED
    BY <1>1, <2>1, <2>2, <2>3
<1>3. CASE Next
  <2>1. LifeInv'
    BY <1>1, <1>3, NextActs, LifeRunner, LifeClient
  <2> QED
    BY <1>1, <2>1 DEF LifeIInv
<1> QED
  BY <1>2, <1>3

\* With one thread at a time in run() and one in stop(): when stop() is done
\* with the queue, every accepted work has run and no thread is left in it.
THEOREM StopDrains == ASSUME OneRunner, OneStopper PROVE Spec => []StoppedIsDrained
<1>1. Init => LifeIInv
  BY InitBase, InitLife DEF LifeIInv
<1>2. LifeIInv => StoppedIsDrained
  BY DEF LifeIInv, LifeInv, StopInv, Empty, QueueInv, RunnerInv, StoppedIsDrained
<1> QED
  BY <1>1, <1>2, LifeStep, PTL DEF Spec

\* Under the same two rules _is_started is set whenever the queue runs, so
\* that call() does not refuse it nor stop() pass over it.
THEOREM RunningStarted == ASSUME OneRunner, OneStopper PROVE Spec => []RunningIsStarted
<1>1. Init => LifeIInv
  BY InitBase, InitLife DEF LifeIInv
<1>2. LifeIInv => RunningIsStarted
  BY DEF LifeIInv, LifeInv, RunnerInv, RunningIsStarted
<1> QED
  BY <1>1, <1>2, LifeStep, PTL DEF Spec

\* Under the same two rules a call() of a started queue fails only if it overlaps
\* a stop() or falls between the start event and k_work_queue_run.
THEOREM RefusedAround == ASSUME OneRunner, OneStopper PROVE Spec => []RefusedOnlyAround
<1>1. Init => LifeIInv
  BY InitBase, InitLife DEF LifeIInv
<1>2. LifeIInv => RefusedOnlyAround
  BY DEF LifeIInv, LifeInv, CallInv
<1> QED
  BY <1>1, <1>2, LifeStep, PTL DEF Spec

\* Under the same two rules the kernel never refuses what the class asserts it
\* accepts: k_work_queue_run finds the queue not started, and
\* k_work_queue_stop finds it started and plugged.
THEOREM KernelNeverRefuses == ASSUME OneRunner, OneStopper PROVE Spec => []KernelAccepts
<1>1. Init => LifeIInv
  BY InitBase, InitLife DEF LifeIInv
<1>2. LifeIInv => KernelAccepts
  BY DEF LifeIInv, LifeInv
<1> QED
  BY <1>1, <1>2, LifeStep, PTL DEF Spec

=============================================================================
