------------------------------ MODULE WorkQueue ------------------------------
(***************************************************************************)
(* zpp_lib::WorkQueue and Work (zpp_include/work_queue.hpp,                *)
(* zpp_include/work.hpp), built with CONFIG_ASSERT.                        *)
(*                                                                         *)
(* Threads (Runners) call run(), each once, and end when it returns: the   *)
(* thread of the constructor that makes its own, or a thread of the        *)
(* application.  That constructor returns when its thread has started,     *)
(* which is before run() is entered: the queue it leaves behind is one     *)
(* whose runner has not called run() yet.  Other threads (Clients) call    *)
(* wait_started(), call(), stop() and set_params() of the works they       *)
(* share.                                                                  *)
(*                                                                         *)
(* The k_work_q is the kernel's: a FIFO of pending works, the flags        *)
(* started, drain, plugged and stop, and the thread that runs it.          *)
(* k_work_submit_to_queue refuses a work when the queue is not started, or *)
(* is drained or plugged; k_work_queue_drain waits until nothing is        *)
(* pending; k_work_queue_stop waits for the end of the thread.             *)
(*                                                                         *)
(* A failed assertion halts the system: it sets fault.                     *)
(***************************************************************************)
EXTENDS Naturals, Sequences

CONSTANTS
  Works,             \* the Work objects
  Params,            \* the values of their parameters
  Runners,           \* the threads that call run()
  Clients,           \* the threads that use the queue
  None,              \* nullptr
  OneRunner,         \* usage: run() is not entered by two threads at once
  OneStopper,        \* usage: stop() is called by one thread at a time
  ParamsExclusive    \* usage: set_params() is not called together with call()

ASSUME UsageAssumption ==
  OneRunner \in BOOLEAN /\ OneStopper \in BOOLEAN /\ ParamsExclusive \in BOOLEAN
ASSUME NoneAssumption == None \notin Works \cup Runners

VARIABLES
  isStarted,   \* _is_started
  event,       \* kStartedEvent is set in _event
  qflags,      \* the flags of _work_queue
  pending,     \* its works
  running,     \* the work whose handler runs, or None
  queueThread, \* the thread that runs the queue, or None
  args,        \* _args of each work
  rpc,         \* where each runner is in run()
  cpc,         \* where each client is in a member function
  cwork,       \* the work of that call
  joined,      \* the thread that the stop() of a client waits for
  fault,       \* "none", or the assertion that failed
  owed,        \* history: the works accepted by call() and not run since
  sent,        \* history: the parameters with which they were accepted, or None
  unready      \* history: the clients whose call() was made of a queue that is not
               \* started, or overlaps a stop()

queueVars == <<qflags, pending, running, queueThread>>
clientVars == <<cpc, cwork, joined>>
histVars == <<owed, sent, unready>>
vars == <<isStarted, event, queueVars, args, rpc, clientVars, fault, histVars>>

EnterPc == {"check", "store", "signal", "enter"}
CallPc == {"call_check", "call_submit"}
StopPc == {"stop_check", "stop_drain", "stop_pend", "stop_lost", "stop_stop", "stop_join",
           "stop_store"}
SetPc == {"set_check", "set_assign"}

Queued(w) == \E n \in DOMAIN pending : pending[n] = w

\* k_work_is_pending
IsPending(w) == Queued(w) \/ running = w

Init ==
  /\ isStarted = FALSE /\ event = FALSE
  /\ qflags = {}
  /\ pending = <<>>
  /\ running = None
  /\ queueThread = None
  /\ args \in [Works -> Params]
  /\ rpc = [r \in Runners |-> "idle"]
  /\ cpc = [c \in Clients |-> "idle"]
  /\ cwork = [c \in Clients |-> None]
  /\ joined = [c \in Clients |-> None]
  /\ fault = "none"
  /\ owed = {}
  /\ sent = [w \in Works |-> None]
  /\ unready = {}

-----------------------------------------------------------------------------
(***************************************************************************)
(* WorkQueue::run, and the thread that runs the queue.                     *)
(***************************************************************************)
RunnerStep(r, from, to) == rpc[r] = from /\ rpc' = [rpc EXCEPT ![r] = to]

CallRun(r) ==
  /\ RunnerStep(r, "idle", "check")
  /\ OneRunner => \A q \in Runners : rpc[q] \notin EnterPc
  /\ UNCHANGED <<isStarted, event, queueVars, args, clientVars, fault, histVars>>

\* The queue runs already: run() returns, and the thread ends.
RunCheck(r) ==
  /\ RunnerStep(r, "check", IF isStarted THEN "return" ELSE "store")
  /\ UNCHANGED <<isStarted, event, queueVars, args, clientVars, fault, histVars>>

\* Mutant: _is_started is not set.
RunStoreNot(r) ==
  /\ RunnerStep(r, "store", "signal")
  /\ UNCHANGED <<isStarted, event, queueVars, args, clientVars, fault, histVars>>

RunStore(r) ==
  /\ RunnerStep(r, "store", "signal")
  /\ isStarted' = TRUE
  /\ UNCHANGED <<event, queueVars, args, clientVars, fault, histVars>>

\* _event.set(kStartedEvent) wakes every thread that waits, before the queue
\* is entered.
RunSignal(r) ==
  /\ RunnerStep(r, "signal", "enter")
  /\ event' = TRUE
  /\ cpc' = [c \in Clients |-> IF cpc[c] = "ws_pend" THEN "ws_clear" ELSE cpc[c]]
  /\ UNCHANGED <<isStarted, queueVars, args, cwork, joined, fault, histVars>>

\* k_work_queue_run asserts that the queue is not started and initializes it:
\* who waits for a drain already is forgotten.
RunEnter(r) ==
  /\ RunnerStep(r, "enter", "main")
  /\ IF "started" \in qflags
     THEN fault' = "run_twice" /\ UNCHANGED <<queueVars, cpc>>
     ELSE /\ qflags' = {"started"}
          /\ pending' = <<>>
          /\ queueThread' = r
          /\ cpc' = [c \in Clients |-> IF cpc[c] = "stop_pend" THEN "stop_lost" ELSE cpc[c]]
          /\ UNCHANGED <<running, fault>>
  /\ UNCHANGED <<isStarted, event, args, cwork, joined, histVars>>

InMain(r) == rpc[r] = "main" /\ queueThread = r /\ running = None

\* The first work leaves the queue and Work::s_thunk invokes its method with
\* the parameters it holds now.
WorkBegin(r) ==
  /\ InMain(r) /\ pending # <<>>
  /\ running' = Head(pending)
  /\ pending' = Tail(pending)
  /\ owed' = owed \ {Head(pending)}
  /\ sent' = [sent EXCEPT ![Head(pending)] = None]
  /\ UNCHANGED <<isStarted, event, qflags, queueThread, args, rpc, clientVars, fault,
                 unready>>

WorkEnd(r) ==
  /\ rpc[r] = "main" /\ queueThread = r /\ running # None
  /\ running' = None
  /\ UNCHANGED <<isStarted, event, qflags, pending, queueThread, args, rpc, clientVars, fault,
                 histVars>>

DrainDone(r) ==
  /\ InMain(r) /\ pending = <<>> /\ "drain" \in qflags
  /\ qflags' = qflags \ {"drain"}
  /\ cpc' = [c \in Clients |-> IF cpc[c] = "stop_pend" THEN "stop_stop" ELSE cpc[c]]
  /\ UNCHANGED <<isStarted, event, pending, running, queueThread, args, rpc, cwork, joined,
                 fault, histVars>>

\* The queue is asked to stop: the flags are cleared and run() returns.
MainExit(r) ==
  /\ InMain(r) /\ pending = <<>> /\ "drain" \notin qflags /\ "stop" \in qflags
  /\ qflags' = {}
  /\ RunnerStep(r, "main", "return")
  /\ UNCHANGED <<isStarted, event, pending, running, queueThread, args, clientVars, fault,
                 histVars>>

\* The thread ends; whoever joins it is made ready.
RunnerDies(r) ==
  /\ RunnerStep(r, "return", "dead")
  /\ cpc' = [c \in Clients |->
               IF cpc[c] = "stop_join" /\ joined[c] = r THEN "stop_store" ELSE cpc[c]]
  /\ UNCHANGED <<isStarted, event, queueVars, args, cwork, joined, fault, histVars>>

-----------------------------------------------------------------------------
(***************************************************************************)
(* The clients.                                                            *)
(***************************************************************************)
Step(c, from, to) == cpc[c] = from /\ cpc' = [cpc EXCEPT ![c] = to]
Return(c, from) ==
  /\ Step(c, from, "idle")
  /\ cwork' = [cwork EXCEPT ![c] = None]
  /\ joined' = [joined EXCEPT ![c] = None]

\* wait_started(), that is Event::wait_any(kStartedEvent).
CallWaitStarted(c) ==
  /\ Step(c, "idle", "ws_wait")
  /\ UNCHANGED <<isStarted, event, queueVars, args, rpc, cwork, joined, fault, histVars>>

EventWait(c) ==
  /\ Step(c, "ws_wait", IF event THEN "ws_clear" ELSE "ws_pend")
  /\ UNCHANGED <<isStarted, event, queueVars, args, rpc, cwork, joined, fault, histVars>>

EventClear(c) ==
  /\ Return(c, "ws_clear")
  /\ event' = FALSE
  /\ UNCHANGED <<isStarted, queueVars, args, rpc, fault, histVars>>

\* call(w), at any time.
CallCall(c, w) ==
  /\ ParamsExclusive => \A d \in Clients : ~(cwork[d] = w /\ cpc[d] \in SetPc)
  /\ Step(c, "idle", "call_check")
  /\ cwork' = [cwork EXCEPT ![c] = w]
  /\ unready' = IF isStarted /\ \A d \in Clients : cpc[d] \notin StopPc
                THEN unready ELSE unready \cup {c}
  /\ UNCHANGED <<isStarted, event, queueVars, args, rpc, joined, fault, owed, sent>>

\* ZPP_ASSERT(false, "Workqueue should have started before calling call()")
CallCheck(c) ==
  /\ IF isStarted
     THEN Step(c, "call_check", "call_submit") /\ UNCHANGED fault
     ELSE Step(c, "call_check", "refused") /\ fault' = "not_started"
  /\ UNCHANGED <<isStarted, event, queueVars, args, rpc, cwork, joined, histVars>>

\* k_work_submit_to_queue: a work that is queued already is left where it is;
\* ZPP_ASSERT(false, "Failed to submit work: %d") when it is refused.
CallAccepts(c) ==
  LET w == cwork[c] IN
  /\ Return(c, "call_submit")
  /\ \/ Queued(w) /\ UNCHANGED <<pending, sent>>
     \/ /\ ~Queued(w) /\ "started" \in qflags /\ qflags \cap {"drain", "plugged"} = {}
        /\ pending' = Append(pending, w)
        /\ sent' = [sent EXCEPT ![w] = args[w]]
  /\ owed' = owed \cup {w}
  /\ unready' = unready \ {c}
  /\ UNCHANGED <<isStarted, event, qflags, running, queueThread, args, rpc, fault>>

\* Mutant: the error of k_work_submit_to_queue is ignored.
CallRefusedIgnored(c) ==
  /\ Return(c, "call_submit")
  /\ ~Queued(cwork[c])
  /\ "started" \notin qflags \/ qflags \cap {"drain", "plugged"} # {}
  /\ owed' = owed \cup {cwork[c]}
  /\ unready' = unready \ {c}
  /\ UNCHANGED <<isStarted, event, queueVars, args, rpc, fault, sent>>

CallRefused(c) ==
  /\ Step(c, "call_submit", "refused")
  /\ ~Queued(cwork[c])
  /\ "started" \notin qflags \/ qflags \cap {"drain", "plugged"} # {}
  /\ fault' = "submit"
  /\ UNCHANGED <<isStarted, event, queueVars, args, rpc, cwork, joined, histVars>>

\* stop()
CallStop(c) ==
  /\ OneStopper => \A d \in Clients : cpc[d] \notin StopPc
  /\ Step(c, "idle", "stop_check")
  /\ unready' = unready \cup {d \in Clients : cpc[d] \in CallPc}
  /\ UNCHANGED <<isStarted, event, queueVars, args, rpc, cwork, joined, fault, owed, sent>>

\* "not started or already stopped, return silently"
StopCheck(c) ==
  /\ IF isStarted
     THEN Step(c, "stop_check", "stop_drain") /\ UNCHANGED <<cwork, joined>>
     ELSE Return(c, "stop_check")
  /\ UNCHANGED <<isStarted, event, queueVars, args, rpc, fault, histVars>>

\* k_work_queue_drain(&_work_queue, true) plugs the queue, and waits also when
\* nothing is pending.
StopDrain(c) ==
  /\ Step(c, "stop_drain", "stop_pend")
  /\ qflags' = qflags \cup {"drain", "plugged"}
  /\ UNCHANGED <<isStarted, event, pending, running, queueThread, args, rpc, cwork, joined,
                 fault, histVars>>

\* Mutants: stop() does not wait for the end of the thread; it waits without
\* asking the queue to stop.
StopStopNoWait(c) ==
  /\ Step(c, "stop_stop", "stop_store")
  /\ qflags' = qflags \cup {"stop"}
  /\ UNCHANGED <<isStarted, event, pending, running, queueThread, args, rpc, cwork, joined,
                 fault, histVars>>

StopStopUnasked(c) ==
  /\ Step(c, "stop_stop", "stop_join")
  /\ joined' = [joined EXCEPT ![c] = queueThread]
  /\ UNCHANGED <<isStarted, event, queueVars, args, rpc, cwork, fault, histVars>>

\* k_work_queue_stop(&_work_queue, K_FOREVER), with the assertion that it
\* succeeds.
StopStop(c) ==
  /\ Step(c, "stop_stop", "stop_join")
  /\ IF {"started", "plugged"} \subseteq qflags
     THEN /\ qflags' = qflags \cup {"stop"}
          /\ joined' = [joined EXCEPT ![c] = queueThread]
          /\ UNCHANGED fault
     ELSE fault' = "stop" /\ UNCHANGED <<qflags, joined>>
  /\ UNCHANGED <<isStarted, event, pending, running, queueThread, args, rpc, cwork, histVars>>

\* Mutant: _is_started stays set.
StopStoreNot(c) ==
  /\ Return(c, "stop_store")
  /\ UNCHANGED <<isStarted, event, queueVars, args, rpc, fault, histVars>>

StopStore(c) ==
  /\ Return(c, "stop_store")
  /\ isStarted' = FALSE
  /\ UNCHANGED <<event, queueVars, args, rpc, fault, histVars>>

\* Work::set_params
CallSetParams(c, w) ==
  /\ ParamsExclusive => \A d \in Clients : cwork[d] # w
  /\ Step(c, "idle", "set_check")
  /\ cwork' = [cwork EXCEPT ![c] = w]
  /\ UNCHANGED <<isStarted, event, queueVars, args, rpc, joined, fault, histVars>>

\* Mutant: the parameters of a pending work are not protected.
SetCheckNot(c) ==
  /\ Step(c, "set_check", "set_assign")
  /\ UNCHANGED <<isStarted, event, queueVars, args, rpc, cwork, joined, fault, histVars>>

\* "params should not be modified when the work is pending"
SetCheck(c) ==
  /\ IF IsPending(cwork[c])
     THEN Return(c, "set_check")
     ELSE Step(c, "set_check", "set_assign") /\ UNCHANGED <<cwork, joined>>
  /\ UNCHANGED <<isStarted, event, queueVars, args, rpc, fault, histVars>>

SetAssign(c) ==
  /\ Return(c, "set_assign")
  /\ \E v \in Params : args' = [args EXCEPT ![cwork[c]] = v]
  /\ UNCHANGED <<isStarted, event, queueVars, rpc, fault, histVars>>

-----------------------------------------------------------------------------
RunStep(r) ==
  \/ RunCheck(r) \/ RunStore(r) \/ RunSignal(r) \/ RunEnter(r)
  \/ WorkBegin(r) \/ WorkEnd(r) \/ DrainDone(r) \/ MainExit(r) \/ RunnerDies(r)

ClientStep(c) ==
  \/ EventWait(c) \/ EventClear(c)
  \/ CallCheck(c) \/ CallAccepts(c) \/ CallRefused(c)
  \/ StopCheck(c) \/ StopDrain(c) \/ StopStop(c) \/ StopStore(c)
  \/ SetCheck(c) \/ SetAssign(c)

Next ==
  /\ fault = "none"
  /\ \/ \E r \in Runners : CallRun(r) \/ RunStep(r)
     \/ \E c \in Clients : CallWaitStarted(c) \/ CallStop(c) \/ ClientStep(c)
     \/ \E c \in Clients, w \in Works : CallCall(c, w) \/ CallSetParams(c, w)

Spec == Init /\ [][Next]_vars

\* Every ready thread runs, and the methods that the works invoke return.
\* Nothing obliges a thread to call a member function.
Fairness ==
  /\ \A r \in Runners : WF_vars(fault = "none" /\ RunStep(r))
  /\ \A c \in Clients : WF_vars(fault = "none" /\ ClientStep(c))

FairSpec == Spec /\ Fairness

-----------------------------------------------------------------------------
(***************************************************************************)
(* Properties.                                                             *)
(***************************************************************************)

\* When stop() has stopped the queue, every work that call() accepted has run
\* to its end, also those accepted while stop() was under way, and no thread is
\* in the queue any more.
StoppedIsDrained ==
  \A c \in Clients : cpc[c] = "stop_store" =>
    owed = {} /\ running = None /\ \A r \in Runners : rpc[r] # "main"

\* A work is run with the parameters it had when call() accepted it, whatever
\* set_params() is called with in between.
ParamsAsSent == \A w \in owed : args[w] = sent[w]

\* _is_started is never false while the queue runs: a queue that can be used
\* is not refused by call(), and stop() does not pass over it.
RunningIsStarted == "started" \in qflags => isStarted

\* A call() of a started queue fails only when it overlaps a stop(), or in the
\* gap between the start event and k_work_queue_run.  A queue that is not
\* started halts the system (work_queue.hpp:117), also between the return of
\* the constructor that makes its own thread and the moment when that thread
\* gets to run().
RefusedOnlyAround ==
  \A c \in Clients :
    cpc[c] = "refused" => c \in unready \/ \E r \in Runners : rpc[r] \in {"signal", "enter"}

\* A work that call() has accepted runs, unless the system is halted.
AcceptedRuns == \A w \in Works : w \in owed ~> (w \notin owed \/ fault # "none")

\* stop() of a queue that runs returns, unless the system is halted.
StopReturns ==
  \A c \in Clients :
    (cpc[c] = "stop_pend" /\ "started" \in qflags) ~> (cpc[c] = "idle" \/ fault # "none")

=============================================================================
