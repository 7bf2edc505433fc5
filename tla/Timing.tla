------------------------------- MODULE Timing -------------------------------
(***************************************************************************)
(* Time::get_uptime, the sleeping functions of ThisThread, and Ticker: the *)
(* durations of the library become ticks of the kernel, the uptime comes   *)
(* from a cycle counter that may wrap, and the timer interrupt runs the    *)
(* task of a ticker that threads attach without a lock.                    *)
(***************************************************************************)
EXTENDS Integers, FiniteSets

CONSTANTS
  Threads,
  Roles,        \* what the threads of an application do: "sleep", "attach"
  Builds,       \* kinds of clock: "qemu", "cycles64", "cycles32"
  CyclesPerUs, UsPerTick, UsPerMs,
  W32,          \* 2^32
  Durations,    \* arguments of the sleeping functions, in microseconds
  Periods,      \* arguments of attach, in milliseconds
  EndOfTime,    \* bound of the clock, in cycles
  None

ASSUME ScaleAssumption ==
  /\ CyclesPerUs \in Nat \ {0} /\ UsPerTick \in Nat \ {0} /\ UsPerMs \in Nat \ {0}
  /\ W32 \in Nat \ {0} /\ W32 % 2 = 0 /\ EndOfTime \in Nat
ASSUME ArgumentAssumption ==
  /\ Builds \subseteq {"qemu", "cycles64", "cycles32"}
  /\ Roles \subseteq [Threads -> SUBSET {"sleep", "attach"}]
  /\ Durations \subseteq Nat /\ Periods \subseteq Nat /\ None \notin Threads

VARIABLES
  build,     \* the clock of this build
  role,      \* what each thread does in this application
  now,       \* cycles since boot
  pc,        \* where each thread is
  due,       \* the tick at which a sleeping thread is woken, or the cycle for busy_wait
  until,     \* absolute_time, the argument of sleep_until
  attached,  \* Ticker::_isAttached
  timer,     \* Ticker::_timer: [on, due, period], in ticks
  user,      \* _timer.user_data is this instance
  task,      \* Ticker::_task: the thread whose task it is
  asked,     \* history: what each thread asked for: which call, when, how long
  raced,     \* history: two calls of attach have overlapped
  owners,    \* history: the threads whose attach returned ok
  ran,       \* history: the tasks that ran
  fault

setup == <<build, role>>
sleeping == <<due, until, asked>>
ticker == <<attached, timer, user, task, raced, owners, ran>>
vars == <<setup, now, pc, sleeping, ticker, fault>>

Request(call, us) == [call |-> call, from |-> now, us |-> us]
NoRequest == [call |-> "none", from |-> 0, us |-> 0]
TimerOff == [on |-> FALSE, due |-> 0, period |-> 0]

Init ==
  /\ build \in Builds
  /\ role \in Roles
  /\ now = 0
  /\ pc = [t \in Threads |-> "idle"]
  /\ due = [t \in Threads |-> 0]
  /\ until = [t \in Threads |-> 0]
  /\ asked = [t \in Threads |-> NoRequest]
  /\ attached = FALSE
  /\ timer = TimerOff
  /\ user = FALSE
  /\ task = None
  /\ raced = FALSE
  /\ owners = {}
  /\ ran = {}
  /\ fault = "none"

-----------------------------------------------------------------------------
CyclesPerTick == CyclesPerUs * UsPerTick
CurrentTick == now \div CyclesPerTick

Ceil(a, b) == (a + b - 1) \div b

\* Conversions to ticks round up (K_USEC, K_MSEC, K_TIMEOUT_ABS_US).
microseconds_to_ticks(us) == Ceil(us, UsPerTick)
milliseconds_to_ticks(ms) == microseconds_to_ticks(ms * UsPerMs)

\* static_cast<int32_t>
Int32(n) == ((n + W32 \div 2) % W32) - W32 \div 2

\* Time::get_uptime in microseconds.
get_uptime ==
  IF build = "qemu" THEN CurrentTick * UsPerTick
  ELSE (IF build = "cycles32" THEN now % W32 ELSE now) \div CyclesPerUs

-----------------------------------------------------------------------------
(***************************************************************************)
(* ThisThread.  A call is made only when it can end before EndOfTime.      *)
(***************************************************************************)
InTime(us) == now + us * CyclesPerUs + 2 * CyclesPerTick <= EndOfTime

Asleep(t, tick) ==
  /\ pc' = [pc EXCEPT ![t] = "asleep"]
  /\ due' = [due EXCEPT ![t] = tick]

\* duration_cast to milliseconds, for each of the three overloads.
Milliseconds(us) == us \div UsPerMs

\* sleep_for: k_msleep of a negative number or 0 only yields; otherwise the
\* current tick does not count.  Mutant: the milliseconds are taken as microseconds.
SleepTicksMixed(us) == microseconds_to_ticks(Milliseconds(us))

SleepTicks(us) ==
  LET ms == Int32(Milliseconds(us))
  IN  milliseconds_to_ticks(IF ms > 0 THEN ms ELSE 0)

SleepFor(t, us) ==
  /\ pc[t] = "idle"
  /\ InTime(us)
  /\ Asleep(t, IF SleepTicks(us) = 0 THEN CurrentTick ELSE CurrentTick + SleepTicks(us) + 1)
  /\ asked' = [asked EXCEPT ![t] = Request("sleep_for", us)]
  /\ UNCHANGED <<setup, now, until, ticker, fault>>

\* A caller of sleep_until takes the uptime, adds to it and calls; it may be
\* interrupted in between.
ReadUptime(t, us) ==
  /\ pc[t] = "idle"
  /\ InTime(us)
  /\ pc' = [pc EXCEPT ![t] = "read"]
  /\ until' = [until EXCEPT ![t] = get_uptime + us]
  /\ asked' = [asked EXCEPT ![t] = Request("sleep_until", us)]
  /\ UNCHANGED <<setup, now, due, ticker, fault>>

\* sleep_until: an absolute tick, the next one if it has passed.  Mutant: taken
\* as the time to sleep.
SleepUntilRelative(t) ==
  /\ pc[t] = "read"
  /\ InTime(0)
  /\ Asleep(t, CurrentTick + microseconds_to_ticks(until[t]) + 1)
  /\ until' = [until EXCEPT ![t] = 0]
  /\ UNCHANGED <<setup, now, asked, ticker, fault>>

SleepUntil(t) ==
  LET tick == microseconds_to_ticks(until[t])
  IN  /\ pc[t] = "read"
      /\ InTime(0)
      /\ Asleep(t, IF tick > CurrentTick THEN tick ELSE CurrentTick + 1)
      /\ until' = [until EXCEPT ![t] = 0]
      /\ UNCHANGED <<setup, now, asked, ticker, fault>>

\* busy_wait: k_busy_wait takes a uint32_t and counts cycles.
BusyWait(t, us) ==
  /\ pc[t] = "idle"
  /\ InTime(us)
  /\ pc' = [pc EXCEPT ![t] = "busy"]
  /\ due' = [due EXCEPT ![t] = now + (us % W32) * CyclesPerUs]
  /\ asked' = [asked EXCEPT ![t] = Request("busy_wait", us)]
  /\ UNCHANGED <<setup, now, until, ticker, fault>>

ComeBack(t) ==
  /\ \/ pc[t] = "asleep" /\ due[t] <= CurrentTick
     \/ pc[t] = "busy" /\ due[t] <= now
  /\ pc' = [pc EXCEPT ![t] = "back"]
  /\ due' = [due EXCEPT ![t] = 0]
  /\ UNCHANGED <<setup, now, until, asked, ticker, fault>>

Return(t) ==
  /\ pc[t] = "back"
  /\ pc' = [pc EXCEPT ![t] = "idle"]
  /\ asked' = [asked EXCEPT ![t] = NoRequest]
  /\ UNCHANGED <<setup, now, due, until, ticker, fault>>

-----------------------------------------------------------------------------
(***************************************************************************)
(* Ticker::attach, step by step.                                           *)
(***************************************************************************)
Attaching(t) == pc[t] \in {"init", "user", "task", "start", "flag"}

\* Mutant: an attached ticker is attached again.
AttachTestDropped(t) ==
  /\ pc[t] = "idle"
  /\ raced' = (raced \/ \E u \in Threads : Attaching(u))
  /\ pc' = [pc EXCEPT ![t] = "init"]
  /\ UNCHANGED <<setup, now, sleeping, attached, timer, user, task, owners, ran, fault>>

AttachTest(t) ==
  /\ pc[t] = "idle"
  /\ raced' = (raced \/ \E u \in Threads : Attaching(u))
  /\ pc' = [pc EXCEPT ![t] = IF attached THEN "back" ELSE "init"]
  /\ UNCHANGED <<setup, now, sleeping, attached, timer, user, task, owners, ran, fault>>

\* k_timer_init clears the timer, a running one too, which the kernel forbids.
AttachInit(t) ==
  /\ pc[t] = "init"
  /\ pc' = [pc EXCEPT ![t] = "user"]
  /\ fault' = IF timer.on THEN "reinit" ELSE fault
  /\ timer' = TimerOff
  /\ user' = FALSE
  /\ UNCHANGED <<setup, now, sleeping, attached, task, raced, owners, ran>>

AttachUser(t) ==
  /\ pc[t] = "user"
  /\ pc' = [pc EXCEPT ![t] = "task"]
  /\ user' = TRUE
  /\ UNCHANGED <<setup, now, sleeping, attached, timer, task, raced, owners, ran, fault>>

AttachTask(t) ==
  /\ pc[t] = "task"
  /\ pc' = [pc EXCEPT ![t] = "start"]
  /\ task' = t
  /\ UNCHANGED <<setup, now, sleeping, attached, timer, user, raced, owners, ran, fault>>

\* k_timer_start: at the earliest in the next tick; period 0 is a single shot.
\* Mutant: the timer is never started.
AttachStartForever(t, period) ==
  /\ pc[t] = "start"
  /\ InTime(period * UsPerMs)
  /\ pc' = [pc EXCEPT ![t] = "flag"]
  /\ UNCHANGED <<setup, now, sleeping, attached, timer, user, task, raced, owners, ran, fault>>

AttachStart(t, period) ==
  LET n == milliseconds_to_ticks(period)
  IN  /\ pc[t] = "start"
      /\ InTime(period * UsPerMs)
      /\ pc' = [pc EXCEPT ![t] = "flag"]
      /\ timer' = [on |-> TRUE, due |-> CurrentTick + (IF n > 1 THEN n ELSE 1), period |-> n]
      /\ UNCHANGED <<setup, now, sleeping, attached, user, task, raced, owners, ran, fault>>

AttachFlag(t) ==
  /\ pc[t] = "flag"
  /\ pc' = [pc EXCEPT ![t] = "back"]
  /\ attached' = TRUE
  /\ owners' = owners \cup {t}
  /\ UNCHANGED <<setup, now, sleeping, timer, user, task, raced, ran, fault>>

\* The timer interrupt: _thunk finds the instance and runs its task.
TimerExpires ==
  /\ timer.on
  /\ timer.due <= CurrentTick
  /\ timer' = IF timer.period = 0 THEN TimerOff
              ELSE [on |-> TRUE, due |-> timer.due + timer.period, period |-> timer.period]
  /\ fault' = IF user THEN fault ELSE "null"
  /\ ran' = IF user THEN ran \cup {task} ELSE ran
  /\ UNCHANGED <<setup, now, pc, sleeping, attached, user, task, raced, owners>>

Tick ==
  /\ now < EndOfTime
  /\ now' = now + 1
  /\ UNCHANGED <<setup, pc, sleeping, ticker, fault>>

ThreadStep(t) ==
  \/ SleepUntil(t) \/ ComeBack(t) \/ Return(t)
  \/ AttachInit(t) \/ AttachUser(t) \/ AttachTask(t) \/ AttachFlag(t)
  \/ \E period \in Periods : AttachStart(t, period)

Next ==
  /\ fault = "none"
  /\ \/ Tick \/ TimerExpires
     \/ \E t \in Threads : ThreadStep(t)
     \/ \E t \in Threads : "attach" \in role[t] /\ AttachTest(t)
     \/ \E t \in Threads, us \in Durations :
          "sleep" \in role[t] /\ (SleepFor(t, us) \/ ReadUptime(t, us) \/ BusyWait(t, us))

Spec == Init /\ [][Next]_vars

\* Time passes, the timer interrupt is served, and the kernel schedules every
\* thread that is ready.
FairSpec ==
  /\ Spec
  /\ WF_vars(fault = "none" /\ Tick)
  /\ WF_vars(fault = "none" /\ TimerExpires)
  /\ \A t \in Threads : WF_vars(fault = "none" /\ ThreadStep(t))

-----------------------------------------------------------------------------
(***************************************************************************)
(* Properties.                                                             *)
(***************************************************************************)

\* The calls that may come back at any time.  The milliseconds of sleep_for are
\* cast to int32_t (this_thread.cpp:60, 66, 72), the microseconds of busy_wait to
\* uint32_t (this_thread.cpp:56), and sleep_until is told a time that is long past
\* when its caller computed it from a 32-bit cycle counter that had wrapped.
Unlimited(a) ==
  \/ a.call = "sleep_for" /\ a.us >= (W32 \div 2) * UsPerMs
  \/ a.call = "busy_wait" /\ a.us >= W32
  \/ a.call = "sleep_until" /\ build = "cycles32" /\ a.from >= W32

\* By how many cycles, at most, a call stays below what it was asked for.
\* sleep_for drops what is below a whole millisecond: sleep_for(500us) returns at
\* once (this_thread.cpp:65).  The uptime from which the caller of sleep_until
\* counts is that of the last tick or of the last microsecond.
Shortfall(a) ==
  CASE a.call = "sleep_for" -> UsPerMs * CyclesPerUs
    [] a.call = "sleep_until" -> IF build = "qemu" THEN CyclesPerTick ELSE CyclesPerUs
    [] OTHER -> 1

\* At cycle c, a thread that asked for a has got the time it asked for, in
\* unbounded arithmetic, but for less than the shortfall.
Granted(a, c) == Unlimited(a) \/ a.from + a.us * CyclesPerUs < c + Shortfall(a)

\* No thread comes back earlier from the time it asked for than the conversions
\* explain: sleep_for by less than a millisecond, sleep_until(get_uptime() + d) by
\* less than the resolution of the uptime, whatever happened between the reading
\* and the call, and busy_wait not at all; beyond the limits of Unlimited (2^31 ms,
\* 2^32 us, a counter that has wrapped) nothing is said.  this_thread.hpp:57 says
\* only "Suspend the current thread for a specified time duration".
NoEarlyReturn == \A t \in Threads : pc[t] = "back" => Granted(asked[t], now)

\* As long as no two calls of attach overlap, one of them at most returns ok,
\* only the task that it was given runs, and the interrupt finds the instance.
AttachIsExclusive ==
  ~raced => /\ fault = "none"
            /\ Cardinality(owners) <= 1
            /\ \A t \in ran : t \in owners \/ pc[t] = "flag"

\* Whoever sleeps comes back, unless a race of attach brings the system down.
SleepEnds == \A t \in Threads : pc[t] = "asleep" ~> (pc[t] # "asleep" \/ fault # "none")

\* The task of a ticker that was attached without a race runs.
AttachedRuns == (attached /\ ~raced) ~> (ran # {} \/ raced)

=============================================================================
