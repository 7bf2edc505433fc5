---------------------------- MODULE TimingProofs ----------------------------
(***************************************************************************)
(* AttachIsExclusive and NoEarlyReturn, for any number of threads, any     *)
(* clock and any period, and any duration that the property judges.        *)
(***************************************************************************)
EXTENDS Timing, FiniteSetTheorems, TLAPS

AttachPc == {"init", "user", "task", "start", "flag"}

TypeInv ==
  /\ pc \in [Threads -> AttachPc \cup {"idle", "read", "asleep", "busy", "back"}]
  /\ attached \in BOOLEAN /\ raced \in BOOLEAN /\ user \in BOOLEAN /\ timer.on \in BOOLEAN

\* One thread at a time is inside attach, and only before anybody has attached.
OneAttaching ==
  /\ \A t, u \in Threads : Attaching(t) /\ Attaching(u) => t = u
  /\ \A t \in Threads : Attaching(t) => ~attached

\* How far the thread inside attach has come is how much of the ticker is set.
Progress ==
  /\ \A t \in Threads :
       /\ pc[t] \in {"task", "start", "flag"} => user
       /\ pc[t] \in {"start", "flag"} => task = t
  /\ timer.on \/ ran # {} => attached \/ \E t \in Threads : pc[t] = "flag"
  /\ attached => user /\ owners = {task}
  /\ ~attached => owners = {}
  /\ ran \subseteq {task}

TickerInv == ~raced => OneAttaching /\ Progress /\ fault = "none"

IInv == TypeInv /\ TickerInv

-----------------------------------------------------------------------------
\* The ticker starts unattached, with its timer off.
LEMMA InitIInv == Init => IInv
<1> SUFFICES ASSUME Init PROVE IInv
  OBVIOUS
<1>1. TypeInv
  BY DEF Init, TypeInv, TimerOff
<1>2. ASSUME NEW t \in Threads PROVE pc[t] = "idle"
  BY DEF Init
<1>3. OneAttaching
  BY <1>2 DEF OneAttaching, Attaching
<1>4. Progress
  BY <1>2 DEF Init, Progress, TimerOff
<1> QED
  BY <1>1, <1>3, <1>4 DEF Init, IInv, TickerInv

\* A step that leaves the ticker alone and moves no thread into or out of attach.
LEMMA ElsewhereKeeps ==
  ASSUME IInv, UNCHANGED <<ticker, fault>>, TypeInv',
         \A t \in Threads : pc'[t] = pc[t] \/ (~Attaching(t) /\ pc'[t] \notin AttachPc)
  PROVE  IInv'
<1>1. ASSUME NEW t \in Threads PROVE pc'[t] \in AttachPc => pc'[t] = pc[t]
  BY DEF Attaching, AttachPc
<1>2. ASSUME NEW t \in Threads PROVE pc[t] \in AttachPc => pc'[t] = pc[t]
  BY DEF Attaching, AttachPc
<1>3. ASSUME ~raced' PROVE OneAttaching'
  BY <1>1, <1>3 DEF IInv, TickerInv, OneAttaching, Attaching, AttachPc, ticker
<1>4. ASSUME ~raced' PROVE Progress'
  BY <1>1, <1>2, <1>4 DEF IInv, TickerInv, Progress, AttachPc, ticker
<1> QED
  BY <1>3, <1>4 DEF IInv, TickerInv, ticker

\* Sleeping and waiting.
LEMMA SleepingKeeps ==
  ASSUME IInv, NEW t \in Threads,
         \/ \E us \in Durations : SleepFor(t, us) \/ ReadUptime(t, us) \/ BusyWait(t, us)
         \/ SleepUntil(t) \/ ComeBack(t) \/ Return(t)
  PROVE  IInv'
<1>1. UNCHANGED <<ticker, fault>>
  BY DEF SleepFor, ReadUptime, BusyWait, SleepUntil, ComeBack, Return
<1>2. /\ ~Attaching(t)
      /\ \E p \in {"idle", "read", "asleep", "busy", "back"} : pc' = [pc EXCEPT ![t] = p]
  BY DEF SleepFor, ReadUptime, BusyWait, SleepUntil, ComeBack, Return, Asleep, Attaching
<1>3. TypeInv'
  BY <1>1, <1>2 DEF IInv, TypeInv, ticker
<1>4. \A u \in Threads : pc'[u] = pc[u] \/ (~Attaching(u) /\ pc'[u] \notin AttachPc)
  BY <1>2 DEF IInv, TypeInv, AttachPc
<1> QED
  BY <1>1, <1>3, <1>4, ElsewhereKeeps

\* The steps of attach.
LEMMA AttachKeeps ==
  ASSUME IInv, fault = "none", NEW t \in Threads,
         \/ AttachTest(t) \/ AttachInit(t) \/ AttachUser(t) \/ AttachTask(t) \/ AttachFlag(t)
         \/ \E period \in Periods : AttachStart(t, period)
  PROVE  IInv'
<1>1. CASE AttachTest(t)
  <2>1. TypeInv'
    BY <1>1 DEF AttachTest, IInv, TypeInv, AttachPc
  <2>2. ASSUME ~raced' PROVE ~raced /\ \A u \in Threads : ~Attaching(u)
    BY <1>1, <2>2 DEF AttachTest
  <2>3. ASSUME ~raced' PROVE OneAttaching'
    BY <1>1, <2>2, <2>3 DEF AttachTest, IInv, TypeInv, TickerInv, OneAttaching, Attaching
  <2>4. ASSUME ~raced' PROVE Progress'
    BY <1>1, <2>2, <2>4 DEF AttachTest, IInv, TypeInv, TickerInv, Progress, Attaching
  <2> QED
    BY <1>1, <2>1, <2>2, <2>3, <2>4 DEF AttachTest, IInv, TickerInv
<1>2. CASE AttachInit(t)
  <2>1. TypeInv'
    BY <1>2 DEF AttachInit, IInv, TypeInv, AttachPc, TimerOff
  <2>2. ASSUME ~raced' PROVE OneAttaching' /\ Progress' /\ ~timer.on
    BY <1>2, <2>2 DEF AttachInit, IInv, TypeInv, TickerInv, OneAttaching, Progress, Attaching,
       TimerOff
  <2> QED
    BY <1>2, <2>1, <2>2 DEF AttachInit, IInv, TickerInv
<1>3. CASE AttachUser(t)
  <2>1. TypeInv'
    BY <1>3 DEF AttachUser, IInv, TypeInv, AttachPc
  <2>2. ASSUME ~raced' PROVE OneAttaching' /\ Progress'
    BY <1>3, <2>2 DEF AttachUser, IInv, TypeInv, TickerInv, OneAttaching, Progress, Attaching
  <2> QED
    BY <1>3, <2>1, <2>2 DEF AttachUser, IInv, TickerInv
<1>4. CASE AttachTask(t)
  <2>1. TypeInv'
    BY <1>4 DEF AttachTask, IInv, TypeInv, AttachPc
  <2>2. ASSUME ~raced' PROVE OneAttaching' /\ Progress'
    BY <1>4, <2>2 DEF AttachTask, IInv, TypeInv, TickerInv, OneAttaching, Progress, Attaching
  <2> QED
    BY <1>4, <2>1, <2>2 DEF AttachTask, IInv, TickerInv
<1>5. ASSUME NEW period \in Periods, AttachStart(t, period) PROVE IInv'
  <2>1. TypeInv'
    BY <1>5 DEF AttachStart, IInv, TypeInv, AttachPc
  <2>2. ASSUME ~raced' PROVE OneAttaching' /\ Progress'
    BY <1>5, <2>2 DEF AttachStart, IInv, TypeInv, TickerInv, OneAttaching, Progress, Attaching
  <2> QED
    BY <1>5, <2>1, <2>2 DEF AttachStart, IInv, TickerInv
<1>6. CASE AttachFlag(t)
  <2>1. TypeInv'
    BY <1>6 DEF AttachFlag, IInv, TypeInv, AttachPc
  <2>2. ASSUME ~raced' PROVE OneAttaching' /\ Progress'
    BY <1>6, <2>2 DEF AttachFlag, IInv, TypeInv, TickerInv, OneAttaching, Progress, Attaching
  <2> QED
    BY <1>6, <2>1, <2>2 DEF AttachFlag, IInv, TickerInv
<1> QED
  BY <1>1, <1>2, <1>3, <1>4, <1>5, <1>6

\* The timer interrupt.
LEMMA TimerKeeps ==
  ASSUME IInv, TimerExpires
  PROVE  IInv'
<1>1. timer'.on \in BOOLEAN /\ (timer'.on => timer.on)
  BY DEF TimerExpires, TimerOff, IInv, TypeInv
<1>2. TypeInv'
  BY <1>1 DEF TimerExpires, IInv, TypeInv
<1>3. ASSUME ~raced' PROVE OneAttaching' /\ Progress' /\ user
  BY <1>1, <1>3 DEF TimerExpires, IInv, TypeInv, TickerInv, OneAttaching, Progress, Attaching
<1> QED
  BY <1>2, <1>3 DEF TimerExpires, IInv, TickerInv

\* Two attach calls that do not overlap exclude each other, although no lock
\* protects the ticker: one is accepted, its task alone runs, and the interrupt
\* always finds the instance.
THEOREM AttachExclusive == Spec => []AttachIsExclusive
<1>1. ASSUME IInv, [Next]_vars PROVE IInv'
  <2>1. CASE UNCHANGED vars
    BY <1>1, <2>1, ElsewhereKeeps DEF vars, ticker, IInv, TypeInv
  <2>2. CASE Next
    <3>1. CASE Tick
      BY <1>1, <3>1, ElsewhereKeeps DEF Tick, ticker, IInv, TypeInv
    <3>2. CASE TimerExpires
      BY <1>1, <3>2, TimerKeeps
    <3>3. ASSUME NEW t \in Threads, ThreadStep(t) \/ AttachTest(t) PROVE IInv'
      BY <1>1, <2>2, <3>3, SleepingKeeps, AttachKeeps DEF ThreadStep, Next
    <3>4. ASSUME NEW t \in Threads, NEW us \in Durations,
                 SleepFor(t, us) \/ ReadUptime(t, us) \/ BusyWait(t, us)
          PROVE  IInv'
      BY <1>1, <3>4, SleepingKeeps
    <3> QED
      BY <2>2, <3>1, <3>2, <3>3, <3>4 DEF Next
  <2> QED
    BY <1>1, <2>1, <2>2
<1>2. IInv => AttachIsExclusive
  <2> SUFFICES ASSUME IInv, ~raced PROVE AttachIsExclusive
    BY DEF AttachIsExclusive
  <2>1. owners = {} \/ owners = {task}
    BY DEF IInv, TypeInv, TickerInv, Progress
  <2>2. Cardinality(owners) <= 1
    <3>1. Cardinality({}) = 0
      BY FS_EmptySet
    <3>2. Cardinality({task}) = 1
      BY FS_Singleton
    <3> QED
      BY <2>1, <3>1, <3>2
  <2>3. ASSUME NEW t \in ran PROVE t \in owners \/ pc[t] = "flag"
    BY <2>3 DEF IInv, TypeInv, TickerInv, Progress
  <2> QED
    BY <2>2, <2>3 DEF AttachIsExclusive, IInv, TickerInv
<1> QED
  BY InitIInv, <1>1, <1>2, PTL DEF Spec

-----------------------------------------------------------------------------
(***************************************************************************)
(* NoEarlyReturn.  Arithmetic first: every product has a lemma.            *)
(***************************************************************************)
\* Products keep the order.
LEMMA ProductOrder ==
  ASSUME NEW a \in Nat, NEW b \in Nat, NEW k \in Nat, a <= b
  PROVE  a * k \in Nat /\ b * k \in Nat /\ a * k <= b * k
  OBVIOUS

\* A product with a sum.
LEMMA ProductSum ==
  ASSUME NEW a \in Nat, NEW b \in Nat, NEW k \in Nat
  PROVE  (a + b) * k = a * k + b * k
  OBVIOUS

\* Integer division rounds down, by less than the divisor.
LEMMA DivFacts ==
  ASSUME NEW a \in Nat, NEW b \in Nat \ {0}
  PROVE  a \div b \in Nat /\ (a \div b) * b <= a /\ a < (a \div b) * b + b
  OBVIOUS

\* A conversion to ticks rounds up, and makes 0 of 0 only.
LEMMA CeilFacts ==
  ASSUME NEW a \in Nat, NEW b \in Nat \ {0}
  PROVE  Ceil(a, b) \in Nat /\ a <= Ceil(a, b) * b
<1>1. a + b - 1 \in Nat
  OBVIOUS
<1> DEFINE q == Ceil(a, b)
<1>2. q \in Nat /\ a + b - 1 < q * b + b
  BY <1>1, DivFacts DEF Ceil
<1>3. q * b \in Nat
  BY <1>2
<1> HIDE DEF q
<1>4. a <= q * b
  BY <1>2, <1>3
<1> QED
  BY <1>2, <1>4 DEF q

\* The length of a tick in cycles.
LEMMA TickLength == CyclesPerTick \in Nat \ {0}
  BY ScaleAssumption DEF CyclesPerTick

\* A number of ticks that covers us microseconds covers their cycles.
LEMMA TicksCover ==
  ASSUME NEW us \in Nat
  PROVE  /\ microseconds_to_ticks(us) \in Nat
         /\ us * CyclesPerUs \in Nat
         /\ microseconds_to_ticks(us) * CyclesPerTick \in Nat
         /\ us * CyclesPerUs <= microseconds_to_ticks(us) * CyclesPerTick
<1> DEFINE n == microseconds_to_ticks(us)
<1>1. n \in Nat /\ us <= n * UsPerTick
  BY CeilFacts, ScaleAssumption DEF microseconds_to_ticks
<1> HIDE DEF n
<1>2. n * UsPerTick \in Nat
  BY <1>1, ScaleAssumption
<1>3. us * CyclesPerUs \in Nat /\ us * CyclesPerUs <= (n * UsPerTick) * CyclesPerUs
  BY <1>1, <1>2, ProductOrder, ScaleAssumption
<1>4. (n * UsPerTick) * CyclesPerUs = n * CyclesPerTick
  BY <1>1, ScaleAssumption DEF CyclesPerTick
<1>5. n * CyclesPerTick \in Nat
  BY <1>1, TickLength
<1> QED
  BY <1>1, <1>3, <1>4, <1>5 DEF n

\* The cast of an int64_t to int32_t keeps what is below 2^31.
LEMMA CastKeeps ==
  ASSUME NEW n \in Nat, n < W32 \div 2 PROVE Int32(n) = n
<1> DEFINE h == W32 \div 2
<1>1. h \in Nat /\ W32 = h + h
  BY ScaleAssumption
<1> HIDE DEF h
<1>2. n < h
  BY DEF h
<1>3. (n + h) % W32 = n + h
  BY <1>1, <1>2, ScaleAssumption
<1> QED
  BY <1>1, <1>3 DEF Int32, h

-----------------------------------------------------------------------------
\* The clock is in the current tick and has not reached the next one.
LEMMA TickFacts ==
  ASSUME now \in Nat
  PROVE  /\ CurrentTick \in Nat
         /\ CurrentTick * CyclesPerTick <= now
         /\ now < CurrentTick * CyclesPerTick + CyclesPerTick
  BY TickLength, DivFacts DEF CurrentTick

\* The uptime of every build is a number of microseconds.
LEMMA UptimeIsNat == ASSUME now \in Nat PROVE get_uptime \in Nat
<1>1. CurrentTick * UsPerTick \in Nat
  BY TickFacts, ScaleAssumption
<1>2. now % W32 \in Nat
  BY ScaleAssumption
<1>3. (now % W32) \div CyclesPerUs \in Nat /\ now \div CyclesPerUs \in Nat
  BY <1>2, DivFacts, ScaleAssumption
<1> QED
  BY <1>1, <1>3 DEF get_uptime

\* A reading of the uptime is behind the clock by less than its resolution.
LEMMA UptimeIsRecent ==
  ASSUME now \in Nat, ~(build = "cycles32" /\ now >= W32)
  PROVE  now < get_uptime * CyclesPerUs + (IF build = "qemu" THEN CyclesPerTick ELSE CyclesPerUs)
<1>1. CASE build = "qemu"
  <2>1. CurrentTick \in Nat /\ now < CurrentTick * CyclesPerTick + CyclesPerTick
    BY TickFacts
  <2>2. (CurrentTick * UsPerTick) * CyclesPerUs = CurrentTick * CyclesPerTick
    BY <2>1, ScaleAssumption DEF CyclesPerTick
  <2> QED
    BY <1>1, <2>1, <2>2 DEF get_uptime
<1>2. CASE build # "qemu"
  <2>1. build = "cycles32" => now % W32 = now
    BY ScaleAssumption
  <2>2. get_uptime = now \div CyclesPerUs
    BY <1>2, <2>1 DEF get_uptime
  <2>3. now < (now \div CyclesPerUs) * CyclesPerUs + CyclesPerUs
    BY DivFacts, ScaleAssumption
  <2> QED
    BY <1>2, <2>2, <2>3
<1> QED
  BY <1>1, <1>2

Requests == [call : {"none", "sleep_for", "sleep_until", "busy_wait"}, from : Nat, us : Nat]

\* A shortfall is a number of cycles.
LEMMA ShortfallIsNat == \A a \in Requests : Shortfall(a) \in Nat \ {0}
<1>1. UsPerMs * CyclesPerUs \in Nat \ {0}
  BY ScaleAssumption
<1> QED
  BY <1>1, TickLength, ScaleAssumption DEF Shortfall

\* What has been granted stays granted.
LEMMA GrantedLater ==
  ASSUME NEW a \in Requests, NEW c \in Nat, NEW d \in Nat, c <= d, Granted(a, c)
  PROVE  Granted(a, d)
<1>1. Shortfall(a) \in Nat
  BY ShortfallIsNat
<1>2. a.from \in Nat /\ a.us \in Nat
  BY DEF Requests
<1>3. a.from + a.us * CyclesPerUs \in Nat
  BY <1>2, ScaleAssumption
<1> QED
  BY <1>1, <1>3 DEF Granted

\* Who asked for nothing has got it.
LEMMA NothingGranted == ASSUME NEW c \in Nat PROVE Granted(NoRequest, c) /\ NoRequest \in Requests
<1>1. 0 * CyclesPerUs = 0
  BY ScaleAssumption
<1> QED
  BY <1>1 DEF Granted, Shortfall, NoRequest, Requests

\* Where a thread is, what it asked for is covered by what it waits for: the tick
\* or the cycle at which it is made ready, or the time it has read.  A sleep of
\* less than a millisecond is covered already.
Covered(t) ==
  /\ pc[t] \in AttachPc \cup {"idle"} => asked[t] = NoRequest
  /\ pc[t] = "read" => Granted(asked[t], until[t] * CyclesPerUs)
  /\ pc[t] = "asleep" => Granted(asked[t], now) \/ Granted(asked[t], due[t] * CyclesPerTick)
  /\ pc[t] = "busy" => Granted(asked[t], due[t])
  /\ pc[t] = "back" => Granted(asked[t], now)

SleepInv ==
  /\ now \in Nat
  /\ pc \in [Threads -> AttachPc \cup {"idle", "read", "asleep", "busy", "back"}]
  /\ due \in [Threads -> Nat]
  /\ until \in [Threads -> Nat]
  /\ asked \in [Threads -> Requests]
  /\ \A t \in Threads : Covered(t)

\* A step of thread t leaves the others as they are.
LEMMA OthersCovered ==
  ASSUME SleepInv, NEW t \in Threads, UNCHANGED <<now, build>>,
         pc' \in [Threads -> AttachPc \cup {"idle", "read", "asleep", "busy", "back"}],
         due' \in [Threads -> Nat], until' \in [Threads -> Nat], asked' \in [Threads -> Requests],
         \A u \in Threads \ {t} : /\ pc'[u] = pc[u] /\ due'[u] = due[u]
                                  /\ until'[u] = until[u] /\ asked'[u] = asked[u],
         Covered(t)'
  PROVE  SleepInv'
<1>1. ASSUME NEW u \in Threads \ {t} PROVE Covered(u)'
  BY <1>1 DEF SleepInv, Covered, Granted, Unlimited, Shortfall
<1> QED
  BY <1>1 DEF SleepInv

\* sleep_for: the ticks it sleeps cover its whole milliseconds.
LEMMA SleepForKeeps ==
  ASSUME SleepInv, NEW t \in Threads, NEW us \in Nat, SleepFor(t, us) PROVE SleepInv'
<1> DEFINE ms == Milliseconds(us)
           n == SleepTicks(us)
           d == IF n = 0 THEN CurrentTick ELSE CurrentTick + n + 1
           a == Request("sleep_for", us)
           whole == (ms * UsPerMs) * CyclesPerUs
<1>1. /\ pc' = [pc EXCEPT ![t] = "asleep"] /\ due' = [due EXCEPT ![t] = d]
      /\ asked' = [asked EXCEPT ![t] = a] /\ UNCHANGED <<now, build, until>>
  BY DEF SleepFor, Asleep, setup
<1>2. now \in Nat
  BY DEF SleepInv
<1>3. ms \in Nat /\ us < ms * UsPerMs + UsPerMs
  BY DivFacts, ScaleAssumption DEF Milliseconds
<1>4. n \in Nat /\ (ms < W32 \div 2 => n = microseconds_to_ticks(ms * UsPerMs))
  <2>1. Int32(ms) \in Int
    BY <1>3, ScaleAssumption DEF Int32
  <2> DEFINE k == IF Int32(ms) > 0 THEN Int32(ms) ELSE 0
  <2>2. k \in Nat
    BY <2>1
  <2>3. k * UsPerMs \in Nat
    BY <2>2, ScaleAssumption
  <2>4. n = microseconds_to_ticks(k * UsPerMs)
    BY DEF SleepTicks, milliseconds_to_ticks
  <2>5. ms < W32 \div 2 => k = ms
    BY <1>3, CastKeeps
  <2> HIDE DEF k, n, ms
  <2>6. n \in Nat
    BY <2>3, <2>4, TicksCover
  <2> QED
    BY <2>4, <2>5, <2>6
<1>5. ms * UsPerMs \in Nat /\ (ms * UsPerMs <= us)
  BY <1>3, DivFacts, ScaleAssumption DEF Milliseconds
<1>6. a \in Requests /\ a.call = "sleep_for" /\ a.from = now /\ a.us = us
  BY <1>2 DEF Request, Requests
<1> HIDE DEF ms, n, a
<1>7. whole \in Nat
  BY <1>5, ScaleAssumption
<1>8. us * CyclesPerUs \in Nat /\ us * CyclesPerUs < whole + UsPerMs * CyclesPerUs
  <2>1. us + 1 <= ms * UsPerMs + UsPerMs
    BY <1>3, <1>5, ScaleAssumption
  <2>2. (us + 1) * CyclesPerUs <= (ms * UsPerMs + UsPerMs) * CyclesPerUs
    BY <1>5, <2>1, ProductOrder, ScaleAssumption
  <2>3. (us + 1) * CyclesPerUs = us * CyclesPerUs + CyclesPerUs
    BY ProductSum, ScaleAssumption
  <2>4. (ms * UsPerMs + UsPerMs) * CyclesPerUs = whole + UsPerMs * CyclesPerUs
    BY <1>5, ProductSum, ScaleAssumption
  <2>5. us * CyclesPerUs \in Nat /\ UsPerMs * CyclesPerUs \in Nat
    BY ScaleAssumption
  <2> HIDE DEF whole
  <2> QED
    BY <1>7, <2>2, <2>3, <2>4, <2>5, ScaleAssumption
<1>9. ASSUME NEW c \in Nat, now + whole <= c PROVE Granted(a, c)
  <2>1. Shortfall(a) = UsPerMs * CyclesPerUs /\ UsPerMs * CyclesPerUs \in Nat
    BY <1>6, ScaleAssumption DEF Shortfall
  <2> HIDE DEF whole
  <2> QED
    BY <1>2, <1>6, <1>7, <1>8, <1>9, <2>1 DEF Granted
<1>10. d \in Nat /\ d * CyclesPerTick \in Nat
  BY <1>2, <1>4, TickFacts, TickLength
<1>11. Granted(a, now) \/ Granted(a, d * CyclesPerTick)
  <2>1. CASE ms >= W32 \div 2
    <3>1. W32 \div 2 \in Nat
      BY ScaleAssumption
    <3>2. (W32 \div 2) * UsPerMs <= ms * UsPerMs /\ (W32 \div 2) * UsPerMs \in Nat
      BY <1>3, <2>1, <3>1, ProductOrder, ScaleAssumption
    <3>3. us >= (W32 \div 2) * UsPerMs
      BY <1>5, <3>2
    <3> QED
      BY <1>6, <3>3 DEF Granted, Unlimited
  <2>2. CASE ms < W32 \div 2 /\ n = 0
    <3>1. whole <= n * CyclesPerTick /\ n * CyclesPerTick = 0
      BY <1>4, <1>5, <2>2, TicksCover, TickLength
    <3> HIDE DEF whole
    <3> QED
      BY <1>2, <1>7, <1>9, <3>1
  <2>3. CASE ms < W32 \div 2 /\ n # 0
    <3>1. whole <= n * CyclesPerTick /\ n * CyclesPerTick \in Nat
      BY <1>4, <1>5, <2>3, TicksCover
    <3>2. CurrentTick \in Nat /\ now < CurrentTick * CyclesPerTick + CyclesPerTick
      BY <1>2, TickFacts
    <3>3. CurrentTick * CyclesPerTick \in Nat /\ CyclesPerTick \in Nat
      BY <3>2, TickLength
    <3>4. d = (CurrentTick + n) + 1
      BY <1>4, <2>3, <3>2
    <3>5. d * CyclesPerTick = (CurrentTick * CyclesPerTick + n * CyclesPerTick) + CyclesPerTick
      BY <1>4, <3>2, <3>3, <3>4, ProductSum
    <3> HIDE DEF d, whole
    <3>6. now + whole <= d * CyclesPerTick
      BY <1>2, <1>7, <3>1, <3>2, <3>3, <3>5
    <3> QED
      BY <1>9, <1>10, <3>6
  <2> QED
    BY <1>3, <1>4, <2>1, <2>2, <2>3, ScaleAssumption
<1> HIDE DEF d, whole
<1>12. /\ pc'[t] = "asleep" /\ due'[t] = d /\ asked'[t] = a
       /\ due' \in [Threads -> Nat] /\ asked' \in [Threads -> Requests]
  BY <1>1, <1>6, <1>10 DEF SleepInv
<1>13. Covered(t)'
  BY <1>1, <1>11, <1>12 DEF Covered, AttachPc, Granted, Unlimited, Shortfall
<1> QED
  BY <1>1, <1>12, <1>13, OthersCovered DEF SleepInv

\* sleep_until: whatever happened since the uptime was read, the tick at which
\* the thread is woken is not before the time it asked for.
LEMMA SleepUntilKeeps ==
  ASSUME SleepInv, NEW t \in Threads, SleepUntil(t) PROVE SleepInv'
<1> DEFINE k == microseconds_to_ticks(until[t])
           d == IF k > CurrentTick THEN k ELSE CurrentTick + 1
<1>1. /\ pc[t] = "read" /\ pc' = [pc EXCEPT ![t] = "asleep"] /\ due' = [due EXCEPT ![t] = d]
      /\ until' = [until EXCEPT ![t] = 0] /\ UNCHANGED <<now, build, asked>>
  BY DEF SleepUntil, Asleep, setup
<1>2. /\ until[t] \in Nat /\ asked[t] \in Requests /\ now \in Nat
      /\ Granted(asked[t], until[t] * CyclesPerUs)
  BY <1>1 DEF SleepInv, Covered
<1>3. k \in Nat /\ until[t] * CyclesPerUs \in Nat /\ until[t] * CyclesPerUs <= k * CyclesPerTick
  BY <1>2, TicksCover
<1> HIDE DEF k
<1>4. d \in Nat /\ k <= d
  BY <1>2, <1>3, TickFacts
<1> HIDE DEF d
<1>5. /\ k * CyclesPerTick \in Nat /\ d * CyclesPerTick \in Nat
      /\ k * CyclesPerTick <= d * CyclesPerTick
  BY <1>3, <1>4, ProductOrder, TickLength
<1>6. Granted(asked[t], d * CyclesPerTick)
  BY <1>2, <1>3, <1>5, GrantedLater
<1>7. Covered(t)'
  <2>1. pc'[t] = "asleep" /\ due'[t] = d /\ asked'[t] = asked[t]
    BY <1>1 DEF SleepInv
  <2> QED
    BY <1>1, <1>6, <2>1 DEF Covered, AttachPc, Granted, Unlimited, Shortfall
<1> QED
  BY <1>1, <1>4, <1>7, OthersCovered DEF SleepInv

\* The caller of sleep_until reads the uptime.
LEMMA ReadKeeps ==
  ASSUME SleepInv, NEW t \in Threads, NEW us \in Nat, ReadUptime(t, us) PROVE SleepInv'
<1> DEFINE v == get_uptime + us
           a == Request("sleep_until", us)
           r == IF build = "qemu" THEN CyclesPerTick ELSE CyclesPerUs
<1>1. /\ pc' = [pc EXCEPT ![t] = "read"] /\ until' = [until EXCEPT ![t] = v]
      /\ asked' = [asked EXCEPT ![t] = a] /\ UNCHANGED <<now, build, due>>
  BY DEF ReadUptime, setup
<1>2. get_uptime \in Nat /\ now \in Nat /\ v \in Nat
  BY UptimeIsNat DEF SleepInv
<1>3. v * CyclesPerUs = get_uptime * CyclesPerUs + us * CyclesPerUs
  BY <1>2, ProductSum, ScaleAssumption
<1>4. get_uptime * CyclesPerUs \in Nat /\ us * CyclesPerUs \in Nat
  BY <1>2, ScaleAssumption
<1>5. /\ a \in Requests /\ a.call = "sleep_until" /\ a.from = now /\ a.us = us
      /\ Shortfall(a) = r /\ r \in Nat
  BY <1>2, TickLength, ScaleAssumption DEF Request, Requests, Shortfall
<1> HIDE DEF v, a
<1>6. Granted(a, v * CyclesPerUs)
  <2>1. CASE build = "cycles32" /\ now >= W32
    BY <1>5, <2>1 DEF Granted, Unlimited
  <2>2. CASE ~(build = "cycles32" /\ now >= W32)
    <3>1. now < get_uptime * CyclesPerUs + r
      BY <1>2, <2>2, UptimeIsRecent
    <3> HIDE DEF r
    <3>2. now + us * CyclesPerUs < v * CyclesPerUs + r
      BY <1>2, <1>3, <1>4, <1>5, <3>1
    <3> QED
      BY <1>5, <3>2 DEF Granted
  <2> QED
    BY <2>1, <2>2
<1>7. /\ pc'[t] = "read" /\ until'[t] = v /\ asked'[t] = a
      /\ until' \in [Threads -> Nat] /\ asked' \in [Threads -> Requests]
  BY <1>1, <1>2, <1>5 DEF SleepInv
<1>8. Covered(t)'
  BY <1>1, <1>6, <1>7 DEF Covered, AttachPc, Granted, Unlimited, Shortfall
<1> QED
  BY <1>1, <1>7, <1>8, OthersCovered DEF SleepInv

\* busy_wait counts the cycles of its argument, as long as that fits.
LEMMA BusyKeeps ==
  ASSUME SleepInv, NEW t \in Threads, NEW us \in Nat, BusyWait(t, us) PROVE SleepInv'
<1> DEFINE d == now + (us % W32) * CyclesPerUs
           a == Request("busy_wait", us)
<1>1. /\ pc' = [pc EXCEPT ![t] = "busy"] /\ due' = [due EXCEPT ![t] = d]
      /\ asked' = [asked EXCEPT ![t] = a] /\ UNCHANGED <<now, build, until>>
  BY DEF BusyWait, setup
<1>2. us % W32 \in Nat /\ (us < W32 => us % W32 = us) /\ now \in Nat
  BY ScaleAssumption DEF SleepInv
<1>3. (us % W32) * CyclesPerUs \in Nat /\ us * CyclesPerUs \in Nat
  BY <1>2, ScaleAssumption
<1>4. d \in Nat /\ (us < W32 => d = now + us * CyclesPerUs)
  BY <1>2, <1>3
<1>5. /\ a \in Requests /\ a.call = "busy_wait" /\ a.from = now /\ a.us = us
      /\ Shortfall(a) = 1
  BY <1>2 DEF Request, Requests, Shortfall
<1> HIDE DEF d, a
<1>6. Granted(a, d)
  BY <1>2, <1>3, <1>4, <1>5, ScaleAssumption DEF Granted, Unlimited
<1>7. /\ pc'[t] = "busy" /\ due'[t] = d /\ asked'[t] = a
      /\ due' \in [Threads -> Nat] /\ asked' \in [Threads -> Requests]
  BY <1>1, <1>4, <1>5 DEF SleepInv
<1>8. Covered(t)'
  BY <1>1, <1>6, <1>7 DEF Covered, AttachPc, Granted, Unlimited, Shortfall
<1> QED
  BY <1>1, <1>7, <1>8, OthersCovered DEF SleepInv

\* A thread is made ready when the tick, or the cycle, has come.
LEMMA ComeBackKeeps ==
  ASSUME SleepInv, NEW t \in Threads, ComeBack(t) PROVE SleepInv'
<1>1. /\ pc' = [pc EXCEPT ![t] = "back"] /\ due' = [due EXCEPT ![t] = 0]
      /\ UNCHANGED <<now, build, until, asked>>
  BY DEF ComeBack, setup
<1>2. now \in Nat /\ due[t] \in Nat /\ asked[t] \in Requests
  BY DEF SleepInv
<1>3. Granted(asked[t], now)
  <2>1. CASE pc[t] = "asleep" /\ due[t] <= CurrentTick
    <3>1. CurrentTick \in Nat /\ CurrentTick * CyclesPerTick <= now
      BY <1>2, TickFacts
    <3>2. /\ due[t] * CyclesPerTick \in Nat /\ CurrentTick * CyclesPerTick \in Nat
          /\ due[t] * CyclesPerTick <= CurrentTick * CyclesPerTick
      BY <1>2, <2>1, <3>1, ProductOrder, TickLength
    <3>3. Granted(asked[t], now) \/ Granted(asked[t], due[t] * CyclesPerTick)
      BY <2>1 DEF SleepInv, Covered
    <3>4. due[t] * CyclesPerTick <= now
      BY <1>2, <3>1, <3>2
    <3> QED
      BY <1>2, <3>2, <3>3, <3>4, GrantedLater
  <2>2. CASE pc[t] = "busy" /\ due[t] <= now
    <3>1. Granted(asked[t], due[t])
      BY <2>2 DEF SleepInv, Covered
    <3> QED
      BY <1>2, <2>2, <3>1, GrantedLater
  <2> QED
    BY <2>1, <2>2 DEF ComeBack
<1>4. Covered(t)'
  <2>1. pc'[t] = "back" /\ asked'[t] = asked[t]
    BY <1>1 DEF SleepInv
  <2> QED
    BY <1>1, <1>3, <2>1 DEF Covered, AttachPc, Granted, Unlimited, Shortfall
<1> QED
  BY <1>1, <1>4, OthersCovered DEF SleepInv

\* attach() promises nothing about time.
LEMMA AttachCovered ==
  ASSUME SleepInv, NEW t \in Threads,
         \/ AttachTest(t) \/ AttachInit(t) \/ AttachUser(t) \/ AttachTask(t) \/ AttachFlag(t)
         \/ \E period \in Periods : AttachStart(t, period)
  PROVE  SleepInv'
<1>1. UNCHANGED <<now, build, sleeping>>
  BY DEF AttachTest, AttachInit, AttachUser, AttachTask, AttachFlag, AttachStart, setup
<1>2. PICK to \in AttachPc \cup {"back"} : pc' = [pc EXCEPT ![t] = to]
  BY DEF AttachTest, AttachInit, AttachUser, AttachTask, AttachFlag, AttachStart, AttachPc
<1>3. pc[t] \in AttachPc \cup {"idle"}
  BY DEF AttachTest, AttachInit, AttachUser, AttachTask, AttachFlag, AttachStart, AttachPc
<1>4. asked'[t] = NoRequest /\ NoRequest' = NoRequest /\ now \in Nat
  BY <1>1, <1>3 DEF SleepInv, Covered, sleeping, NoRequest
<1>5. Covered(t)'
  <2>1. pc'[t] \in AttachPc \cup {"back"}
    BY <1>2 DEF SleepInv
  <2>2. Granted(NoRequest, now)
    BY <1>4, NothingGranted
  <2> QED
    BY <1>1, <1>4, <2>1, <2>2 DEF Covered, AttachPc, Granted, Unlimited, Shortfall
<1> QED
  BY <1>1, <1>2, <1>5, OthersCovered DEF SleepInv, sleeping

\* On any clock and with any tick length: a thread comes back from sleep_for less
\* than a millisecond before the time it asked for, from sleep_until less than
\* the resolution of the uptime before it, and from busy_wait not before it, where
\* Unlimited does not except the call: durations of 2^31 ms and more, of 2^32 us
\* and more, and an uptime that was read after a 32-bit counter had wrapped.
THEOREM SleepsLongEnough == Spec => []NoEarlyReturn
<1>1. Init => SleepInv
  BY NothingGranted DEF Init, SleepInv, Covered, AttachPc
<1>2. ASSUME SleepInv, [Next]_vars PROVE SleepInv'
  <2>1. CASE UNCHANGED vars
    BY <1>2, <2>1 DEF vars, setup, sleeping, SleepInv, Covered, Granted, Unlimited, Shortfall
  <2>2. CASE Tick
    <3>1. now' = now + 1 /\ UNCHANGED <<pc, build, due, until, asked>> /\ now \in Nat
      BY <1>2, <2>2 DEF Tick, setup, sleeping, SleepInv
    <3>2. ASSUME NEW t \in Threads PROVE Covered(t)'
      <4>1. Covered(t) /\ asked[t] \in Requests
        BY <1>2 DEF SleepInv
      <4>2. Granted(asked[t], now) => Granted(asked[t], now + 1)
        BY <3>1, <4>1, GrantedLater
      <4>3. /\ Granted(asked[t], now + 1) => Granted(asked[t], now)'
            /\ Granted(asked[t], until[t] * CyclesPerUs) =>
                 Granted(asked[t], until[t] * CyclesPerUs)'
            /\ Granted(asked[t], due[t] * CyclesPerTick) =>
                 Granted(asked[t], due[t] * CyclesPerTick)'
            /\ Granted(asked[t], due[t]) => Granted(asked[t], due[t])'
            /\ asked[t] = NoRequest => asked'[t] = NoRequest'
        BY <3>1 DEF Granted, Unlimited, Shortfall, NoRequest, CyclesPerTick
      <4> QED
        BY <3>1, <4>1, <4>2, <4>3 DEF Covered
    <3> QED
      BY <1>2, <3>1, <3>2 DEF SleepInv
  <2>3. CASE TimerExpires
    BY <1>2, <2>3 DEF TimerExpires, setup, sleeping, SleepInv, Covered, Granted, Unlimited,
       Shortfall
  <2>4. ASSUME NEW t \in Threads, Return(t) PROVE SleepInv'
    <3>1. /\ pc' = [pc EXCEPT ![t] = "idle"] /\ asked' = [asked EXCEPT ![t] = NoRequest]
          /\ UNCHANGED <<now, build, due, until>> /\ NoRequest \in Requests
      BY <1>2, <2>4, NothingGranted DEF Return, setup, SleepInv
    <3>2. Covered(t)'
      BY <1>2, <3>1 DEF Covered, SleepInv, AttachPc, NoRequest
    <3> QED
      BY <1>2, <3>1, <3>2, OthersCovered DEF SleepInv
  <2>5. ASSUME NEW t \in Threads, ThreadStep(t) \/ AttachTest(t) PROVE SleepInv'
    BY <1>2, <2>4, <2>5, SleepUntilKeeps, ComeBackKeeps, AttachCovered DEF ThreadStep
  <2>6. ASSUME NEW t \in Threads, NEW us \in Durations,
               SleepFor(t, us) \/ ReadUptime(t, us) \/ BusyWait(t, us)
        PROVE  SleepInv'
    BY <1>2, <2>6, SleepForKeeps, ReadKeeps, BusyKeeps, ArgumentAssumption
  <2>7. CASE Next
    BY <2>2, <2>3, <2>5, <2>6, <2>7 DEF Next
  <2> QED
    BY <1>2, <2>1, <2>7
<1>3. SleepInv => NoEarlyReturn
  BY DEF SleepInv, Covered, NoEarlyReturn
<1> QED
  BY <1>1, <1>2, <1>3, PTL DEF Spec

=============================================================================
