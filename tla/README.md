# A TLA+ model of zpp_lib

zpp_lib wraps the Zephyr RTOS (v4.4.0, `manifest-repo/west.yml`) in C++ classes:
threads, mutexes, semaphores, events, barriers, message queues, work queues,
tickers, interrupt inputs, digital outputs and a display. This directory holds
TLA+ modules of the classes that have concurrent behaviour, TLC runs of small
instances, and TLAPS proofs for instances of every size.

The configuration modelled is the one the library's tests build on hardware:
no `CONFIG_USERSPACE` (that variant does not compile at this commit:
`event.cpp:53` declares a member named `ZPP_ASSERT`), assertions enabled. A
failed `ZPP_ASSERT` halts the system; undefined behaviour can do anything. Both
set the variable `fault` and end the behaviour, and properties say whether it
can come to that.

## The system

| Component | State | Operations | Hard part | Correct means |
|---|---|---|---|---|
| `Thread` | `_tid`, `_mutex`, `_event`; static pool of stacks and `k_thread`s, static `uint8_t s_thread_instance_count` | constructor, `start`, `wait_started`, `join`, destructor, `s_thunk` | the counter is shared by all objects and guarded by the mutex of one; `_tid` is read again after the unlock | no stack is used twice, join waits for its own thread, no thread outlives its object |
| `Barrier` | `_count`, `_total`, mutex, semaphore, static `_start_time` | `wait` | release and acquire race; the time is read without the lock | nobody passes early, everybody passes, all get one time |
| `InterruptIn`, `CallbackRegister`, `RegistrationToken` | map of callbacks, map of records, id counter, the driver's list | `add_callback`, token move/destroy/reset, `~InterruptIn`, the interrupt | the interrupt comes between any two steps; object and token lifetimes cross | a press runs the callbacks whose tokens exist, and touches nothing that is dead |
| `Event` | the flags of a `k_event` | `set` (thread, ISR), `wait_any`, `try_wait_any_for` | wait and clear are two kernel calls; a thread's `set` replaces all flags | no invented flag, none lost but in two known ways, no waiter left blocked |
| `WorkQueue`, `Work` | `_is_started`, `_event`, the `k_work_q`, `_args` | `run`, `stop`, `wait_started`, `call`, `set_params` | the start event precedes the start of the kernel queue; `stop` drains while works arrive | accepted works run with their parameters before `stop` returns |
| `Mutex`, `Semaphore` | kernel objects | lock, unlock, try_lock(_for); acquire, try_acquire, release | mapping of results; limit of the semaphore | mutual exclusion; no lost token |
| `MessageQueue` | ring buffer | `try_put_for`, `try_get_for` | timeouts at the limits | what `try_put_for` and `try_get_for` report stays true |
| `Ticker` | `_isAttached`, `_task`, timer | `attach` | attach against other calls and the timer interrupt, without a lock | one task attached, whole when it runs |
| `Time`, `Clock`, `ThisThread` | none | uptime, sleeps, conversions | units, widths, a counter that wraps, preemption between reading the uptime and sleeping | nobody wakes earlier than truncation and resolution explain, everybody wakes |
| `Display` | geometry, line buffer and its heap, fill functions, background and its cached value, font | `initialize`, `fill_*`, `draw_*`, `set_*` | 16- and 32-bit unsigned arithmetic; one line buffer for all callers | writes inside buffer and screen, the pixels that were asked for |
| `DigitalOut`, logging, assertions, results, scripts | little or none | I/O, formatting | | |

They interact by calls: `Thread` owns a `Mutex` and an `Event`; `Barrier` owns a
`Mutex` and a `Semaphore` and reads `Time`; `WorkQueue` owns an `Event` and
possibly a `Thread` that calls `run`; `InterruptIn` is a `CallbackRegister` whose
tokens call back into it, and the gpio driver calls it from the interrupt; `Ticker`
is called by the timer interrupt and converts with `Clock`; `ThisThread` sleeps until
times that callers compute from `Time`.

## Modules

| Module | Models | Notes |
|---|---|---|
| `Thread` | `thread.cpp`, with the mutex and event it owns | one action per kernel call, lock operation, load or store of shared data |
| `Barrier` | `barrier.cpp`, with `Mutex` and `Semaphore` | `BarrierAbs` is what it promises: it opens at the last arrival, then all leave with one time |
| `InterruptIn` | `interrupt_in.cpp`, `callback_register.cpp`, `registration_token.cpp` | one application thread, interrupted at any step |
| `Event` | `event.cpp` | set from thread and ISR, wait and clear as two steps |
| `WorkQueue` | `work_queue.hpp`, `work.hpp` | over the flags of the kernel's queue |
| `Sync` | `mutex.cpp`, `semaphore.cpp`, `message_queue.hpp`, `zephyr_result.hpp` | one object of each, every kind of timeout, and the result of each call |
| `Display` | `display.cpp`, `display.hpp` | a buffer fill and a `display_write` are separate steps |
| `Timing` | `ticker.hpp`, `this_thread.cpp`, `time.cpp`, `clock.hpp` | one clock in cycles, from which ticks and the uptime follow |
| `MC*` | | symmetry sets and arguments |
| `*Proofs` | | theorems about the module of that name |

`PROJECT.json` gives, under `map`, the lines every definition stands for.

**Thread.** `tid`, `mutex`, `flag`, `alive` are the members of each object;
`count` is the static counter; `wpc`/`wobj` are the kernel thread in each pool
slot and the object it runs for. `count++` (thread.cpp:197) and `count--` (272)
are a load and a store each. A slot is taken at the index `count` had when
`start` was in `StartCreate`. `ThreadDies` is the kernel's: only when it has
happened is the stack out of use and a joiner made ready. One load of the counter
serves the two arguments of `k_thread_create` (158, 160; the size in 163 is a
constant): nothing in between forces another. A build that loads it for each could in addition give a thread
the stack of one slot and the `k_thread` of another. Two histories say which races have
happened: `raced`, the objects whose `_tid` a join has reset while another join
was past its test of it, and `torn`, an update of the counter that overwrote
another.

**Barrier.** One barrier in full; other barriers of the program appear as
`OtherBarrierOpens`, which writes the one thing they share, the static
`_start_time`. `_count` wraps at `Modulus` (2^32 in the code). The SystemView mark
and the callback of test builds (barrier.cpp:71-79) are left out. `Barrier` and
`Thread` embed the mutex and the semaphore they own in the form they use them;
`Sync` has the objects in full.

**InterruptIn.** The records shared by a token and a register are known by owner
and id. An insertion into or erasure from a `std::map` is a begin and an end
step, and an interrupt in between that reads the same map is undefined
behaviour. `Take` is the assignment of a token after its `reset`.

**Event.** `KEventWait`, `Timeout` and `KEventClear` are the kernel calls of
`wait_any` and `try_wait_any_for`. The histories do not follow the kernel's flags
but the callers: `owed` is what somebody has set and no wait has taken yet;
`late` are the flags that were set while a wait for them stood between its two
kernel calls; `replaced` are those a thread's `set` of another flag has dropped;
`avail` is what was set during a call. Flags are lost in the run, in both of
these ways; `NoLostFlag` says that there is no third.
`Thread` and `WorkQueue` use one flag and no timeout; they embed that as one
Boolean per event with the same wait and clear steps.

**WorkQueue.** The kernel's part (FIFO, flags started/drain/plugged/stop, which
submissions are refused, when a drain or a stop returns) is marked external in
the map. `call` is made at any time: of a queue that is not started it asserts
(work_queue.hpp:117). The constructor that makes its own thread returns when that
thread has started, which is before `run` is entered (61-67): it leaves behind
a queue whose runner has not called `run` yet, and a `call` right behind it can
assert. `unready` remembers the calls that were made of such a queue or overlap a
`stop`. `stop_lost` is a `stop()` whose wait the initialization of the queue has
forgotten.

**Sync.** A call is a `Call` step, a step of the kernel (marked external in the
map) that serves, refuses or blocks it, possibly a step of another thread or of
the timeout that ends the wait, and `Return`, where the wrapper turns the
kernel's result into true, false or an error. `Unlock` and `Release` do not wait
and are one step. The histories are what threads were told: `held` (how often
each has the mutex), `granted` (who was given a token), `sent`, `refused` and
`got` (what became of each message). That waiters are served and messages come in order
is the kernel's doing, and no property is spent on it.
`release()` at the limit drops the token and returns ok; `semaphore.hpp` still
speaks of an `osErrorResource` that nothing returns.

**Display.** A pixel stands for its three or four bytes: an entry of the colour
table of a format, an element of an icon, or what the heap left there. Positions
and sizes keep their widths (`W16`, `W32` scaled down), `zpp_lib::min` with the
narrowing of its second argument. A call is a sequence of steps: it fills the
buffer (once for a rectangle, per line for icons and characters) and hands it to
the driver line by line, and other clients step in between. Errors of
`display_write` are logged by the code and change nothing; `frame_incomplete` is
a hint to the driver and is left out. Histories in `shown`: `want`, what the
caller asked for in unbounded arithmetic, and whether the properties say anything
about it (`judged`); `done`, what was written; `columns`, the width of an aligned
text; `mixed`, another call was under way; `stale`, a text was begun with a
cached background of another format; `wrong`, a pixel is not that of `px`, which
is what the line should show. What the properties leave out, and the model
shows:

- column 0 is never used by texts: `draw_string_at` moves it to 1, so a text
  exactly as wide as the screen loses its last character
  (`AlignedTextWhole` is about narrower ones);
- `get_string_width` passes a plain `char`, the drawing loop an `unsigned char`:
  where `char` is signed, texts with bytes above 127 are aligned by a wrong width,
  and the text `<<97, 233>>` of the run, right-aligned, loses its last character
  (`judged` leaves such texts out, see `Alignable`);
- a rectangle that begins right of the screen is drawn in its last column, and a
  width of 2^16 or more is taken modulo 2^16 (`judged` again; `WritesFit` holds
  for them too);
- a background colour set before `initialize` keeps the value of RGB 888, and one
  that was never set the value 0, which is not the entry for that colour on an ARGB
  panel (display.cpp:162, display.hpp:164): `fresh` is false then, and texts are
  drawn on the wrong background (`stale`, exempt in `OwnPixels`);
- "Synchronization level: Interrupt safe" (`display.hpp:46`) does not extend to
  the line buffer: `OwnPixels` is about calls that no other call overlaps.

`initialize` is called when nobody draws (`MayInitialize`). Characters that the
font does not have are skipped, as in the code.

**Timing.** `now` counts cycles; a tick is `CyclesPerTick` of them, the uptime is
derived as in each of the three builds of `get_uptime`. The three overloads of
`sleep_for` differ in the unit of the argument only, and so do those of
`sleep_until`; arguments are in microseconds. A caller of `sleep_until` reads the
uptime in one step and calls in a later one. The history `asked` keeps the time
that was asked for as the caller means it, in cycles and without a width.
`NoEarlyReturn` compares it with the time of the return and allows for
`Shortfall`: `sleep_for` drops what is below a whole millisecond, so
`sleep_for(500us)` returns at once, and `sleep_until` counts from an uptime of
limited resolution. Beyond `Unlimited` (2^31 ms for `sleep_for`, 2^32 us for
`busy_wait`, a 32-bit cycle counter that has wrapped) calls do return much
earlier, and nothing is said. `attach` is one step per statement. When two
calls overlap (`raced`) both may return ok, a running timer may be
initialized again, and the interrupt may find no instance: the class has no
lock and its header promises none.

## Usage assumptions

Some properties hold only for programs that use a class in a certain way. Such a
condition is a constant, and the guards that read it are the application's, not
the library's.

| Constant | Meaning | Without it |
|---|---|---|
| `Thread!SingleJoiner` | one client at a time joins an object; for liveness only (`ThreadLiveness`) | the second joiner may read a null `_tid` (thread.cpp:217), no earlier than `JoinNotNull` says |
| `Thread!NestedLifetimes` | threads end in the reverse order of their start, and none is started while another starts or ends; for `StackExclusive` and liveness | runs `ThreadStackReuse` and `ThreadJoinOther`; a lost update of the counter, which can make the pool look full (`PoolFullIsReal`) |
| `Barrier!OneRound` | `wait` is called `Total` times | a thread that comes back takes the token of one that has not left; `_count` is never set back, so one caller too many makes it wrap, and the barrier opens again only after 2^32 arrivals |
| `Barrier!OtherBarriers` (FALSE) | other barriers open only before this one | run `BarrierTwo` |
| `WorkQueue!OneRunner` | `run` is not entered by two threads at once | both pass the test of `_is_started` and the kernel asserts |
| `WorkQueue!OneStopper` | one `stop` at a time | the second finds the queue stopped under it: assertion or a wait without end |
| `WorkQueue!ParamsExclusive` | `set_params` is not called together with `call` of the same work | the check of `k_work_is_pending` is stale when the assignment is made |

A consequence of `wait_any` clearing the flag is not an error of the model: a
second `wait_started()` for one start blocks for ever.

## Runs

| Run | Question | Bounds |
|---|---|---|
| `ThreadLifecycle` | pool limit, joins, destructors and threads in any order of calls | 2 objects, 2 clients, pool of 2: two joins of one object, two starts at once, a full pool; 5.0 million states |
| `ThreadLiveness` | no slot used twice; join, destructor and blocked `wait_started` end | as above, nested, one joiner, strong fairness |
| `BarrierRound` | one round: safety, refinement of `BarrierAbs`, everybody gets out | 4 threads, barrier of 3: one of them finds no place; clock 0..2; another barrier opens before |
| `InterruptTokens` | lifetimes and presses | 2 instances on one pin, 3 tokens, 3 ids per instance: tokens are moved over one another and across instances |
| `EventFlags` | flags around wait and clear | 3 threads, 2 flags, every mask, with and without a timeout |
| `WorkQueueStop` | submit, drain, stop, run again | 2 works, 2 parameter values, 2 runs, 2 clients that call at any time |
| `DisplayDraw` | bounds, pixels, alignment | 2 clients, a panel of 12 x 3 in four variants of format, orientation and `char`, heap for one buffer, rectangles inside, across the edge and with wrapping coordinates, one icon, two texts, a font with a one- and a two-byte character; 2^16 scaled to 64, 2^32 to 1024 |
| `TimingSleep` | sleeping, waking, attaching | 2 threads that attach, or one that sleeps and attaches; 36 cycles, 4 to a tick, 6 to a millisecond, counter of 8: it wraps four times; durations of 2, 7 and 12 us: below a millisecond, below and at the limits of the narrow types |
| `SyncResults` | results, holders of the mutex, messages, assertions | 3 threads, semaphore of 1, queue of 2, 3 messages, 2 nested locks: every object is contended by two and a third intervenes |
| `ThreadStackReuse` | violation: the stack of a running thread is reused | 1 client, 2 objects |
| `ThreadJoinOther` | violation: join waits for the thread of another object | 1 client, 2 objects |
| `BarrierTwo` | violation: two threads get different times | 2 threads |

The passing runs are exhaustive. Two actors are enough for every race between two calls; the
third object, token or thread is there so that a resource is contended by
somebody who is not part of the race. `CHECK_DEADLOCK FALSE` is set throughout:
a program may stop calling the library, and a fault ends a behaviour.

What the violations show:

- `ThreadStackReuse`: the thread of the first object (counter 1) has ended its task
  and stored the counter 0 (thread.cpp:272), and is not dead yet, when `start` of
  the second object, past its test of `_tid`, passes the assertion and takes slot
  0 again. Threads that end in another order than the reverse one lead to the
  same. `thread.hpp:116` says the counter is "used for accessing the
  corresponding statically allocated stack".
- `ThreadJoinOther`: the thread of the first object ends and dies while `start` of
  the second is under way; the second thread takes slot 0, and `join` of the
  first object waits for it. `thread.hpp:91` says "Wait for thread to terminate".
- `BarrierTwo`: `barrier.hpp:50` promises "all threads get the same synchronized
  time"; `_start_time` is static and read after the unlock.

Others are stated the other way round, as what the fault is limited to:

- `OnlyTryLockAsserts`, of run `SyncResults`: `k_mutex_lock` with `K_NO_WAIT`
  returns `-EBUSY`, and `try_lock_for` takes only `-EAGAIN` for a timeout, so
  `try_lock` of a mutex that another thread has fails an assertion.
  `mutex.hpp:91` promises "true if the mutex was acquired, false otherwise".
- `PressRunsTokens`, of run `InterruptTokens`, is about presses that do not find
  a map in the middle of a change (`fault` "changing_map"). The class is
  documented "Interrupt safe" (`interrupt_in.hpp:55`) and changes its map without
  masking the interrupt. Nor may a callback drop its own token: the loop of
  `execute_callbacks` stands on the element that is erased; the callbacks of the
  model return at once.
- `OnlyOutlivedDangles`, of run `InterruptTokens`: freed records are read only
  through tokens that outlive their instance. That these are read at all is
  against the intention of `~CallbackRegister`, whose loop should "Invalidate all
  outstanding tokens." (`callback_register.cpp:35`) but finds none, because
  `unregister_all_callbacks` has freed the records before.

- `PoolFullIsReal`, of run `ThreadLifecycle`: "Too many threads created" is false
  only after a lost update of the counter, which is guarded by the mutex of one
  object (`torn`).
- `JoinNotNull` and `NoOrphanThread`, of run `ThreadLifecycle`: a null thread is
  joined, or a thread forgotten, only after two overlapping joins of one object
  (`raced`).
- `NoLostFlag`, of run `EventFlags`: `event.hpp:72` knows no loss of a flag; there
  are two.
- `OwnPixels`, of run `DisplayDraw`, and `NoEarlyReturn`, of run `TimingSleep`: see
  above for `mixed` and `stale`, `Shortfall` and `Unlimited`.

Every property of a passing run has a mutant in `PROJECT.json`: a wrong form of
one definition (placed just before it in the module) under which TLC finds the
property violated.

## Fairness

Zephyr runs every ready thread eventually when, as here, the application does
not starve it with higher priorities, and its mutexes have FIFO wait queues
within a priority. `Thread` and `Barrier` poll for a mutex in one step (`Lock` is
enabled when it is free), so the fair hand-over of a mutex is strong fairness of
the thread's steps. `Event` and `WorkQueue` have no mutex and need weak fairness
only; an armed timeout expires. In `Timing` time passes, the timer interrupt is
served, and a thread that is ready steps (weak fairness); `EndOfTime` bounds the
clock, and a call is made only when it can end before (`InTime`). Tasks and
handlers are assumed to return; nothing is assumed about clients calling anything, or about anybody setting a flag.

## Proofs

All for arbitrary finite or infinite sets of objects, clients, threads, tokens
and flags, and any bounds that satisfy the named ASSUMEs of the modules.

- `ThreadProofs!TypeCorrect`: `TypeOK`, with `CallInv` (a client in a call has an
  object). No usage assumption; the counter stays a byte because both stores
  are modulo 256.
- `ThreadProofs!SafeJoin`: `JoinNotNull` and `NoOrphanThread`. No usage
  assumption. The invariant `SInv` adds who owns each mutex (`LockInv`), that an
  object in use exists (`UseInv`), that a start in progress sees its own created
  thread (`StartInv`), and what a join knows after the unlock (`JoinInv`): as long
  as no other join of the object has ended since, `_tid` is what it was.
- `ThreadProofs!HonestCounter`: `PoolFullIsReal`. No usage assumption.
  `CounterInv` says that the counter is the number of threads that were counted
  and not yet discounted, unless an update was lost.
- `ThreadProofs!SafePool`, from `NestedLifetimes`: `StackExclusive`. `PoolInv` says
  that the slots below the counter are in use and those above are dead, that one
  start is under way at most, and what its registers hold; without it the stored
  count says nothing about the slots.
- `BarrierProofs!BarrierCorrect`, from `OneRound` and no other barrier opening
  after this one:
  `WaitsForAll` and `SameTime`. The invariant counts: calls = arrived + those
  still before the decrement, so `_count` never wraps and tokens exist only
  after the last arrival.
- `BarrierProofs!BarrierRefinement`: every step maps to a step of `BarrierAbs` or
  a stutter, under the same two assumptions.
- `InterruptInProofs!InterruptSafe` and `PressCorrect`: no usage assumption. The
  invariant says that a record has one token (`TokenInv`), that the callbacks are
  those of the tokens except for the one in work (`CallbackInv`), and that an
  instance is in the driver's list exactly when it has callbacks.
- `EventProofs!EventSafe`: `SetUnblocks`, `NoLostFlag`, `NoSpuriousReturn`. The
  invariant adds that what a wait is about to clear is not owed any more, or was
  set late or dropped (`ClearedIsTaken`), and that whatever is set now was set during every
  call under way (`AvailCovers`).

- `SyncProofs!SyncSafe` and `ResultsAreTrue`: `HoldersAgree`, `PutsAreKept`,
  `OnlyTryLockAsserts`, and `ReportsEffect`. No usage assumption. The invariant
  `SInv` adds the phases of a call (`CallInv`: who waits had a timeout to wait
  for, who was refused had none), the one lock by which threads and kernel may
  differ while a result is on its way (`LockInv`), that every put has a message
  of its own, which is there from the moment it is served (`PutInv`), and where an
  assertion can fail (`FaultInv`).

- `DisplayProofs!WritesAlwaysFit` and `ReadyStaysUsable`: `WritesFit` and
  `ReadyIsUsable`, for every resolution below 2^16, every argument of 32 bits,
  every font and heap. The invariant says that a known panel has pixels and the
  buffer, if there is one, is as long as a line (`LcdOK`, `BufOK`); that the area
  of a call under way lies on the screen and its columns in the buffer (`CallOK`,
  from `ClipFacts`: the cut width never passes the cut column, although both are
  narrowed); and that status ok goes with a buffer, fill functions and a known
  format (`ReadyOK`). Widths of texts are sums over sequences, beyond the
  prover: that they are numbers of 16 bits is the assumption
  `StringWidthAssumption`, which TLC evaluates.
- `DisplayProofs!PixelsAreOwn`: `OwnPixels`, with its exemptions for `mixed` calls
  and `stale` texts. `PixelInv` says that a call which
  is not `mixed` is the only one under way, so that the columns it has put into
  the line buffer are there when it writes them (`Held`); that the source of an
  icon stands at the line that is drawn next; and that the cached background
  value is that of the format in use when it is `fresh` (`FreshOK`), as it is
  during every text that is not `stale`.
- `DisplayProofs!CallsDrawAsked` and `AlignedTextsWhole`: `DrawsWhatWasAsked` and
  `AlignedTextWhole`, for the calls that are `judged`: they begin left of the right
  edge, have less than 2^16 columns and lines and do not reach line 2^32; aligned
  texts are `Alignable`, which leaves out bytes above 127 where `char` is signed and
  screens of 2^15 columns. `DoneInv` is a balance: at every step of a call, what was
  asked for is what has been shown together with what is still to be drawn
  (`ToDraw`: the lines left of an area, the rest of a character and of the text
  behind it). Below it are lemmas that the clipped area is the part of the box on
  the screen (`AreaIsBox`), that boxes split by columns and by lines, that the
  loop over the characters takes the longest part of a text that fits
  (`FitEnd`, `FitStep`), and that alignment in unsigned arithmetic, with what
  `draw_string_at` makes of a negative column, is alignment (`AlignedIs`). The
  proof showed that an earlier form of `judged` claimed too much: a line number
  whose pixel line passes 2^32, a text of 2^16 columns or a screen of 2^15
  columns is now left out by `Alignable`.

  The last three theorems have a hypothesis each about the font: that the bit
  which `display_char` computes is the pixel of the glyph (`GlyphsAsLaidOut`),
  and that widths of texts add up character by character (`WidthsAddUp`). Both
  are about folds over sequences, which the prover cannot compute; TLC evaluates
  them for the font of the run (`MCFontAssumption`).
- `TimingProofs!AttachExclusive`: `AttachIsExclusive`. The invariant follows the
  one thread that is inside `attach` (`OneAttaching`): how far it has come is how
  much of the ticker is set (`Progress`).
- `TimingProofs!SleepsLongEnough`: `NoEarlyReturn`, for every clock rate, tick
  length and duration below the limits of `Unlimited`. `SleepInv` says of each
  thread that what it asked for is covered, up to the `Shortfall`, by what it
  waits for (`Covered`): the uptime it has read, the tick at which it
  is woken, the cycle at which it stops counting. The arithmetic is in lemmas
  about rounding (`CeilFacts`, `TicksCover`: a number of ticks rounded up, plus
  the one under way, lasts at least the time; `CastKeeps`: what a narrow type
  keeps).
- `WorkQueueProofs!SentParams`, from `ParamsExclusive`: `ParamsAsSent`. The
  invariant adds that the queue holds a work once and holds exactly the works
  that are owed (`QueueInv`), and that a work whose parameters are being
  assigned is neither queued nor in another client's `call` (`ParamsInv`).
- `WorkQueueProofs!StopDrains`, `RunningStarted`, `RefusedAround` and
  `KernelNeverRefuses`, from `OneRunner` and `OneStopper`: `StoppedIsDrained`,
  `RunningIsStarted`, `RefusedOnlyAround`, and that no assertion on
  `k_work_queue_run` or `k_work_queue_stop` fails. None of them is inductive:
  `LifeInv` relates the place of the one thread in `run` (`RunnerInv`), the place
  of the one thread in `stop` (`StopInv`) and the flags of the kernel's queue
  (`FlagInv`); `StartedInv` says who keeps `_is_started` set, and `CallInv` what a
  `call` that is not `unready` may rely on.

Every safety property of a passing run is a theorem. Only model-checked are the
liveness properties (`JoinReturns`, `PendedWaiterReleased`, `WaitReturns`,
`WaitEnds`, `AcceptedRuns`, `StopReturns`, `SleepEnds`, `AttachedRuns`): fairness
and `ENABLED` are out of the prover's reach. So are folds, hence the two
hypotheses about the font and `StringWidthAssumption`.

## Not modelled, and the plan

Next, in order:

1. A queue as an abstract channel that `Sync` implements, shown as a refinement.
2. In `InterruptIn`, callbacks that drop tokens, and two application threads; in
   `WorkQueue`, works that submit works.

Left out for good: `DigitalOut` (one driver call per operation, no state of its
own), `get_priority` and `set_priority` (a number passed to the scheduler),
`InterruptIn::read` and the emulated `write` of test builds, the table of error
codes, logging and statistics (`utils.cpp`), user mode (`syscalls/`, the object
pools) because that configuration does not compile, build files and scripts.
