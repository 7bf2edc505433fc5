-------------------------------- MODULE Event --------------------------------
(***************************************************************************)
(* zpp_lib::Event (zpp_rtos/event.cpp, zpp_include/event.hpp) without      *)
(* CONFIG_USERSPACE: the flags of one k_event, set by threads and by       *)
(* interrupts, waited for by threads.                                      *)
(*                                                                         *)
(* k_event_wait and k_event_clear are two kernel calls: anything may       *)
(* happen between the moment a wait is satisfied, or gives up, and the     *)
(* moment its flags are cleared.                                           *)
(***************************************************************************)
EXTENDS Naturals

CONSTANTS
  Flags,       \* the flags in use
  Threads      \* the threads that wait

VARIABLES
  flags,   \* the flags that are set in _event
  pc,      \* where each thread is in wait_any or try_wait_any_for
  mask,    \* events_flags of that call
  timed,   \* the threads whose call is try_wait_any_for
  woken,   \* the threads for which k_event_wait has returned a flag
  owed,      \* history: flags that somebody has set and no wait has taken since
  late,      \* history: owed flags set while a wait for them was about to clear
  replaced,  \* history: owed flags behind which a thread has set another flag
  avail      \* history: the flags of a call that were set at some time during it

callVars == <<pc, mask, timed>>
debtVars == <<owed, late, replaced>>
vars == <<flags, callVars, woken, debtVars, avail>>

Masks == (SUBSET Flags) \ {{}}

TypeOK ==
  /\ flags \subseteq Flags
  /\ pc \in [Threads -> {"idle", "wait", "pend", "clear"}]
  /\ mask \in [Threads -> SUBSET Flags]
  /\ timed \subseteq {t \in Threads : pc[t] # "idle"}
  /\ woken \subseteq {t \in Threads : pc[t] = "clear"}
  /\ owed \subseteq Flags /\ late \subseteq owed /\ replaced \subseteq owed
  /\ avail \in [Threads -> SUBSET Flags]

\* k_event_init
Init ==
  /\ flags = {}
  /\ pc = [t \in Threads |-> "idle"]
  /\ mask = [t \in Threads |-> {}]
  /\ timed = {} /\ woken = {}
  /\ owed = {} /\ late = {} /\ replaced = {}
  /\ avail = [t \in Threads |-> {}]

-----------------------------------------------------------------------------
(***************************************************************************)
(* set(f), which wakes every thread that waits for a flag that is set now. *)
(***************************************************************************)
Matching(now) == {t \in Threads : pc[t] = "pend" /\ mask[t] \cap now # {}}

Wake(now) ==
  /\ flags' = now
  /\ pc' = [t \in Threads |-> IF t \in Matching(now) THEN "clear" ELSE pc[t]]
  /\ woken' = woken \cup Matching(now)
  /\ avail' = [t \in Threads |-> avail[t] \cup (mask[t] \cap now)]
  /\ UNCHANGED <<mask, timed>>

\* What the setter of f is owed: that some wait takes f.  The waits that the
\* set wakes take the flags they wait for.
Taken(now) == UNION {mask[t] \cap now : t \in Matching(now)}
Closing(f) == \E t \in Threads : pc[t] = "clear" /\ f \in mask[t]

Owe(f, now, dropped) ==
  /\ owed' = (owed \cup {f}) \ Taken(now)
  /\ late' = ((late \ {f}) \cup {g \in {f} : Closing(g)}) \ Taken(now)
  /\ replaced' = ((replaced \cup dropped) \ {f}) \ Taken(now)

\* From a thread: k_event_set, which discards the flags that were set before.
SetByThread(f) == Wake({f}) /\ Owe(f, {f}, owed)

\* From an interrupt: k_event_post, which keeps them.
SetByIsr(f) == Wake(flags \cup {f}) /\ Owe(f, flags \cup {f}, {})

-----------------------------------------------------------------------------
(***************************************************************************)
(* wait_any and try_wait_any_for.                                          *)
(***************************************************************************)
Begin(t, m) ==
  /\ pc[t] = "idle"
  /\ pc' = [pc EXCEPT ![t] = "wait"]
  /\ mask' = [mask EXCEPT ![t] = m]
  /\ avail' = [avail EXCEPT ![t] = m \cap flags]
  /\ UNCHANGED <<flags, woken, debtVars>>

CallWaitAny(t, m) == Begin(t, m) /\ UNCHANGED timed
CallTryWaitAnyFor(t, m) == Begin(t, m) /\ timed' = timed \cup {t}

\* A wait takes the flags in got.
Settle(got) == owed' = owed \ got /\ late' = late \ got /\ replaced' = replaced \ got

\* Mutant: k_event_wait_all is called.
KEventWaitAll(t) ==
  /\ pc[t] = "wait"
  /\ \/ /\ mask[t] \subseteq flags
        /\ pc' = [pc EXCEPT ![t] = "clear"]
        /\ woken' = woken \cup {t}
        /\ Settle(mask[t])
     \/ /\ ~(mask[t] \subseteq flags)
        /\ pc' = [pc EXCEPT ![t] = "pend"]
        /\ UNCHANGED <<woken, debtVars>>
  /\ UNCHANGED <<flags, mask, timed, avail>>

\* k_event_wait does not reset the flags, and returns those that match.
KEventWait(t) ==
  /\ pc[t] = "wait"
  /\ \/ /\ mask[t] \cap flags # {}
        /\ pc' = [pc EXCEPT ![t] = "clear"]
        /\ woken' = woken \cup {t}
        /\ Settle(mask[t] \cap flags)
     \/ /\ mask[t] \cap flags = {}
        /\ pc' = [pc EXCEPT ![t] = "pend"]
        /\ UNCHANGED <<woken, debtVars>>
  /\ UNCHANGED <<flags, mask, timed, avail>>

\* Mutants: K_FOREVER for the timeout; the 0 of k_event_wait is taken for success.
TimeoutNever(t) == pc[t] = "pend" /\ t \in timed /\ UNCHANGED vars

TimeoutTrue(t) ==
  /\ pc[t] = "pend" /\ t \in timed
  /\ pc' = [pc EXCEPT ![t] = "clear"]
  /\ woken' = woken \cup {t}
  /\ UNCHANGED <<flags, mask, timed, debtVars, avail>>

\* k_event_wait returns 0; a timeout of 0 expires at once.
Timeout(t) ==
  /\ pc[t] = "pend" /\ t \in timed
  /\ pc' = [pc EXCEPT ![t] = "clear"]
  /\ UNCHANGED <<flags, mask, timed, woken, debtVars, avail>>

\* The call returns.
End(t) ==
  /\ pc' = [pc EXCEPT ![t] = "idle"]
  /\ mask' = [mask EXCEPT ![t] = {}]
  /\ timed' = timed \ {t}
  /\ woken' = woken \ {t}
  /\ avail' = [avail EXCEPT ![t] = {}]

\* Mutant: all flags are cleared, not only those of the call.
KEventClearAll(t) ==
  /\ pc[t] = "clear"
  /\ flags' = {}
  /\ End(t)
  /\ UNCHANGED debtVars

\* k_event_clear, also after a timeout, and the call returns.
KEventClear(t) ==
  /\ pc[t] = "clear"
  /\ flags' = flags \ mask[t]
  /\ End(t)
  /\ UNCHANGED debtVars

WaitStep(t) == KEventWait(t) \/ Timeout(t) \/ KEventClear(t)

Next ==
  \/ \E f \in Flags : SetByThread(f) \/ SetByIsr(f)
  \/ \E t \in Threads, m \in Masks : CallWaitAny(t, m) \/ CallTryWaitAnyFor(t, m)
  \/ \E t \in Threads : WaitStep(t)

Spec == Init /\ [][Next]_vars

\* A ready thread runs and an armed timeout expires.  Nobody has to set a flag.
FairSpec == Spec /\ \A t \in Threads : WF_vars(WaitStep(t))

-----------------------------------------------------------------------------
(***************************************************************************)
(* Properties.                                                             *)
(***************************************************************************)

\* set() "unblocks any thread waiting on that flag" (event.hpp:72): no thread
\* is left blocked while one of its flags is set, however many wait for it.
SetUnblocks == \A t \in Threads : pc[t] = "pend" => mask[t] \cap flags = {}

\* A flag that somebody has set stays set until a wait takes it, except in two
\* cases.  One: when it was set, a wait for it stood between k_event_wait and
\* k_event_clear (event.cpp:150, 173), whether it had been served or had timed
\* out; its clear then hides the flag.  Two: a thread has set another flag since
\* (event.cpp:137), and k_event_set has dropped it.  Nothing else loses a flag:
\* neither a wait for other flags, nor waits that begin or time out after the
\* set, nor an interrupt's set().
NoLostFlag == owed \ (late \cup replaced) \subseteq flags

\* A wait reports a flag only when one of its flags was set during the call:
\* one that was cleared before the call began does not count.
NoSpuriousReturn ==
  \A t \in Threads : pc[t] = "clear" /\ t \in woken => avail[t] # {}

\* A call returns when it has a timeout, and when one of its flags is set again
\* and again, whatever other threads consume in between.
WaitEnds ==
  \A t \in Threads :
    []<>(t \in timed \/ mask[t] \cap flags # {}) => []<>(pc[t] = "idle")

=============================================================================
