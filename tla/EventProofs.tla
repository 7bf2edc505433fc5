----------------------------- MODULE EventProofs -----------------------------
(***************************************************************************)
(* Event leaves no thread blocked whose flag is set, loses flags only in   *)
(* the ways NoLostFlag names and reports none that was not set, for any    *)
(* number of flags and threads.                                            *)
(***************************************************************************)
EXTENDS Event, TLAPS

\* What a wait is about to clear is not owed, unless it was set late or was
\* lost already.
ClearedIsTaken ==
  \A t \in Threads : pc[t] = "clear" => owed \cap mask[t] \subseteq late \cup replaced

\* The flags of a call that are set now were set during it.
AvailCovers == \A t \in Threads : pc[t] # "idle" => mask[t] \cap flags \subseteq avail[t]

IInv ==
  /\ TypeOK /\ SetUnblocks /\ NoLostFlag /\ NoSpuriousReturn
  /\ ClearedIsTaken /\ AvailCovers

\* Nobody waits at the start.
LEMMA InitIInv == Init => IInv
  BY DEF Init, IInv, TypeOK, SetUnblocks, NoLostFlag, NoSpuriousReturn, ClearedIsTaken, AvailCovers

\* set() from either context: now holds the flag and, unless they are dropped,
\* the flags before.
LEMMA WakeIInv ==
  ASSUME IInv, NEW f \in Flags, NEW now \in SUBSET Flags, NEW dropped \in SUBSET owed,
         Wake(now), Owe(f, now, dropped), f \in now, flags \subseteq now \/ dropped = owed
  PROVE  IInv'
<1> USE DEF IInv, TypeOK, Wake, Owe, Matching, Taken
<1>1. TypeOK'
  OBVIOUS
<1>2. SetUnblocks'
  BY DEF SetUnblocks
<1>3. NoLostFlag'
  BY DEF NoLostFlag
<1>4. AvailCovers'
  BY DEF AvailCovers
<1>5. ClearedIsTaken'
  <2> SUFFICES ASSUME NEW t \in Threads, pc'[t] = "clear", NEW g \in owed' \cap mask[t]
               PROVE  g \in late' \cup replaced'
    BY DEF ClearedIsTaken
  <2>1. CASE t \in Matching(now)
    BY <2>1 DEF NoLostFlag
  <2>2. CASE pc[t] = "clear"
    BY <2>2 DEF ClearedIsTaken, Closing
  <2> QED
    BY <2>1, <2>2
<1>6. NoSpuriousReturn'
  BY DEF NoSpuriousReturn
<1> QED
  BY <1>1, <1>2, <1>3, <1>4, <1>5, <1>6

\* A wait begins: nothing is owed to it yet.
LEMMA CallIInv ==
  ASSUME IInv, NEW t \in Threads, NEW m \in Masks,
         CallWaitAny(t, m) \/ CallTryWaitAnyFor(t, m)
  PROVE  IInv'
<1> USE DEF IInv, TypeOK, CallWaitAny, CallTryWaitAnyFor, Begin, Masks, debtVars
<1>1. TypeOK'
  OBVIOUS
<1>2. SetUnblocks'
  BY DEF SetUnblocks
<1>3. NoLostFlag'
  BY DEF NoLostFlag
<1>4. AvailCovers'
  BY DEF AvailCovers
<1>5. ClearedIsTaken'
  BY DEF ClearedIsTaken
<1>6. NoSpuriousReturn'
  BY DEF NoSpuriousReturn
<1> QED
  BY <1>1, <1>2, <1>3, <1>4, <1>5, <1>6

\* k_event_wait takes the flags that are set, or gives up.
LEMMA WaitIInv ==
  ASSUME IInv, NEW t \in Threads, KEventWait(t) \/ Timeout(t)
  PROVE  IInv'
<1> USE DEF IInv, TypeOK, KEventWait, Timeout, Settle, debtVars
<1>1. TypeOK'
  OBVIOUS
<1>2. SetUnblocks'
  BY DEF SetUnblocks
<1>3. NoLostFlag'
  BY DEF NoLostFlag
<1>4. AvailCovers'
  BY DEF AvailCovers
<1>5. ClearedIsTaken'
  BY DEF ClearedIsTaken, NoLostFlag, SetUnblocks
<1>6. NoSpuriousReturn'
  BY DEF NoSpuriousReturn, AvailCovers
<1> QED
  BY <1>1, <1>2, <1>3, <1>4, <1>5, <1>6

\* A thread that was given flags clears them and returns.
LEMMA ClearIInv ==
  ASSUME IInv, NEW t \in Threads, KEventClear(t)
  PROVE  IInv'
<1> USE DEF IInv, TypeOK, KEventClear, End, debtVars
<1>1. TypeOK'
  OBVIOUS
<1>2. SetUnblocks'
  BY DEF SetUnblocks
<1>3. NoLostFlag'
  BY DEF NoLostFlag, ClearedIsTaken
<1>4. AvailCovers'
  BY DEF AvailCovers
<1>5. ClearedIsTaken'
  BY DEF ClearedIsTaken
<1>6. NoSpuriousReturn'
  BY DEF NoSpuriousReturn
<1> QED
  BY <1>1, <1>2, <1>3, <1>4, <1>5, <1>6

\* Every step keeps the invariant.
LEMMA StepIInv == IInv /\ [Next]_vars => IInv'
<1> SUFFICES ASSUME IInv, [Next]_vars PROVE IInv'
  OBVIOUS
<1>1. ASSUME NEW f \in Flags, SetByThread(f) PROVE IInv'
  <2>1. {f} \in SUBSET Flags /\ owed \in SUBSET owed
    OBVIOUS
  <2> QED
    BY <1>1, <2>1, WakeIInv DEF SetByThread
<1>2. ASSUME NEW f \in Flags, SetByIsr(f) PROVE IInv'
  <2>1. flags \cup {f} \in SUBSET Flags /\ {} \in SUBSET owed
    BY DEF IInv, TypeOK
  <2> QED
    BY <1>2, <2>1, WakeIInv DEF SetByIsr
<1>3. ASSUME NEW t \in Threads, NEW m \in Masks, CallWaitAny(t, m) \/ CallTryWaitAnyFor(t, m)
      PROVE  IInv'
  BY <1>3, CallIInv
<1>4. ASSUME NEW t \in Threads, WaitStep(t) PROVE IInv'
  BY <1>4, WaitIInv, ClearIInv DEF WaitStep
<1>5. CASE UNCHANGED vars
  BY <1>5 DEF IInv, TypeOK, SetUnblocks, NoLostFlag, NoSpuriousReturn, ClearedIsTaken, AvailCovers,
     vars, callVars, debtVars
<1> QED
  BY <1>1, <1>2, <1>3, <1>4, <1>5 DEF Next

\* For any flags and threads: Event::set leaves nobody blocked that waits for
\* the flag; a flag is lost only if it was set between the k_event_wait and the
\* k_event_clear of a wait for it, or if a thread set another one after it; and
\* no wait reports a flag that was not set during the call.
THEOREM EventSafe == Spec => [](SetUnblocks /\ NoLostFlag /\ NoSpuriousReturn)
<1>1. Init => IInv
  BY InitIInv
<1>2. IInv /\ [Next]_vars => IInv'
  BY StepIInv
<1>3. IInv => SetUnblocks /\ NoLostFlag /\ NoSpuriousReturn
  BY DEF IInv
<1> QED
  BY <1>1, <1>2, <1>3, PTL DEF Spec

=============================================================================
