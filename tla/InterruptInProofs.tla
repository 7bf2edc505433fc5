-------------------------- MODULE InterruptInProofs --------------------------
(***************************************************************************)
(* Proofs about InterruptIn, for every number of instances and tokens and  *)
(* for every order in which they are constructed, moved and destroyed.     *)
(***************************************************************************)
EXTENDS InterruptIn, TLAPS

AddPc == {"insert", "inserting", "record"}
EarlyResetPc == {"erase", "erasing", "remove", "unrecord"}
ResetPc == {"reset", "take"} \cup EarlyResetPc
\* The destructor, after the callbacks and after the records are cleared.
UnrecordedPc == {"remove_last", "die"}
ClearedPc == {"unrecord_all"} \cup UnrecordedPc
DtorPc == {"clear", "clearing"} \cup ClearedPc

\* What the application works on.
WorkInv ==
  /\ pc \in AddPc => inst \in alive /\ uniqueId[inst] < MaxIds /\ place \in Tokens
  /\ pc \in ResetPc => place \in Tokens /\ from # place
  /\ pc \in EarlyResetPc => token[place] # None /\ token[place] \in records
  /\ pc \in DtorPc => inst \in alive
  /\ pc \in UnrecordedPc => \A r \in records : r.owner # inst
  /\ pc \notin ResetPc => from = None
  /\ from # Temp => token[Temp] = None
  /\ alive \cap unborn = {}
  /\ \A i \in unborn : uniqueId[i] = 0

\* The record of r may be gone although its instance exists.
Gone(r) ==
  \/ pc = "take" /\ r = token[place]
  \/ pc \in UnrecordedPc /\ r.owner = inst

\* A record has one token; it is in the map as long as its instance exists.
TokenInv ==
  /\ \A k, l \in Places : token[k] # None /\ token[k] = token[l] => k = l
  /\ \A k \in Places : token[k] # None =>
       /\ token[k].id < uniqueId[token[k].owner]
       /\ token[k].owner \in alive /\ ~Gone(token[k]) => token[k] \in records
  /\ \A r \in records : r.owner \in alive

\* The callbacks are those of the tokens, but for the ones in work.
CallbackInv ==
  \A r \in Records :
    r \in callbacks <=>
      /\ r.owner \in alive
      /\ \/ pc = "record" /\ r = Added
         \/ \E k \in Places :
              token[k] = r /\ ~(pc \in {"remove", "unrecord", "take"} /\ k = place)
      /\ ~(pc \in ClearedPc /\ r.owner = inst)

\* The driver knows the instances with callbacks, and the one in work.
GpioInv ==
  /\ gpio \subseteq alive
  /\ \A r \in callbacks : r.owner \in gpio
  /\ \A i \in gpio :
       \/ \E r \in callbacks : r.owner = i
       \/ pc \in {"insert", "inserting"} /\ i = inst
       \/ pc = "remove" /\ i = token[place].owner
       \/ pc \in {"unrecord_all", "remove_last"} /\ i = inst
  /\ pc \in {"insert", "inserting"} => inst \in gpio
  /\ pc = "remove" => token[place].owner \in gpio
  /\ pc \in {"clear", "clearing", "unrecord_all", "remove_last"} => (had <=> inst \in gpio)

LibInv == WorkInv /\ TokenInv /\ CallbackInv /\ GpioInv

\* What can end the behaviour.
FaultInv ==
  /\ fault \in {"none", "changing_map", "dangling"}
  /\ fault = "dangling" => token[place].owner \notin alive

IInv == TypeOK /\ FaultInv /\ (fault = "none" => LibInv)

-----------------------------------------------------------------------------
\* No instance exists yet.
LEMMA IInit == Init => IInv
<1> SUFFICES ASSUME Init PROVE IInv
  OBVIOUS
<1>1. TypeOK
  <2>1. uniqueId \in [Instances -> 0 .. MaxIds]
    BY IdsAssumption DEF Init
  <2>2. had \in BOOLEAN
    BY Zenon DEF Init
  <2> QED
    BY <2>1, <2>2 DEF Init, TypeOK, Pc
<1>2. WorkInv /\ TokenInv /\ FaultInv
  BY NamesAssumption
     DEF Init, WorkInv, TokenInv, FaultInv, AddPc, EarlyResetPc, ResetPc, DtorPc,
         ClearedPc, UnrecordedPc, Places
<1>3. CallbackInv
  BY NoneAssumption DEF Init, CallbackInv
<1>4. GpioInv
  BY DEF Init, GpioInv
<1> QED
  BY <1>1, <1>2, <1>3, <1>4 DEF IInv, LibInv

\* The record of the callback that is being added is well typed and new.
LEMMA AddedIsNew ==
  ASSUME TypeOK, LibInv, pc \in AddPc
  PROVE  /\ Added \in Records /\ Added.owner = inst /\ Added.id = uniqueId[inst]
         /\ \A k \in Places : token[k] # Added
<1>1. inst \in Instances /\ uniqueId[inst] \in Ids
  BY IdsAssumption DEF LibInv, TypeOK, WorkInv, Ids
<1>2. Added \in Records /\ Added.owner = inst /\ Added.id = uniqueId[inst]
  BY <1>1 DEF Added, Records
<1>3. \A k \in Places : token[k] # Added
  BY <1>1, <1>2, NoneAssumption, IdsAssumption DEF LibInv, TokenInv, Ids
<1> QED
  BY <1>2, <1>3

\* The types are kept.
LEMMA ITypeStep ==
  ASSUME TypeOK, fault = "none" => LibInv, [Next]_vars PROVE TypeOK'
<1> USE NamesAssumption, NoneAssumption
    DEF LibInv, TypeOK, Pc, ChangingPc, Places, AddPc, EarlyResetPc, ResetPc,
        libVars, appVars, workVars, WorkInv
<1>1. ASSUME fault = "none", NEW i \in Instances, Construct(i)
      PROVE  TypeOK'
  BY <1>1 DEF Construct
<1>2. ASSUME fault = "none", NEW i \in Instances, Destroy(i)
      PROVE  TypeOK'
  BY <1>2 DEF Destroy, Goto, CallbacksOf
<1>3. ASSUME fault = "none", NEW i \in Instances, NEW k \in Tokens, AddCallback(i, k)
      PROVE  TypeOK'
  BY <1>3 DEF AddCallback, Goto, CallbacksOf
<1>4. ASSUME fault = "none", NEW i \in Instances, NEW k \in Tokens, AddNothing(i, k)
      PROVE  TypeOK'
  BY <1>4 DEF AddNothing, Goto
<1>5. ASSUME fault = "none", NEW k \in Tokens, NEW l \in Tokens, MoveToken(k, l)
      PROVE  TypeOK'
  BY <1>5 DEF MoveToken, Goto
<1>6. ASSUME fault = "none", NEW k \in Tokens, DestroyToken(k)
      PROVE  TypeOK'
  BY <1>6 DEF DestroyToken, Goto
<1>7. ASSUME fault = "none", RegisterBegin PROVE TypeOK'
  BY <1>7 DEF RegisterBegin, Goto
<1>8. ASSUME fault = "none", RegisterEnd PROVE TypeOK'
  <2>1. Added \in Records
    BY <1>8, AddedIsNew DEF RegisterEnd
  <2> QED
    BY <1>8, <2>1 DEF RegisterEnd, Goto
<1>9. ASSUME fault = "none", RegisterRecord PROVE TypeOK'
  <2>1. Added \in Records /\ uniqueId[inst] + 1 \in 0 .. MaxIds
    BY <1>9, AddedIsNew, IdsAssumption DEF RegisterRecord
  <2> QED
    BY <1>9, <2>1 DEF RegisterRecord, Goto
<1>10. ASSUME fault = "none", Reset PROVE TypeOK'
  BY <1>10 DEF Reset, Goto
<1>11. ASSUME fault = "none", UnregisterBegin PROVE TypeOK'
  BY <1>11 DEF UnregisterBegin, Goto
<1>12. ASSUME fault = "none", UnregisterEnd PROVE TypeOK'
  BY <1>12 DEF UnregisterEnd, Goto
<1>13. ASSUME fault = "none", UnregisterGpio PROVE TypeOK'
  BY <1>13 DEF UnregisterGpio, Goto, RemoveGpio, CallbacksOf
<1>14. ASSUME fault = "none", UnregisterRecord PROVE TypeOK'
  BY <1>14 DEF UnregisterRecord, Goto
<1>15. ASSUME fault = "none", Take PROVE TypeOK'
  BY <1>15 DEF Take, Idle
<1>16. ASSUME fault = "none", ClearBegin PROVE TypeOK'
  BY <1>16 DEF ClearBegin, Goto
<1>17. ASSUME fault = "none", ClearEnd PROVE TypeOK'
  BY <1>17 DEF ClearEnd, Goto, CallbacksOf
<1>18. ASSUME fault = "none", UnrecordAll PROVE TypeOK'
  BY <1>18 DEF UnrecordAll, Goto
<1>19. ASSUME fault = "none", RemoveLast PROVE TypeOK'
  BY <1>19 DEF RemoveLast, Goto, RemoveGpio
<1>20. ASSUME fault = "none", Die PROVE TypeOK'
  BY <1>20 DEF Die, Idle
<1>21. ASSUME fault = "none", Press PROVE TypeOK'
  BY <1>21 DEF Press
<1>22. CASE UNCHANGED vars
  BY <1>22 DEF vars
<1> HIDE DEF TypeOK, LibInv
<1> QED
  BY <1>1, <1>2, <1>3, <1>4, <1>5, <1>6, <1>7, <1>8, <1>9, <1>10, <1>11,
     <1>12, <1>13, <1>14, <1>15, <1>16, <1>17, <1>18, <1>19, <1>20, <1>21,
     <1>22
     DEF Next, Register, Unregister, UnregisterAll

\* Tokens, callbacks and the list of the driver stay in step.
LEMMA ILibStep ==
  ASSUME TypeOK, TypeOK', FaultInv, fault = "none" => LibInv, [Next]_vars
  PROVE  FaultInv' /\ (fault' = "none" => LibInv')
<1> USE NamesAssumption, NoneAssumption
    DEF LibInv, TypeOK, Pc, ChangingPc, Places, AddPc, EarlyResetPc, ResetPc, DtorPc,
        UnrecordedPc, ClearedPc, libVars, appVars, workVars, WorkInv, TokenInv, CallbackInv,
        GpioInv, FaultInv, Gone
<1>1. ASSUME fault = "none", NEW i \in Instances, Construct(i)
      PROVE  FaultInv' /\ LibInv'
  <2>1. \A k \in Places : token[k] # None => token[k].owner # i
    BY <1>1 DEF Construct, Records, Ids
  <2>2. \A r \in Records : r.owner = i => r \notin callbacks /\ \A k \in Places : token[k] # r
    BY <1>1, <2>1 DEF Construct
  <2>3. CallbackInv'
    BY <1>1, <2>2 DEF Construct, Added
  <2>4. WorkInv' /\ TokenInv' /\ GpioInv' /\ FaultInv'
    BY <1>1, <2>1 DEF Construct
  <2> QED
    BY <2>3, <2>4
<1>2. ASSUME fault = "none", NEW i \in Instances, Destroy(i)
      PROVE  FaultInv' /\ LibInv'
  <2>1. \A r \in callbacks : r.owner \in gpio
    BY <1>2 DEF Destroy
  <2>2. i \in gpio => CallbacksOf(i) # {}
    BY <1>2 DEF Destroy, CallbacksOf
  <2>3. CallbacksOf(i) # {} => i \in gpio
    BY <2>1 DEF CallbacksOf
  <2>6. had' = (CallbacksOf(i) # {})
    BY <1>2 DEF Destroy
  <2>7. had' <=> i \in gpio
    BY <2>2, <2>3, <2>6, Zenon
  <2>4. WorkInv' /\ TokenInv' /\ CallbackInv' /\ FaultInv'
    BY <1>2 DEF Destroy, Goto
  <2>5. GpioInv'
    BY <1>2, <2>7 DEF Destroy, Goto
  <2> QED
    BY <2>4, <2>5
<1>3. ASSUME fault = "none", NEW i \in Instances, NEW k \in Tokens, AddCallback(i, k)
      PROVE  FaultInv' /\ LibInv'
  BY <1>3 DEF AddCallback, Goto, CallbacksOf
<1>4. ASSUME fault = "none", NEW i \in Instances, NEW k \in Tokens, AddNothing(i, k)
      PROVE  FaultInv' /\ LibInv'
  BY <1>4 DEF AddNothing, Goto
<1>5. ASSUME fault = "none", NEW k \in Tokens, NEW l \in Tokens, MoveToken(k, l)
      PROVE  FaultInv' /\ LibInv'
  BY <1>5 DEF MoveToken, Goto
<1>6. ASSUME fault = "none", NEW k \in Tokens, DestroyToken(k)
      PROVE  FaultInv' /\ LibInv'
  BY <1>6 DEF DestroyToken, Goto
<1>7. ASSUME fault = "none", RegisterBegin PROVE FaultInv' /\ LibInv'
  BY <1>7 DEF RegisterBegin, Goto
<1>8. ASSUME fault = "none", RegisterEnd PROVE FaultInv' /\ LibInv'
  <2>1. /\ Added \in Records /\ Added.owner = inst /\ Added' = Added
        /\ \A k \in Places : token[k] # Added
    BY <1>8, AddedIsNew DEF RegisterEnd, Added
  <2>2. CallbackInv'
    BY <1>8, <2>1 DEF RegisterEnd, Goto
  <2>3. GpioInv'
    BY <1>8, <2>1 DEF RegisterEnd, Goto
  <2>4. WorkInv' /\ TokenInv' /\ FaultInv'
    BY <1>8 DEF RegisterEnd, Goto
  <2> QED
    BY <2>2, <2>3, <2>4
<1>9. ASSUME fault = "none", RegisterRecord PROVE FaultInv' /\ LibInv'
  <2>1. /\ Added \in Records /\ Added.owner = inst /\ Added.id = uniqueId[inst]
        /\ \A k \in Places : token[k] # Added
    BY <1>9, AddedIsNew DEF RegisterRecord
  <2>2. \A j \in Instances :
          /\ uniqueId[j] \in Nat
          /\ uniqueId'[j] = IF j = inst THEN uniqueId[j] + 1 ELSE uniqueId[j]
    BY <1>9, IdsAssumption DEF RegisterRecord
  <2>3. \A k \in Places : token'[k] = IF k = Temp THEN Added ELSE token[k]
    BY <1>9 DEF RegisterRecord
  <2>4. \A k \in Places : token'[k] # None => token'[k].id < uniqueId'[token'[k].owner]
    <3>1. \A k \in Places : token[k] # None =>
            token[k] \in Records /\ token[k].id < uniqueId[token[k].owner]
      BY <1>9
    <3> HIDE DEF TypeOK, LibInv, TokenInv
    <3> QED
      BY <2>1, <2>2, <2>3, <3>1, IdsAssumption DEF Records, Ids
  <2>5. TokenInv'
    BY <1>9, <2>1, <2>3, <2>4 DEF RegisterRecord, Goto
  <2>6. CallbackInv'
    BY <1>9, <2>1 DEF RegisterRecord, Goto
  <2>7. WorkInv' /\ GpioInv' /\ FaultInv'
    BY <1>9, <2>1 DEF RegisterRecord, Goto
  <2> QED
    BY <2>5, <2>6, <2>7
<1>10. ASSUME fault = "none", Reset PROVE FaultInv' /\ (fault' = "none" => LibInv')
  BY <1>10 DEF Reset, Goto
<1>11. ASSUME fault = "none", UnregisterBegin PROVE FaultInv' /\ LibInv'
  BY <1>11 DEF UnregisterBegin, Goto
<1>12. ASSUME fault = "none", UnregisterEnd PROVE FaultInv' /\ LibInv'
  BY <1>12 DEF UnregisterEnd, Goto
<1>13. ASSUME fault = "none", UnregisterGpio PROVE FaultInv' /\ LibInv'
  BY <1>13 DEF UnregisterGpio, Goto, RemoveGpio, CallbacksOf
<1>14. ASSUME fault = "none", UnregisterRecord PROVE FaultInv' /\ LibInv'
  BY <1>14 DEF UnregisterRecord, Goto
<1>15. ASSUME fault = "none", Take PROVE FaultInv' /\ LibInv'
  <2>1. TokenInv'
    BY <1>15 DEF Take, Idle
  <2>2. \A k \in Places : k # place => \E l \in Places : token'[l] = token[k]
    BY <1>15 DEF Take, Idle
  <2>3. \A k \in Places :
          token'[k] # None => \E l \in Places : token[l] = token'[k] /\ l # place
    BY <1>15 DEF Take, Idle
  <2>4. \A r \in Records :
          r \in callbacks <=>
            r.owner \in alive /\ \E k \in Places : token[k] = r /\ k # place
    BY <1>15 DEF Take
  <2>5. \A r \in Records :
          r \in callbacks <=> r.owner \in alive /\ \E k \in Places : token'[k] = r
    BY <2>2, <2>3, <2>4
  <2>6. CallbackInv'
    BY <1>15, <2>5 DEF Take, Idle
  <2>7. WorkInv' /\ GpioInv' /\ FaultInv'
    BY <1>15 DEF Take, Idle
  <2> QED
    BY <2>1, <2>6, <2>7
<1>16. ASSUME fault = "none", ClearBegin PROVE FaultInv' /\ LibInv'
  BY <1>16 DEF ClearBegin, Goto
<1>17. ASSUME fault = "none", ClearEnd PROVE FaultInv' /\ LibInv'
  BY <1>17 DEF ClearEnd, Goto, CallbacksOf
<1>18. ASSUME fault = "none", UnrecordAll PROVE FaultInv' /\ LibInv'
  BY <1>18 DEF UnrecordAll, Goto
<1>19. ASSUME fault = "none", RemoveLast PROVE FaultInv' /\ LibInv'
  BY <1>19 DEF RemoveLast, Goto, RemoveGpio
<1>20. ASSUME fault = "none", Die PROVE FaultInv' /\ LibInv'
  BY <1>20 DEF Die, Idle
<1>21. ASSUME fault = "none", Press PROVE FaultInv' /\ (fault' = "none" => LibInv')
  <2>1. Added' = Added
    BY <1>21 DEF Press, Added
  <2> QED
    BY <1>21, <2>1 DEF Press
<1>22. CASE UNCHANGED vars
  BY <1>22 DEF vars, Added
<1> HIDE DEF LibInv, FaultInv
<1> QED
  BY <1>1, <1>2, <1>3, <1>4, <1>5, <1>6, <1>7, <1>8, <1>9, <1>10, <1>11,
     <1>12, <1>13, <1>14, <1>15, <1>16, <1>17, <1>18, <1>19, <1>20, <1>21,
     <1>22
     DEF Next, Register, Unregister, UnregisterAll

\* The invariant holds.
LEMMA IInvariant == Spec => []IInv
<1>1. IInv /\ [Next]_vars => IInv'
  BY ITypeStep, ILibStep DEF IInv
<1> QED
  BY <1>1, IInit, PTL DEF Spec

\* A freed record is read only through a token that outlived its instance; the
\* interrupt reaches no destroyed instance, and the gpio driver knows every
\* callback that is removed from it, whenever the button is pressed.
THEOREM InterruptSafe == Spec => [](OnlyOutlivedDangles /\ NoDeadInstance /\ RemoveSucceeds)
<1>1. IInv => OnlyOutlivedDangles /\ NoDeadInstance /\ RemoveSucceeds
  BY DEF IInv, FaultInv, OnlyOutlivedDangles, NoDeadInstance, RemoveSucceeds
<1> QED
  BY <1>1, IInvariant, PTL

\* A press executes the callbacks that a token holds and no other.
THEOREM PressCorrect == Spec => PressRunsTokens
<1> DEFINE goal == ran' \ Unsettled = {r \in Held : r.owner \in alive} \ Unsettled
<1>1. ASSUME TypeOK, LibInv, Press PROVE goal
  <2>1. ran' = callbacks
    BY <1>1 DEF Press, LibInv, GpioInv
  <2>2. callbacks \subseteq Records /\ Held \subseteq Records
    BY <1>1 DEF TypeOK, Held
  <2>3. ASSUME NEW r \in Records, r \notin Unsettled
        PROVE  r \in callbacks <=> r \in Held /\ r.owner \in alive
    <3>1. r \in Held <=> \E k \in Places : token[k] = r
      BY NoneAssumption DEF Held
    <3>2. ~(pc = "record" /\ r = Added) /\ ~(pc \in ClearedPc /\ r.owner = inst)
      BY <2>3 DEF Unsettled, ClearedPc, UnrecordedPc
    <3>3. \A k \in Places :
            token[k] = r => ~(pc \in {"remove", "unrecord", "take"} /\ k = place)
      BY <2>3 DEF Unsettled
    <3> QED
      BY <1>1, <3>1, <3>2, <3>3 DEF LibInv, CallbackInv
  <2> QED
    BY <2>1, <2>2, <2>3
<1>2. IInv /\ [Next]_vars => [Press /\ fault' = "none" => goal]_vars
  <2> SUFFICES ASSUME IInv, Next, Press PROVE goal
    OBVIOUS
  <2> QED
    BY <1>1 DEF IInv, Next
<1> QED
  BY <1>2, IInvariant, PTL DEF Spec, PressRunsTokens

=============================================================================
