----------------------------- MODULE InterruptIn -----------------------------
(***************************************************************************)
(* zpp_lib::InterruptIn, CallbackRegister and RegistrationToken            *)
(* (zpp_drivers/interrupt_in.cpp, zpp_rtos/callback_register.cpp,          *)
(* zpp_rtos/registration_token.cpp), on hardware, that is without          *)
(* CONFIG_INTERRUPT_IN_EMUL.                                               *)
(*                                                                         *)
(* An application thread constructs and destroys InterruptIn instances on  *)
(* one pin, adds callbacks, and assigns, moves and destroys the tokens it  *)
(* gets for them.  A press of the button interrupts it between any two of  *)
(* its steps, and every instance in the list of the gpio driver executes   *)
(* its callbacks.                                                          *)
(*                                                                         *)
(* Undefined behaviour (a freed record or instance is used, a std::map is  *)
(* read in the middle of a change) and a failed assertion set fault and    *)
(* end the behaviour.                                                      *)
(***************************************************************************)
EXTENDS Naturals

CONSTANTS
  Instances,         \* the InterruptIn instances, each constructed once
  Tokens,            \* the RegistrationToken variables of the application
  MaxIds,            \* bound on the callbacks added to one instance
  None,              \* nullptr; a token variable that does not exist
  Temp               \* the temporary that add_callback returns

ASSUME IdsAssumption == MaxIds \in Nat \ {0}
ASSUME NamesAssumption == Temp \notin Tokens /\ None \notin Tokens \cup {Temp}

Ids == 0 .. MaxIds - 1

\* A RegistrationRecord is known by its owner and its id, which is never used
\* twice.
Records == [owner : Instances, id : Ids]

Places == Tokens \cup {Temp}

ASSUME NoneAssumption == None \notin Instances \cup Records

VARIABLES
  alive,       \* the instances that exist
  unborn,      \* the instances that are still to be constructed
  uniqueId,    \* _unique_id of each instance
  callbacks,   \* _callbacks, as the records of its keys
  records,     \* _registrations, as the records of its values
  gpio,        \* the instances in the callback list of the gpio driver
  token,       \* _p_record of each token, or None
  pc,          \* where the application is
  inst,        \* the instance it works on
  place,       \* the token variable it works on
  from,        \* the token that is moved into place, or None for a reset
  had,         \* had_callbacks of unregister_all_callbacks
  ran,         \* the callbacks that the last press executed
  fault        \* "none", or what ended the behaviour

libVars == <<alive, unborn, uniqueId, callbacks, records, gpio, token>>
appVars == <<pc, inst, place, from, had>>
\* What most steps of an operation leave alone.
workVars == <<inst, place, from, had>>
vars == <<libVars, appVars, ran, fault>>

\* The labels at which a std::map of callbacks is in the middle of a change.
ChangingPc == {"inserting", "erasing", "clearing"}
Pc == {"idle", "insert", "record", "reset", "erase", "remove", "unrecord", "take",
       "clear", "unrecord_all", "remove_last", "die"} \cup ChangingPc

TypeOK ==
  /\ alive \subseteq Instances
  /\ unborn \subseteq Instances
  /\ uniqueId \in [Instances -> 0 .. MaxIds]
  /\ callbacks \subseteq Records
  /\ records \subseteq Records
  /\ gpio \subseteq Instances
  /\ token \in [Places -> Records \cup {None}]
  /\ pc \in Pc
  /\ inst \in Instances \cup {None}
  /\ place \in Places \cup {None}
  /\ from \in Places \cup {None}
  /\ had \in BOOLEAN
  /\ ran \subseteq Records
  /\ fault \in {"none", "dangling", "dead_instance", "changing_map", "assert"}

Init ==
  /\ alive = {}
  /\ unborn = Instances
  /\ uniqueId = [i \in Instances |-> 0]
  /\ callbacks = {}
  /\ records = {}
  /\ gpio = {}
  /\ token = [k \in Places |-> None]
  /\ pc = "idle"
  /\ inst = None
  /\ place = None
  /\ from = None
  /\ had = FALSE
  /\ ran = {}
  /\ fault = "none"

CallbacksOf(i) == {r \in callbacks : r.owner = i}
Held == {token[k] : k \in Places} \ {None}

-----------------------------------------------------------------------------
(***************************************************************************)
(* The application.                                                        *)
(***************************************************************************)
Goto(label) == pc' = label
Idle == pc' = "idle" /\ inst' = None /\ place' = None /\ from' = None /\ had' = FALSE

\* InterruptIn::InterruptIn: the pin is configured; the maps are empty.
Construct(i) ==
  /\ pc = "idle" /\ i \in unborn
  /\ unborn' = unborn \ {i}
  /\ alive' = alive \cup {i}
  /\ UNCHANGED <<uniqueId, callbacks, records, gpio, token, appVars, ran, fault>>

\* k = i.add_callback(cb): the first callback puts the instance in the list of
\* the driver, before it is registered.
AddCallback(i, k) ==
  /\ pc = "idle" /\ i \in alive /\ uniqueId[i] < MaxIds
  /\ gpio' = IF CallbacksOf(i) = {} THEN gpio \cup {i} ELSE gpio
  /\ Goto("insert") /\ inst' = i /\ place' = k /\ UNCHANGED <<from, had>>
  /\ UNCHANGED <<alive, unborn, uniqueId, callbacks, records, token, ran, fault>>

\* add_callback(nullptr) registers nothing and returns a null token.
AddNothing(i, k) ==
  /\ pc = "idle" /\ i \in alive
  /\ Goto("reset") /\ place' = k /\ from' = Temp /\ UNCHANGED <<inst, had>>
  /\ UNCHANGED <<libVars, ran, fault>>

\* CallbackRegister::register_callback
Added == [owner |-> inst, id |-> uniqueId[inst]]

RegisterBegin ==
  /\ pc = "insert" /\ Goto("inserting")
  /\ UNCHANGED <<libVars, workVars, ran, fault>>

RegisterEnd ==
  /\ pc = "inserting" /\ Goto("record")
  /\ callbacks' = callbacks \cup {Added}
  /\ UNCHANGED <<alive, unborn, uniqueId, records, gpio, token, workVars, ran, fault>>

\* The record is made, the temporary token points to it and is moved to its
\* variable: by construction, or by assignment when the variable exists.
RegisterRecord ==
  /\ pc = "record" /\ Goto("reset")
  /\ records' = records \cup {Added}
  /\ uniqueId' = [uniqueId EXCEPT ![inst] = @ + 1]
  /\ token' = [token EXCEPT ![Temp] = Added]
  /\ from' = Temp
  /\ UNCHANGED <<alive, unborn, callbacks, gpio, inst, place, had, ran, fault>>

\* l = std::move(k), and the destructor of a token.
MoveToken(k, l) ==
  /\ pc = "idle" /\ k # l /\ token[k] # None
  /\ Goto("reset") /\ place' = l /\ from' = k /\ UNCHANGED <<inst, had>>
  /\ UNCHANGED <<libVars, ran, fault>>

DestroyToken(k) ==
  /\ pc = "idle" /\ token[k] # None
  /\ Goto("reset") /\ place' = k /\ UNCHANGED <<inst, from, had>>
  /\ UNCHANGED <<libVars, ran, fault>>

(***************************************************************************)
(* RegistrationToken::reset and CallbackRegister::unregister_callback.     *)
(***************************************************************************)

\* Mutant: a token that is assigned to is not reset.
ResetSkipped ==
  /\ pc = "reset"
  /\ Goto(IF token[place] = None \/ from # None THEN "take" ELSE "erase")
  /\ UNCHANGED <<libVars, workVars, ran, fault>>

\* The record is read through the pointer: it must still be in the map.
\* _owner in it is never null: only ~CallbackRegister writes it, for the
\* records that are still there, and ~InterruptIn has erased them all.
Reset ==
  /\ pc = "reset"
  /\ IF token[place] = None
     THEN Goto("take") /\ UNCHANGED fault
     ELSE /\ Goto("erase")
          /\ fault' = IF token[place] \in records THEN fault ELSE "dangling"
  /\ UNCHANGED <<libVars, workVars, ran>>

UnregisterBegin ==
  /\ pc = "erase" /\ Goto("erasing")
  /\ UNCHANGED <<libVars, workVars, ran, fault>>

UnregisterEnd ==
  /\ pc = "erasing" /\ Goto("remove")
  /\ callbacks' = callbacks \ {token[place]}
  /\ UNCHANGED <<alive, unborn, uniqueId, records, gpio, token, workVars, ran, fault>>

\* InterruptIn::remove_gpio_callback asserts that the driver knows the callback.
RemoveGpio(i) ==
  /\ gpio' = gpio \ {i}
  /\ fault' = IF i \in gpio THEN fault ELSE "assert"

\* Mutant: the callback is removed from the driver although others remain.
UnregisterGpioAlways ==
  /\ pc = "remove" /\ Goto("unrecord")
  /\ RemoveGpio(token[place].owner)
  /\ UNCHANGED <<alive, unborn, uniqueId, callbacks, records, token, workVars, ran>>

\* The last callback of the instance takes it out of the list of the driver.
UnregisterGpio ==
  /\ pc = "remove" /\ Goto("unrecord")
  /\ IF CallbacksOf(token[place].owner) = {}
     THEN RemoveGpio(token[place].owner)
     ELSE UNCHANGED <<gpio, fault>>
  /\ UNCHANGED <<alive, unborn, uniqueId, callbacks, records, token, workVars, ran>>

UnregisterRecord ==
  /\ pc = "unrecord" /\ Goto("take")
  /\ records' = records \ {token[place]}
  /\ UNCHANGED <<alive, unborn, uniqueId, callbacks, gpio, token, workVars, ran, fault>>

\* Mutant: the token that is moved from keeps its record.
TakeCopy ==
  /\ pc = "take" /\ Idle
  /\ token' = [token EXCEPT ![place] = IF from = None THEN None ELSE token[from]]
  /\ UNCHANGED <<alive, unborn, uniqueId, callbacks, records, gpio, ran, fault>>

\* _p_record = nullptr, or std::exchange with the token that is moved.
Take ==
  /\ pc = "take" /\ Idle
  /\ token' = [k \in Places |->
                 IF k = place /\ from # None THEN token[from]
                 ELSE IF k \in {place, from} THEN None
                 ELSE token[k]]
  /\ UNCHANGED <<alive, unborn, uniqueId, callbacks, records, gpio, ran, fault>>

(***************************************************************************)
(* InterruptIn::~InterruptIn, CallbackRegister::unregister_all_callbacks.  *)
(***************************************************************************)
Destroy(i) ==
  /\ pc = "idle" /\ i \in alive
  /\ Goto("clear") /\ inst' = i
  /\ had' = (CallbacksOf(i) # {})
  /\ UNCHANGED <<libVars, place, from, ran, fault>>

ClearBegin ==
  /\ pc = "clear" /\ Goto("clearing")
  /\ UNCHANGED <<libVars, workVars, ran, fault>>

ClearEnd ==
  /\ pc = "clearing" /\ Goto("unrecord_all")
  /\ callbacks' = callbacks \ CallbacksOf(inst)
  /\ UNCHANGED <<alive, unborn, uniqueId, records, gpio, token, workVars, ran, fault>>

UnrecordAll ==
  /\ pc = "unrecord_all" /\ Goto("remove_last")
  /\ records' = {r \in records : r.owner # inst}
  /\ UNCHANGED <<alive, unborn, uniqueId, callbacks, gpio, token, workVars, ran, fault>>

\* Mutant: had_callbacks is not remembered but read again after the clear.
RemoveLastLate ==
  /\ pc = "remove_last" /\ Goto("die")
  /\ IF CallbacksOf(inst) # {} THEN RemoveGpio(inst) ELSE UNCHANGED <<gpio, fault>>
  /\ UNCHANGED <<alive, unborn, uniqueId, callbacks, records, token, workVars, ran>>

RemoveLast ==
  /\ pc = "remove_last" /\ Goto("die")
  /\ IF had THEN RemoveGpio(inst) ELSE UNCHANGED <<gpio, fault>>
  /\ UNCHANGED <<alive, unborn, uniqueId, callbacks, records, token, workVars, ran>>

\* The members are destroyed.  ~CallbackRegister finds no record to invalidate.
Die ==
  /\ pc = "die" /\ Idle
  /\ alive' = alive \ {inst}
  /\ UNCHANGED <<unborn, uniqueId, callbacks, records, gpio, token, ran, fault>>

(***************************************************************************)
(* The interrupt: the driver calls InterruptIn::callback for each instance *)
(* in its list, which executes the callbacks of the instance.              *)
(***************************************************************************)
Press ==
  /\ ran' = {r \in callbacks : r.owner \in gpio}
  /\ fault' = IF ~(gpio \subseteq alive) THEN "dead_instance"
              ELSE IF pc \in ChangingPc
                      /\ (IF pc = "erasing" THEN token[place].owner ELSE inst) \in gpio
              THEN "changing_map"
              ELSE fault
  /\ UNCHANGED <<libVars, appVars>>

-----------------------------------------------------------------------------
Register == RegisterBegin \/ RegisterEnd \/ RegisterRecord
Unregister ==
  Reset \/ UnregisterBegin \/ UnregisterEnd \/ UnregisterGpio \/ UnregisterRecord \/ Take
UnregisterAll == ClearBegin \/ ClearEnd \/ UnrecordAll \/ RemoveLast \/ Die

Next ==
  /\ fault = "none"
  /\ \/ \E i \in Instances : Construct(i) \/ Destroy(i)
     \/ \E i \in Instances, k \in Tokens : AddCallback(i, k) \/ AddNothing(i, k)
     \/ \E k, l \in Tokens : MoveToken(k, l)
     \/ \E k \in Tokens : DestroyToken(k)
     \/ Register
     \/ Unregister
     \/ UnregisterAll
     \/ Press

Spec == Init /\ [][Next]_vars

-----------------------------------------------------------------------------
(***************************************************************************)
(* Properties.                                                             *)
(***************************************************************************)

\* The callbacks that are just being added or removed.
Unsettled ==
  {r \in Records :
     \/ pc = "record" /\ r = Added
     \/ pc \in {"remove", "unrecord", "take"} /\ r = token[place]
     \/ pc \in {"unrecord_all", "remove_last", "die"} /\ r.owner = inst}

\* A press executes exactly the callbacks that a token holds, those of all the
\* instances on the pin, also between two steps of the library; a callback
\* that is just being added or removed may be executed or not.
PressRunsTokens ==
  [][Press /\ fault' = "none" =>
       ran' \ Unsettled = {r \in Held : r.owner \in alive} \ Unsettled]_vars

\* A token reads a RegistrationRecord that is freed only when it outlives its
\* instance: however tokens are moved, assigned and destroyed, no two of them
\* come to own one record.
OnlyOutlivedDangles == fault = "dangling" => token[place].owner \notin alive

\* The interrupt never reaches an instance that is destroyed.
NoDeadInstance == fault # "dead_instance"

\* The driver always knows the callback that is removed from it: instances
\* come into its list once and leave it once.
RemoveSucceeds == fault # "assert"

=============================================================================
