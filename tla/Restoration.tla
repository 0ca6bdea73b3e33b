---------------------------- MODULE Restoration ----------------------------
(***************************************************************************)
(* Restorable state of BuildOwner (src/src/ui.cpp) and BuildContext        *)
(* (include/dui/runtime.hpp): records restored before the first mount wait *)
(* until a state slot with their id is declared, and saving collects the   *)
(* waiting records and the cached values of the slots.  Restart saves and  *)
(* restores into a new owner.  A record of another category cannot be      *)
(* decoded by a slot.                                                      *)
(***************************************************************************)
EXTENDS Integers, FiniteSets

CONSTANTS
  Elements, SlotNames, RestorationIds, NoId,
  Values, NoValue,
  Foreign   \* a value of another category

ASSUME RestorationConstants ==
  NoId \notin RestorationIds /\ NoValue \notin Values /\ Foreign \notin Values \cup {NoValue}

VARIABLES
  waiting,  \* pending_restoration_
  slots,    \* state_ of each mounted element
  present,  \* mounted elements
  pristine, \* nothing was mounted yet
  expected  \* what each id should be saved as

restorationVars == <<waiting, slots, present, pristine, expected>>

AllSlots == Elements \X SlotNames
Undeclared == [value |-> NoValue, id |-> NoId, cached |-> NoValue]
Records == [RestorationIds -> Values \cup {NoValue, Foreign}]
None == [i \in RestorationIds |-> NoValue]

(* Type invariant. *)
RestorationTypeOK ==
  /\ waiting \in Records /\ expected \in Records
  /\ slots \in [AllSlots -> [value : Values \cup {NoValue}, id : RestorationIds \cup {NoId},
                             cached : Values \cup {NoValue}]]
  /\ present \subseteq Elements /\ pristine \in BOOLEAN

RestorationInit ==
  /\ waiting = None /\ expected = None
  /\ slots = [s \in AllSlots |-> Undeclared] /\ present = {} /\ pristine = TRUE
-----------------------------------------------------------------------------
(* save_restoration_state. *)
Live(s) == slots[s].id # NoId
save_restoration_state ==
  [i \in RestorationIds |->
     IF \E s \in AllSlots : slots[s].id = i THEN slots[CHOOSE s \in AllSlots : slots[s].id = i].cached
                                            ELSE waiting[i]]

restore_state(records) ==
  /\ pristine
  /\ waiting' = records /\ expected' = records
  /\ UNCHANGED <<slots, present, pristine>>

discard_pending_restoration ==
  /\ waiting' = None
  /\ expected' = [i \in RestorationIds |-> IF waiting[i] = NoValue THEN expected[i] ELSE NoValue]
  /\ UNCHANGED <<slots, present, pristine>>

Restart ==
  /\ waiting' = save_restoration_state
  /\ slots' = [s \in AllSlots |-> Undeclared] /\ present' = {} /\ pristine' = TRUE
  /\ UNCHANGED expected
-----------------------------------------------------------------------------
make_element(e) ==
  /\ e \notin present
  /\ present' = present \cup {e} /\ pristine' = FALSE
  /\ UNCHANGED <<waiting, slots, expected>>

(* An unmounted element's state is gone. *)
unmount_element(e) ==
  /\ e \in present
  /\ present' = present \ {e}
  /\ slots' = [s \in AllSlots |-> IF s[1] = e THEN Undeclared ELSE slots[s]]
  /\ expected' = [i \in RestorationIds |->
                    IF \E n \in SlotNames : slots[<<e, n>>].id = i THEN NoValue ELSE expected[i]]
  /\ UNCHANGED <<waiting, pristine>>

Declared(s) == slots[s].value # NoValue
Forgetting(s) == [i \in RestorationIds |-> IF slots[s].id = i THEN NoValue ELSE expected[i]]

(* state: a slot declared without an id is not restorable any more. *)
declare_state(s, initial) ==
  /\ s[1] \in present
  /\ slots' = [slots EXCEPT ![s] = [value |-> IF Declared(s) THEN @.value ELSE initial,
                                    id |-> NoId, cached |-> NoValue]]
  /\ expected' = Forgetting(s)
  /\ UNCHANGED <<waiting, present, pristine>>

(* restorable_state refuses an id another slot has; a new slot takes the   *)
(* waiting record, if it can be decoded, and else the initial value; a     *)
(* slot declared before keeps its value.                                   *)
restoration_id_in_use(i, s) == \E t \in AllSlots \ {s} : slots[t].id = i

restorable_state(s, i, initial) ==
  /\ s[1] \in present /\ ~restoration_id_in_use(i, s)
  /\ ~(~Declared(s) /\ waiting[i] = Foreign)
  /\ LET v == IF Declared(s) THEN slots[s].value
              ELSE IF waiting[i] # NoValue THEN waiting[i] ELSE initial
     IN  /\ slots' = [slots EXCEPT ![s] = [value |-> v, id |-> i, cached |-> v]]
         /\ expected' = [Forgetting(s) EXCEPT ![i] = v]
  /\ waiting' = [waiting EXCEPT ![i] = NoValue]
  /\ UNCHANGED <<present, pristine>>

(* StateHandle::set, which also encodes the new value for saving. *)
SetKeepsCached(s, v) == [slots[s] EXCEPT !.value = v]
Assigned(s, v) == [slots[s] EXCEPT !.value = v, !.cached = IF slots[s].id = NoId THEN @ ELSE v]

assign_state(s, v) ==
  /\ s[1] \in present /\ Declared(s)
  /\ slots' = [slots EXCEPT ![s] = Assigned(s, v)]
  /\ expected' = [i \in RestorationIds |-> IF slots[s].id = i THEN v ELSE expected[i]]
  /\ UNCHANGED <<waiting, present, pristine>>

RestorationNext ==
  \/ discard_pending_restoration \/ Restart
  \/ \E records \in Records : restore_state(records)
  \/ \E e \in Elements : make_element(e) \/ unmount_element(e)
  \/ \E s \in AllSlots, v \in Values :
       \/ declare_state(s, v) \/ assign_state(s, v)
       \/ \E i \in RestorationIds : restorable_state(s, i, v)

RestorationSpec == RestorationInit /\ [][RestorationNext]_restorationVars
-----------------------------------------------------------------------------
(* At any time saving succeeds, every id once, and loses nothing: a record *)
(* that no slot has claimed is saved as it was restored, however often the *)
(* program restarts in between, and a claimed one with its slot's current  *)
(* value.                                                                  *)
RestorationKept ==
  /\ \A s, t \in AllSlots : s # t /\ Live(s) => slots[s].id # slots[t].id
  /\ \A s \in AllSlots : Live(s) => waiting[slots[s].id] = NoValue /\ slots[s].cached # NoValue
  /\ save_restoration_state = expected
=============================================================================
