--------------------------- MODULE MCHostDelegate ---------------------------
(* Bounds for HostInput and HostTextInput.  They share no state but        *)
(* `running`: each is explored while the other rests in its initial state. *)
(* Two pointers, so that one ends while the other stays down; two editing  *)
(* values, so that an update can be told from what it replaces.            *)
EXTENDS HostInput, HostTextInput, TLC
CONSTANTS textA, textB
TwoPointers == {1, 2}
ValuesUsed == {textA, textB}

\* No value is special, and all properties checked are invariants.
ValueSymmetry == Permutations(ValuesUsed)

VARIABLE explored   \* what is explored, never changed

textVars == <<service, session, text_sync_pending, native_text, uiStep, holder, task, platQ,
              uiQ, live, ghosts>>
inputVars == <<deliver_queued_events, visible, focused, delegate_generation, bound,
               active_pointers, poster, stopping, evQ, view, events, uiRefused>>

(* Type invariant. *)
HostTypeOK == DelegateTypeOK /\ TypeOK

HostInit ==
  /\ explored \in {"input", "text"}
  /\ DelegateInit /\ Init
  /\ explored = "text" => visible

HostNext ==
  /\ UNCHANGED explored
  /\ \/ explored = "input" /\ DelegateNext /\ UNCHANGED textVars
     \/ explored = "text" /\ Next /\ UNCHANGED inputVars

HostSpec == HostInit /\ [][HostNext]_<<explored, running, textVars, inputVars>>
=============================================================================
