---------------------------- MODULE WaylandInput ----------------------------
(***************************************************************************)
(* Pointer, keyboard and key repeat of the native Wayland window:          *)
(* WaylandPointerState, WaylandKeyboardState and WaylandRepeatState of     *)
(* src/src/platform/wayland.cpp under the seat handlers of                 *)
(* wayland_native.cpp, and the part of WaylandConnection::dispatch that    *)
(* polls the repeat timer.  The compositor may send any event at any time. *)
(* `input' is the window; a handler is a function from window to window,   *)
(* `ok' whether every system and library call it makes succeeds.  Pointer  *)
(* positions, key names and modifiers are left out.                        *)
(***************************************************************************)
EXTENDS Integers, FiniteSets

CONSTANTS
  Keys,
  RepeatingKeys,       \* keys for which the keymap enables repeat
  NoKey,
  Settings,            \* valid repeat_info: [interval, delay], interval 0 is off
  MaxRepeatGeneration, \* limit of the repeat generation
  MaxExpirations       \* bound on the unread expirations of the timer

ASSUME InputConstants ==
  /\ RepeatingKeys \subseteq Keys /\ NoKey \notin Keys
  /\ Settings \subseteq [interval : Nat, delay : Nat]
  /\ MaxRepeatGeneration \in Nat \ {0} /\ MaxExpirations \in Nat \ {0}

VARIABLES
  input,  \* the window's input state
  poll,   \* the owner thread in dispatch: phase, repeat_generation, timer readable
  told,   \* what the host was told: primary button, focus, keys, a stray repeat
  held    \* keys down according to the compositor's events

inputVars == <<input, poll, told, held>>

RepeatGeneration == 1 .. MaxRepeatGeneration
NoTimer == [generation |-> 0, expired |-> 0]

Input == [
  pointer : BOOLEAN, entered : BOOLEAN, active : BOOLEAN,
  keyboard : BOOLEAN, keymap : BOOLEAN, focused : BOOLEAN, pressed : SUBSET Keys,
  candidate : Keys \cup {NoKey}, setting : Settings \cup {[interval |-> 0, delay |-> 0]},
  generation : RepeatGeneration,
  timer : [generation : 0 .. MaxRepeatGeneration, expired : 0 .. MaxExpirations],
  native_running : BOOLEAN, host_running : BOOLEAN]

(* Type invariant. *)
InputTypeOK ==
  /\ input \in Input
  /\ poll \in [phase : {"idle", "polling", "events"},
               generation : 0 .. MaxRepeatGeneration, ready : BOOLEAN]
  /\ told \in [down : BOOLEAN, focused : BOOLEAN, keys : SUBSET Keys, stray : BOOLEAN]
  /\ held \subseteq Keys

InputInit ==
  /\ input = [pointer |-> FALSE, entered |-> FALSE, active |-> FALSE,
              keyboard |-> FALSE, keymap |-> FALSE, focused |-> FALSE, pressed |-> {},
              candidate |-> NoKey, setting |-> [interval |-> 0, delay |-> 0],
              generation |-> 1, timer |-> NoTimer,
              native_running |-> TRUE, host_running |-> TRUE]
  /\ poll = [phase |-> "idle", generation |-> 0, ready |-> FALSE]
  /\ told = [down |-> FALSE, focused |-> FALSE, keys |-> {}, stray |-> FALSE]
  /\ held = {}
-----------------------------------------------------------------------------
(* The driver of a stopped host ignores what it is sent. *)
fail_native(w) == [w EXCEPT !.host_running = FALSE]
Tells(w, t) == IF w.host_running THEN t ELSE told

(* WaylandRepeatState.  Every change of the candidate or of the timing     *)
(* takes a new generation; at the limit advance_generation throws.         *)
CanAdvanceRepeat(w) == w.generation < MaxRepeatGeneration
WithCandidate(w, k) == [w EXCEPT !.candidate = k, !.generation = @ + 1]
Scheduled(w) == w.candidate # NoKey /\ w.setting.interval # 0

(* sync_repeat_timer: timerfd_settime starts the schedule afresh or        *)
(* disarms; unread expirations go either way.                              *)
sync_repeat_timer(w) ==
  [w EXCEPT !.timer = IF Scheduled(w) THEN [generation |-> w.generation, expired |-> 0]
                                      ELSE NoTimer]

(* cancel_repeat: what it leaves when it succeeds and when it throws. *)
Cancelled(w) == IF w.candidate = NoKey THEN w ELSE WithCandidate(w, NoKey)
CancelThrows(w, ok) == (w.candidate # NoKey /\ ~CanAdvanceRepeat(w)) \/ ~ok
cancel_repeat(w, ok) ==
  IF w.candidate # NoKey /\ ~CanAdvanceRepeat(w) THEN w
  ELSE IF ok THEN sync_repeat_timer(Cancelled(w))
  ELSE Cancelled(w)

cancel_repeat_noexcept(w, ok) ==
  LET c == cancel_repeat(w, ok)
  IN  IF CancelThrows(w, ok) /\ w.native_running THEN fail_native(c) ELSE c

destroy_xkb(w, ok) ==
  [cancel_repeat_noexcept(w, ok) EXCEPT !.keymap = FALSE, !.pressed = {}]

(* destroy_pointer and destroy_keyboard, with what they tell the host. *)
destroy_pointer(w) == [w EXCEPT !.entered = FALSE, !.active = FALSE, !.pointer = FALSE]
destroy_keyboard(w, ok) ==
  [destroy_xkb(w, ok) EXCEPT !.focused = FALSE, !.keyboard = FALSE]
PointerGone(w, t) == IF w.active THEN [t EXCEPT !.down = FALSE] ELSE t
KeyboardGone(w, t) == IF w.focused THEN [t EXCEPT !.focused = FALSE, !.keys = {}] ELSE t
-----------------------------------------------------------------------------
(* Handlers run while dispatch handles pending display events: before it   *)
(* polls, and after the poll found the display readable.                   *)
Handling == poll.phase \in {"idle", "events"}

(* What a capability that comes or goes makes of the window. *)
seat_pointer_capabilities_changed(w, on, ok) ==
  IF ~on THEN destroy_pointer(w)
  ELSE IF w.pointer \/ ~w.native_running THEN w
  ELSE IF ok THEN [w EXCEPT !.pointer = TRUE] ELSE fail_native(destroy_pointer(w))

seat_keyboard_capabilities_changed(w, on, ok) ==
  IF ~on THEN destroy_keyboard(w, ok)
  ELSE IF w.keyboard \/ ~w.native_running THEN w
  ELSE IF ok THEN [w EXCEPT !.keyboard = TRUE] ELSE fail_native(destroy_keyboard(w, ok))

(* active_seat_changed: the pointer, then the keyboard. *)
seat_capabilities_changed(pointerOn, keyboardOn, ok) ==
  /\ Handling
  /\ LET p == seat_pointer_capabilities_changed(input, pointerOn, ok)
     IN  /\ input' = seat_keyboard_capabilities_changed(p, keyboardOn, ok)
         /\ told' = LET t == IF pointerOn THEN told ELSE Tells(input, PointerGone(input, told))
                    IN  IF keyboardOn THEN t ELSE Tells(p, KeyboardGone(p, t))
  /\ held' = IF keyboardOn THEN held ELSE {}
  /\ UNCHANGED poll

handle_pointer_enter ==
  /\ Handling /\ input.pointer
  /\ input' = [input EXCEPT !.entered = TRUE]
  /\ UNCHANGED <<poll, told, held>>

LeaveKeepsPress == input' = [input EXCEPT !.entered = FALSE] /\ UNCHANGED told
LeavePointer ==
  /\ input' = [input EXCEPT !.entered = FALSE, !.active = FALSE]
  /\ told' = Tells(input, PointerGone(input, told))

handle_pointer_leave ==
  /\ Handling /\ input.pointer
  /\ LeavePointer
  /\ UNCHANGED <<poll, held>>

(* The primary button: a press outside the surface and an unmatched        *)
(* release are ignored, a second press is a protocol error.                *)
handle_pointer_button(down) ==
  /\ Handling /\ input.pointer
  /\ \/ /\ down /\ input.entered /\ ~input.active
        /\ input' = [input EXCEPT !.active = TRUE]
        /\ told' = Tells(input, [told EXCEPT !.down = TRUE])
     \/ /\ down /\ input.entered /\ input.active
        /\ input' = fail_native(input) /\ UNCHANGED told
     \/ /\ ~down /\ input.active
        /\ input' = [input EXCEPT !.active = FALSE]
        /\ told' = Tells(input, [told EXCEPT !.down = FALSE])
  /\ UNCHANGED <<poll, held>>
-----------------------------------------------------------------------------
handle_keyboard_keymap(ok) ==
  /\ Handling /\ input.keyboard
  /\ input' = IF ok THEN [destroy_xkb(input, ok) EXCEPT !.keymap = TRUE]
                    ELSE fail_native(input)
  /\ UNCHANGED <<poll, told, held>>

handle_keyboard_enter ==
  /\ Handling /\ input.keyboard
  /\ input' = [input EXCEPT !.focused = TRUE]
  /\ told' = Tells(input, [told EXCEPT !.focused = TRUE])
  /\ UNCHANGED <<poll, held>>

handle_keyboard_leave(ok) ==
  /\ Handling /\ input.keyboard
  /\ LET c == cancel_repeat(input, ok)
     IN  IF CancelThrows(input, ok)
           THEN input' = fail_native(c) /\ UNCHANGED told
           ELSE /\ input' = [c EXCEPT !.focused = FALSE, !.pressed = {}]
                /\ told' = Tells(input, [told EXCEPT !.focused = FALSE, !.keys = {}])
  /\ held' = {}
  /\ UNCHANGED poll

(* A press: the key is held, a repeating one becomes the candidate, and    *)
(* the host is told last.                                                  *)
KeyDown(k, ok) ==
  LET w == [input EXCEPT !.pressed = @ \cup {k}]
      fresh == input.keymap /\ input.focused /\ k \notin input.pressed
  IN  \/ /\ ~input.keymap \/ ~ok \/ (input.focused /\ k \in input.pressed)
         /\ input' = fail_native(input) /\ UNCHANGED told
      \/ /\ input.keymap /\ ~input.focused
         /\ UNCHANGED <<input, told>>
      \/ /\ fresh /\ k \in RepeatingKeys /\ ~(CanAdvanceRepeat(w) /\ ok)
         /\ input' = fail_native(IF CanAdvanceRepeat(w) THEN WithCandidate(w, k) ELSE w)
         /\ UNCHANGED told
      \/ /\ fresh
         /\ k \in RepeatingKeys => CanAdvanceRepeat(w) /\ ok
         /\ input' = IF k \in RepeatingKeys THEN sync_repeat_timer(WithCandidate(w, k)) ELSE w
         /\ told' = Tells(input, [told EXCEPT !.keys = @ \cup {k}])

(* A release: the candidate stops repeating first. *)
ReleaseKeepsTimer(k, ok) == IF input.candidate = k THEN Cancelled(input) ELSE input
ReleaseCandidate(k, ok) == IF input.candidate = k THEN cancel_repeat(input, ok) ELSE input

KeyUp(k, ok) ==
  LET w == ReleaseCandidate(k, ok)
      throws == input.candidate = k /\ CancelThrows(input, ok)
  IN  \/ /\ ~input.keymap
         /\ input' = fail_native(input) /\ UNCHANGED told
      \/ /\ input.keymap /\ throws
         /\ input' = fail_native(w) /\ UNCHANGED told
      \/ /\ input.keymap /\ ~throws
         /\ IF w.focused /\ k \in w.pressed
              THEN /\ input' = [w EXCEPT !.pressed = @ \ {k}]
                   /\ told' = Tells(input, [told EXCEPT !.keys = @ \ {k}])
              ELSE input' = w /\ UNCHANGED told

handle_keyboard_key(k, down, ok) ==
  /\ Handling /\ input.keyboard
  /\ IF down THEN KeyDown(k, ok) ELSE KeyUp(k, ok)
  /\ held' = IF down THEN held \cup {k} ELSE held \ {k}
  /\ UNCHANGED poll

(* repeat_info: invalid timing is a failure, unchanged timing only starts  *)
(* the timer afresh.                                                       *)
handle_keyboard_repeat_info(s, ok) ==
  /\ Handling /\ input.keyboard
  /\ LET same == s = input.setting
         w == IF same THEN input ELSE [input EXCEPT !.setting = s, !.generation = @ + 1]
     IN  input' = IF ~same /\ ~CanAdvanceRepeat(input) THEN fail_native(input)
                  ELSE IF ok THEN sync_repeat_timer(w) ELSE fail_native(w)
  /\ UNCHANGED <<poll, told, held>>
-----------------------------------------------------------------------------
(* dispatch: the repeat generation is read before the poll, which returns  *)
(* for display events or for the timer; the timer is handled only after    *)
(* the display's events.                                                   *)
StartPoll ==
  /\ poll.phase = "idle"
  /\ poll' = [phase |-> "polling", generation |-> input.generation, ready |-> FALSE]
  /\ UNCHANGED <<input, told, held>>

PollReturns ==
  /\ poll.phase = "polling"
  /\ poll' = [poll EXCEPT !.phase = "events", !.ready = input.timer.expired > 0]
  /\ UNCHANGED <<input, told, held>>

(* repeat_ready: a generation overtaken by the events leaves the timer     *)
(* alone; else the expirations are read and the held candidate repeats.    *)
Repeats(w) == Scheduled(w) /\ w.focused /\ w.candidate \in w.pressed

EndDispatch(ok) ==
  /\ poll.phase = "events"
  /\ poll' = [poll EXCEPT !.phase = "idle", !.ready = FALSE]
  /\ IF poll.ready /\ poll.generation = input.generation /\ input.timer.expired > 0
       THEN IF ok
         THEN /\ input' = [input EXCEPT !.timer.expired = 0]
              /\ told' = IF Repeats(input) /\ input.candidate \notin told.keys \cap held
                           THEN Tells(input, [told EXCEPT !.stray = TRUE]) ELSE told
         ELSE input' = fail_native(input) /\ UNCHANGED told
       ELSE UNCHANGED <<input, told>>
  /\ UNCHANGED held

(* The kernel's timer. *)
TimerExpires ==
  /\ input.timer.generation # 0 /\ input.timer.expired < MaxExpirations
  /\ input' = [input EXCEPT !.timer.expired = @ + 1]
  /\ UNCHANGED <<poll, told, held>>

(* The host stops; its shutdown command, a task that dispatch runs, tears  *)
(* the children down (shutdown_native).                                    *)
HostStopsInput ==
  /\ input.host_running
  /\ input' = fail_native(input)
  /\ UNCHANGED <<poll, told, held>>

ShutdownInput(ok) ==
  /\ poll.phase = "idle" /\ ~input.host_running /\ input.native_running
  /\ input' = destroy_keyboard(destroy_pointer([input EXCEPT !.native_running = FALSE]), ok)
  /\ held' = {}
  /\ UNCHANGED <<poll, told>>

InputNext ==
  \/ handle_pointer_enter \/ handle_pointer_leave \/ handle_keyboard_enter
  \/ StartPoll \/ PollReturns \/ TimerExpires \/ HostStopsInput
  \/ \E b \in BOOLEAN : handle_pointer_button(b)
  \/ \E ok \in BOOLEAN :
       \/ handle_keyboard_keymap(ok) \/ handle_keyboard_leave(ok)
       \/ EndDispatch(ok) \/ ShutdownInput(ok)
       \/ \E p, k \in BOOLEAN : seat_capabilities_changed(p, k, ok)
       \/ \E k \in Keys, b \in BOOLEAN : handle_keyboard_key(k, b, ok)
       \/ \E s \in Settings : handle_keyboard_repeat_info(s, ok)

InputSpec == InputInit /\ [][InputNext]_inputVars
-----------------------------------------------------------------------------
(* What a running host was told agrees with the seat: its button is down   *)
(* only while a pointer object holds a press that began on the surface, so *)
(* leaving, losing the capability or tearing down always cancels it; it is *)
(* focused only through a live keyboard, and every key the window holds is *)
(* one the host saw go down.                                               *)
HostFollowsSeat ==
  input.host_running =>
    /\ told.down = input.active
    /\ input.active => input.pointer /\ input.entered
    /\ told.focused = input.focused
    /\ input.focused => input.keyboard
    /\ input.pressed \subseteq told.keys \cap held

(* Only a key the host saw go down and the compositor still holds repeats: *)
(* between handlers the timer runs exactly for the current generation of a *)
(* focused, held candidate, its unread expirations are of that generation, *)
(* and no repeat was sent for another key, however events, timing changes  *)
(* and the poll interleave.                                                *)
RepeatFits ==
  /\ ~told.stray
  /\ input.host_running =>
       /\ input.candidate # NoKey => input.focused /\ input.candidate \in input.pressed
       /\ input.timer.generation = IF Scheduled(input) THEN input.generation ELSE 0
=============================================================================
