--------------------------- MODULE ActionTapping ---------------------------
(***************************************************************************)
(* Tap-hold keys (quantum/action_tapping.c): process_tapping decides       *)
(* whether a dual-role key is tapped or held and delays the events that    *)
(* follow it in the waiting buffer until it has decided.  Decided events   *)
(* go to process_record, modelled by what it does to the keyboard report   *)
(* and to the layer state (quantum/action.c, quantum/action_layer.c).      *)
(*                                                                         *)
(* A step is one call of action_exec's environment (a key event or a tick) *)
(* or one call of process_tapping; the firmware runs the latter to the end *)
(* of action_tapping_process before the next event.  The build is Vial's:  *)
(* permissive hold and hold-on-other-key-press are settings, chordal hold  *)
(* and retro shift are compiled out.                                       *)
(***************************************************************************)
EXTENDS Integers, Sequences, FiniteSetsExt

(* An operator whose name ends in _ and a lower-case word is a deliberately *)
(* wrong variant of the definition that follows it, used as a mutant.       *)

CONSTANTS
  Keys,                \* positions of the matrix
  Layers,              \* 0 is the default layer
  Codes, Mods,         \* what keys can register
  Keymap,              \* action_for_key: layer -> key -> action
  TAPPING_TERM, QUICK_TAP_TERM,
  TIMER_RANGE,         \* the timer counts modulo this (2^16)
  WAITING_BUFFER_SIZE, \* one more than the records the ring buffer can hold
  PERMISSIVE_HOLD, HOLD_ON_OTHER_KEY_PRESS,
  MaxGap,              \* bound: the longest time between two calls of action_exec
  DEBOUNCE,            \* a key changes at most once between two ticks
  NoKey, NoCode

Kinds == {"key", "mod", "mt", "lt", "mo", "trns"}
Action == [kind : Kinds, code : Codes \cup {NoCode}, mods : SUBSET Mods, layer : Layers]

ASSUME TappingAssumption ==
  /\ Layers \subseteq Nat /\ 0 \in Layers
  /\ Keymap \in [Layers -> [Keys -> Action]]
  /\ TIMER_RANGE \in Nat \ {0}
  /\ TAPPING_TERM \in 1..(TIMER_RANGE - 1)
  /\ QUICK_TAP_TERM \in 0..TAPPING_TERM
  /\ WAITING_BUFFER_SIZE \in Nat \ {0, 1}
  /\ PERMISSIVE_HOLD \in BOOLEAN
  /\ HOLD_ON_OTHER_KEY_PRESS \in BOOLEAN
  /\ MaxGap \in Nat \ {0}
  /\ DEBOUNCE \in BOOLEAN
  /\ NoKey \notin Keys
  /\ NoCode \notin Codes

Time == 0..(TIMER_RANGE - 1)

(* keyrecord_t: the event and its tap state. *)
Record == [key : Keys, pressed : BOOLEAN, time : Time, count : 0..15, interrupted : BOOLEAN]
MAKE_KEYEVENT(k, p, t) ==
  [key |-> k, pressed |-> p, time |-> t, count |-> 0, interrupted |-> FALSE]
MAKE_TICK_EVENT(t) == MAKE_KEYEVENT(NoKey, FALSE, t)
NoRecord == MAKE_TICK_EVENT(0)
IS_NOEVENT(r) == r.key = NoKey

(* layer_state, source_layers_cache, and the keys and modifiers of the report. *)
Keyboard == [layers : SUBSET Layers, cache : [Keys -> Layers],
             codes : SUBSET (Codes \cup {NoCode}), mods : SUBSET Mods]

VARIABLES
  held,           \* the keys that are physically down
  changed,        \* the keys that changed since the last tick
  now,            \* timer_read()
  running,        \* the record process_tapping is called with: "event" for event,
                  \* "buffer" for the oldest one of the waiting buffer, or "idle"
  event,
  tapping_key,
  waiting_buffer, \* the ring buffer, oldest record first
  kb              \* the keyboard state process_record works on

vars == <<held, changed, now, running, event, tapping_key, waiting_buffer, kb>>

-----------------------------------------------------------------------------
(* Layers and actions. *)

layer_switch_get_layer(k, key) ==
  LET opaque == {l \in k.layers \cup {0} : Keymap[l][key].kind # "trns"}
      top == {l \in opaque : \A m \in opaque : m <= l}
  IN IF top = {} THEN 0 ELSE CHOOSE l \in top : TRUE
layer_switch_get_action(k, key) == Keymap[layer_switch_get_layer(k, key)][key]

update_source_layers_cache(k, key) ==
  [k EXCEPT !.cache[key] = layer_switch_get_layer(k, key)]

(* A key is released on the layer it was pressed on. *)
store_or_get_action(k, r) ==
  IF r.pressed THEN layer_switch_get_action(k, r.key) ELSE Keymap[k.cache[r.key]][r.key]

is_tap_record(k, r) ==
  ~IS_NOEVENT(r) /\ layer_switch_get_action(k, r.key).kind \in {"mt", "lt"}

(* process_action: what an action of this kind, tapped or held, registers   *)
(* when it is pressed and unregisters when it is released.                  *)
TapPart(action, count) ==
  IF action.kind = "key" \/ (action.kind \in {"mt", "lt"} /\ count > 0) THEN {action.code} ELSE {}
ModPart(action, count) ==
  IF action.kind = "mod" \/ (action.kind = "mt" /\ count = 0) THEN action.mods ELSE {}
LayerPart(action, count) ==
  IF action.kind = "mo" \/ (action.kind = "lt" /\ count = 0) THEN {action.layer} ELSE {}

process_record(k, r) ==
  LET action == store_or_get_action(k, r)
      codes == TapPart(action, r.count)
      mods == ModPart(action, r.count)
      layers == LayerPart(action, r.count)
  IN IF r.pressed
     THEN [update_source_layers_cache(k, r.key) EXCEPT
             !.codes = @ \cup codes, !.mods = @ \cup mods, !.layers = @ \cup layers]
     ELSE [k EXCEPT !.codes = @ \ codes, !.mods = @ \ mods, !.layers = @ \ layers]

(* clear_keyboard leaves the layers alone. *)
clear_keyboard(k) == [k EXCEPT !.codes = {}, !.mods = {}]

-----------------------------------------------------------------------------
(* The waiting buffer and the tapping term. *)

keyp == IF running = "buffer" THEN waiting_buffer[1] ELSE event

TIMER_DIFF_16(a, b) == (a - b) % TIMER_RANGE
WITHIN_TAPPING_TERM_ticksIgnored(r, tk) ==
  IS_NOEVENT(r) \/ TIMER_DIFF_16(r.time, tk.time) < TAPPING_TERM
WITHIN_TAPPING_TERM(r, tk) == TIMER_DIFF_16(r.time, tk.time) < TAPPING_TERM
WITHIN_QUICK_TAP_TERM(r, tk) == TIMER_DIFF_16(r.time, tk.time) < QUICK_TAP_TERM
IS_TAPPING_RECORD(r) == r.key = tapping_key.key

waiting_buffer_typed_anyKey(r) ==
  \E i \in 1..Len(waiting_buffer) : waiting_buffer[i].pressed # r.pressed
waiting_buffer_typed(r) ==
  \E i \in 1..Len(waiting_buffer) :
    waiting_buffer[i].key = r.key /\ waiting_buffer[i].pressed # r.pressed

(* The releases of the tapping key that waiting_buffer_scan_tap looks for. *)
TapReleases(tk) ==
  {i \in 1..Len(waiting_buffer) :
     /\ waiting_buffer[i].key = tk.key
     /\ ~waiting_buffer[i].pressed
     /\ WITHIN_TAPPING_TERM(waiting_buffer[i], tk)}

BufferFull_offByOne == Len(waiting_buffer) >= WAITING_BUFFER_SIZE
BufferFull == Len(waiting_buffer) + 1 >= WAITING_BUFFER_SIZE

(* process_tapping returns true: the record is done with.  It came with the *)
(* event, or it is popped from the buffer; the buffer is processed next.    *)
Consumed_loopSkipped(tk, k, buffer) ==
  LET left == IF running = "event" THEN buffer ELSE Tail(buffer)
  IN /\ tapping_key' = tk
     /\ kb' = k
     /\ waiting_buffer' = left
     /\ running' = IF left = <<>> \/ running = "event" THEN "idle" ELSE "buffer"
     /\ event' = NoRecord
     /\ UNCHANGED <<held, changed, now>>
Consumed(tk, k, buffer) ==
  LET left == IF running = "event" THEN buffer ELSE Tail(buffer)
  IN /\ tapping_key' = tk
     /\ kb' = k
     /\ waiting_buffer' = left
     /\ running' = IF left = <<>> THEN "idle" ELSE "buffer"
     /\ event' = NoRecord
     /\ UNCHANGED <<held, changed, now>>

(* process_tapping returns false: waiting_buffer_enq, which drops a tick and *)
(* clears everything when the buffer is full; a record of the buffer stays  *)
(* where it is, with its tap state r, and ends the processing of the buffer. *)
Deferred(tk, k, r) ==
  /\ event' = NoRecord
  /\ UNCHANGED <<held, changed, now>>
  /\ \/ /\ running = "buffer"
        /\ waiting_buffer' = [waiting_buffer EXCEPT ![1] = r]
        /\ running' = "idle"
        /\ tapping_key' = tk
        /\ kb' = k
     \/ /\ running = "event"
        /\ IS_NOEVENT(r)
        /\ running' = IF waiting_buffer = <<>> THEN "idle" ELSE "buffer"
        /\ tapping_key' = tk
        /\ kb' = k
        /\ UNCHANGED waiting_buffer
     \/ /\ running = "event"
        /\ ~IS_NOEVENT(r)
        /\ ~BufferFull
        /\ waiting_buffer' = Append(waiting_buffer, r)
        /\ running' = "buffer"
        /\ tapping_key' = tk
        /\ kb' = k
     \/ /\ running = "event"
        /\ ~IS_NOEVENT(r)
        /\ BufferFull
        /\ waiting_buffer' = <<>>
        /\ running' = "idle"
        /\ tapping_key' = NoRecord
        /\ kb' = clear_keyboard(k)

(* tapping_key = *keyp, then waiting_buffer_scan_tap: if the key's release  *)
(* is already in the buffer, it is a tap.                                   *)
StartTapping_notScanned(k) == Consumed(keyp, k, waiting_buffer)
StartTapping(k) ==
  LET found == TapReleases(keyp)
      tap == [keyp EXCEPT !.count = 1]
  IN IF keyp.count > 0 \/ found = {}
     THEN Consumed(keyp, k, waiting_buffer)
     ELSE Consumed(tap, process_record(k, tap), [waiting_buffer EXCEPT ![Min(found)].count = 1])

-----------------------------------------------------------------------------
(* process_tapping, one action per branch. *)

ResetState == running # "idle" /\ IS_NOEVENT(tapping_key)
PressedState ==
  /\ running # "idle"
  /\ ~IS_NOEVENT(tapping_key)
  /\ tapping_key.pressed
ReleasedState ==
  /\ running # "idle"
  /\ ~IS_NOEVENT(tapping_key)
  /\ ~tapping_key.pressed
Undecided == PressedState /\ tapping_key.count = 0 /\ WITHIN_TAPPING_TERM(keyp, tapping_key)
Tapped == PressedState /\ tapping_key.count > 0

(* A tick that finds nothing to time out. *)
TickIgnored ==
  /\ IS_NOEVENT(keyp)
  /\ \/ ResetState
     \/ Undecided
     \/ Tapped
     \/ ReleasedState /\ WITHIN_TAPPING_TERM(keyp, tapping_key)
  /\ Consumed(tapping_key, kb, waiting_buffer)

StartTap ==
  /\ ResetState
  /\ keyp.pressed
  /\ is_tap_record(kb, keyp)
  /\ StartTapping(kb)

RegularKey ==
  /\ ResetState
  /\ ~IS_NOEVENT(keyp)
  /\ ~(keyp.pressed /\ is_tap_record(kb, keyp))
  /\ Consumed(tapping_key, process_record(kb, keyp), waiting_buffer)

FirstTap ==
  LET tap == [tapping_key EXCEPT !.count = 1]
  IN /\ Undecided
     /\ IS_TAPPING_RECORD(keyp)
     /\ ~keyp.pressed
     /\ Deferred(tap, process_record(kb, tap),
                 [keyp EXCEPT !.count = 1, !.interrupted = tapping_key.interrupted])

(* Another key was pressed and released within the tapping term. *)
NestedTap ==
  /\ Undecided
  /\ ~IS_NOEVENT(keyp)
  /\ ~IS_TAPPING_RECORD(keyp)
  /\ ~keyp.pressed
  /\ waiting_buffer_typed(keyp)
  /\ \/ PERMISSIVE_HOLD /\ Deferred(NoRecord, process_record(kb, tapping_key), keyp)
     \/ ~PERMISSIVE_HOLD /\ Deferred(tapping_key, kb, keyp)

(* Modifiers and layers are retained until the tapping key is decided. *)
Retained(r) ==
  LET action == layer_switch_get_action(kb, r.key)
  IN \/ action.kind \in {"mod", "lt", "mo"}
     \/ action.kind = "mt" /\ r.count = 0

ReleaseOfEarlierKey_swallowed ==
  /\ Undecided
  /\ ~IS_NOEVENT(keyp)
  /\ ~IS_TAPPING_RECORD(keyp)
  /\ ~keyp.pressed
  /\ ~waiting_buffer_typed(keyp)
  /\ Consumed(tapping_key, IF Retained(keyp) THEN kb ELSE process_record(kb, keyp), waiting_buffer)
ReleaseOfEarlierKey ==
  /\ Undecided
  /\ ~IS_NOEVENT(keyp)
  /\ ~IS_TAPPING_RECORD(keyp)
  /\ ~keyp.pressed
  /\ ~waiting_buffer_typed(keyp)
  /\ \/ Retained(keyp) /\ Deferred(tapping_key, kb, keyp)
     \/ ~Retained(keyp) /\ Consumed(tapping_key, process_record(kb, keyp), waiting_buffer)

Interrupted_regularKeysPass ==
  LET tk == [tapping_key EXCEPT !.interrupted = TRUE]
  IN /\ Undecided
     /\ keyp.pressed
     /\ \/ is_tap_record(kb, keyp) /\ Deferred(tk, kb, keyp)
        \/ ~is_tap_record(kb, keyp) /\ Consumed(tk, process_record(kb, keyp), waiting_buffer)
Interrupted ==
  LET tk == [tapping_key EXCEPT !.interrupted = TRUE]
  IN /\ Undecided
     /\ keyp.pressed
     /\ \/ HOLD_ON_OTHER_KEY_PRESS /\ Deferred(NoRecord, process_record(kb, tk), keyp)
        \/ ~HOLD_ON_OTHER_KEY_PRESS /\ Deferred(tk, kb, keyp)

TimedOut ==
  /\ PressedState
  /\ tapping_key.count = 0
  /\ ~WITHIN_TAPPING_TERM(keyp, tapping_key)
  /\ Deferred(NoRecord, process_record(kb, tapping_key), keyp)

TapRelease_stateNotCopied ==
  /\ Tapped
  /\ IS_TAPPING_RECORD(keyp)
  /\ ~keyp.pressed
  /\ Consumed(IF WITHIN_TAPPING_TERM(keyp, tapping_key) THEN keyp ELSE NoRecord,
              process_record(kb, keyp), waiting_buffer)
TapRelease ==
  LET r == [keyp EXCEPT !.count = tapping_key.count, !.interrupted = tapping_key.interrupted]
  IN /\ Tapped
     /\ IS_TAPPING_RECORD(keyp)
     /\ ~keyp.pressed
     /\ Consumed(IF WITHIN_TAPPING_TERM(keyp, tapping_key) THEN r ELSE NoRecord,
                 process_record(kb, r), waiting_buffer)

(* A tap key is pressed while the last one is still down from its second or *)
(* a later tap: that one is released first.                                 *)
NextTapKey ==
  LET release == [tapping_key EXCEPT !.pressed = FALSE, !.time = keyp.time]
  IN /\ Tapped
     /\ keyp.pressed
     /\ is_tap_record(kb, keyp)
     /\ StartTapping(IF tapping_key.count > 1 THEN process_record(kb, release) ELSE kb)

OtherKeyDuringTap ==
  /\ Tapped
  /\ ~IS_NOEVENT(keyp)
  /\ ~(IS_TAPPING_RECORD(keyp) /\ ~keyp.pressed)
  /\ ~(keyp.pressed /\ is_tap_record(kb, keyp))
  /\ Consumed(tapping_key, process_record(kb, keyp), waiting_buffer)

SequentialTap ==
  LET count == IF tapping_key.count < 15 THEN tapping_key.count + 1 ELSE tapping_key.count
      r == [keyp EXCEPT !.count = count, !.interrupted = tapping_key.interrupted]
      quick == /\ WITHIN_QUICK_TAP_TERM(keyp, tapping_key)
               /\ ~tapping_key.interrupted
               /\ tapping_key.count > 0
  IN /\ ReleasedState
     /\ WITHIN_TAPPING_TERM(keyp, tapping_key)
     /\ keyp.pressed
     /\ IS_TAPPING_RECORD(keyp)
     /\ \/ quick /\ Consumed(r, process_record(kb, r), waiting_buffer)
        \/ ~quick /\ Consumed(keyp, kb, waiting_buffer)

OtherKeyAfterTap ==
  /\ ReleasedState
  /\ ~IS_NOEVENT(keyp)
  /\ WITHIN_TAPPING_TERM(keyp, tapping_key)
  /\ ~(keyp.pressed /\ IS_TAPPING_RECORD(keyp))
  /\ \/ /\ keyp.pressed
        /\ is_tap_record(kb, keyp)
        /\ StartTapping(kb)
     \/ /\ keyp.pressed
        /\ ~is_tap_record(kb, keyp)
        /\ Consumed([tapping_key EXCEPT !.interrupted = TRUE], process_record(kb, keyp),
                    waiting_buffer)
     \/ /\ ~keyp.pressed
        /\ Consumed(tapping_key, process_record(kb, keyp), waiting_buffer)

TapForgotten ==
  /\ ReleasedState
  /\ ~WITHIN_TAPPING_TERM(keyp, tapping_key)
  /\ Deferred(NoRecord, kb, keyp)

process_tapping ==
  \/ TickIgnored \/ StartTap \/ RegularKey
  \/ FirstTap \/ NestedTap \/ ReleaseOfEarlierKey \/ Interrupted \/ TimedOut
  \/ TapRelease \/ NextTapKey \/ OtherKeyDuringTap
  \/ SequentialTap \/ OtherKeyAfterTap \/ TapForgotten

-----------------------------------------------------------------------------
(* action_exec, called by matrix_task for a key that changed.  On its way to *)
(* action_tapping_process, pre_process_record_quantum looks up the keycode   *)
(* of the event, which stores the layer of a press.                          *)
KeyEvent(key, d) ==
  LET t == (now + d) % TIMER_RANGE
      pressed == key \notin held
  IN /\ running = "idle"
     /\ DEBOUNCE => key \notin changed
     /\ now' = t
     /\ held' = IF pressed THEN held \cup {key} ELSE held \ {key}
     /\ changed' = IF DEBOUNCE THEN changed \cup {key} ELSE {}
     /\ event' = MAKE_KEYEVENT(key, pressed, t)
     /\ kb' = IF pressed THEN update_source_layers_cache(kb, key) ELSE kb
     /\ running' = "event"
     /\ UNCHANGED <<tapping_key, waiting_buffer>>

(* generate_tick_event, when the matrix has not changed. *)
TickEvent(d) ==
  LET t == (now + d) % TIMER_RANGE
  IN /\ running = "idle"
     /\ now' = t
     /\ changed' = {}
     /\ event' = MAKE_TICK_EVENT(t)
     /\ running' = "event"
     /\ UNCHANGED <<held, tapping_key, waiting_buffer, kb>>

Init ==
  /\ held = {}
  /\ changed = {}
  /\ now = 0
  /\ running = "idle"
  /\ event = NoRecord
  /\ tapping_key = NoRecord
  /\ waiting_buffer = <<>>
  /\ kb = [layers |-> {}, cache |-> [k \in Keys |-> 0], codes |-> {}, mods |-> {}]

Tick == \E d \in 1..MaxGap : TickEvent(d)

Next ==
  \/ process_tapping
  \/ \E key \in Keys, d \in 0..MaxGap : KeyEvent(key, d)
  \/ Tick

Spec == Init /\ [][Next]_vars

(* The firmware runs a call to its end, and the main loop ticks while the   *)
(* matrix does not change.                                                  *)
FairSpec == Spec /\ WF_vars(process_tapping) /\ WF_vars(Tick)

-----------------------------------------------------------------------------
(* Type invariant. *)
TypeOK ==
  /\ held \subseteq Keys
  /\ changed \subseteq Keys
  /\ now \in Time
  /\ running \in {"idle", "event", "buffer"}
  /\ event \in Record \cup {MAKE_TICK_EVENT(t) : t \in Time}
  /\ tapping_key \in Record \cup {NoRecord}
  /\ waiting_buffer \in Seq(Record)
  /\ Len(waiting_buffer) < WAITING_BUFFER_SIZE
  /\ kb \in Keyboard

(* No key is stuck: when every key is up and no event waits, the report has  *)
(* no key and no modifier.  What process_record registers for a press is     *)
(* unregistered at the release, although the layers may have changed, the    *)
(* key may have been tapped or held, and the events may have been delayed.   *)
NoStuckKeys ==
  running = "idle" /\ held = {} /\ waiting_buffer = <<>> => kb.codes = {} /\ kb.mods = {}

(* No layer is stuck: when every key is up and no event waits, only the      *)
(* default layer is on (every layer key of the model is momentary).          *)
NoStuckLayers ==
  running = "idle" /\ held = {} /\ waiting_buffer = <<>> => kb.layers = {}

(* A key that is down and neither tapped nor held yet has been released in   *)
(* time, and its release waits in the buffer.                                *)
UndecidedKey == ~IS_NOEVENT(tapping_key) /\ tapping_key.pressed /\ tapping_key.count = 0
ReleaseUnseen == UndecidedKey /\ TapReleases(tapping_key) # {}

(* process_tapping misses no release made within the tapping term, although  *)
(* the events of a key may have been delayed: a key becomes the tapping key  *)
(* undecided only if no such release waits, or by SequentialTap, which does  *)
(* not call waiting_buffer_scan_tap, and no release is put behind it later.  *)
NoReleaseMissed ==
  [][ReleaseUnseen' =>
       \/ SequentialTap
       \/ /\ ReleaseUnseen
          /\ tapping_key'.key = tapping_key.key
          /\ tapping_key'.time = tapping_key.time]_vars

(* The default mode "selects the hold action only if the dual-role key is    *)
(* held down longer than the tapping term" (docs/tap_hold.md): when the term *)
(* is over, no release within it waits in the buffer.                        *)
HeldMeansLong ==
  [][TimedOut => TapReleases(tapping_key) = {}]_vars

(* A press that arrives while a tap-hold key is undecided waits behind all   *)
(* that waits (or the overflow clears everything), whatever the buffer holds *)
(* and whatever decides the key at that moment.                              *)
PressDelayed ==
  [][running = "event" /\ event.pressed /\ UndecidedKey =>
       waiting_buffer' \in {Append(waiting_buffer, event), <<>>}]_vars

(* Permissive hold takes a tap-hold key as held when another key is tapped:  *)
(* the key whose release decides it was pressed earlier in the buffer.       *)
HeldByTappedKey ==
  [][NestedTap /\ PERMISSIVE_HOLD =>
       \E i \in 1..(IF running = "event" THEN Len(waiting_buffer) ELSE 0) :
         waiting_buffer[i].key = keyp.key /\ waiting_buffer[i].pressed]_vars

(* Every tap-hold key is decided: however it is held and whatever else is    *)
(* typed, process_tapping settles it as tapped or as held.                   *)
Decided ==
  \A k \in Keys :
    (tapping_key.key = k /\ tapping_key.pressed /\ tapping_key.count = 0) ~>
    ~(tapping_key.key = k /\ tapping_key.pressed /\ tapping_key.count = 0)

(* Once the keys stay up, ticks alone empty the waiting buffer and forget    *)
(* the tapping key.                                                          *)
Settles ==
  <>[](held = {}) => <>[](waiting_buffer = <<>> /\ IS_NOEVENT(tapping_key))
=============================================================================
