------------------------------- MODULE Combo -------------------------------
(***************************************************************************)
(* Combos (quantum/process_keycode/process_combo.c, reload_combo of        *)
(* quantum/vial.c): presses of keys that belong to combos are held back in *)
(* the key buffer until the combo term is over; combos whose keys are all  *)
(* down wait in the combo buffer, a ring, and replace their keys when the  *)
(* key buffer is dumped.                                                   *)
(*                                                                         *)
(* The build is Vial's: combos come from the host and may change at any    *)
(* time, one term for all, none of the per-combo hooks.  What process_     *)
(* combo lets through is modelled by its effect on the keyboard report.    *)
(***************************************************************************)
EXTENDS Integers, SequencesExt

(* An operator whose name ends in _ and a lower-case word is a deliberately *)
(* wrong variant of the definition that follows it, used as a mutant.       *)

CONSTANTS
  Keys,                    \* the keycodes on the keyboard, one per key
  Switches,                \* the keys that are QK_COMBO_ON, QK_COMBO_OFF or QK_COMBO_TOGGLE
  SwitchOf,                \* which of the three: "on", "off" or "toggle"
  COMBO_COUNT,
  Layouts,                 \* the combos the host may set: index -> keys and keycode
  COMBO_TERM,
  COMBO_KEY_BUFFER_LENGTH,
  COMBO_BUFFER_LENGTH,
  TimerRange,              \* the timer counts modulo this (2^16)
  MaxGap,                  \* bound: the longest time between two calls of combo_task
  NoCombo

Combos == 0..(COMBO_COUNT - 1)

ASSUME ComboAssumption ==
  /\ Switches \subseteq Keys
  /\ SwitchOf \in [Switches -> {"on", "off", "toggle"}]
  /\ COMBO_COUNT \in Nat
  /\ \A l \in Layouts : \A i \in Combos : l[i].keys \subseteq Keys \ Switches
  /\ COMBO_TERM \in Nat
  /\ COMBO_KEY_BUFFER_LENGTH \in Nat
  /\ COMBO_BUFFER_LENGTH \in Nat \ {0}
  /\ TimerRange \in Nat
  /\ MaxGap \in Nat \ {0}
  /\ COMBO_TERM + MaxGap < TimerRange
  /\ NoCombo \notin Combos

Time == 0..(TimerRange - 1)
Codes == Keys \cup {l[i].code : l \in Layouts, i \in Combos}

(* key_buffer: the key of a record, and what dumping it will do: press the   *)
(* "key", press the keycode of a "combo", or nothing ("tick").               *)
Queued(k) == [key |-> k, kind |-> "key", code |-> k]

VARIABLES
  held,           \* the keys that are down
  now,
  timer,          \* 0 when it does not run
  b_combo_enable,
  layout,         \* the keys and the keycodes of key_combos
  combo,          \* key_combos: state (the keys seen down), disabled, active
  longest_term,
  key_buffer,
  combo_buffer,   \* the ring from combo_buffer_read to combo_buffer_write
  report,         \* the keycodes registered
  lost,           \* history: presses dropped without a combo in their place
  unset,          \* history: the last press was buffered when timer_read() was 0
  edited          \* history: the host changed the combos while keys were down

vars == <<held, now, timer, b_combo_enable, layout, combo, longest_term, key_buffer,
          combo_buffer, report, lost, unset, edited>>

(* What process_combo works on, as one value. *)
State == [combo |-> combo, longest |-> longest_term, keys |-> key_buffer,
          ring |-> combo_buffer, report |-> report, lost |-> lost, part |-> FALSE]
Becomes(c) ==
  /\ combo' = c.combo
  /\ longest_term' = c.longest
  /\ key_buffer' = c.keys
  /\ combo_buffer' = c.ring
  /\ report' = c.report
  /\ lost' = c.lost

-----------------------------------------------------------------------------

(* One slot of the ring is free: a ring of COMBO_BUFFER_LENGTH combos looks  *)
(* empty.                                                                    *)
Enqueue(ring, i) == IF Len(ring) + 1 = COMBO_BUFFER_LENGTH THEN <<>> ELSE Append(ring, i)

timer_elapsed(t) == (now - t) % TimerRange

AllDown(c, i) == c.combo[i].state = layout[i].keys
Fresh == [state |-> {}, disabled |-> FALSE, active |-> FALSE]
DISABLE_COMBO(c, i) == [c EXCEPT !.combo[i].disabled = TRUE]

clear_combos_activeToo(c) ==
  [c EXCEPT !.longest = 0, !.combo = [i \in Combos |-> Fresh]]
clear_combos(c) ==
  [c EXCEPT !.longest = 0,
            !.combo = [i \in Combos |-> IF c.combo[i].active THEN c.combo[i] ELSE Fresh]]

(* dump_key_buffer: the records go on to action_tapping_process. *)
dump_key_buffer(c) ==
  [c EXCEPT !.keys = <<>>,
            !.report = @ \cup {r.code : r \in {s \in ToSet(c.keys) : s.kind # "tick"}}]

drop_combo_from_buffer(c, i) ==
  IF i \notin ToSet(c.ring) THEN c
  ELSE [DISABLE_COMBO(c, i) EXCEPT !.ring = IF Head(@) = i THEN Tail(@) ELSE @]

(* apply_combo: the record that completes the combo becomes the combo's, the *)
(* ones before it are silenced.  If no record completes it, all are silenced. *)
apply_combo(c, i) ==
  LET keys == layout[i].keys
      mine == {n \in 1..Len(c.keys) : c.keys[n].key \in keys}
      complete == {n \in mine : {c.keys[m].key : m \in {m \in mine : m <= n}} = keys}
      last == IF complete = {} THEN Len(c.keys) + 1 ELSE Min(complete)
      silent == {n \in mine : n < last}
      records == [n \in 1..Len(c.keys) |->
                    IF n \in silent THEN [c.keys[n] EXCEPT !.kind = "tick"]
                    ELSE IF n = last
                    THEN [c.keys[n] EXCEPT !.kind = "combo", !.code = layout[i].code]
                    ELSE c.keys[n]]
      dropped == {n \in silent : c.keys[n].kind = "key" /\ complete = {}}
                 \cup {n \in mine : n <= last /\ c.keys[n].kind = "combo"}
  IN IF c.combo[i].disabled THEN c
     ELSE drop_combo_from_buffer(
            [c EXCEPT !.keys = records,
                      !.lost = @ \cup {c.keys[n].key : n \in dropped},
                      !.combo[i].active = (@ \/ complete # {})], i)

apply_combos(c) ==
  LET applied[n \in 0..Len(c.ring)] ==
        IF n = 0 THEN c ELSE apply_combo(applied[n - 1], c.ring[n])
  IN clear_combos(dump_key_buffer(applied[Len(c.ring)]))

(* overlaps: the combo with fewer keys gives way, the buffered one if they   *)
(* have the same number of keys.                                             *)
Loser(buffered, i) ==
  IF layout[buffered].keys \cap layout[i].keys = {} THEN NoCombo
  ELSE IF Cardinality(layout[i].keys) < Cardinality(layout[buffered].keys) THEN i
  ELSE buffered

(* The combo i is compared with the n-th of the buffered ones, unless it has *)
(* been disabled.                                                            *)
CheckOverlap(c, buffered, n, i) ==
  LET loser == Loser(buffered[n], i)
      first == Len(c.ring) = Len(buffered) + 1 - n
  IN IF loser = NoCombo \/ c.combo[i].disabled THEN c
     ELSE [DISABLE_COMBO(c, loser) EXCEPT !.ring = IF loser # i /\ first THEN Tail(@) ELSE @]

(* The combo is complete: it displaces the buffered combos it overlaps with, *)
(* up to one that displaces it, and is buffered if none does.                *)
BufferCombo_overlapsKept(c, i) == [c EXCEPT !.ring = Enqueue(@, i)]
BufferCombo(c, i) ==
  LET checked[n \in 0..Len(c.ring)] ==
        IF n = 0 THEN c ELSE CheckOverlap(checked[n - 1], c.ring, n, i)
      d == checked[Len(c.ring)]
  IN IF d.combo[i].disabled THEN d ELSE [d EXCEPT !.ring = Enqueue(@, i)]

(* process_single_combo for a press of one of its keys, when the combo is    *)
(* enabled.                                                                  *)
PressInCombo(c, i, key) ==
  LET d == IF c.combo[i].active THEN c
           ELSE [c EXCEPT !.combo[i].state = @ \cup {key},
                          !.longest = IF @ < COMBO_TERM THEN COMBO_TERM ELSE @]
  IN IF ~AllDown(d, i) THEN d
     ELSE IF timer # 0 /\ timer_elapsed(timer) > COMBO_TERM THEN DISABLE_COMBO(d, i)
     ELSE BufferCombo(d, i)

(* Its chord releases, which a press of a key of a disabled combo reaches    *)
(* too: release_combo when the last key of an active combo goes up.          *)
ReleaseInCombo(c, i, key) ==
  LET s == c.combo[i]
      d == IF ~s.active /\ AllDown(c, i) /\ s.disabled THEN drop_combo_from_buffer(c, i)
           ELSE IF s.active /\ s.state = {key}
           THEN [c EXCEPT !.report = @ \ {layout[i].code}, !.combo[i].active = FALSE]
           ELSE c
  IN [d EXCEPT !.combo[i].state = @ \ {key}]

(* What process_single_combo returns: the key is part of the combo. *)
PartOfCombo(c, i, key, pressed) ==
  LET s == c.combo[i]
      enabled == ~s.disabled /\ b_combo_enable
  IN \/ pressed /\ enabled
     \/ ~(pressed /\ enabled) /\ ~s.active /\ AllDown(c, i) /\ enabled
     \/ ~(pressed /\ enabled) /\ s.active /\ key \in s.state

process_single_combo_anyKey(c, i, key, pressed) ==
  LET d == IF pressed /\ ~c.combo[i].disabled /\ b_combo_enable
           THEN PressInCombo(c, i, key) ELSE ReleaseInCombo(c, i, key)
  IN [d EXCEPT !.part = @ \/ PartOfCombo(c, i, key, pressed)]
process_single_combo(c, i, key, pressed) ==
  IF key \notin layout[i].keys THEN c
  ELSE LET d == IF pressed /\ ~c.combo[i].disabled /\ b_combo_enable
                THEN PressInCombo(c, i, key) ELSE ReleaseInCombo(c, i, key)
       IN [d EXCEPT !.part = @ \/ PartOfCombo(c, i, key, pressed)]

-----------------------------------------------------------------------------

combo_disable(c) ==
  dump_key_buffer(clear_combos([c EXCEPT !.ring = <<>>]))

(* process_combo of a switch key: combo_enable, combo_disable, combo_toggle. *)
PressSwitch(key) ==
  LET on == SwitchOf[key] = "on" \/ (SwitchOf[key] = "toggle" /\ ~b_combo_enable)
  IN /\ key \in Switches \ held
     /\ held' = held \cup {key}
     /\ b_combo_enable' = on
     /\ timer' = IF on THEN timer ELSE 0
     /\ unset' = (unset /\ on)
     /\ \E c \in {IF on THEN State ELSE combo_disable(State)} : Becomes(c)
     /\ UNCHANGED <<now, layout, edited>>

(* process_combo of any other event, first offered to every combo.  A press  *)
(* that is part of one is buffered, if there is room; anything else ends the *)
(* wait.  The event goes on if it is not part of a combo.                    *)
OfferedToCombos(key) ==
  LET offered[n \in 0..COMBO_COUNT] ==
        IF n = 0 THEN State
        ELSE process_single_combo(offered[n - 1], n - 1, key, key \notin held)
  IN offered[COMBO_COUNT]
EndWait(c) ==
  IF c.ring # <<>> THEN apply_combos(c) ELSE clear_combos(dump_key_buffer(c))
BufferKey(c, key) ==
  IF Len(c.keys) < COMBO_KEY_BUFFER_LENGTH THEN [c EXCEPT !.keys = Append(@, Queued(key))]
  ELSE [c EXCEPT !.lost = @ \cup {key}]
ProcessKey(c, key) ==
  IF c.part \/ key \in Switches THEN c
  ELSE [c EXCEPT !.report = IF key \notin held THEN @ \cup {key} ELSE @ \ {key}]

KeyEvent(key) ==
  /\ ~(key \in Switches /\ key \notin held)
  /\ held' = IF key \notin held THEN held \cup {key} ELSE held \ {key}
  /\ \E c \in {OfferedToCombos(key)} :
       \/ /\ c.part /\ key \notin held
          /\ timer' = now
          /\ unset' = (now = 0)
          /\ \E d \in {BufferKey(c, key)} : Becomes(d)
       \/ /\ ~(c.part /\ key \notin held)
          /\ timer' = IF c.ring # <<>> THEN timer ELSE 0
          /\ unset' = FALSE
          /\ \E d \in {ProcessKey(EndWait(c), key)} : Becomes(d)
  /\ UNCHANGED <<now, b_combo_enable, layout, edited>>

(* Time passes, then the main loop calls combo_task. *)
combo_task_preparedOnly(d) ==
  LET t == (now + d) % TimerRange
      over == /\ b_combo_enable /\ timer # 0 /\ combo_buffer # <<>>
              /\ (t - timer) % TimerRange > longest_term
  IN /\ now' = t
     /\ timer' = IF over THEN 0 ELSE timer
     /\ unset' = (unset /\ ~over)
     /\ \E c \in {IF over THEN EndWait(State) ELSE State} : Becomes(c)
     /\ UNCHANGED <<held, b_combo_enable, layout, edited>>
combo_task(d) ==
  LET t == (now + d) % TimerRange
      over == b_combo_enable /\ timer # 0 /\ (t - timer) % TimerRange > longest_term
  IN /\ now' = t
     /\ timer' = IF over THEN 0 ELSE timer
     /\ unset' = (unset /\ ~over)
     /\ \E c \in {IF over THEN EndWait(State) ELSE State} : Becomes(c)
     /\ UNCHANGED <<held, b_combo_enable, layout, edited>>

(* The host sets a combo: reload_combo starts all of them afresh, but leaves *)
(* the buffers and the report as they are.                                   *)
reload_combo(l) ==
  /\ layout' = l
  /\ combo' = [i \in Combos |-> Fresh]
  /\ edited' = (edited \/ held # {})
  /\ UNCHANGED <<held, now, timer, b_combo_enable, longest_term, key_buffer,
                 combo_buffer, report, lost, unset>>

Init ==
  /\ held = {}
  /\ now = 0
  /\ timer = 0
  /\ b_combo_enable = TRUE
  /\ layout \in Layouts
  /\ combo = [i \in Combos |-> Fresh]
  /\ longest_term = 0
  /\ key_buffer = <<>>
  /\ combo_buffer = <<>>
  /\ report = {}
  /\ lost = {}
  /\ unset = FALSE
  /\ edited = FALSE

Task == \E d \in 1..MaxGap : combo_task(d)

Next ==
  \/ \E key \in Keys : PressSwitch(key) \/ KeyEvent(key)
  \/ Task
  \/ \E l \in Layouts : reload_combo(l)

Spec == Init /\ [][Next]_vars

(* The main loop goes round for ever.  Time passes, and the clock moves, in  *)
(* the steps of combo_task only.                                             *)
ClockMoves == \E g \in 1..MaxGap : now' = (now + g) % TimerRange
FairSpec == Spec /\ WF_now(ClockMoves)

-----------------------------------------------------------------------------
(* Type invariant. *)
ComboRecord == [state : SUBSET Keys, disabled : BOOLEAN, active : BOOLEAN]
QueuedRecord == [key : Keys, kind : {"key", "combo", "tick"}, code : Codes]
TypeOK ==
  /\ held \subseteq Keys
  /\ now \in Time /\ timer \in Time
  /\ b_combo_enable \in BOOLEAN /\ unset \in BOOLEAN /\ edited \in BOOLEAN
  /\ layout \in Layouts
  /\ combo \in [Combos -> ComboRecord]
  /\ \A i \in Combos : combo[i].state \subseteq layout[i].keys
  /\ longest_term \in {0, COMBO_TERM}
  /\ key_buffer \in Seq(QueuedRecord) /\ Len(key_buffer) <= COMBO_KEY_BUFFER_LENGTH
  /\ combo_buffer \in Seq(Combos) /\ Len(combo_buffer) < COMBO_BUFFER_LENGTH
  /\ report \subseteq Codes
  /\ lost \subseteq Keys

(* No key is stuck: when all keys are up nothing is registered and nothing   *)
(* waits, whichever combos fired, were displaced, timed out or were switched *)
(* off meanwhile, unless the host changed the combos while keys were down    *)
(* (reload_combo forgets the active ones).                                   *)
NoStuckKeys == held = {} /\ ~edited => report = {} /\ key_buffer = <<>>

(* No press is lost: a press that process_combo holds back is sent on or is  *)
(* replaced by a combo that fires.                                           *)
NoLostPress == ~edited => lost = {}

(* Of overlapping combos only one fires: no key that is down belongs to two  *)
(* active combos.                                                            *)
OneComboPerKey ==
  ~edited =>
    \A i, j \in Combos :
      i # j /\ combo[i].active /\ combo[j].active => combo[i].state \cap combo[j].state = {}

(* A press that is held back is decided in the end, by combo_task if no      *)
(* further key event comes (but see AlwaysFlushed).                          *)
Flushed == key_buffer # <<>> ~> (key_buffer = <<>> \/ unset)

(* The same whatever the value of the timer is when the press is buffered.   *)
AlwaysFlushed == key_buffer # <<>> ~> key_buffer = <<>>
=============================================================================
