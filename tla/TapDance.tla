------------------------------ MODULE TapDance ------------------------------
(***************************************************************************)
(* Tap dances (quantum/process_keycode/process_tap_dance.c) as Vial sets   *)
(* them up (quantum/vial.c): what a key does depends on how often it is    *)
(* tapped and whether it is held, and is decided when the tapping term of  *)
(* the dance is over, when another key is pressed, or early, at a release  *)
(* after which no other meaning is left.                                   *)
(*                                                                         *)
(* A keycode above QK_MODS_MAX is pressed by a synthetic key event, which  *)
(* goes through the whole of process_record_quantum and so through         *)
(* preprocess_tap_dance, in the middle of the dance that presses it.  No   *)
(* key is a tap-hold key, no one-shot modifier is pending, and the         *)
(* keycodes of the dances are no tap dances themselves.                    *)
(***************************************************************************)
EXTENDS Integers

(* An operator whose name ends in _ and a lower-case word is a deliberately *)
(* wrong variant of the definition that follows it, used as a mutant.       *)

CONSTANTS
  Dances,        \* the tap dance keys
  OtherKeys,     \* the other keys, named as their keycodes
  Modifiers,     \* the keycodes that are modifiers
  Magic,         \* the keycodes above QK_MODS_MAX
  Entries,       \* what the host may set: dance -> keycodes and term
  TimerRange,    \* the timer counts modulo this (2^16)
  MaxGap,        \* bound: the longest time between two calls of tap_dance_task
  MaxTaps,       \* bound: the taps of one dance
  KC_NO

Keys == Dances \cup OtherKeys

ASSUME TapDanceAssumption ==
  /\ Dances \cap OtherKeys = {} /\ KC_NO \notin Keys
  /\ MaxGap \in Nat \ {0} /\ MaxTaps \in Nat \ {0} /\ TimerRange \in Nat \ {0}
  /\ \A e \in Entries : \A d \in Dances :
       /\ e[d].term \in Nat /\ e[d].term + MaxGap < TimerRange
       /\ {e[d].on_tap, e[d].on_hold, e[d].on_double_tap, e[d].on_tap_hold} \cap Keys = {}

VARIABLES
  held,           \* the keys that are down
  now,
  entry,          \* the dances in the dynamic keymap
  active_td,      \* KC_NO, or the dance that is being tapped
  last_tap_time,
  td,             \* tap_dance_actions[d].state
  dance_state,    \* what each dance was decided to be, KC_NO before that
  report,         \* the keycodes registered: keys, modifiers, layers
  weak_mods,
  magic,          \* g_vial_magic_keycode_override
  edited          \* history: the host changed the dances while one was under way

vars == <<held, now, entry, active_td, last_tap_time, td, dance_state, report,
          weak_mods, magic, edited>>

Idle == [count |-> 0, weak_mods |-> {}, pressed |-> FALSE, finished |-> FALSE,
         interrupted |-> FALSE]

(* What the handlers work on, as one value. *)
State == [active |-> active_td, td |-> td, step |-> dance_state, report |-> report,
          weak |-> weak_mods, magic |-> magic]
Becomes(c) ==
  /\ active_td' = c.active
  /\ td' = c.td
  /\ dance_state' = c.step
  /\ report' = c.report
  /\ weak_mods' = c.weak
  /\ magic' = c.magic

-----------------------------------------------------------------------------

dance_step(s) ==
  CASE s.count = 1 -> IF s.interrupted \/ ~s.pressed THEN "SINGLE_TAP" ELSE "SINGLE_HOLD"
    [] s.count = 2 -> IF s.interrupted THEN "DOUBLE_SINGLE_TAP"
                      ELSE IF s.pressed THEN "DOUBLE_HOLD" ELSE "DOUBLE_TAP"
    [] OTHER -> "MORE_TAPS"

Either(kc, other) == IF kc # KC_NO THEN kc ELSE other

(* The keycode that a decided dance holds down until it is reset, and the    *)
(* one that it taps before.                                                  *)
HeldCode(e, step) ==
  CASE step \in {"SINGLE_TAP", "DOUBLE_SINGLE_TAP"} -> e.on_tap
    [] step = "SINGLE_HOLD" -> Either(e.on_hold, e.on_tap)
    [] step = "DOUBLE_TAP"  -> Either(e.on_double_tap, e.on_tap)
    [] step = "DOUBLE_HOLD" -> Either(e.on_tap_hold, Either(e.on_hold, e.on_tap))
    [] OTHER -> KC_NO
TappedCode(e, step) ==
  IF \/ step = "DOUBLE_SINGLE_TAP"
     \/ step = "DOUBLE_TAP" /\ e.on_double_tap = KC_NO
     \/ step = "DOUBLE_HOLD" /\ e.on_tap_hold = KC_NO
  THEN e.on_tap ELSE KC_NO

vial_keycode_up(c, kc) == [c EXCEPT !.magic = kc, !.report = @ \ {kc}]

on_dance_reset_notDoubleHold(c, d) ==
  LET kc == HeldCode(entry[d], c.step[d])
      e == [c EXCEPT !.td[d].count = 0, !.step[d] = KC_NO]
  IN IF kc = KC_NO \/ c.step[d] = "DOUBLE_HOLD" THEN e ELSE vial_keycode_up(e, kc)
on_dance_reset(c, d) ==
  LET kc == HeldCode(entry[d], c.step[d])
      e == [c EXCEPT !.td[d].count = 0, !.step[d] = KC_NO]
  IN IF kc = KC_NO THEN e ELSE vial_keycode_up(e, kc)

process_tap_dance_action_on_reset(c, d) ==
  [on_dance_reset(c, d) EXCEPT !.weak = @ \ c.td[d].weak_mods, !.td[d] = Idle]

(* The end of process_tap_dance_action_on_dance_finished: reset now if there *)
(* will be no release.                                                       *)
ResetIfReleased_always(c, d) ==
  process_tap_dance_action_on_reset([c EXCEPT !.active = KC_NO], d)
ResetIfReleased(c, d) ==
  LET e == [c EXCEPT !.active = KC_NO]
  IN IF c.td[d].pressed THEN e ELSE process_tap_dance_action_on_reset(e, d)

(* preprocess_tap_dance of a press other than the active dance's. *)
Interrupted(c, Finish(_, _)) ==
  IF c.active = KC_NO THEN c
  ELSE [Finish([c EXCEPT !.td[c.active].interrupted = TRUE], c.active) EXCEPT !.weak = {}]

(* vial_keycode_down: a magic keycode interrupts the active dance, and is    *)
(* looked up again afterwards.                                               *)
vial_keycode_down(c, kc, Finish(_, _)) ==
  LET e == [c EXCEPT !.magic = kc]
      i == Interrupted([e EXCEPT !.weak = {}], Finish)
  IN IF kc \notin Magic THEN [e EXCEPT !.report = @ \cup {kc}]
     ELSE [i EXCEPT !.report = @ \cup {i.magic}]

(* vial_keycode_tap *)
Tapped(c, kc, Down(_, _)) == IF kc = KC_NO THEN c ELSE vial_keycode_up(Down(c, kc), kc)

on_dance_finished(c, d, Down(_, _)) ==
  LET step == dance_step(c.td[d])
      e == Tapped([c EXCEPT !.step[d] = step], TappedCode(entry[d], step), Down)
      kc == HeldCode(entry[d], step)
  IN IF kc = KC_NO THEN e ELSE Down(e, kc)

(* process_tap_dance_action_on_dance_finished with presses made by Down. *)
FinishWith(c, d, Down(_, _)) ==
  LET s == c.td[d]
      e == IF s.finished THEN c
           ELSE on_dance_finished([c EXCEPT !.td[d].finished = TRUE,
                                            !.weak = @ \cup s.weak_mods], d, Down)
  IN ResetIfReleased(e, d)

(* process_tap_dance_action_on_dance_finished and the presses it makes.  It  *)
(* is re-entered at most twice: for another dance that is active, and for a  *)
(* dance that is finished already.                                           *)
DownInner(c, kc) == vial_keycode_down(c, kc, ResetIfReleased)
FinishInner(c, d) == FinishWith(c, d, DownInner)
Down(c, kc) == vial_keycode_down(c, kc, FinishInner)
process_tap_dance_action_on_dance_finished(c, d) == FinishWith(c, d, Down)

-----------------------------------------------------------------------------

(* on_dance, on each tap: from the third on the taps are sent at once. *)
on_dance(c, d) ==
  LET kc == entry[d].on_tap
      Once(e) == Tapped(e, kc, Down)
  IN CASE c.td[d].count = 3 -> Once(Once(Once(c)))
       [] c.td[d].count > 3 -> Once(c)
       [] OTHER -> c

TapDancePressed(c, d) ==
  LET e == on_dance([c EXCEPT !.td[d].pressed = TRUE, !.td[d].count = @ + 1,
                              !.td[d].weak_mods = (c.report \cap Modifiers) \cup c.weak], d)
  IN [e EXCEPT !.active = IF e.td[d].finished THEN KC_NO ELSE d]

(* action_exec of a press clears the weak modifiers, then preprocess_tap_dance *)
(* finishes the dance that the press interrupts.                             *)
Preprocessed(k) ==
  LET c == [State EXCEPT !.weak = {}]
  IN IF k = active_td THEN c
     ELSE Interrupted(c, process_tap_dance_action_on_dance_finished)

PressDance(d) ==
  /\ d \in Dances \ held
  /\ td[d].count < MaxTaps
  /\ held' = held \cup {d}
  /\ last_tap_time' = now
  /\ \E c \in {TapDancePressed(Preprocessed(d), d)} : Becomes(c)
  /\ UNCHANGED <<now, entry, edited>>

PressOther(k) ==
  /\ k \in OtherKeys \ held
  /\ held' = held \cup {k}
  /\ \E c \in {Preprocessed(k)} : Becomes([c EXCEPT !.report = @ \cup {k}])
  /\ UNCHANGED <<now, entry, last_tap_time, edited>>

(* process_record_vial: no later event can change what the dance means. *)
Early(d) ==
  LET e == entry[d]
  IN \/ /\ td[d].count = 1
        /\ e.on_tap # KC_NO /\ e.on_hold # KC_NO
        /\ e.on_double_tap = KC_NO /\ e.on_tap_hold = KC_NO
     \/ td[d].count = 2 /\ e.on_double_tap # KC_NO
process_record_vial(d) ==
  IF Early(d)
  THEN process_tap_dance_action_on_dance_finished([State EXCEPT !.td[d].pressed = FALSE], d)
  ELSE State

TapDanceReleased_activeCleared(c, d) ==
  LET e == [c EXCEPT !.td[d].pressed = FALSE]
  IN IF ~e.td[d].finished THEN e
     ELSE [process_tap_dance_action_on_reset(e, d) EXCEPT !.active = KC_NO]
TapDanceReleased(c, d) ==
  LET e == [c EXCEPT !.td[d].pressed = FALSE]
  IN IF ~e.td[d].finished THEN e
     ELSE [process_tap_dance_action_on_reset(e, d)
             EXCEPT !.active = IF @ = d THEN KC_NO ELSE @]

ReleaseDance(d) ==
  /\ d \in Dances \cap held
  /\ held' = held \ {d}
  /\ \E c \in {TapDanceReleased(process_record_vial(d), d)} : Becomes(c)
  /\ UNCHANGED <<now, entry, last_tap_time, edited>>

ReleaseOther(k) ==
  /\ k \in OtherKeys \cap held
  /\ held' = held \ {k}
  /\ report' = report \ {k}
  /\ UNCHANGED <<now, entry, active_td, last_tap_time, td, dance_state, weak_mods,
                 magic, edited>>

(* Time passes, then the main loop calls tap_dance_task. *)
tap_dance_task_onlyReleased(g) ==
  LET t == (now + g) % TimerRange
      over == /\ active_td # KC_NO
              /\ (t - last_tap_time) % TimerRange > entry[active_td].term
              /\ ~td[active_td].pressed
  IN /\ now' = t
     /\ \E c \in {IF over THEN process_tap_dance_action_on_dance_finished(State, active_td)
                  ELSE State} : Becomes(c)
     /\ UNCHANGED <<held, entry, last_tap_time, edited>>
tap_dance_task(g) ==
  LET t == (now + g) % TimerRange
      over == /\ active_td # KC_NO
              /\ (t - last_tap_time) % TimerRange > entry[active_td].term
              /\ ~td[active_td].interrupted
  IN /\ now' = t
     /\ \E c \in {IF over THEN process_tap_dance_action_on_dance_finished(State, active_td)
                  ELSE State} : Becomes(c)
     /\ UNCHANGED <<held, entry, last_tap_time, edited>>

(* dynamic_keymap_set_tap_dance: the host writes a dance. *)
SetEntry(e) ==
  /\ e # entry
  /\ entry' = e
  /\ edited' = (edited \/ \E d \in Dances : td[d].count > 0)
  /\ UNCHANGED <<held, now, active_td, last_tap_time, td, dance_state, report,
                 weak_mods, magic>>

Init ==
  /\ held = {}
  /\ now = 0
  /\ entry \in Entries
  /\ active_td = KC_NO
  /\ last_tap_time = 0
  /\ td = [d \in Dances |-> Idle]
  /\ dance_state = [d \in Dances |-> KC_NO]
  /\ report = {}
  /\ weak_mods = {}
  /\ magic = KC_NO
  /\ edited = FALSE

Task == \E g \in 1..MaxGap : tap_dance_task(g)

Next ==
  \/ \E d \in Dances : PressDance(d) \/ ReleaseDance(d)
  \/ \E k \in OtherKeys : PressOther(k) \/ ReleaseOther(k)
  \/ Task
  \/ \E e \in Entries : SetEntry(e)

Spec == Init /\ [][Next]_vars

(* The main loop goes round for ever.  Time passes, and the clock moves, in  *)
(* the steps of tap_dance_task only.                                         *)
ClockMoves == \E g \in 1..MaxGap : now' = (now + g) % TimerRange
FairSpec == Spec /\ WF_now(ClockMoves)

-----------------------------------------------------------------------------
Steps == {"SINGLE_TAP", "SINGLE_HOLD", "DOUBLE_TAP", "DOUBLE_HOLD", "DOUBLE_SINGLE_TAP", "MORE_TAPS"}

(* Type invariant. *)
TypeOK ==
  /\ held \subseteq Keys
  /\ now \in 0..(TimerRange - 1) /\ last_tap_time \in 0..(TimerRange - 1)
  /\ entry \in Entries /\ edited \in BOOLEAN
  /\ active_td \in Dances \cup {KC_NO}
  /\ td \in [Dances -> [count : 0..MaxTaps, weak_mods : SUBSET Modifiers, pressed : BOOLEAN,
                        finished : BOOLEAN, interrupted : BOOLEAN]]
  /\ dance_state \in [Dances -> Steps \cup {KC_NO}]
  /\ weak_mods \subseteq Modifiers
  /\ \A d \in Dances : td[d].pressed = (d \in held)

Unfinished(d) == td[d].count > 0 /\ ~td[d].finished

(* A dance that nothing but another tap of its key will ever finish. *)
Orphaned(d) == Unfinished(d) /\ active_td # d

(* Nothing is registered without a key that is down to account for it: each  *)
(* keycode is that of a key, or the one that a finished dance whose key is   *)
(* down was decided to hold; each weak modifier was down when such a dance   *)
(* was tapped.  It does not hold when the host changes a dance between the   *)
(* press and the reset, since on_dance_reset reads it again.                 *)
ReportJustified ==
  ~edited =>
    LET Live == {d \in Dances \cap held : td[d].finished}
    IN /\ \A kc \in report : kc \in held \/ \E d \in Live : kc = HeldCode(entry[d], dance_state[d])
       /\ weak_mods \subseteq UNION {td[d].weak_mods : d \in Live}

(* A dance is orphaned only by the early release of another dance, whose     *)
(* process_tap_dance_action_on_dance_finished clears active_td: in           *)
(* particular, a press of another key finishes it first.                     *)
OrphanedByEarlyRelease ==
  [][\A d \in Dances : Orphaned(d)' /\ ~Orphaned(d) =>
       \E e \in (Dances \ {d}) \cap (held \ held') : Early(e)]_vars

(* tap_dance_task finishes a dance when its key is not tapped again, whether *)
(* it is down or up, unless the dance is orphaned.                           *)
DanceFinishes ==
  \A d \in Dances : \A n \in 1..MaxTaps :
    Unfinished(d) /\ td[d].count = n ~> (~Unfinished(d) \/ td[d].count # n \/ Orphaned(d))

(* The same of every dance: "tap_dance_task() periodically checks whether    *)
(* TAPPING_TERM has passed since the last key press and finishes a tap dance *)
(* if that is the case" (docs/features/tap_dance.md).                        *)
EveryDanceFinishes ==
  \A d \in Dances : \A n \in 1..MaxTaps :
    Unfinished(d) /\ td[d].count = n ~> (~Unfinished(d) \/ td[d].count # n)
=============================================================================
