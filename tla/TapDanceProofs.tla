--------------------------- MODULE TapDanceProofs ---------------------------
(***************************************************************************)
(* Theorems about TapDance, for every set of keys and dances, and every    *)
(* choice of keycodes and terms.                                           *)
(***************************************************************************)
EXTENDS TapDance, TLAPS

TdState == [count : 0..MaxTaps, weak_mods : SUBSET Modifiers, pressed : BOOLEAN,
            finished : BOOLEAN, interrupted : BOOLEAN]

(* What the handlers work on. *)
Config(a, t, s, r, w, m) ==
  [active |-> a, td |-> t, step |-> s, report |-> r, weak |-> w, magic |-> m]

Shaped(c) == c = Config(c.active, c.td, c.step, c.report, c.weak, c.magic)

Typed(c) ==
  /\ Shaped(c)
  /\ c.active \in Dances \cup {KC_NO}
  /\ c.td \in [Dances -> TdState]
  /\ c.step \in [Dances -> Steps \cup {KC_NO}]
  /\ c.weak \in SUBSET Modifiers

(* A dance that is not under way. *)
Done(s) == s.count = 0 \/ s.finished

(* A handler that begins with c and ends with r changes dances of A only,    *)
(* leaves their keys as they are, and starts none.                           *)
Within(c, r, A) ==
  /\ Typed(r)
  /\ r.active \in {c.active, KC_NO}
  /\ \A d \in Dances : /\ r.td[d].pressed = c.td[d].pressed
                       /\ Done(c.td[d]) => Done(r.td[d])
                       /\ d \notin A => r.td[d] = c.td[d]

LEMMA NoDance == KC_NO \notin Dances
  BY TapDanceAssumption DEF Keys

LEMMA IdleType == Idle \in TdState /\ Done(Idle) /\ Idle.pressed = FALSE /\ Idle.count = 0
  BY TapDanceAssumption DEF Idle, TdState, Done

LEMMA StepType == ASSUME NEW s PROVE dance_step(s) \in Steps
  BY DEF dance_step, Steps

LEMMA WithinItself == ASSUME NEW c, Typed(c), NEW A PROVE Within(c, c, A)
  BY DEF Within

LEMMA WithinTyped ==
  ASSUME NEW c, NEW r, NEW A, Within(c, r, A)
  PROVE  Typed(r) /\ r.active \in {c.active, KC_NO}
  BY DEF Within

LEMMA WithinWider == ASSUME NEW c, NEW r, NEW A, NEW B, Within(c, r, A), A \subseteq B PROVE Within(c, r, B)
  BY DEF Within

LEMMA WithinTwice ==
  ASSUME NEW b, NEW c, NEW r, NEW A, NEW B, Within(b, c, A), Within(c, r, B),
         B \subseteq A \cup {KC_NO}
  PROVE  Within(b, r, A)
  BY NoDance DEF Within

(* Updates of a configuration. *)
LEMMA Updates ==
  ASSUME NEW c, Shaped(c), NEW x
  PROVE  /\ [c EXCEPT !.active = x] = Config(x, c.td, c.step, c.report, c.weak, c.magic)
         /\ [c EXCEPT !.td = x] = Config(c.active, x, c.step, c.report, c.weak, c.magic)
         /\ [c EXCEPT !.step = x] = Config(c.active, c.td, x, c.report, c.weak, c.magic)
         /\ [c EXCEPT !.report = x] = Config(c.active, c.td, c.step, x, c.weak, c.magic)
         /\ [c EXCEPT !.weak = x] = Config(c.active, c.td, c.step, c.report, x, c.magic)
         /\ [c EXCEPT !.magic = x] = Config(c.active, c.td, c.step, c.report, c.weak, x)
  BY DEF Shaped, Config

LEMMA Fields ==
  ASSUME NEW a, NEW t, NEW s, NEW r, NEW w, NEW m
  PROVE  LET c == Config(a, t, s, r, w, m)
         IN /\ Shaped(c)
            /\ c.active = a /\ c.td = t /\ c.step = s /\ c.report = r /\ c.weak = w /\ c.magic = m
  BY DEF Shaped, Config

(* Changes of the report and the modifiers only. *)
LEMMA WithinRest ==
  ASSUME NEW c, Typed(c), NEW A, NEW rep, NEW m, NEW w \in SUBSET Modifiers,
         NEW a \in {c.active, KC_NO}
  PROVE  Within(c, Config(a, c.td, c.step, rep, w, m), A)
  BY Fields DEF Within, Typed

LEMMA UpWithin ==
  ASSUME NEW c, Typed(c), NEW kc
  PROVE  /\ vial_keycode_up(c, kc) =
              Config(c.active, c.td, c.step, c.report \ {kc}, c.weak, kc)
         /\ Within(c, vial_keycode_up(c, kc), {})
  <1>1. PICK b : b = [c EXCEPT !.magic = kc]
    OBVIOUS
  <1>2. b = Config(c.active, c.td, c.step, c.report, c.weak, kc)
    BY <1>1, Updates DEF Typed
  <1>3. [b EXCEPT !.report = @ \ {kc}] = Config(c.active, c.td, c.step, c.report \ {kc}, c.weak, kc)
    BY <1>2 DEF Config
  <1>4. vial_keycode_up(c, kc) = [b EXCEPT !.report = @ \ {kc}]
    BY <1>1 DEF vial_keycode_up
  <1>5. QED
    BY <1>3, <1>4, WithinRest DEF Typed

(* The reset of a dance. *)
LEMMA ResetIs ==
  ASSUME NEW c, Typed(c), NEW d \in Dances, NEW kc, kc = HeldCode(entry[d], c.step[d])
  PROVE  process_tap_dance_action_on_reset(c, d) =
           Config(c.active, [c.td EXCEPT ![d] = Idle], [c.step EXCEPT ![d] = KC_NO],
                  IF kc = KC_NO THEN c.report ELSE c.report \ {kc},
                  c.weak \ c.td[d].weak_mods,
                  IF kc = KC_NO THEN c.magic ELSE kc)
  <1>1. PICK b, e, f, g, t, s, rep, m :
             /\ rep = (IF kc = KC_NO THEN c.report ELSE c.report \ {kc})
             /\ m = (IF kc = KC_NO THEN c.magic ELSE kc)
             /\ b = [c EXCEPT !.td[d].count = 0] /\ e = [b EXCEPT !.step[d] = KC_NO]
             /\ t = [c.td EXCEPT ![d].count = 0] /\ s = [c.step EXCEPT ![d] = KC_NO]
             /\ f = on_dance_reset(c, d)
             /\ g = [f EXCEPT !.weak = @ \ c.td[d].weak_mods]
    OBVIOUS
  <1>2. b = Config(c.active, t, c.step, c.report, c.weak, c.magic)
    BY <1>1 DEF Typed, Shaped, Config
  <1>3. e = Config(c.active, t, s, c.report, c.weak, c.magic)
    BY <1>1, <1>2 DEF Config
  <1>4. Typed(e)
    <2>1. t \in [Dances -> TdState]
      BY <1>1, TapDanceAssumption DEF Typed, TdState
    <2>2. s \in [Dances -> Steps \cup {KC_NO}]
      BY <1>1 DEF Typed
    <2>3. QED
      BY <1>3, <2>1, <2>2, Fields DEF Typed
  <1>5. f = IF kc = KC_NO THEN e ELSE vial_keycode_up(e, kc)
    BY <1>1 DEF on_dance_reset
  <1>6. f = Config(c.active, t, s, rep, c.weak, m)
    BY <1>1, <1>3, <1>4, <1>5, UpWithin, Fields
  <1>7. g = Config(c.active, t, s, rep, c.weak \ c.td[d].weak_mods, m)
    <2>1. g = [f EXCEPT !.weak = @ \ c.td[d].weak_mods]
      BY <1>1
    <2>2. QED
      BY <1>6, <2>1 DEF Config
  <1>8. [g EXCEPT !.td[d] = Idle] =
          Config(c.active, [t EXCEPT ![d] = Idle], s, rep, c.weak \ c.td[d].weak_mods, m)
    BY <1>7 DEF Config
  <1>9. [t EXCEPT ![d] = Idle] = [c.td EXCEPT ![d] = Idle]
    BY <1>1 DEF Typed
  <1>10. process_tap_dance_action_on_reset(c, d) = [g EXCEPT !.td[d] = Idle]
    BY <1>1 DEF process_tap_dance_action_on_reset
  <1>11. QED
    BY <1>1, <1>8, <1>9, <1>10

LEMMA ResetWithin ==
  ASSUME NEW c, Typed(c), NEW d \in Dances, ~c.td[d].pressed
  PROVE  /\ Within(c, process_tap_dance_action_on_reset(c, d), {d})
         /\ process_tap_dance_action_on_reset(c, d).active = c.active
         /\ process_tap_dance_action_on_reset(c, d).td[d] = Idle
  <1>1. PICK r : r = process_tap_dance_action_on_reset(c, d)
    OBVIOUS
  <1>a. PICK kc, rep, m :
          /\ kc = HeldCode(entry[d], c.step[d])
          /\ rep = (IF kc = KC_NO THEN c.report ELSE c.report \ {kc})
          /\ m = (IF kc = KC_NO THEN c.magic ELSE kc)
    OBVIOUS
  <1>b. r = Config(c.active, [c.td EXCEPT ![d] = Idle], [c.step EXCEPT ![d] = KC_NO], rep,
                   c.weak \ c.td[d].weak_mods, m)
    BY <1>1, <1>a, ResetIs
  <1>2. /\ Shaped(r)
        /\ r.active = c.active /\ r.td = [c.td EXCEPT ![d] = Idle]
        /\ r.step = [c.step EXCEPT ![d] = KC_NO] /\ r.weak = c.weak \ c.td[d].weak_mods
    BY <1>b, Fields
  <1>3. Typed(r)
    BY <1>2, IdleType DEF Typed
  <1>4. r.td[d] = Idle /\ \A e \in Dances : e # d => r.td[e] = c.td[e]
    BY <1>2 DEF Typed
  <1>5. c.td[d].pressed = FALSE
    BY DEF Typed, TdState
  <1>6. QED
    BY <1>1, <1>2, <1>3, <1>4, <1>5, IdleType DEF Within

LEMMA ResetIfReleasedWithin ==
  ASSUME NEW c, Typed(c), NEW d \in Dances
  PROVE  /\ Within(c, ResetIfReleased(c, d), {d})
         /\ ResetIfReleased(c, d).active = KC_NO
  <1>1. PICK e : e = [c EXCEPT !.active = KC_NO]
    OBVIOUS
  <1>2. e = Config(KC_NO, c.td, c.step, c.report, c.weak, c.magic)
    BY <1>1, Updates DEF Typed
  <1>3. Within(c, e, {d}) /\ Typed(e) /\ e.td = c.td /\ e.active = KC_NO
    BY <1>2, WithinRest, Fields DEF Typed, Within
  <1>4. ResetIfReleased(c, d) = IF c.td[d].pressed THEN e ELSE process_tap_dance_action_on_reset(e, d)
    BY <1>1 DEF ResetIfReleased
  <1>5. CASE c.td[d].pressed
    BY <1>3, <1>4, <1>5
  <1>6. CASE ~c.td[d].pressed
    BY <1>3, <1>4, <1>6, ResetWithin, WithinTwice
  <1>7. QED
    BY <1>5, <1>6
-----------------------------------------------------------------------------
(* Key presses that a dance makes. *)

LEMMA LightUpdates ==
  ASSUME NEW c, Typed(c), NEW x, NEW A
  PROVE  /\ Within(c, [c EXCEPT !.magic = x], A) /\ [c EXCEPT !.magic = x].active = c.active
         /\ Within(c, [c EXCEPT !.weak = {}], A) /\ [c EXCEPT !.weak = {}].active = c.active
         /\ Within(c, [c EXCEPT !.report = @ \cup {x}], A)
  <1>1. [c EXCEPT !.report = @ \cup {x}] =
          Config(c.active, c.td, c.step, c.report \cup {x}, c.weak, c.magic)
    BY DEF Typed, Shaped, Config
  <1>2. [c EXCEPT !.magic = x] = Config(c.active, c.td, c.step, c.report, c.weak, x)
    BY Updates DEF Typed
  <1>3. [c EXCEPT !.weak = {}] = Config(c.active, c.td, c.step, c.report, {}, c.magic)
    BY Updates DEF Typed
  <1>4. c.active \in {c.active, KC_NO} /\ c.weak \in SUBSET Modifiers /\ {} \in SUBSET Modifiers
    BY DEF Typed
  <1>5. Within(c, [c EXCEPT !.report = @ \cup {x}], A)
    BY <1>1, <1>4, WithinRest
  <1>6. Within(c, [c EXCEPT !.magic = x], A) /\ [c EXCEPT !.magic = x].active = c.active
    BY <1>2, <1>4, WithinRest, Fields
  <1>7. Within(c, [c EXCEPT !.weak = {}], A) /\ [c EXCEPT !.weak = {}].active = c.active
    BY <1>3, <1>4, WithinRest, Fields
  <1>8. QED
    BY <1>5, <1>6, <1>7

Marked(c) == [c EXCEPT !.td[c.active].interrupted = TRUE]

LEMMA MarkIs ==
  ASSUME NEW c, Typed(c), NEW d \in Dances, NEW t, t = [c.td EXCEPT ![d].interrupted = TRUE]
  PROVE  [c EXCEPT !.td[d].interrupted = TRUE] =
           Config(c.active, t, c.step, c.report, c.weak, c.magic)
  <1>1. PICK b : b = [c EXCEPT !.td[d].interrupted = TRUE]
    OBVIOUS
  <1>2. b = Config(c.active, t, c.step, c.report, c.weak, c.magic)
    BY <1>1 DEF Typed, Shaped, Config
  <1>3. QED
    BY <1>1, <1>2

LEMMA MarkedWithin ==
  ASSUME NEW c, Typed(c), c.active # KC_NO
  PROVE  /\ Within(c, Marked(c), {c.active}) /\ Marked(c).active = c.active
         /\ Shaped(Marked(c))
         /\ Marked(c) = Config(c.active, Marked(c).td, c.step, c.report, c.weak, c.magic)
         /\ \A d \in Dances : Marked(c).td[d].finished = c.td[d].finished
  <1>1. PICK t : t = [c.td EXCEPT ![c.active].interrupted = TRUE]
    OBVIOUS
  <1>2. Marked(c) = Config(c.active, t, c.step, c.report, c.weak, c.magic)
    <2>1. PICK a \in Dances : a = c.active
      BY DEF Typed
    <2>2. t = [c.td EXCEPT ![a].interrupted = TRUE]
      BY <1>1, <2>1
    <2>3. [c EXCEPT !.td[a].interrupted = TRUE] = Config(c.active, t, c.step, c.report, c.weak, c.magic)
      BY <2>2, MarkIs
    <2>4. QED
      BY <2>1, <2>3 DEF Marked
  <1>3. c.active \in Dances
    BY DEF Typed
  <1>4. t \in [Dances -> TdState]
    BY <1>1, <1>3 DEF Typed, TdState
  <1>5. \A d \in Dances : /\ t[d].pressed = c.td[d].pressed /\ t[d].count = c.td[d].count
                          /\ t[d].finished = c.td[d].finished
                          /\ d # c.active => t[d] = c.td[d]
    BY <1>1, <1>3 DEF Typed, TdState
  <1>6. PICK b : b = Marked(c)
    OBVIOUS
  <1>7. Typed(b) /\ b.td = t /\ b.active = c.active
    BY <1>2, <1>4, <1>6, Fields DEF Typed
  <1>8. Within(c, b, {c.active})
    BY <1>5, <1>7 DEF Within, Done
  <1>9. QED
    BY <1>2, <1>5, <1>6, <1>7, <1>8 DEF Typed

(* What an interruption does, f being what finishing the dance comes to. *)
LEMMA InterruptedWithin ==
  ASSUME NEW c, Typed(c), NEW f, c.active # KC_NO => Within(Marked(c), f, {c.active})
  PROVE  Within(c, IF c.active = KC_NO THEN c ELSE [f EXCEPT !.weak = {}], {c.active})
  <1>1. CASE c.active = KC_NO
    BY <1>1, WithinItself
  <1>2. CASE c.active # KC_NO
    <2>1. PICK b, g : b = Marked(c) /\ g = [f EXCEPT !.weak = {}]
      OBVIOUS
    <2>2. Within(c, b, {c.active}) /\ Within(b, f, {c.active})
      BY <1>2, <2>1, MarkedWithin
    <2>3. Within(f, g, {})
      BY <2>1, <2>2, WithinTyped, LightUpdates
    <2>4. Within(c, g, {c.active})
      BY <2>2, <2>3, WithinTwice
    <2>5. QED
      BY <1>2, <2>1, <2>4
  <1>3. QED
    BY <1>1, <1>2

Pressing(c, kc) == [[c EXCEPT !.magic = kc] EXCEPT !.weak = {}]

LEMMA PressingWithin ==
  ASSUME NEW c, Typed(c), NEW kc, NEW A
  PROVE  Within(c, Pressing(c, kc), A) /\ Typed(Pressing(c, kc)) /\ Pressing(c, kc).active = c.active
  <1>1. PICK b, e : b = [c EXCEPT !.magic = kc] /\ e = [b EXCEPT !.weak = {}]
    OBVIOUS
  <1>2. Within(c, b, A) /\ b.active = c.active
    BY <1>1, LightUpdates
  <1>3. Within(b, e, A) /\ e.active = b.active
    BY <1>1, <1>2, WithinTyped, LightUpdates
  <1>4. Within(c, e, A) /\ Typed(e)
    BY <1>2, <1>3, WithinTwice DEF Within
  <1>5. QED
    BY <1>1, <1>2, <1>3, <1>4 DEF Pressing

(* What a press does, i being what the interruption comes to. *)
LEMMA DownWithin ==
  ASSUME NEW c, Typed(c), NEW kc, NEW i, Within(Pressing(c, kc), i, {c.active})
  PROVE  Within(c, IF kc \notin Magic THEN [[c EXCEPT !.magic = kc] EXCEPT !.report = @ \cup {kc}]
                   ELSE [i EXCEPT !.report = @ \cup {i.magic}], {c.active})
  <1>1. PICK b, e, j : /\ b = [c EXCEPT !.magic = kc] /\ e = [b EXCEPT !.report = @ \cup {kc}]
                       /\ j = [i EXCEPT !.report = @ \cup {i.magic}]
    OBVIOUS
  <1>2. Within(c, b, {c.active})
    BY <1>1, LightUpdates
  <1>3. Within(b, e, {c.active})
    BY <1>1, <1>2, WithinTyped, LightUpdates
  <1>4. Within(i, j, {c.active})
    BY <1>1, WithinTyped, LightUpdates
  <1>5. Within(c, Pressing(c, kc), {c.active})
    BY PressingWithin
  <1>6. Within(c, e, {c.active}) /\ Within(c, j, {c.active})
    BY <1>2, <1>3, <1>4, <1>5, WithinTwice
  <1>7. QED
    BY <1>1, <1>6

(* Setting a dance off to be finished, and deciding it. *)
Finishing(c, d) == [c EXCEPT !.td[d].finished = TRUE, !.weak = @ \cup c.td[d].weak_mods]

LEMMA FinishingWithin ==
  ASSUME NEW c, Typed(c), NEW d \in Dances
  PROVE  /\ Finishing(c, d) = Config(c.active, [c.td EXCEPT ![d].finished = TRUE], c.step, c.report,
                                     c.weak \cup c.td[d].weak_mods, c.magic)
         /\ Within(c, Finishing(c, d), {d}) /\ Finishing(c, d).active = c.active
         /\ Finishing(c, d).td[d].finished
  <1>1. PICK t, b, e : /\ t = [c.td EXCEPT ![d].finished = TRUE]
                       /\ b = [c EXCEPT !.td[d].finished = TRUE]
                       /\ e = [b EXCEPT !.weak = @ \cup c.td[d].weak_mods]
    OBVIOUS
  <1>2. b = Config(c.active, t, c.step, c.report, c.weak, c.magic)
    BY <1>1 DEF Typed, Shaped, Config
  <1>3. e = Config(c.active, t, c.step, c.report, c.weak \cup c.td[d].weak_mods, c.magic)
    BY <1>1, <1>2 DEF Config
  <1>4. t \in [Dances -> TdState]
    BY <1>1 DEF Typed, TdState
  <1>5. /\ t[d].finished
        /\ \A x \in Dances : /\ t[x].pressed = c.td[x].pressed /\ t[x].count = c.td[x].count
                             /\ c.td[x].finished => t[x].finished
                             /\ x # d => t[x] = c.td[x]
    BY <1>1 DEF Typed, TdState
  <1>6. c.weak \cup c.td[d].weak_mods \in SUBSET Modifiers
    <2>1. c.td[d] \in TdState /\ c.weak \in SUBSET Modifiers
      BY DEF Typed
    <2>2. c.td[d].weak_mods \in SUBSET Modifiers
      BY <2>1 DEF TdState
    <2>3. QED
      BY <2>1, <2>2
  <1>7. Typed(e) /\ e.td = t /\ e.active = c.active
    <2>1. PICK w \in SUBSET Modifiers : w = c.weak \cup c.td[d].weak_mods
      BY <1>6
    <2>2. e = Config(c.active, t, c.step, c.report, w, c.magic)
      BY <1>3, <2>1
    <2>3. QED
      BY <1>4, <2>2, Fields DEF Typed
  <1>8. Within(c, e, {d})
    BY <1>5, <1>7 DEF Within, Done
  <1>9. Finishing(c, d) = e
    BY <1>1 DEF Finishing
  <1>10. QED
    BY <1>1, <1>3, <1>5, <1>7, <1>8, <1>9

Decided(c, d) == [c EXCEPT !.step[d] = dance_step(c.td[d])]

LEMMA DecidedWithin ==
  ASSUME NEW c, Typed(c), NEW d \in Dances
  PROVE  /\ Decided(c, d) = Config(c.active, c.td, [c.step EXCEPT ![d] = dance_step(c.td[d])], c.report,
                                   c.weak, c.magic)
         /\ Within(c, Decided(c, d), {}) /\ Decided(c, d).active = c.active
         /\ Decided(c, d).td = c.td
  <1>1. PICK k, s : k = dance_step(c.td[d]) /\ s = [c.step EXCEPT ![d] = k]
    OBVIOUS
  <1>2. Decided(c, d) = Config(c.active, c.td, s, c.report, c.weak, c.magic)
    BY <1>1 DEF Decided, Typed, Shaped, Config
  <1>3. k \in Steps
    BY <1>1, StepType
  <1>4. s \in [Dances -> Steps \cup {KC_NO}]
    BY <1>1, <1>3 DEF Typed
  <1>5. PICK e : e = Decided(c, d)
    OBVIOUS
  <1>6. Typed(e) /\ e.td = c.td /\ e.active = c.active
    BY <1>2, <1>4, <1>5, Fields DEF Typed
  <1>7. Within(c, e, {})
    BY <1>6 DEF Within
  <1>8. QED
    BY <1>1, <1>2, <1>5, <1>6, <1>7
-----------------------------------------------------------------------------
(* process_tap_dance_action_on_dance_finished, level by level. *)

InterruptedInner(c) == Interrupted(c, ResetIfReleased)

LEMMA DownInnerWithin ==
  ASSUME NEW c, Typed(c), NEW kc
  PROVE  Within(c, DownInner(c, kc), {c.active})
  <1>1. PICK b, f, i :
          /\ b = Pressing(c, kc)
          /\ f = ResetIfReleased(Marked(b), b.active)
          /\ i = (IF b.active = KC_NO THEN b ELSE [f EXCEPT !.weak = {}])
    OBVIOUS
  <1>2. Typed(b) /\ b.active = c.active
    BY <1>1, PressingWithin
  <1>3. ASSUME b.active # KC_NO PROVE Within(Marked(b), f, {b.active})
    <2>1. Typed(Marked(b)) /\ b.active \in Dances
      BY <1>2, <1>3, MarkedWithin, WithinTyped DEF Typed
    <2>2. QED
      BY <1>1, <2>1, ResetIfReleasedWithin
  <1>4. Within(b, i, {c.active})
    BY <1>1, <1>2, <1>3, InterruptedWithin
  <1>5. DownInner(c, kc) = IF kc \notin Magic THEN [[c EXCEPT !.magic = kc] EXCEPT !.report = @ \cup {kc}]
                           ELSE [i EXCEPT !.report = @ \cup {i.magic}]
    <2>1. i = InterruptedInner(Pressing(c, kc))
      BY <1>1 DEF InterruptedInner, Interrupted, Marked
    <2>2. DownInner(c, kc) =
            IF kc \notin Magic THEN [[c EXCEPT !.magic = kc] EXCEPT !.report = @ \cup {kc}]
            ELSE [InterruptedInner(Pressing(c, kc)) EXCEPT
                    !.report = @ \cup {InterruptedInner(Pressing(c, kc)).magic}]
      BY DEF DownInner, vial_keycode_down, Interrupted, InterruptedInner, Pressing
    <2>3. QED
      BY <2>1, <2>2
  <1>6. Within(Pressing(c, kc), i, {c.active})
    BY <1>1, <1>4
  <1>7. QED
    BY <1>5, <1>6, DownWithin

LEMMA TappedInnerWithin ==
  ASSUME NEW c, Typed(c), NEW kc
  PROVE  Within(c, Tapped(c, kc, DownInner), {c.active})
  <1>1. CASE kc = KC_NO
    BY <1>1, WithinItself DEF Tapped
  <1>2. CASE kc # KC_NO
    <2>1. PICK b, e : b = DownInner(c, kc) /\ e = vial_keycode_up(b, kc)
      OBVIOUS
    <2>2. Within(c, b, {c.active})
      BY <2>1, DownInnerWithin
    <2>3. Within(b, e, {})
      BY <2>1, <2>2, WithinTyped, UpWithin
    <2>4. Within(c, e, {c.active})
      BY <2>2, <2>3, WithinTwice
    <2>5. QED
      BY <1>2, <2>1, <2>4 DEF Tapped
  <1>3. QED
    BY <1>1, <1>2

LEMMA FinishInnerWithin ==
  ASSUME NEW c, Typed(c), NEW d \in Dances
  PROVE  /\ Within(c, FinishInner(c, d), {d, c.active})
         /\ FinishInner(c, d).active = KC_NO
         /\ Done(FinishInner(c, d).td[d])
  <1>1. CASE c.td[d].finished
    <2>1. FinishInner(c, d) = ResetIfReleased(c, d)
      BY <1>1 DEF FinishInner, FinishWith
    <2>2. Within(c, ResetIfReleased(c, d), {d}) /\ ResetIfReleased(c, d).active = KC_NO
      BY ResetIfReleasedWithin
    <2>3. QED
      BY <1>1, <2>1, <2>2 DEF Within, Done
  <1>2. CASE ~c.td[d].finished
    <2>1. PICK b, k, t, e, kc, f :
            /\ b = Finishing(c, d)
            /\ k = Decided(b, d)
            /\ t = TappedCode(entry[d], dance_step(b.td[d]))
            /\ e = Tapped(k, t, DownInner)
            /\ kc = HeldCode(entry[d], dance_step(b.td[d]))
            /\ f = (IF kc = KC_NO THEN e ELSE DownInner(e, kc))
      OBVIOUS
    <2>2. Within(c, b, {d}) /\ b.active = c.active /\ Done(b.td[d])
      BY <2>1, FinishingWithin DEF Done
    <2>3. Within(b, k, {}) /\ k.active = c.active
      BY <2>1, <2>2, WithinTyped, DecidedWithin
    <2>4. Within(k, e, {c.active})
      BY <2>1, <2>3, WithinTyped, TappedInnerWithin
    <2>5. Within(b, e, {c.active})
      BY <2>3, <2>4, WithinTwice, WithinWider
    <2>6. e.active \in {c.active, KC_NO}
      BY <2>3, <2>4 DEF Within
    <2>7. Within(e, f, {e.active})
      BY <2>1, <2>5, WithinTyped, DownInnerWithin, WithinItself
    <2>8. Within(b, f, {c.active})
      BY <2>5, <2>6, <2>7, WithinTwice
    <2>9. Within(c, f, {d, c.active}) /\ Done(f.td[d])
      <3>1. Within(c, b, {d, c.active})
        BY <2>2, WithinWider
      <3>2. Within(c, f, {d, c.active})
        BY <2>8, <3>1, WithinTwice
      <3>3. QED
        BY <2>2, <2>8, <3>2 DEF Within
    <2>10. PICK r : r = ResetIfReleased(f, d)
      OBVIOUS
    <2>11. Within(f, r, {d}) /\ r.active = KC_NO
      BY <2>9, <2>10, WithinTyped, ResetIfReleasedWithin
    <2>12. Within(c, r, {d, c.active})
      BY <2>9, <2>11, WithinTwice
    <2>13. Done(r.td[d])
      BY <2>9, <2>11 DEF Within
    <2>14. FinishInner(c, d) = r
      BY <1>2, <2>1, <2>10 DEF FinishInner, FinishWith, on_dance_finished, Finishing, Decided
    <2>15. QED
      BY <2>11, <2>12, <2>13, <2>14
  <1>3. QED
    BY <1>1, <1>2
InterruptedDown(c) == Interrupted(c, FinishInner)

LEMMA DownKeyWithin ==
  ASSUME NEW c, Typed(c), NEW kc
  PROVE  Within(c, Down(c, kc), {c.active})
  <1>1. PICK b, f, i :
          /\ b = Pressing(c, kc)
          /\ f = FinishInner(Marked(b), b.active)
          /\ i = (IF b.active = KC_NO THEN b ELSE [f EXCEPT !.weak = {}])
    OBVIOUS
  <1>2. Typed(b) /\ b.active = c.active
    BY <1>1, PressingWithin
  <1>3. ASSUME b.active # KC_NO PROVE Within(Marked(b), f, {b.active})
    <2>1. Typed(Marked(b)) /\ b.active \in Dances /\ Marked(b).active = b.active
      BY <1>2, <1>3, MarkedWithin, WithinTyped DEF Typed
    <2>2. {b.active, b.active} = {b.active}
      OBVIOUS
    <2>3. QED
      BY <1>1, <2>1, <2>2, FinishInnerWithin
  <1>4. Within(b, i, {c.active})
    BY <1>1, <1>2, <1>3, InterruptedWithin
  <1>5. Down(c, kc) = IF kc \notin Magic THEN [[c EXCEPT !.magic = kc] EXCEPT !.report = @ \cup {kc}]
                           ELSE [i EXCEPT !.report = @ \cup {i.magic}]
    <2>1. i = InterruptedDown(Pressing(c, kc))
      BY <1>1 DEF InterruptedDown, Interrupted, Marked
    <2>2. Down(c, kc) =
            IF kc \notin Magic THEN [[c EXCEPT !.magic = kc] EXCEPT !.report = @ \cup {kc}]
            ELSE [InterruptedDown(Pressing(c, kc)) EXCEPT
                    !.report = @ \cup {InterruptedDown(Pressing(c, kc)).magic}]
      BY DEF Down, vial_keycode_down, Interrupted, InterruptedDown, Pressing
    <2>3. QED
      BY <2>1, <2>2
  <1>6. Within(Pressing(c, kc), i, {c.active})
    BY <1>1, <1>4
  <1>7. QED
    BY <1>5, <1>6, DownWithin

LEMMA TappedWithin ==
  ASSUME NEW c, Typed(c), NEW kc
  PROVE  Within(c, Tapped(c, kc, Down), {c.active})
  <1>1. CASE kc = KC_NO
    BY <1>1, WithinItself DEF Tapped
  <1>2. CASE kc # KC_NO
    <2>1. PICK b, e : b = Down(c, kc) /\ e = vial_keycode_up(b, kc)
      OBVIOUS
    <2>2. Within(c, b, {c.active})
      BY <2>1, DownKeyWithin
    <2>3. Within(b, e, {})
      BY <2>1, <2>2, WithinTyped, UpWithin
    <2>4. Within(c, e, {c.active})
      BY <2>2, <2>3, WithinTwice
    <2>5. QED
      BY <1>2, <2>1, <2>4 DEF Tapped
  <1>3. QED
    BY <1>1, <1>2

LEMMA FinishedWithin ==
  ASSUME NEW c, Typed(c), NEW d \in Dances
  PROVE  /\ Within(c, process_tap_dance_action_on_dance_finished(c, d), {d, c.active})
         /\ process_tap_dance_action_on_dance_finished(c, d).active = KC_NO
         /\ Done(process_tap_dance_action_on_dance_finished(c, d).td[d])
  <1>1. CASE c.td[d].finished
    <2>1. process_tap_dance_action_on_dance_finished(c, d) = ResetIfReleased(c, d)
      BY <1>1 DEF process_tap_dance_action_on_dance_finished, FinishWith
    <2>2. Within(c, ResetIfReleased(c, d), {d}) /\ ResetIfReleased(c, d).active = KC_NO
      BY ResetIfReleasedWithin
    <2>3. QED
      BY <1>1, <2>1, <2>2 DEF Within, Done
  <1>2. CASE ~c.td[d].finished
    <2>1. PICK b, k, t, e, kc, f :
            /\ b = Finishing(c, d)
            /\ k = Decided(b, d)
            /\ t = TappedCode(entry[d], dance_step(b.td[d]))
            /\ e = Tapped(k, t, Down)
            /\ kc = HeldCode(entry[d], dance_step(b.td[d]))
            /\ f = (IF kc = KC_NO THEN e ELSE Down(e, kc))
      OBVIOUS
    <2>2. Within(c, b, {d}) /\ b.active = c.active /\ Done(b.td[d])
      BY <2>1, FinishingWithin DEF Done
    <2>3. Within(b, k, {}) /\ k.active = c.active
      BY <2>1, <2>2, WithinTyped, DecidedWithin
    <2>4. Within(k, e, {c.active})
      BY <2>1, <2>3, WithinTyped, TappedWithin
    <2>5. Within(b, e, {c.active})
      BY <2>3, <2>4, WithinTwice, WithinWider
    <2>6. e.active \in {c.active, KC_NO}
      BY <2>3, <2>4 DEF Within
    <2>7. Within(e, f, {e.active})
      BY <2>1, <2>5, WithinTyped, DownKeyWithin, WithinItself
    <2>8. Within(b, f, {c.active})
      BY <2>5, <2>6, <2>7, WithinTwice
    <2>9. Within(c, f, {d, c.active}) /\ Done(f.td[d])
      <3>1. Within(c, b, {d, c.active})
        BY <2>2, WithinWider
      <3>2. Within(c, f, {d, c.active})
        BY <2>8, <3>1, WithinTwice
      <3>3. QED
        BY <2>2, <2>8, <3>2 DEF Within
    <2>10. PICK r : r = ResetIfReleased(f, d)
      OBVIOUS
    <2>11. Within(f, r, {d}) /\ r.active = KC_NO
      BY <2>9, <2>10, WithinTyped, ResetIfReleasedWithin
    <2>12. Within(c, r, {d, c.active})
      BY <2>9, <2>11, WithinTwice
    <2>13. Done(r.td[d])
      BY <2>9, <2>11 DEF Within
    <2>14. process_tap_dance_action_on_dance_finished(c, d) = r
      BY <1>2, <2>1, <2>10 DEF process_tap_dance_action_on_dance_finished, FinishWith, on_dance_finished, Finishing, Decided
    <2>15. QED
      BY <2>11, <2>12, <2>13, <2>14
  <1>3. QED
    BY <1>1, <1>2
-----------------------------------------------------------------------------
(* The events. *)

LEMMA StateTyped ==
  ASSUME TypeOK
  PROVE  /\ Typed(State)
         /\ State = Config(active_td, td, dance_state, report, weak_mods, magic)
         /\ State.active = active_td /\ State.td = td /\ State.step = dance_state
         /\ State.report = report /\ State.weak = weak_mods /\ State.magic = magic
  <1>1. State = Config(active_td, td, dance_state, report, weak_mods, magic)
    BY DEF State, Config
  <1>2. QED
    BY <1>1, Fields DEF TypeOK, Typed, TdState

Once(c, d) == Tapped(c, entry[d].on_tap, Down)

LEMMA OnDanceWithin ==
  ASSUME NEW c, Typed(c), NEW d \in Dances
  PROVE  Within(c, on_dance(c, d), {c.active})
  <1>a. ASSUME NEW e, Typed(e) PROVE Within(e, Once(e, d), {e.active})
    BY <1>a, TappedWithin DEF Once
  <1>1. PICK b1, b2, b3 : b1 = Once(c, d) /\ b2 = Once(b1, d) /\ b3 = Once(b2, d)
    OBVIOUS
  <1>2. Within(c, b1, {c.active})
    BY <1>1, <1>a
  <1>3. Within(b1, b2, {b1.active}) /\ b1.active \in {c.active, KC_NO}
    BY <1>1, <1>2, <1>a, WithinTyped
  <1>4. Within(c, b2, {c.active}) /\ b2.active \in {c.active, KC_NO}
    BY <1>2, <1>3, WithinTwice, WithinTyped
  <1>5. Within(b2, b3, {b2.active})
    BY <1>1, <1>4, <1>a, WithinTyped
  <1>6. Within(c, b3, {c.active})
    BY <1>4, <1>5, WithinTwice
  <1>7. Within(c, c, {c.active})
    BY WithinItself
  <1>8. on_dance(c, d) \in {b1, b3, c}
    <2>1. c.td[d].count \in Int
      BY DEF Typed, TdState
    <2>2. on_dance(c, d) = CASE c.td[d].count = 3 -> Once(Once(Once(c, d), d), d)
                             [] c.td[d].count > 3 -> Once(c, d)
                             [] OTHER -> c
      BY DEF on_dance, Once
    <2>3. QED
      BY <1>1, <2>1, <2>2
  <1>9. QED
    BY <1>2, <1>6, <1>7, <1>8

(* preprocess_tap_dance finishes the dance that a press interrupts. *)
Finished(c) == Interrupted(c, process_tap_dance_action_on_dance_finished)

LEMMA FinishedActive ==
  ASSUME NEW c, Typed(c)
  PROVE  /\ Within(c, Finished(c), {c.active}) /\ Finished(c).active = KC_NO
         /\ c.active # KC_NO => Done(Finished(c).td[c.active])
  <1>1. CASE c.active = KC_NO
    BY <1>1, WithinItself DEF Finished, Interrupted
  <1>2. CASE c.active # KC_NO
    <2>1. PICK b, f, r : /\ b = Marked(c)
                         /\ f = process_tap_dance_action_on_dance_finished(b, c.active)
                         /\ r = [f EXCEPT !.weak = {}]
      OBVIOUS
    <2>2. Typed(b) /\ c.active \in Dances /\ b.active = c.active
      BY <1>2, <2>1, MarkedWithin, WithinTyped DEF Typed
    <2>3. Within(b, f, {c.active, c.active}) /\ f.active = KC_NO /\ Done(f.td[c.active])
      BY <2>1, <2>2, FinishedWithin
    <2>4. Within(b, f, {c.active})
      <3>1. {c.active, c.active} = {c.active}
        OBVIOUS
      <3>2. QED
        BY <2>3, <3>1
    <2>5. Within(f, r, {}) /\ r.active = KC_NO
      BY <2>1, <2>3, WithinTyped, LightUpdates
    <2>6. Finished(c) = r
      BY <1>2, <2>1 DEF Finished, Interrupted, Marked
    <2>7. Within(c, IF c.active = KC_NO THEN c ELSE [f EXCEPT !.weak = {}], {c.active})
      BY <2>1, <2>4, InterruptedWithin
    <2>8. Within(c, r, {c.active})
      BY <1>2, <2>1, <2>7
    <2>9. Done(r.td[c.active])
      BY <2>2, <2>3, <2>5 DEF Within
    <2>10. QED
      BY <2>5, <2>6, <2>8, <2>9
  <1>3. QED
    BY <1>1, <1>2

LEMMA PreprocessedWithin ==
  ASSUME TypeOK, NEW k \in Keys
  PROVE  /\ Within(State, Preprocessed(k), {active_td})
         /\ Preprocessed(k).active \in {k, KC_NO}
         /\ k = active_td => Preprocessed(k).td = td
         /\ active_td # KC_NO /\ active_td # k => Done(Preprocessed(k).td[active_td])
  <1>1. PICK c, r : c = [State EXCEPT !.weak = {}] /\ r = Finished(c)
    OBVIOUS
  <1>2. Within(State, c, {active_td}) /\ c.active = active_td /\ Typed(c) /\ c.td = td
    <2>1. Within(State, c, {active_td}) /\ c.active = active_td
      BY <1>1, StateTyped, LightUpdates
    <2>2. c = Config(active_td, td, dance_state, report, {}, magic)
      <3>1. PICK s : s = State
        OBVIOUS
      <3>2. s = Config(active_td, td, dance_state, report, weak_mods, magic)
        BY <3>1, StateTyped
      <3>3. [s EXCEPT !.weak = {}] = Config(active_td, td, dance_state, report, {}, magic)
        BY <3>2 DEF Config
      <3>4. QED
        BY <1>1, <3>1, <3>3
    <2>3. QED
      BY <2>1, <2>2, WithinTyped, Fields
  <1>3. Within(c, r, {active_td}) /\ r.active = KC_NO /\ (active_td # KC_NO => Done(r.td[active_td]))
    BY <1>1, <1>2, FinishedActive
  <1>4. Within(State, r, {active_td})
    BY <1>2, <1>3, WithinTwice
  <1>5. Preprocessed(k) = IF k = active_td THEN c ELSE r
    BY <1>1 DEF Preprocessed, Finished
  <1>6. QED
    BY <1>2, <1>3, <1>4, <1>5
Tap(c, d) ==
  [c EXCEPT !.td[d].pressed = TRUE, !.td[d].count = @ + 1,
            !.td[d].weak_mods = (c.report \cap Modifiers) \cup c.weak]

IsTap(c, d, b) ==
  /\ Typed(b) /\ b.active = c.active /\ b.step = c.step /\ b.report = c.report /\ b.weak = c.weak
  /\ b.td[d].pressed = TRUE /\ b.td[d].count > 0
  /\ \A x \in Dances \ {d} : b.td[x] = c.td[x]

LEMMA TapIs ==
  ASSUME NEW c, Typed(c), NEW d \in Dances, c.td[d].count < MaxTaps
  PROVE  IsTap(c, d, Tap(c, d))
  <1>0. PICK b : b = Tap(c, d)
    OBVIOUS
  <1>1. PICK w, b1, b2, b3 :
          /\ w = (c.report \cap Modifiers) \cup c.weak
          /\ b1 = [c EXCEPT !.td[d].pressed = TRUE]
          /\ b2 = [b1 EXCEPT !.td[d].count = @ + 1]
          /\ b3 = [b2 EXCEPT !.td[d].weak_mods = w]
    OBVIOUS
  <1>2. b = b3
    BY <1>0, <1>1 DEF Tap
  <1>3. PICK t1, t2, t3 : /\ t1 = [c.td EXCEPT ![d].pressed = TRUE]
                          /\ t2 = [t1 EXCEPT ![d].count = @ + 1]
                          /\ t3 = [t2 EXCEPT ![d].weak_mods = w]
    OBVIOUS
  <1>4. b1 = Config(c.active, t1, c.step, c.report, c.weak, c.magic)
    BY <1>1, <1>3 DEF Typed, Shaped, Config
  <1>5. b2 = Config(c.active, t2, c.step, c.report, c.weak, c.magic)
    BY <1>1, <1>3, <1>4 DEF Config
  <1>6. b3 = Config(c.active, t3, c.step, c.report, c.weak, c.magic)
    <2>1. b3 = [b2 EXCEPT !.td[d].weak_mods = w] /\ t3 = [t2 EXCEPT ![d].weak_mods = w]
      BY <1>1, <1>3
    <2>2. QED
      BY <1>5, <2>1 DEF Config
  <1>7. w \in SUBSET Modifiers
    BY <1>1 DEF Typed
  <1>8. /\ t3 \in [Dances -> TdState] /\ t3[d].pressed = TRUE /\ t3[d].count > 0
        /\ \A x \in Dances \ {d} : t3[x] = c.td[x]
    <2>1. t3 = [c.td EXCEPT ![d].pressed = TRUE, ![d].count = @ + 1, ![d].weak_mods = w]
      BY <1>3
    <2>2. /\ c.td \in [Dances -> TdState] /\ c.td[d].count + 1 \in 0..MaxTaps
          /\ c.td[d].count \in Nat
      BY TapDanceAssumption DEF Typed, TdState
    <2>3. t3 \in [Dances -> TdState] /\ t3[d].pressed = TRUE /\ \A x \in Dances \ {d} : t3[x] = c.td[x]
      BY <1>7, <2>1, <2>2 DEF TdState
    <2>4. t3[d].count = c.td[d].count + 1
      BY <2>1, <2>2 DEF TdState
    <2>5. QED
      BY <2>2, <2>3, <2>4
  <1>9. IsTap(c, d, b)
    BY <1>2, <1>6, <1>8, Fields DEF Typed, IsTap
  <1>10. QED
    BY <1>0, <1>9

(* A tap of a dance's key, from the configuration that preprocess_tap_dance  *)
(* has left.                                                                 *)
IsPressed(c, d, r) ==
  /\ Typed(r)
  /\ r.active = d \/ (r.active = KC_NO /\ r.td[d].finished)
  /\ r.td[d].pressed = TRUE
  /\ \A x \in Dances \ {d} : /\ r.td[x].pressed = c.td[x].pressed
                             /\ Done(c.td[x]) => Done(r.td[x])

LEMMA PressedWithin ==
  ASSUME NEW c, Typed(c), NEW d \in Dances, c.td[d].count < MaxTaps
  PROVE  IsPressed(c, d, TapDancePressed(c, d))
  <1>1. PICK b, e, a, r : /\ b = Tap(c, d) /\ e = on_dance(b, d)
                          /\ a = IF e.td[d].finished THEN KC_NO ELSE d
                          /\ r = TapDancePressed(c, d)
    OBVIOUS
  <1>2. Typed(b) /\ b.td[d].pressed = TRUE /\ \A x \in Dances \ {d} : b.td[x] = c.td[x]
    <2>1. b = Tap(c, d)
      BY <1>1
    <2>2. QED
      BY <2>1, TapIs DEF IsTap
  <1>3. Within(b, e, {b.active})
    <2>1. e = on_dance(b, d)
      BY <1>1
    <2>2. QED
      BY <1>2, <2>1, OnDanceWithin
  <1>4. r = [e EXCEPT !.active = a]
    BY <1>1 DEF TapDancePressed, Tap
  <1>5. r = Config(a, e.td, e.step, e.report, e.weak, e.magic)
    BY <1>3, <1>4, WithinTyped, Updates DEF Typed
  <1>6. Typed(r) /\ r.td = e.td /\ r.active = a
    BY <1>1, <1>3, <1>5, WithinTyped, Fields DEF Typed
  <1>7. r.active = d \/ (r.active = KC_NO /\ r.td[d].finished)
    BY <1>1, <1>6
  <1>8. \A x \in Dances : e.td[x].pressed = b.td[x].pressed /\ (Done(b.td[x]) => Done(e.td[x]))
    BY <1>3 DEF Within
  <1>9. IsPressed(c, d, r)
    BY <1>2, <1>6, <1>7, <1>8 DEF IsPressed
  <1>10. QED
    BY <1>1, <1>9

(* A release of a dance's key. *)
Up(c, d) == [c EXCEPT !.td[d].pressed = FALSE]

LEMMA UpIs ==
  ASSUME NEW c, Typed(c), NEW d \in Dances, NEW r, r = Up(c, d)
  PROVE  /\ Typed(r) /\ r.active = c.active /\ r.td[d].pressed = FALSE
         /\ \A x \in Dances : /\ Done(c.td[x]) => Done(r.td[x])
                              /\ x # d => r.td[x] = c.td[x]
  <1>1. PICK t : t = [c.td EXCEPT ![d].pressed = FALSE]
    OBVIOUS
  <1>2. r = Config(c.active, t, c.step, c.report, c.weak, c.magic)
    BY <1>1 DEF Up, Typed, Shaped, Config
  <1>3. /\ t \in [Dances -> TdState] /\ t[d].pressed = FALSE
        /\ \A x \in Dances : /\ t[x].count = c.td[x].count /\ t[x].finished = c.td[x].finished
                             /\ x # d => t[x] = c.td[x]
    BY <1>1 DEF Typed, TdState
  <1>4. Typed(r) /\ r.td = t /\ r.active = c.active
    BY <1>2, <1>3, Fields DEF Typed
  <1>5. QED
    BY <1>2, <1>3, <1>4 DEF Done

LEMMA VialReleaseWithin ==
  ASSUME TypeOK, NEW d \in Dances, NEW r, r = process_record_vial(d)
  PROVE  /\ Typed(r)
         /\ \A x \in Dances : /\ x # d => r.td[x].pressed = td[x].pressed
                              /\ Done(td[x]) => Done(r.td[x])
         /\ Early(d) => Done(r.td[d])
         /\ ~Early(d) => r = State
  <1>1. CASE ~Early(d)
    BY <1>1, StateTyped DEF process_record_vial
  <1>2. CASE Early(d)
    <2>1. PICK b : b = Up(State, d)
      OBVIOUS
    <2>2. /\ Typed(b)
          /\ \A x \in Dances : /\ Done(td[x]) => Done(b.td[x])
                               /\ x # d => b.td[x] = td[x]
      <3>1. Typed(State) /\ State.td = td
        BY StateTyped
      <3>2. /\ Typed(b)
            /\ \A x \in Dances : /\ Done(State.td[x]) => Done(b.td[x])
                                 /\ x # d => b.td[x] = State.td[x]
        BY <2>1, <3>1, UpIs
      <3>3. QED
        BY <3>1, <3>2
    <2>3. r = process_tap_dance_action_on_dance_finished(b, d)
      BY <1>2, <2>1 DEF process_record_vial, Up
    <2>4. Within(b, r, {d, b.active}) /\ Done(r.td[d])
      BY <2>2, <2>3, FinishedWithin
    <2>5. QED
      BY <1>2, <2>2, <2>4 DEF Within
  <1>3. QED
    BY <1>1, <1>2

IsReleased(c, d, r) ==
  /\ Typed(r) /\ r.td[d].pressed = FALSE
  /\ \A x \in Dances : /\ x # d => r.td[x].pressed = c.td[x].pressed
                       /\ Done(c.td[x]) => Done(r.td[x])
  /\ r.active = c.active \/ (c.active = d /\ Done(r.td[d]))

LEMMA ReleasedWithin ==
  ASSUME NEW c, Typed(c), NEW d \in Dances
  PROVE  IsReleased(c, d, TapDanceReleased(c, d))
  <1>0. PICK r : r = TapDanceReleased(c, d)
    OBVIOUS
  <1>a. SUFFICES IsReleased(c, d, r)
    BY <1>0
  <1>1. PICK e, f, a : /\ e = Up(c, d) /\ f = process_tap_dance_action_on_reset(e, d)
                       /\ a = IF f.active = d THEN KC_NO ELSE f.active
    OBVIOUS
  <1>2. /\ Typed(e) /\ e.active = c.active /\ e.td[d].pressed = FALSE
        /\ \A x \in Dances : /\ Done(c.td[x]) => Done(e.td[x])
                             /\ x # d => e.td[x] = c.td[x]
    <2>1. e = Up(c, d)
      BY <1>1
    <2>2. QED
      BY <2>1, UpIs
  <1>3. CASE ~e.td[d].finished
    <2>1. r = e
      BY <1>0, <1>1, <1>3 DEF TapDanceReleased, Up
    <2>2. QED
      BY <1>2, <2>1 DEF IsReleased
  <1>4. CASE e.td[d].finished
    <2>1. Within(e, f, {d}) /\ f.active = c.active /\ f.td[d] = Idle
      BY <1>1, <1>2, ResetWithin
    <2>2. [f EXCEPT !.active = IF @ = d THEN KC_NO ELSE @] = [f EXCEPT !.active = a]
      BY <1>1, <2>1, WithinTyped DEF Typed, Shaped, Config
    <2>3. r = [f EXCEPT !.active = a]
      BY <1>0, <1>1, <1>4, <2>2 DEF TapDanceReleased, Up
    <2>4. r = Config(a, f.td, f.step, f.report, f.weak, f.magic)
      BY <2>1, <2>3, WithinTyped, Updates DEF Typed
    <2>5. Typed(r) /\ r.td = f.td /\ r.active = a
      BY <1>1, <2>1, <2>4, WithinTyped, Fields DEF Typed
    <2>6. QED
      BY <1>1, <1>2, <2>1, <2>5, IdleType DEF Within, IsReleased
  <1>5. QED
    BY <1>3, <1>4
-----------------------------------------------------------------------------
(* The step of an event that comes to r. *)
LEMMA BecomesType ==
  ASSUME TypeOK, NEW r, Becomes(r), Typed(r), held' \subseteq Keys,
         \A d \in Dances : r.td[d].pressed = (d \in held'),
         now' \in 0..(TimerRange - 1), last_tap_time' \in 0..(TimerRange - 1),
         entry' \in Entries, edited' \in BOOLEAN
  PROVE  TypeOK'
  BY DEF TypeOK, Becomes, Typed, TdState

NewOrphan(d) == Orphaned(d)' /\ ~Orphaned(d)

(* Only a dance that was active can be orphaned. *)
LEMMA OrphanedWas ==
  ASSUME TypeOK, NEW r, Becomes(r), Typed(r), NEW d \in Dances, Done(td[d]) => Done(r.td[d]),
         NewOrphan(d)
  PROVE  active_td = d /\ r.active # d /\ ~Done(r.td[d])
  <1>1. td[d].count \in Nat /\ r.td[d].count \in Nat
    BY TapDanceAssumption DEF TypeOK, Typed, TdState
  <1>2. td' = r.td /\ active_td' = r.active
    BY DEF Becomes
  <1>3. ~Done(r.td[d]) /\ r.active # d
    BY <1>1, <1>2 DEF NewOrphan, Orphaned, Unfinished, Done
  <1>4. ~Done(td[d])
    BY <1>3
  <1>5. active_td = d
    BY <1>1, <1>4 DEF NewOrphan, Orphaned, Unfinished, Done
  <1>6. QED
    BY <1>3, <1>5

LEMMA PressDanceStep ==
  ASSUME TypeOK, NEW d \in Dances, PressDance(d)
  PROVE  TypeOK' /\ \A x \in Dances : ~NewOrphan(x)
  <1>1. PICK c, r : c = Preprocessed(d) /\ r = TapDancePressed(c, d) /\ Becomes(r)
    BY DEF PressDance
  <1>2. d \in Keys
    BY DEF Keys
  <1>3. /\ Within(State, c, {active_td}) /\ c.active \in {d, KC_NO}
        /\ d = active_td => c.td = td
        /\ active_td # KC_NO /\ active_td # d => Done(c.td[active_td])
    BY <1>1, <1>2, PreprocessedWithin
  <1>4. State.td = td
    BY StateTyped
  <1>5. c.td[d] = td[d]
    BY <1>3, <1>4 DEF Within
  <1>6. /\ Typed(r)
        /\ r.active = d \/ (r.active = KC_NO /\ r.td[d].finished)
        /\ r.td[d].pressed = TRUE
        /\ \A x \in Dances \ {d} : /\ r.td[x].pressed = c.td[x].pressed
                                   /\ Done(c.td[x]) => Done(r.td[x])
    <2>1. c.td[d].count < MaxTaps
      BY <1>5 DEF PressDance
    <2>2. Typed(c) /\ r = TapDancePressed(c, d)
      BY <1>1, <1>3, WithinTyped
    <2>3. QED
      BY <2>1, <2>2, PressedWithin DEF IsPressed
  <1>7. \A x \in Dances : c.td[x].pressed = td[x].pressed /\ (Done(td[x]) => Done(c.td[x]))
    BY <1>3, <1>4 DEF Within
  <1>8. TypeOK'
    <2>1. held' = held \cup {d} /\ UNCHANGED <<now, entry, edited>> /\ last_tap_time' = now
      BY DEF PressDance
    <2>2. \A x \in Dances : td[x].pressed = (x \in held)
      BY DEF TypeOK
    <2>3. \A x \in Dances : r.td[x].pressed = (x \in held')
      <3>1. (d \in held') = TRUE /\ \A x \in Dances \ {d} : (x \in held') = (x \in held)
        BY <2>1
      <3>2. \A x \in Dances \ {d} : r.td[x].pressed = (x \in held)
        BY <1>6, <1>7, <2>2
      <3>3. QED
        BY <1>6, <3>1, <3>2, Zenon
    <2>4. QED
      BY <1>1, <1>2, <1>6, <2>1, <2>3, BecomesType DEF TypeOK
  <1>9. ASSUME NEW x \in Dances, NewOrphan(x) PROVE FALSE
    <2>1. x # d => (Done(td[x]) => Done(r.td[x]))
      BY <1>6, <1>7
    <2>2. CASE x = d
      <3>1. r.td[d].count \in Nat /\ td' = r.td /\ active_td' = r.active
        BY <1>1, <1>6 DEF Typed, TdState, Becomes
      <3>2. QED
        BY <1>6, <1>9, <2>2, <3>1 DEF NewOrphan, Orphaned, Unfinished
    <2>3. CASE x # d
      <3>1. active_td = x /\ ~Done(r.td[x])
        BY <1>1, <1>6, <1>9, <2>1, <2>3, OrphanedWas
      <3>2. Done(c.td[x])
        BY <1>3, <2>3, <3>1, NoDance
      <3>3. QED
        BY <1>6, <2>3, <3>1, <3>2
    <2>4. QED
      BY <2>2, <2>3
  <1>10. QED
    BY <1>8, <1>9

LEMMA PressOtherStep ==
  ASSUME TypeOK, NEW k \in OtherKeys, PressOther(k)
  PROVE  TypeOK' /\ \A x \in Dances : ~NewOrphan(x)
  <1>1. PICK c, r : c = Preprocessed(k) /\ r = [c EXCEPT !.report = @ \cup {k}] /\ Becomes(r)
    BY DEF PressOther
  <1>2. k \in Keys /\ k \notin Dances
    BY TapDanceAssumption DEF Keys
  <1>3. /\ Within(State, c, {active_td})
        /\ active_td # KC_NO /\ active_td # k => Done(c.td[active_td])
    BY <1>1, <1>2, PreprocessedWithin
  <1>4. Within(c, r, {})
    BY <1>1, <1>3, WithinTyped, LightUpdates
  <1>5. State.td = td
    BY StateTyped
  <1>6. Within(State, r, {active_td}) /\ Typed(r)
    BY <1>3, <1>4, WithinTwice, WithinTyped
  <1>7. \A x \in Dances : r.td[x].pressed = td[x].pressed /\ (Done(td[x]) => Done(r.td[x]))
    BY <1>5, <1>6 DEF Within
  <1>8. TypeOK'
    <2>1. held' = held \cup {k} /\ UNCHANGED <<now, entry, last_tap_time, edited>>
      BY DEF PressOther
    <2>2. \A x \in Dances : td[x].pressed = (x \in held)
      BY DEF TypeOK
    <2>3. \A x \in Dances : r.td[x].pressed = (x \in held')
      BY <1>2, <1>7, <2>1, <2>2
    <2>4. QED
      BY <1>1, <1>2, <1>6, <2>1, <2>3, BecomesType DEF TypeOK
  <1>9. ASSUME NEW x \in Dances, NewOrphan(x) PROVE FALSE
    <2>1. active_td = x /\ ~Done(r.td[x])
      BY <1>1, <1>6, <1>7, <1>9, OrphanedWas
    <2>2. Done(c.td[x])
      BY <1>2, <1>3, <2>1, NoDance
    <2>3. QED
      BY <1>4, <2>1, <2>2 DEF Within
  <1>10. QED
    BY <1>8, <1>9

LEMMA ReleaseDanceStep ==
  ASSUME TypeOK, NEW d \in Dances, ReleaseDance(d)
  PROVE  TypeOK' /\ \A x \in Dances : NewOrphan(x) => x # d /\ Early(d) /\ d \in held \ held'
  <1>1. PICK c, r : c = process_record_vial(d) /\ r = TapDanceReleased(c, d) /\ Becomes(r)
    BY DEF ReleaseDance
  <1>2. /\ Typed(c)
        /\ \A x \in Dances : /\ x # d => c.td[x].pressed = td[x].pressed
                             /\ Done(td[x]) => Done(c.td[x])
        /\ Early(d) => Done(c.td[d])
        /\ ~Early(d) => c = State
    BY <1>1, VialReleaseWithin
  <1>3. /\ Typed(r) /\ r.td[d].pressed = FALSE
        /\ \A x \in Dances : /\ x # d => r.td[x].pressed = c.td[x].pressed
                             /\ Done(c.td[x]) => Done(r.td[x])
        /\ r.active = c.active \/ (c.active = d /\ Done(r.td[d]))
    <2>1. Typed(c) /\ r = TapDanceReleased(c, d)
      BY <1>1, <1>2
    <2>2. QED
      BY <2>1, ReleasedWithin DEF IsReleased
  <1>4. held' = held \ {d} /\ d \in held /\ UNCHANGED <<now, entry, last_tap_time, edited>>
    BY DEF ReleaseDance
  <1>5. TypeOK'
    <2>1. \A x \in Dances : td[x].pressed = (x \in held)
      BY DEF TypeOK
    <2>2. \A x \in Dances : r.td[x].pressed = (x \in held')
      <3>1. (d \in held') = FALSE /\ \A x \in Dances \ {d} : (x \in held') = (x \in held)
        BY <1>4
      <3>2. \A x \in Dances \ {d} : r.td[x].pressed = (x \in held)
        BY <1>2, <1>3, <2>1
      <3>3. QED
        BY <1>3, <3>1, <3>2, Zenon
    <2>3. QED
      BY <1>1, <1>3, <1>4, <2>2, BecomesType DEF TypeOK
  <1>6. ASSUME NEW x \in Dances, NewOrphan(x) PROVE x # d /\ Early(d) /\ d \in held \ held'
    <2>1. active_td = x /\ r.active # x /\ ~Done(r.td[x])
      BY <1>1, <1>2, <1>3, <1>6, OrphanedWas
    <2>2. CASE Early(d)
      BY <1>2, <1>3, <1>4, <2>1, <2>2
    <2>3. CASE ~Early(d)
      <3>1. c.active = x
        BY <1>2, <2>1, <2>3, StateTyped
      <3>2. QED
        BY <1>3, <2>1, <3>1
    <2>4. QED
      BY <2>2, <2>3
  <1>7. QED
    BY <1>5, <1>6

LEMMA TaskStep ==
  ASSUME TypeOK, Task
  PROVE  TypeOK' /\ \A x \in Dances : ~NewOrphan(x)
  <1>1. PICK g \in 1..MaxGap : tap_dance_task(g)
    BY DEF Task
  <1>2. PICK r : /\ Becomes(r)
                 /\ r = State \/ (active_td # KC_NO /\ r = process_tap_dance_action_on_dance_finished(State, active_td))
    BY <1>1 DEF tap_dance_task
  <1>3. UNCHANGED <<held, entry, last_tap_time, edited>> /\ now' = (now + g) % TimerRange
    BY <1>1 DEF tap_dance_task
  <1>4. /\ Typed(r)
        /\ \A x \in Dances : r.td[x].pressed = td[x].pressed /\ (Done(td[x]) => Done(r.td[x]))
        /\ r.active = active_td \/ (active_td \in Dances /\ Done(r.td[active_td]))
    <2>1. Typed(State) /\ State.td = td /\ State.active = active_td
      BY StateTyped
    <2>2. CASE r = State
      BY <2>1, <2>2
    <2>3. CASE active_td # KC_NO /\ r = process_tap_dance_action_on_dance_finished(State, active_td)
      <3>1. active_td \in Dances
        BY <2>3 DEF TypeOK
      <3>2. Within(State, r, {active_td, active_td}) /\ Done(r.td[active_td])
        BY <2>1, <2>3, <3>1, FinishedWithin
      <3>3. QED
        BY <2>1, <3>1, <3>2 DEF Within
    <2>4. QED
      BY <1>2, <2>2, <2>3
  <1>5. TypeOK'
    <2>1. now' \in 0..(TimerRange - 1)
      BY <1>3, TapDanceAssumption DEF TypeOK
    <2>2. \A x \in Dances : td[x].pressed = (x \in held)
      BY DEF TypeOK
    <2>3. \A x \in Dances : r.td[x].pressed = (x \in held')
      BY <1>3, <1>4, <2>2
    <2>4. QED
      BY <1>2, <1>3, <1>4, <2>1, <2>3, BecomesType DEF TypeOK
  <1>6. ASSUME NEW x \in Dances, NewOrphan(x) PROVE FALSE
    <2>1. active_td = x /\ r.active # x /\ ~Done(r.td[x])
      BY <1>2, <1>4, <1>6, OrphanedWas
    <2>2. QED
      BY <1>4, <2>1
  <1>7. QED
    BY <1>5, <1>6

(* Every step, by its action. *)
LEMMA NextStep ==
  ASSUME TypeOK, [Next]_vars
  PROVE  /\ TypeOK'
         /\ \A x \in Dances : NewOrphan(x) => \E d \in (Dances \ {x}) \cap (held \ held') : Early(d)
  <1>1. ASSUME NEW d \in Dances, PressDance(d) PROVE TypeOK' /\ \A x \in Dances : ~NewOrphan(x)
    BY <1>1, PressDanceStep
  <1>2. CASE \E d \in Dances : ReleaseDance(d)
    <2>1. PICK d \in Dances : ReleaseDance(d)
      BY <1>2
    <2>2. TypeOK' /\ \A x \in Dances : NewOrphan(x) => x # d /\ Early(d) /\ d \in held \ held'
      BY <2>1, ReleaseDanceStep
    <2>3. QED
      BY <2>2
  <1>3. ASSUME NEW k \in OtherKeys, PressOther(k) PROVE TypeOK' /\ \A x \in Dances : ~NewOrphan(x)
    BY <1>3, PressOtherStep
  <1>4. ASSUME NEW k \in OtherKeys, ReleaseOther(k) PROVE TypeOK' /\ \A x \in Dances : ~NewOrphan(x)
    <2>1. /\ held' = held \ {k} /\ UNCHANGED <<now, entry, active_td, last_tap_time, td, dance_state,
                                              weak_mods, edited>>
      BY <1>4 DEF ReleaseOther
    <2>2. k \notin Dances
      BY TapDanceAssumption DEF Keys
    <2>3. QED
      BY <2>1, <2>2 DEF TypeOK, NewOrphan, Orphaned, Unfinished
  <1>5. CASE Task
    BY <1>5, TaskStep
  <1>6. ASSUME NEW e \in Entries, SetEntry(e) PROVE TypeOK' /\ \A x \in Dances : ~NewOrphan(x)
    <2>1. /\ entry' = e /\ UNCHANGED <<held, now, active_td, last_tap_time, td, dance_state, weak_mods>>
          /\ edited' \in BOOLEAN
      BY <1>6 DEF SetEntry, TypeOK
    <2>2. QED
      BY <2>1 DEF TypeOK, NewOrphan, Orphaned, Unfinished
  <1>7. CASE UNCHANGED vars
    BY <1>7 DEF vars, TypeOK, NewOrphan, Orphaned, Unfinished
  <1>8. QED
    BY <1>1, <1>2, <1>3, <1>4, <1>5, <1>6, <1>7 DEF Next

LEMMA InitType == Init => TypeOK
  <1>1. ASSUME Init PROVE TypeOK
    <2>1. \A d \in Dances : [x \in Dances |-> Idle][d].pressed = FALSE
      BY IdleType
    <2>2. [d \in Dances |-> Idle] \in [Dances -> TdState]
      BY IdleType
    <2>3. held = {} /\ td = [d \in Dances |-> Idle]
      BY <1>1 DEF Init
    <2>4. \A d \in Dances : (d \in held) = FALSE
      <3>1. ASSUME NEW d \in Dances PROVE (d \in held) = FALSE
        <4>1. d \notin held
          BY <2>3
        <4>2. QED
          BY <4>1, SMT
      <3>2. QED
        BY <3>1, Zenon
    <2>5. \A d \in Dances : td[d].pressed = (d \in held)
      <3>1. \A d \in Dances : td[d].pressed = FALSE
        BY <2>1, <2>3
      <3>2. QED
        BY <2>4, <3>1, Zenon
    <2>6. td \in [Dances -> TdState]
      BY <2>2, <2>3
    <2>7. QED
      <3>1. now = 0 /\ last_tap_time = 0 /\ entry \in Entries /\ edited = FALSE /\ active_td = KC_NO
        BY <1>1 DEF Init
      <3>2. dance_state \in [Dances -> Steps \cup {KC_NO}] /\ weak_mods = {}
        BY <1>1 DEF Init
      <3>3. 0 \in 0..(TimerRange - 1)
        BY TapDanceAssumption
      <3>4. QED
        BY <2>3, <2>5, <2>6, <3>1, <3>2, <3>3 DEF TypeOK, TdState
  <1>2. QED
    BY <1>1

(* The state of the dances is well formed: in particular the flag pressed    *)
(* that process_tap_dance_action_on_dance_finished and tap_dance_task rely   *)
(* on says whether the key is down, although synthetic key events            *)
(* re-enter the handlers.                                                    *)
THEOREM DanceTypeCorrectness == Spec => []TypeOK
  <1>1. TypeOK /\ [Next]_vars => TypeOK'
    BY NextStep
  <1>2. QED
    BY InitType, <1>1, PTL DEF Spec

(* A dance that is under way stays active, and so will be finished by its    *)
(* term or by another key, unless the key of another dance is released whose *)
(* meaning process_record_vial finds decided.                                *)
THEOREM OrphansComeFromEarlyReleases == Spec => OrphanedByEarlyRelease
  <1>1. TypeOK /\ [Next]_vars =>
          [\A d \in Dances : Orphaned(d)' /\ ~Orphaned(d) =>
             \E e \in (Dances \ {d}) \cap (held \ held') : Early(e)]_vars
    BY NextStep DEF NewOrphan
  <1>2. QED
    BY DanceTypeCorrectness, <1>1, PTL DEF Spec, OrphanedByEarlyRelease
-----------------------------------------------------------------------------
(* What accounts for the report. *)

(* The hypothesis: what a dance registers while its key is up is no magic    *)
(* keycode, so that its press does not re-enter the handlers.                *)
PlainTaps == \A e \in Entries, d \in Dances : e[d].on_tap \notin Magic /\ e[d].on_double_tap \notin Magic

(* The finished dances whose key is down. *)
Live(c) == {d \in Dances : c.td[d].pressed /\ c.td[d].finished}

(* The report and the weak modifiers are accounted for by keys of H and      *)
(* dances of L.                                                              *)
Backed(c, H, L) ==
  /\ KC_NO \notin c.report
  /\ \A kc \in c.report : kc \in H \/ \E d \in L : kc = HeldCode(entry[d], c.step[d])
  /\ \A m \in c.weak : \E d \in L : m \in c.td[d].weak_mods

(* Dances that are finished or active have been tapped. *)
FinishedCounted(c) == \A d \in Dances : c.td[d].finished => c.td[d].count > 0
ActiveCounted(c) == c.active # KC_NO => c.td[c.active].count > 0

(* The same dances, but for the flag interrupted, and no new modifiers. *)
Same(c, r) ==
  /\ Typed(r) /\ r.step = c.step /\ r.weak \subseteq c.weak
  /\ \A d \in Dances : /\ r.td[d].pressed = c.td[d].pressed
                       /\ r.td[d].finished = c.td[d].finished
                       /\ r.td[d].count = c.td[d].count
                       /\ r.td[d].weak_mods = c.td[d].weak_mods

LEMMA SameTwice == ASSUME NEW b, NEW c, NEW r, Same(b, c), Same(c, r) PROVE Same(b, r)
  BY DEF Same

LEMMA SameRest ==
  ASSUME NEW c, Typed(c), NEW a \in Dances \cup {KC_NO}, NEW rep, NEW w \in SUBSET c.weak, NEW m
  PROVE  Same(c, Config(a, c.td, c.step, rep, w, m))
  BY Fields DEF Same, Typed

LEMMA SameBacked ==
  ASSUME NEW c, NEW r, NEW H, NEW L \in SUBSET Dances, Backed(c, H, L), Same(c, r), r.report \subseteq c.report
  PROVE  Backed(r, H, L)
  BY DEF Backed, Same

LEMMA SameLive == ASSUME NEW c, NEW r, Same(c, r) PROVE Live(r) = Live(c)
  BY DEF Live, Same

LEMMA SameCounted ==
  ASSUME NEW c, NEW r, Same(c, r), FinishedCounted(c)
  PROVE  FinishedCounted(r)
  BY DEF FinishedCounted, Same

LEMMA BackedWider ==
  ASSUME NEW c, NEW H, NEW L, NEW M, Backed(c, H, L), L \subseteq M
  PROVE  Backed(c, H, M)
  BY DEF Backed

(* A reset takes from the report what the dance accounts for. *)
LEMMA ResetBacked ==
  ASSUME NEW c, Typed(c), NEW d \in Dances, NEW H, NEW L \in SUBSET Dances, d \notin L,
         Backed(c, H, L \cup {d}), NEW r, r = process_tap_dance_action_on_reset(c, d)
  PROVE  Backed(r, H, L)
  <1>1. PICK kc, rep, w, m :
          /\ kc = HeldCode(entry[d], c.step[d])
          /\ rep = (IF kc = KC_NO THEN c.report ELSE c.report \ {kc})
          /\ m = (IF kc = KC_NO THEN c.magic ELSE kc)
          /\ w = c.weak \ c.td[d].weak_mods
    OBVIOUS
  <1>2. r = Config(c.active, [c.td EXCEPT ![d] = Idle], [c.step EXCEPT ![d] = KC_NO], rep, w, m)
    BY <1>1, ResetIs
  <1>3. /\ r.td = [c.td EXCEPT ![d] = Idle] /\ r.step = [c.step EXCEPT ![d] = KC_NO]
        /\ r.report = rep /\ r.weak = w
    BY <1>2, Fields
  <1>4. \A x \in L : r.td[x] = c.td[x] /\ r.step[x] = c.step[x]
    BY <1>3 DEF Typed
  <1>5. KC_NO \notin rep /\ kc \notin rep /\ rep \subseteq c.report
    BY <1>1 DEF Backed
  <1>6. ASSUME NEW k \in rep PROVE k \in H \/ \E x \in L : k = HeldCode(entry[x], r.step[x])
    <2>1. k \in H \/ \E x \in L \cup {d} : k = HeldCode(entry[x], c.step[x])
      BY <1>5, <1>6 DEF Backed
    <2>2. QED
      BY <1>1, <1>4, <1>5, <2>1
  <1>7. ASSUME NEW n \in w PROVE \E x \in L : n \in r.td[x].weak_mods
    <2>1. \E x \in L \cup {d} : n \in c.td[x].weak_mods
      BY <1>1 DEF Backed
    <2>2. n \notin c.td[d].weak_mods
      BY <1>1
    <2>3. QED
      BY <1>4, <2>1, <2>2
  <1>8. QED
    BY <1>3, <1>5, <1>6, <1>7 DEF Backed

LEMMA ResetLive ==
  ASSUME NEW c, Typed(c), NEW d \in Dances, ~c.td[d].pressed, FinishedCounted(c),
         NEW r, r = process_tap_dance_action_on_reset(c, d)
  PROVE  Live(r) = Live(c) /\ d \notin Live(c) /\ FinishedCounted(r)
  <1>1. Within(c, r, {d}) /\ r.td[d] = Idle
    BY ResetWithin
  <1>2. \A x \in Dances : x # d => r.td[x] = c.td[x]
    BY <1>1 DEF Within
  <1>3. ~Idle.finished /\ ~Idle.pressed
    BY DEF Idle
  <1>4. QED
    BY <1>1, <1>2, <1>3 DEF Live, FinishedCounted

LEMMA ResetIfReleasedBacked ==
  ASSUME NEW c, Typed(c), NEW d \in Dances, NEW H, c.td[d].finished, FinishedCounted(c),
         Backed(c, H, Live(c) \cup {d}), NEW r, r = ResetIfReleased(c, d)
  PROVE  Backed(r, H, Live(r)) /\ FinishedCounted(r)
  <1>1. PICK e : e = [c EXCEPT !.active = KC_NO]
    OBVIOUS
  <1>2. e = Config(KC_NO, c.td, c.step, c.report, c.weak, c.magic)
    BY <1>1, Updates DEF Typed
  <1>3. c.weak \in SUBSET c.weak /\ KC_NO \in Dances \cup {KC_NO}
    OBVIOUS
  <1>4. Same(c, e) /\ e.report = c.report /\ Typed(e)
    <2>1. Same(c, Config(KC_NO, c.td, c.step, c.report, c.weak, c.magic))
      BY <1>3, SameRest
    <2>2. Same(c, e)
      BY <1>2, <2>1
    <2>3. e.report = c.report
      BY <1>2, Fields
    <2>4. QED
      BY <2>2, <2>3 DEF Same
  <1>5. Live(c) \cup {d} \in SUBSET Dances
    BY DEF Live
  <1>6. Backed(e, H, Live(c) \cup {d}) /\ Live(e) = Live(c) /\ FinishedCounted(e)
    BY <1>4, <1>5, SameBacked, SameLive, SameCounted
  <1>7. e.td[d].pressed = c.td[d].pressed
    BY <1>4 DEF Same
  <1>8. r = IF c.td[d].pressed THEN e ELSE process_tap_dance_action_on_reset(e, d)
    BY <1>1 DEF ResetIfReleased
  <1>9. CASE c.td[d].pressed
    <2>1. d \in Live(c)
      BY <1>9 DEF Live
    <2>2. Live(c) \cup {d} = Live(c)
      BY <2>1
    <2>3. QED
      BY <1>6, <1>8, <1>9, <2>2
  <1>10. CASE ~c.td[d].pressed
    <2>1. r = process_tap_dance_action_on_reset(e, d)
      BY <1>8, <1>10
    <2>2. Live(r) = Live(e) /\ d \notin Live(e) /\ FinishedCounted(r)
      BY <1>4, <1>6, <1>7, <1>10, <2>1, ResetLive
    <2>3. Backed(r, H, Live(e))
      <3>1. Live(e) \in SUBSET Dances
        BY DEF Live
      <3>2. Backed(e, H, Live(e) \cup {d})
        BY <1>6
      <3>3. QED
        BY <1>4, <2>1, <2>2, <3>1, <3>2, ResetBacked
    <2>4. QED
      BY <2>2, <2>3
  <1>11. QED
    BY <1>9, <1>10
(* Keycodes that a dance taps or holds. *)

LEMMA DownPlain ==
  ASSUME NEW c, Typed(c), NEW kc, kc \notin Magic
  PROVE  Down(c, kc) = Config(c.active, c.td, c.step, c.report \cup {kc}, c.weak, kc)
  <1>1. PICK b : b = [c EXCEPT !.magic = kc]
    OBVIOUS
  <1>2. b = Config(c.active, c.td, c.step, c.report, c.weak, kc)
    BY <1>1, Updates DEF Typed
  <1>3. [b EXCEPT !.report = @ \cup {kc}] = Config(c.active, c.td, c.step, c.report \cup {kc}, c.weak, kc)
    BY <1>2 DEF Config
  <1>4. Down(c, kc) = [[c EXCEPT !.magic = kc] EXCEPT !.report = @ \cup {kc}]
    BY DEF Down, vial_keycode_down
  <1>5. QED
    BY <1>1, <1>3, <1>4

LEMMA TappedPlain ==
  ASSUME NEW c, Typed(c), NEW kc, kc = KC_NO \/ kc \notin Magic, NEW r, r = Tapped(c, kc, Down)
  PROVE  Same(c, r) /\ r.report \subseteq c.report /\ r.active = c.active
  <1>a. c.weak \in SUBSET c.weak /\ c.active \in Dances \cup {KC_NO}
    BY DEF Typed
  <1>1. CASE kc = KC_NO
    <2>1. r = c
      BY <1>1 DEF Tapped
    <2>2. QED
      BY <2>1 DEF Same
  <1>2. CASE kc # KC_NO
    <2>1. PICK b : b = Down(c, kc)
      OBVIOUS
    <2>2. b = Config(c.active, c.td, c.step, c.report \cup {kc}, c.weak, kc)
      BY <1>2, <2>1, DownPlain
    <2>3. Same(c, b)
      BY <1>a, <2>2, SameRest
    <2>4. Typed(b)
      BY <2>3 DEF Same
    <2>5. r = vial_keycode_up(b, kc)
      BY <1>2, <2>1 DEF Tapped
    <2>6. r = Config(b.active, b.td, b.step, b.report \ {kc}, b.weak, kc)
      BY <2>4, <2>5, UpWithin
    <2>7. b.weak \in SUBSET b.weak /\ b.active \in Dances \cup {KC_NO}
      BY <2>4 DEF Typed
    <2>8. Same(b, r)
      BY <2>4, <2>6, <2>7, SameRest
    <2>9. Same(c, r)
      BY <2>3, <2>8, SameTwice
    <2>10. b.report = c.report \cup {kc} /\ b.active = c.active
      BY <2>2, Fields
    <2>11. r.report = b.report \ {kc} /\ r.active = b.active
      BY <2>6, Fields
    <2>12. QED
      BY <2>9, <2>10, <2>11
  <1>3. QED
    BY <1>1, <1>2

(* A magic keycode is held by a dance whose key is down, and its press finds *)
(* this dance finished.                                                      *)
LEMMA HeldIsPressed ==
  ASSUME PlainTaps, entry \in Entries, NEW d \in Dances, NEW s \in TdState,
         NEW kc, kc = HeldCode(entry[d], dance_step(s)), kc # KC_NO, kc \in Magic
  PROVE  s.pressed
  <1>1. entry[d].on_tap \notin Magic /\ entry[d].on_double_tap \notin Magic
    BY DEF PlainTaps
  <1>2. SUFFICES ASSUME ~s.pressed PROVE FALSE
    OBVIOUS
  <1>3. dance_step(s) \in {"SINGLE_TAP", "DOUBLE_SINGLE_TAP", "DOUBLE_TAP", "MORE_TAPS"}
    BY <1>2 DEF dance_step
  <1>4. QED
    BY <1>1, <1>3 DEF HeldCode, Either

LEMMA TappedIsPlain ==
  ASSUME PlainTaps, entry \in Entries, NEW d \in Dances, NEW step, NEW kc, kc = TappedCode(entry[d], step)
  PROVE  kc = KC_NO \/ kc \notin Magic
  BY DEF PlainTaps, TappedCode

LEMMA MarkedSame ==
  ASSUME NEW c, Typed(c), c.active # KC_NO
  PROVE  Same(c, Marked(c)) /\ Marked(c).report = c.report /\ Marked(c).active = c.active
  <1>1. PICK d \in Dances : d = c.active
    BY DEF Typed
  <1>2. PICK m, t : m = Marked(c) /\ t = [c.td EXCEPT ![d].interrupted = TRUE]
    OBVIOUS
  <1>3. Typed(m)
    BY <1>2, MarkedWithin, WithinTyped
  <1>4. m = Config(c.active, t, c.step, c.report, c.weak, c.magic)
    <2>1. m = [c EXCEPT !.td[d].interrupted = TRUE]
      BY <1>1, <1>2 DEF Marked
    <2>2. [c EXCEPT !.td[d].interrupted = TRUE] = Config(c.active, t, c.step, c.report, c.weak, c.magic)
      BY <1>2, MarkIs
    <2>3. QED
      BY <2>1, <2>2
  <1>5. m.td = t /\ m.step = c.step /\ m.weak = c.weak /\ m.report = c.report /\ m.active = c.active
    BY <1>4, Fields
  <1>6. \A x \in Dances : /\ t[x].pressed = c.td[x].pressed
                          /\ t[x].finished = c.td[x].finished
                          /\ t[x].count = c.td[x].count
                          /\ t[x].weak_mods = c.td[x].weak_mods
    BY <1>2 DEF Typed, TdState
  <1>7. Same(c, m)
    BY <1>3, <1>5, <1>6 DEF Same
  <1>8. QED
    BY <1>2, <1>5, <1>7

LEMMA DownMagic ==
  ASSUME NEW c, Typed(c), NEW d \in Dances, c.active \in {d, KC_NO}, c.td[d].finished, c.td[d].pressed,
         NEW kc \in Magic, NEW r, r = Down(c, kc)
  PROVE  Same(c, r) /\ r.report \subseteq c.report \cup {kc}
  <1>1. PICK b, m, f, g, i :
          /\ b = Pressing(c, kc)
          /\ m = Marked(b)
          /\ f = FinishInner(m, b.active)
          /\ g = [f EXCEPT !.weak = {}]
          /\ i = InterruptedDown(b)
    OBVIOUS
  <1>2. b = Config(c.active, c.td, c.step, c.report, {}, kc)
    <2>1. PICK e : e = [c EXCEPT !.magic = kc]
      OBVIOUS
    <2>2. e = Config(c.active, c.td, c.step, c.report, c.weak, kc)
      BY <2>1, Updates DEF Typed
    <2>3. [e EXCEPT !.weak = {}] = Config(c.active, c.td, c.step, c.report, {}, kc)
      BY <2>2 DEF Config
    <2>4. QED
      BY <1>1, <2>1, <2>3 DEF Pressing
  <1>3. /\ Same(c, b) /\ Typed(b) /\ b.active = c.active /\ b.td = c.td /\ b.report = c.report
        /\ b.magic = kc /\ b.weak = {}
    <2>1. {} \in SUBSET c.weak /\ c.active \in Dances \cup {KC_NO}
      BY DEF Typed
    <2>2. Same(c, Config(c.active, c.td, c.step, c.report, {}, kc))
      BY <2>1, SameRest
    <2>3. Same(c, b)
      BY <1>2, <2>2
    <2>4. Typed(b)
      BY <2>3 DEF Same
    <2>5. QED
      BY <1>2, <2>3, <2>4, Fields
  <1>4. Same(c, i) /\ i.report = c.report /\ i.magic = kc
    <2>1. CASE b.active = KC_NO
      <3>1. i = b
        BY <1>1, <2>1 DEF InterruptedDown, Interrupted
      <3>2. QED
        BY <1>3, <3>1
    <2>2. CASE b.active # KC_NO
      <3>1. b.active = d
        BY <1>3, <2>2
      <3>2. /\ m = Config(d, m.td, b.step, b.report, b.weak, b.magic) /\ Typed(m) /\ m.active = d
            /\ Within(b, m, {d})
        BY <1>1, <1>3, <2>2, <3>1, MarkedWithin, WithinTyped
      <3>3. Same(b, m)
        BY <1>1, <1>3, <2>2, MarkedSame
      <3>4. m.td[d].finished /\ m.td[d].pressed /\ m.report = c.report /\ m.magic = kc
        <4>1. m.td[d].finished /\ m.td[d].pressed
          BY <1>3, <3>3 DEF Same
        <4>2. m.report = b.report /\ m.magic = b.magic
          BY <3>2, Fields
        <4>3. QED
          BY <1>3, <4>1, <4>2
      <3>5. f = Config(KC_NO, m.td, m.step, m.report, m.weak, m.magic)
        <4>1. f = FinishInner(m, d)
          BY <1>1, <3>1
        <4>2. FinishInner(m, d) = [m EXCEPT !.active = KC_NO]
          BY <3>4 DEF FinishInner, FinishWith, ResetIfReleased
        <4>3. QED
          BY <3>2, <4>1, <4>2, Updates DEF Typed
      <3>6. g = Config(KC_NO, m.td, m.step, m.report, {}, m.magic)
        <4>1. g = [f EXCEPT !.weak = {}]
          BY <1>1
        <4>2. QED
          BY <3>5, <4>1 DEF Config
      <3>7. i = g
        BY <1>1, <2>2 DEF InterruptedDown, Interrupted, Marked
      <3>8. {} \in SUBSET m.weak /\ KC_NO \in Dances \cup {KC_NO}
        OBVIOUS
      <3>9. Same(m, g)
        BY <3>2, <3>6, <3>8, SameRest
      <3>10. Same(c, g)
        BY <1>3, <3>3, <3>9, SameTwice
      <3>11. g.report = m.report /\ g.magic = m.magic
        BY <3>6, Fields
      <3>12. QED
        BY <3>4, <3>7, <3>10, <3>11
    <2>3. QED
      BY <2>1, <2>2
  <1>5. r = [i EXCEPT !.report = @ \cup {i.magic}]
    <2>1. r = [InterruptedDown(Pressing(c, kc)) EXCEPT
                 !.report = @ \cup {InterruptedDown(Pressing(c, kc)).magic}]
      BY DEF Down, vial_keycode_down, Interrupted, InterruptedDown, Pressing
    <2>2. QED
      BY <1>1, <2>1
  <1>6. Typed(i)
    BY <1>4 DEF Same
  <1>7. r = Config(i.active, i.td, i.step, i.report \cup {kc}, i.weak, i.magic)
    <2>1. r = [i EXCEPT !.report = @ \cup {kc}]
      BY <1>4, <1>5
    <2>2. QED
      BY <1>6, <2>1 DEF Typed, Shaped, Config
  <1>8. i.weak \in SUBSET i.weak /\ i.active \in Dances \cup {KC_NO}
    BY <1>6 DEF Typed
  <1>9. Same(i, r)
    BY <1>6, <1>7, <1>8, SameRest
  <1>10. Same(c, r)
    BY <1>4, <1>9, SameTwice
  <1>11. r.report = i.report \cup {kc}
    BY <1>7, Fields
  <1>12. QED
    BY <1>4, <1>10, <1>11
(* A dance is finished: what it registers, it accounts for. *)
LEMMA FinishedBacked ==
  ASSUME PlainTaps, entry \in Entries, NEW c, Typed(c), NEW d \in Dances, NEW H,
         c.active = d \/ ~c.td[d].pressed,
         c.td[d].count > 0, FinishedCounted(c),
         c.td[d].finished => Backed(c, H, Live(c) \cup {d}),
         ~c.td[d].finished => Backed(c, H, Live(c)),
         NEW r, r = process_tap_dance_action_on_dance_finished(c, d)
  PROVE  Backed(r, H, Live(r)) /\ FinishedCounted(r)
  <1>1. CASE c.td[d].finished
    <2>1. r = ResetIfReleased(c, d)
      BY <1>1 DEF process_tap_dance_action_on_dance_finished, FinishWith
    <2>2. QED
      BY <1>1, <2>1, ResetIfReleasedBacked
  <1>2. CASE ~c.td[d].finished
    <2>1. PICK b, k, t, e, kc, f :
            /\ b = Finishing(c, d)
            /\ k = Decided(b, d)
            /\ t = TappedCode(entry[d], dance_step(b.td[d]))
            /\ e = Tapped(k, t, Down)
            /\ kc = HeldCode(entry[d], dance_step(b.td[d]))
            /\ f = (IF kc = KC_NO THEN e ELSE Down(e, kc))
      OBVIOUS
    <2>2. PICK L : L = Live(c) \cup {d}
      OBVIOUS
    <2>3. L \in SUBSET Dances /\ d \notin Live(c)
      BY <1>2, <2>2 DEF Live
    <2>4. /\ Typed(b) /\ b.active = c.active /\ b.step = c.step /\ b.report = c.report
          /\ b.weak = c.weak \cup c.td[d].weak_mods
          /\ b.td = [c.td EXCEPT ![d].finished = TRUE]
      <3>1. Typed(b) /\ b.active = c.active
        BY <2>1, FinishingWithin, WithinTyped
      <3>2. b = Config(c.active, [c.td EXCEPT ![d].finished = TRUE], c.step, c.report,
                       c.weak \cup c.td[d].weak_mods, c.magic)
        BY <2>1, FinishingWithin
      <3>3. QED
        BY <3>1, <3>2, Fields
    <2>5. /\ Typed(k) /\ k.active = c.active /\ k.step = [c.step EXCEPT ![d] = dance_step(b.td[d])]
          /\ k.report = c.report /\ k.weak = b.weak /\ k.td = b.td
      <3>1. Typed(k) /\ k.active = b.active
        BY <2>1, <2>4, DecidedWithin, WithinTyped
      <3>2. k = Config(b.active, b.td, [b.step EXCEPT ![d] = dance_step(b.td[d])], b.report, b.weak, b.magic)
        BY <2>1, <2>4, DecidedWithin
      <3>3. QED
        BY <2>4, <3>1, <3>2, Fields
    <2>6. /\ k.td[d].finished /\ k.td[d].count = c.td[d].count /\ k.td[d].pressed = c.td[d].pressed
          /\ k.td[d].weak_mods = c.td[d].weak_mods
          /\ k.step[d] = dance_step(b.td[d])
          /\ \A x \in Dances : x # d => k.td[x] = c.td[x] /\ k.step[x] = c.step[x]
      BY <2>4, <2>5 DEF Typed, TdState
    <2>7. Backed(k, H, L)
      <3>1. ASSUME NEW x \in c.report PROVE x \in H \/ \E y \in L : x = HeldCode(entry[y], k.step[y])
        <4>1. x \in H \/ \E y \in Live(c) : x = HeldCode(entry[y], c.step[y])
          BY <1>2, <3>1 DEF Backed
        <4>2. \A y \in Live(c) : y \in L /\ k.step[y] = c.step[y]
          BY <2>2, <2>3, <2>6 DEF Live
        <4>3. QED
          BY <4>1, <4>2
      <3>2. ASSUME NEW m \in b.weak PROVE \E y \in L : m \in k.td[y].weak_mods
        <4>1. m \in c.td[d].weak_mods \/ \E y \in Live(c) : m \in c.td[y].weak_mods
          BY <1>2, <2>4, <3>2 DEF Backed
        <4>2. d \in L /\ \A y \in Live(c) : y \in L /\ k.td[y] = c.td[y]
          BY <2>2, <2>3, <2>6 DEF Live
        <4>3. QED
          BY <2>6, <4>1, <4>2
      <3>3. QED
        BY <1>2, <2>5, <3>1, <3>2 DEF Backed
    <2>8. Live(k) \cup {d} = L /\ FinishedCounted(k)
      BY <2>2, <2>3, <2>6 DEF Live, FinishedCounted
    <2>9. t = KC_NO \/ t \notin Magic
      BY <2>1, TappedIsPlain
    <2>10. Same(k, e) /\ e.report \subseteq k.report /\ e.active = k.active
      <3>1. e = Tapped(k, t, Down)
        BY <2>1
      <3>2. QED
        BY <2>5, <2>9, <3>1, TappedPlain
    <2>11. Typed(e) /\ e.td[d].finished /\ e.td[d].pressed = c.td[d].pressed
      BY <2>6, <2>10 DEF Same
    <2>12. Same(e, f) /\ f.report \subseteq e.report \cup {kc} /\ (kc = KC_NO => f = e)
      <3>1. CASE kc = KC_NO
        <4>1. f = e
          BY <2>1, <3>1
        <4>2. QED
          BY <2>11, <4>1 DEF Same
      <3>2. CASE kc # KC_NO /\ kc \notin Magic
        <4>1. f = Config(e.active, e.td, e.step, e.report \cup {kc}, e.weak, kc)
          BY <2>1, <2>11, <3>2, DownPlain
        <4>2. e.weak \in SUBSET e.weak /\ e.active \in Dances \cup {KC_NO}
          BY <2>11 DEF Typed
        <4>3. Same(e, f)
          BY <2>11, <4>1, <4>2, SameRest
        <4>4. f.report = e.report \cup {kc}
          BY <4>1, Fields
        <4>5. QED
          BY <3>2, <4>3, <4>4
      <3>3. CASE kc # KC_NO /\ kc \in Magic
        <4>1. b.td[d] \in TdState /\ b.td[d].pressed = c.td[d].pressed
          BY <2>4, <2>5, <2>6 DEF Typed
        <4>2. c.td[d].pressed
          <5>1. kc = HeldCode(entry[d], dance_step(b.td[d]))
            BY <2>1
          <5>2. b.td[d].pressed
            BY <3>3, <4>1, <5>1, HeldIsPressed
          <5>3. QED
            BY <4>1, <5>2
        <4>3. e.active \in {d, KC_NO}
          BY <2>5, <2>10, <4>2
        <4>4. f = Down(e, kc)
          BY <2>1, <3>3
        <4>5. Same(e, f) /\ f.report \subseteq e.report \cup {kc}
          BY <2>11, <3>3, <4>2, <4>3, <4>4, DownMagic
        <4>6. QED
          BY <3>3, <4>5
      <3>4. QED
        BY <3>1, <3>2, <3>3
    <2>13. Same(k, f) /\ f.report \subseteq k.report \cup ({kc} \ {KC_NO})
      BY <2>10, <2>12, SameTwice
    <2>14. Backed(f, H, L)
      <3>1. f.step = k.step /\ f.weak \subseteq k.weak
        BY <2>13 DEF Same
      <3>2. \A x \in Dances : f.td[x].weak_mods = k.td[x].weak_mods
        BY <2>13 DEF Same
      <3>3. d \in L /\ kc = HeldCode(entry[d], k.step[d])
        BY <2>1, <2>2, <2>6
      <3>4. KC_NO \notin f.report
        BY <2>7, <2>13 DEF Backed
      <3>5. ASSUME NEW x \in f.report PROVE x \in H \/ \E y \in L : x = HeldCode(entry[y], f.step[y])
        BY <2>7, <2>13, <3>1, <3>3, <3>5 DEF Backed
      <3>6. ASSUME NEW m \in f.weak PROVE \E y \in L : m \in f.td[y].weak_mods
        BY <2>3, <2>7, <3>1, <3>2, <3>6 DEF Backed
      <3>7. QED
        BY <3>4, <3>5, <3>6 DEF Backed
    <2>15. Live(f) = Live(k) /\ FinishedCounted(f)
      BY <2>8, <2>13, SameLive, SameCounted
    <2>16. Backed(f, H, Live(f) \cup {d}) /\ Typed(f) /\ f.td[d].finished
      BY <2>6, <2>8, <2>13, <2>14, <2>15 DEF Same
    <2>17. r = ResetIfReleased(f, d)
      BY <1>2, <2>1 DEF process_tap_dance_action_on_dance_finished, FinishWith, on_dance_finished,
                        Finishing, Decided
    <2>18. QED
      BY <2>15, <2>16, <2>17, ResetIfReleasedBacked
  <1>3. QED
    BY <1>1, <1>2
-----------------------------------------------------------------------------
(* The events and what accounts for the report. *)

Accounted(c, H) == Backed(c, H, Live(c)) /\ FinishedCounted(c)

LEMMA SameAccounted ==
  ASSUME NEW c, NEW r, NEW H, Accounted(c, H), Same(c, r), r.report \subseteq c.report
  PROVE  Accounted(r, H)
  <1>1. Live(c) \in SUBSET Dances
    BY DEF Live
  <1>2. Backed(r, H, Live(c)) /\ Live(r) = Live(c) /\ FinishedCounted(r)
    BY <1>1, SameBacked, SameLive, SameCounted DEF Accounted
  <1>3. QED
    BY <1>2 DEF Accounted

LEMMA NoWeak ==
  ASSUME NEW c, Typed(c), NEW r, r = [c EXCEPT !.weak = {}]
  PROVE  Same(c, r) /\ r.report = c.report /\ r.active = c.active /\ r.td = c.td
  <1>1. r = Config(c.active, c.td, c.step, c.report, {}, c.magic)
    BY Updates DEF Typed
  <1>2. {} \in SUBSET c.weak /\ c.active \in Dances \cup {KC_NO}
    BY DEF Typed
  <1>3. Same(c, Config(c.active, c.td, c.step, c.report, {}, c.magic))
    BY <1>2, SameRest
  <1>4. Same(c, r)
    BY <1>1, <1>3
  <1>5. r.report = c.report /\ r.active = c.active /\ r.td = c.td
    BY <1>1, Fields
  <1>6. QED
    BY <1>4, <1>5

LEMMA InterruptionAccounted ==
  ASSUME PlainTaps, entry \in Entries, NEW c, Typed(c), NEW H, Accounted(c, H), ActiveCounted(c),
         NEW r, r = Finished(c)
  PROVE  Accounted(r, H)
  <1>1. CASE c.active = KC_NO
    BY <1>1 DEF Finished, Interrupted
  <1>2. CASE c.active # KC_NO
    <2>1. PICK d \in Dances : d = c.active
      BY <1>2 DEF Typed
    <2>2. PICK b, f : b = Marked(c) /\ f = process_tap_dance_action_on_dance_finished(b, d)
      OBVIOUS
    <2>3. Same(c, b) /\ b.report = c.report /\ b.active = d /\ Typed(b)
      BY <1>2, <2>1, <2>2, MarkedSame DEF Same
    <2>4. Accounted(b, H)
      BY <2>3, SameAccounted
    <2>5. b.td[d].count > 0
      BY <1>2, <2>1, <2>3 DEF Same, ActiveCounted
    <2>6. Live(b) \subseteq Live(b) \cup {d}
      OBVIOUS
    <2>7. Backed(b, H, Live(b) \cup {d}) /\ Backed(b, H, Live(b)) /\ FinishedCounted(b)
      BY <2>4, <2>6, BackedWider DEF Accounted
    <2>8. Accounted(f, H)
      BY <2>2, <2>3, <2>5, <2>7, FinishedBacked DEF Accounted
    <2>9. Typed(f)
      BY <2>2, <2>3, FinishedWithin, WithinTyped
    <2>10. r = [f EXCEPT !.weak = {}]
      BY <1>2, <2>1, <2>2 DEF Finished, Interrupted, Marked
    <2>11. Same(f, r) /\ r.report = f.report
      BY <2>9, <2>10, NoWeak
    <2>12. QED
      BY <2>8, <2>11, SameAccounted
  <1>3. QED
    BY <1>1, <1>2

LEMMA PreprocessedAccounted ==
  ASSUME PlainTaps, TypeOK, NEW H, Accounted(State, H), ActiveCounted(State), NEW k \in Keys
  PROVE  Accounted(Preprocessed(k), H)
  <1>1. PICK c, r : c = [State EXCEPT !.weak = {}] /\ r = Finished(c)
    OBVIOUS
  <1>2. Same(State, c) /\ c.report = State.report /\ c.active = State.active /\ c.td = State.td
    BY <1>1, StateTyped, NoWeak
  <1>3. Typed(c) /\ Accounted(c, H) /\ ActiveCounted(c)
    BY <1>2, SameAccounted DEF Same, ActiveCounted
  <1>4. entry \in Entries
    BY DEF TypeOK
  <1>5. Accounted(r, H)
    BY <1>1, <1>3, <1>4, InterruptionAccounted
  <1>6. Preprocessed(k) = IF k = active_td THEN c ELSE r
    BY <1>1 DEF Preprocessed, Finished
  <1>7. QED
    BY <1>3, <1>5, <1>6

LEMMA OnDanceSame ==
  ASSUME PlainTaps, entry \in Entries, NEW c, Typed(c), NEW d \in Dances
  PROVE  Same(c, on_dance(c, d)) /\ on_dance(c, d).report \subseteq c.report
  <1>1. ASSUME NEW e, Typed(e) PROVE Same(e, Once(e, d)) /\ Once(e, d).report \subseteq e.report
    <2>1. entry[d].on_tap \notin Magic
      BY DEF PlainTaps
    <2>2. QED
      BY <1>1, <2>1, TappedPlain DEF Once
  <1>2. PICK b1, b2, b3 : b1 = Once(c, d) /\ b2 = Once(b1, d) /\ b3 = Once(b2, d)
    OBVIOUS
  <1>3. Same(c, b1) /\ Typed(b1) /\ b1.report \subseteq c.report
    BY <1>1, <1>2 DEF Same
  <1>4. Same(b1, b2) /\ Typed(b2) /\ b2.report \subseteq b1.report
    BY <1>1, <1>2, <1>3 DEF Same
  <1>5. Same(b2, b3) /\ b3.report \subseteq b2.report
    BY <1>1, <1>2, <1>4
  <1>6. Same(c, b3) /\ b3.report \subseteq c.report
    BY <1>3, <1>4, <1>5, SameTwice
  <1>7. Same(c, c)
    BY DEF Same
  <1>8. on_dance(c, d) \in {b1, b3, c}
    <2>1. c.td[d].count \in Int
      BY DEF Typed, TdState
    <2>2. on_dance(c, d) = CASE c.td[d].count = 3 -> Once(Once(Once(c, d), d), d)
                             [] c.td[d].count > 3 -> Once(c, d)
                             [] OTHER -> c
      BY DEF on_dance, Once
    <2>3. QED
      BY <1>2, <2>1, <2>2
  <1>9. QED
    BY <1>3, <1>6, <1>7, <1>8

LEMMA PressedAccounted ==
  ASSUME PlainTaps, entry \in Entries, NEW c, Typed(c), NEW d \in Dances, c.td[d].count < MaxTaps,
         ~c.td[d].pressed, NEW H, Accounted(c, H), NEW r, r = TapDancePressed(c, d)
  PROVE  Accounted(r, H) /\ ActiveCounted(r)
  <1>1. PICK b, e, a : /\ b = Tap(c, d) /\ e = on_dance(b, d)
                       /\ a = IF e.td[d].finished THEN KC_NO ELSE d
    OBVIOUS
  <1>2. /\ Typed(b) /\ b.step = c.step /\ b.report = c.report /\ b.weak = c.weak
        /\ b.td[d].count > 0
        /\ \A x \in Dances \ {d} : b.td[x] = c.td[x]
    <2>1. b = Tap(c, d)
      BY <1>1
    <2>2. QED
      BY <2>1, TapIs DEF IsTap
  <1>3. Live(c) \subseteq Live(b) /\ d \notin Live(c) /\ FinishedCounted(b)
    BY <1>2 DEF Live, FinishedCounted, Accounted
  <1>4. Backed(b, H, Live(c))
    <2>1. \A x \in Live(c) : b.td[x] = c.td[x] /\ b.step[x] = c.step[x]
      BY <1>2, <1>3 DEF Live
    <2>2. QED
      BY <1>2, <2>1 DEF Backed, Accounted
  <1>5. Accounted(b, H)
    BY <1>3, <1>4, BackedWider DEF Accounted
  <1>6. Same(b, e) /\ e.report \subseteq b.report /\ Typed(e)
    BY <1>1, <1>2, OnDanceSame DEF Same
  <1>7. Accounted(e, H)
    BY <1>5, <1>6, SameAccounted
  <1>8. r = [e EXCEPT !.active = a]
    BY <1>1 DEF TapDancePressed, Tap
  <1>9. r = Config(a, e.td, e.step, e.report, e.weak, e.magic)
    BY <1>6, <1>8, Updates DEF Typed
  <1>10. e.weak \in SUBSET e.weak /\ a \in Dances \cup {KC_NO}
    BY <1>1
  <1>11. Same(e, Config(a, e.td, e.step, e.report, e.weak, e.magic))
    BY <1>6, <1>10, SameRest
  <1>12. Same(e, r) /\ r.report = e.report /\ r.active = a /\ r.td = e.td
    BY <1>9, <1>11, Fields
  <1>13. Accounted(r, H)
    BY <1>7, <1>12, SameAccounted
  <1>14. e.td[d].count > 0
    BY <1>2, <1>6 DEF Same
  <1>15. QED
    BY <1>1, <1>12, <1>13, <1>14 DEF ActiveCounted

LEMMA UpAccounted ==
  ASSUME NEW c, Typed(c), NEW d \in Dances, NEW H, Accounted(c, H), NEW e, e = Up(c, d)
  PROVE  /\ Backed(e, H, Live(e) \cup {d}) /\ FinishedCounted(e)
         /\ ~c.td[d].finished => Backed(e, H, Live(e))
         /\ \A x \in Dances : e.td[x].finished = c.td[x].finished /\ e.td[x].count = c.td[x].count
  <1>1. PICK t : t = [c.td EXCEPT ![d].pressed = FALSE]
    OBVIOUS
  <1>2. e = Config(c.active, t, c.step, c.report, c.weak, c.magic)
    BY <1>1 DEF Up, Typed, Shaped, Config
  <1>3. e.td = t /\ e.step = c.step /\ e.report = c.report /\ e.weak = c.weak
    BY <1>2, Fields
  <1>4. \A x \in Dances : /\ t[x].count = c.td[x].count /\ t[x].finished = c.td[x].finished
                          /\ t[x].weak_mods = c.td[x].weak_mods
                          /\ x # d => t[x] = c.td[x]
    BY <1>1 DEF Typed, TdState
  <1>5. Live(c) \subseteq Live(e) \cup {d} /\ FinishedCounted(e)
    BY <1>3, <1>4 DEF Live, FinishedCounted, Accounted
  <1>6. Backed(e, H, Live(c))
    <2>1. \A x \in Live(c) : x \in Dances
      BY DEF Live
    <2>2. QED
      BY <1>3, <1>4, <2>1 DEF Backed, Accounted
  <1>7. Backed(e, H, Live(e) \cup {d})
    BY <1>5, <1>6, BackedWider
  <1>8. ASSUME ~c.td[d].finished PROVE Backed(e, H, Live(e))
    <2>1. Live(c) \subseteq Live(e)
      BY <1>5, <1>8 DEF Live
    <2>2. QED
      BY <1>6, <2>1, BackedWider
  <1>9. QED
    BY <1>3, <1>4, <1>5, <1>7, <1>8

LEMMA VialReleaseAccounted ==
  ASSUME PlainTaps, TypeOK, NEW d \in Dances, NEW H, Accounted(State, H), ActiveCounted(State),
         NEW c, c = process_record_vial(d)
  PROVE  Accounted(c, H) /\ ActiveCounted(c)
  <1>1. CASE ~Early(d)
    BY <1>1 DEF process_record_vial
  <1>2. CASE Early(d)
    <2>1. PICK b : b = Up(State, d)
      OBVIOUS
    <2>2. Typed(State) /\ State.td = td /\ entry \in Entries
      BY StateTyped DEF TypeOK
    <2>3. Typed(b) /\ b.td[d].pressed = FALSE
      BY <2>1, <2>2, UpIs
    <2>4. /\ Backed(b, H, Live(b) \cup {d}) /\ FinishedCounted(b)
          /\ ~td[d].finished => Backed(b, H, Live(b))
          /\ b.td[d].finished = td[d].finished /\ b.td[d].count = td[d].count
      BY <2>1, <2>2, UpAccounted
    <2>5. b.td[d].count > 0
      BY <1>2, <2>4 DEF Early
    <2>6. c = process_tap_dance_action_on_dance_finished(b, d)
      BY <1>2, <2>1 DEF process_record_vial, Up
    <2>7. Accounted(c, H)
      BY <2>2, <2>3, <2>4, <2>5, <2>6, FinishedBacked DEF Accounted
    <2>8. c.active = KC_NO
      BY <2>3, <2>6, FinishedWithin
    <2>9. QED
      BY <2>7, <2>8 DEF ActiveCounted
  <1>3. QED
    BY <1>1, <1>2

LEMMA ReleasedAccounted ==
  ASSUME NEW c, Typed(c), NEW d \in Dances, NEW H, Accounted(c, H), ActiveCounted(c),
         NEW r, r = TapDanceReleased(c, d)
  PROVE  Accounted(r, H) /\ ActiveCounted(r)
  <1>1. PICK e, f, a : /\ e = Up(c, d) /\ f = process_tap_dance_action_on_reset(e, d)
                       /\ a = IF f.active = d THEN KC_NO ELSE f.active
    OBVIOUS
  <1>2. Typed(e) /\ e.active = c.active /\ e.td[d].pressed = FALSE
    BY <1>1, UpIs
  <1>3. /\ Backed(e, H, Live(e) \cup {d}) /\ FinishedCounted(e)
        /\ ~c.td[d].finished => Backed(e, H, Live(e))
        /\ \A x \in Dances : e.td[x].finished = c.td[x].finished /\ e.td[x].count = c.td[x].count
    BY <1>1, UpAccounted
  <1>4. ActiveCounted(e)
    BY <1>2, <1>3 DEF ActiveCounted, Typed
  <1>5. CASE ~e.td[d].finished
    <2>1. r = e
      BY <1>1, <1>5 DEF TapDanceReleased, Up
    <2>2. QED
      BY <1>3, <1>4, <1>5, <2>1 DEF Accounted
  <1>6. CASE e.td[d].finished
    <2>1. Within(e, f, {d}) /\ f.active = c.active /\ Typed(f)
      BY <1>1, <1>2, ResetWithin, WithinTyped
    <2>2. Live(f) = Live(e) /\ d \notin Live(e) /\ FinishedCounted(f)
      <3>1. f = process_tap_dance_action_on_reset(e, d)
        BY <1>1
      <3>2. QED
        BY <1>2, <1>3, <3>1, ResetLive
    <2>3. Accounted(f, H)
      <3>1. Live(e) \in SUBSET Dances
        BY DEF Live
      <3>2. Backed(f, H, Live(e))
        BY <1>1, <1>2, <1>3, <2>2, <3>1, ResetBacked
      <3>3. QED
        BY <2>2, <3>2 DEF Accounted
    <2>4. [f EXCEPT !.active = IF @ = d THEN KC_NO ELSE @] = [f EXCEPT !.active = a]
      BY <1>1, <2>1 DEF Typed, Shaped, Config
    <2>5. r = [f EXCEPT !.active = a]
      BY <1>1, <1>6, <2>4 DEF TapDanceReleased, Up
    <2>6. r = Config(a, f.td, f.step, f.report, f.weak, f.magic)
      BY <2>1, <2>5, Updates DEF Typed
    <2>7. f.weak \in SUBSET f.weak /\ a \in Dances \cup {KC_NO}
      BY <1>1, <2>1 DEF Typed
    <2>8. Same(f, Config(a, f.td, f.step, f.report, f.weak, f.magic))
      BY <2>1, <2>7, SameRest
    <2>9. Same(f, r) /\ r.report = f.report /\ r.active = a /\ r.td = f.td
      BY <2>6, <2>8, Fields
    <2>10. Accounted(r, H)
      BY <2>3, <2>9, SameAccounted
    <2>11. ASSUME r.active # KC_NO PROVE r.td[r.active].count > 0
      <3>1. r.active = e.active /\ e.active # d /\ e.active \in Dances
        BY <1>1, <1>2, <2>1, <2>9, <2>11 DEF Typed
      <3>2. f.td[e.active] = e.td[e.active]
        BY <2>1, <3>1 DEF Within
      <3>3. QED
        BY <1>4, <2>9, <2>11, <3>1, <3>2 DEF ActiveCounted
    <2>12. QED
      BY <2>10, <2>11 DEF ActiveCounted
  <1>7. QED
    BY <1>5, <1>6
ReportInv == ~edited => Accounted(State, held \cap OtherKeys) /\ ActiveCounted(State)

LEMMA BecomesAccounted ==
  ASSUME NEW r, Becomes(r), Typed(r), entry' = entry,
         ~edited' => Accounted(r, held' \cap OtherKeys) /\ ActiveCounted(r)
  PROVE  ReportInv'
  <1>1. State' = r
    <2>1. State' = Config(active_td', td', dance_state', report', weak_mods', magic')
      BY DEF State, Config
    <2>2. QED
      BY <2>1 DEF Becomes, Typed, Shaped
  <1>2. QED
    BY <1>1 DEF ReportInv, Accounted, ActiveCounted, FinishedCounted, Backed, Live

LEMMA PressDanceReport ==
  ASSUME PlainTaps, TypeOK, ReportInv, NEW d \in Dances, PressDance(d)
  PROVE  ReportInv'
  <1>1. PICK c, r : c = Preprocessed(d) /\ r = TapDancePressed(c, d) /\ Becomes(r)
    BY DEF PressDance
  <1>2. d \in Keys /\ entry' = entry /\ edited' = edited /\ entry \in Entries
    BY DEF Keys, PressDance, TypeOK
  <1>3. held' \cap OtherKeys = held \cap OtherKeys
    BY TapDanceAssumption DEF PressDance
  <1>4. Within(State, c, {active_td}) /\ (d = active_td => c.td = td) /\ Typed(c)
    BY <1>1, <1>2, PreprocessedWithin, WithinTyped
  <1>5. c.td[d] = td[d]
    BY <1>4, StateTyped DEF Within
  <1>6. td[d].count < MaxTaps /\ ~td[d].pressed
    BY DEF PressDance, TypeOK
  <1>7. Typed(r)
    BY <1>1, <1>4, <1>5, <1>6, PressedWithin DEF IsPressed
  <1>8. ASSUME ~edited PROVE Accounted(r, held \cap OtherKeys) /\ ActiveCounted(r)
    <2>1. Accounted(c, held \cap OtherKeys)
      BY <1>1, <1>2, <1>8, PreprocessedAccounted DEF ReportInv
    <2>2. r = TapDancePressed(c, d)
      BY <1>1
    <2>3. QED
      BY <1>2, <1>4, <1>5, <1>6, <2>1, <2>2, PressedAccounted
  <1>9. QED
    BY <1>1, <1>2, <1>3, <1>7, <1>8, BecomesAccounted

LEMMA PressOtherReport ==
  ASSUME PlainTaps, TypeOK, ReportInv, NEW k \in OtherKeys, PressOther(k)
  PROVE  ReportInv'
  <1>1. PICK c, r : c = Preprocessed(k) /\ r = [c EXCEPT !.report = @ \cup {k}] /\ Becomes(r)
    BY DEF PressOther
  <1>2. k \in Keys /\ k # KC_NO /\ entry' = entry /\ edited' = edited /\ held' = held \cup {k}
    BY TapDanceAssumption DEF Keys, PressOther
  <1>3. Typed(c)
    BY <1>1, <1>2, PreprocessedWithin, WithinTyped
  <1>4. r = Config(c.active, c.td, c.step, c.report \cup {k}, c.weak, c.magic)
    BY <1>1, <1>3 DEF Typed, Shaped, Config
  <1>5. /\ r.active = c.active /\ r.td = c.td /\ r.step = c.step /\ r.report = c.report \cup {k}
        /\ r.weak = c.weak /\ Shaped(r)
    BY <1>4, Fields
  <1>6. Typed(r)
    BY <1>3, <1>5 DEF Typed
  <1>7. ASSUME ~edited PROVE Accounted(r, held' \cap OtherKeys) /\ ActiveCounted(r)
    <2>1. Accounted(c, held \cap OtherKeys)
      BY <1>1, <1>2, <1>7, PreprocessedAccounted DEF ReportInv
    <2>2. k \in held' \cap OtherKeys /\ held \cap OtherKeys \subseteq held' \cap OtherKeys
      BY <1>2
    <2>3. Accounted(r, held' \cap OtherKeys)
      BY <1>2, <1>5, <2>1, <2>2 DEF Accounted, Backed, Live, FinishedCounted
    <2>4. c.active = KC_NO
      <3>1. c.active \in {k, KC_NO}
        BY <1>1, <1>2, PreprocessedWithin
      <3>2. k \notin Dances
        BY TapDanceAssumption
      <3>3. QED
        BY <1>3, <3>1, <3>2 DEF Typed
    <2>5. QED
      BY <1>5, <2>3, <2>4 DEF ActiveCounted
  <1>8. QED
    BY <1>1, <1>2, <1>6, <1>7, BecomesAccounted

LEMMA ReleaseDanceReport ==
  ASSUME PlainTaps, TypeOK, ReportInv, NEW d \in Dances, ReleaseDance(d)
  PROVE  ReportInv'
  <1>1. PICK c, r : c = process_record_vial(d) /\ r = TapDanceReleased(c, d) /\ Becomes(r)
    BY DEF ReleaseDance
  <1>2. entry' = entry /\ edited' = edited
    BY DEF ReleaseDance
  <1>3. held' \cap OtherKeys = held \cap OtherKeys
    BY TapDanceAssumption DEF ReleaseDance
  <1>4. Typed(c)
    BY <1>1, VialReleaseWithin
  <1>5. Typed(r)
    BY <1>1, <1>4, ReleasedWithin DEF IsReleased
  <1>6. ASSUME ~edited PROVE Accounted(r, held \cap OtherKeys) /\ ActiveCounted(r)
    <2>1. Accounted(c, held \cap OtherKeys) /\ ActiveCounted(c)
      BY <1>1, <1>6, VialReleaseAccounted DEF ReportInv
    <2>2. r = TapDanceReleased(c, d)
      BY <1>1
    <2>3. QED
      BY <1>4, <2>1, <2>2, ReleasedAccounted
  <1>7. QED
    BY <1>1, <1>2, <1>3, <1>5, <1>6, BecomesAccounted

LEMMA TaskReport ==
  ASSUME PlainTaps, TypeOK, ReportInv, Task
  PROVE  ReportInv'
  <1>1. PICK g \in 1..MaxGap : tap_dance_task(g)
    BY DEF Task
  <1>2. PICK r : /\ Becomes(r)
                 /\ r = State \/ (active_td # KC_NO /\ r = process_tap_dance_action_on_dance_finished(State, active_td))
    BY <1>1 DEF tap_dance_task
  <1>3. UNCHANGED <<held, entry, edited>> /\ entry \in Entries
    BY <1>1 DEF tap_dance_task, TypeOK
  <1>4. Typed(State) /\ State.active = active_td
    BY StateTyped
  <1>5. CASE r = State
    BY <1>2, <1>3, <1>4, <1>5, BecomesAccounted DEF ReportInv
  <1>6. CASE active_td # KC_NO /\ r = process_tap_dance_action_on_dance_finished(State, active_td)
    <2>1. active_td \in Dances
      BY <1>6 DEF TypeOK
    <2>2. Typed(r) /\ r.active = KC_NO
      BY <1>4, <1>6, <2>1, FinishedWithin, WithinTyped
    <2>3. ASSUME ~edited PROVE Accounted(r, held \cap OtherKeys)
      <3>1. Accounted(State, held \cap OtherKeys) /\ State.td[active_td].count > 0
        BY <1>4, <1>6, <2>3 DEF ReportInv, ActiveCounted
      <3>2. Live(State) \subseteq Live(State) \cup {active_td}
        OBVIOUS
      <3>3. /\ Backed(State, held \cap OtherKeys, Live(State) \cup {active_td})
            /\ Backed(State, held \cap OtherKeys, Live(State)) /\ FinishedCounted(State)
        BY <3>1, <3>2, BackedWider DEF Accounted
      <3>4. QED
        BY <1>3, <1>4, <1>6, <2>1, <3>1, <3>3, FinishedBacked DEF Accounted
    <2>4. QED
      BY <1>2, <1>3, <2>2, <2>3, BecomesAccounted DEF ActiveCounted
  <1>7. QED
    BY <1>2, <1>5, <1>6

LEMMA NextReport ==
  ASSUME PlainTaps, TypeOK, ReportInv, [Next]_vars
  PROVE  ReportInv'
  <1>1. ASSUME NEW k \in OtherKeys, ReleaseOther(k) PROVE ReportInv'
    <2>1. /\ held' = held \ {k} /\ report' = report \ {k}
          /\ UNCHANGED <<entry, active_td, td, dance_state, weak_mods, magic, edited>>
      BY <1>1 DEF ReleaseOther
    <2>2. PICK r : r = Config(active_td, td, dance_state, report \ {k}, weak_mods, magic)
      OBVIOUS
    <2>3. /\ r.active = active_td /\ r.td = td /\ r.step = dance_state /\ r.report = report \ {k}
          /\ r.weak = weak_mods /\ r.magic = magic /\ Shaped(r)
      BY <2>2, Fields
    <2>4. Becomes(r)
      BY <2>1, <2>3 DEF Becomes
    <2>5. Typed(r)
      BY <2>3, StateTyped DEF Typed
    <2>6. ASSUME ~edited PROVE Accounted(r, held' \cap OtherKeys) /\ ActiveCounted(r)
      <3>1. /\ State.active = active_td /\ State.td = td /\ State.step = dance_state
            /\ State.report = report /\ State.weak = weak_mods
        BY StateTyped
      <3>2. Accounted(State, held \cap OtherKeys) /\ ActiveCounted(State)
        BY <2>6 DEF ReportInv
      <3>3. Accounted(r, held' \cap OtherKeys)
        BY <2>1, <2>3, <3>1, <3>2 DEF Accounted, Backed, Live, FinishedCounted
      <3>4. QED
        BY <2>3, <3>1, <3>2, <3>3 DEF ActiveCounted
    <2>7. QED
      BY <2>1, <2>4, <2>5, <2>6, BecomesAccounted
  <1>2. ASSUME NEW e \in Entries, SetEntry(e) PROVE ReportInv'
    <2>1. /\ UNCHANGED <<held, active_td, td, dance_state, report, weak_mods, magic>>
          /\ edited' = (edited \/ \E d \in Dances : td[d].count > 0)
      BY <1>2 DEF SetEntry
    <2>2. State' = State
      BY <2>1 DEF State
    <2>3. SUFFICES ASSUME ~edited' PROVE (Accounted(State, held \cap OtherKeys) /\ ActiveCounted(State))'
      BY DEF ReportInv
    <2>4. ~edited /\ \A d \in Dances : ~(td[d].count > 0)
      BY <2>1, <2>3
    <2>5. Accounted(State, held \cap OtherKeys) /\ ActiveCounted(State) /\ State.td = td
      BY <2>4, StateTyped DEF ReportInv
    <2>6. Live(State) = {}
      BY <2>4, <2>5 DEF Accounted, FinishedCounted, Live
    <2>7. /\ KC_NO \notin State.report
          /\ \A kc \in State.report : kc \in held \cap OtherKeys
          /\ \A m \in State.weak : FALSE
      BY <2>5, <2>6 DEF Accounted, Backed
    <2>8. QED
      BY <2>1, <2>2, <2>5, <2>7 DEF Accounted, Backed, FinishedCounted, ActiveCounted
  <1>3. CASE UNCHANGED vars
    BY <1>3 DEF vars, ReportInv, State, Accounted, Backed, Live, FinishedCounted, ActiveCounted
  <1>4. QED
    BY <1>1, <1>2, <1>3, PressDanceReport, PressOtherReport, ReleaseDanceReport, TaskReport DEF Next

LEMMA InitReport == Init => ReportInv
  <1>1. ASSUME Init PROVE ReportInv
    <2>1. TypeOK
      BY <1>1, InitType
    <2>2. State.report = {} /\ State.weak = {} /\ State.active = KC_NO /\ State.td = td
      BY <1>1, <2>1, StateTyped DEF Init
    <2>3. \A d \in Dances : ~td[d].finished
      BY <1>1 DEF Init, Idle
    <2>4. QED
      BY <2>2, <2>3 DEF ReportInv, Accounted, Backed, Live, FinishedCounted, ActiveCounted
  <1>2. QED
    BY <1>1

(* Nothing stays registered: if no dance taps a magic keycode, each keycode  *)
(* in the report and each weak modifier is due to a key that is down, unless *)
(* the host has changed a dance under way.                                   *)
THEOREM NothingStaysRegistered == ASSUME PlainTaps PROVE Spec => []ReportJustified
  <1>1. TypeOK /\ ReportInv /\ [Next]_vars => TypeOK' /\ ReportInv'
    BY NextStep, NextReport
  <1>2. TypeOK /\ ReportInv => ReportJustified
    <2>1. SUFFICES ASSUME TypeOK, Backed(State, held \cap OtherKeys, Live(State))
                   PROVE  LET L == {d \in Dances \cap held : td[d].finished}
                          IN /\ \A kc \in report : kc \in held \/ \E d \in L : kc = HeldCode(entry[d], dance_state[d])
                             /\ weak_mods \subseteq UNION {td[d].weak_mods : d \in L}
      BY DEF ReportInv, ReportJustified, Accounted
    <2>2. State.td = td /\ State.step = dance_state /\ State.report = report /\ State.weak = weak_mods
      BY <2>1, StateTyped
    <2>3. \A d \in Live(State) : d \in Dances \cap held /\ td[d].finished
      BY <2>1, <2>2 DEF Live, TypeOK
    <2>4. QED
      BY <2>1, <2>2, <2>3 DEF Backed
  <1>3. QED
    BY InitType, InitReport, <1>1, <1>2, PTL DEF Spec
=============================================================================
