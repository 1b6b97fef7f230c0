------------------------ MODULE ActionTappingProofs ------------------------
(***************************************************************************)
(* Theorems about the tap-hold state machine, for every matrix, keymap,    *)
(* tapping term and buffer size: its types, that no release in time is     *)
(* missed, and that presses wait for an undecided key; and, for regular    *)
(* keymaps, that no key and no layer is stuck and what permissive hold     *)
(* takes for a nested tap.                                                 *)
(***************************************************************************)
EXTENDS ActionTapping, NumberLemmas, FiniteSetTheorems, TLAPS

Events == Record \cup {MAKE_TICK_EVENT(t) : t \in Time}

(* The type invariant is not inductive: the buffer is processed only while  *)
(* it holds a record.                                                       *)
TypeInv == TypeOK /\ (running = "buffer" => waiting_buffer # <<>>)

USE DEF Kinds

(* The layer a key is looked up on is one of the keymap's. *)
LEMMA LayerType ==
  ASSUME NEW k \in Keyboard, NEW key \in Keys
  PROVE  /\ layer_switch_get_layer(k, key) \in Layers
         /\ layer_switch_get_action(k, key) \in Action
  <1> DEFINE opaque == {l \in k.layers \cup {0} : Keymap[l][key].kind # "trns"}
             top == {l \in opaque : \A m \in opaque : m <= l}
  <1>1. top \subseteq Layers
    BY TappingAssumption DEF Keyboard
  <1>2. layer_switch_get_layer(k, key) \in Layers
    <2>1. CASE top = {}
      BY <2>1, TappingAssumption DEF layer_switch_get_layer
    <2>2. CASE top # {}
      <3>1. (CHOOSE l \in top : TRUE) \in top
        BY <2>2
      <3>2. QED
        BY <2>2, <3>1, <1>1 DEF layer_switch_get_layer
    <2>3. QED
      BY <2>1, <2>2
  <1>3. QED
    BY <1>2, TappingAssumption DEF layer_switch_get_action

(* The action of a press or a release is one of the keymap's. *)
LEMMA ActionType ==
  ASSUME NEW k \in Keyboard, NEW r \in Record
  PROVE  store_or_get_action(k, r) \in Action
  <1>1. r.key \in Keys /\ k.cache[r.key] \in Layers
    BY DEF Record, Keyboard
  <1>2. QED
    BY <1>1, LayerType, TappingAssumption DEF store_or_get_action

(* Looking up the layer of a press keeps the keyboard state well typed. *)
LEMMA CacheType ==
  ASSUME NEW k \in Keyboard, NEW key \in Keys
  PROVE  update_source_layers_cache(k, key) \in Keyboard
  BY LayerType DEF update_source_layers_cache, Keyboard

(* process_record keeps the keyboard state well typed. *)
LEMMA ProcessRecordType ==
  ASSUME NEW k \in Keyboard, NEW r \in Record
  PROVE  process_record(k, r) \in Keyboard
  <1> DEFINE action == store_or_get_action(k, r)
  <1>1. action \in Action
    BY ActionType
  <1>2. /\ TapPart(action, r.count) \subseteq Codes \cup {NoCode}
        /\ ModPart(action, r.count) \subseteq Mods
        /\ LayerPart(action, r.count) \subseteq Layers
    BY <1>1 DEF Action, TapPart, ModPart, LayerPart
  <1>3. update_source_layers_cache(k, r.key) \in Keyboard
    BY CacheType DEF Record
  <1>4. QED
    BY <1>2, <1>3 DEF process_record, Keyboard

-----------------------------------------------------------------------------
(* The record process_tapping is called with is an event, and a record if it *)
(* is taken from the buffer.                                                 *)
LEMMA CurrentRecordType ==
  ASSUME TypeInv
  PROVE  /\ keyp \in Events
         /\ running = "buffer" => keyp \in Record
         /\ ~IS_NOEVENT(keyp) => keyp \in Record
         /\ keyp.pressed => keyp \in Record
  <1>1. running = "buffer" => waiting_buffer[1] \in Record
    BY DEF TypeInv, TypeOK
  <1>2. keyp \in Events /\ (running = "buffer" => keyp \in Record)
    BY <1>1 DEF TypeInv, TypeOK, Events, keyp
  <1>3. \A t \in Time : MAKE_TICK_EVENT(t).key = NoKey /\ ~MAKE_TICK_EVENT(t).pressed
    BY DEF MAKE_TICK_EVENT, MAKE_KEYEVENT
  <1>4. QED
    BY <1>2, <1>3 DEF Events, IS_NOEVENT

(* A tapping key that is not forgotten is a record. *)
LEMMA TappingKeyType ==
  ASSUME TypeInv, ~IS_NOEVENT(tapping_key)
  PROVE  tapping_key \in Record
  BY DEF TypeInv, TypeOK, IS_NOEVENT, NoRecord, MAKE_TICK_EVENT, MAKE_KEYEVENT

(* The empty record is a tick. *)
LEMMA NoRecordType == NoRecord \in Events
  <1>1. 0 \in Time
    BY TappingAssumption DEF Time
  <1>2. QED
    BY <1>1 DEF Events, NoRecord

(* Returning true keeps the types: the buffer never grows. *)
LEMMA ConsumedType ==
  ASSUME TypeInv, running # "idle",
         NEW tk \in Record \cup {NoRecord}, NEW k \in Keyboard,
         NEW buffer \in Seq(Record), Len(buffer) = Len(waiting_buffer),
         Consumed(tk, k, buffer)
  PROVE  TypeInv'
  <1> DEFINE left == IF running = "event" THEN buffer ELSE Tail(buffer)
  <1>1. running = "event" \/ buffer # <<>>
    BY DEF TypeInv, TypeOK
  <1>2. left \in Seq(Record) /\ Len(left) < WAITING_BUFFER_SIZE
    BY <1>1, TappingAssumption DEF TypeInv, TypeOK
  <1>3. waiting_buffer' = left /\ running' = IF left = <<>> THEN "idle" ELSE "buffer"
    BY DEF Consumed
  <1>4. event' \in Events /\ now' \in Time /\ held' \subseteq Keys /\ changed' \subseteq Keys
    BY NoRecordType DEF Consumed, TypeInv, TypeOK
  <1>5. tapping_key' \in Record \cup {NoRecord} /\ kb' \in Keyboard
    BY DEF Consumed
  <1>6. QED
    BY <1>2, <1>3, <1>4, <1>5 DEF TypeInv, TypeOK, Events

(* Returning false keeps the types: waiting_buffer_enq refuses a record the  *)
(* ring buffer has no room for.                                              *)
LEMMA DeferredType ==
  ASSUME TypeInv,
         NEW tk \in Record \cup {NoRecord}, NEW k \in Keyboard, NEW r \in Events,
         running = "buffer" => r \in Record,
         ~IS_NOEVENT(r) => r \in Record,
         Deferred(tk, k, r)
  PROVE  TypeInv'
  <1>1. event' \in Events /\ now' \in Time /\ held' \subseteq Keys /\ changed' \subseteq Keys
    BY NoRecordType DEF Deferred, TypeInv, TypeOK
  <1>2. tapping_key' \in Record \cup {NoRecord} /\ kb' \in Keyboard
    BY DEF Deferred, clear_keyboard, Keyboard
  <1>3. /\ waiting_buffer' \in Seq(Record) /\ Len(waiting_buffer') < WAITING_BUFFER_SIZE
        /\ running' \in {"idle", "event", "buffer"}
        /\ running' = "buffer" => waiting_buffer' # <<>>
    <2>1. CASE running = "buffer" /\ waiting_buffer' = [waiting_buffer EXCEPT ![1] = r]
               /\ running' = "idle"
      BY <2>1 DEF TypeInv, TypeOK
    <2>2. CASE /\ running' = IF waiting_buffer = <<>> THEN "idle" ELSE "buffer"
               /\ UNCHANGED waiting_buffer
      BY <2>2 DEF TypeInv, TypeOK
    <2>3. CASE /\ ~IS_NOEVENT(r) /\ ~BufferFull
               /\ waiting_buffer' = Append(waiting_buffer, r) /\ running' = "buffer"
      BY <2>3, TappingAssumption DEF TypeInv, TypeOK, BufferFull
    <2>4. CASE waiting_buffer' = <<>> /\ running' = "idle"
      BY <2>4, TappingAssumption
    <2>5. QED
      BY <2>1, <2>2, <2>3, <2>4 DEF Deferred
  <1>4. QED
    BY <1>1, <1>2, <1>3 DEF TypeInv, TypeOK, Events

(* Replacing an element of a sequence keeps its length and its type. *)
LEMMA ExceptType ==
  ASSUME NEW R, NEW q \in Seq(R), NEW m, NEW v, m \in 1..Len(q) => v \in R
  PROVE  [q EXCEPT ![m] = v] \in Seq(R) /\ Len([q EXCEPT ![m] = v]) = Len(q)
  <1> DEFINE g == [q EXCEPT ![m] = v]
  <1>1. DOMAIN q = 1..Len(q) /\ Len(q) \in Nat /\ \A i \in 1..Len(q) : q[i] \in R
    OBVIOUS
  <1>2. g = [i \in 1..Len(q) |-> IF i = m THEN v ELSE q[i]]
    BY <1>1, Zenon
  <1>3. \A i \in 1..Len(q) : (IF i = m THEN v ELSE q[i]) \in R
    BY <1>1
  <1> HIDE DEF g
  <1>4. g \in Seq(R) /\ Len(g) = Len(q)
    BY <1>1, <1>2, <1>3
  <1>5. QED
    BY <1>4 DEF g

(* Starting a tap keeps the types, with or without a release in the buffer. *)
LEMMA StartTappingType ==
  ASSUME TypeInv, running # "idle", keyp \in Record, NEW k \in Keyboard, StartTapping(k)
  PROVE  TypeInv'
  <1> DEFINE found == TapReleases(keyp)
             tap == [keyp EXCEPT !.count = 1]
             marked == [waiting_buffer EXCEPT ![Min(found)].count = 1]
  <1>1. CASE keyp.count > 0 \/ found = {}
    <2>1. Consumed(keyp, k, waiting_buffer)
      BY <1>1 DEF StartTapping
    <2>2. QED
      BY <2>1, ConsumedType DEF TypeInv, TypeOK
  <1>2. CASE ~(keyp.count > 0 \/ found = {})
    <2>1. Consumed(tap, process_record(k, tap), marked)
      BY <1>2 DEF StartTapping
    <2>2. tap \in Record
      BY DEF Record
    <2>3. process_record(k, tap) \in Keyboard
      BY <2>2, ProcessRecordType
    <2>4. marked \in Seq(Record) /\ Len(marked) = Len(waiting_buffer)
      <3>1. \A r \in Record : [r EXCEPT !.count = 1] \in Record
        BY DEF Record
      <3>2. \A i \in 1..Len(waiting_buffer) : waiting_buffer[i] \in Record
        BY DEF TypeInv, TypeOK
      <3>3. waiting_buffer \in Seq(Record)
        BY DEF TypeInv, TypeOK
      <3> DEFINE v == [waiting_buffer[Min(found)] EXCEPT !.count = 1]
      <3>4. Min(found) \in 1..Len(waiting_buffer) => v \in Record
        BY <3>1, <3>2, Zenon
      <3>5. marked = [waiting_buffer EXCEPT ![Min(found)] = v]
        OBVIOUS
      <3> HIDE DEF v, found
      <3>6. QED
        BY <3>3, <3>4, <3>5, ExceptType
    <2>5. QED
      BY <2>1, <2>2, <2>3, <2>4, ConsumedType
  <1>3. QED
    BY <1>1, <1>2

(* The changes process_tapping makes to a record. *)
LEMMA RecordUpdates ==
  ASSUME NEW r \in Record, NEW s \in Record, NEW c \in 0..15
  PROVE  /\ [r EXCEPT !.count = c] \in Record
         /\ [r EXCEPT !.interrupted = TRUE] \in Record
         /\ [r EXCEPT !.count = c, !.interrupted = s.interrupted] \in Record
         /\ [r EXCEPT !.pressed = FALSE, !.time = s.time] \in Record
  BY DEF Record

-----------------------------------------------------------------------------
(* Every branch of process_tapping keeps the types. *)
LEMMA ProcessTappingType ==
  ASSUME TypeInv, process_tapping
  PROVE  TypeInv'
  <1> USE CurrentRecordType, ProcessRecordType, ConsumedType, DeferredType
  <1>a. /\ waiting_buffer \in Seq(Record) /\ kb \in Keyboard
        /\ tapping_key \in Record \cup {NoRecord}
    BY DEF TypeInv, TypeOK
  <1>b. ASSUME NEW r \in Record PROVE process_record(kb, r) \in Keyboard
    BY <1>a
  <1>c. PressedState \/ ReleasedState => tapping_key \in Record
    BY TappingKeyType DEF PressedState, ReleasedState
  <1>d. 1 \in 0..15 /\ \A r \in Record : r.count \in 0..15
    BY DEF Record
  <1>1. CASE TickIgnored
    BY <1>1, <1>a DEF TickIgnored, ResetState, Undecided, Tapped, PressedState, ReleasedState
  <1>2. CASE StartTap
    BY <1>2, <1>a, StartTappingType DEF StartTap, ResetState
  <1>3. CASE RegularKey
    BY <1>3, <1>a, <1>b DEF RegularKey, ResetState
  <1>4. CASE FirstTap
    <2> DEFINE tap == [tapping_key EXCEPT !.count = 1]
               r == [keyp EXCEPT !.count = 1, !.interrupted = tapping_key.interrupted]
    <2>1. tapping_key \in Record /\ ~IS_NOEVENT(keyp)
      BY <1>4, <1>c DEF FirstTap, Undecided, IS_TAPPING_RECORD, PressedState, IS_NOEVENT
    <2>2. tap \in Record /\ r \in Record
      BY <2>1, <1>d, RecordUpdates
    <2>3. process_record(kb, tap) \in Keyboard
      BY <2>2, <1>b
    <2>4. Deferred(tap, process_record(kb, tap), r)
      BY <1>4 DEF FirstTap
    <2> HIDE DEF tap, r
    <2>5. QED
      BY <2>2, <2>3, <2>4 DEF Events
  <1>5. CASE NestedTap
    BY <1>5, <1>a, <1>b, <1>c DEF NestedTap, Undecided
  <1>6. CASE ReleaseOfEarlierKey
    BY <1>6, <1>a, <1>b, <1>c DEF ReleaseOfEarlierKey, Undecided, PressedState
  <1>7. CASE Interrupted
    <2> DEFINE tk == [tapping_key EXCEPT !.interrupted = TRUE]
    <2>1. tk \in Record
      BY <1>7, <1>c, <1>d, RecordUpdates DEF Interrupted, Undecided
    <2>2. process_record(kb, tk) \in Keyboard
      BY <2>1, <1>b
    <2>3. Deferred(NoRecord, process_record(kb, tk), keyp) \/ Deferred(tk, kb, keyp)
      BY <1>7 DEF Interrupted
    <2> HIDE DEF tk
    <2>4. QED
      BY <2>1, <2>2, <2>3, <1>a
  <1>8. CASE TimedOut
    BY <1>8, <1>a, <1>b, <1>c DEF TimedOut
  <1>9. CASE TapRelease
    <2> DEFINE r == [keyp EXCEPT !.count = tapping_key.count, !.interrupted = tapping_key.interrupted]
    <2>1. tapping_key \in Record /\ ~IS_NOEVENT(keyp) /\ running # "idle"
      BY <1>9, <1>c DEF TapRelease, Tapped, IS_TAPPING_RECORD, PressedState, IS_NOEVENT
    <2>2. r \in Record
      BY <2>1, <1>d, RecordUpdates
    <2>3. process_record(kb, r) \in Keyboard
      BY <2>2, <1>b
    <2>4. \/ Consumed(r, process_record(kb, r), waiting_buffer)
          \/ Consumed(NoRecord, process_record(kb, r), waiting_buffer)
      BY <1>9 DEF TapRelease
    <2> HIDE DEF r
    <2>5. QED
      BY <2>1, <2>2, <2>3, <2>4, <1>a
  <1>10. CASE NextTapKey
    <2> DEFINE release == [tapping_key EXCEPT !.pressed = FALSE, !.time = keyp.time]
    <2>1. tapping_key \in Record /\ keyp \in Record /\ running # "idle"
      BY <1>10, <1>c DEF NextTapKey, Tapped, PressedState
    <2>2. release \in Record
      BY <2>1, <1>d, RecordUpdates
    <2>3. process_record(kb, release) \in Keyboard
      BY <2>2, <1>b
    <2>4. StartTapping(process_record(kb, release)) \/ StartTapping(kb)
      BY <1>10 DEF NextTapKey
    <2> HIDE DEF release
    <2>5. QED
      BY <2>1, <2>3, <2>4, <1>a, StartTappingType
  <1>11. CASE OtherKeyDuringTap
    BY <1>11, <1>a, <1>b DEF OtherKeyDuringTap, Tapped, PressedState
  <1>12. CASE SequentialTap
    <2> DEFINE count == IF tapping_key.count < 15 THEN tapping_key.count + 1 ELSE tapping_key.count
               r == [keyp EXCEPT !.count = count, !.interrupted = tapping_key.interrupted]
    <2>1. tapping_key \in Record /\ keyp \in Record /\ running # "idle"
      BY <1>12, <1>c DEF SequentialTap, ReleasedState
    <2>2. count \in 0..15
      BY <2>1, <1>d
    <2>3. r \in Record
      <3> HIDE DEF count
      <3>1. QED
        BY <2>1, <2>2, RecordUpdates
    <2>4. process_record(kb, r) \in Keyboard
      BY <2>3, <1>b
    <2>5. Consumed(r, process_record(kb, r), waiting_buffer) \/ Consumed(keyp, kb, waiting_buffer)
      BY <1>12 DEF SequentialTap
    <2> HIDE DEF r
    <2>6. QED
      BY <2>1, <2>3, <2>4, <2>5, <1>a
  <1>13. CASE OtherKeyAfterTap
    <2> DEFINE tk == [tapping_key EXCEPT !.interrupted = TRUE]
    <2>1. tapping_key \in Record /\ keyp \in Record /\ running # "idle"
      BY <1>13, <1>c DEF OtherKeyAfterTap, ReleasedState
    <2>2. tk \in Record /\ process_record(kb, keyp) \in Keyboard
      BY <2>1, <1>b, <1>d, RecordUpdates
    <2>3. \/ StartTapping(kb)
          \/ Consumed(tk, process_record(kb, keyp), waiting_buffer)
          \/ Consumed(tapping_key, process_record(kb, keyp), waiting_buffer)
      BY <1>13 DEF OtherKeyAfterTap
    <2> HIDE DEF tk
    <2>4. QED
      BY <2>1, <2>2, <2>3, <1>a, StartTappingType
  <1>14. CASE TapForgotten
    BY <1>14, <1>a DEF TapForgotten
  <1>15. QED
    BY <1>1, <1>2, <1>3, <1>4, <1>5, <1>6, <1>7, <1>8, <1>9, <1>10, <1>11, <1>12, <1>13, <1>14
       DEF process_tapping

(* A key event and a tick keep the types, whatever the timer does. *)
LEMMA EnvironmentType ==
  ASSUME TypeInv, Tick \/ \E key \in Keys, d \in 0..MaxGap : KeyEvent(key, d)
  PROVE  TypeInv'
  <1>1. ASSUME NEW d \in 0..MaxGap PROVE (now + d) % TIMER_RANGE \in Time
    BY TappingAssumption DEF TypeInv, TypeOK, Time
  <1>2. ASSUME NEW key \in Keys, NEW d \in 0..MaxGap, KeyEvent(key, d) PROVE TypeInv'
    <2> DEFINE t == (now + d) % TIMER_RANGE
    <2>1. t \in Time
      BY <1>1
    <2> HIDE DEF t
    <2>2. MAKE_KEYEVENT(key, key \notin held, t) \in Record
      BY <2>1 DEF MAKE_KEYEVENT, Record
    <2>3. event' = MAKE_KEYEVENT(key, key \notin held, t) /\ now' = t
      BY <1>2 DEF KeyEvent, t
    <2>4. kb' \in Keyboard
      BY <1>2, CacheType DEF KeyEvent, TypeInv, TypeOK
    <2>5. QED
      BY <1>2, <2>1, <2>2, <2>3, <2>4 DEF KeyEvent, TypeInv, TypeOK
  <1>3. ASSUME NEW d \in 1..MaxGap, TickEvent(d) PROVE TypeInv'
    <2> DEFINE t == (now + d) % TIMER_RANGE
    <2>1. t \in Time
      BY <1>1, TappingAssumption
    <2>2. event' = MAKE_TICK_EVENT(t) /\ now' = t
      BY <1>3 DEF TickEvent
    <2> HIDE DEF t
    <2>3. QED
      BY <1>3, <2>1, <2>2 DEF TickEvent, TypeInv, TypeOK
  <1>4. QED
    BY <1>2, <1>3 DEF Tick

(* The type invariant holds initially and is kept. *)
LEMMA TypeInitially == Init => TypeInv
  BY TappingAssumption, NoRecordType DEF Init, TypeInv, TypeOK, Keyboard, Events, Time

LEMMA TypeInductive == TypeInv /\ [Next]_vars => TypeInv'
  <1>1. ASSUME TypeInv, UNCHANGED vars PROVE TypeInv'
    BY <1>1 DEF vars, TypeInv, TypeOK
  <1>2. QED
    BY <1>1, ProcessTappingType, EnvironmentType DEF Next

(* The tap-hold state machine is type-correct for every keymap, tapping term *)
(* and buffer size: the waiting buffer never holds more records than its     *)
(* ring can tell from an empty one, and the 4-bit tap count never overflows. *)
THEOREM TappingTypeCorrectness == Spec => []TypeOK
  <1>1. TypeInv => TypeOK
    BY DEF TypeInv
  <1>2. QED
    BY TypeInitially, TypeInductive, <1>1, PTL DEF Spec

-----------------------------------------------------------------------------
(* Releases in time.  What counts in a record for TapReleases. *)
InTime(r, tk) == r.key = tk.key /\ ~r.pressed /\ WITHIN_TAPPING_TERM(r, tk)

(* A release that waits after process_tapping returned true waited before. *)
LEMMA UnseenConsumed ==
  ASSUME TypeInv, running # "idle", NEW tk, NEW k, Consumed(tk, k, waiting_buffer), ReleaseUnseen'
  PROVE  /\ tapping_key' = tk /\ ~IS_NOEVENT(tk) /\ tk.pressed /\ tk.count = 0
         /\ TapReleases(tk) # {}
  <1> DEFINE left == IF running = "event" THEN waiting_buffer ELSE Tail(waiting_buffer)
  <1>1. tapping_key' = tk /\ waiting_buffer' = left
    BY DEF Consumed
  <1>2. ~IS_NOEVENT(tk) /\ tk.pressed /\ tk.count = 0
    BY <1>1 DEF ReleaseUnseen, UndecidedKey, IS_NOEVENT
  <1>3. PICK i \in 1..Len(left) : InTime(left[i], tk)
    BY <1>1 DEF ReleaseUnseen, TapReleases, InTime, WITHIN_TAPPING_TERM, TIMER_DIFF_16
  <1>4. running = "buffer" => waiting_buffer # <<>>
    BY DEF TypeInv
  <1>5. \E j \in 1..Len(waiting_buffer) : waiting_buffer[j] = left[i]
    <2>1. CASE running = "event"
      BY <2>1
    <2>2. CASE running # "event"
      <3>1. /\ waiting_buffer \in Seq(Record) /\ waiting_buffer # <<>>
        BY <2>2, <1>4 DEF TypeInv, TypeOK
      <3>2. i + 1 \in 1..Len(waiting_buffer) /\ waiting_buffer[i + 1] = left[i]
        BY <2>2, <3>1
      <3>3. QED
        BY <3>2
    <2>3. QED
      BY <2>1, <2>2
  <1>6. \E j \in 1..Len(waiting_buffer) : InTime(waiting_buffer[j], tk)
    BY <1>3, <1>5
  <1>7. QED
    BY <1>1, <1>2, <1>6 DEF TapReleases, InTime

(* A release that waits after process_tapping returned false waited before,  *)
(* or is the record it was called with.                                      *)
LEMMA UnseenDeferred ==
  ASSUME TypeInv, running # "idle", NEW tk, NEW k, Deferred(tk, k, keyp), ReleaseUnseen'
  PROVE  /\ tapping_key' = tk /\ ~IS_NOEVENT(tk) /\ tk.pressed /\ tk.count = 0
         /\ TapReleases(tk) # {} \/ InTime(keyp, tk)
  <1>1. tapping_key' = tk \/ (tapping_key' = NoRecord /\ waiting_buffer' = <<>>)
    BY DEF Deferred
  <1>2. tapping_key' # NoRecord
    BY DEF ReleaseUnseen, UndecidedKey, IS_NOEVENT, NoRecord, MAKE_TICK_EVENT, MAKE_KEYEVENT
  <1>3. ~IS_NOEVENT(tk) /\ tk.pressed /\ tk.count = 0
    BY <1>1, <1>2 DEF ReleaseUnseen, UndecidedKey, IS_NOEVENT
  <1>4. PICK i \in 1..Len(waiting_buffer') : InTime(waiting_buffer'[i], tk)
    BY <1>1, <1>2 DEF ReleaseUnseen, TapReleases, InTime, WITHIN_TAPPING_TERM, TIMER_DIFF_16
  <1>5. \/ i \in 1..Len(waiting_buffer) /\ waiting_buffer'[i] = waiting_buffer[i]
        \/ waiting_buffer'[i] = keyp
    <2>0. waiting_buffer \in Seq(Record)
      BY DEF TypeInv, TypeOK
    <2>1. CASE waiting_buffer' = [waiting_buffer EXCEPT ![1] = keyp]
      BY <2>0, <2>1
    <2>2. CASE waiting_buffer' = waiting_buffer
      BY <2>2
    <2>3. CASE waiting_buffer' = Append(waiting_buffer, keyp)
      BY <2>0, <2>3
    <2>4. CASE waiting_buffer' = <<>>
      BY <2>4
    <2>5. QED
      BY <2>1, <2>2, <2>3, <2>4 DEF Deferred
  <1>6. QED
    BY <1>1, <1>2, <1>3, <1>4, <1>5 DEF TapReleases, InTime

(* Starting a tap scans the buffer. *)
LEMMA UnseenStartTapping ==
  ASSUME TypeInv, running # "idle", NEW k, StartTapping(k)
  PROVE  ~ReleaseUnseen'
  <1> SUFFICES ASSUME ReleaseUnseen' PROVE FALSE
    OBVIOUS
  <1>1. CASE keyp.count > 0 \/ TapReleases(keyp) = {}
    <2>1. Consumed(keyp, k, waiting_buffer)
      BY <1>1 DEF StartTapping
    <2>2. keyp.count = 0 /\ TapReleases(keyp) # {}
      BY <2>1, UnseenConsumed
    <2>3. QED
      BY <1>1, <2>2
  <1>2. CASE ~(keyp.count > 0 \/ TapReleases(keyp) = {})
    <2>1. tapping_key' = [keyp EXCEPT !.count = 1]
      BY <1>2 DEF StartTapping, Consumed
    <2>2. keyp \in Events
      BY CurrentRecordType
    <2>3. tapping_key'.count = 1
      BY <2>1, <2>2 DEF Events, Record, MAKE_TICK_EVENT, MAKE_KEYEVENT
    <2>4. QED
      BY <2>3 DEF ReleaseUnseen, UndecidedKey
  <1>3. QED
    BY <1>1, <1>2

(* The key that was undecided still is, and its release still waits. *)
SamePress == tapping_key'.key = tapping_key.key /\ tapping_key'.time = tapping_key.time
StillUnseen == ReleaseUnseen /\ SamePress

(* An undecided tapping key with an unseen release was there before the step, *)
(* unless the step was SequentialTap.                                         *)
LEMMA UnseenStep ==
  ASSUME TypeInv, [Next]_vars, ReleaseUnseen'
  PROVE  SequentialTap \/ StillUnseen \/ UNCHANGED vars
  <1>t. PressedState \/ ReleasedState => tapping_key \in Record /\ running # "idle"
    BY TappingKeyType DEF PressedState, ReleasedState
  <1>n. IS_NOEVENT(NoRecord)
    BY DEF NoRecord, MAKE_TICK_EVENT, MAKE_KEYEVENT, IS_NOEVENT
  <1>k. ASSUME NEW k, Consumed(tapping_key, k, waiting_buffer), running # "idle" PROVE StillUnseen
    BY <1>k, UnseenConsumed DEF StillUnseen, ReleaseUnseen, UndecidedKey, SamePress
  <1>d. ASSUME NEW tk, NEW k, Deferred(tk, k, keyp), PressedState, ~InTime(keyp, tk),
               tk = tapping_key \/ tk = [tapping_key EXCEPT !.interrupted = TRUE]
        PROVE  StillUnseen
    <2>1. /\ tk.key = tapping_key.key /\ tk.time = tapping_key.time /\ tk.count = tapping_key.count
          /\ tk.pressed = tapping_key.pressed
      BY <1>d, <1>t DEF Record
    <2>2. tapping_key' = tk /\ tk.count = 0 /\ TapReleases(tk) # {}
      BY <1>d, <1>t, UnseenDeferred
    <2>3. TapReleases(tk) = TapReleases(tapping_key)
      BY <2>1 DEF TapReleases, WITHIN_TAPPING_TERM, TIMER_DIFF_16
    <2>4. QED
      BY <1>d, <2>1, <2>2, <2>3 DEF StillUnseen, ReleaseUnseen, UndecidedKey, SamePress, PressedState
  <1>z. ASSUME NEW k, Deferred(NoRecord, k, keyp), running # "idle" PROVE FALSE
    BY <1>z, <1>n, UnseenDeferred
  <1>1. CASE TickIgnored
    BY <1>1, <1>k DEF TickIgnored, ResetState, Undecided, Tapped, PressedState, ReleasedState
  <1>2. CASE StartTap
    BY <1>2, UnseenStartTapping DEF StartTap, ResetState
  <1>3. CASE RegularKey
    BY <1>3, <1>k DEF RegularKey, ResetState
  <1>4. CASE FirstTap
    <2>1. tapping_key \in Record
      BY <1>4, <1>t DEF FirstTap, Undecided
    <2>2. tapping_key' \in {[tapping_key EXCEPT !.count = 1], NoRecord}
      BY <1>4 DEF FirstTap, Deferred
    <2>3. IS_NOEVENT(tapping_key') \/ tapping_key'.count = 1
      BY <2>1, <2>2, <1>n DEF Record
    <2>4. QED
      BY <2>3 DEF ReleaseUnseen, UndecidedKey, IS_NOEVENT
  <1>5. CASE NestedTap
    <2>1. ~InTime(keyp, tapping_key) /\ PressedState
      BY <1>5 DEF NestedTap, InTime, IS_TAPPING_RECORD, Undecided
    <2>2. QED
      BY <1>5, <2>1, <1>d, <1>z DEF NestedTap, PressedState
  <1>6. CASE ReleaseOfEarlierKey
    <2>1. ~InTime(keyp, tapping_key) /\ PressedState
      BY <1>6 DEF ReleaseOfEarlierKey, InTime, IS_TAPPING_RECORD, Undecided
    <2>2. QED
      BY <1>6, <2>1, <1>d, <1>k DEF ReleaseOfEarlierKey, PressedState
  <1>7. CASE Interrupted
    <2> DEFINE tk == [tapping_key EXCEPT !.interrupted = TRUE]
    <2>1. ~InTime(keyp, tk) /\ PressedState
      BY <1>7 DEF Interrupted, InTime, Undecided
    <2>2. Deferred(NoRecord, process_record(kb, tk), keyp) \/ Deferred(tk, kb, keyp)
      BY <1>7 DEF Interrupted
    <2>3. QED
      BY <2>1, <2>2, <1>d, <1>z DEF PressedState
  <1>8. CASE TimedOut
    BY <1>8, <1>z DEF TimedOut, PressedState
  <1>9. CASE TapRelease
    <2> DEFINE r == [keyp EXCEPT !.count = tapping_key.count, !.interrupted = tapping_key.interrupted]
    <2>1. tapping_key' \in {r, NoRecord} /\ ~keyp.pressed
      BY <1>9 DEF TapRelease, Consumed
    <2>2. keyp \in Events
      BY CurrentRecordType
    <2>3. ~r.pressed
      BY <2>1, <2>2 DEF Events, Record, MAKE_TICK_EVENT, MAKE_KEYEVENT
    <2>4. QED
      BY <2>1, <2>3, <1>n DEF ReleaseUnseen, UndecidedKey, IS_NOEVENT
  <1>10. CASE NextTapKey
    <2>1. \E k : StartTapping(k)
      BY <1>10 DEF NextTapKey
    <2>2. QED
      BY <1>10, <2>1, <1>t, UnseenStartTapping DEF NextTapKey, Tapped
  <1>11. CASE OtherKeyDuringTap
    BY <1>11, <1>k DEF OtherKeyDuringTap, Tapped, PressedState
  <1>12. CASE OtherKeyAfterTap
    <2>1. tapping_key \in Record /\ running # "idle" /\ ~tapping_key.pressed
      BY <1>12, <1>t DEF OtherKeyAfterTap, ReleasedState
    <2>2. CASE StartTapping(kb)
      BY <2>1, <2>2, UnseenStartTapping
    <2>3. CASE ~StartTapping(kb)
      <3>1. tapping_key' \in {tapping_key, [tapping_key EXCEPT !.interrupted = TRUE]}
        BY <1>12, <2>3 DEF OtherKeyAfterTap, Consumed
      <3>2. ~tapping_key'.pressed
        BY <2>1, <3>1 DEF Record
      <3>3. QED
        BY <3>2 DEF ReleaseUnseen, UndecidedKey
    <2>4. QED
      BY <2>2, <2>3
  <1>13. CASE TapForgotten
    BY <1>13, <1>z DEF TapForgotten, ReleasedState
  <1>14. CASE Tick \/ \E key \in Keys, d \in 0..MaxGap : KeyEvent(key, d)
    <2>1. UNCHANGED <<tapping_key, waiting_buffer>>
      BY <1>14 DEF Tick, TickEvent, KeyEvent
    <2>2. QED
      BY <2>1 DEF StillUnseen, ReleaseUnseen, UndecidedKey, SamePress, IS_NOEVENT, TapReleases,
                  WITHIN_TAPPING_TERM, TIMER_DIFF_16
  <1>15. QED
    BY <1>1, <1>2, <1>3, <1>4, <1>5, <1>6, <1>7, <1>8, <1>9, <1>10, <1>11, <1>12, <1>13, <1>14
       DEF Next, process_tapping

(* No release within the tapping term is missed, whatever the keymap, the    *)
(* settings, the order of the events and the time between two scans: only    *)
(* SequentialTap, which does not scan the buffer, can leave one behind an    *)
(* undecided key.                                                            *)
THEOREM ReleasesAreSeen == Spec => NoReleaseMissed
  <1>1. Spec => []TypeInv
    BY TypeInitially, TypeInductive, PTL DEF Spec
  <1>2. TypeInv /\ [Next]_vars =>
          [ReleaseUnseen' => SequentialTap \/ StillUnseen]_vars
    BY UnseenStep
  <1>3. QED
    BY <1>1, <1>2, PTL DEF Spec, NoReleaseMissed, StillUnseen, SamePress

(* While a tap-hold key is undecided, a press is never processed before what *)
(* waits: whichever branch of process_tapping it takes, it is put at the end *)
(* of the buffer or the buffer overflows.                                    *)
THEOREM PressesAreDelayed == Spec => PressDelayed
  <1>1. Spec => []TypeInv
    BY TypeInitially, TypeInductive, PTL DEF Spec
  <1> DEFINE Kept == running = "event" /\ event.pressed /\ UndecidedKey =>
                       waiting_buffer' \in {Append(waiting_buffer, event), <<>>}
  <1>2. ASSUME TypeInv, Next, running = "event", event.pressed, UndecidedKey
        PROVE  waiting_buffer' \in {Append(waiting_buffer, event), <<>>}
    <2>1. keyp = event /\ event \in Record /\ ~IS_NOEVENT(event)
      BY <1>2, CurrentRecordType, TappingAssumption DEF keyp, Record, IS_NOEVENT
    <2>2. PressedState /\ tapping_key.count = 0 /\ ~(tapping_key.count > 0)
      BY <1>2 DEF UndecidedKey, PressedState
    <2>3. process_tapping
      BY <1>2 DEF Next, Tick, TickEvent, KeyEvent
    <2>4. Interrupted \/ TimedOut
      <3>1. ~ResetState /\ ~Tapped /\ ~ReleasedState
        BY <2>2 DEF ResetState, Tapped, ReleasedState, PressedState
      <3>2. ~TickIgnored /\ ~StartTap /\ ~RegularKey /\ ~FirstTap /\ ~NestedTap
            /\ ~ReleaseOfEarlierKey
        BY <1>2, <2>1, <3>1 DEF TickIgnored, StartTap, RegularKey, FirstTap, NestedTap,
             ReleaseOfEarlierKey
      <3>3. ~TapRelease /\ ~NextTapKey /\ ~OtherKeyDuringTap /\ ~SequentialTap
            /\ ~OtherKeyAfterTap /\ ~TapForgotten
        BY <3>1 DEF TapRelease, NextTapKey, OtherKeyDuringTap, SequentialTap, OtherKeyAfterTap,
             TapForgotten
      <3>4. QED
        BY <2>3, <3>2, <3>3 DEF process_tapping
    <2>5. \E tk, k : Deferred(tk, k, keyp)
      BY <2>4 DEF Interrupted, TimedOut
    <2>6. QED
      BY <1>2, <2>1, <2>5 DEF Deferred
  <1>3. TypeInv /\ [Next]_vars => [Kept]_vars
    BY <1>2
  <1>4. QED
    BY <1>1, <1>3, PTL DEF Spec, PressDelayed
-----------------------------------------------------------------------------
(* No key and no layer is stuck.                                            *)

(* A key is a tap-hold key, a plain key, or a key with a single action, a   *)
(* modifier or a layer, that is transparent above the default layer.        *)
TapKey(k) == Keymap[0][k].kind \in {"mt", "lt"}
PlainKey(k) == \A l \in Layers : Keymap[l][k].kind \in {"key", "trns"}
FixedKey(k) ==
  /\ Keymap[0][k].kind \in {"mod", "mt", "lt", "mo"}
  /\ \A l \in Layers \ {0} : Keymap[l][k].kind = "trns"
RegularKeymap == \A k \in Keys : PlainKey(k) \/ FixedKey(k)
OneTapKey == \A j, k \in Keys : TapKey(j) /\ TapKey(k) => j = k

(* No press of a tap-hold key waits for another one to be decided. *)
DecidedAtOnce ==
  \/ HOLD_ON_OTHER_KEY_PRESS
  \/ OneTapKey /\ (PERMISSIVE_HOLD => \A k \in Keys : TapKey(k) \/ PlainKey(k))

(* The events process_tapping has taken and not processed, oldest first. *)
Queue ==
  IF running = "event" /\ ~IS_NOEVENT(event) THEN Append(waiting_buffer, event)
  ELSE waiting_buffer

(* The press of a key has been taken out of the queue q and its release has *)
(* not, when h is the set of the keys that are physically down.             *)
Absent(q, k) == \A i \in 1..Len(q) : q[i].key # k
Down(q, h, k) ==
  \/ \E i \in 1..Len(q) :
       /\ q[i].key = k /\ ~q[i].pressed
       /\ \A j \in 1..Len(q) : j < i => q[j].key # k
  \/ Absent(q, k) /\ k \in h

(* The presses and the releases of a key alternate, up to what it does now. *)
Alternates(q, h) ==
  /\ \A i, j \in 1..Len(q) :
       (/\ i < j
        /\ q[i].key = q[j].key
        /\ \A m \in 1..Len(q) : i < m /\ m < j => q[m].key # q[i].key)
       => (q[i].pressed <=> ~q[j].pressed)
  /\ \A i \in 1..Len(q) :
       (\A m \in 1..Len(q) : i < m => q[m].key # q[i].key) => (q[i].pressed <=> q[i].key \in h)

(* Two queues of the same events, whatever their tap states. *)
SameEvents(p, q) ==
  /\ Len(p) = Len(q)
  /\ \A i \in 1..Len(q) : p[i].key = q[i].key /\ p[i].pressed = q[i].pressed

LEMMA SameEventsDown ==
  ASSUME NEW p \in Seq(Record), NEW q \in Seq(Record), NEW h, NEW k, SameEvents(p, q), Down(q, h, k)
  PROVE  Down(p, h, k)
  BY DEF SameEvents, Down, Absent

LEMMA SameEventsAlternate ==
  ASSUME NEW p \in Seq(Record), NEW q \in Seq(Record), NEW h, SameEvents(p, q), Alternates(q, h)
  PROVE  Alternates(p, h)
  <1>1. Len(p) = Len(q) /\ \A i \in 1..Len(q) : p[i].key = q[i].key /\ p[i].pressed = q[i].pressed
    BY DEF SameEvents
  <1>2. QED
    BY <1>1 DEF Alternates

(* The rest of a queue: its records are those of the queue, one further. *)
LEMMA TailRecords ==
  ASSUME NEW q \in Seq(Record), q # <<>>
  PROVE  /\ Tail(q) \in Seq(Record)
         /\ Len(q) \in Nat /\ Len(Tail(q)) = Len(q) - 1 /\ 1 \in 1..Len(q)
         /\ \A i \in 1..(Len(q) - 1) : Tail(q)[i] = q[i + 1]
  OBVIOUS

(* Taking a record out of the queue leaves the other keys down. *)
LEMMA DownTail ==
  ASSUME NEW q \in Seq(Record), q # <<>>, NEW h, NEW k, k # q[1].key, Down(q, h, k)
  PROVE  Down(Tail(q), h, k)
  <1> DEFINE t == Tail(q)
  <1>1. /\ Len(q) \in Nat /\ Len(t) = Len(q) - 1
        /\ \A i \in 1..(Len(q) - 1) : t[i] = q[i + 1]
    BY TailRecords
  <1> HIDE DEF t
  <1>2. CASE Absent(q, k) /\ k \in h
    <2>1. \A i \in 1..Len(t) : i + 1 \in 1..Len(q) /\ t[i] = q[i + 1]
      BY <1>1
    <2>2. QED
      BY <1>2, <2>1 DEF Down, Absent, t
  <1>3. CASE ~(Absent(q, k) /\ k \in h)
    <2>1. PICK i \in 1..Len(q) : /\ q[i].key = k /\ ~q[i].pressed
                                 /\ \A j \in 1..Len(q) : j < i => q[j].key # k
      BY <1>3 DEF Down
    <2>2. i # 1
      BY <2>1
    <2>3. i - 1 \in 1..Len(t) /\ t[i - 1] = q[i]
      BY <1>1, <2>1, <2>2
    <2>4. ASSUME NEW j \in 1..Len(t), j < i - 1 PROVE t[j].key # k
      <3>1. j + 1 \in 1..Len(q) /\ j + 1 < i /\ t[j] = q[j + 1]
        BY <1>1, <2>1, <2>4
      <3>2. QED
        BY <2>1, <3>1
    <2>5. QED
      BY <2>1, <2>3, <2>4 DEF Down, t
  <1>4. QED
    BY <1>2, <1>3

(* A key whose press is the next to be taken out is not down. *)
LEMMA NotDownBeforePress ==
  ASSUME NEW q \in Seq(Record), q # <<>>, NEW h, q[1].pressed
  PROVE  ~Down(q, h, q[1].key)
  <1>1. Len(q) \in Nat /\ 1 \in 1..Len(q)
    BY TailRecords
  <1>2. ASSUME NEW i \in 1..Len(q), q[i].key = q[1].key, ~q[i].pressed,
               \A j \in 1..Len(q) : j < i => q[j].key # q[1].key
        PROVE  FALSE
    <2>1. i = 1 \/ 1 < i
      BY <1>1
    <2>2. QED
      BY <1>1, <1>2, <2>1
  <1>3. QED
    BY <1>1, <1>2 DEF Down, Absent

(* The key whose press is taken out is down. *)
LEMMA DownAfterPress ==
  ASSUME NEW q \in Seq(Record), q # <<>>, NEW h, Alternates(q, h), q[1].pressed
  PROVE  Down(Tail(q), h, q[1].key)
  <1> DEFINE t == Tail(q)
             k == q[1].key
             S == {i \in 1..Len(t) : t[i].key = k}
  <1>1. /\ Len(q) \in Nat /\ Len(t) = Len(q) - 1 /\ 1 \in 1..Len(q)
        /\ \A i \in 1..(Len(q) - 1) : t[i] = q[i + 1]
    BY TailRecords
  <1> HIDE DEF t
  <1>2. CASE S = {}
    <2>1. ASSUME NEW m \in 1..Len(q), 1 < m PROVE q[m].key # q[1].key
      <3>1. m - 1 \in 1..Len(t) /\ t[m - 1] = q[m]
        BY <1>1, <2>1
      <3>2. QED
        BY <3>1, <1>2
    <2>2. k \in h
      BY <1>1, <2>1 DEF Alternates
    <2>3. QED
      BY <1>2, <2>2 DEF Down, Absent, t
  <1>3. CASE S # {}
    <2>1. S \subseteq Nat
      BY <1>1
    <2>2. PICK i \in S : \A j \in S : i =< j
      BY <1>3, <2>1, LeastNatural
    <2>3. i \in 1..Len(t) /\ t[i].key = k /\ i + 1 \in 1..Len(q) /\ t[i] = q[i + 1] /\ 1 < i + 1
      BY <1>1
    <2>4. \A j \in 1..Len(t) : j < i => t[j].key # k
      BY <2>2, <2>3
    <2>5. ASSUME NEW m \in 1..Len(q), 1 < m, m < i + 1 PROVE q[m].key # q[1].key
      <3>1. m - 1 \in 1..Len(t) /\ t[m - 1] = q[m] /\ m - 1 < i
        BY <1>1, <2>3, <2>5
      <3>2. QED
        BY <3>1, <2>4
    <2>6. q[1].pressed <=> ~q[i + 1].pressed
      BY <1>1, <2>3, <2>5 DEF Alternates
    <2>7. ~t[i].pressed
      BY <2>3, <2>6
    <2>8. QED
      BY <2>3, <2>4, <2>7 DEF Down, t
  <1>4. QED
    BY <1>2, <1>3

(* Taking a record out of the queue keeps the order of the rest. *)
LEMMA AlternatesTail ==
  ASSUME NEW q \in Seq(Record), q # <<>>, NEW h, Alternates(q, h)
  PROVE  Alternates(Tail(q), h)
  <1> DEFINE t == Tail(q)
  <1>1. /\ Len(q) \in Nat /\ Len(t) = Len(q) - 1
        /\ \A i \in 1..(Len(q) - 1) : t[i] = q[i + 1]
    BY TailRecords
  <1> HIDE DEF t
  <1>2. \A i \in 1..Len(t) : i + 1 \in 1..Len(q) /\ t[i] = q[i + 1]
    BY <1>1
  <1>3. \A m \in 1..Len(q) : 1 < m => m - 1 \in 1..Len(t) /\ q[m] = t[m - 1]
    BY <1>1
  <1>4. ASSUME NEW i \in 1..Len(t), NEW j \in 1..Len(t), i < j, t[i].key = t[j].key,
               \A m \in 1..Len(t) : i < m /\ m < j => t[m].key # t[i].key
        PROVE  t[i].pressed <=> ~t[j].pressed
    <2>1. i + 1 < j + 1
      BY <1>4
    <2>2. ASSUME NEW m \in 1..Len(q), i + 1 < m, m < j + 1 PROVE q[m].key # q[i + 1].key
      <3>1. m - 1 \in 1..Len(t) /\ q[m] = t[m - 1] /\ i < m - 1 /\ m - 1 < j
        BY <1>3, <2>2
      <3>2. QED
        BY <3>1, <1>2, <1>4
    <2>3. /\ i + 1 \in 1..Len(q) /\ t[i] = q[i + 1]
          /\ j + 1 \in 1..Len(q) /\ t[j] = q[j + 1]
      BY <1>2
    <2>4. q[i + 1].key = q[j + 1].key
      BY <2>3, <1>4
    <2>5. q[i + 1].pressed <=> ~q[j + 1].pressed
      BY <2>1, <2>2, <2>3, <2>4, Zenon DEF Alternates
    <2>6. QED
      BY <2>3, <2>5
  <1>5. ASSUME NEW i \in 1..Len(t), \A m \in 1..Len(t) : i < m => t[m].key # t[i].key
        PROVE  t[i].pressed <=> t[i].key \in h
    <2>1. ASSUME NEW m \in 1..Len(q), i + 1 < m PROVE q[m].key # q[i + 1].key
      <3>1. m - 1 \in 1..Len(t) /\ q[m] = t[m - 1] /\ i < m - 1
        BY <1>3, <2>1
      <3>2. QED
        BY <3>1, <1>2, <1>5
    <2>2. QED
      BY <1>2, <2>1 DEF Alternates
  <1>6. QED
    BY <1>4, <1>5 DEF Alternates, t

(* A new event of a key toggles it, and comes last. *)
LEMMA AppendRecords ==
  ASSUME NEW q \in Seq(Record), NEW e \in Record
  PROVE  /\ Append(q, e) \in Seq(Record)
         /\ Len(q) \in Nat /\ Len(Append(q, e)) = Len(q) + 1
         /\ \A i \in 1..Len(q) : Append(q, e)[i] = q[i]
         /\ Append(q, e)[Len(q) + 1] = e
  OBVIOUS

LEMMA DownAppend ==
  ASSUME NEW q \in Seq(Record), NEW e \in Record, NEW h, NEW g, NEW k,
         e.pressed => e.key \notin h,
         \A j : j # e.key => (j \in g <=> j \in h),
         Down(q, h, k)
  PROVE  Down(Append(q, e), g, k)
  <1> DEFINE p == Append(q, e)
             n == Len(q) + 1
  <1>1. /\ Len(q) \in Nat /\ Len(p) = n /\ p[n] = e /\ n \in 1..Len(p)
        /\ \A i \in 1..Len(q) : p[i] = q[i] /\ i \in 1..Len(p) /\ i < n
        /\ \A i \in 1..Len(p) : i \in 1..Len(q) \/ i = n
    BY AppendRecords
  <1> HIDE DEF p, n
  <1>2. CASE \E i \in 1..Len(q) : /\ q[i].key = k /\ ~q[i].pressed
                                   /\ \A j \in 1..Len(q) : j < i => q[j].key # k
    <2>1. PICK i \in 1..Len(q) : /\ q[i].key = k /\ ~q[i].pressed
                                 /\ \A j \in 1..Len(q) : j < i => q[j].key # k
      BY <1>2
    <2>2. \A j \in 1..Len(p) : j < i => j \in 1..Len(q)
      BY <1>1, <2>1 DEF n
    <2>3. QED
      BY <1>1, <2>1, <2>2 DEF Down, p
  <1>3. CASE Absent(q, k) /\ k \in h
    <2>1. CASE e.key = k
      <3>1. ~e.pressed
        BY <1>3, <2>1
      <3>2. \A j \in 1..Len(p) : j < n => p[j].key # k
        BY <1>1, <1>3 DEF Absent, n
      <3>3. QED
        BY <1>1, <2>1, <3>1, <3>2 DEF Down, p
    <2>2. CASE e.key # k
      <3>1. k \in g
        BY <1>3, <2>2
      <3>2. Absent(p, k)
        BY <1>1, <1>3, <2>2 DEF Absent
      <3>3. QED
        BY <3>1, <3>2 DEF Down, p
    <2>3. QED
      BY <2>1, <2>2
  <1>4. QED
    BY <1>2, <1>3 DEF Down

LEMMA AlternatesAppend ==
  ASSUME NEW q \in Seq(Record), NEW e \in Record, NEW h, NEW g,
         e.pressed <=> e.key \notin h,
         e.pressed <=> e.key \in g,
         \A j : j # e.key => (j \in g <=> j \in h),
         Alternates(q, h)
  PROVE  Alternates(Append(q, e), g)
  <1> DEFINE p == Append(q, e)
             n == Len(q) + 1
  <1>1. /\ Len(q) \in Nat /\ Len(p) = n /\ p[n] = e /\ n \in 1..Len(p) /\ n \in Nat
        /\ \A i \in 1..Len(q) : p[i] = q[i] /\ i \in 1..Len(p) /\ i < n
        /\ \A i \in 1..Len(p) : i \in 1..Len(q) \/ i = n
    BY AppendRecords
  <1> HIDE DEF p, n
  <1>2. ASSUME NEW i \in 1..Len(p), NEW j \in 1..Len(p), i < j, p[i].key = p[j].key,
               \A m \in 1..Len(p) : i < m /\ m < j => p[m].key # p[i].key
        PROVE  p[i].pressed <=> ~p[j].pressed
    <2>1. i \in 1..Len(q)
      BY <1>1, <1>2
    <2>2. CASE j \in 1..Len(q)
      <3>1. /\ q[i].key = q[j].key
            /\ \A m \in 1..Len(q) : i < m /\ m < j => q[m].key # q[i].key
        BY <1>1, <1>2, <2>1, <2>2
      <3>2. q[i].pressed <=> ~q[j].pressed
        BY <1>2, <2>1, <2>2, <3>1, Zenon DEF Alternates
      <3>3. QED
        BY <1>1, <2>1, <2>2, <3>2
    <2>3. CASE j = n
      <3>1. \A m \in 1..Len(q) : i < m => q[m].key # q[i].key
        BY <1>1, <1>2, <2>1, <2>3
      <3>2. q[i].pressed <=> q[i].key \in h
        BY <2>1, <3>1, Zenon DEF Alternates
      <3>3. q[i].key = e.key
        BY <1>1, <1>2, <2>1, <2>3
      <3>4. QED
        BY <1>1, <2>1, <2>3, <3>2, <3>3
    <2>4. QED
      BY <1>1, <2>2, <2>3
  <1>3. ASSUME NEW i \in 1..Len(p), \A m \in 1..Len(p) : i < m => p[m].key # p[i].key
        PROVE  p[i].pressed <=> p[i].key \in g
    <2>1. CASE i = n
      BY <1>1, <2>1
    <2>2. CASE i \in 1..Len(q)
      <3>1. p[i] = q[i] /\ q[i].key # e.key
        BY <1>1, <1>3, <2>2
      <3>2. \A m \in 1..Len(q) : i < m => q[m].key # q[i].key
        BY <1>1, <1>3, <2>2
      <3>3. q[i].pressed <=> q[i].key \in h
        BY <2>2, <3>2, Zenon DEF Alternates
      <3>4. QED
        BY <3>1, <3>3
    <2>3. QED
      BY <1>1, <2>1, <2>2
  <1>4. QED
    BY <1>2, <1>3 DEF Alternates, p

(* The last event may be taken out of order if its key has no other. *)
LEMMA TakenOutOfOrder ==
  ASSUME NEW q \in Seq(Record), NEW e \in Record, NEW h, Absent(q, e.key), Alternates(Append(q, e), h)
  PROVE  /\ Alternates(q, h)
         /\ \A k : k # e.key /\ Down(Append(q, e), h, k) => Down(q, h, k)
  <1> DEFINE p == Append(q, e)
             n == Len(q) + 1
  <1>1. /\ Len(q) \in Nat /\ Len(p) = n /\ p[n] = e /\ n \in 1..Len(p) /\ n \in Nat
        /\ \A i \in 1..Len(q) : p[i] = q[i] /\ i \in 1..Len(p) /\ i < n
        /\ \A i \in 1..Len(p) : i \in 1..Len(q) \/ i = n
    BY AppendRecords
  <1> HIDE DEF p, n
  <1>2. ASSUME NEW i \in 1..Len(q), NEW j \in 1..Len(q), i < j, q[i].key = q[j].key,
               \A m \in 1..Len(q) : i < m /\ m < j => q[m].key # q[i].key
        PROVE  q[i].pressed <=> ~q[j].pressed
    <2>1. \A m \in 1..Len(p) : m < j => m \in 1..Len(q)
      BY <1>1
    <2>2. /\ i \in 1..Len(p) /\ j \in 1..Len(p) /\ p[i].key = p[j].key
          /\ \A m \in 1..Len(p) : i < m /\ m < j => p[m].key # p[i].key
      BY <1>1, <1>2, <2>1
    <2>3. p[i].pressed <=> ~p[j].pressed
      BY <1>2, <2>2, Zenon DEF Alternates, p
    <2>4. QED
      BY <1>1, <2>3
  <1>3. ASSUME NEW i \in 1..Len(q), \A m \in 1..Len(q) : i < m => q[m].key # q[i].key
        PROVE  q[i].pressed <=> q[i].key \in h
    <2>1. i \in 1..Len(p) /\ \A m \in 1..Len(p) : i < m => p[m].key # p[i].key
      BY <1>1, <1>3 DEF Absent
    <2>2. p[i].pressed <=> p[i].key \in h
      BY <2>1, Zenon DEF Alternates, p
    <2>3. QED
      BY <1>1, <2>2
  <1>4. ASSUME NEW k, k # e.key, Down(p, h, k) PROVE Down(q, h, k)
    <2>1. CASE Absent(p, k) /\ k \in h
      BY <1>1, <2>1 DEF Down, Absent
    <2>2. CASE ~(Absent(p, k) /\ k \in h)
      <3>1. PICK i \in 1..Len(p) : /\ p[i].key = k /\ ~p[i].pressed
                                   /\ \A j \in 1..Len(p) : j < i => p[j].key # k
        BY <1>4, <2>2 DEF Down
      <3>2. i \in 1..Len(q)
        BY <1>1, <1>4, <3>1
      <3>3. QED
        BY <1>1, <3>1, <3>2 DEF Down
    <2>3. QED
      BY <2>1, <2>2
  <1>5. QED
    BY <1>2, <1>3, <1>4 DEF Alternates, p

-----------------------------------------------------------------------------
(* What process_record does to the report, in a regular keymap. *)

(* A key with a single action is always looked up on the default layer. *)
LEMMA FixedLayer ==
  ASSUME NEW k \in Keyboard, NEW key \in Keys, FixedKey(key)
  PROVE  /\ layer_switch_get_layer(k, key) = 0
         /\ layer_switch_get_action(k, key) = Keymap[0][key]
  <1> DEFINE opaque == {l \in k.layers \cup {0} : Keymap[l][key].kind # "trns"}
             top == {l \in opaque : \A m \in opaque : m <= l}
  <1>1. k.layers \subseteq Layers
    BY DEF Keyboard
  <1>2. opaque = {0}
    BY <1>1 DEF FixedKey
  <1> HIDE DEF opaque
  <1>3. top = {0}
    BY <1>2
  <1> HIDE DEF top
  <1>4. layer_switch_get_layer(k, key) = IF top = {} THEN 0 ELSE CHOOSE l \in top : TRUE
    BY DEF layer_switch_get_layer, top, opaque
  <1>5. QED
    BY <1>3, <1>4 DEF layer_switch_get_action

(* Tap-hold keys are looked up as such on every layer, plain keys are not. *)
LEMMA RegularKinds ==
  ASSUME RegularKeymap, NEW k \in Keyboard, NEW key \in Keys
  PROVE  /\ PlainKey(key) \/ FixedKey(key)
         /\ ~(PlainKey(key) /\ FixedKey(key))
         /\ TapKey(key) => FixedKey(key) /\ ~PlainKey(key)
         /\ layer_switch_get_action(k, key).kind \in {"mt", "lt"} <=> TapKey(key)
         /\ PlainKey(key) => layer_switch_get_action(k, key).kind \in {"key", "trns"}
  <1>1. 0 \in Layers
    BY TappingAssumption
  <1>2. /\ PlainKey(key) \/ FixedKey(key)
        /\ ~(PlainKey(key) /\ FixedKey(key))
        /\ TapKey(key) => FixedKey(key) /\ ~PlainKey(key)
    BY <1>1 DEF RegularKeymap, PlainKey, FixedKey, TapKey
  <1>3. PlainKey(key) => layer_switch_get_action(k, key).kind \in {"key", "trns"}
    BY LayerType DEF PlainKey, layer_switch_get_action
  <1>4. FixedKey(key) => layer_switch_get_action(k, key) = Keymap[0][key]
    BY FixedLayer
  <1>5. QED
    BY <1>2, <1>3, <1>4 DEF TapKey

LEMMA TapRecords ==
  ASSUME RegularKeymap, NEW k \in Keyboard, NEW r \in Record
  PROVE  is_tap_record(k, r) <=> TapKey(r.key)
  <1>1. r.key \in Keys /\ ~IS_NOEVENT(r)
    BY TappingAssumption DEF Record, IS_NOEVENT
  <1>2. QED
    BY <1>1, RegularKinds DEF is_tap_record

(* The effect of a press or a release on the keyboard state. *)
ActionOf(n, key) == Keymap[n.cache[key]][key]
Processed(k, r, n) ==
  /\ n \in Keyboard
  /\ \A key \in Keys : key # r.key => n.cache[key] = k.cache[key]
  /\ ~r.pressed => n.cache[r.key] = k.cache[r.key]
  /\ FixedKey(r.key) /\ r.pressed => n.cache[r.key] = 0
  /\ r.pressed =>
       /\ n.codes = k.codes \cup TapPart(ActionOf(n, r.key), r.count)
       /\ n.mods = k.mods \cup ModPart(ActionOf(n, r.key), r.count)
       /\ n.layers = k.layers \cup LayerPart(ActionOf(n, r.key), r.count)
  /\ ~r.pressed =>
       /\ n.codes = k.codes \ TapPart(ActionOf(n, r.key), r.count)
       /\ n.mods = k.mods \ ModPart(ActionOf(n, r.key), r.count)
       /\ n.layers = k.layers \ LayerPart(ActionOf(n, r.key), r.count)

LEMMA ProcessRecordEffect ==
  ASSUME NEW k \in Keyboard, NEW r \in Record
  PROVE  Processed(k, r, process_record(k, r))
  <1>0. r.key \in Keys /\ k.cache \in [Keys -> Layers]
    BY DEF Record, Keyboard
  <1>1. PICK a : a = store_or_get_action(k, r)
    OBVIOUS
  <1>2. PICK codes, mods, layers : /\ codes = TapPart(a, r.count)
                                   /\ mods = ModPart(a, r.count)
                                   /\ layers = LayerPart(a, r.count)
    OBVIOUS
  <1>3. PICK n : n = process_record(k, r)
    OBVIOUS
  <1>4. n \in Keyboard
    BY <1>3, ProcessRecordType
  <1>5. CASE r.pressed
    <2>1. PICK l : l = layer_switch_get_layer(k, r.key)
      OBVIOUS
    <2>2. a = Keymap[l][r.key]
      BY <1>1, <1>5, <2>1 DEF store_or_get_action, layer_switch_get_action
    <2>3. PICK u : u = update_source_layers_cache(k, r.key)
      OBVIOUS
    <2>4. /\ u \in Keyboard /\ u.cache = [k.cache EXCEPT ![r.key] = l]
          /\ u.codes = k.codes /\ u.mods = k.mods /\ u.layers = k.layers
      BY <1>0, <2>1, <2>3, CacheType DEF update_source_layers_cache, Keyboard
    <2>5. n = [u EXCEPT !.codes = @ \cup codes, !.mods = @ \cup mods, !.layers = @ \cup layers]
      BY <1>1, <1>2, <1>3, <1>5, <2>3 DEF process_record
    <2>6. /\ n.cache = u.cache /\ n.codes = u.codes \cup codes
          /\ n.mods = u.mods \cup mods /\ n.layers = u.layers \cup layers
      BY <2>4, <2>5 DEF Keyboard
    <2>7. n.cache[r.key] = l /\ \A key \in Keys : key # r.key => n.cache[key] = k.cache[key]
      BY <1>0, <2>4, <2>6
    <2>8. FixedKey(r.key) => l = 0
      BY <1>0, <2>1, FixedLayer
    <2>9. ActionOf(n, r.key) = a
      BY <2>2, <2>7 DEF ActionOf
    <2>10. QED
      BY <1>2, <1>3, <1>4, <1>5, <2>4, <2>6, <2>7, <2>8, <2>9 DEF Processed
  <1>6. CASE ~r.pressed
    <2>1. a = Keymap[k.cache[r.key]][r.key]
      BY <1>1, <1>6 DEF store_or_get_action
    <2>2. n = [k EXCEPT !.codes = @ \ codes, !.mods = @ \ mods, !.layers = @ \ layers]
      BY <1>1, <1>2, <1>3, <1>6 DEF process_record
    <2>3. /\ n.cache = k.cache /\ n.codes = k.codes \ codes
          /\ n.mods = k.mods \ mods /\ n.layers = k.layers \ layers
      BY <2>2 DEF Keyboard
    <2>4. ActionOf(n, r.key) = a
      BY <2>1, <2>3 DEF ActionOf
    <2>5. QED
      BY <1>2, <1>3, <1>4, <1>6, <2>3, <2>4 DEF Processed
  <1>7. QED
    BY <1>5, <1>6

-----------------------------------------------------------------------------
(* Every key, modifier and layer that is on belongs to a key whose release  *)
(* is still to be processed, and will turn it off.  k is the keyboard       *)
(* state, tk the tapping key, q the queue and h the keys that are down.     *)
ZeroCache(k) == \A key \in Keys : FixedKey(key) => k.cache[key] = 0
Registers(k, q, h, key, c) ==
  /\ PlainKey(key) /\ Down(q, h, key)
  /\ ActionOf(k, key).kind = "key" /\ ActionOf(k, key).code = c
Taps(tk, c) == tk.pressed /\ tk.count > 0 /\ Keymap[0][tk.key].code = c
Holds(tk, q, h, key) == FixedKey(key) /\ Down(q, h, key) /\ ~(tk.key = key /\ tk.pressed)
CodesOwned(k, tk, q, h) ==
  \A c \in k.codes : (\E key \in Keys : Registers(k, q, h, key, c)) \/ Taps(tk, c)
ModsOwned(k, tk, q, h) ==
  \A m \in k.mods : \E key \in Keys :
    Holds(tk, q, h, key) /\ Keymap[0][key].kind \in {"mod", "mt"} /\ m \in Keymap[0][key].mods
LayersOwned(k, tk, q, h) ==
  \A l \in k.layers : \E key \in Keys :
    Holds(tk, q, h, key) /\ Keymap[0][key].kind \in {"mo", "lt"} /\ l = Keymap[0][key].layer
Owned(k, tk, q, h) == CodesOwned(k, tk, q, h) /\ ModsOwned(k, tk, q, h)

(* The keys that are down stay down when the queue q becomes p, but for one. *)
StayDown(q, h, p, g, key) == \A j \in Keys : j # key /\ Down(q, h, j) => Down(p, g, j)

(* The keyboard state is left alone: the tapping key changes to one that is *)
(* not down.                                                                *)
LEMMA OwnedUnchanged ==
  ASSUME NEW k, NEW tk, NEW q, NEW h, NEW n, NEW ntk, NEW p, NEW g,
         \A j \in Keys : Down(q, h, j) => Down(p, g, j),
         \A j \in Keys : PlainKey(j) /\ Down(q, h, j) => n.cache[j] = k.cache[j],
         n.codes \subseteq k.codes, n.mods \subseteq k.mods,
         \A c : c \in n.codes /\ Taps(tk, c) => Taps(ntk, c),
         ntk.pressed => (ntk.key = tk.key /\ tk.pressed) \/ ~Down(q, h, ntk.key)
  PROVE  /\ Owned(k, tk, q, h) => Owned(n, ntk, p, g)
         /\ n.layers \subseteq k.layers /\ LayersOwned(k, tk, q, h) => LayersOwned(n, ntk, p, g)
  <1>1. \A key \in Keys : Holds(tk, q, h, key) => Holds(ntk, p, g, key)
    BY DEF Holds
  <1>2. \A key \in Keys : \A c : Registers(k, q, h, key, c) => Registers(n, p, g, key, c)
    BY DEF Registers, ActionOf
  <1>3. CodesOwned(k, tk, q, h) => CodesOwned(n, ntk, p, g)
    BY <1>2 DEF CodesOwned
  <1>4. ModsOwned(k, tk, q, h) => ModsOwned(n, ntk, p, g)
    BY <1>1 DEF ModsOwned
  <1>5. n.layers \subseteq k.layers /\ LayersOwned(k, tk, q, h) => LayersOwned(n, ntk, p, g)
    BY <1>1 DEF LayersOwned
  <1>6. QED
    BY <1>3, <1>4, <1>5 DEF Owned

(* A record of a key that is not being tapped is processed. *)
LEMMA OwnedProcessed ==
  ASSUME RegularKeymap, NEW k \in Keyboard, NEW tk, NEW q, NEW h, NEW ntk, NEW p, NEW g,
         NEW r \in Record, NEW n, Processed(k, r, n), ZeroCache(k),
         r.count = 0, ~(r.pressed /\ TapKey(r.key)),
         StayDown(q, h, p, g, r.key),
         r.pressed => ~Down(q, h, r.key) /\ Down(p, g, r.key),
         \A c : Taps(tk, c) => Taps(ntk, c),
         ntk.pressed => ntk.key = tk.key /\ tk.pressed /\ ntk.key # r.key
  PROVE  /\ Owned(k, tk, q, h) => Owned(n, ntk, p, g)
         /\ LayersOwned(k, tk, q, h) => LayersOwned(n, ntk, p, g)
         /\ ZeroCache(n)
  <1> DEFINE a == ActionOf(n, r.key)
  <1>0. r.key \in Keys /\ (PlainKey(r.key) \/ FixedKey(r.key))
    BY RegularKinds DEF Record
  <1>1. ZeroCache(n)
    BY DEF ZeroCache, Processed
  <1>2. FixedKey(r.key) => a = Keymap[0][r.key]
    BY <1>0, <1>1 DEF ZeroCache, ActionOf
  <1>3. PlainKey(r.key) => a.kind \in {"key", "trns"}
    <2>1. n.cache[r.key] \in Layers
      BY <1>0 DEF Processed, Keyboard
    <2>2. QED
      BY <2>1 DEF PlainKey, ActionOf
  <1>4. \A key \in Keys : key # r.key /\ Holds(tk, q, h, key) => Holds(ntk, p, g, key)
    BY DEF Holds, StayDown
  <1>5. \A key \in Keys : \A c : key # r.key /\ Registers(k, q, h, key, c) => Registers(n, p, g, key, c)
    BY DEF Registers, ActionOf, StayDown, Processed
  <1>6. FixedKey(r.key) /\ r.pressed => Holds(ntk, p, g, r.key) /\ ~TapKey(r.key)
    BY DEF Holds
  <1>7. ASSUME CodesOwned(k, tk, q, h) PROVE CodesOwned(n, ntk, p, g)
    <2> SUFFICES ASSUME NEW c \in n.codes
                 PROVE  (\E key \in Keys : Registers(n, p, g, key, c)) \/ Taps(ntk, c)
      BY DEF CodesOwned
    <2>1. CASE c \in k.codes /\ Taps(tk, c)
      BY <2>1
    <2>2. CASE c \in k.codes /\ ~Taps(tk, c)
      <3>1. PICK key \in Keys : Registers(k, q, h, key, c)
        BY <1>7, <2>2 DEF CodesOwned
      <3>2. CASE key # r.key
        BY <1>5, <3>1, <3>2
      <3>3. CASE key = r.key
        <4>1. PlainKey(r.key)
          BY <3>1, <3>3 DEF Registers
        <4>2. ~r.pressed
          BY <3>1, <3>3 DEF Registers
        <4>3. n.cache[r.key] = k.cache[r.key]
          BY <4>2 DEF Processed
        <4>4. a.kind = "key" /\ a.code = c
          BY <3>1, <3>3, <4>3 DEF Registers, ActionOf
        <4>5. c \in TapPart(a, r.count)
          BY <4>4 DEF TapPart
        <4>6. QED
          BY <4>2, <4>5 DEF Processed
      <3>4. QED
        BY <3>2, <3>3
    <2>3. CASE c \notin k.codes
      <3>1. r.pressed /\ c \in TapPart(a, r.count)
        BY <2>3 DEF Processed
      <3>2. a.kind = "key" /\ c = a.code
        BY <3>1 DEF TapPart
      <3>3. PlainKey(r.key)
        BY <1>0, <1>2, <3>2 DEF FixedKey
      <3>4. Registers(n, p, g, r.key, c)
        BY <3>1, <3>2, <3>3 DEF Registers
      <3>5. QED
        BY <1>0, <3>4
    <2>4. QED
      BY <2>1, <2>2, <2>3
  <1>8. ASSUME ModsOwned(k, tk, q, h) PROVE ModsOwned(n, ntk, p, g)
    <2> SUFFICES ASSUME NEW m \in n.mods
                 PROVE  \E key \in Keys : /\ Holds(ntk, p, g, key)
                                          /\ Keymap[0][key].kind \in {"mod", "mt"}
                                          /\ m \in Keymap[0][key].mods
      BY DEF ModsOwned
    <2>1. CASE m \in k.mods
      <3>1. PICK key \in Keys : /\ Holds(tk, q, h, key)
                                /\ Keymap[0][key].kind \in {"mod", "mt"}
                                /\ m \in Keymap[0][key].mods
        BY <1>8, <2>1 DEF ModsOwned
      <3>2. CASE key # r.key
        BY <1>4, <3>1, <3>2
      <3>3. CASE key = r.key
        <4>1. FixedKey(r.key) /\ ~r.pressed
          BY <3>1, <3>3 DEF Holds
        <4>2. m \in ModPart(a, r.count)
          BY <1>2, <3>1, <3>3, <4>1 DEF ModPart
        <4>3. QED
          BY <4>1, <4>2 DEF Processed
      <3>4. QED
        BY <3>2, <3>3
    <2>2. CASE m \notin k.mods
      <3>1. r.pressed /\ m \in ModPart(a, r.count)
        BY <2>2 DEF Processed
      <3>2. a.kind \in {"mod", "mt"} /\ m \in a.mods
        BY <3>1 DEF ModPart
      <3>3. FixedKey(r.key)
        BY <1>0, <1>3, <3>2
      <3>4. QED
        BY <1>0, <1>2, <1>6, <3>1, <3>2, <3>3
    <2>3. QED
      BY <2>1, <2>2
  <1>9. ASSUME LayersOwned(k, tk, q, h) PROVE LayersOwned(n, ntk, p, g)
    <2> SUFFICES ASSUME NEW l \in n.layers
                 PROVE  \E key \in Keys : /\ Holds(ntk, p, g, key)
                                          /\ Keymap[0][key].kind \in {"mo", "lt"}
                                          /\ l = Keymap[0][key].layer
      BY DEF LayersOwned
    <2>1. CASE l \in k.layers
      <3>1. PICK key \in Keys : /\ Holds(tk, q, h, key)
                                /\ Keymap[0][key].kind \in {"mo", "lt"}
                                /\ l = Keymap[0][key].layer
        BY <1>9, <2>1 DEF LayersOwned
      <3>2. CASE key # r.key
        BY <1>4, <3>1, <3>2
      <3>3. CASE key = r.key
        <4>1. FixedKey(r.key) /\ ~r.pressed
          BY <3>1, <3>3 DEF Holds
        <4>2. l \in LayerPart(a, r.count)
          BY <1>2, <3>1, <3>3, <4>1 DEF LayerPart
        <4>3. QED
          BY <4>1, <4>2 DEF Processed
      <3>4. QED
        BY <3>2, <3>3
    <2>2. CASE l \notin k.layers
      <3>1. r.pressed /\ l \in LayerPart(a, r.count)
        BY <2>2 DEF Processed
      <3>2. a.kind \in {"mo", "lt"} /\ l = a.layer
        BY <3>1 DEF LayerPart
      <3>3. FixedKey(r.key)
        BY <1>0, <1>3, <3>2
      <3>4. QED
        BY <1>0, <1>2, <1>6, <3>1, <3>2, <3>3
    <2>3. QED
      BY <2>1, <2>2
  <1>10. QED
    BY <1>1, <1>7, <1>8, <1>9 DEF Owned

(* A tap-hold key is pressed as tapped: its code is on while it is the       *)
(* tapping key.                                                              *)
LEMMA OwnedTapped ==
  ASSUME RegularKeymap, NEW k \in Keyboard, NEW tk, NEW q, NEW h, NEW ntk, NEW p, NEW g,
         NEW r \in Record, NEW n, Processed(k, r, n), ZeroCache(k),
         r.pressed, r.count > 0, TapKey(r.key),
         ntk.pressed, ntk.count > 0, ntk.key = r.key,
         ~(tk.pressed /\ tk.count > 0),
         (tk.pressed /\ tk.key = r.key) \/ ~Down(q, h, r.key),
         StayDown(q, h, p, g, r.key)
  PROVE  /\ Owned(k, tk, q, h) => Owned(n, ntk, p, g)
         /\ LayersOwned(k, tk, q, h) => LayersOwned(n, ntk, p, g)
         /\ ZeroCache(n)
  <1> DEFINE a == ActionOf(n, r.key)
  <1>0. r.key \in Keys /\ FixedKey(r.key) /\ ~PlainKey(r.key)
    BY RegularKinds DEF Record
  <1>1. ZeroCache(n)
    BY DEF ZeroCache, Processed
  <1>2. a = Keymap[0][r.key]
    BY <1>0, <1>1 DEF ZeroCache, ActionOf
  <1>3. TapPart(a, r.count) = {Keymap[0][r.key].code} /\ ModPart(a, r.count) = {}
        /\ LayerPart(a, r.count) = {}
    BY <1>2 DEF TapPart, ModPart, LayerPart, TapKey, Record
  <1>4. \A key \in Keys : Holds(tk, q, h, key) => Holds(ntk, p, g, key)
    BY DEF Holds, StayDown
  <1>5. \A key \in Keys : \A c : Registers(k, q, h, key, c) => Registers(n, p, g, key, c)
    BY <1>0 DEF Registers, ActionOf, StayDown, Processed
  <1>6. /\ n.codes = k.codes \cup {Keymap[0][r.key].code} /\ n.mods = k.mods
        /\ n.layers = k.layers
    BY <1>3 DEF Processed
  <1>7. \A c : ~Taps(tk, c)
    BY DEF Taps
  <1>8. Taps(ntk, Keymap[0][r.key].code)
    BY DEF Taps
  <1>9. CodesOwned(k, tk, q, h) => CodesOwned(n, ntk, p, g)
    BY <1>5, <1>6, <1>7, <1>8 DEF CodesOwned
  <1>10. ModsOwned(k, tk, q, h) => ModsOwned(n, ntk, p, g)
    BY <1>4, <1>6 DEF ModsOwned
  <1>11. LayersOwned(k, tk, q, h) => LayersOwned(n, ntk, p, g)
    BY <1>4, <1>6 DEF LayersOwned
  <1>12. QED
    BY <1>1, <1>9, <1>10, <1>11 DEF Owned

(* An undecided tap-hold key is taken as held: its modifiers or its layer    *)
(* are on until its release.                                                 *)
LEMMA OwnedHeld ==
  ASSUME RegularKeymap, NEW k \in Keyboard, NEW tk, NEW q, NEW h, NEW ntk, NEW p, NEW g,
         NEW r \in Record, NEW n, Processed(k, r, n), ZeroCache(k),
         r.pressed, r.count = 0, TapKey(r.key),
         tk.key = r.key, tk.pressed, tk.count = 0, ~ntk.pressed,
         \A j \in Keys : Down(q, h, j) => Down(p, g, j),
         Down(q, h, r.key)
  PROVE  /\ Owned(k, tk, q, h) => Owned(n, ntk, p, g)
         /\ LayersOwned(k, tk, q, h) => LayersOwned(n, ntk, p, g)
         /\ ZeroCache(n)
  <1> DEFINE a == ActionOf(n, r.key)
  <1>0. r.key \in Keys /\ FixedKey(r.key) /\ ~PlainKey(r.key)
    BY RegularKinds DEF Record
  <1>1. ZeroCache(n)
    BY DEF ZeroCache, Processed
  <1>2. a = Keymap[0][r.key]
    BY <1>0, <1>1 DEF ZeroCache, ActionOf
  <1>3. /\ TapPart(a, r.count) = {}
        /\ \A m \in ModPart(a, r.count) : a.kind \in {"mod", "mt"} /\ m \in a.mods
        /\ \A l \in LayerPart(a, r.count) : a.kind \in {"mo", "lt"} /\ l = a.layer
    BY <1>2 DEF TapPart, ModPart, LayerPart, TapKey
  <1>4. \A key \in Keys : Holds(tk, q, h, key) => Holds(ntk, p, g, key)
    BY DEF Holds
  <1>5. \A key \in Keys : \A c : Registers(k, q, h, key, c) => Registers(n, p, g, key, c)
    BY <1>0 DEF Registers, ActionOf, Processed
  <1>6. Holds(ntk, p, g, r.key)
    BY <1>0 DEF Holds
  <1>7. /\ n.codes = k.codes /\ n.mods = k.mods \cup ModPart(a, r.count)
        /\ n.layers = k.layers \cup LayerPart(a, r.count)
    BY <1>3 DEF Processed
  <1>8. \A c : ~Taps(tk, c)
    BY DEF Taps
  <1>9. CodesOwned(k, tk, q, h) => CodesOwned(n, ntk, p, g)
    BY <1>5, <1>7, <1>8 DEF CodesOwned
  <1> HIDE DEF a
  <1>10. ASSUME ModsOwned(k, tk, q, h) PROVE ModsOwned(n, ntk, p, g)
    BY <1>10, <1>0, <1>2, <1>3, <1>4, <1>6, <1>7 DEF ModsOwned
  <1>11. ASSUME LayersOwned(k, tk, q, h) PROVE LayersOwned(n, ntk, p, g)
    BY <1>11, <1>0, <1>2, <1>3, <1>4, <1>6, <1>7 DEF LayersOwned
  <1>12. QED
    BY <1>1, <1>9, <1>10, <1>11 DEF Owned

(* The tapped key is released: its code is off. *)
LEMMA OwnedTapReleased ==
  ASSUME RegularKeymap, NEW k \in Keyboard, NEW tk, NEW q, NEW h, NEW ntk, NEW p, NEW g,
         NEW r \in Record, NEW n, Processed(k, r, n), ZeroCache(k),
         ~r.pressed, r.count > 0, TapKey(r.key), tk.key = r.key, tk.pressed,
         ntk.pressed => ~Down(q, h, ntk.key),
         StayDown(q, h, p, g, r.key)
  PROVE  /\ Owned(k, tk, q, h) => Owned(n, ntk, p, g)
         /\ LayersOwned(k, tk, q, h) => LayersOwned(n, ntk, p, g)
         /\ ZeroCache(n)
  <1> DEFINE a == ActionOf(n, r.key)
  <1>0. r.key \in Keys /\ FixedKey(r.key) /\ ~PlainKey(r.key)
    BY RegularKinds DEF Record
  <1>1. ZeroCache(n)
    BY DEF ZeroCache, Processed
  <1>2. a = Keymap[0][r.key]
    BY <1>0, <1>1 DEF ZeroCache, ActionOf
  <1>3. TapPart(a, r.count) = {Keymap[0][r.key].code}
    BY <1>2 DEF TapPart, TapKey
  <1>4. \A key \in Keys : Holds(tk, q, h, key) => Holds(ntk, p, g, key)
    BY DEF Holds, StayDown
  <1>5. \A key \in Keys : \A c : Registers(k, q, h, key, c) => Registers(n, p, g, key, c)
    BY <1>0 DEF Registers, ActionOf, StayDown, Processed
  <1>6. /\ n.codes = k.codes \ {Keymap[0][r.key].code} /\ n.mods \subseteq k.mods
        /\ n.layers \subseteq k.layers
    BY <1>3 DEF Processed
  <1>7. \A c \in n.codes : ~Taps(tk, c)
    BY <1>6 DEF Taps
  <1>8. CodesOwned(k, tk, q, h) => CodesOwned(n, ntk, p, g)
    BY <1>5, <1>6, <1>7 DEF CodesOwned
  <1>9. ModsOwned(k, tk, q, h) => ModsOwned(n, ntk, p, g)
    BY <1>4, <1>6 DEF ModsOwned
  <1>10. LayersOwned(k, tk, q, h) => LayersOwned(n, ntk, p, g)
    BY <1>4, <1>6 DEF LayersOwned
  <1>11. QED
    BY <1>1, <1>8, <1>9, <1>10 DEF Owned

-----------------------------------------------------------------------------
(* The inductive invariant.  Of the records that wait, only the last one may *)
(* be a press of a tap-hold key.                                             *)
Calm(r) == r.count = 0 /\ ~(r.pressed /\ TapKey(r.key))

(* Behind an undecided key wait events of other keys within its term, and a  *)
(* release of a plain key only behind its press.                             *)
WaitsBehind(q, i, tk) ==
  /\ Calm(q[i])
  /\ q[i].key # tk.key
  /\ WITHIN_TAPPING_TERM(q[i], tk)
  /\ HOLD_ON_OTHER_KEY_PRESS => ~q[i].pressed
  /\ PlainKey(q[i].key) /\ ~q[i].pressed =>
       \E j \in 1..Len(q) : j < i /\ q[j].key = q[i].key /\ q[j].pressed
UndecidedQueue(q, tk) == \A i \in 1..Len(q) : WaitsBehind(q, i, tk)

(* Once no key is undecided, what waited is processed up to the event that   *)
(* decided: the release of the key if it was tapped.                         *)
DecidedQueue(q, tk) ==
  /\ \A i \in 1..Len(q) : i < Len(q) => Calm(q[i]) /\ q[i].key # tk.key
  /\ q # <<>> =>
       IF IS_NOEVENT(tk) THEN q[Len(q)].count = 0
       ELSE tk.pressed /\ q[Len(q)].key = tk.key /\ ~q[Len(q)].pressed

Undec(tk) == ~IS_NOEVENT(tk) /\ tk.pressed /\ tk.count = 0
PhaseOK(q, tk) ==
  /\ ~IS_NOEVENT(tk) => TapKey(tk.key)
  /\ Undec(tk) => UndecidedQueue(q, tk)
  /\ ~Undec(tk) => DecidedQueue(q, tk)
  /\ tk.pressed /\ tk.count = 1 => q # <<>>

TapInv ==
  /\ TypeInv
  /\ event.count = 0
  /\ PhaseOK(waiting_buffer, tapping_key)
  /\ running # "buffer" /\ waiting_buffer # <<>> => Undec(tapping_key)
  /\ ZeroCache(kb)
  /\ Alternates(Queue, held)
  /\ tapping_key.pressed => Down(Queue, held, tapping_key.key)
  /\ Owned(kb, tapping_key, Queue, held)

(* What a step keeps: the invariant, and the layers unless the buffer        *)
(* overflows.                                                                *)
Room == running = "event" => ~BufferFull
LayersKept ==
  Room /\ LayersOwned(kb, tapping_key, Queue, held) => LayersOwned(kb, tapping_key, Queue, held)'

(* The record process_tapping works on heads the queue, but for an event     *)
(* that finds others waiting.                                                *)
LEMMA QueueHead ==
  ASSUME TypeInv, running # "idle", ~IS_NOEVENT(keyp)
  PROVE  /\ keyp \in Record /\ keyp.key \in Keys
         /\ waiting_buffer \in Seq(Record)
         /\ Queue \in Seq(Record) /\ Queue # <<>>
         /\ running = "event" => keyp = event /\ Queue = Append(waiting_buffer, event)
         /\ running # "event" => Queue = waiting_buffer /\ waiting_buffer # <<>> /\ keyp = waiting_buffer[1]
         /\ (running = "event" => waiting_buffer = <<>>) => Queue[1] = keyp
  <1>1. /\ waiting_buffer \in Seq(Record) /\ running \in {"idle", "event", "buffer"}
        /\ running = "buffer" => waiting_buffer # <<>>
    BY DEF TypeInv, TypeOK
  <1>2. keyp \in Record /\ keyp.key \in Keys
    BY CurrentRecordType DEF Record
  <1>3. CASE running = "event"
    <2>1. keyp = event /\ Queue = Append(waiting_buffer, event)
      BY <1>3 DEF keyp, Queue
    <2>2. QED
      BY <1>1, <1>2, <1>3, <2>1
  <1>4. CASE running = "buffer"
    <2>1. keyp = waiting_buffer[1] /\ Queue = waiting_buffer
      BY <1>4 DEF keyp, Queue
    <2>2. QED
      BY <1>1, <1>2, <1>4, <2>1
  <1>5. QED
    BY <1>1, <1>3, <1>4

LEMMA QueueType ==
  ASSUME TypeInv
  PROVE  Queue \in Seq(Record) /\ waiting_buffer \in Seq(Record)
  <1>1. waiting_buffer \in Seq(Record)
    BY DEF TypeInv, TypeOK
  <1>2. ~IS_NOEVENT(event) => event \in Record
    BY DEF TypeInv, TypeOK, IS_NOEVENT, MAKE_TICK_EVENT, MAKE_KEYEVENT
  <1>3. QED
    BY <1>1, <1>2, AppendRecords DEF Queue

LEMMA NoRecordFacts ==
  /\ IS_NOEVENT(NoRecord) /\ NoRecord.key = NoKey /\ ~NoRecord.pressed /\ NoRecord.count = 0
  /\ ~Undec(NoRecord)
  BY DEF NoRecord, MAKE_TICK_EVENT, MAKE_KEYEVENT, IS_NOEVENT, Undec

(* process_tapping returned true, in order. *)
LEMMA ConsumedKept ==
  ASSUME TapInv, running # "idle", ~IS_NOEVENT(keyp),
         running = "event" => waiting_buffer = <<>>,
         NEW tk \in Record \cup {NoRecord}, NEW k \in Keyboard,
         Consumed(tk, k, waiting_buffer),
         PhaseOK(Tail(Queue), tk), ZeroCache(k),
         tk.pressed => Down(Tail(Queue), held, tk.key),
         Owned(k, tk, Tail(Queue), held),
         LayersOwned(kb, tapping_key, Queue, held) => LayersOwned(k, tk, Tail(Queue), held)
  PROVE  TapInv' /\ LayersKept
  <1>0. TypeInv
    BY DEF TapInv
  <1>1. TypeInv'
    BY <1>0, ConsumedType DEF TypeInv, TypeOK
  <1>2. Queue \in Seq(Record) /\ Queue # <<>> /\ waiting_buffer \in Seq(Record)
    BY <1>0, QueueHead
  <1>3. waiting_buffer' = Tail(Queue)
    <2>1. CASE running = "event"
      <3>1. Queue = <<event>> /\ waiting_buffer' = <<>>
        BY <1>0, <2>1, QueueHead DEF Consumed
      <3>2. QED
        BY <3>1
    <2>2. CASE running # "event"
      BY <1>0, <2>2, QueueHead DEF Consumed
    <2>3. QED
      BY <2>1, <2>2
  <1>4. /\ tapping_key' = tk /\ kb' = k /\ event' = NoRecord /\ held' = held
        /\ running' = IF waiting_buffer' = <<>> THEN "idle" ELSE "buffer"
    BY DEF Consumed
  <1>5. Queue' = Tail(Queue)
    BY <1>3, <1>4 DEF Queue
  <1>6. Alternates(Queue', held')
    BY <1>2, <1>4, <1>5, AlternatesTail DEF TapInv
  <1>7. event'.count = 0
    BY <1>4, NoRecordFacts
  <1>8. PhaseOK(waiting_buffer', tapping_key') /\ ZeroCache(kb') /\ Owned(kb', tapping_key', Queue', held')
    BY <1>3, <1>4, <1>5
  <1>9. tapping_key'.pressed => Down(Queue', held', tapping_key'.key)
    BY <1>4, <1>5
  <1>10. TapInv'
    BY <1>1, <1>4, <1>6, <1>7, <1>8, <1>9 DEF TapInv
  <1>11. LayersKept
    BY <1>4, <1>5 DEF LayersKept
  <1>12. QED
    BY <1>10, <1>11

(* process_tapping returned false. *)
LEMMA DeferredKept ==
  ASSUME TapInv, running # "idle",
         NEW tk \in Record \cup {NoRecord}, NEW k \in Keyboard, NEW r \in Events,
         ~IS_NOEVENT(keyp) => r \in Record,
         r.key = keyp.key, r.pressed = keyp.pressed,
         Deferred(tk, k, r),
         running = "event" /\ IS_NOEVENT(keyp) => PhaseOK(waiting_buffer, tk),
         running = "event" /\ ~IS_NOEVENT(keyp) => PhaseOK(Append(waiting_buffer, r), tk),
         running = "buffer" => PhaseOK([waiting_buffer EXCEPT ![1] = r], tk) /\ Undec(tk),
         ZeroCache(k),
         tk.pressed => Down(Queue, held, tk.key),
         Owned(k, tk, Queue, held),
         LayersOwned(kb, tapping_key, Queue, held) => LayersOwned(k, tk, Queue, held)
  PROVE  TapInv' /\ LayersKept
  <1>0. TypeInv /\ waiting_buffer \in Seq(Record) /\ Queue \in Seq(Record)
    BY QueueType DEF TapInv
  <1>1. running = "buffer" => r \in Record /\ ~IS_NOEVENT(keyp)
    <2>1. running = "buffer" => keyp \in Record
      BY <1>0, CurrentRecordType
    <2>2. QED
      BY <2>1, TappingAssumption DEF Record, IS_NOEVENT
  <1>2. IS_NOEVENT(r) <=> IS_NOEVENT(keyp)
    BY DEF IS_NOEVENT
  <1>3. TypeInv'
    BY <1>0, <1>1, <1>2, DeferredType
  <1>4. event' = NoRecord /\ held' = held /\ event'.count = 0 /\ Queue' = waiting_buffer'
    BY NoRecordFacts DEF Deferred, Queue
  <1>5. CASE running = "event" /\ ~IS_NOEVENT(r) /\ BufferFull
    <2>1. /\ waiting_buffer' = <<>> /\ running' = "idle" /\ tapping_key' = NoRecord
          /\ kb' = clear_keyboard(k)
      BY <1>5 DEF Deferred
    <2>2. PhaseOK(<<>>, NoRecord)
      BY NoRecordFacts DEF PhaseOK, DecidedQueue
    <2>3. kb'.codes = {} /\ kb'.mods = {} /\ ZeroCache(kb')
      BY <2>1 DEF clear_keyboard, Keyboard, ZeroCache
    <2>4. Owned(kb', tapping_key', Queue', held')
      BY <2>3 DEF Owned, CodesOwned, ModsOwned
    <2>5. Alternates(<<>>, held)
      BY DEF Alternates
    <2>6. TapInv'
      BY <1>3, <1>4, <2>1, <2>2, <2>3, <2>4, <2>5, NoRecordFacts DEF TapInv
    <2>7. QED
      BY <1>5, <2>6 DEF LayersKept, Room
  <1>6. CASE ~(running = "event" /\ ~IS_NOEVENT(r) /\ BufferFull)
    <2>1. tapping_key' = tk /\ kb' = k
      BY <1>6 DEF Deferred
    <2>2. /\ PhaseOK(waiting_buffer', tk)
          /\ running' # "buffer" /\ waiting_buffer' # <<>> => Undec(tk)
          /\ SameEvents(Queue', Queue)
      <3>1. CASE running = "event" /\ IS_NOEVENT(r)
        <4>1. /\ waiting_buffer' = waiting_buffer
              /\ running' = IF waiting_buffer = <<>> THEN "idle" ELSE "buffer"
          BY <3>1 DEF Deferred
        <4>2. Queue = waiting_buffer
          BY <3>1, <1>2 DEF Queue, keyp
        <4>3. QED
          BY <1>2, <1>4, <3>1, <4>1, <4>2 DEF SameEvents
      <3>2. CASE running = "event" /\ ~IS_NOEVENT(r)
        <4>1. waiting_buffer' = Append(waiting_buffer, r) /\ running' = "buffer"
          BY <3>2, <1>6 DEF Deferred
        <4>2. /\ Queue = Append(waiting_buffer, event) /\ keyp = event
              /\ event \in Record /\ r \in Record
          BY <1>0, <1>2, <3>2, QueueHead
        <4>3. Len(Queue') = Len(Queue) /\ Len(Queue) = Len(waiting_buffer) + 1
          BY <1>0, <1>4, <4>1, <4>2, AppendRecords
        <4>4. ASSUME NEW i \in 1..Len(Queue)
              PROVE  Queue'[i].key = Queue[i].key /\ Queue'[i].pressed = Queue[i].pressed
          <5>1. CASE i \in 1..Len(waiting_buffer)
            BY <1>0, <1>4, <4>1, <4>2, <5>1, AppendRecords
          <5>2. CASE i = Len(waiting_buffer) + 1
            BY <1>0, <1>4, <4>1, <4>2, <5>2, AppendRecords
          <5>3. QED
            BY <1>0, <4>3, <5>1, <5>2
        <4>5. QED
          BY <1>2, <3>2, <4>1, <4>3, <4>4 DEF SameEvents
      <3>3. CASE running = "buffer"
        <4>1. waiting_buffer' = [waiting_buffer EXCEPT ![1] = r] /\ running' = "idle"
          BY <3>3 DEF Deferred
        <4>2. /\ Queue = waiting_buffer /\ keyp = waiting_buffer[1]
          BY <1>0, <1>1, <3>3, QueueHead
        <4>3. SameEvents([waiting_buffer EXCEPT ![1] = r], waiting_buffer)
          BY <1>0, <4>2 DEF SameEvents
        <4>4. QED
          BY <1>4, <3>3, <4>1, <4>2, <4>3
      <3>4. QED
        BY <1>0, <3>1, <3>2, <3>3 DEF TypeInv, TypeOK
    <2>3. Queue' \in Seq(Record)
      BY <1>3, <1>4 DEF TypeInv, TypeOK
    <2>4. \A j : Down(Queue, held, j) => Down(Queue', held, j)
      BY <1>0, <2>2, <2>3, SameEventsDown
    <2>5. Alternates(Queue', held')
      BY <1>0, <1>4, <2>2, <2>3, SameEventsAlternate DEF TapInv
    <2>6. Owned(k, tk, Queue', held)
          /\ (LayersOwned(k, tk, Queue, held) => LayersOwned(k, tk, Queue', held))
      BY <2>4, OwnedUnchanged
    <2>7. TapInv'
      <3>1. tapping_key'.pressed => Down(Queue', held', tapping_key'.key)
        BY <1>4, <2>1, <2>4
      <3>2. PhaseOK(waiting_buffer', tapping_key') /\ ZeroCache(kb')
            /\ Owned(kb', tapping_key', Queue', held')
            /\ (running' # "buffer" /\ waiting_buffer' # <<>> => Undec(tapping_key'))
        BY <1>4, <2>1, <2>2, <2>6
      <3>3. QED
        BY <1>3, <1>4, <2>5, <3>1, <3>2 DEF TapInv
    <2>8. LayersKept
      BY <1>4, <2>1, <2>6 DEF LayersKept
    <2>9. QED
      BY <2>7, <2>8
  <1>7. QED
    BY <1>5, <1>6

-----------------------------------------------------------------------------
(* The parts of the invariant that every branch uses. *)
LEMMA InvFacts ==
  ASSUME TapInv
  PROVE  /\ TypeInv /\ kb \in Keyboard /\ ZeroCache(kb) /\ waiting_buffer \in Seq(Record)
         /\ running \in {"idle", "event", "buffer"}
         /\ running = "buffer" => waiting_buffer # <<>>
         /\ tapping_key \in Record \cup {NoRecord}
         /\ IS_NOEVENT(tapping_key) => tapping_key = NoRecord
         /\ ~IS_NOEVENT(tapping_key) => /\ tapping_key \in Record /\ tapping_key.key \in Keys
                                        /\ TapKey(tapping_key.key)
         /\ Undec(tapping_key) => UndecidedQueue(waiting_buffer, tapping_key)
         /\ ~Undec(tapping_key) => DecidedQueue(waiting_buffer, tapping_key)
         /\ ~Undec(tapping_key) /\ running # "buffer" => waiting_buffer = <<>>
         /\ running = "event" => keyp.count = 0
  <1>1. /\ TypeInv /\ kb \in Keyboard /\ ZeroCache(kb) /\ waiting_buffer \in Seq(Record)
        /\ running \in {"idle", "event", "buffer"}
        /\ running = "buffer" => waiting_buffer # <<>>
        /\ tapping_key \in Record \cup {NoRecord}
    BY DEF TapInv, TypeInv, TypeOK
  <1>2. /\ Undec(tapping_key) => UndecidedQueue(waiting_buffer, tapping_key)
        /\ ~Undec(tapping_key) => DecidedQueue(waiting_buffer, tapping_key)
        /\ ~Undec(tapping_key) /\ running # "buffer" => waiting_buffer = <<>>
        /\ ~IS_NOEVENT(tapping_key) => TapKey(tapping_key.key)
    BY DEF TapInv, PhaseOK
  <1>3. /\ IS_NOEVENT(tapping_key) => tapping_key = NoRecord
        /\ ~IS_NOEVENT(tapping_key) => tapping_key \in Record /\ tapping_key.key \in Keys
    BY <1>1, NoRecordFacts, TappingAssumption DEF IS_NOEVENT, Record
  <1>4. running = "event" => keyp.count = 0
    BY DEF TapInv, keyp
  <1>5. QED
    BY <1>1, <1>2, <1>3, <1>4

(* Taking the head out of the queue. *)
LEMMA HeadTaken ==
  ASSUME TapInv, running # "idle", ~IS_NOEVENT(keyp), running = "event" => waiting_buffer = <<>>
  PROVE  /\ Queue \in Seq(Record) /\ Queue # <<>> /\ Queue[1] = keyp
         /\ StayDown(Queue, held, Tail(Queue), held, keyp.key)
         /\ keyp.pressed => ~Down(Queue, held, keyp.key) /\ Down(Tail(Queue), held, keyp.key)
  <1>1. TypeInv /\ Alternates(Queue, held)
    BY DEF TapInv
  <1>2. Queue \in Seq(Record) /\ Queue # <<>> /\ Queue[1] = keyp
    BY <1>1, QueueHead
  <1>3. StayDown(Queue, held, Tail(Queue), held, keyp.key)
    BY <1>2, DownTail DEF StayDown
  <1>4. keyp.pressed => ~Down(Queue, held, keyp.key) /\ Down(Tail(Queue), held, keyp.key)
    BY <1>1, <1>2, NotDownBeforePress, DownAfterPress
  <1>5. QED
    BY <1>2, <1>3, <1>4

(* What waits when no key is undecided. *)
LEMMA DecidedHead ==
  ASSUME TapInv, running # "idle", ~IS_NOEVENT(keyp), ~Undec(tapping_key)
  PROVE  /\ running = "event" => waiting_buffer = <<>> /\ Tail(Queue) = <<>>
         /\ \/ Calm(keyp) /\ keyp.key # tapping_key.key
            \/ Tail(Queue) = <<>>
         /\ DecidedQueue(Tail(Queue), tapping_key)
         /\ IS_NOEVENT(tapping_key) => keyp.count = 0
         /\ running # "event" /\ ~IS_NOEVENT(tapping_key) =>
              /\ tapping_key.pressed
              /\ \/ Calm(keyp) /\ keyp.key # tapping_key.key /\ Tail(Queue) # <<>>
                 \/ keyp.key = tapping_key.key /\ ~keyp.pressed /\ Tail(Queue) = <<>>
  <1>1. TypeInv /\ DecidedQueue(waiting_buffer, tapping_key) /\ waiting_buffer \in Seq(Record)
    BY InvFacts
  <1>2. CASE running = "event"
    <2>1. waiting_buffer = <<>> /\ keyp.count = 0
      BY <1>2, InvFacts
    <2>2. Queue = <<event>>
      BY <1>1, <1>2, <2>1, QueueHead
    <2>3. Tail(Queue) = <<>>
      BY <2>2
    <2>4. QED
      BY <1>2, <2>1, <2>3 DEF DecidedQueue
  <1>3. CASE running # "event"
    <2> DEFINE q == waiting_buffer
               t == Tail(q)
    <2>1. q # <<>> /\ Queue = q /\ keyp = q[1]
      BY <1>1, <1>3, QueueHead
    <2>2. /\ t \in Seq(Record) /\ Len(q) \in Nat /\ Len(t) = Len(q) - 1 /\ 1 \in 1..Len(q)
          /\ \A i \in 1..(Len(q) - 1) : t[i] = q[i + 1]
      BY <1>1, <2>1, TailRecords
    <2>3. /\ \A i \in 1..Len(q) : i < Len(q) => Calm(q[i]) /\ q[i].key # tapping_key.key
          /\ IF IS_NOEVENT(tapping_key) THEN q[Len(q)].count = 0
             ELSE tapping_key.pressed /\ q[Len(q)].key = tapping_key.key /\ ~q[Len(q)].pressed
      BY <1>1, <2>1 DEF DecidedQueue
    <2> HIDE DEF q, t
    <2>4. CASE Len(q) = 1
      <3>1. t = <<>>
        BY <2>2, <2>4
      <3>2. QED
        BY <1>3, <2>1, <2>3, <2>4, <3>1 DEF DecidedQueue, t
    <2>5. CASE Len(q) # 1
      <3>1. 1 < Len(q) /\ t # <<>> /\ Len(t) \in 1..(Len(q) - 1) /\ Len(t) + 1 = Len(q)
        BY <2>2, <2>5
      <3>2. Calm(keyp) /\ keyp.key # tapping_key.key
        BY <2>1, <2>2, <2>3, <3>1
      <3>3. t[Len(t)] = q[Len(q)]
        BY <2>2, <3>1
      <3>4. ASSUME NEW i \in 1..Len(t), i < Len(t) PROVE Calm(t[i]) /\ t[i].key # tapping_key.key
        <4>1. i + 1 \in 1..Len(q) /\ i + 1 < Len(q) /\ t[i] = q[i + 1]
          BY <2>2, <3>4
        <4>2. QED
          BY <2>3, <4>1
      <3>5. DecidedQueue(t, tapping_key)
        BY <2>3, <3>3, <3>4 DEF DecidedQueue
      <3>6. keyp.count = 0
        BY <3>2 DEF Calm
      <3>7. QED
        BY <1>3, <2>1, <2>3, <3>1, <3>2, <3>5, <3>6 DEF t
    <2>6. QED
      BY <2>4, <2>5
  <1>4. QED
    BY <1>2, <1>3

(* A tick that finds nothing to time out changes nothing. *)
LEMMA TickIgnoredKept ==
  ASSUME TapInv, TickIgnored
  PROVE  TapInv' /\ LayersKept
  <1>1. running # "idle" /\ IS_NOEVENT(keyp) /\ Consumed(tapping_key, kb, waiting_buffer)
    BY DEF TickIgnored, ResetState, Undecided, Tapped, PressedState, ReleasedState
  <1>2. running = "event"
    <2>1. TypeInv /\ running \in {"idle", "event", "buffer"}
      BY InvFacts
    <2>2. running = "buffer" => keyp \in Record
      BY <2>1, CurrentRecordType
    <2>3. QED
      BY <1>1, <2>1, <2>2, TappingAssumption DEF Record, IS_NOEVENT
  <1>3. /\ tapping_key' = tapping_key /\ kb' = kb /\ waiting_buffer' = waiting_buffer /\ held' = held
        /\ running' = IF waiting_buffer = <<>> THEN "idle" ELSE "buffer"
        /\ event' = NoRecord
    BY <1>1, <1>2 DEF Consumed
  <1>4. Queue' = Queue
    <2>1. Queue = waiting_buffer
      BY <1>1, <1>2 DEF Queue, keyp
    <2>2. Queue' = waiting_buffer'
      BY <1>3 DEF Queue
    <2>3. QED
      BY <1>3, <2>1, <2>2
  <1>5. TypeInv'
    BY ProcessTappingType, InvFacts DEF process_tapping
  <1>6. QED
    BY <1>3, <1>4, <1>5, NoRecordFacts DEF TapInv, LayersKept

(* A tap-hold key becomes the tapping key: no release of it waits. *)
LEMMA StartTappingKept ==
  ASSUME TapInv, running # "idle", ~IS_NOEVENT(keyp), keyp.pressed, TapKey(keyp.key),
         ~Undec(tapping_key), NEW k \in Keyboard, ZeroCache(k), StartTapping(k),
         Owned(k, keyp, Tail(Queue), held),
         LayersOwned(kb, tapping_key, Queue, held) => LayersOwned(k, keyp, Tail(Queue), held)
  PROVE  TapInv' /\ LayersKept
  <1>1. /\ TypeInv /\ waiting_buffer \in Seq(Record) /\ keyp \in Record
        /\ running = "event" => waiting_buffer = <<>>
    BY InvFacts, QueueHead
  <1>2. Tail(Queue) = <<>>
    BY DecidedHead DEF Calm
  <1>3. keyp.count = 0
    <2>1. running = "event" => keyp.count = 0
      BY InvFacts
    <2>2. running # "event" => IS_NOEVENT(tapping_key)
      BY DecidedHead DEF Calm
    <2>3. IS_NOEVENT(tapping_key) => keyp.count = 0
      BY DecidedHead
    <2>4. QED
      BY <2>1, <2>2, <2>3
  <1>4. TapReleases(keyp) = {}
    <2>1. CASE running = "event"
      BY <1>1, <2>1 DEF TapReleases
    <2>2. CASE running # "event"
      <3>1. Queue = waiting_buffer /\ waiting_buffer # <<>> /\ keyp = waiting_buffer[1]
        BY <1>1, <2>2, QueueHead
      <3>2. Len(waiting_buffer) = 1
        <4>1. Len(waiting_buffer) \in Nat /\ Len(Tail(waiting_buffer)) = Len(waiting_buffer) - 1
          BY <1>1, <3>1, TailRecords
        <4>2. Tail(waiting_buffer) = <<>>
          BY <1>2, <3>1, Zenon
        <4>3. Len(<<>>) = 0
          OBVIOUS
        <4>4. QED
          BY <4>1, <4>2, <4>3
      <3>3. QED
        BY <3>1, <3>2 DEF TapReleases
    <2>3. QED
      BY <2>1, <2>2
  <1>5. Consumed(keyp, k, waiting_buffer)
    BY <1>4 DEF StartTapping
  <1>6. PhaseOK(<<>>, keyp)
    BY <1>3 DEF PhaseOK, UndecidedQueue, DecidedQueue
  <1>7. Down(Tail(Queue), held, keyp.key)
    BY <1>1, HeadTaken
  <1>8. QED
    BY <1>1, <1>2, <1>5, <1>6, <1>7, ConsumedKept

(* The tapping key that is not down, or is not there, is not undecided. *)
LEMMA DecidedStates ==
  ASSUME TapInv
  PROVE  /\ ResetState => /\ running # "idle" /\ ~Undec(tapping_key) /\ tapping_key = NoRecord
                          /\ ~tapping_key.pressed
         /\ ReleasedState => /\ running = "event" /\ ~Undec(tapping_key) /\ ~tapping_key.pressed
                             /\ waiting_buffer = <<>> /\ ~IS_NOEVENT(tapping_key)
         /\ Tapped => /\ running # "idle" /\ ~Undec(tapping_key) /\ tapping_key.pressed
                      /\ tapping_key.count > 0 /\ ~IS_NOEVENT(tapping_key)
                      /\ running = "event" => tapping_key.count # 1
         /\ PressedState /\ tapping_key.count = 0 =>
              running # "idle" /\ Undec(tapping_key) /\ tapping_key.pressed /\ ~IS_NOEVENT(tapping_key)
  <1>1. ResetState => /\ running # "idle" /\ ~Undec(tapping_key) /\ tapping_key = NoRecord
                      /\ ~tapping_key.pressed
    BY InvFacts, NoRecordFacts DEF ResetState, Undec
  <1>2. ReleasedState => /\ running = "event" /\ ~Undec(tapping_key) /\ ~tapping_key.pressed
                         /\ waiting_buffer = <<>> /\ ~IS_NOEVENT(tapping_key)
    <2> SUFFICES ASSUME ReleasedState
                 PROVE  /\ running = "event" /\ ~Undec(tapping_key) /\ ~tapping_key.pressed
                        /\ waiting_buffer = <<>> /\ ~IS_NOEVENT(tapping_key)
      OBVIOUS
    <2>1. running # "idle" /\ ~Undec(tapping_key) /\ ~tapping_key.pressed /\ ~IS_NOEVENT(tapping_key)
      BY DEF ReleasedState, Undec
    <2>2. waiting_buffer = <<>>
      BY <2>1, InvFacts DEF DecidedQueue
    <2>3. QED
      BY <2>1, <2>2, InvFacts
  <1>3. Tapped => /\ running # "idle" /\ ~Undec(tapping_key) /\ tapping_key.pressed
                  /\ tapping_key.count > 0 /\ ~IS_NOEVENT(tapping_key)
                  /\ running = "event" => tapping_key.count # 1
    <2> SUFFICES ASSUME Tapped
                 PROVE  /\ running # "idle" /\ ~Undec(tapping_key) /\ tapping_key.pressed
                        /\ tapping_key.count > 0 /\ ~IS_NOEVENT(tapping_key)
                        /\ running = "event" => tapping_key.count # 1
      OBVIOUS
    <2>1. /\ running # "idle" /\ ~Undec(tapping_key) /\ tapping_key.pressed
          /\ tapping_key.count > 0 /\ ~IS_NOEVENT(tapping_key)
      BY DEF Tapped, PressedState, Undec
    <2>2. running = "event" => waiting_buffer = <<>>
      BY <2>1, InvFacts
    <2>3. QED
      BY <2>1, <2>2 DEF TapInv, PhaseOK
  <1>4. PressedState /\ tapping_key.count = 0 =>
          running # "idle" /\ Undec(tapping_key) /\ tapping_key.pressed /\ ~IS_NOEVENT(tapping_key)
    BY DEF PressedState, Undec
  <1>5. QED
    BY <1>1, <1>2, <1>3, <1>4

(* A tap-hold key is pressed while no other is tapped. *)
LEMMA StartTapKept ==
  ASSUME TapInv, RegularKeymap, running # "idle", ~IS_NOEVENT(keyp), keyp.pressed, TapKey(keyp.key),
         ~Undec(tapping_key), ~tapping_key.pressed,
         StartTapping(kb) \/ (keyp.count = 0 /\ Consumed(keyp, kb, waiting_buffer))
  PROVE  TapInv' /\ LayersKept
  <1>1. /\ TypeInv /\ kb \in Keyboard /\ ZeroCache(kb)
        /\ running = "event" => waiting_buffer = <<>>
    BY InvFacts
  <1>2. \A j \in Keys : Down(Queue, held, j) => Down(Tail(Queue), held, j)
    BY <1>1, HeadTaken DEF StayDown
  <1>3. ~Down(Queue, held, keyp.key) /\ Down(Tail(Queue), held, keyp.key)
    BY <1>1, HeadTaken
  <1>4. \A c : ~Taps(tapping_key, c)
    BY DEF Taps
  <1>5. /\ Owned(kb, tapping_key, Queue, held) => Owned(kb, keyp, Tail(Queue), held)
        /\ LayersOwned(kb, tapping_key, Queue, held) => LayersOwned(kb, keyp, Tail(Queue), held)
    BY <1>2, <1>3, <1>4, OwnedUnchanged
  <1>6. Owned(kb, tapping_key, Queue, held)
    BY DEF TapInv
  <1>7. CASE StartTapping(kb)
    BY <1>1, <1>5, <1>6, <1>7, StartTappingKept
  <1>8. CASE keyp.count = 0 /\ Consumed(keyp, kb, waiting_buffer)
    <2>1. Tail(Queue) = <<>> /\ keyp \in Record
      BY <1>1, DecidedHead, QueueHead DEF Calm
    <2>2. PhaseOK(<<>>, keyp)
      BY <1>8 DEF PhaseOK, UndecidedQueue, DecidedQueue
    <2>3. QED
      BY <1>1, <1>3, <1>5, <1>6, <1>8, <2>1, <2>2, ConsumedKept
  <1>9. QED
    BY <1>7, <1>8

(* The event of a key that is not the tapping key is processed, and it does  *)
(* not start a tap.                                                          *)
LEMMA OtherKeyKept ==
  ASSUME TapInv, RegularKeymap, running # "idle", ~IS_NOEVENT(keyp), ~Undec(tapping_key),
         keyp.count = 0, ~(keyp.pressed /\ TapKey(keyp.key)),
         tapping_key.pressed => keyp.key # tapping_key.key,
         NEW tk \in Record \cup {NoRecord}, tk.key = tapping_key.key,
         tk.pressed = tapping_key.pressed, tk.count = tapping_key.count,
         Consumed(tk, process_record(kb, keyp), waiting_buffer)
  PROVE  TapInv' /\ LayersKept
  <1>1. /\ TypeInv /\ kb \in Keyboard /\ ZeroCache(kb) /\ keyp \in Record
        /\ running = "event" => waiting_buffer = <<>>
    BY InvFacts, QueueHead
  <1>2. PICK n : n = process_record(kb, keyp)
    OBVIOUS
  <1>3. Processed(kb, keyp, n) /\ n \in Keyboard
    BY <1>1, <1>2, ProcessRecordEffect, ProcessRecordType
  <1>4. /\ Owned(kb, tapping_key, Queue, held) => Owned(n, tk, Tail(Queue), held)
        /\ LayersOwned(kb, tapping_key, Queue, held) => LayersOwned(n, tk, Tail(Queue), held)
        /\ ZeroCache(n)
    <2>1. /\ StayDown(Queue, held, Tail(Queue), held, keyp.key)
          /\ keyp.pressed => ~Down(Queue, held, keyp.key) /\ Down(Tail(Queue), held, keyp.key)
      BY <1>1, HeadTaken
    <2>2. \A c : Taps(tapping_key, c) => Taps(tk, c)
      BY DEF Taps
    <2>3. QED
      BY <1>1, <1>3, <2>1, <2>2, OwnedProcessed
  <1>5. PhaseOK(Tail(Queue), tk)
    <2>1. IS_NOEVENT(tk) <=> IS_NOEVENT(tapping_key)
      BY DEF IS_NOEVENT
    <2>2. ~Undec(tk) /\ (~IS_NOEVENT(tk) => TapKey(tk.key))
      BY <2>1, InvFacts DEF Undec
    <2>3. DecidedQueue(Tail(Queue), tk)
      <3>1. DecidedQueue(Tail(Queue), tapping_key)
        BY DecidedHead
      <3>2. QED
        BY <2>1, <3>1 DEF DecidedQueue
    <2>4. tk.pressed /\ tk.count = 1 => Tail(Queue) # <<>>
      <3> SUFFICES ASSUME tapping_key.pressed, tapping_key.count = 1 PROVE Tail(Queue) # <<>>
        OBVIOUS
      <3>1. ~IS_NOEVENT(tapping_key)
        BY InvFacts, NoRecordFacts
      <3>2. running # "event"
        BY <1>1 DEF TapInv, PhaseOK
      <3>3. QED
        BY <3>1, <3>2, DecidedHead
    <2>5. QED
      BY <2>2, <2>3, <2>4 DEF PhaseOK
  <1>6. tk.pressed => Down(Tail(Queue), held, tk.key)
    <2>1. tapping_key.pressed => /\ Down(Queue, held, tapping_key.key)
                                 /\ tapping_key.key \in Keys
      BY InvFacts, NoRecordFacts DEF TapInv
    <2>2. StayDown(Queue, held, Tail(Queue), held, keyp.key)
      BY <1>1, HeadTaken
    <2>3. QED
      BY <2>1, <2>2 DEF StayDown
  <1>7. Owned(kb, tapping_key, Queue, held)
    BY DEF TapInv
  <1>8. QED
    BY <1>1, <1>2, <1>3, <1>4, <1>5, <1>6, <1>7, ConsumedKept

LEMMA ResetKept ==
  ASSUME TapInv, RegularKeymap, StartTap \/ RegularKey
  PROVE  TapInv' /\ LayersKept
  <1>1. /\ running # "idle" /\ ~Undec(tapping_key) /\ tapping_key = NoRecord
        /\ ~tapping_key.pressed /\ IS_NOEVENT(tapping_key)
    BY DecidedStates DEF StartTap, RegularKey, ResetState
  <1>2. ~IS_NOEVENT(keyp)
    BY DEF StartTap, RegularKey, is_tap_record
  <1>3. keyp \in Record /\ kb \in Keyboard
    BY <1>1, <1>2, QueueHead, InvFacts
  <1>4. is_tap_record(kb, keyp) <=> TapKey(keyp.key)
    BY <1>3, TapRecords
  <1>5. CASE StartTap
    BY <1>1, <1>2, <1>4, <1>5, StartTapKept DEF StartTap
  <1>6. CASE RegularKey
    <2>1. keyp.count = 0
      BY <1>1, <1>2, DecidedHead
    <2>2. QED
      BY <1>1, <1>2, <1>4, <1>6, <2>1, OtherKeyKept DEF RegularKey
  <1>7. QED
    BY <1>5, <1>6

LEMMA OtherKeyDuringTapKept ==
  ASSUME TapInv, RegularKeymap, OtherKeyDuringTap
  PROVE  TapInv' /\ LayersKept
  <1>1. /\ running # "idle" /\ ~Undec(tapping_key) /\ tapping_key.pressed
        /\ ~IS_NOEVENT(tapping_key) /\ ~IS_NOEVENT(keyp)
    BY DecidedStates DEF OtherKeyDuringTap
  <1>2. keyp \in Record /\ kb \in Keyboard /\ TapKey(tapping_key.key) /\ tapping_key \in Record
    BY <1>1, QueueHead, InvFacts
  <1>3. ~(keyp.pressed /\ TapKey(keyp.key)) /\ ~(keyp.key = tapping_key.key /\ ~keyp.pressed)
    BY <1>2, TapRecords DEF OtherKeyDuringTap, IS_TAPPING_RECORD
  <1>4. keyp.key # tapping_key.key
    BY <1>2, <1>3
  <1>5. keyp.count = 0
    <2>1. running = "event" => keyp.count = 0
      BY InvFacts
    <2>2. running # "event" => Calm(keyp)
      BY <1>1, <1>4, DecidedHead
    <2>3. QED
      BY <2>1, <2>2 DEF Calm
  <1>6. Consumed(tapping_key, process_record(kb, keyp), waiting_buffer)
    BY DEF OtherKeyDuringTap
  <1>7. QED
    BY <1>1, <1>2, <1>3, <1>4, <1>5, <1>6, OtherKeyKept

LEMMA OtherKeyAfterTapKept ==
  ASSUME TapInv, RegularKeymap, OtherKeyAfterTap
  PROVE  TapInv' /\ LayersKept
  <1>1. /\ running = "event" /\ ~Undec(tapping_key) /\ ~tapping_key.pressed
        /\ ~IS_NOEVENT(tapping_key) /\ ~IS_NOEVENT(keyp) /\ waiting_buffer = <<>>
    BY DecidedStates DEF OtherKeyAfterTap
  <1>2. keyp \in Record /\ kb \in Keyboard /\ tapping_key \in Record /\ keyp.count = 0
    BY <1>1, QueueHead, InvFacts
  <1>3. is_tap_record(kb, keyp) <=> TapKey(keyp.key)
    BY <1>2, TapRecords
  <1>4. CASE keyp.pressed /\ is_tap_record(kb, keyp)
    <2>1. StartTapping(kb)
      BY <1>4 DEF OtherKeyAfterTap
    <2>2. QED
      BY <1>1, <1>3, <1>4, <2>1, StartTapKept
  <1>5. CASE ~(keyp.pressed /\ is_tap_record(kb, keyp))
    <2> DEFINE tk == [tapping_key EXCEPT !.interrupted = TRUE]
    <2>1. /\ tk \in Record /\ tk.key = tapping_key.key /\ tk.pressed = tapping_key.pressed
          /\ tk.count = tapping_key.count
      BY <1>2 DEF Record
    <2>2. \/ Consumed(tk, process_record(kb, keyp), waiting_buffer)
          \/ Consumed(tapping_key, process_record(kb, keyp), waiting_buffer)
      BY <1>5 DEF OtherKeyAfterTap
    <2> HIDE DEF tk
    <2>3. QED
      BY <1>1, <1>2, <1>3, <1>5, <2>1, <2>2, OtherKeyKept
  <1>6. QED
    BY <1>4, <1>5

LEMMA TapReleaseKept ==
  ASSUME TapInv, RegularKeymap, TapRelease
  PROVE  TapInv' /\ LayersKept
  <1>1. /\ running # "idle" /\ ~Undec(tapping_key) /\ tapping_key.pressed /\ tapping_key.count > 0
        /\ ~IS_NOEVENT(tapping_key) /\ keyp.key = tapping_key.key /\ ~keyp.pressed
    BY DecidedStates DEF TapRelease, IS_TAPPING_RECORD
  <1>2. ~IS_NOEVENT(keyp)
    BY <1>1 DEF IS_NOEVENT
  <1>3. /\ keyp \in Record /\ kb \in Keyboard /\ ZeroCache(kb) /\ TapKey(tapping_key.key)
        /\ tapping_key \in Record
        /\ running = "event" => waiting_buffer = <<>>
    BY <1>1, <1>2, QueueHead, InvFacts
  <1>4. PICK r : r = [keyp EXCEPT !.count = tapping_key.count, !.interrupted = tapping_key.interrupted]
    OBVIOUS
  <1>5. r \in Record /\ r.key = keyp.key /\ ~r.pressed /\ r.count > 0
    BY <1>1, <1>3, <1>4 DEF Record
  <1>6. PICK tk : tk = IF WITHIN_TAPPING_TERM(keyp, tapping_key) THEN r ELSE NoRecord
    OBVIOUS
  <1>7. /\ tk \in Record \cup {NoRecord} /\ ~tk.pressed
        /\ ~IS_NOEVENT(tk) => TapKey(tk.key)
    BY <1>1, <1>3, <1>5, <1>6, NoRecordFacts
  <1>8. PICK n : n = process_record(kb, r)
    OBVIOUS
  <1>9. Processed(kb, r, n) /\ n \in Keyboard
    BY <1>3, <1>5, <1>8, ProcessRecordEffect, ProcessRecordType
  <1>10. StayDown(Queue, held, Tail(Queue), held, keyp.key)
    BY <1>1, <1>2, <1>3, HeadTaken
  <1>11. /\ Owned(kb, tapping_key, Queue, held) => Owned(n, tk, Tail(Queue), held)
         /\ LayersOwned(kb, tapping_key, Queue, held) => LayersOwned(n, tk, Tail(Queue), held)
         /\ ZeroCache(n)
    BY <1>1, <1>3, <1>5, <1>7, <1>9, <1>10, OwnedTapReleased
  <1>12. Tail(Queue) = <<>>
    BY <1>1, <1>2, DecidedHead
  <1>13. PhaseOK(<<>>, tk)
    BY <1>7 DEF PhaseOK, Undec, DecidedQueue
  <1>14. Consumed(tk, n, waiting_buffer)
    BY <1>4, <1>6, <1>8 DEF TapRelease
  <1>15. Owned(kb, tapping_key, Queue, held)
    BY DEF TapInv
  <1>16. QED
    BY <1>1, <1>2, <1>3, <1>7, <1>9, <1>11, <1>12, <1>13, <1>14, <1>15, ConsumedKept

LEMMA NextTapKeyKept ==
  ASSUME TapInv, RegularKeymap, NextTapKey
  PROVE  TapInv' /\ LayersKept
  <1>1. /\ running # "idle" /\ ~Undec(tapping_key) /\ tapping_key.pressed /\ tapping_key.count > 0
        /\ ~IS_NOEVENT(tapping_key) /\ keyp.pressed /\ ~IS_NOEVENT(keyp)
        /\ running = "event" => tapping_key.count # 1
    BY DecidedStates DEF NextTapKey, is_tap_record
  <1>2. /\ keyp \in Record /\ kb \in Keyboard /\ ZeroCache(kb) /\ TapKey(tapping_key.key)
        /\ tapping_key \in Record
        /\ running = "event" => waiting_buffer = <<>>
    BY <1>1, QueueHead, InvFacts
  <1>3. TapKey(keyp.key)
    BY <1>2, TapRecords DEF NextTapKey
  <1>4. running = "event"
    BY <1>1, <1>3, DecidedHead DEF Calm
  <1>5. tapping_key.count > 1
    BY <1>1, <1>2, <1>4 DEF Record
  <1>6. PICK r : r = [tapping_key EXCEPT !.pressed = FALSE, !.time = keyp.time]
    OBVIOUS
  <1>7. r \in Record /\ r.key = tapping_key.key /\ ~r.pressed /\ r.count > 0
    BY <1>1, <1>2, <1>6 DEF Record
  <1>8. PICK n : n = process_record(kb, r)
    OBVIOUS
  <1>9. Processed(kb, r, n) /\ n \in Keyboard
    BY <1>2, <1>7, <1>8, ProcessRecordEffect, ProcessRecordType
  <1>10. StartTapping(n)
    BY <1>5, <1>6, <1>8 DEF NextTapKey
  <1>11. ~Down(Queue, held, keyp.key) /\ StayDown(Queue, held, Tail(Queue), held, r.key)
    BY <1>1, <1>2, HeadTaken DEF StayDown
  <1>12. /\ Owned(kb, tapping_key, Queue, held) => Owned(n, keyp, Tail(Queue), held)
         /\ LayersOwned(kb, tapping_key, Queue, held) => LayersOwned(n, keyp, Tail(Queue), held)
         /\ ZeroCache(n)
    BY <1>1, <1>2, <1>7, <1>9, <1>11, OwnedTapReleased
  <1>13. Owned(kb, tapping_key, Queue, held)
    BY DEF TapInv
  <1>14. QED
    BY <1>1, <1>3, <1>9, <1>10, <1>12, <1>13, StartTappingKept

LEMMA SequentialTapKept ==
  ASSUME TapInv, RegularKeymap, SequentialTap
  PROVE  TapInv' /\ LayersKept
  <1>1. /\ running = "event" /\ ~Undec(tapping_key) /\ ~tapping_key.pressed
        /\ ~IS_NOEVENT(tapping_key) /\ waiting_buffer = <<>>
        /\ keyp.pressed /\ keyp.key = tapping_key.key
    BY DecidedStates DEF SequentialTap, IS_TAPPING_RECORD
  <1>2. ~IS_NOEVENT(keyp)
    BY <1>1 DEF IS_NOEVENT
  <1>3. /\ keyp \in Record /\ kb \in Keyboard /\ ZeroCache(kb) /\ TapKey(keyp.key)
        /\ tapping_key \in Record /\ keyp.count = 0
    BY <1>1, <1>2, QueueHead, InvFacts
  <1>4. CASE Consumed(keyp, kb, waiting_buffer)
    BY <1>1, <1>2, <1>3, <1>4, StartTapKept
  <1>5. CASE ~Consumed(keyp, kb, waiting_buffer)
    <2>1. PICK count : count = IF tapping_key.count < 15 THEN tapping_key.count + 1
                               ELSE tapping_key.count
      OBVIOUS
    <2>2. PICK r : r = [keyp EXCEPT !.count = count, !.interrupted = tapping_key.interrupted]
      OBVIOUS
    <2>3. tapping_key.count > 0 /\ Consumed(r, process_record(kb, r), waiting_buffer)
      BY <1>5, <2>1, <2>2 DEF SequentialTap
    <2>4. count \in 0..15 /\ count > 1
      BY <1>3, <2>1, <2>3 DEF Record
    <2>5. r \in Record /\ r.key = keyp.key /\ r.pressed /\ r.count > 0 /\ r.count # 1
      <3>1. r \in Record
        BY <1>3, <2>2, <2>4, RecordUpdates
      <3>2. r.key = keyp.key /\ r.pressed = keyp.pressed /\ r.count = count
        BY <1>3, <2>2 DEF Record
      <3>3. QED
        BY <1>1, <2>4, <3>1, <3>2
    <2>6. PICK n : n = process_record(kb, r)
      OBVIOUS
    <2>7. Processed(kb, r, n) /\ n \in Keyboard
      BY <1>3, <2>5, <2>6, ProcessRecordEffect, ProcessRecordType
    <2>8. /\ ~Down(Queue, held, keyp.key) /\ Down(Tail(Queue), held, keyp.key)
          /\ StayDown(Queue, held, Tail(Queue), held, keyp.key)
      BY <1>1, <1>2, HeadTaken
    <2>9. /\ Owned(kb, tapping_key, Queue, held) => Owned(n, r, Tail(Queue), held)
          /\ LayersOwned(kb, tapping_key, Queue, held) => LayersOwned(n, r, Tail(Queue), held)
          /\ ZeroCache(n)
      BY <1>1, <1>3, <2>5, <2>7, <2>8, OwnedTapped
    <2>10. Tail(Queue) = <<>>
      BY <1>1, <1>2, DecidedHead
    <2>11. PhaseOK(<<>>, r)
      BY <1>3, <2>5 DEF PhaseOK, Undec, DecidedQueue
    <2>12. Owned(kb, tapping_key, Queue, held)
      BY DEF TapInv
    <2>13. QED
      BY <1>1, <1>2, <1>3, <2>3, <2>5, <2>6, <2>7, <2>8, <2>9, <2>10, <2>11, <2>12, ConsumedKept
  <1>6. QED
    BY <1>4, <1>5

(* An event put at the end of a queue in which everything is calm. *)
LEMMA DecidedAppend ==
  ASSUME NEW q \in Seq(Record), NEW e \in Record, e.count = 0,
         \A i \in 1..Len(q) : Calm(q[i])
  PROVE  PhaseOK(Append(q, e), NoRecord) /\ PhaseOK(q, NoRecord)
  <1> DEFINE p == Append(q, e)
  <1>1. /\ Len(q) \in Nat /\ Len(p) = Len(q) + 1 /\ p[Len(q) + 1] = e
        /\ \A i \in 1..Len(q) : p[i] = q[i] /\ q[i] \in Record
    BY AppendRecords
  <1>2. \A i \in 1..Len(p) : i < Len(p) => i \in 1..Len(q)
    BY <1>1
  <1>3. \A i \in 1..Len(q) : q[i].key # NoKey
    BY <1>1, TappingAssumption DEF Record
  <1> HIDE DEF p
  <1>4. DecidedQueue(p, NoRecord)
    BY <1>1, <1>2, <1>3, NoRecordFacts DEF DecidedQueue
  <1>5. DecidedQueue(q, NoRecord)
    <2>1. q # <<>> => Len(q) \in 1..Len(q)
      BY <1>1
    <2>2. QED
      BY <1>3, <2>1, NoRecordFacts DEF DecidedQueue, Calm
  <1>6. QED
    BY <1>4, <1>5, NoRecordFacts DEF PhaseOK, p

LEMMA TapForgottenKept ==
  ASSUME TapInv, RegularKeymap, TapForgotten
  PROVE  TapInv' /\ LayersKept
  <1>1. /\ running = "event" /\ ~Undec(tapping_key) /\ ~tapping_key.pressed
        /\ waiting_buffer = <<>>
    BY DecidedStates DEF TapForgotten
  <1>2. /\ TypeInv /\ kb \in Keyboard /\ ZeroCache(kb) /\ waiting_buffer \in Seq(Record)
        /\ keyp.count = 0
    BY <1>1, InvFacts
  <1>3. /\ keyp \in Events
        /\ ~IS_NOEVENT(keyp) => keyp \in Record
    BY <1>2, CurrentRecordType
  <1>4. /\ Owned(kb, tapping_key, Queue, held) => Owned(kb, NoRecord, Queue, held)
        /\ LayersOwned(kb, tapping_key, Queue, held) => LayersOwned(kb, NoRecord, Queue, held)
    <2>1. \A c : ~Taps(tapping_key, c)
      BY <1>1 DEF Taps
    <2>2. QED
      BY <2>1, NoRecordFacts, OwnedUnchanged
  <1>5. ~IS_NOEVENT(keyp) => PhaseOK(Append(waiting_buffer, keyp), NoRecord)
    <2>1. \A i \in 1..Len(waiting_buffer) : Calm(waiting_buffer[i])
      BY <1>1
    <2>2. QED
      BY <1>2, <1>3, <2>1, DecidedAppend
  <1>6. PhaseOK(waiting_buffer, NoRecord)
    BY <1>1, NoRecordFacts DEF PhaseOK, DecidedQueue
  <1>7. Owned(kb, tapping_key, Queue, held) /\ Deferred(NoRecord, kb, keyp)
    BY DEF TapInv, TapForgotten
  <1>8. QED
    BY <1>1, <1>2, <1>3, <1>4, <1>5, <1>6, <1>7, NoRecordFacts, DeferredKept

-----------------------------------------------------------------------------
(* The branches for an undecided key. *)

(* The records behind an undecided key, and the event that comes next. *)
LEMMA UndecidedFacts ==
  ASSUME TapInv, PressedState, tapping_key.count = 0
  PROVE  /\ running # "idle" /\ Undec(tapping_key) /\ tapping_key.pressed
         /\ TypeInv /\ kb \in Keyboard /\ ZeroCache(kb) /\ waiting_buffer \in Seq(Record)
         /\ running \in {"event", "buffer"}
         /\ tapping_key \in Record /\ tapping_key.key \in Keys /\ TapKey(tapping_key.key)
         /\ UndecidedQueue(waiting_buffer, tapping_key)
         /\ keyp \in Events /\ (~IS_NOEVENT(keyp) => keyp \in Record)
         /\ running = "event" => keyp.count = 0
         /\ running = "buffer" => /\ 1 \in 1..Len(waiting_buffer) /\ keyp = waiting_buffer[1]
                                  /\ ~IS_NOEVENT(keyp)
                                  /\ WaitsBehind(waiting_buffer, 1, tapping_key)
         /\ Down(Queue, held, tapping_key.key)
         /\ Owned(kb, tapping_key, Queue, held)
         /\ \A i \in 1..Len(waiting_buffer) : Calm(waiting_buffer[i])
  <1>1. running # "idle" /\ Undec(tapping_key) /\ tapping_key.pressed /\ ~IS_NOEVENT(tapping_key)
    BY DecidedStates
  <1>2. /\ TypeInv /\ kb \in Keyboard /\ ZeroCache(kb) /\ waiting_buffer \in Seq(Record)
        /\ running \in {"event", "buffer"}
        /\ tapping_key \in Record /\ tapping_key.key \in Keys /\ TapKey(tapping_key.key)
        /\ UndecidedQueue(waiting_buffer, tapping_key)
        /\ running = "event" => keyp.count = 0
        /\ running = "buffer" => waiting_buffer # <<>>
    BY <1>1, InvFacts
  <1>3. keyp \in Events /\ (~IS_NOEVENT(keyp) => keyp \in Record)
        /\ (running = "buffer" => keyp \in Record)
    BY <1>2, CurrentRecordType
  <1>4. running = "buffer" => /\ 1 \in 1..Len(waiting_buffer) /\ keyp = waiting_buffer[1]
                              /\ ~IS_NOEVENT(keyp)
    BY <1>2, <1>3, TappingAssumption DEF keyp, Record, IS_NOEVENT
  <1>5. running = "buffer" => WaitsBehind(waiting_buffer, 1, tapping_key)
    BY <1>2, <1>4 DEF UndecidedQueue
  <1>6. \A i \in 1..Len(waiting_buffer) : Calm(waiting_buffer[i])
    BY <1>2 DEF UndecidedQueue, WaitsBehind
  <1>7. Down(Queue, held, tapping_key.key) /\ Owned(kb, tapping_key, Queue, held)
    BY <1>1 DEF TapInv
  <1>8. QED
    BY <1>1, <1>2, <1>3, <1>4, <1>5, <1>6, <1>7

(* The key is taken as held when an event, or a tick, comes. *)
LEMMA HeldKept ==
  ASSUME TapInv, RegularKeymap, PressedState, tapping_key.count = 0, running = "event",
         NEW tk \in Record, tk.key = tapping_key.key, tk.pressed, tk.count = 0,
         Deferred(NoRecord, process_record(kb, tk), keyp)
  PROVE  TapInv' /\ LayersKept
  <1>1. /\ running # "idle" /\ kb \in Keyboard /\ ZeroCache(kb) /\ waiting_buffer \in Seq(Record)
        /\ keyp \in Events /\ (~IS_NOEVENT(keyp) => keyp \in Record) /\ keyp.count = 0
        /\ TapKey(tapping_key.key) /\ Down(Queue, held, tapping_key.key)
        /\ Owned(kb, tapping_key, Queue, held) /\ tapping_key.pressed
        /\ \A i \in 1..Len(waiting_buffer) : Calm(waiting_buffer[i])
    BY UndecidedFacts
  <1>2. PICK n : n = process_record(kb, tk)
    OBVIOUS
  <1>3. Processed(kb, tk, n) /\ n \in Keyboard
    BY <1>1, <1>2, ProcessRecordEffect, ProcessRecordType
  <1>4. /\ Owned(kb, tapping_key, Queue, held) => Owned(n, NoRecord, Queue, held)
        /\ LayersOwned(kb, tapping_key, Queue, held) => LayersOwned(n, NoRecord, Queue, held)
        /\ ZeroCache(n)
    BY <1>1, <1>3, NoRecordFacts, OwnedHeld
  <1>5. ~IS_NOEVENT(keyp) => PhaseOK(Append(waiting_buffer, keyp), NoRecord)
    BY <1>1, DecidedAppend
  <1>6. PhaseOK(waiting_buffer, NoRecord)
    <2>1. PICK e \in Record : e.count = 0
      <3>1. PICK r : r = [tapping_key EXCEPT !.count = 0]
        OBVIOUS
      <3>2. r \in Record /\ r.count = 0
        BY <3>1, UndecidedFacts DEF Record
      <3>3. QED
        BY <3>2
    <2>2. QED
      BY <1>1, <2>1, DecidedAppend
  <1>7. Deferred(NoRecord, n, keyp)
    BY <1>2
  <1>8. QED
    BY <1>1, <1>3, <1>4, <1>5, <1>6, <1>7, NoRecordFacts, DeferredKept

(* One of two events of a key is a press if the other is a release. *)
LEMMA OppositeEvents ==
  ASSUME NEW r \in Record, NEW s \in Record, r.pressed # s.pressed
  PROVE  r.pressed <=> ~s.pressed
  <1>1. r.pressed \in BOOLEAN /\ s.pressed \in BOOLEAN
    BY DEF Record
  <1>2. CASE r.pressed = TRUE /\ s.pressed = FALSE
    BY <1>2
  <1>3. CASE r.pressed = FALSE /\ s.pressed = TRUE
    BY <1>3
  <1>4. QED
    BY <1>1, <1>2, <1>3

(* The key stays undecided, and an event of another key waits. *)
LEMMA WaitsKept ==
  ASSUME TapInv, RegularKeymap, PressedState, tapping_key.count = 0,
         NEW tk \in Record, tk.key = tapping_key.key, tk.pressed, tk.count = 0,
         tk.time = tapping_key.time,
         ~IS_NOEVENT(keyp), keyp.key # tapping_key.key, WITHIN_TAPPING_TERM(keyp, tapping_key),
         running = "event" => /\ ~(keyp.pressed /\ TapKey(keyp.key))
                              /\ HOLD_ON_OTHER_KEY_PRESS => ~keyp.pressed
                              /\ PlainKey(keyp.key) /\ ~keyp.pressed => waiting_buffer_typed(keyp),
         Deferred(tk, kb, keyp)
  PROVE  TapInv' /\ LayersKept
  <1> DEFINE q == waiting_buffer
  <1>1. /\ running # "idle" /\ kb \in Keyboard /\ ZeroCache(kb) /\ q \in Seq(Record)
        /\ keyp \in Record /\ keyp \in Events /\ (running = "event" => keyp.count = 0)
        /\ running = "buffer" => 1 \in 1..Len(q) /\ keyp = q[1]
        /\ TapKey(tapping_key.key) /\ Down(Queue, held, tapping_key.key) /\ tapping_key.key \in Keys
        /\ Owned(kb, tapping_key, Queue, held) /\ tapping_key.pressed /\ UndecidedQueue(q, tapping_key)
    BY UndecidedFacts
  <1>2. ~IS_NOEVENT(tk) /\ Undec(tk)
    BY <1>1, TappingAssumption DEF IS_NOEVENT, Undec
  <1>3. \A r : WITHIN_TAPPING_TERM(r, tk) <=> WITHIN_TAPPING_TERM(r, tapping_key)
    BY DEF WITHIN_TAPPING_TERM
  <1>4. UndecidedQueue(q, tk)
    BY <1>1, <1>3 DEF UndecidedQueue, WaitsBehind
  <1>5. running = "buffer" => PhaseOK([q EXCEPT ![1] = keyp], tk)
    <2>1. running = "buffer" => [q EXCEPT ![1] = keyp] = q
      BY <1>1
    <2>2. PhaseOK(q, tk)
      BY <1>1, <1>2, <1>4 DEF PhaseOK
    <2>3. QED
      BY <2>1, <2>2
  <1>6. running = "event" => PhaseOK(Append(q, keyp), tk)
    <2> SUFFICES ASSUME running = "event" PROVE PhaseOK(Append(q, keyp), tk)
      OBVIOUS
    <2> DEFINE p == Append(q, keyp)
               n == Len(q) + 1
    <2>1. /\ Len(q) \in Nat /\ Len(p) = n /\ p[n] = keyp /\ n \in 1..Len(p)
          /\ \A i \in 1..Len(q) : p[i] = q[i] /\ i \in 1..Len(p) /\ i < n
          /\ \A i \in 1..Len(p) : i \in 1..Len(q) \/ i = n
      BY <1>1, AppendRecords
    <2> HIDE DEF p, n
    <2>2. ASSUME NEW i \in 1..Len(q) PROVE WaitsBehind(p, i, tk)
      <3>1. WaitsBehind(q, i, tk) /\ p[i] = q[i]
        BY <1>4, <2>1 DEF UndecidedQueue
      <3>2. QED
        BY <2>1, <3>1 DEF WaitsBehind
    <2>3. WaitsBehind(p, n, tk)
      <3>1. Calm(keyp) /\ keyp.key # tk.key /\ WITHIN_TAPPING_TERM(keyp, tk)
        BY <1>1, <1>3 DEF Calm
      <3>2. PlainKey(keyp.key) /\ ~keyp.pressed =>
              \E j \in 1..Len(p) : j < n /\ p[j].key = keyp.key /\ p[j].pressed
        <4> SUFFICES ASSUME PlainKey(keyp.key), ~keyp.pressed
                     PROVE  \E j \in 1..Len(p) : j < n /\ p[j].key = keyp.key /\ p[j].pressed
          OBVIOUS
        <4>1. PICK j \in 1..Len(q) : q[j].key = keyp.key /\ q[j].pressed # keyp.pressed
          BY DEF waiting_buffer_typed
        <4>2. q[j].pressed
          BY <1>1, <4>1, OppositeEvents
        <4>3. QED
          BY <2>1, <4>1, <4>2
      <3>3. QED
        BY <2>1, <3>1, <3>2 DEF WaitsBehind
    <2>4. UndecidedQueue(p, tk)
      BY <2>1, <2>2, <2>3 DEF UndecidedQueue
    <2>5. QED
      BY <1>1, <1>2, <2>4 DEF PhaseOK, p
  <1>7. /\ Owned(kb, tapping_key, Queue, held) => Owned(kb, tk, Queue, held)
        /\ LayersOwned(kb, tapping_key, Queue, held) => LayersOwned(kb, tk, Queue, held)
    <2>1. \A c : ~Taps(tapping_key, c)
      BY DEF Taps
    <2>2. QED
      BY <1>1, <2>1, OwnedUnchanged
  <1> HIDE DEF q
  <1>8. QED
    BY <1>1, <1>2, <1>5, <1>6, <1>7, DeferredKept DEF q

LEMMA FirstTapKept ==
  ASSUME TapInv, RegularKeymap, FirstTap
  PROVE  TapInv' /\ LayersKept
  <1> DEFINE q == waiting_buffer
  <1>0. PressedState /\ tapping_key.count = 0 /\ keyp.key = tapping_key.key /\ ~keyp.pressed
    BY DEF FirstTap, Undecided, IS_TAPPING_RECORD
  <1>1. /\ running # "idle" /\ kb \in Keyboard /\ ZeroCache(kb) /\ q \in Seq(Record)
        /\ keyp \in Events /\ (~IS_NOEVENT(keyp) => keyp \in Record)
        /\ running \in {"event", "buffer"} /\ tapping_key.key \in Keys
        /\ running = "buffer" => WaitsBehind(q, 1, tapping_key) /\ keyp = q[1]
        /\ TapKey(tapping_key.key) /\ Down(Queue, held, tapping_key.key)
        /\ tapping_key \in Record /\ UndecidedQueue(q, tapping_key)
        /\ Owned(kb, tapping_key, Queue, held) /\ tapping_key.pressed
    BY <1>0, UndecidedFacts
  <1>2. running = "event"
    BY <1>0, <1>1 DEF WaitsBehind
  <1>3. ~IS_NOEVENT(keyp) /\ keyp \in Record
    BY <1>0, <1>1, TappingAssumption DEF IS_NOEVENT
  <1>4. PICK tap : tap = [tapping_key EXCEPT !.count = 1]
    OBVIOUS
  <1>5. PICK r : r = [keyp EXCEPT !.count = 1, !.interrupted = tapping_key.interrupted]
    OBVIOUS
  <1>6. /\ tap \in Record /\ tap.key = tapping_key.key /\ tap.pressed /\ tap.count = 1
        /\ r \in Record /\ r.key = keyp.key /\ r.pressed = keyp.pressed
    <2>1. 1 \in 0..15
      OBVIOUS
    <2>2. tap \in Record /\ r \in Record
      BY <1>1, <1>3, <1>4, <1>5, <2>1, RecordUpdates
    <2>3. tap.key = tapping_key.key /\ tap.pressed = tapping_key.pressed /\ tap.count = 1
      BY <1>1, <1>4 DEF Record
    <2>4. r.key = keyp.key /\ r.pressed = keyp.pressed
      BY <1>3, <1>5 DEF Record
    <2>5. QED
      BY <1>1, <2>2, <2>3, <2>4
  <1>7. PICK n : n = process_record(kb, tap)
    OBVIOUS
  <1>8. Processed(kb, tap, n) /\ n \in Keyboard
    BY <1>1, <1>6, <1>7, ProcessRecordEffect, ProcessRecordType
  <1>9. /\ Owned(kb, tapping_key, Queue, held) => Owned(n, tap, Queue, held)
        /\ LayersOwned(kb, tapping_key, Queue, held) => LayersOwned(n, tap, Queue, held)
        /\ ZeroCache(n)
    <2>1. StayDown(Queue, held, Queue, held, tap.key)
      BY DEF StayDown
    <2>2. tap.count > 0 /\ ~(tapping_key.pressed /\ tapping_key.count > 0) /\ TapKey(tap.key)
      BY <1>0, <1>1, <1>6
    <2>3. QED
      BY <1>1, <1>6, <1>8, <2>1, <2>2, OwnedTapped
  <1>10. PhaseOK(Append(q, r), tap)
    <2> DEFINE p == Append(q, r)
    <2>1. /\ Len(q) \in Nat /\ Len(p) = Len(q) + 1 /\ p[Len(q) + 1] = r
          /\ \A i \in 1..Len(q) : p[i] = q[i]
          /\ \A i \in 1..Len(p) : i < Len(p) => i \in 1..Len(q)
          /\ p # <<>>
      BY <1>1, <1>6, AppendRecords
    <2> HIDE DEF p
    <2>2. \A i \in 1..Len(q) : Calm(q[i]) /\ q[i].key # tap.key
      BY <1>1, <1>6 DEF UndecidedQueue, WaitsBehind
    <2>3. ~IS_NOEVENT(tap) /\ ~Undec(tap)
      BY <1>1, <1>6, TappingAssumption DEF IS_NOEVENT, Undec
    <2>4. DecidedQueue(p, tap)
      BY <1>0, <1>6, <2>1, <2>2, <2>3 DEF DecidedQueue
    <2>5. QED
      BY <1>1, <1>6, <2>1, <2>3, <2>4 DEF PhaseOK, p
  <1>11. Deferred(tap, n, r)
    BY <1>4, <1>5, <1>7 DEF FirstTap
  <1>12. r \in Events
    BY <1>6 DEF Events
  <1> HIDE DEF q
  <1>13. QED
    BY <1>1, <1>2, <1>3, <1>6, <1>8, <1>9, <1>10, <1>11, <1>12, DeferredKept DEF q

(* Only an event that comes decides by permissive hold, never a record of    *)
(* the buffer: what waits behind the tapping key cannot be nested in it.     *)
LEMMA NestedTapComes ==
  ASSUME TapInv, RegularKeymap, DecidedAtOnce, NestedTap, PERMISSIVE_HOLD
  PROVE  running = "event"
  <1> DEFINE q == waiting_buffer
  <1>0. /\ PressedState /\ tapping_key.count = 0 /\ ~IS_NOEVENT(keyp)
        /\ keyp.key # tapping_key.key /\ ~keyp.pressed /\ waiting_buffer_typed(keyp)
    BY DEF NestedTap, Undecided, IS_TAPPING_RECORD
  <1>1. /\ running \in {"event", "buffer"} /\ q \in Seq(Record)
        /\ tapping_key.key \in Keys /\ TapKey(tapping_key.key)
        /\ UndecidedQueue(q, tapping_key) /\ keyp \in Record
        /\ running = "buffer" => keyp = q[1] /\ WaitsBehind(q, 1, tapping_key)
    BY <1>0, UndecidedFacts
  <1>2. SUFFICES ASSUME running = "buffer" PROVE FALSE
    BY <1>1
  <1>3. keyp.key \in Keys /\ keyp = q[1] /\ WaitsBehind(q, 1, tapping_key)
    BY <1>1, <1>2 DEF Record
  <1>4. CASE HOLD_ON_OTHER_KEY_PRESS
    <2>1. PICK j \in 1..Len(q) : q[j].key = keyp.key /\ q[j].pressed # keyp.pressed
      BY <1>0 DEF waiting_buffer_typed
    <2>2. q[j] \in Record
      BY <1>1, <2>1
    <2>3. q[j].pressed
      BY <1>0, <1>1, <2>1, <2>2, OppositeEvents
    <2>4. WaitsBehind(q, j, tapping_key)
      BY <1>1, <2>1 DEF UndecidedQueue
    <2>5. QED
      BY <1>4, <2>3, <2>4 DEF WaitsBehind
  <1>5. CASE OneTapKey /\ \A k \in Keys : TapKey(k) \/ PlainKey(k)
    <2>1. PlainKey(keyp.key)
      BY <1>0, <1>1, <1>3, <1>5 DEF OneTapKey
    <2>2. PICK j \in 1..Len(q) : j < 1
      BY <1>0, <1>3, <2>1 DEF WaitsBehind
    <2>3. QED
      BY <1>1, <2>2
  <1>6. QED
    BY <1>4, <1>5 DEF DecidedAtOnce

LEMMA NestedTapKept ==
  ASSUME TapInv, RegularKeymap, DecidedAtOnce, NestedTap
  PROVE  TapInv' /\ LayersKept
  <1>0. /\ PressedState /\ tapping_key.count = 0 /\ ~IS_NOEVENT(keyp)
        /\ keyp.key # tapping_key.key /\ ~keyp.pressed /\ waiting_buffer_typed(keyp)
        /\ WITHIN_TAPPING_TERM(keyp, tapping_key)
    BY DEF NestedTap, Undecided, IS_TAPPING_RECORD
  <1>1. tapping_key \in Record /\ tapping_key.pressed
    BY <1>0, UndecidedFacts
  <1>2. CASE PERMISSIVE_HOLD
    <2>1. Deferred(NoRecord, process_record(kb, tapping_key), keyp)
      BY <1>2 DEF NestedTap
    <2>2. running = "event"
      BY <1>2, NestedTapComes
    <2>3. QED
      BY <1>0, <1>1, <2>1, <2>2, HeldKept
  <1>3. CASE ~PERMISSIVE_HOLD
    <2>1. Deferred(tapping_key, kb, keyp)
      BY <1>3 DEF NestedTap
    <2>2. QED
      BY <1>0, <1>1, <2>1, WaitsKept
  <1>4. QED
    BY <1>2, <1>3

(* A tick is not a press. *)
LEMMA NoEventsAreTicks ==
  ASSUME NEW r \in Events, r.pressed
  PROVE  ~IS_NOEVENT(r)
  <1>1. CASE r \in Record
    BY <1>1, TappingAssumption DEF Record, IS_NOEVENT
  <1>2. CASE r \notin Record
    <2>1. PICK t \in Time : r = MAKE_TICK_EVENT(t)
      BY <1>2 DEF Events
    <2>2. r.pressed = FALSE
      BY <2>1 DEF MAKE_TICK_EVENT, MAKE_KEYEVENT
    <2>3. QED
      BY <2>2
  <1>3. QED
    BY <1>1, <1>2

(* The key is pressed on, and another key is pressed. *)
LEMMA InterruptedKept ==
  ASSUME TapInv, RegularKeymap, DecidedAtOnce, Interrupted
  PROVE  TapInv' /\ LayersKept
  <1> DEFINE q == waiting_buffer
  <1>0. /\ PressedState /\ tapping_key.count = 0 /\ keyp.pressed
        /\ WITHIN_TAPPING_TERM(keyp, tapping_key)
    BY DEF Interrupted, Undecided
  <1>1. /\ TypeInv /\ running # "idle" /\ running \in {"event", "buffer"} /\ q \in Seq(Record)
        /\ tapping_key \in Record /\ tapping_key.key \in Keys /\ TapKey(tapping_key.key)
        /\ tapping_key.pressed /\ UndecidedQueue(q, tapping_key) /\ keyp \in Events
        /\ ~IS_NOEVENT(keyp) => keyp \in Record
        /\ running = "buffer" => keyp = q[1] /\ WaitsBehind(q, 1, tapping_key)
        /\ Down(Queue, held, tapping_key.key)
    BY <1>0, UndecidedFacts
  <1>2. ~IS_NOEVENT(keyp)
    BY <1>0, <1>1, NoEventsAreTicks
  <1>3. PICK tk : tk = [tapping_key EXCEPT !.interrupted = TRUE]
    OBVIOUS
  <1>4. /\ tk \in Record /\ tk.key = tapping_key.key /\ tk.pressed = tapping_key.pressed
        /\ tk.count = tapping_key.count /\ tk.time = tapping_key.time
    BY <1>1, <1>3 DEF Record
  <1>5. CASE HOLD_ON_OTHER_KEY_PRESS
    <2>1. Deferred(NoRecord, process_record(kb, tk), keyp)
      BY <1>3, <1>5 DEF Interrupted
    <2>2. running = "event"
      BY <1>0, <1>1, <1>5 DEF WaitsBehind
    <2>3. QED
      BY <1>0, <1>1, <1>4, <2>1, <2>2, HeldKept
  <1>6. CASE ~HOLD_ON_OTHER_KEY_PRESS
    <2>1. Deferred(tk, kb, keyp) /\ OneTapKey
      BY <1>3, <1>6 DEF Interrupted, DecidedAtOnce
    <2>2. keyp.key # tapping_key.key
      <3>1. CASE running = "buffer"
        BY <1>1, <3>1 DEF WaitsBehind
      <3>2. CASE running = "event"
        <4> DEFINE p == Append(q, event)
                   n == Len(q) + 1
        <4>1. keyp = event /\ Queue = p /\ event \in Record
          BY <1>1, <1>2, <3>2, QueueHead
        <4>2. /\ Len(q) \in Nat /\ Len(p) = n /\ p[n] = event /\ n \in 1..Len(p)
              /\ \A i \in 1..Len(q) : p[i] = q[i]
              /\ \A i \in 1..Len(p) : i \in 1..Len(q) \/ i = n
          BY <1>1, <4>1, AppendRecords
        <4>3. \A i \in 1..Len(q) : q[i].key # tapping_key.key
          BY <1>1 DEF UndecidedQueue, WaitsBehind
        <4> HIDE DEF p, n
        <4>4. Down(p, held, tapping_key.key)
          BY <1>1, <4>1
        <4>5. SUFFICES ASSUME event.key = tapping_key.key PROVE FALSE
          BY <4>1
        <4>6. PICK i \in 1..Len(p) : p[i].key = tapping_key.key /\ ~p[i].pressed
          BY <4>2, <4>4, <4>5 DEF Down, Absent
        <4>7. i = n
          BY <4>2, <4>3, <4>6
        <4>8. QED
          BY <1>0, <4>1, <4>2, <4>6, <4>7
      <3>3. QED
        BY <1>1, <3>1, <3>2
    <2>3. keyp \in Record /\ keyp.key \in Keys
      BY <1>1, <1>2 DEF Record
    <2>4. ~TapKey(keyp.key)
      BY <1>1, <2>1, <2>2, <2>3 DEF OneTapKey
    <2>5. QED
      BY <1>0, <1>1, <1>2, <1>4, <1>6, <2>1, <2>2, <2>4, WaitsKept
  <1>7. QED
    BY <1>5, <1>6

(* The tapping term is over. *)
LEMMA TimedOutKept ==
  ASSUME TapInv, RegularKeymap, TimedOut
  PROVE  TapInv' /\ LayersKept
  <1>0. /\ PressedState /\ tapping_key.count = 0 /\ ~WITHIN_TAPPING_TERM(keyp, tapping_key)
        /\ Deferred(NoRecord, process_record(kb, tapping_key), keyp)
    BY DEF TimedOut
  <1>1. /\ running \in {"event", "buffer"} /\ tapping_key \in Record /\ tapping_key.pressed
        /\ running = "buffer" => keyp = waiting_buffer[1] /\ WaitsBehind(waiting_buffer, 1, tapping_key)
    BY <1>0, UndecidedFacts
  <1>2. running = "event"
    BY <1>0, <1>1 DEF WaitsBehind
  <1>3. QED
    BY <1>0, <1>1, <1>2, HeldKept

(* The release of a key that was pressed before the undecided one: of a      *)
(* modifier or a layer key it waits, of a plain key it is processed at once, *)
(* ahead of what waits.                                                      *)
LEMMA ReleaseOfEarlierKeyKept ==
  ASSUME TapInv, RegularKeymap, ReleaseOfEarlierKey
  PROVE  TapInv' /\ LayersKept
  <1> DEFINE q == waiting_buffer
  <1>0. /\ PressedState /\ tapping_key.count = 0 /\ ~IS_NOEVENT(keyp)
        /\ keyp.key # tapping_key.key /\ ~keyp.pressed /\ ~waiting_buffer_typed(keyp)
        /\ WITHIN_TAPPING_TERM(keyp, tapping_key)
    BY DEF ReleaseOfEarlierKey, Undecided, IS_TAPPING_RECORD
  <1>1. /\ TypeInv /\ running # "idle" /\ running \in {"event", "buffer"} /\ q \in Seq(Record)
        /\ kb \in Keyboard /\ ZeroCache(kb) /\ keyp \in Record
        /\ tapping_key \in Record /\ tapping_key.pressed /\ UndecidedQueue(q, tapping_key)
        /\ running = "event" => keyp.count = 0
        /\ running = "buffer" => keyp = q[1] /\ WaitsBehind(q, 1, tapping_key)
        /\ Down(Queue, held, tapping_key.key)
    BY <1>0, UndecidedFacts
  <1>2. keyp.key \in Keys /\ keyp.count = 0
    BY <1>1 DEF Record, WaitsBehind, Calm
  <1>3. CASE Retained(keyp)
    <2>1. ~PlainKey(keyp.key)
      BY <1>1, <1>2, <1>3, RegularKinds DEF Retained
    <2>2. Deferred(tapping_key, kb, keyp)
      BY <1>3 DEF ReleaseOfEarlierKey
    <2>3. QED
      BY <1>0, <1>1, <2>1, <2>2, WaitsKept
  <1>4. CASE ~Retained(keyp)
    <2>1. PlainKey(keyp.key)
      <3>1. FixedKey(keyp.key) => Retained(keyp)
        BY <1>1, <1>2, FixedLayer DEF Retained, FixedKey
      <3>2. QED
        BY <1>1, <1>2, <1>4, <3>1, RegularKinds
    <2>2. running = "event"
      <3>1. SUFFICES ASSUME running = "buffer" PROVE FALSE
        BY <1>1
      <3>2. PICK j \in 1..Len(q) : j < 1
        BY <1>0, <1>1, <2>1, <3>1 DEF WaitsBehind
      <3>3. QED
        BY <1>1, <3>2
    <2>3. Absent(q, keyp.key)
      <3>1. SUFFICES ASSUME NEW i \in 1..Len(q), q[i].key = keyp.key PROVE FALSE
        BY DEF Absent
      <3>2. WaitsBehind(q, i, tapping_key)
        BY <1>1, <3>1 DEF UndecidedQueue
      <3>3. PICK j \in 1..Len(q) : q[j].key = keyp.key /\ q[j].pressed
        BY <2>1, <3>1, <3>2 DEF WaitsBehind
      <3>4. QED
        BY <1>0, <3>3 DEF waiting_buffer_typed
    <2>4. keyp = event /\ Queue = Append(q, event) /\ event \in Record
      BY <1>0, <1>1, <2>2, QueueHead
    <2>5. /\ Alternates(q, held)
          /\ \A k : k # keyp.key /\ Down(Queue, held, k) => Down(q, held, k)
      <3>1. Alternates(Queue, held)
        BY DEF TapInv
      <3>2. QED
        BY <1>1, <2>3, <2>4, <3>1, TakenOutOfOrder
    <2>6. PICK n : n = process_record(kb, keyp)
      OBVIOUS
    <2>7. Processed(kb, keyp, n)
      BY <1>1, <2>6, ProcessRecordEffect
    <2>8. /\ Owned(kb, tapping_key, Queue, held) => Owned(n, tapping_key, q, held)
          /\ LayersOwned(kb, tapping_key, Queue, held) => LayersOwned(n, tapping_key, q, held)
          /\ ZeroCache(n)
      <3>1. StayDown(Queue, held, q, held, keyp.key)
        BY <2>5 DEF StayDown
      <3>2. QED
        BY <1>0, <1>1, <1>2, <2>7, <3>1, OwnedProcessed
    <2>9. /\ tapping_key' = tapping_key /\ kb' = n /\ waiting_buffer' = q /\ held' = held
          /\ running' = IF q = <<>> THEN "idle" ELSE "buffer"
          /\ event' = NoRecord
      BY <1>4, <2>2, <2>6 DEF ReleaseOfEarlierKey, Consumed
    <2>10. Queue' = q
      BY <2>9 DEF Queue
    <2>11. TypeInv'
      BY <1>1, ProcessTappingType DEF process_tapping
    <2>12. Down(q, held, tapping_key.key)
      BY <1>0, <1>1, <2>5
    <2> HIDE DEF q
    <2>13. TapInv'
      <3>1. PhaseOK(waiting_buffer, tapping_key) /\ Owned(kb, tapping_key, Queue, held)
        BY DEF TapInv
      <3>2. /\ PhaseOK(waiting_buffer', tapping_key') /\ ZeroCache(kb')
            /\ Owned(kb', tapping_key', Queue', held') /\ Alternates(Queue', held')
            /\ Down(Queue', held', tapping_key'.key) /\ event'.count = 0
            /\ (running' # "buffer" => waiting_buffer' = <<>>)
        BY <2>5, <2>8, <2>9, <2>10, <2>12, <3>1, NoRecordFacts DEF q
      <3>3. QED
        BY <2>11, <3>2 DEF TapInv
    <2>14. LayersKept
      BY <2>8, <2>9, <2>10 DEF LayersKept
    <2>15. QED
      BY <2>13, <2>14
  <1>5. QED
    BY <1>3, <1>4

-----------------------------------------------------------------------------
(* The environment. *)

(* A key changes: its event is put behind what waits. *)
LEMMA KeyEventKept ==
  ASSUME TapInv, RegularKeymap, NEW key \in Keys, NEW d \in 0..MaxGap, KeyEvent(key, d)
  PROVE  TapInv' /\ LayersKept
  <1> DEFINE q == waiting_buffer
             t == (now + d) % TIMER_RANGE
  <1>1. /\ running = "idle" /\ running' = "event" /\ tapping_key' = tapping_key
        /\ waiting_buffer' = q /\ event' = MAKE_KEYEVENT(key, key \notin held, t)
        /\ held' = IF key \notin held THEN held \cup {key} ELSE held \ {key}
        /\ kb' = IF key \notin held THEN update_source_layers_cache(kb, key) ELSE kb
    BY DEF KeyEvent
  <1>2. /\ TypeInv /\ kb \in Keyboard /\ ZeroCache(kb) /\ q \in Seq(Record)
    BY InvFacts
  <1>3. TypeInv'
    BY <1>2, EnvironmentType
  <1>4. /\ event'.key = key /\ (event'.pressed <=> key \notin held) /\ event'.count = 0
    BY <1>1 DEF MAKE_KEYEVENT
  <1>5. event' \in Record /\ Queue' = Append(q, event')
    <2>1. event'.key # NoKey
      BY <1>4, TappingAssumption
    <2>2. event' \in Events
      BY <1>3 DEF TypeInv, TypeOK, Events
    <2>3. event' \in Record
      BY <2>1, <2>2 DEF Events, MAKE_TICK_EVENT, MAKE_KEYEVENT
    <2>4. QED
      BY <1>1, <2>1, <2>3 DEF Queue, IS_NOEVENT
  <1>6. Queue = q
    BY <1>1 DEF Queue
  <1> HIDE DEF q
  <1>7. /\ event'.pressed <=> event'.key \notin held
        /\ event'.pressed <=> event'.key \in held'
        /\ \A j : j # event'.key => (j \in held' <=> j \in held)
    BY <1>1, <1>4
  <1>8. Alternates(q, held)
    BY <1>6 DEF TapInv
  <1>9. Alternates(Queue', held')
    BY <1>2, <1>5, <1>7, <1>8, AlternatesAppend
  <1>10. \A k : Down(q, held, k) => Down(Queue', held', k)
    BY <1>2, <1>5, <1>7, DownAppend
  <1>11. ZeroCache(kb') /\ kb'.codes = kb.codes /\ kb'.mods = kb.mods /\ kb'.layers = kb.layers
         /\ \A j \in Keys : PlainKey(j) /\ Down(q, held, j) => kb'.cache[j] = kb.cache[j]
    <2>1. CASE key \notin held
      <3>1. PICK l : l = layer_switch_get_layer(kb, key)
        OBVIOUS
      <3>2. /\ kb' = [kb EXCEPT !.cache = [kb.cache EXCEPT ![key] = l]]
        BY <1>1, <2>1, <3>1 DEF update_source_layers_cache
      <3>3. /\ kb'.cache = [kb.cache EXCEPT ![key] = l]
            /\ kb'.codes = kb.codes /\ kb'.mods = kb.mods /\ kb'.layers = kb.layers
            /\ kb.cache \in [Keys -> Layers]
        BY <1>2, <3>2 DEF Keyboard
      <3>4. kb'.cache[key] = l /\ \A j \in Keys : j # key => kb'.cache[j] = kb.cache[j]
        BY <3>3
      <3>5. FixedKey(key) => l = 0
        BY <1>2, <3>1, FixedLayer
      <3>6. ZeroCache(kb')
        BY <1>2, <3>4, <3>5 DEF ZeroCache
      <3>7. PlainKey(key) => ~Down(q, held, key)
        <4>1. SUFFICES ASSUME PlainKey(key), Down(q, held, key) PROVE FALSE
          OBVIOUS
        <4>2. PICK i \in 1..Len(q) : /\ q[i].key = key /\ ~q[i].pressed
                                     /\ \A j \in 1..Len(q) : j < i => q[j].key # key
          BY <2>1, <4>1 DEF Down
        <4>3. WaitsBehind(q, i, tapping_key)
          <5>1. q # <<>>
            BY <1>2, <4>2
          <5>2. UndecidedQueue(q, tapping_key)
            BY <1>1, <5>1, InvFacts DEF q
          <5>3. QED
            BY <4>2, <5>2 DEF UndecidedQueue
        <4>4. QED
          BY <4>1, <4>2, <4>3 DEF WaitsBehind
      <3>8. QED
        BY <3>3, <3>4, <3>6, <3>7
    <2>2. CASE key \in held
      BY <1>1, <1>2, <2>2
    <2>3. QED
      BY <2>1, <2>2
  <1>12. /\ Owned(kb, tapping_key, q, held) => Owned(kb', tapping_key, Queue', held')
         /\ LayersOwned(kb, tapping_key, q, held) => LayersOwned(kb', tapping_key, Queue', held')
    BY <1>10, <1>11, OwnedUnchanged
  <1>13. TapInv'
    <2>1. /\ PhaseOK(q, tapping_key) /\ Owned(kb, tapping_key, q, held)
          /\ tapping_key.pressed => Down(q, held, tapping_key.key)
          /\ q # <<>> => Undec(tapping_key)
      BY <1>1, <1>6 DEF TapInv, q
    <2>2. /\ PhaseOK(waiting_buffer', tapping_key') /\ ZeroCache(kb')
          /\ Owned(kb', tapping_key', Queue', held')
          /\ tapping_key'.pressed => Down(Queue', held', tapping_key'.key)
          /\ waiting_buffer' # <<>> => Undec(tapping_key')
      BY <1>1, <1>10, <1>11, <1>12, <2>1 DEF q
    <2>3. QED
      BY <1>3, <1>4, <1>9, <2>2 DEF TapInv
  <1>14. LayersKept
    BY <1>1, <1>6, <1>12 DEF LayersKept
  <1>15. QED
    BY <1>13, <1>14

LEMMA TickEventKept ==
  ASSUME TapInv, Tick
  PROVE  TapInv' /\ LayersKept
  <1>1. PICK d \in 1..MaxGap : TickEvent(d)
    BY DEF Tick
  <1>2. /\ running = "idle" /\ running' = "event" /\ tapping_key' = tapping_key
        /\ waiting_buffer' = waiting_buffer /\ held' = held /\ kb' = kb
        /\ event'.key = NoKey /\ event'.count = 0
    BY <1>1 DEF TickEvent, MAKE_TICK_EVENT, MAKE_KEYEVENT
  <1>3. Queue' = Queue
    BY <1>2 DEF Queue, IS_NOEVENT
  <1>4. TypeInv'
    BY <1>1, InvFacts, EnvironmentType DEF Tick
  <1>5. TapInv'
    BY <1>2, <1>3, <1>4 DEF TapInv
  <1>6. LayersKept
    BY <1>2, <1>3 DEF LayersKept
  <1>7. QED
    BY <1>5, <1>6

-----------------------------------------------------------------------------
(* Every step keeps the invariant. *)
LEMMA TapStep ==
  ASSUME TapInv, RegularKeymap, DecidedAtOnce, [Next]_vars
  PROVE  TapInv' /\ LayersKept
  <1>1. CASE process_tapping
    <2>1. CASE TickIgnored \/ StartTap \/ RegularKey
      BY <2>1, TickIgnoredKept, ResetKept
    <2>2. CASE FirstTap \/ NestedTap \/ ReleaseOfEarlierKey \/ Interrupted \/ TimedOut
      BY <2>2, FirstTapKept, NestedTapKept, ReleaseOfEarlierKeyKept, InterruptedKept, TimedOutKept
    <2>3. CASE TapRelease \/ NextTapKey \/ OtherKeyDuringTap
      BY <2>3, TapReleaseKept, NextTapKeyKept, OtherKeyDuringTapKept
    <2>4. CASE SequentialTap \/ OtherKeyAfterTap \/ TapForgotten
      BY <2>4, SequentialTapKept, OtherKeyAfterTapKept, TapForgottenKept
    <2>5. QED
      BY <1>1, <2>1, <2>2, <2>3, <2>4 DEF process_tapping
  <1>2. CASE \E key \in Keys, d \in 0..MaxGap : KeyEvent(key, d)
    BY <1>2, KeyEventKept
  <1>3. CASE Tick
    BY <1>3, TickEventKept
  <1>4. CASE UNCHANGED vars
    <2>1. /\ UNCHANGED <<held, changed, now, running, event, tapping_key, waiting_buffer, kb>>
      BY <1>4 DEF vars
    <2>2. Queue' = Queue
      BY <2>1 DEF Queue
    <2>3. TypeInv'
      BY <1>4, InvFacts, TypeInductive
    <2>4. TapInv'
      BY <2>1, <2>2, <2>3 DEF TapInv
    <2>5. LayersKept
      BY <2>1, <2>2 DEF LayersKept
    <2>6. QED
      BY <2>4, <2>5
  <1>5. QED
    BY <1>1, <1>2, <1>3, <1>4 DEF Next

LEMMA TapInitially ==
  ASSUME Init
  PROVE  TapInv /\ LayersOwned(kb, tapping_key, Queue, held)
  <1>1. /\ held = {} /\ running = "idle" /\ event = NoRecord /\ tapping_key = NoRecord
        /\ waiting_buffer = <<>>
        /\ kb = [layers |-> {}, cache |-> [k \in Keys |-> 0], codes |-> {}, mods |-> {}]
    BY DEF Init
  <1>2. kb.layers = {} /\ kb.codes = {} /\ kb.mods = {} /\ \A k \in Keys : kb.cache[k] = 0
    BY <1>1
  <1>3. Queue = <<>>
    BY <1>1 DEF Queue
  <1>4. PhaseOK(<<>>, NoRecord)
    BY NoRecordFacts DEF PhaseOK, DecidedQueue
  <1>5. Alternates(<<>>, held)
    BY DEF Alternates
  <1>6. Owned(kb, tapping_key, Queue, held) /\ LayersOwned(kb, tapping_key, Queue, held)
    BY <1>2 DEF Owned, CodesOwned, ModsOwned, LayersOwned
  <1>7. ZeroCache(kb) /\ event.count = 0 /\ ~tapping_key.pressed
    BY <1>1, <1>2, NoRecordFacts DEF ZeroCache
  <1>8. TypeInv
    BY TypeInitially
  <1>9. QED
    BY <1>1, <1>3, <1>4, <1>5, <1>6, <1>7, <1>8 DEF TapInv

(* At rest no key is down, and nothing is owned. *)
LEMMA NothingOwned ==
  ASSUME TapInv, running = "idle", held = {}, waiting_buffer = <<>>
  PROVE  /\ kb.codes = {} /\ kb.mods = {}
         /\ LayersOwned(kb, tapping_key, Queue, held) => kb.layers = {}
  <1>1. Queue = <<>>
    BY DEF Queue
  <1>2. \A k : ~Down(<<>>, {}, k)
    BY DEF Down, Absent
  <1>3. ~tapping_key.pressed
    BY <1>1, <1>2 DEF TapInv
  <1>4. \A k, c : ~Registers(kb, Queue, held, k, c)
    BY <1>1, <1>2 DEF Registers
  <1>5. \A k : ~Holds(tapping_key, Queue, held, k)
    BY <1>1, <1>2 DEF Holds
  <1>6. CodesOwned(kb, tapping_key, Queue, held) /\ ModsOwned(kb, tapping_key, Queue, held)
    BY DEF TapInv, Owned
  <1>7. kb.codes = {}
    BY <1>3, <1>4, <1>6 DEF CodesOwned, Taps
  <1>8. kb.mods = {}
    BY <1>5, <1>6 DEF ModsOwned
  <1>9. LayersOwned(kb, tapping_key, Queue, held) => kb.layers = {}
    BY <1>5 DEF LayersOwned
  <1>10. QED
    BY <1>7, <1>8, <1>9

(* No key is stuck, whatever is tapped or held, delayed or interrupted: when *)
(* every key is up and no event waits, the report is empty.  A buffer that   *)
(* overflows clears the report.  TLC finds a stuck key without either        *)
(* hypothesis: with a key that is plain on one layer and a modifier on       *)
(* another its release may be looked up on the wrong one, and without hold   *)
(* on other key press a second tap-hold key, or under permissive hold a      *)
(* modifier key, may wait behind the undecided one and be overtaken.         *)
THEOREM KeysAreReleased ==
  ASSUME RegularKeymap, DecidedAtOnce
  PROVE  Spec => []NoStuckKeys
  <1>1. Init => TapInv
    BY TapInitially
  <1>2. TapInv /\ [Next]_vars => TapInv'
    BY TapStep
  <1>3. TapInv => NoStuckKeys
    BY NothingOwned DEF NoStuckKeys
  <1>4. QED
    BY <1>1, <1>2, <1>3, PTL DEF Spec

(* No layer is stuck either, unless the waiting buffer overflows: then       *)
(* clear_keyboard leaves the layers on whose releases are dropped.           *)
THEOREM LayersAreReleased ==
  ASSUME RegularKeymap, DecidedAtOnce
  PROVE  Spec /\ []Room => []NoStuckLayers
  <1> DEFINE LayerInv == TapInv /\ LayersOwned(kb, tapping_key, Queue, held)
  <1>1. Init => LayerInv
    BY TapInitially
  <1>2. Room /\ LayerInv /\ [Next]_vars => LayerInv'
    BY TapStep DEF LayersKept
  <1>3. LayerInv => NoStuckLayers
    BY NothingOwned DEF NoStuckLayers
  <1> HIDE DEF LayerInv
  <1>4. QED
    BY <1>1, <1>2, <1>3, PTL DEF Spec

(* Hold on other key press keeps the buffer short: behind an undecided key   *)
(* wait only releases, of different keys with a modifier or a layer.         *)
FixedKeys == {k \in Keys : FixedKey(k)}
LEMMA BufferHasRoom ==
  ASSUME TapInv, RegularKeymap, HOLD_ON_OTHER_KEY_PRESS,
         IsFiniteSet(FixedKeys), Cardinality(FixedKeys) < WAITING_BUFFER_SIZE
  PROVE  Room
  <1> DEFINE q == waiting_buffer
             others == FixedKeys \ {tapping_key.key}
  <1>1. /\ TypeInv /\ q \in Seq(Record) /\ kb \in Keyboard
        /\ ~IS_NOEVENT(tapping_key) => tapping_key.key \in Keys /\ TapKey(tapping_key.key)
        /\ Undec(tapping_key) => UndecidedQueue(q, tapping_key)
        /\ ~Undec(tapping_key) /\ running = "event" => q = <<>>
    BY InvFacts
  <1>2. WAITING_BUFFER_SIZE \in Nat /\ WAITING_BUFFER_SIZE > 1 /\ Len(q) \in Nat
    BY <1>1, TappingAssumption
  <1>3. SUFFICES ASSUME running = "event" PROVE Len(q) + 1 < WAITING_BUFFER_SIZE
    BY <1>2 DEF Room, BufferFull
  <1>4. CASE ~Undec(tapping_key)
    BY <1>1, <1>2, <1>3, <1>4
  <1>5. CASE Undec(tapping_key)
    <2>1. /\ UndecidedQueue(q, tapping_key) /\ tapping_key.key \in FixedKeys
      BY <1>1, <1>5, RegularKinds DEF Undec, FixedKeys
    <2>2. ASSUME NEW i \in 1..Len(q) PROVE ~q[i].pressed /\ q[i].key \in others
      <3>0. q[i] \in Record
        BY <1>1, <2>2
      <3>1. q[i].key \in Keys
        BY <3>0 DEF Record
      <3>2. \A j \in 1..Len(q) : ~q[j].pressed
        BY <2>1 DEF UndecidedQueue, WaitsBehind
      <3>3. ~PlainKey(q[i].key) /\ q[i].key # tapping_key.key
        BY <2>1, <2>2, <3>2 DEF UndecidedQueue, WaitsBehind
      <3>4. FixedKey(q[i].key)
        BY <3>1, <3>3 DEF RegularKeymap
      <3>5. QED
        BY <2>2, <3>1, <3>2, <3>3, <3>4 DEF FixedKeys
    <2>3. /\ Queue \in Seq(Record) /\ Len(Queue) \in Nat /\ Len(q) =< Len(Queue)
          /\ \A i \in 1..Len(q) : Queue[i] = q[i]
      <3>1. CASE IS_NOEVENT(event)
        BY <1>1, <3>1 DEF Queue
      <3>2. CASE ~IS_NOEVENT(event)
        <4>1. keyp = event
          BY <1>3 DEF keyp
        <4>2. event \in Record /\ Queue = Append(q, event)
          BY <1>1, <1>3, <3>2, <4>1, QueueHead
        <4>3. QED
          BY <1>1, <4>2, AppendRecords
      <3>3. QED
        BY <3>1, <3>2
    <2>4. ASSUME NEW i \in 1..Len(q), NEW j \in 1..Len(q), i < j PROVE q[i].key # q[j].key
      <3>1. SUFFICES ASSUME q[i].key = q[j].key PROVE FALSE
        OBVIOUS
      <3> DEFINE S == {m \in 1..Len(q) : i < m /\ q[m].key = q[i].key}
      <3>2. S \subseteq Nat /\ S # {}
        BY <1>2, <2>4, <3>1
      <3>3. PICK l \in S : \A m \in S : l =< m
        BY <3>2, LeastNatural
      <3>4. l \in 1..Len(q) /\ i < l /\ q[l].key = q[i].key
        OBVIOUS
      <3>5. i \in 1..Len(Queue) /\ l \in 1..Len(Queue) /\ Queue[i] = q[i] /\ Queue[l] = q[l]
        BY <1>2, <2>3, <2>4, <3>4
      <3>6. ASSUME NEW m \in 1..Len(Queue), i < m, m < l PROVE Queue[m].key # Queue[i].key
        <4>1. m \in 1..Len(q) /\ ~(l =< m) /\ Queue[m] = q[m]
          BY <1>2, <2>3, <3>4, <3>6
        <4>2. m \notin S
          BY <3>3, <4>1
        <4>3. QED
          BY <3>5, <3>6, <4>1, <4>2
      <3>7. Alternates(Queue, held)
        BY DEF TapInv
      <3> HIDE DEF S
      <3>8. Queue[i].pressed <=> ~Queue[l].pressed
        BY <3>4, <3>5, <3>6, <3>7, Zenon DEF Alternates
      <3>9. QED
        BY <2>2, <2>4, <3>4, <3>5, <3>8
    <2>5. IsFiniteSet(others) /\ Cardinality(others) = Cardinality(FixedKeys) - 1
      BY <2>1, FS_RemoveElement
    <2>6. IsFiniteSet(1..Len(q)) /\ Cardinality(1..Len(q)) = Len(q)
      <3>1. PICK n \in Nat : n = Len(q)
        BY <1>2
      <3>2. 1 \in Int /\ n \in Int
        OBVIOUS
      <3>3. IsFiniteSet(1..n) /\ Cardinality(1..n) = IF 1 > n THEN 0 ELSE n - 1 + 1
        BY <3>2, FS_Interval
      <3>4. Cardinality(1..n) = n
        BY <3>3
      <3>5. QED
        BY <3>1, <3>3, <3>4
    <2>7. Cardinality(others) \in Nat /\ Cardinality(FixedKeys) \in Nat
      BY <2>5, FS_CardinalityType
    <2> DEFINE f == [i \in 1..Len(q) |-> q[i].key]
    <2>8. f \in [1..Len(q) -> others]
      BY <2>2
    <2>9. ~(Cardinality(others) < Cardinality(1..Len(q)))
      <3>1. SUFFICES ASSUME Cardinality(others) < Cardinality(1..Len(q)) PROVE FALSE
        OBVIOUS
      <3> HIDE DEF others, f
      <3>2. PICK D : D = 1..Len(q)
        OBVIOUS
      <3>3. \E x, y \in D : x # y /\ f[x] = f[y]
        <4>1. IsFiniteSet(D) /\ Cardinality(others) < Cardinality(D) /\ f \in [D -> others]
          BY <2>6, <2>8, <3>1, <3>2
        <4>2. QED
          BY <2>5, <4>1, FS_PigeonHole
      <3>4. PICK x \in 1..Len(q), y \in 1..Len(q) : x # y /\ q[x].key = q[y].key
        BY <3>2, <3>3 DEF f
      <3>5. x < y \/ y < x
        BY <1>2, <3>4
      <3>6. QED
        BY <2>4, <3>4, <3>5
    <2>10. QED
      BY <1>2, <2>5, <2>6, <2>7, <2>9
  <1>6. QED
    BY <1>4, <1>5

(* With hold on other key press and fewer modifier, layer and tap-hold keys  *)
(* than the waiting buffer has places, no layer is ever stuck.               *)
THEOREM LayersAlwaysReleased ==
  ASSUME RegularKeymap, HOLD_ON_OTHER_KEY_PRESS,
         IsFiniteSet(FixedKeys), Cardinality(FixedKeys) < WAITING_BUFFER_SIZE
  PROVE  Spec => []NoStuckLayers
  <1>0. DecidedAtOnce
    BY DEF DecidedAtOnce
  <1>1. Init => TapInv
    BY TapInitially
  <1>2. TapInv /\ [Next]_vars => TapInv'
    BY <1>0, TapStep
  <1>3. TapInv => Room
    BY BufferHasRoom
  <1>4. Spec /\ []Room => []NoStuckLayers
    BY <1>0, LayersAreReleased
  <1>5. QED
    BY <1>1, <1>2, <1>3, <1>4, PTL DEF Spec

(* Permissive hold takes a key as held only when another key was pressed and *)
(* released after it: the press of the key whose release decides waits in    *)
(* the buffer.  Without DecidedAtOnce, a release that was retained can       *)
(* decide when it is looked at again.                                        *)
THEOREM HeldByNestedTaps ==
  ASSUME RegularKeymap, DecidedAtOnce
  PROVE  Spec => HeldByTappedKey
  <1> DEFINE Nested == NestedTap /\ PERMISSIVE_HOLD =>
                         \E i \in 1..(IF running = "event" THEN Len(waiting_buffer) ELSE 0) :
                           waiting_buffer[i].key = keyp.key /\ waiting_buffer[i].pressed
  <1>1. Init => TapInv
    BY TapInitially
  <1>2. TapInv /\ [Next]_vars => TapInv'
    BY TapStep
  <1>3. TapInv => Nested
    <2>1. SUFFICES ASSUME TapInv, NestedTap, PERMISSIVE_HOLD PROVE Nested
      BY DEF Nested
    <2>2. running = "event"
      BY <2>1, NestedTapComes
    <2>3. /\ waiting_buffer_typed(keyp) /\ ~keyp.pressed
          /\ PressedState /\ tapping_key.count = 0 /\ ~IS_NOEVENT(keyp)
      BY <2>1 DEF NestedTap, Undecided
    <2>4. keyp \in Record /\ waiting_buffer \in Seq(Record)
      BY <2>1, <2>3, UndecidedFacts
    <2>5. PICK i \in 1..Len(waiting_buffer) :
            waiting_buffer[i].key = keyp.key /\ waiting_buffer[i].pressed # keyp.pressed
      BY <2>3 DEF waiting_buffer_typed
    <2>6. waiting_buffer[i] \in Record
      BY <2>4, <2>5
    <2>7. waiting_buffer[i].pressed
      BY <2>3, <2>4, <2>5, <2>6, OppositeEvents
    <2>8. QED
      BY <2>2, <2>5, <2>7 DEF Nested
  <1>4. QED
    BY <1>1, <1>2, <1>3, PTL DEF Spec, HeldByTappedKey, Nested
=============================================================================
