------------------------------ MODULE Debounce ------------------------------
(***************************************************************************)
(* Debouncing (quantum/debounce/*.c): the raw matrix of each scan goes     *)
(* through one of the algorithms, which decides when the cooked matrix,    *)
(* the one key events are made from, follows it.  The firmware is built    *)
(* with one algorithm; the model chooses it initially.                     *)
(*                                                                         *)
(* A step is one call of matrix_scan: some time passes, the raw matrix is  *)
(* read, and debounce is called with it.                                   *)
(***************************************************************************)
EXTENDS Integers, FiniteSetsExt

(* An operator whose name ends in _ and a lower-case word is a deliberately *)
(* wrong variant of the definition that follows it, used as a mutant.       *)

CONSTANTS
  Keys, Rows,
  Row,        \* the row of a key
  DEBOUNCE,   \* at least 1 (0 compiles to none.c, except in sym_defer_pr.c)
  ElapsedMax, \* the elapsed time saturates here (UINT8_MAX)
  TimerRange, \* the timer counts modulo this
  MaxGap      \* bound: the longest time between two scans

ASSUME DebounceAssumption ==
  /\ Row \in [Keys -> Rows]
  /\ Keys \cap Rows = {}
  /\ DEBOUNCE \in Nat \ {0}
  /\ ElapsedMax \in Nat
  /\ DEBOUNCE <= ElapsedMax
  /\ MaxGap \in Nat
  /\ TimerRange \in Nat
  /\ DEBOUNCE + MaxGap <= TimerRange

Algorithms == {"none", "sym_defer_g", "sym_defer_pr", "sym_defer_pk",
               "sym_eager_pr", "sym_eager_pk", "asym_eager_defer_pk"}
Time == 0..(TimerRange - 1)
Matrix == [Keys -> BOOLEAN]

VARIABLES
  algo,
  now,
  raw, cooked,
  counter,              \* debounce_counters or countdowns, of keys or of rows
  pressed,              \* debounce_counter_t.pressed of asym_eager_defer_pk
  last_time,            \* debouncing_time in sym_defer_g
  counters_need_update, \* debouncing in sym_defer_g
  quiet,                \* history: for how long the raw state of a key has not changed
  steady                \* history: for how long the cooked state of a key has not changed

vars == <<algo, now, raw, cooked, counter, pressed, last_time, counters_need_update,
          quiet, steady>>

-----------------------------------------------------------------------------

(* What has a debounce counter: a key or a row. *)
Unit(k) == IF algo \in {"sym_defer_pr", "sym_eager_pr"} THEN Row[k] ELSE k
Units == {Unit(k) : k \in Keys}

(* The keys whose changes are debounced together with those of k. *)
Together(k) == IF algo = "sym_defer_g" THEN Keys ELSE {l \in Keys : Unit(l) = Unit(k)}

TIMER_DIFF_FAST(a, b) == (a - b) % TimerRange

(* The elapsed time of a call at time t, as long as counters run. *)
Elapsed(t) ==
  IF counters_need_update THEN Min({TIMER_DIFF_FAST(t, last_time), ElapsedMax}) ELSE 0

(* What the elapsed time leaves of a counter, and the counters it ends. *)
Left_unclamped(u, t) == IF counter[u] # 0 THEN counter[u] - Elapsed(t) ELSE 0
Left(u, t) == IF counter[u] > Elapsed(t) THEN counter[u] - Elapsed(t) ELSE 0
Expired(t) == {u \in Units : counter[u] # 0 /\ Left(u, t) = 0}

(* last_time and counters_need_update after a call that starts the counters  *)
(* in set started.                                                           *)
Timekeeping_notStarted(t, changed, started) ==
  /\ last_time' = IF counters_need_update THEN t ELSE last_time
  /\ counters_need_update' =
       \/ started # {}
       \/ counters_need_update /\ (Elapsed(t) > 0 => \E u \in Units : Left(u, t) # 0)
Timekeeping(t, changed, started) ==
  /\ last_time' = IF counters_need_update \/ changed THEN t ELSE last_time
  /\ counters_need_update' =
       \/ started # {}
       \/ counters_need_update /\ (Elapsed(t) > 0 => \E u \in Units : Left(u, t) # 0)

none(in, changed) ==
  /\ cooked' = IF changed THEN in ELSE cooked
  /\ UNCHANGED <<counter, pressed, last_time, counters_need_update>>

sym_defer_g_notReset(in, t, changed) ==
  LET push == counters_need_update /\ TIMER_DIFF_FAST(t, last_time) >= DEBOUNCE
  IN /\ cooked' = IF push THEN in ELSE cooked
     /\ counters_need_update' = (changed \/ (counters_need_update /\ ~push))
     /\ last_time' = IF changed /\ ~counters_need_update THEN t ELSE last_time
     /\ UNCHANGED <<counter, pressed>>
sym_defer_g(in, t, changed) ==
  LET push == /\ ~changed
              /\ counters_need_update
              /\ TIMER_DIFF_FAST(t, last_time) >= DEBOUNCE
  IN /\ cooked' = IF push THEN in ELSE cooked
     /\ counters_need_update' = (changed \/ (counters_need_update /\ ~push))
     /\ last_time' = IF changed THEN t ELSE last_time
     /\ UNCHANGED <<counter, pressed>>

(* last_raw is the raw matrix of the last call. *)
sym_defer_pr(in, t) ==
  LET elapsed == Min({TIMER_DIFF_FAST(t, last_time), ElapsedMax})
      moved == {r \in Rows : \E k \in Keys : Row[k] = r /\ in[k] # raw[k]}
      pushed == {r \in Rows \ moved : counter[r] # 0 /\ counter[r] <= elapsed}
  IN /\ cooked' = [k \in Keys |-> IF Row[k] \in pushed THEN in[k] ELSE cooked[k]]
     /\ counter' = [u \in Keys \cup Rows |->
                      IF u \in moved THEN DEBOUNCE
                      ELSE IF counter[u] > elapsed THEN counter[u] - elapsed ELSE 0]
     /\ last_time' = t
     /\ UNCHANGED <<pressed, counters_need_update>>

(* update_debounce_counters_and_transfer_if_expired, start_debounce_counters. *)
sym_defer_pk(in, t, changed) ==
  LET shown == [k \in Keys |-> IF k \in Expired(t) THEN in[k] ELSE cooked[k]]
      same == {k \in Keys : changed /\ in[k] = shown[k]}
      started == {k \in Keys : changed /\ in[k] # shown[k] /\ Left(k, t) = 0}
  IN /\ cooked' = shown
     /\ counter' = [u \in Keys \cup Rows |->
                      IF u \in started THEN DEBOUNCE
                      ELSE IF u \in same THEN 0 ELSE Left(u, t)]
     /\ Timekeeping(t, changed, started)
     /\ UNCHANGED pressed

(* update_debounce_counters, transfer_matrix_values: per key or per row. *)
sym_eager_expiryIgnored(in, t, changed) ==
  LET started == {u \in Units :
                    /\ changed
                    /\ Left(u, t) = 0
                    /\ \E k \in Keys : Unit(k) = u /\ in[k] # cooked[k]}
  IN /\ cooked' = [k \in Keys |-> IF Unit(k) \in started THEN in[k] ELSE cooked[k]]
     /\ counter' = [u \in Keys \cup Rows |-> IF u \in started THEN DEBOUNCE ELSE Left(u, t)]
     /\ Timekeeping(t, changed, started)
     /\ UNCHANGED pressed
sym_eager(in, t, changed) ==
  LET started == {u \in Units :
                    /\ changed \/ Expired(t) # {}
                    /\ Left(u, t) = 0
                    /\ \E k \in Keys : Unit(k) = u /\ in[k] # cooked[k]}
  IN /\ cooked' = [k \in Keys |-> IF Unit(k) \in started THEN in[k] ELSE cooked[k]]
     /\ counter' = [u \in Keys \cup Rows |-> IF u \in started THEN DEBOUNCE ELSE Left(u, t)]
     /\ Timekeeping(t, changed, started)
     /\ UNCHANGED pressed

sym_eager_pk(in, t, changed) == sym_eager(in, t, changed)
sym_eager_pr(in, t, changed) == sym_eager(in, t, changed)

(* A counter of a press that expires lets the matrix through again, one of a *)
(* release pushes the release; a release that bounces back is forgotten.     *)
asym_eager_defer_pk(in, t, changed) ==
  LET shown == [k \in Keys |-> IF k \in Expired(t) /\ ~pressed[k] THEN in[k] ELSE cooked[k]]
      transfer == changed \/ \E k \in Expired(t) : pressed[k]
      started == {k \in Keys : transfer /\ in[k] # shown[k] /\ Left(k, t) = 0}
      bounced == {k \in Keys : transfer /\ in[k] = shown[k] /\ ~pressed[k]}
  IN /\ cooked' = [k \in Keys |-> IF k \in started /\ in[k] THEN TRUE ELSE shown[k]]
     /\ pressed' = [k \in Keys |-> IF k \in started THEN in[k] ELSE pressed[k]]
     /\ counter' = [u \in Keys \cup Rows |->
                      IF u \in started THEN DEBOUNCE
                      ELSE IF u \in bounced THEN 0 ELSE Left(u, t)]
     /\ Timekeeping(t, changed, started)

debounce(in, t, changed) ==
  \/ algo = "none" /\ none(in, changed)
  \/ algo = "sym_defer_g" /\ sym_defer_g(in, t, changed)
  \/ algo = "sym_defer_pr" /\ sym_defer_pr(in, t)
  \/ algo = "sym_defer_pk" /\ sym_defer_pk(in, t, changed)
  \/ algo = "sym_eager_pk" /\ sym_eager_pk(in, t, changed)
  \/ algo = "sym_eager_pr" /\ sym_eager_pr(in, t, changed)
  \/ algo = "asym_eager_defer_pk" /\ asym_eager_defer_pk(in, t, changed)

(* The longest it takes until a state that does not change is reported. *)
Latency ==
  CASE algo = "none" -> 0
    [] algo = "asym_eager_defer_pk" -> 2 * DEBOUNCE + MaxGap
    [] OTHER -> DEBOUNCE

(* Bound: longer times are not told apart in the history. *)
HistoryMax == IF Latency > DEBOUNCE THEN Latency ELSE DEBOUNCE

matrix_scan(in, d) ==
  LET t == (now + d) % TimerRange
  IN /\ now' = t
     /\ raw' = in
     /\ debounce(in, t, in # raw)
     /\ quiet' = [k \in Keys |-> IF in[k] # raw[k] THEN 0 ELSE Min({quiet[k] + d, HistoryMax})]
     /\ steady' = [k \in Keys |-> IF cooked'[k] # cooked[k] THEN 0
                                  ELSE Min({steady[k] + d, DEBOUNCE})]
     /\ UNCHANGED algo

Init ==
  /\ algo \in Algorithms
  /\ now = 0
  /\ raw = [k \in Keys |-> FALSE]
  /\ cooked = raw
  /\ counter = [u \in Keys \cup Rows |-> 0]
  /\ pressed = [k \in Keys |-> FALSE]
  /\ last_time = 0
  /\ counters_need_update = FALSE
  /\ quiet = [k \in Keys |-> HistoryMax]
  /\ steady = [k \in Keys |-> DEBOUNCE]

Next == \E in \in Matrix, d \in 0..MaxGap : matrix_scan(in, d)

Spec == Init /\ [][Next]_vars

-----------------------------------------------------------------------------
(* Type invariant. *)
TypeOK ==
  /\ algo \in Algorithms
  /\ now \in Time /\ last_time \in Time
  /\ raw \in Matrix /\ cooked \in Matrix /\ pressed \in Matrix
  /\ counter \in [Keys \cup Rows -> 0..DEBOUNCE]
  /\ counters_need_update \in BOOLEAN
  /\ quiet \in [Keys -> 0..HistoryMax] /\ steady \in [Keys -> 0..DEBOUNCE]

Defers(k) ==
  \/ algo \in {"sym_defer_g", "sym_defer_pr", "sym_defer_pk"}
  \/ algo = "asym_eager_defer_pk" /\ cooked[k]
Eager(k) ==
  \/ algo \in {"sym_eager_pr", "sym_eager_pk"}
  \/ algo = "asym_eager_defer_pk" /\ cooked[k]

(* An algorithm that defers a change reports it only when the keys debounced *)
(* together have not changed for DEBOUNCE milliseconds: noise never gets     *)
(* through, whatever the scans' rhythm and the other keys do.                *)
NoiseFiltered ==
  [][\A k \in Keys :
       cooked'[k] # cooked[k] /\ Defers(k) => \A l \in Together(k) : quiet'[l] >= DEBOUNCE]_vars

(* After an eager algorithm has reported a change, it reports no further one *)
(* for DEBOUNCE milliseconds: a bounce is no second key press.               *)
ChatterFiltered ==
  [][\A k \in Keys :
       cooked'[k] # cooked[k] /\ Eager(k) =>
         \A l \in Together(k) :
           steady[l] + TIMER_DIFF_FAST(now', now) >= DEBOUNCE]_vars

(* No key is stuck: a state that lasts is reported within the latency of the *)
(* algorithm, although counters only run while one is needed and changes     *)
(* seen meanwhile were ignored.                                              *)
Follows ==
  \A k \in Keys : (\A l \in Together(k) : quiet[l] >= Latency) => cooked[k] = raw[k]
=============================================================================
