--------------------------- MODULE DebounceProofs ---------------------------
(***************************************************************************)
(* All the debounce algorithms, for every number of keys and rows, every   *)
(* DEBOUNCE, every width of the timer and every rhythm of the scans that   *)
(* fits into it: types, and that noise is filtered, a bounce is no second  *)
(* press, and a state that lasts is reported.                              *)
(***************************************************************************)
EXTENDS Debounce, NumberLemmas, TLAPS

(* For how long debouncing has been going on in sym_defer_g. *)
Age == TIMER_DIFF_FAST(now, last_time)

Counting == algo \in {"sym_defer_pk", "sym_eager_pr", "sym_eager_pk", "asym_eager_defer_pk"}

(* Counters run only while one is needed, and then last_time is the time of  *)
(* the last scan; sym_defer_pr takes it in every scan.                       *)
TimeInv ==
  /\ algo = "sym_defer_pr" => last_time = now
  /\ Counting /\ counters_need_update => last_time = now
  /\ Counting /\ ~counters_need_update => \A u \in Units : counter[u] = 0

(* sym_defer_g: debouncing_time is when the last of the keys changed. *)
GlobalInv ==
  /\ counters_need_update => /\ Age < DEBOUNCE
                             /\ \A l \in Keys : quiet[l] >= Age
                             /\ \E l \in Keys : quiet[l] = Age
  /\ ~counters_need_update => cooked = raw

(* sym_defer_pr: the counter of a row tells when the last of its keys changed. *)
RowInv ==
  \A k \in Keys :
    IF counter[Row[k]] = 0 THEN cooked[k] = raw[k]
    ELSE /\ quiet[k] >= DEBOUNCE - counter[Row[k]]
         /\ \E l \in Keys : Row[l] = Row[k] /\ quiet[l] = DEBOUNCE - counter[Row[k]]

(* sym_defer_pk: a counter runs exactly while a change is pending. *)
KeyInv ==
  \A k \in Keys :
    IF counter[k] = 0 THEN cooked[k] = raw[k]
    ELSE cooked[k] # raw[k] /\ quiet[k] = DEBOUNCE - counter[k]

(* sym_eager: the counter tells when its key or row was reported last; what  *)
(* is not reported yet has changed since.                                    *)
EagerInv ==
  \A k \in Keys :
    /\ steady[k] >= DEBOUNCE - counter[Unit(k)]
    /\ cooked[k] # raw[k] => counter[Unit(k)] # 0 /\ quiet[k] <= DEBOUNCE - counter[Unit(k)]

(* asym_eager_defer_pk: a counter runs after a press, or until a release is  *)
(* reported, whose start may have waited for the former.  For one key, c, p, *)
(* w, o, q and s are its counter, pressed, raw, cooked, quiet and steady.    *)
AsymKey(c, p, w, o, q, s) ==
  /\ ~o => c = 0 /\ ~w
  /\ o /\ p => s >= DEBOUNCE - c
  /\ o /\ ~p => s >= DEBOUNCE
  /\ o /\ ~w => c # 0
  /\ c # 0 /\ p /\ ~w => q <= DEBOUNCE - c
  /\ c # 0 /\ ~p => ~w /\ q >= DEBOUNCE - c /\ q < 2 * DEBOUNCE + MaxGap - c

AsymInv ==
  \A k \in Keys : AsymKey(counter[k], pressed[k], raw[k], cooked[k], quiet[k], steady[k])

Inv ==
  /\ TimeInv
  /\ algo = "none" => cooked = raw
  /\ algo = "sym_defer_g" => GlobalInv
  /\ algo = "sym_defer_pr" => RowInv
  /\ algo = "sym_defer_pk" => KeyInv
  /\ algo \in {"sym_eager_pr", "sym_eager_pk"} => EagerInv
  /\ algo = "asym_eager_defer_pk" => AsymInv

-----------------------------------------------------------------------------
(* The bounds on the histories. *)
LEMMA HistoryBounds ==
  ASSUME TypeOK
  PROVE  /\ Latency \in Nat /\ HistoryMax \in Nat
         /\ HistoryMax >= DEBOUNCE /\ HistoryMax >= Latency
         /\ algo # "asym_eager_defer_pk" => HistoryMax = DEBOUNCE
         /\ algo = "asym_eager_defer_pk" => HistoryMax = 2 * DEBOUNCE + MaxGap
  <1>1. DEBOUNCE \in Nat /\ DEBOUNCE > 0 /\ MaxGap \in Nat
    BY DebounceAssumption
  <1>2. CASE algo = "none"
    BY <1>1, <1>2 DEF Latency, HistoryMax
  <1>3. CASE algo = "asym_eager_defer_pk"
    BY <1>1, <1>3 DEF Latency, HistoryMax
  <1>4. CASE algo # "none" /\ algo # "asym_eager_defer_pk"
    <2>1. Latency = DEBOUNCE
      BY <1>4 DEF Latency
    <2>2. QED
      BY <1>1, <1>4, <2>1 DEF HistoryMax
  <1>5. QED
    BY <1>2, <1>3, <1>4

(* What every scan does: the clock and the histories. *)
LEMMA ScanFacts ==
  ASSUME TypeOK, NEW in \in Matrix, NEW d \in 0..MaxGap, matrix_scan(in, d)
  PROVE  /\ now' = (now + d) % TimerRange
         /\ now' \in Time
         /\ TIMER_DIFF_FAST(now', now) = d
         /\ raw' = in /\ algo' = algo
         /\ debounce(in, now', in # raw)
         /\ \A k \in Keys : in[k] # raw[k] => quiet'[k] = 0
         /\ \A k \in Keys : in[k] = raw[k] =>
              quiet'[k] = IF quiet[k] + d <= HistoryMax THEN quiet[k] + d ELSE HistoryMax
         /\ \A k \in Keys : cooked'[k] # cooked[k] => steady'[k] = 0
         /\ \A k \in Keys : cooked'[k] = cooked[k] =>
              steady'[k] = IF steady[k] + d <= DEBOUNCE THEN steady[k] + d ELSE DEBOUNCE
         /\ quiet' \in [Keys -> 0..HistoryMax] /\ steady' \in [Keys -> 0..DEBOUNCE]
  <1>1. /\ TimerRange \in Nat \ {0} /\ d \in 0..(TimerRange - 1) /\ now \in 0..(TimerRange - 1)
        /\ d \in Nat /\ DEBOUNCE \in Nat
    BY DebounceAssumption DEF TypeOK, Time
  <1>2. now' = (now + d) % TimerRange /\ raw' = in /\ algo' = algo /\ debounce(in, now', in # raw)
    BY DEF matrix_scan
  <1>3. now' \in Time
    BY <1>1, <1>2, ModInRange DEF Time
  <1>4. TIMER_DIFF_FAST(now', now) = d
    BY <1>1, <1>2, TimerAdvance DEF TIMER_DIFF_FAST
  <1>5. HistoryMax \in Nat
    BY HistoryBounds
  <1>6. ASSUME NEW k \in Keys
        PROVE  /\ Min({quiet[k] + d, HistoryMax}) \in 0..HistoryMax
               /\ Min({steady[k] + d, DEBOUNCE}) \in 0..DEBOUNCE
               /\ Min({quiet[k] + d, HistoryMax})
                    = IF quiet[k] + d <= HistoryMax THEN quiet[k] + d ELSE HistoryMax
               /\ Min({steady[k] + d, DEBOUNCE})
                    = IF steady[k] + d <= DEBOUNCE THEN steady[k] + d ELSE DEBOUNCE
    <2>1. quiet[k] \in 0..HistoryMax /\ steady[k] \in 0..DEBOUNCE
      BY DEF TypeOK
    <2>2. quiet[k] + d \in Int /\ steady[k] + d \in Int /\ DEBOUNCE \in Int /\ HistoryMax \in Int
      BY <1>1, <1>5, <2>1
    <2>3. /\ Min({quiet[k] + d, HistoryMax})
                = IF quiet[k] + d <= HistoryMax THEN quiet[k] + d ELSE HistoryMax
          /\ Min({steady[k] + d, DEBOUNCE})
                = IF steady[k] + d <= DEBOUNCE THEN steady[k] + d ELSE DEBOUNCE
      BY <2>2, MinOfTwo
    <2>4. QED
      BY <1>1, <1>5, <2>1, <2>3
  <1>7. /\ quiet' = [k \in Keys |-> IF in[k] # raw[k] THEN 0 ELSE Min({quiet[k] + d, HistoryMax})]
        /\ steady' = [k \in Keys |-> IF cooked'[k] # cooked[k] THEN 0
                                     ELSE Min({steady[k] + d, DEBOUNCE})]
    BY DEF matrix_scan
  <1>8. ASSUME NEW k \in Keys
        PROVE  /\ in[k] # raw[k] => quiet'[k] = 0
               /\ in[k] = raw[k] =>
                    quiet'[k] = IF quiet[k] + d <= HistoryMax THEN quiet[k] + d ELSE HistoryMax
               /\ cooked'[k] # cooked[k] => steady'[k] = 0
               /\ cooked'[k] = cooked[k] =>
                    steady'[k] = IF steady[k] + d <= DEBOUNCE THEN steady[k] + d ELSE DEBOUNCE
               /\ quiet'[k] \in 0..HistoryMax /\ steady'[k] \in 0..DEBOUNCE
    <2>1. /\ quiet'[k] = IF in[k] # raw[k] THEN 0 ELSE Min({quiet[k] + d, HistoryMax})
          /\ steady'[k] = IF cooked'[k] # cooked[k] THEN 0 ELSE Min({steady[k] + d, DEBOUNCE})
      BY <1>7
    <2>2. QED
      BY <1>1, <1>5, <1>6, <2>1
  <1>9. quiet' \in [Keys -> 0..HistoryMax] /\ steady' \in [Keys -> 0..DEBOUNCE]
    <2>1. /\ quiet' = [k \in Keys |-> quiet'[k]] /\ \A k \in Keys : quiet'[k] \in 0..HistoryMax
          /\ steady' = [k \in Keys |-> steady'[k]] /\ \A k \in Keys : steady'[k] \in 0..DEBOUNCE
      BY <1>7, <1>8, Zenon
    <2>2. QED
      BY <2>1, Zenon
  <1>10. QED
    BY <1>2, <1>3, <1>4, <1>8, <1>9

(* What the elapsed time leaves of a counter.  The elapsed time is cut off   *)
(* only where it ends every counter anyway.                                  *)
LEMMA LeftIs ==
  ASSUME TypeOK, TimeInv, Counting, NEW d \in 0..MaxGap, NEW u \in Units
  PROVE  LET t == (now + d) % TimerRange
         IN Left(u, t) = IF counter[u] > d THEN counter[u] - d ELSE 0
  <1> DEFINE t == (now + d) % TimerRange
  <1>1. /\ TimerRange \in Nat \ {0} /\ d \in 0..(TimerRange - 1) /\ now \in 0..(TimerRange - 1)
        /\ d \in Nat /\ DEBOUNCE \in Nat /\ ElapsedMax \in Nat /\ DEBOUNCE <= ElapsedMax
    BY DebounceAssumption DEF TypeOK, Time
  <1>2. u \in Keys \cup Rows
    BY DebounceAssumption DEF Units, Unit
  <1>3. counter[u] \in 0..DEBOUNCE
    BY <1>2 DEF TypeOK
  <1>4. CASE ~counters_need_update
    BY <1>1, <1>3, <1>4 DEF TimeInv, Left, Elapsed
  <1>5. CASE counters_need_update
    <2>1. last_time = now
      BY <1>5 DEF TimeInv
    <2>2. TIMER_DIFF_FAST(t, last_time) = d
      BY <1>1, <2>1, TimerAdvance DEF TIMER_DIFF_FAST
    <2>3. Elapsed(t) = IF d <= ElapsedMax THEN d ELSE ElapsedMax
      BY <1>1, <1>5, <2>2, MinOfTwo DEF Elapsed
    <2>4. QED
      BY <1>1, <1>3, <2>3 DEF Left
  <1>6. QED
    BY <1>4, <1>5 DEF TypeOK

(* The counters of all algorithms stay in their range. *)
LEMMA LeftType ==
  ASSUME TypeOK, NEW t \in Time, NEW u \in Keys \cup Rows
  PROVE  Left(u, t) \in 0..DEBOUNCE
  <1>1. TimerRange \in Nat \ {0} /\ t \in Int /\ last_time \in Int /\ ElapsedMax \in Nat
        /\ DEBOUNCE \in Nat
    BY DebounceAssumption DEF TypeOK, Time
  <1>2. t - last_time \in Int
    BY <1>1
  <1>3. TIMER_DIFF_FAST(t, last_time) \in Nat
    BY <1>1, <1>2, ModInRange DEF TIMER_DIFF_FAST
  <1>4. Min({TIMER_DIFF_FAST(t, last_time), ElapsedMax}) \in Nat
    BY <1>1, <1>3, MinOfTwo
  <1>5. Elapsed(t) \in Nat
    BY <1>4 DEF Elapsed
  <1>6. counter[u] \in 0..DEBOUNCE
    BY DEF TypeOK
  <1>7. QED
    BY <1>1, <1>5, <1>6 DEF Left

(* Timekeeping keeps the counters running as long as one is not zero. *)
LEMMA TimekeepingInv ==
  ASSUME TypeOK, TimeInv, Counting, NEW d \in 0..MaxGap, NEW changed \in BOOLEAN, NEW started,
         now' = (now + d) % TimerRange, algo' = algo,
         Timekeeping(now', changed, started),
         started # {} => changed \/ counters_need_update,
         \A u \in Units : counter'[u] = 0 \/ u \in started \/ counter'[u] = Left(u, now')
  PROVE  TimeInv'
  <1>1. Counting' /\ Units' = Units /\ algo' # "sym_defer_pr"
    BY DEF Counting, Units, Unit
  <1>2. ASSUME counters_need_update' PROVE last_time' = now'
    BY <1>2 DEF Timekeeping
  <1>3. ASSUME ~counters_need_update', NEW u \in Units PROVE counter'[u] = 0
    <2>1. started = {}
      BY <1>3 DEF Timekeeping
    <2>2. CASE ~counters_need_update
      <3>1. counter[u] = 0
        BY <2>2 DEF TimeInv
      <3>2. Left(u, now') = 0
        BY <3>1, LeftIs
      <3>3. QED
        BY <2>1, <3>2
    <2>3. CASE counters_need_update
      BY <1>3, <2>1, <2>3 DEF Timekeeping
    <2>4. QED
      BY <2>2, <2>3
  <1>4. QED
    BY <1>1, <1>2, <1>3 DEF TimeInv

(* What a report of a change may not be too early for: noise and chatter. *)
Filtered ==
  \A k \in Keys :
    cooked'[k] # cooked[k] =>
      /\ Defers(k) => \A l \in Together(k) : quiet'[l] >= DEBOUNCE
      /\ Eager(k) => \A l \in Together(k) : steady[l] + TIMER_DIFF_FAST(now', now) >= DEBOUNCE

(* The part of the type invariant that each algorithm has to keep. *)
DebounceType ==
  /\ last_time' \in Time
  /\ cooked' \in Matrix /\ pressed' \in Matrix
  /\ counter' \in [Keys \cup Rows -> 0..DEBOUNCE]
  /\ counters_need_update' \in BOOLEAN

(* The counters and the times that a scan leaves keep their types. *)
LEMMA ScanType ==
  ASSUME TypeOK, NEW in \in Matrix, NEW d \in 0..MaxGap, matrix_scan(in, d), DebounceType
  PROVE  TypeOK'
  <1>1. HistoryMax' = HistoryMax
    BY ScanFacts DEF HistoryMax, Latency
  <1>2. QED
    BY <1>1, ScanFacts DEF TypeOK, DebounceType

-----------------------------------------------------------------------------
(* Two matrices that differ do so in the state of some key. *)
LEMMA SomeKeyDiffers ==
  ASSUME NEW a \in Matrix, NEW b \in Matrix, a # b
  PROVE  \E k \in Keys : a[k] # b[k]
  BY DEF Matrix

(* none: every scan is reported as it is read. *)
LEMMA NoneStep ==
  ASSUME TypeOK, Inv, NEW in \in Matrix, NEW d \in 0..MaxGap, matrix_scan(in, d), algo = "none"
  PROVE  DebounceType /\ Inv' /\ Filtered
  <1>1. none(in, in # raw) /\ raw' = in /\ algo' = algo
    BY ScanFacts DEF debounce
  <1>2. cooked' = raw'
    BY <1>1 DEF none, Inv
  <1>3. DebounceType
    BY <1>1 DEF none, DebounceType, TypeOK
  <1>4. Inv'
    BY <1>1, <1>2 DEF Inv, TimeInv, Counting
  <1>5. Filtered
    BY DEF Filtered, Defers, Eager
  <1>6. QED
    BY <1>3, <1>4, <1>5

(* sym_defer_g: the time since debouncing started is that since the last     *)
(* change of any key, for it is read before the timer comes round.           *)
LEMMA GlobalStep ==
  ASSUME TypeOK, Inv, NEW in \in Matrix, NEW d \in 0..MaxGap, matrix_scan(in, d),
         algo = "sym_defer_g"
  PROVE  DebounceType /\ Inv' /\ Filtered
  <1> DEFINE push == /\ ~(in # raw)
                     /\ counters_need_update
                     /\ TIMER_DIFF_FAST(now', last_time) >= DEBOUNCE
  <1>1. /\ cooked' = IF push THEN in ELSE cooked
        /\ counters_need_update' = (in # raw \/ (counters_need_update /\ ~push))
        /\ last_time' = IF in # raw THEN now' ELSE last_time
        /\ UNCHANGED <<counter, pressed>>
    BY ScanFacts, Zenon DEF debounce, sym_defer_g
  <1>2. raw' = in /\ algo' = algo /\ now' \in Time
    BY ScanFacts
  <1>3. DebounceType
    BY <1>1, <1>2 DEF DebounceType, TypeOK
  <1>4. GlobalInv
    BY DEF Inv
  <1>5. /\ TimerRange \in Nat \ {0} /\ d \in 0..(TimerRange - 1) /\ now \in 0..(TimerRange - 1)
        /\ last_time \in 0..(TimerRange - 1) /\ d \in Nat /\ DEBOUNCE \in Nat /\ DEBOUNCE > 0
        /\ DEBOUNCE + d <= TimerRange
    BY DebounceAssumption DEF TypeOK, Time
  <1>6. Age \in Nat
    BY <1>5 DEF Age, TIMER_DIFF_FAST
  <1>7. HistoryMax = DEBOUNCE
    BY HistoryBounds
  <1>8. \A k \in Keys : quiet[k] \in 0..DEBOUNCE
    BY <1>7 DEF TypeOK
  <1>9. CASE in # raw
    <2>1. Age' = 0
      <3>1. last_time' = now'
        BY <1>1, <1>9
      <3>2. (now' - now') % TimerRange = 0
        BY <1>2, <1>5, TimerSame DEF Time
      <3>3. QED
        BY <3>1, <3>2 DEF Age, TIMER_DIFF_FAST
    <2>2. \A k \in Keys : quiet'[k] >= 0
      BY ScanFacts, <1>7, <1>5
    <2>3. \E k \in Keys : quiet'[k] = 0
      BY <1>9, ScanFacts, SomeKeyDiffers DEF TypeOK
    <2>4. GlobalInv'
      BY <1>1, <1>5, <1>9, <2>1, <2>2, <2>3 DEF GlobalInv
    <2>5. cooked' = cooked
      BY <1>1, <1>9
    <2>6. QED
      BY <1>2, <1>3, <2>4, <2>5 DEF Inv, TimeInv, Counting, Filtered
  <1>10. CASE in = raw /\ counters_need_update
    <2>1. TIMER_DIFF_FAST(now', last_time) = Age + d
      <3>1. ((now - last_time) % TimerRange) + d < TimerRange
        BY <1>4, <1>5, <1>6, <1>10 DEF GlobalInv, Age, TIMER_DIFF_FAST
      <3>2. QED
        BY <1>5, <3>1, ScanFacts, TimerAge DEF Age, TIMER_DIFF_FAST
    <2>2. \A k \in Keys : quiet'[k] = IF quiet[k] + d <= DEBOUNCE THEN quiet[k] + d ELSE DEBOUNCE
      BY <1>7, <1>10, ScanFacts
    <2>3. CASE push
      <3>1. cooked' = raw' /\ ~counters_need_update'
        BY <1>1, <1>2, <1>10, <2>3
      <3>2. \A k \in Keys : quiet'[k] >= DEBOUNCE
        BY <1>4, <1>5, <1>6, <1>8, <1>10, <2>1, <2>2, <2>3 DEF GlobalInv
      <3>3. Filtered
        BY <3>2 DEF Filtered, Together, Eager
      <3>4. QED
        BY <1>2, <1>3, <3>1, <3>3 DEF Inv, TimeInv, Counting, GlobalInv
    <2>4. CASE ~push
      <3>1. cooked' = cooked /\ counters_need_update' /\ last_time' = last_time
        BY <1>1, <1>10, <2>4
      <3>2. Age' = Age + d /\ Age + d < DEBOUNCE
        BY <1>5, <1>6, <1>10, <2>1, <2>4, <3>1 DEF Age
      <3>3. \A k \in Keys : quiet[k] >= Age => quiet'[k] >= Age + d
        BY <1>5, <1>6, <1>8, <2>2, <3>2
      <3>4. \A k \in Keys : quiet[k] = Age => quiet'[k] = Age + d
        BY <1>5, <1>6, <1>8, <2>2, <3>2
      <3>5. GlobalInv'
        BY <1>4, <1>10, <3>1, <3>2, <3>3, <3>4 DEF GlobalInv
      <3>6. QED
        BY <1>2, <1>3, <3>1, <3>5 DEF Inv, TimeInv, Counting, Filtered
    <2>5. QED
      BY <2>3, <2>4
  <1>11. CASE in = raw /\ ~counters_need_update
    <2>1. cooked' = cooked /\ ~counters_need_update' /\ raw' = raw
      BY <1>1, <1>2, <1>11
    <2>2. cooked' = raw'
      BY <1>4, <1>11, <2>1 DEF GlobalInv
    <2>3. GlobalInv'
      BY <2>1, <2>2 DEF GlobalInv
    <2>4. QED
      BY <1>2, <1>3, <2>1, <2>3 DEF Inv, TimeInv, Counting, Filtered
  <1>12. QED
    BY <1>9, <1>10, <1>11

(* sym_defer_pr: the counter of a row starts again with every change in it. *)
LEMMA RowStep ==
  ASSUME TypeOK, Inv, NEW in \in Matrix, NEW d \in 0..MaxGap, matrix_scan(in, d),
         algo = "sym_defer_pr"
  PROVE  DebounceType /\ Inv' /\ Filtered
  <1> DEFINE elapsed == Min({TIMER_DIFF_FAST(now', last_time), ElapsedMax})
             moved == {r \in Rows : \E k \in Keys : Row[k] = r /\ in[k] # raw[k]}
             pushed == {r \in Rows \ moved : counter[r] # 0 /\ counter[r] <= elapsed}
  <1>1. /\ cooked' = [k \in Keys |-> IF Row[k] \in pushed THEN in[k] ELSE cooked[k]]
        /\ counter' = [u \in Keys \cup Rows |->
                         IF u \in moved THEN DEBOUNCE
                         ELSE IF counter[u] > elapsed THEN counter[u] - elapsed ELSE 0]
        /\ last_time' = now'
        /\ UNCHANGED <<pressed, counters_need_update>>
    BY ScanFacts, Zenon DEF debounce, sym_defer_pr
  <1>2. raw' = in /\ algo' = algo /\ now' \in Time
    BY ScanFacts
  <1>3. /\ d \in Nat /\ DEBOUNCE \in Nat /\ DEBOUNCE > 0
        /\ ElapsedMax \in Nat /\ DEBOUNCE <= ElapsedMax
        /\ Row \in [Keys -> Rows]
    BY DebounceAssumption
  <1>4. elapsed = IF d <= ElapsedMax THEN d ELSE ElapsedMax
    <2>1. last_time = now
      BY DEF Inv, TimeInv
    <2>2. TIMER_DIFF_FAST(now', last_time) = d
      BY <2>1, ScanFacts
    <2>3. QED
      BY <1>3, <2>2, MinOfTwo
  <1>5. HistoryMax = DEBOUNCE
    BY HistoryBounds
  <1>6. \A k \in Keys : quiet[k] \in 0..DEBOUNCE /\ quiet'[k] \in 0..DEBOUNCE
    BY <1>5, ScanFacts DEF TypeOK
  <1>7. \A u \in Keys \cup Rows : counter[u] \in 0..DEBOUNCE
    BY DEF TypeOK
  <1> HIDE DEF elapsed
  <1>8. \A u \in Keys \cup Rows : counter'[u] \in 0..DEBOUNCE
    BY <1>1, <1>3, <1>4, <1>7
  <1>9. DebounceType
    <2>1. counter' \in [Keys \cup Rows -> 0..DEBOUNCE]
      BY <1>1, <1>8
    <2>2. cooked' \in Matrix
      BY <1>1 DEF TypeOK, Matrix
    <2>3. QED
      BY <1>1, <1>2, <2>1, <2>2 DEF DebounceType, TypeOK
  <1>10. ASSUME NEW k \in Keys, Row[k] \in moved
         PROVE  /\ counter'[Row[k]] = DEBOUNCE /\ cooked'[k] = cooked[k]
                /\ \E l \in Keys : Row[l] = Row[k] /\ quiet'[l] = 0
    <2>1. counter'[Row[k]] = DEBOUNCE /\ cooked'[k] = cooked[k]
      BY <1>1, <1>10
    <2>2. PICK l \in Keys : Row[l] = Row[k] /\ in[l] # raw[l]
      BY <1>10
    <2>3. QED
      BY <2>1, <2>2, ScanFacts
  <1>11. ASSUME NEW k \in Keys, Row[k] \notin moved
         PROVE  /\ counter'[Row[k]] = IF counter[Row[k]] > d THEN counter[Row[k]] - d ELSE 0
                /\ counter[Row[k]] # 0 /\ counter'[Row[k]] = 0 => cooked'[k] = in[k]
                /\ counter[Row[k]] = 0 \/ counter'[Row[k]] # 0 => cooked'[k] = cooked[k]
                /\ \A l \in Keys : Row[l] = Row[k] =>
                     /\ in[l] = raw[l]
                     /\ quiet'[l] = IF quiet[l] + d <= DEBOUNCE THEN quiet[l] + d ELSE DEBOUNCE
    <2>1. Row[k] \in Rows /\ counter[Row[k]] \in 0..DEBOUNCE
      BY <1>3, <1>7
    <2>2. counter'[Row[k]] = IF counter[Row[k]] > elapsed THEN counter[Row[k]] - elapsed ELSE 0
      BY <1>1, <1>11, <2>1
    <2>3. Row[k] \in pushed <=> counter[Row[k]] # 0 /\ counter[Row[k]] <= elapsed
      BY <1>11, <2>1
    <2>4. cooked'[k] = IF Row[k] \in pushed THEN in[k] ELSE cooked[k]
      BY <1>1
    <2>5. \A l \in Keys : Row[l] = Row[k] => in[l] = raw[l]
      BY <1>11, <2>1
    <2>6. \A l \in Keys : Row[l] = Row[k] =>
            quiet'[l] = IF quiet[l] + d <= DEBOUNCE THEN quiet[l] + d ELSE DEBOUNCE
      BY <2>5, <1>5, ScanFacts
    <2> HIDE DEF pushed, moved
    <2>7. QED
      BY <1>3, <1>4, <2>1, <2>2, <2>3, <2>4, <2>5, <2>6
  <1> HIDE DEF pushed, moved
  <1>12. RowInv
    BY DEF Inv
  <1>13. RowInv'
    <2> SUFFICES ASSUME NEW k \in Keys
                 PROVE IF counter'[Row[k]] = 0 THEN cooked'[k] = in[k]
                       ELSE /\ quiet'[k] >= DEBOUNCE - counter'[Row[k]]
                            /\ \E l \in Keys : /\ Row[l] = Row[k]
                                               /\ quiet'[l] = DEBOUNCE - counter'[Row[k]]
      BY <1>2 DEF RowInv
    <2>1. CASE Row[k] \in moved
      BY <1>3, <1>6, <1>10, <2>1
    <2>2. CASE Row[k] \notin moved
      <3>1. Row[k] \in Keys \cup Rows /\ counter[Row[k]] \in 0..DEBOUNCE
        BY <1>3, <1>7
      <3>2. CASE counter[Row[k]] = 0
        BY <1>3, <1>11, <1>12, <2>2, <3>2 DEF RowInv
      <3>3. CASE counter[Row[k]] # 0 /\ counter'[Row[k]] = 0
        BY <1>11, <2>2, <3>3
      <3>4. CASE counter'[Row[k]] # 0
        <4>1. counter'[Row[k]] = counter[Row[k]] - d /\ counter[Row[k]] > d
          BY <1>11, <2>2, <3>4
        <4>2. quiet[k] >= DEBOUNCE - counter[Row[k]]
          BY <1>3, <1>12, <3>1, <4>1 DEF RowInv
        <4>3. PICK l \in Keys : Row[l] = Row[k] /\ quiet[l] = DEBOUNCE - counter[Row[k]]
          BY <1>3, <1>12, <3>1, <4>1 DEF RowInv
        <4>4. /\ quiet'[k] = IF quiet[k] + d <= DEBOUNCE THEN quiet[k] + d ELSE DEBOUNCE
              /\ quiet'[l] = IF quiet[l] + d <= DEBOUNCE THEN quiet[l] + d ELSE DEBOUNCE
          BY <1>11, <2>2, <4>3
        <4>5. quiet'[k] >= DEBOUNCE - counter'[Row[k]] /\ quiet'[l] = DEBOUNCE - counter'[Row[k]]
          BY <1>3, <1>6, <3>1, <4>1, <4>2, <4>3, <4>4
        <4>6. QED
          BY <3>4, <4>3, <4>5
      <3>5. QED
        BY <3>2, <3>3, <3>4
    <2>3. QED
      BY <2>1, <2>2
  <1>14. Filtered
    <2> SUFFICES ASSUME NEW k \in Keys, cooked'[k] # cooked[k], NEW l \in Together(k)
                 PROVE  quiet'[l] >= DEBOUNCE
      BY DEF Filtered, Eager
    <2>1. l \in Keys /\ Row[l] = Row[k]
      BY DEF Together, Unit
    <2>2. Row[k] \notin moved /\ counter[Row[k]] # 0 /\ counter'[Row[k]] = 0
      BY <1>10, <1>11
    <2>3. counter[Row[k]] \in 0..DEBOUNCE /\ counter[Row[k]] <= d
      BY <1>3, <1>7, <1>11, <2>2
    <2>4. quiet[l] >= DEBOUNCE - counter[Row[k]]
      BY <1>12, <2>1, <2>2 DEF RowInv
    <2>5. quiet'[l] = IF quiet[l] + d <= DEBOUNCE THEN quiet[l] + d ELSE DEBOUNCE
      BY <1>11, <2>1, <2>2
    <2>6. QED
      BY <1>3, <1>6, <2>1, <2>3, <2>4, <2>5
  <1>15. QED
    BY <1>1, <1>2, <1>9, <1>13, <1>14 DEF Inv, TimeInv, Counting

(* sym_defer_pk: a change that goes back ends its counter. *)
LEMMA KeyStep ==
  ASSUME TypeOK, Inv, NEW in \in Matrix, NEW d \in 0..MaxGap, matrix_scan(in, d),
         algo = "sym_defer_pk"
  PROVE  DebounceType /\ Inv' /\ Filtered
  <1> DEFINE t == now'
             shown == [k \in Keys |-> IF k \in Expired(t) THEN in[k] ELSE cooked[k]]
             same == {k \in Keys : in # raw /\ in[k] = shown[k]}
             started == {k \in Keys : in # raw /\ in[k] # shown[k] /\ Left(k, t) = 0}
  <1>1. /\ cooked' = shown
        /\ counter' = [u \in Keys \cup Rows |->
                         IF u \in started THEN DEBOUNCE
                         ELSE IF u \in same THEN 0 ELSE Left(u, t)]
        /\ Timekeeping(t, in # raw, started)
        /\ UNCHANGED pressed
    BY ScanFacts, Zenon DEF debounce, sym_defer_pk
  <1>2. raw' = in /\ algo' = algo /\ now' \in Time /\ now' = (now + d) % TimerRange
    BY ScanFacts
  <1>3. /\ d \in Nat /\ DEBOUNCE \in Nat /\ DEBOUNCE > 0
        /\ Counting /\ Units = Keys /\ TimeInv /\ KeyInv
        /\ in \in [Keys -> BOOLEAN] /\ raw \in [Keys -> BOOLEAN] /\ cooked \in [Keys -> BOOLEAN]
    BY DebounceAssumption DEF Counting, Units, Unit, Inv, TypeOK, Matrix
  <1>4. \A k \in Keys : Left(k, t) = IF counter[k] > d THEN counter[k] - d ELSE 0
    BY <1>2, <1>3, LeftIs
  <1>5. \A u \in Keys \cup Rows : counter[u] \in 0..DEBOUNCE /\ Left(u, t) \in 0..DEBOUNCE
    BY <1>2, LeftType DEF TypeOK
  <1>6. \A k \in Keys : k \in Expired(t) <=> counter[k] # 0 /\ Left(k, t) = 0
    BY <1>3 DEF Expired
  <1>7. HistoryMax = DEBOUNCE
    BY HistoryBounds
  <1>8. \A k \in Keys : quiet[k] \in 0..DEBOUNCE
    BY <1>7 DEF TypeOK
  <1>9. DebounceType
    <2>1. cooked' \in Matrix
      BY <1>1, <1>3 DEF Matrix
    <2>2. counter' \in [Keys \cup Rows -> 0..DEBOUNCE]
      BY <1>1, <1>3, <1>5
    <2>3. last_time' \in Time /\ counters_need_update' \in BOOLEAN
      BY <1>1, <1>2 DEF Timekeeping, TypeOK
    <2>4. QED
      BY <1>1, <2>1, <2>2, <2>3 DEF DebounceType, TypeOK
  <1>10. TimeInv'
    <2>1. started # {} => (in # raw) \/ counters_need_update
      OBVIOUS
    <2>2. \A u \in Units : counter'[u] = 0 \/ u \in started \/ counter'[u] = Left(u, t)
      BY <1>1, <1>3
    <2> HIDE DEF started
    <2>3. QED
      BY <1>1, <1>2, <1>3, <2>1, <2>2, TimekeepingInv
  <1>11. ASSUME NEW k \in Keys
         PROVE  /\ IF counter'[k] = 0 THEN cooked'[k] = in[k]
                   ELSE cooked'[k] # in[k] /\ quiet'[k] = DEBOUNCE - counter'[k]
                /\ cooked'[k] # cooked[k] => quiet'[k] >= DEBOUNCE
    <2>1. /\ cooked'[k] = IF counter[k] # 0 /\ Left(k, t) = 0 THEN in[k] ELSE cooked[k]
          /\ cooked'[k] = shown[k]
      BY <1>1, <1>6
    <2>2. counter'[k] = IF in # raw /\ in[k] # cooked'[k] /\ Left(k, t) = 0 THEN DEBOUNCE
                        ELSE IF in # raw /\ in[k] = cooked'[k] THEN 0 ELSE Left(k, t)
      BY <1>1
    <2>3. /\ in[k] # raw[k] => quiet'[k] = 0
          /\ in[k] = raw[k] =>
               quiet'[k] = IF quiet[k] + d <= DEBOUNCE THEN quiet[k] + d ELSE DEBOUNCE
      BY <1>7, ScanFacts
    <2>4. IF counter[k] = 0 THEN cooked[k] = raw[k]
          ELSE cooked[k] # raw[k] /\ quiet[k] = DEBOUNCE - counter[k]
      BY <1>3 DEF KeyInv
    <2>5. in[k] \in BOOLEAN /\ raw[k] \in BOOLEAN /\ cooked[k] \in BOOLEAN
      BY <1>3
    <2>6. /\ Left(k, t) = IF counter[k] > d THEN counter[k] - d ELSE 0
          /\ counter[k] \in 0..DEBOUNCE /\ quiet[k] \in 0..DEBOUNCE
      BY <1>4, <1>5, <1>8
    <2> HIDE DEF t, shown
    <2>7. CASE counter[k] = 0
      <3>1. cooked'[k] = raw[k] /\ cooked'[k] = cooked[k] /\ Left(k, t) = 0
        BY <1>3, <2>1, <2>4, <2>6, <2>7
      <3>2. CASE in[k] = raw[k]
        BY <2>2, <3>1, <3>2
      <3>3. CASE in[k] # raw[k]
        <4>1. in # raw
          BY <3>3
        <4>2. counter'[k] = DEBOUNCE /\ quiet'[k] = 0
          BY <2>2, <2>3, <3>1, <3>3, <4>1
        <4>3. QED
          BY <1>3, <3>1, <3>3, <4>2
      <3>4. QED
        BY <3>2, <3>3
    <2>8. CASE counter[k] # 0 /\ in[k] # raw[k]
      <3>1. in # raw /\ in[k] = cooked[k] /\ cooked'[k] = in[k]
        BY <2>1, <2>4, <2>5, <2>8
      <3>2. counter'[k] = 0
        BY <2>2, <3>1
      <3>3. QED
        BY <3>1, <3>2
    <2>9. CASE counter[k] # 0 /\ in[k] = raw[k] /\ Left(k, t) = 0
      <3>1. cooked'[k] = in[k] /\ counter'[k] = 0
        BY <2>1, <2>2, <2>9
      <3>2. counter[k] <= d /\ quiet[k] = DEBOUNCE - counter[k]
        BY <1>3, <2>4, <2>6, <2>9
      <3>3. quiet'[k] >= DEBOUNCE
        BY <1>3, <2>3, <2>6, <2>9, <3>2
      <3>4. QED
        BY <3>1, <3>3
    <2>10. CASE counter[k] # 0 /\ in[k] = raw[k] /\ Left(k, t) # 0
      <3>1. cooked'[k] = cooked[k] /\ cooked[k] # in[k] /\ counter'[k] = Left(k, t)
        BY <2>1, <2>2, <2>4, <2>10
      <3>2. quiet'[k] = DEBOUNCE - counter'[k]
        BY <1>3, <2>3, <2>4, <2>6, <2>10, <3>1
      <3>3. QED
        BY <2>10, <3>1, <3>2
    <2>11. QED
      BY <2>7, <2>8, <2>9, <2>10
  <1>12. KeyInv'
    BY <1>2, <1>11 DEF KeyInv
  <1>13. Filtered
    <2> SUFFICES ASSUME NEW k \in Keys, cooked'[k] # cooked[k], NEW l \in Together(k)
                 PROVE  quiet'[l] >= DEBOUNCE
      BY DEF Filtered, Eager
    <2>1. l = k
      BY DEF Together, Unit
    <2>2. QED
      BY <1>11, <2>1
  <1>14. QED
    BY <1>2, <1>9, <1>10, <1>12, <1>13 DEF Inv

(* sym_eager_pk and sym_eager_pr: a counter that ends makes up for the       *)
(* changes that were ignored while it ran.                                   *)
LEMMA EagerStep ==
  ASSUME TypeOK, Inv, NEW in \in Matrix, NEW d \in 0..MaxGap, matrix_scan(in, d),
         algo \in {"sym_eager_pr", "sym_eager_pk"}
  PROVE  DebounceType /\ Inv' /\ Filtered
  <1> DEFINE t == now'
             started == {u \in Units :
                           /\ in # raw \/ Expired(t) # {}
                           /\ Left(u, t) = 0
                           /\ \E k \in Keys : Unit(k) = u /\ in[k] # cooked[k]}
  <1>1. /\ cooked' = [k \in Keys |-> IF Unit(k) \in started THEN in[k] ELSE cooked[k]]
        /\ counter' = [u \in Keys \cup Rows |-> IF u \in started THEN DEBOUNCE ELSE Left(u, t)]
        /\ Timekeeping(t, in # raw, started)
        /\ UNCHANGED pressed
    <2>1. sym_eager(in, t, in # raw)
      BY ScanFacts DEF debounce, sym_eager_pk, sym_eager_pr
    <2>2. QED
      BY <2>1, Zenon DEF sym_eager
  <1>2. raw' = in /\ algo' = algo /\ now' \in Time /\ now' = (now + d) % TimerRange
    BY ScanFacts
  <1>3. /\ d \in Nat /\ DEBOUNCE \in Nat /\ DEBOUNCE > 0
        /\ Counting /\ TimeInv /\ EagerInv
        /\ in \in [Keys -> BOOLEAN] /\ raw \in [Keys -> BOOLEAN] /\ cooked \in [Keys -> BOOLEAN]
    BY DebounceAssumption DEF Counting, Inv, TypeOK, Matrix
  <1>4. \A k \in Keys : Unit(k) \in Units /\ Unit(k) \in Keys \cup Rows
    BY DebounceAssumption DEF Units, Unit
  <1>5. \A u \in Units : Left(u, t) = IF counter[u] > d THEN counter[u] - d ELSE 0
    BY <1>2, <1>3, LeftIs
  <1>6. \A u \in Keys \cup Rows : counter[u] \in 0..DEBOUNCE /\ Left(u, t) \in 0..DEBOUNCE
    BY <1>2, LeftType DEF TypeOK
  <1>7. HistoryMax = DEBOUNCE
    BY HistoryBounds
  <1>8. \A k \in Keys : quiet[k] \in 0..DEBOUNCE /\ steady[k] \in 0..DEBOUNCE
    BY <1>7 DEF TypeOK
  <1>9. DebounceType
    <2>1. cooked' \in Matrix
      BY <1>1, <1>3 DEF Matrix
    <2>2. counter' \in [Keys \cup Rows -> 0..DEBOUNCE]
      BY <1>1, <1>3, <1>6
    <2>3. last_time' \in Time /\ counters_need_update' \in BOOLEAN
      BY <1>1, <1>2 DEF Timekeeping, TypeOK
    <2>4. QED
      BY <1>1, <2>1, <2>2, <2>3 DEF DebounceType, TypeOK
  <1>10. TimeInv'
    <2>1. started # {} => (in # raw) \/ counters_need_update
      <3>1. SUFFICES ASSUME NEW u \in Expired(t) PROVE counters_need_update
        OBVIOUS
      <3>2. u \in Units /\ counter[u] # 0
        BY DEF Expired
      <3>3. QED
        BY <1>3, <3>2 DEF TimeInv
    <2>2. \A u \in Units : u \in Keys \cup Rows
      BY <1>4 DEF Units
    <2>3. \A u \in Units : counter'[u] = 0 \/ u \in started \/ counter'[u] = Left(u, t)
      BY <1>1, <2>2
    <2> HIDE DEF started
    <2>4. QED
      BY <1>1, <1>2, <1>3, <2>1, <2>3, TimekeepingInv
  <1>11. ASSUME NEW k \in Keys
         PROVE  /\ steady'[k] >= DEBOUNCE - counter'[Unit(k)]
                /\ cooked'[k] # in[k] =>
                     counter'[Unit(k)] # 0 /\ quiet'[k] <= DEBOUNCE - counter'[Unit(k)]
                /\ Unit(k) \in started => steady[k] + d >= DEBOUNCE
    <2> DEFINE u == Unit(k)
    <2>1. /\ cooked'[k] = IF u \in started THEN in[k] ELSE cooked[k]
          /\ counter'[u] = IF u \in started THEN DEBOUNCE ELSE Left(u, t)
      BY <1>1, <1>4
    <2>2. u \in started <=> /\ in # raw \/ Expired(t) # {}
                            /\ Left(u, t) = 0
                            /\ \E l \in Keys : Unit(l) = u /\ in[l] # cooked[l]
      BY <1>4
    <2>3. /\ in[k] # raw[k] => quiet'[k] = 0
          /\ in[k] = raw[k] =>
               quiet'[k] = IF quiet[k] + d <= DEBOUNCE THEN quiet[k] + d ELSE DEBOUNCE
          /\ cooked'[k] # cooked[k] => steady'[k] = 0
          /\ cooked'[k] = cooked[k] =>
               steady'[k] = IF steady[k] + d <= DEBOUNCE THEN steady[k] + d ELSE DEBOUNCE
      BY <1>7, ScanFacts
    <2>4. /\ steady[k] >= DEBOUNCE - counter[u]
          /\ cooked[k] # raw[k] => counter[u] # 0 /\ quiet[k] <= DEBOUNCE - counter[u]
      BY <1>3 DEF EagerInv
    <2>5. /\ Left(u, t) = IF counter[u] > d THEN counter[u] - d ELSE 0
          /\ counter[u] \in 0..DEBOUNCE /\ quiet[k] \in 0..DEBOUNCE /\ steady[k] \in 0..DEBOUNCE
      BY <1>4, <1>5, <1>6, <1>8
    <2>6. counter[u] # 0 /\ Left(u, t) = 0 => Expired(t) # {}
      BY <1>4 DEF Expired
    <2> HIDE DEF t, started, u
    <2>7. u \in started => steady[k] + d >= DEBOUNCE
      BY <1>3, <2>2, <2>4, <2>5
    <2>8. steady'[k] >= DEBOUNCE - counter'[u]
      <3>1. CASE u \in started
        <4>1. steady'[k] >= 0
          BY <1>3, <2>3, <2>5
        <4>2. QED
          BY <1>3, <2>1, <3>1, <4>1
      <3>2. CASE u \notin started
        <4>1. cooked'[k] = cooked[k] /\ counter'[u] = Left(u, t)
          BY <2>1, <3>2
        <4>2. QED
          BY <1>3, <2>3, <2>4, <2>5, <4>1
      <3>3. QED
        BY <3>1, <3>2
    <2>9. ASSUME cooked'[k] # in[k]
          PROVE  counter'[u] # 0 /\ quiet'[k] <= DEBOUNCE - counter'[u]
      <3>1. u \notin started /\ cooked'[k] = cooked[k] /\ counter'[u] = Left(u, t)
        BY <2>1, <2>9
      <3>2. Left(u, t) # 0 \/ (in = raw /\ Expired(t) = {})
        BY <2>2, <2>9, <3>1 DEF u
      <3>3. CASE in[k] # raw[k]
        <4>1. in # raw
          BY <3>3
        <4>2. Left(u, t) # 0 /\ quiet'[k] = 0
          BY <2>3, <3>2, <3>3, <4>1
        <4>3. QED
          BY <1>3, <2>5, <3>1, <4>2
      <3>4. CASE in[k] = raw[k]
        <4>1. counter[u] # 0 /\ quiet[k] <= DEBOUNCE - counter[u]
          BY <2>4, <2>9, <3>1, <3>4
        <4>2. Left(u, t) # 0
          BY <2>6, <3>2, <4>1
        <4>3. QED
          BY <1>3, <2>3, <2>5, <3>1, <3>4, <4>1, <4>2
      <3>5. QED
        BY <3>3, <3>4
    <2>10. QED
      BY <2>7, <2>8, <2>9 DEF u
  <1>12. EagerInv'
    <2>1. \A k \in Keys : Unit(k)' = Unit(k)
      BY <1>2 DEF Unit
    <2>2. QED
      BY <1>2, <1>11, <2>1 DEF EagerInv
  <1>13. Filtered
    <2> SUFFICES ASSUME NEW k \in Keys, cooked'[k] # cooked[k], NEW l \in Together(k)
                 PROVE  steady[l] + TIMER_DIFF_FAST(now', now) >= DEBOUNCE
      BY DEF Filtered, Defers
    <2>1. l \in Keys /\ Unit(l) = Unit(k)
      BY DEF Together
    <2>2. Unit(k) \in started
      BY <1>1
    <2> HIDE DEF started
    <2>3. steady[l] + d >= DEBOUNCE
      BY <1>11, <2>1, <2>2
    <2>4. QED
      BY <2>3, ScanFacts
  <1>14. QED
    BY <1>2, <1>9, <1>10, <1>12, <1>13 DEF Inv

(* What a scan d later, with raw state x, makes of a key: left is what is    *)
(* left of its counter, shown what a release that ended has made of cooked,  *)
(* transfer whether the raw matrix is looked at, start whether its counter   *)
(* starts; c1, p1, o1, q1 and s1 are the new values.                         *)
AsymScan(d, c, p, w, o, q, s, x, transfer, left, shown, start, c1, p1, o1, q1, s1) ==
  /\ d \in 0..MaxGap /\ c \in 0..DEBOUNCE /\ q \in Nat /\ s \in Nat
  /\ p \in BOOLEAN /\ w \in BOOLEAN /\ o \in BOOLEAN /\ x \in BOOLEAN
  /\ transfer \in BOOLEAN /\ left \in Nat /\ shown \in BOOLEAN /\ start \in BOOLEAN
  /\ q1 \in Nat /\ s1 \in Nat
  /\ c > d => left = c - d
  /\ c <= d => left = 0
  /\ c # 0 /\ left = 0 /\ ~p => shown = x
  /\ c = 0 \/ left # 0 \/ p => shown = o
  /\ x # w \/ (c # 0 /\ left = 0 /\ p) => transfer
  /\ start => transfer /\ x # shown /\ left = 0
  /\ transfer /\ x # shown /\ left = 0 => start
  /\ start => o1 = (x \/ shown) /\ p1 = x /\ c1 = DEBOUNCE
  /\ ~start => o1 = shown /\ p1 = p
  /\ ~start /\ transfer /\ x = shown /\ ~p => c1 = 0
  /\ ~start /\ ~(transfer /\ x = shown /\ ~p) => c1 = left
  /\ x # w => q1 = 0
  /\ x = w => q1 = IF q + d <= 2 * DEBOUNCE + MaxGap THEN q + d ELSE 2 * DEBOUNCE + MaxGap
  /\ o1 = o => s1 = IF s + d <= DEBOUNCE THEN s + d ELSE DEBOUNCE

(* asym_eager_defer_pk, one key: its counter serves the lockout after a      *)
(* press and the delay of a release.                                         *)
LEMMA AsymKeyStep ==
  ASSUME NEW d, NEW c, NEW p, NEW w, NEW o, NEW q, NEW s, NEW x,
         NEW transfer, NEW left, NEW shown, NEW start,
         NEW c1, NEW p1, NEW o1, NEW q1, NEW s1,
         AsymKey(c, p, w, o, q, s),
         AsymScan(d, c, p, w, o, q, s, x, transfer, left, shown, start, c1, p1, o1, q1, s1)
  PROVE  /\ AsymKey(c1, p1, x, o1, q1, s1)
         /\ o1 # o /\ o => q1 >= DEBOUNCE /\ s + d >= DEBOUNCE
  <1> USE DEF AsymScan
  <1>1. DEBOUNCE \in Nat /\ DEBOUNCE > 0 /\ MaxGap \in Nat /\ d \in Nat /\ d <= MaxGap
    BY DebounceAssumption
  <1>2. CASE o = FALSE
    <2>1. c = 0 /\ w = FALSE /\ left = 0 /\ shown = FALSE
      BY <1>1, <1>2 DEF AsymKey
    <2>2. CASE x = FALSE
      <3>1. start = FALSE /\ o1 = FALSE /\ c1 = 0
        BY <2>1, <2>2
      <3>2. QED
        BY <1>2, <2>2, <3>1 DEF AsymKey
    <2>3. CASE x = TRUE
      <3>1. start = TRUE /\ o1 = TRUE /\ c1 = DEBOUNCE /\ p1 = TRUE
        BY <2>1, <2>3
      <3>2. QED
        BY <1>1, <1>2, <2>3, <3>1 DEF AsymKey
    <2>4. QED
      BY <2>2, <2>3
  <1>3. CASE o = TRUE /\ c = 0
    <2>1. w = TRUE /\ left = 0 /\ shown = TRUE /\ s >= DEBOUNCE
      BY <1>1, <1>3 DEF AsymKey
    <2>2. CASE x = TRUE
      <3>1. start = FALSE /\ o1 = TRUE /\ c1 = 0 /\ p1 = p
        BY <2>1, <2>2
      <3>2. s1 = DEBOUNCE
        BY <1>1, <1>3, <2>1, <3>1
      <3>3. QED
        BY <1>1, <1>3, <2>2, <3>1, <3>2 DEF AsymKey
    <2>3. CASE x = FALSE
      <3>1. start = TRUE /\ q1 = 0
        BY <2>1, <2>3
      <3>2. o1 = TRUE /\ c1 = DEBOUNCE /\ p1 = FALSE
        BY <2>1, <2>3, <3>1
      <3>3. s1 = DEBOUNCE
        BY <1>1, <1>3, <2>1, <3>2
      <3>4. DEBOUNCE # 0 /\ q1 >= DEBOUNCE - c1 /\ q1 < 2 * DEBOUNCE + MaxGap - c1
        BY <1>1, <3>1, <3>2
      <3>5. QED
        BY <1>1, <1>3, <2>3, <3>2, <3>3, <3>4 DEF AsymKey
    <2>4. QED
      BY <2>2, <2>3
  <1>4. CASE o = TRUE /\ c > d
    <2>1. left = c - d /\ left # 0 /\ c # 0 /\ shown = TRUE /\ start = FALSE /\ o1 = TRUE /\ p1 = p
      <3>1. left = c - d /\ left # 0 /\ c # 0
        BY <1>1, <1>4
      <3>2. shown = TRUE /\ start = FALSE
        BY <1>4, <3>1
      <3>3. QED
        BY <3>1, <3>2
    <2>2. CASE p = TRUE
      <3>1. c1 = c - d /\ c1 # 0
        BY <2>1, <2>2
      <3>2. s >= DEBOUNCE - c /\ s1 >= DEBOUNCE - c1
        BY <1>1, <1>4, <2>1, <2>2, <3>1 DEF AsymKey
      <3>3. x = FALSE => q1 <= DEBOUNCE - c1
        <4>1. CASE w = TRUE
          <5>1. x = FALSE => q1 = 0
            BY <4>1
          <5>2. 0 <= DEBOUNCE - c1
            BY <1>1, <1>4, <3>1
          <5>3. QED
            BY <5>1, <5>2
        <4>2. CASE w = FALSE
          BY <1>1, <1>4, <2>1, <2>2, <3>1, <4>2 DEF AsymKey
        <4>3. QED
          BY <4>1, <4>2
      <3>4. QED
        BY <1>4, <2>1, <2>2, <3>1, <3>2, <3>3 DEF AsymKey
    <2>3. CASE p = FALSE
      <3>1. w = FALSE /\ s >= DEBOUNCE /\ q >= DEBOUNCE - c /\ q < 2 * DEBOUNCE + MaxGap - c
        BY <1>4, <2>1, <2>3 DEF AsymKey
      <3>2. s1 = DEBOUNCE
        BY <1>1, <1>4, <2>1, <3>1
      <3>3. CASE x = TRUE
        <4>1. c1 = 0
          BY <2>1, <2>3, <3>1, <3>3
        <4>2. QED
          BY <1>1, <1>4, <2>1, <2>3, <3>2, <3>3, <4>1 DEF AsymKey
      <3>4. CASE x = FALSE
        <4>1. c1 = c - d /\ c1 # 0
          BY <2>1, <3>4
        <4>2. q1 >= DEBOUNCE - c1 /\ q1 < 2 * DEBOUNCE + MaxGap - c1
          BY <1>1, <1>4, <3>1, <3>4, <4>1
        <4>3. QED
          BY <1>1, <1>4, <2>1, <2>3, <3>2, <3>4, <4>1, <4>2 DEF AsymKey
      <3>5. QED
        BY <3>3, <3>4
    <2>4. QED
      BY <2>2, <2>3
  <1>5. CASE o = TRUE /\ c # 0 /\ c <= d /\ p = FALSE
    <2>1. left = 0 /\ shown = x /\ start = FALSE /\ c1 = 0 /\ o1 = x /\ p1 = FALSE
      BY <1>1, <1>5
    <2>2. w = FALSE /\ s >= DEBOUNCE /\ q >= DEBOUNCE - c
      BY <1>5 DEF AsymKey
    <2>3. CASE x = TRUE
      <3>1. s1 = DEBOUNCE
        BY <1>1, <1>5, <2>1, <2>2, <2>3
      <3>2. QED
        BY <1>1, <1>5, <2>1, <2>3, <3>1 DEF AsymKey
    <2>4. CASE x = FALSE
      <3>1. q1 >= DEBOUNCE /\ s + d >= DEBOUNCE
        BY <1>1, <1>5, <2>2, <2>4
      <3>2. QED
        BY <2>1, <2>4, <3>1 DEF AsymKey
    <2>5. QED
      BY <2>3, <2>4
  <1>6. CASE o = TRUE /\ c # 0 /\ c <= d /\ p = TRUE
    <2>1. left = 0 /\ shown = TRUE /\ transfer = TRUE
      BY <1>1, <1>6
    <2>2. o1 = TRUE /\ s >= DEBOUNCE - c
      BY <1>6, <2>1 DEF AsymKey
    <2>3. s1 = DEBOUNCE
      BY <1>1, <1>6, <2>2
    <2>4. CASE x = TRUE
      <3>1. c1 = 0 /\ p1 = TRUE
        BY <1>6, <2>1, <2>4
      <3>2. QED
        BY <1>1, <1>6, <2>2, <2>3, <2>4, <3>1 DEF AsymKey
    <2>5. CASE x = FALSE
      <3>1. c1 = DEBOUNCE /\ p1 = FALSE
        BY <2>1, <2>5
      <3>2. q1 < DEBOUNCE + MaxGap
        <4>1. CASE w = TRUE
          <5>1. q1 = 0
            BY <2>5, <4>1
          <5>2. QED
            BY <1>1, <5>1
        <4>2. CASE w = FALSE
          <5>1. q <= DEBOUNCE - c
            BY <1>6, <4>2 DEF AsymKey
          <5>2. QED
            BY <1>1, <1>6, <2>5, <4>2, <5>1
        <4>3. QED
          BY <4>1, <4>2
      <3>3. QED
        BY <1>1, <1>6, <2>2, <2>3, <2>5, <3>1, <3>2 DEF AsymKey
    <2>6. QED
      BY <2>4, <2>5
  <1>7. QED
    <2>1. c = 0 \/ c > d \/ c <= d
      BY <1>1
    <2>2. QED
      BY <1>2, <1>3, <1>4, <1>5, <1>6, <2>1

(* asym_eager_defer_pk, the matrix. *)
LEMMA AsymStep ==
  ASSUME TypeOK, Inv, NEW in \in Matrix, NEW d \in 0..MaxGap, matrix_scan(in, d),
         algo = "asym_eager_defer_pk"
  PROVE  DebounceType /\ Inv' /\ Filtered
  <1> DEFINE t == now'
             shown == [k \in Keys |-> IF k \in Expired(t) /\ ~pressed[k] THEN in[k] ELSE cooked[k]]
             transfer == (in # raw) \/ \E k \in Expired(t) : pressed[k]
             started == {k \in Keys : transfer /\ in[k] # shown[k] /\ Left(k, t) = 0}
             bounced == {k \in Keys : transfer /\ in[k] = shown[k] /\ ~pressed[k]}
  <1>1. /\ cooked' = [k \in Keys |-> IF k \in started /\ in[k] THEN TRUE ELSE shown[k]]
        /\ pressed' = [k \in Keys |-> IF k \in started THEN in[k] ELSE pressed[k]]
        /\ counter' = [u \in Keys \cup Rows |->
                         IF u \in started THEN DEBOUNCE
                         ELSE IF u \in bounced THEN 0 ELSE Left(u, t)]
        /\ Timekeeping(t, in # raw, started)
    BY ScanFacts, Zenon DEF debounce, asym_eager_defer_pk
  <1>2. raw' = in /\ algo' = algo /\ now' \in Time /\ now' = (now + d) % TimerRange
    BY ScanFacts
  <1>3. /\ d \in Nat /\ DEBOUNCE \in Nat /\ MaxGap \in Nat
        /\ Counting /\ Units = Keys /\ TimeInv /\ AsymInv
    BY DebounceAssumption DEF Counting, Units, Unit, Inv
  <1>4. /\ in \in [Keys -> BOOLEAN] /\ raw \in [Keys -> BOOLEAN]
        /\ cooked \in [Keys -> BOOLEAN] /\ pressed \in [Keys -> BOOLEAN]
    BY DEF TypeOK, Matrix
  <1>5. \A k \in Keys : Left(k, t) = IF counter[k] > d THEN counter[k] - d ELSE 0
    BY <1>2, <1>3, LeftIs
  <1>6. \A u \in Keys \cup Rows : counter[u] \in 0..DEBOUNCE /\ Left(u, t) \in 0..DEBOUNCE
    BY <1>2, LeftType DEF TypeOK
  <1>7. \A k \in Keys : k \in Expired(t) <=> counter[k] # 0 /\ Left(k, t) = 0
    BY <1>3 DEF Expired
  <1>8. HistoryMax = 2 * DEBOUNCE + MaxGap
    BY HistoryBounds
  <1>9. \A k \in Keys : /\ quiet[k] \in Nat /\ quiet'[k] \in Nat
                        /\ steady[k] \in Nat /\ steady'[k] \in Nat
    <2>1. HistoryMax \in Nat
      BY HistoryBounds
    <2>2. /\ quiet \in [Keys -> 0..HistoryMax] /\ quiet' \in [Keys -> 0..HistoryMax]
          /\ steady \in [Keys -> 0..DEBOUNCE] /\ steady' \in [Keys -> 0..DEBOUNCE]
      BY ScanFacts DEF TypeOK
    <2>3. QED
      BY <1>3, <2>1, <2>2
  <1>10. shown \in [Keys -> BOOLEAN]
    BY <1>4
  <1>11. DebounceType
    <2>1. cooked' \in Matrix
      BY <1>1, <1>10 DEF Matrix
    <2>2. pressed' \in Matrix
      BY <1>1, <1>4 DEF Matrix
    <2>3. counter' \in [Keys \cup Rows -> 0..DEBOUNCE]
      BY <1>1, <1>3, <1>6
    <2>4. last_time' \in Time /\ counters_need_update' \in BOOLEAN
      BY <1>1, <1>2 DEF Timekeeping, TypeOK
    <2>5. QED
      BY <2>1, <2>2, <2>3, <2>4 DEF DebounceType
  <1>12. TimeInv'
    <2>1. started # {} => (in # raw) \/ counters_need_update
      <3>1. SUFFICES ASSUME NEW k \in Expired(t) PROVE counters_need_update
        OBVIOUS
      <3>2. k \in Units /\ counter[k] # 0
        BY DEF Expired
      <3>3. QED
        BY <1>3, <3>2 DEF TimeInv
    <2>2. \A u \in Units : counter'[u] = 0 \/ u \in started \/ counter'[u] = Left(u, t)
      BY <1>1, <1>3
    <2> HIDE DEF started
    <2>3. QED
      BY <1>1, <1>2, <1>3, <2>1, <2>2, TimekeepingInv
  <1>13. ASSUME NEW k \in Keys
         PROVE  /\ AsymKey(counter'[k], pressed'[k], in[k], cooked'[k], quiet'[k], steady'[k])
                /\ cooked'[k] # cooked[k] /\ cooked[k] =>
                     quiet'[k] >= DEBOUNCE /\ steady[k] + d >= DEBOUNCE
    <2> DEFINE start == k \in started
    <2>1. /\ counter[k] \in 0..DEBOUNCE /\ Left(k, t) \in Nat
          /\ counter[k] > d => Left(k, t) = counter[k] - d
          /\ counter[k] <= d => Left(k, t) = 0
      BY <1>3, <1>5, <1>6
    <2>2. /\ quiet[k] \in Nat /\ quiet'[k] \in Nat /\ steady[k] \in Nat /\ steady'[k] \in Nat
          /\ pressed[k] \in BOOLEAN /\ raw[k] \in BOOLEAN /\ cooked[k] \in BOOLEAN
          /\ in[k] \in BOOLEAN /\ shown[k] \in BOOLEAN /\ transfer \in BOOLEAN /\ start \in BOOLEAN
      BY <1>4, <1>9, <1>10
    <2>3. /\ counter[k] # 0 /\ Left(k, t) = 0 /\ ~pressed[k] => shown[k] = in[k]
          /\ counter[k] = 0 \/ Left(k, t) # 0 \/ pressed[k] => shown[k] = cooked[k]
      BY <1>7
    <2>4. in[k] # raw[k] \/ (counter[k] # 0 /\ Left(k, t) = 0 /\ pressed[k]) => transfer
      BY <1>7
    <2>5. /\ start => transfer /\ in[k] # shown[k] /\ Left(k, t) = 0
          /\ transfer /\ in[k] # shown[k] /\ Left(k, t) = 0 => start
      OBVIOUS
    <2>6. k \in bounced <=> transfer /\ in[k] = shown[k] /\ ~pressed[k]
      OBVIOUS
    <2>7. /\ cooked'[k] = IF start /\ in[k] THEN TRUE ELSE shown[k]
          /\ pressed'[k] = IF start THEN in[k] ELSE pressed[k]
          /\ counter'[k] = IF start THEN DEBOUNCE ELSE IF k \in bounced THEN 0 ELSE Left(k, t)
      BY <1>1
    <2>8. /\ in[k] # raw[k] => quiet'[k] = 0
          /\ in[k] = raw[k] =>
               quiet'[k] = IF quiet[k] + d <= 2 * DEBOUNCE + MaxGap THEN quiet[k] + d
                           ELSE 2 * DEBOUNCE + MaxGap
          /\ cooked'[k] = cooked[k] =>
               steady'[k] = IF steady[k] + d <= DEBOUNCE THEN steady[k] + d ELSE DEBOUNCE
      BY <1>8, ScanFacts
    <2>9. AsymKey(counter[k], pressed[k], raw[k], cooked[k], quiet[k], steady[k])
      BY <1>3 DEF AsymInv
    <2> HIDE DEF t, shown, transfer, started, bounced, start
    <2>10. /\ start => cooked'[k] = (in[k] \/ shown[k]) /\ pressed'[k] = in[k]
                       /\ counter'[k] = DEBOUNCE
           /\ ~start => cooked'[k] = shown[k] /\ pressed'[k] = pressed[k]
           /\ ~start /\ transfer /\ in[k] = shown[k] /\ ~pressed[k] => counter'[k] = 0
           /\ ~start /\ ~(transfer /\ in[k] = shown[k] /\ ~pressed[k]) => counter'[k] = Left(k, t)
      BY <2>2, <2>6, <2>7
    <2>11. AsymScan(d, counter[k], pressed[k], raw[k], cooked[k], quiet[k], steady[k], in[k],
                    transfer, Left(k, t), shown[k], start,
                    counter'[k], pressed'[k], cooked'[k], quiet'[k], steady'[k])
      BY <2>1, <2>2, <2>3, <2>4, <2>5, <2>8, <2>10, Zenon DEF AsymScan
    <2>12. QED
      BY <2>9, <2>11, AsymKeyStep
  <1>14. AsymInv'
    BY <1>2, <1>13 DEF AsymInv
  <1>15. Filtered
    <2> SUFFICES ASSUME NEW k \in Keys, cooked'[k] # cooked[k], cooked[k], NEW l \in Together(k)
                 PROVE  /\ quiet'[l] >= DEBOUNCE
                        /\ steady[l] + TIMER_DIFF_FAST(now', now) >= DEBOUNCE
      BY DEF Filtered, Eager, Defers
    <2>1. l = k
      BY DEF Together, Unit
    <2>2. TIMER_DIFF_FAST(now', now) = d
      BY ScanFacts
    <2>3. QED
      BY <1>13, <2>1, <2>2
  <1>16. QED
    BY <1>2, <1>11, <1>12, <1>14, <1>15 DEF Inv

-----------------------------------------------------------------------------
(* Initially no key is down and nothing is counted. *)
LEMMA InitiallyInv == Init => TypeOK /\ Inv
  <1> SUFFICES ASSUME Init PROVE TypeOK /\ Inv
    OBVIOUS
  <1>1. algo \in Algorithms /\ DEBOUNCE \in Nat /\ DEBOUNCE > 0 /\ MaxGap \in Nat /\ TimerRange \in Nat
        /\ TimerRange > 0 /\ Row \in [Keys -> Rows]
    BY DebounceAssumption DEF Init
  <1>2. HistoryMax \in Nat /\ HistoryMax >= DEBOUNCE
    <2>1. Latency \in Nat
      BY <1>1 DEF Latency
    <2>2. QED
      BY <1>1, <2>1 DEF HistoryMax
  <1>3. TypeOK
    <2>1. 0 \in Time /\ 0 \in 0..DEBOUNCE /\ DEBOUNCE \in 0..DEBOUNCE
          /\ HistoryMax \in 0..HistoryMax
      BY <1>1, <1>2 DEF Time
    <2>2. raw \in Matrix /\ cooked \in Matrix /\ pressed \in Matrix
      BY DEF Init, Matrix
    <2>3. counter \in [Keys \cup Rows -> 0..DEBOUNCE] /\ steady \in [Keys -> 0..DEBOUNCE]
      BY <2>1 DEF Init
    <2>4. quiet \in [Keys -> 0..HistoryMax]
      BY <2>1 DEF Init
    <2>5. QED
      BY <2>1, <2>2, <2>3, <2>4 DEF Init, TypeOK
  <1>4. \A k \in Keys : Unit(k) \in Keys \cup Rows
    BY <1>1 DEF Unit
  <1>5. \A u \in Units : counter[u] = 0
    BY <1>4 DEF Init, Units
  <1>6. TimeInv
    BY <1>5 DEF Init, TimeInv
  <1>7. GlobalInv
    BY DEF Init, GlobalInv
  <1>8. RowInv /\ KeyInv
    BY <1>1 DEF Init, RowInv, KeyInv
  <1>9. EagerInv
    BY <1>1, <1>4 DEF Init, EagerInv
  <1>10. AsymInv
    BY <1>1 DEF Init, AsymInv, AsymKey
  <1>11. QED
    BY <1>3, <1>6, <1>7, <1>8, <1>9, <1>10 DEF Init, Inv

(* One scan, whatever the algorithm. *)
LEMMA ScanStep ==
  ASSUME TypeOK, Inv, Next
  PROVE  TypeOK' /\ Inv' /\ Filtered
  <1>1. PICK in \in Matrix, d \in 0..MaxGap : matrix_scan(in, d)
    BY DEF Next
  <1>2. algo \in Algorithms
    BY DEF TypeOK
  <1>3. DebounceType /\ Inv' /\ Filtered
    BY <1>1, <1>2, NoneStep, GlobalStep, RowStep, KeyStep, EagerStep, AsymStep DEF Algorithms
  <1>4. TypeOK'
    BY <1>1, <1>3, ScanType
  <1>5. QED
    BY <1>3, <1>4

(* The invariant is inductive. *)
LEMMA InvInductive == TypeOK /\ Inv /\ [Next]_vars => TypeOK' /\ Inv'
  <1>1. ASSUME TypeOK, Inv, UNCHANGED vars PROVE TypeOK' /\ Inv'
    <2>1. TypeOK'
      BY <1>1 DEF vars, TypeOK, HistoryMax, Latency
    <2>2. TimeInv'
      BY <1>1 DEF vars, Inv, TimeInv, Counting, Units, Unit
    <2>3. \A k \in Keys : Unit(k)' = Unit(k)
      BY <1>1 DEF vars, Unit
    <2>4. /\ (algo = "sym_eager_pr" \/ algo = "sym_eager_pk") => EagerInv'
      BY <1>1, <2>3 DEF vars, Inv, EagerInv
    <2>5. QED
      BY <1>1, <2>1, <2>2, <2>4
      DEF vars, Inv, GlobalInv, RowInv, KeyInv, AsymInv, Age, TIMER_DIFF_FAST
  <1>2. QED
    BY <1>1, ScanStep

(* The inductive invariant behind the theorems: how each algorithm's counters *)
(* and flags relate to how long its keys have been quiet.                     *)
THEOREM InvHolds == Spec => [](TypeOK /\ Inv)
  BY InitiallyInv, InvInductive, PTL DEF Spec

(* Debouncing is type-correct: no counter underflows when more time has      *)
(* passed than it had left, nor exceeds DEBOUNCE, and the times stay times.  *)
THEOREM DebounceTypeCorrectness == Spec => []TypeOK
  BY InvHolds, PTL

(* Follows from the invariants of the algorithms: what is not reported has a *)
(* counter that runs, or debouncing is going on, and neither is old.         *)
LEMMA InvFollows == TypeOK /\ Inv => Follows
  <1> SUFFICES ASSUME TypeOK, Inv, NEW k \in Keys, cooked[k] # raw[k]
               PROVE  \E l \in Together(k) : ~(quiet[l] >= Latency)
    BY DEF Follows
  <1>1. algo \in Algorithms /\ DEBOUNCE \in Nat /\ DEBOUNCE > 0 /\ MaxGap \in Nat
        /\ Row \in [Keys -> Rows]
    BY DebounceAssumption DEF TypeOK
  <1>2. \A l \in Keys : quiet[l] \in Nat
    BY HistoryBounds DEF TypeOK
  <1>3. algo # "sym_defer_g" => k \in Together(k)
    BY DEF Together
  <1>4. \A u \in Keys \cup Rows : counter[u] \in 0..DEBOUNCE
    BY DEF TypeOK
  <1>5. algo # "none" /\ algo # "asym_eager_defer_pk" => Latency = DEBOUNCE
    BY DEF Latency
  <1>6. CASE algo = "none"
    BY <1>6 DEF Inv
  <1>7. CASE algo = "sym_defer_g"
    <2>1. GlobalInv
      BY <1>7 DEF Inv
    <2>2. counters_need_update
      BY <2>1 DEF GlobalInv
    <2>3. PICK l \in Keys : quiet[l] = Age /\ Age < DEBOUNCE
      BY <2>1, <2>2 DEF GlobalInv
    <2>4. l \in Together(k)
      BY <1>7 DEF Together
    <2>5. QED
      BY <1>1, <1>2, <1>5, <1>7, <2>3, <2>4
  <1>8. CASE algo = "sym_defer_pr"
    <2>1. RowInv
      BY <1>8 DEF Inv
    <2>2. counter[Row[k]] # 0 /\ counter[Row[k]] \in 0..DEBOUNCE
      BY <1>1, <1>4, <2>1 DEF RowInv
    <2>3. PICK l \in Keys : Row[l] = Row[k] /\ quiet[l] = DEBOUNCE - counter[Row[k]]
      BY <2>1, <2>2 DEF RowInv
    <2>4. l \in Together(k)
      BY <1>8, <2>3 DEF Together, Unit
    <2>5. QED
      BY <1>1, <1>2, <1>5, <1>8, <2>2, <2>3, <2>4
  <1>9. CASE algo = "sym_defer_pk"
    <2>1. counter[k] # 0 /\ quiet[k] = DEBOUNCE - counter[k]
      BY <1>9 DEF Inv, KeyInv
    <2>2. QED
      BY <1>1, <1>3, <1>4, <1>5, <1>9, <2>1
  <1>10. CASE algo \in {"sym_eager_pr", "sym_eager_pk"}
    <2>1. counter[Unit(k)] # 0 /\ quiet[k] <= DEBOUNCE - counter[Unit(k)]
      BY <1>10 DEF Inv, EagerInv
    <2>2. Unit(k) \in Keys \cup Rows
      BY <1>1 DEF Unit
    <2>3. counter[Unit(k)] \in 0..DEBOUNCE
      BY <1>4, <2>2
    <2>4. quiet[k] < DEBOUNCE
      BY <1>1, <1>2, <2>1, <2>3
    <2>5. QED
      BY <1>1, <1>2, <1>3, <1>5, <1>10, <2>4
  <1>11. CASE algo = "asym_eager_defer_pk"
    <2>1. Latency = 2 * DEBOUNCE + MaxGap
      BY <1>11 DEF Latency
    <2>2. AsymKey(counter[k], pressed[k], raw[k], cooked[k], quiet[k], steady[k])
      BY <1>11 DEF Inv, AsymInv
    <2>3. cooked[k] \in BOOLEAN /\ raw[k] \in BOOLEAN /\ pressed[k] \in BOOLEAN
      BY DEF TypeOK, Matrix
    <2>4. cooked[k] /\ ~raw[k]
      BY <2>2, <2>3 DEF AsymKey
    <2>5. counter[k] # 0 /\ counter[k] \in 0..DEBOUNCE
      BY <1>4, <2>2, <2>4 DEF AsymKey
    <2>6. quiet[k] <= DEBOUNCE - counter[k] \/ quiet[k] < 2 * DEBOUNCE + MaxGap - counter[k]
      BY <2>2, <2>3, <2>4, <2>5 DEF AsymKey
    <2>7. quiet[k] < 2 * DEBOUNCE + MaxGap
      BY <1>1, <1>2, <2>5, <2>6
    <2>8. QED
      BY <1>1, <1>2, <1>3, <1>11, <2>1, <2>7
  <1>12. QED
    BY <1>1, <1>6, <1>7, <1>8, <1>9, <1>10, <1>11 DEF Algorithms

(* No key is stuck: a raw state that lasts for the latency of the algorithm  *)
(* is the cooked one, although the scans come irregularly, the timer wraps   *)
(* and changes seen while a counter ran were ignored.                        *)
THEOREM EveryStateIsReported == Spec => []Follows
  BY InvHolds, InvFollows, PTL

(* A deferring algorithm reports a change only after DEBOUNCE quiet          *)
(* milliseconds of every key debounced with it.                              *)
THEOREM NoiseIsFiltered == Spec => NoiseFiltered
  <1> DEFINE A == \A k \in Keys :
                    cooked'[k] # cooked[k] /\ Defers(k) =>
                      \A l \in Together(k) : quiet'[l] >= DEBOUNCE
  <1>1. TypeOK /\ Inv /\ [Next]_vars => [A]_vars
    BY ScanStep DEF Filtered
  <1>2. QED
    BY <1>1, InvHolds, PTL DEF Spec, NoiseFiltered

(* An eager algorithm reports no second change of a key or of its row within *)
(* DEBOUNCE milliseconds of a first.                                         *)
THEOREM ChatterIsFiltered == Spec => ChatterFiltered
  <1> DEFINE A == \A k \in Keys :
                    cooked'[k] # cooked[k] /\ Eager(k) =>
                      \A l \in Together(k) :
                        steady[l] + TIMER_DIFF_FAST(now', now) >= DEBOUNCE
  <1>1. TypeOK /\ Inv /\ [Next]_vars => [A]_vars
    BY ScanStep DEF Filtered
  <1>2. QED
    BY <1>1, InvHolds, PTL DEF Spec, ChatterFiltered
=============================================================================
