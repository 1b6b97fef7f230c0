------------------------- MODULE DeferredExecProofs -------------------------
(***************************************************************************)
(* Deferred execution for every table size, token width, timer width and   *)
(* choice of delays: types, that a token names one executor, and how late  *)
(* an executor may be, so that the signed comparison of times is right.    *)
(***************************************************************************)
EXTENDS DeferredExec, NumberLemmas, TLAPS

(* The time a delay from now ends is a time. *)
LEMMA TimeType ==
  ASSUME NEW t \in Time, NEW d \in Nat
  PROVE  (t + d) % TimerRange \in Time
  <1>1. t + d \in Int
    BY DEF Time
  <1>2. QED
    BY <1>1, ModInRange, DeferredAssumption DEF Time

(* allocate_token leaves current_token within its range, and finds a token   *)
(* that is valid and that no executor of the table holds, if there is one.   *)
LEMMA AllocateToken ==
  ASSUME TypeOK
  PROVE  /\ AfterAllocate \in Token
         /\ Usable # {} => token_can_be_used(AfterAllocate)
  <1>1. current_token \in Nat /\ TokenRange \in Nat \ {0}
    BY DeferredAssumption DEF TypeOK, Token
  <1>2. Usable \subseteq Nat
    BY DeferredAssumption DEF Usable
  <1>3. CASE Usable = {}
    <2>1. AfterAllocate = (current_token + 1) % TokenRange
      BY <1>3 DEF AfterAllocate
    <2>2. QED
      BY <1>1, <1>3, <2>1, ModInRange DEF Token
  <1>4. CASE Usable # {}
    <2>1. PICK d \in Usable : d = Min(Usable)
      BY <1>2, <1>4, MinIsMember
    <2>2. AfterAllocate = (current_token + d) % TokenRange
      BY <1>4, <2>1 DEF AfterAllocate
    <2>3. current_token + d \in Int
      BY <1>1, <1>2
    <2>4. AfterAllocate \in Token
      BY <1>1, <2>2, <2>3, ModInRange DEF Token
    <2>5. token_can_be_used((current_token + d) % TokenRange)
      BY DEF Usable
    <2>6. QED
      BY <2>2, <2>4, <2>5
  <1>5. QED
    BY <1>3, <1>4

(* The searches through the table end at one of its entries. *)
LEMMA FirstFree ==
  ASSUME Free # {}
  PROVE  Min(Free) \in Slots /\ table[Min(Free)].token = INVALID_DEFERRED_TOKEN
  <1>1. Free \subseteq Nat
    BY DeferredAssumption DEF Free, Slots
  <1>2. Min(Free) \in Free
    BY <1>1, MinIsMember
  <1>3. QED
    BY <1>2 DEF Free

LEMMA FirstHolding ==
  ASSUME NEW t \in Token, Holding(t) # {}
  PROVE  Min(Holding(t)) \in Slots /\ table[Min(Holding(t))].token = t
  <1>1. Holding(t) \subseteq Nat
    BY DeferredAssumption DEF Holding, Slots
  <1>2. Min(Holding(t)) \in Holding(t)
    BY <1>1, MinIsMember
  <1>3. QED
    BY <1>2 DEF Holding

(* The inductive invariant: neither conjunct needs more than the other. *)
Inv == TypeOK /\ TokensUnique

LEMMA NoExecutorType == NoExecutor \in Executor
  BY DeferredAssumption DEF NoExecutor, Executor, Token, Time, INVALID_DEFERRED_TOKEN

(* The drift stays within its bound. *)
LEMMA LaterType ==
  ASSUME NEW n \in 0..(MaxDrift + 1), NEW delay \in Nat
  PROVE  Later(n, delay) \in 0..(MaxDrift + 1)
  <1>1. n + (MaxLag - delay) \in Int /\ MaxDrift + 1 \in Int /\ MaxLag \in Nat /\ MaxDrift \in Nat
    BY DeferredAssumption
  <1>2. Min({n + (MaxLag - delay), MaxDrift + 1})
          = IF n + (MaxLag - delay) <= MaxDrift + 1 THEN n + (MaxLag - delay) ELSE MaxDrift + 1
    BY <1>1, MinOfTwo
  <1>3. QED
    BY <1>1, <1>2 DEF Later

LEMMA DriftReset ==
  ASSUME TypeOK, NEW s \in Slots, drift' = [drift EXCEPT ![s] = 0]
  PROVE  drift' \in [Slots -> 0..(MaxDrift + 1)]
  BY DeferredAssumption DEF TypeOK

(* Queueing keeps the invariant: the token is fresh in the table. *)
LEMMA DeferStep ==
  ASSUME Inv, NEW delay \in Delays, defer_exec(delay)
  PROVE  Inv'
  <1> USE DEF INVALID_DEFERRED_TOKEN
  <1> DEFINE s == Min(Free)
             e == [token |-> AfterAllocate, trigger_time |-> (now + delay) % TimerRange]
  <1>1. TypeOK
    BY DEF Inv
  <1>2. s \in Slots
    BY FirstFree DEF defer_exec
  <1>3. e \in Executor
    BY <1>1, AllocateToken, TimeType, DeferredAssumption DEF Executor, TypeOK
  <1>4. \/ table' = table
        \/ /\ table' = [table EXCEPT ![s] = e]
           /\ token_can_be_used(AfterAllocate)
    BY <1>1, AllocateToken DEF defer_exec
  <1>5. table' \in [Slots -> Executor]
    BY <1>1, <1>2, <1>3, <1>4 DEF TypeOK
  <1>6. calls' \in 0..MaxCalls
    BY <1>1, DeferredAssumption DEF TypeOK, defer_exec, Called
  <1>7. current_token' \in Token
    BY <1>1, AllocateToken DEF defer_exec
  <1>8. TypeOK'
    BY <1>1, <1>5, <1>6, <1>7 DEF TypeOK, defer_exec, task, history
  <1>9. TokensUnique'
    <2>1. CASE table' = table
      BY <2>1 DEF Inv, TokensUnique
    <2>2. CASE table' = [table EXCEPT ![s] = e] /\ token_can_be_used(AfterAllocate)
      <3>1. \A x \in Slots : table[x].token # AfterAllocate
        BY <2>2 DEF token_can_be_used
      <3>2. table \in [Slots -> Executor] /\ e.token = AfterAllocate
        BY <1>1 DEF TypeOK
      <3> HIDE DEF s, e
      <3>3. \A x \in Slots : table'[x] = IF x = s THEN e ELSE table[x]
        BY <2>2, <3>2, <1>2
      <3>4. QED
        BY <3>1, <3>2, <3>3 DEF Inv, TokensUnique
    <2>3. QED
      BY <1>4, <2>1, <2>2
  <1>10. QED
    BY <1>8, <1>9 DEF Inv

(* A change of one entry that keeps its token or frees it keeps tokens       *)
(* unique.                                                                   *)
LEMMA UniqueKept ==
  ASSUME TypeOK, TokensUnique, table' \in [Slots -> Executor],
         \A x \in Slots : table'[x].token \in {table[x].token, INVALID_DEFERRED_TOKEN}
  PROVE  TokensUnique'
  BY DEF TokensUnique

(* Extending, cancelling and queueing elsewhere keep the invariant. *)
LEMMA ClientStep ==
  ASSUME Inv, Client
  PROVE  Inv'
  <1>1. TypeOK /\ TokensUnique
    BY DEF Inv
  <1>2. ASSUME Called PROVE calls' \in 0..MaxCalls
    BY <1>1, <1>2, DeferredAssumption DEF TypeOK, Called
  <1>3. ASSUME NEW d \in 1..(OtherEntries + 1), DeferInOtherTable(d) PROVE Inv'
    <2>1. current_token' \in Token
      <3>1. current_token + d \in Int
        BY <1>1, DeferredAssumption DEF TypeOK, Token
      <3>2. QED
        BY <1>3, <3>1, ModInRange, DeferredAssumption DEF DeferInOtherTable, Token
    <2>2. QED
      BY <1>1, <1>2, <1>3, <2>1 DEF DeferInOtherTable, task, history, Inv, TypeOK, TokensUnique
  <1>4. ASSUME NEW t \in Token, NEW delay \in Delays, extend_deferred_exec(t, delay) PROVE Inv'
    <2> DEFINE s == Min(Holding(t))
               time == (now + delay) % TimerRange
    <2>1. s \in Slots
      BY <1>4, FirstHolding DEF extend_deferred_exec
    <2>2. time \in Time
      BY <1>1, TimeType, DeferredAssumption DEF TypeOK
    <2>3. table' = [table EXCEPT ![s].trigger_time = time] /\ drift' = [drift EXCEPT ![s] = 0]
      BY <1>4 DEF extend_deferred_exec
    <2>4. calls' \in 0..MaxCalls
      BY <1>2, <1>4 DEF extend_deferred_exec
    <2> HIDE DEF s, time
    <2>5. table' \in [Slots -> Executor] /\ \A x \in Slots : table'[x].token = table[x].token
      BY <1>1, <2>1, <2>2, <2>3 DEF TypeOK, Executor
    <2>6. TypeOK'
      <3>1. drift' \in [Slots -> 0..(MaxDrift + 1)]
        BY <1>1, <2>1, <2>3, DriftReset
      <3>2. QED
        BY <1>1, <1>4, <2>4, <2>5, <3>1 DEF extend_deferred_exec, TypeOK, task
    <2>7. TokensUnique'
      BY <1>1, <2>5, UniqueKept
    <2>8. QED
      BY <2>6, <2>7 DEF Inv
  <1>5. ASSUME NEW t \in Token, cancel_deferred_exec(t) PROVE Inv'
    <2> DEFINE s == Min(Holding(t))
    <2>1. s \in Slots
      BY <1>5, FirstHolding DEF cancel_deferred_exec
    <2>2. /\ table' = [table EXCEPT ![s] = NoExecutor] /\ mine' = (mine /\ s # i)
          /\ drift' = [drift EXCEPT ![s] = 0]
      BY <1>5 DEF cancel_deferred_exec
    <2>3. calls' \in 0..MaxCalls
      BY <1>2, <1>5 DEF cancel_deferred_exec
    <2> HIDE DEF s
    <2>4. table' \in [Slots -> Executor]
      BY <1>1, <2>1, <2>2, NoExecutorType DEF TypeOK
    <2>5. \A x \in Slots : table'[x].token \in {table[x].token, INVALID_DEFERRED_TOKEN}
      BY <1>1, <2>1, <2>2 DEF TypeOK, NoExecutor
    <2>6. TypeOK'
      <3>1. drift' \in [Slots -> 0..(MaxDrift + 1)]
        BY <1>1, <2>1, <2>2, DriftReset
      <3>2. QED
        BY <1>1, <1>5, <2>2, <2>3, <2>4, <3>1 DEF cancel_deferred_exec, TypeOK, task
    <2>7. TokensUnique'
      BY <1>1, <2>4, <2>5, UniqueKept
    <2>8. QED
      BY <2>6, <2>7 DEF Inv
  <1>6. QED
    BY <1>3, <1>4, <1>5, DeferStep DEF Client

(* Going on to the next entry, or ending the walk, keeps the types. *)
LEMMA NextEntryType ==
  ASSUME TypeOK, pc # "idle", NextEntry, table' \in [Slots -> Executor],
         drift' \in [Slots -> 0..(MaxDrift + 1)],
         UNCHANGED <<current_token, last_execution_time, now>>
  PROVE  TypeOK'
  <1>1. i \in 1..TableSize /\ TableSize \in Nat
    BY DeferredAssumption DEF TypeOK, Slots
  <1>2. /\ i' \in 0..TableSize
        /\ pc' \in {"idle", "scan", "callback"}
        /\ pc' # "idle" => i' \in Slots
    BY <1>1 DEF NextEntry, Slots
  <1>3. 0 \in Token /\ 0 \in Time /\ 0 \in 0..MaxCalls
    BY DeferredAssumption DEF Token, Time
  <1>4. /\ at' \in Time
        /\ curr_token' \in Token
        /\ calls' \in 0..MaxCalls
        /\ mine' \in BOOLEAN
    BY <1>3 DEF TypeOK, NextEntry, INVALID_DEFERRED_TOKEN
  <1>5. QED
    BY <1>2, <1>4 DEF TypeOK

(* The walk through the table keeps the invariant. *)
LEMMA TaskKeepsInv ==
  ASSUME Inv, TaskStep
  PROVE  Inv'
  <1>1. TypeOK /\ TokensUnique
    BY DEF Inv
  <1>2. CASE TaskStart
    BY <1>1, <1>2, DeferredAssumption DEF TaskStart, history, Inv, TypeOK, TokensUnique, Slots
  <1>3. CASE SkipEntry
    BY <1>1, <1>3, NextEntryType DEF SkipEntry, Inv, TypeOK, TokensUnique
  <1>4. CASE InvokeCallback
    <2>1. curr_token' \in Token
      BY <1>1, <1>4 DEF InvokeCallback, TypeOK, Executor
    <2>2. QED
      BY <1>1, <1>4, <2>1 DEF InvokeCallback, Inv, TypeOK, TokensUnique
  <1>5. QED
    BY <1>2, <1>3, <1>4 DEF TaskStep

(* What the task does when a callback returns keeps the invariant, whatever  *)
(* the callback did to the table.                                            *)
LEMMA ReturnKeepsInv ==
  ASSUME Inv, NEW delay \in RepeatDelays \cup {0}, CallbackReturn(delay)
  PROVE  Inv'
  <1>1. TypeOK /\ TokensUnique /\ i \in Slots
    BY DEF Inv, TypeOK, CallbackReturn
  <1> DEFINE time == (table[i].trigger_time + delay) % TimerRange
  <1>2. time \in Time
    <2>1. table[i].trigger_time \in Time
      BY <1>1 DEF TypeOK, Executor
    <2>2. QED
      BY <2>1, TimeType, DeferredAssumption
  <1>3. \/ table' = table
        \/ table' = [table EXCEPT ![i] = NoExecutor]
        \/ table' = [table EXCEPT ![i].trigger_time = time]
    BY DEF CallbackReturn
  <1> HIDE DEF time
  <1>4. table' \in [Slots -> Executor]
    BY <1>1, <1>2, <1>3, NoExecutorType DEF TypeOK, Executor
  <1>5. \A x \in Slots : table'[x].token \in {table[x].token, INVALID_DEFERRED_TOKEN}
    BY <1>1, <1>3 DEF TypeOK, Executor, NoExecutor
  <1>6. TypeOK'
    <2>1. drift' \in [Slots -> 0..(MaxDrift + 1)]
      <3> DEFINE n == IF delay = 0 THEN 0 ELSE Later(drift[i], delay)
      <3>1. drift[i] \in 0..(MaxDrift + 1) /\ delay \in Nat /\ 0 \in 0..(MaxDrift + 1)
        BY <1>1, DeferredAssumption DEF TypeOK
      <3>2. n \in 0..(MaxDrift + 1)
        BY <3>1, LaterType
      <3>3. drift' = drift \/ drift' = [drift EXCEPT ![i] = n]
        BY DEF CallbackReturn
      <3> HIDE DEF n
      <3>4. QED
        BY <1>1, <3>2, <3>3 DEF TypeOK
    <2>2. QED
      BY <1>1, <1>4, <2>1, NextEntryType DEF CallbackReturn
  <1>7. QED
    BY <1>1, <1>4, <1>5, <1>6, UniqueKept DEF Inv

(* The timer interrupt keeps the invariant. *)
LEMMA TickKeepsInv ==
  ASSUME Inv, Tick
  PROVE  Inv'
  <1>1. now' \in Time
    BY TimeType DEF Inv, TypeOK, Tick
  <1>2. QED
    BY <1>1 DEF Tick, task, history, Inv, TypeOK, TokensUnique

LEMMA InvInductive == Inv /\ [Next]_vars => Inv'
  <1>1. ASSUME Inv, UNCHANGED vars PROVE Inv'
    BY <1>1 DEF vars, history, Inv, TypeOK, TokensUnique
  <1>2. QED
    BY <1>1, ClientStep, TaskKeepsInv, ReturnKeepsInv, TickKeepsInv DEF Next, Return

LEMMA InvInitially == Init => Inv
  <1> SUFFICES ASSUME Init PROVE Inv
    OBVIOUS
  <1>1. 0 \in Token /\ 0 \in Time /\ 0 \in 0..MaxCalls /\ 0 \in 0..TableSize
    BY DeferredAssumption DEF Token, Time
  <1>2. table \in [Slots -> Executor]
    BY NoExecutorType DEF Init
  <1>3. TypeOK
    <2>1. drift \in [Slots -> 0..(MaxDrift + 1)]
      BY DeferredAssumption DEF Init
    <2>2. QED
      BY <1>1, <1>2, <2>1 DEF Init, TypeOK, INVALID_DEFERRED_TOKEN
  <1>4. TokensUnique
    BY DEF Init, TokensUnique, NoExecutor
  <1>5. QED
    BY <1>3, <1>4 DEF Inv

(* Deferred execution is type-correct for every table, token and timer        *)
(* width: in particular the task never leaves the table and the token         *)
(* counter never leaves its byte, whatever callbacks do meanwhile.            *)
THEOREM DeferredTypeCorrectness == Spec => []TypeOK
  <1>1. Inv => TypeOK
    BY DEF Inv
  <1>2. QED
    BY <1>1, InvInitially, InvInductive, PTL DEF Spec

(* No two executors of a table hold the same token, however often the tokens  *)
(* wrap around and whatever callbacks queue and cancel while the task walks   *)
(* the table.                                                                 *)
THEOREM TokensStayUnique == Spec => []TokensUnique
  <1>1. Inv => TokensUnique
    BY DEF Inv
  <1>2. QED
    BY <1>1, InvInitially, InvInductive, PTL DEF Spec

-----------------------------------------------------------------------------
(* TriggerNear bounds the time left of every executor.  That is seen from    *)
(* the time the task last started its walk: entries the walk has passed are  *)
(* due after it, the others after the walk before, but for their drift.  An  *)
(* entry whose drift is no longer counted is left alone.                     *)
Late == (now - last_execution_time) % TimerRange
LeftOf(s) == SignedDiff(table[s].trigger_time, now)
InUse(s) == table[s].token # INVALID_DEFERRED_TOKEN
Passed(s) == pc = "idle" \/ s < i

ClockInv == Late <= MaxLag /\ (pc # "idle" => at = last_execution_time)

SlotInv(s) ==
  /\ LeftOf(s) + Late > -(MaxLag + drift[s])
  /\ Passed(s) => LeftOf(s) + Late > -drift[s]
  /\ \E d \in Delays, r \in RepeatDelays \cup {0} : LeftOf(s) <= d + r
  /\ ~Passed(s) => \E d \in Delays, r \in RepeatDelays \cup {0, MaxLag} : LeftOf(s) + Late <= d + r
  /\ pc = "callback" /\ s = i => /\ \E d \in Delays : LeftOf(s) <= d
                                 /\ table[s].token # curr_token => LeftOf(s) + Late > 0

Counted(s) == InUse(s) /\ drift[s] <= MaxDrift

NearInv == ClockInv /\ \A s \in Slots : Counted(s) => SlotInv(s)

(* Arithmetic of the signed difference, as long as it stays in half of the   *)
(* timer's range: seen from an earlier time, from a later one, of a time     *)
(* just computed, and of a time put off.                                     *)
LEMMA DiffRange ==
  ASSUME NEW x \in Time, NEW y \in Time
  PROVE  /\ SignedDiff(x, y) \in Int
         /\ -TimerRange <= 2 * SignedDiff(x, y)
         /\ 2 * SignedDiff(x, y) < TimerRange
  BY DeferredAssumption DEF SignedDiff, Time

LEMMA DiffEarlier ==
  ASSUME NEW x \in Time, NEW y \in Time, NEW z \in Time, NEW e \in Time,
         z = (y + e) % TimerRange,
         -TimerRange <= 2 * (SignedDiff(x, z) + e), 2 * (SignedDiff(x, z) + e) < TimerRange
  PROVE  SignedDiff(x, y) = SignedDiff(x, z) + e
  BY DeferredAssumption DEF SignedDiff, Time

LEMMA DiffLater ==
  ASSUME NEW x \in Time, NEW y \in Time, NEW z \in Time, NEW e \in Time,
         z = (y + e) % TimerRange, -TimerRange <= 2 * (SignedDiff(x, y) - e)
  PROVE  SignedDiff(x, z) = SignedDiff(x, y) - e
  BY DeferredAssumption DEF SignedDiff, Time

LEMMA DiffFromNow ==
  ASSUME NEW y \in Time, NEW d \in Nat, 2 * d < TimerRange
  PROVE  SignedDiff((y + d) % TimerRange, y) = d
  BY DeferredAssumption DEF SignedDiff, Time

LEMMA DiffPutOff ==
  ASSUME NEW x \in Time, NEW y \in Time, NEW d \in Nat, 2 * (SignedDiff(x, y) + d) < TimerRange
  PROVE  SignedDiff((x + d) % TimerRange, y) = SignedDiff(x, y) + d
  BY DeferredAssumption DEF SignedDiff, Time

LEMMA Numbers ==
  ASSUME TypeOK
  PROVE  /\ TimerRange \in Nat \ {0} /\ MaxLag \in Nat /\ MaxLag > 0 /\ MaxLag \in Time
         /\ MaxDrift \in Nat /\ 2 * (2 * MaxLag + MaxDrift) <= TimerRange
         /\ \A s \in Slots : drift[s] \in Nat
         /\ Late \in Nat /\ Late \in Time /\ now = (last_execution_time + Late) % TimerRange
         /\ \A s \in Slots : LeftOf(s) \in Int /\ table[s].trigger_time \in Time
  <1>1. /\ TimerRange \in Nat \ {0} /\ MaxLag \in Nat /\ MaxLag > 0 /\ MaxLag \in Time
        /\ MaxDrift \in Nat /\ 2 * (2 * MaxLag + MaxDrift) <= TimerRange
    BY DeferredAssumption, TimerAssumption DEF Time
  <1>2. now \in 0..(TimerRange - 1) /\ last_execution_time \in 0..(TimerRange - 1)
    BY DEF TypeOK, Time
  <1>3. Late \in Nat /\ Late \in Time /\ now = (last_execution_time + Late) % TimerRange
    BY <1>1, <1>2 DEF Late, Time
  <1>4. \A s \in Slots : table[s].trigger_time \in Time
    BY DEF TypeOK, Executor
  <1>5. \A s \in Slots : LeftOf(s) \in Int
    BY <1>4, DiffRange DEF LeftOf, TypeOK
  <1>6. \A s \in Slots : drift[s] \in Nat
    BY <1>1 DEF TypeOK
  <1>7. QED
    BY <1>1, <1>3, <1>4, <1>5, <1>6

(* An entry that is not written, while the task does not move. *)
LEMMA UntouchedSlot ==
  ASSUME NEW s \in Slots, SlotInv(s), table'[s] = table[s], drift'[s] = drift[s],
         UNCHANGED <<now, last_execution_time, pc, i, curr_token>>
  PROVE  SlotInv(s)'
  BY DEF SlotInv, LeftOf, Late, Passed

(* An entry that the interface queues or extends. *)
LEMMA WrittenSlot ==
  ASSUME TypeOK, TypeOK', ClockInv, NEW s \in Slots, NEW delay \in Delays,
         table'[s].trigger_time = (now + delay) % TimerRange,
         UNCHANGED <<now, last_execution_time, pc, i, curr_token>>
  PROVE  SlotInv(s)'
  <1>1. delay \in Nat /\ delay > 0 /\ 2 * delay < TimerRange
    BY DeferredAssumption, TimerAssumption
  <1>2. LeftOf(s)' = delay
    BY <1>1, DiffFromNow DEF LeftOf, TypeOK
  <1>3. Late' = Late /\ Late \in Nat /\ Late <= MaxLag /\ MaxLag \in Nat
    BY Numbers DEF Late, ClockInv
  <1>4. drift'[s] \in Nat
    BY DeferredAssumption DEF TypeOK
  <1>5. /\ LeftOf(s)' + Late' > 0 /\ LeftOf(s)' + Late' > -(MaxLag + drift'[s])
        /\ LeftOf(s)' + Late' > -drift'[s]
    BY <1>1, <1>2, <1>3, <1>4
  <1>6. LeftOf(s)' + Late' <= delay + MaxLag /\ LeftOf(s)' <= delay + 0 /\ LeftOf(s)' <= delay
    BY <1>1, <1>2, <1>3
  <1>7. QED
    BY <1>5, <1>6 DEF SlotInv

(* The interface keeps the bounds, from the main loop and from a callback. *)
LEMMA ClientNear ==
  ASSUME TypeOK, TypeOK', NearInv, Client
  PROVE  NearInv'
  <1>1. UNCHANGED <<now, last_execution_time, pc, i, curr_token, at>>
    BY DEF Client, defer_exec, DeferInOtherTable, extend_deferred_exec, cancel_deferred_exec, task
  <1>2. ClockInv'
    BY <1>1 DEF NearInv, ClockInv, Late
  <1>3. ASSUME NEW s \in Slots, Counted(s)' PROVE SlotInv(s)'
    <2>1. ASSUME table'[s] = table[s], drift'[s] = drift[s] PROVE SlotInv(s)'
      <3>1. SlotInv(s)
        BY <1>3, <2>1 DEF NearInv, Counted, InUse
      <3>2. QED
        BY <1>1, <2>1, <3>1, UntouchedSlot
    <2>2. ASSUME NEW delay \in Delays, table'[s].trigger_time = (now + delay) % TimerRange
          PROVE  SlotInv(s)'
      BY <1>1, <2>2, WrittenSlot DEF NearInv
    <2>3. ASSUME NEW delay \in Delays, defer_exec(delay) PROVE SlotInv(s)'
      <3> DEFINE m == Min(Free)
                 e == [token |-> AfterAllocate, trigger_time |-> (now + delay) % TimerRange]
      <3>1. (table' = table \/ table' = [table EXCEPT ![m] = e]) /\ drift' = drift
        BY <2>3 DEF defer_exec, history
      <3>2. table'[s] = table[s] \/ table'[s] = e
        BY <3>1 DEF TypeOK
      <3>3. e.trigger_time = (now + delay) % TimerRange
        OBVIOUS
      <3> HIDE DEF e
      <3>4. QED
        BY <2>1, <2>2, <3>1, <3>2, <3>3
    <2>4. ASSUME NEW d \in 1..(OtherEntries + 1), DeferInOtherTable(d) PROVE SlotInv(s)'
      BY <2>1, <2>4 DEF DeferInOtherTable, history
    <2>5. ASSUME NEW t \in Token, NEW delay \in Delays, extend_deferred_exec(t, delay)
          PROVE  SlotInv(s)'
      <3> DEFINE m == Min(Holding(t))
      <3>1. /\ table' = [table EXCEPT ![m].trigger_time = (now + delay) % TimerRange]
            /\ drift' = [drift EXCEPT ![m] = 0]
        BY <2>5 DEF extend_deferred_exec
      <3> HIDE DEF m
      <3>2. \/ table'[s] = table[s] /\ drift'[s] = drift[s]
            \/ table'[s].trigger_time = (now + delay) % TimerRange
        BY <3>1 DEF TypeOK, Executor
      <3>3. QED
        BY <2>1, <2>2, <3>2
    <2>6. ASSUME NEW t \in Token, cancel_deferred_exec(t) PROVE SlotInv(s)'
      <3> DEFINE m == Min(Holding(t))
      <3>1. table' = [table EXCEPT ![m] = NoExecutor] /\ drift' = [drift EXCEPT ![m] = 0]
        BY <2>6 DEF cancel_deferred_exec
      <3> HIDE DEF m
      <3>2. (table'[s] = table[s] /\ drift'[s] = drift[s]) \/ table'[s] = NoExecutor
        BY <3>1 DEF TypeOK
      <3>3. table'[s] # NoExecutor
        BY <1>3 DEF Counted, InUse, NoExecutor
      <3>4. QED
        BY <2>1, <3>2, <3>3
    <2>7. QED
      BY <2>3, <2>4, <2>5, <2>6 DEF Client
  <1>4. QED
    BY <1>2, <1>3 DEF NearInv

(* Time moves on: what is left shrinks as the walk gets older. *)
LEMMA TickNear ==
  ASSUME TypeOK, NearInv, Tick
  PROVE  NearInv'
  <1>1. /\ now' = (now + 1) % TimerRange /\ Late < MaxLag
        /\ UNCHANGED <<table, last_execution_time, pc, i, curr_token, at, drift>>
    BY DEF Tick, task, history, Late
  <1>2. /\ TimerRange \in Nat \ {0} /\ MaxLag \in Nat /\ Late \in Nat /\ MaxDrift \in Nat
        /\ 2 * (2 * MaxLag + MaxDrift) <= TimerRange
        /\ 1 \in Time /\ now \in Time /\ now' \in Time /\ last_execution_time \in Time
    <2>1. 1 \in Time
      BY DeferredAssumption, TimerAssumption DEF Time
    <2>2. now' \in Time
      BY <1>1, TimeType DEF TypeOK
    <2>3. QED
      BY <2>1, <2>2, Numbers, DeferredAssumption, TimerAssumption DEF TypeOK
  <1>3. Late' = Late + 1
    <2>1. 1 \in 0..(TimerRange - 1) /\ ((now - last_execution_time) % TimerRange) + 1 < TimerRange
      BY <1>1, <1>2 DEF Late, Time
    <2>2. now \in 0..(TimerRange - 1) /\ last_execution_time \in 0..(TimerRange - 1)
      BY <1>2 DEF Time
    <2>3. (((now + 1) % TimerRange) - last_execution_time) % TimerRange
            = ((now - last_execution_time) % TimerRange) + 1
      BY <1>2, <2>1, <2>2, TimerAge
    <2>4. QED
      BY <1>1, <2>3 DEF Late
  <1>4. ClockInv'
    BY <1>1, <1>2, <1>3 DEF NearInv, ClockInv
  <1>5. ASSUME NEW s \in Slots, Counted(s)' PROVE SlotInv(s)'
    <2>1. SlotInv(s) /\ drift[s] <= MaxDrift
      BY <1>1, <1>5 DEF NearInv, Counted, InUse
    <2>2. LeftOf(s) \in Int /\ table[s].trigger_time \in Time /\ drift[s] \in Nat
      BY Numbers
    <2>3. -TimerRange <= 2 * (LeftOf(s) - 1)
      <3>1. LeftOf(s) + Late > -(MaxLag + drift[s])
        BY <2>1 DEF SlotInv
      <3>2. QED
        BY <1>1, <1>2, <2>1, <2>2, <3>1
    <2>4. LeftOf(s)' = LeftOf(s) - 1
      <3>1. LeftOf(s)' = SignedDiff(table[s].trigger_time, now')
        BY <1>1 DEF LeftOf, SignedDiff
      <3>2. LeftOf(s) = SignedDiff(table[s].trigger_time, now)
        BY DEF LeftOf
      <3>3. SignedDiff(table[s].trigger_time, now') = SignedDiff(table[s].trigger_time, now) - 1
        BY <1>1, <1>2, <2>2, <2>3, <3>2, DiffLater DEF Time
      <3>4. QED
        BY <3>1, <3>2, <3>3
    <2>5. LeftOf(s)' + Late' = LeftOf(s) + Late
      BY <1>2, <1>3, <2>2, <2>4
    <2>6. \A d, r \in Nat : LeftOf(s) <= d + r => LeftOf(s)' <= d + r
      BY <2>2, <2>4
    <2>7. \E d \in Delays, r \in RepeatDelays \cup {0} : LeftOf(s)' <= d + r
      BY <2>1, <2>6, DeferredAssumption DEF SlotInv
    <2>8. pc = "callback" /\ s = i => \E d \in Delays : LeftOf(s)' <= d
      <3>1. \A d \in Nat : LeftOf(s) <= d => LeftOf(s)' <= d
        BY <2>2, <2>4
      <3>2. QED
        BY <2>1, <3>1, DeferredAssumption DEF SlotInv
    <2>9. Passed(s)' = Passed(s)
      BY <1>1 DEF Passed
    <2>10. QED
      BY <1>1, <2>1, <2>5, <2>7, <2>8, <2>9 DEF SlotInv
  <1>6. QED
    BY <1>4, <1>5 DEF NearInv

(* A new walk starts where the time since the last one is taken off. *)
LEMMA StartNear ==
  ASSUME TypeOK, NearInv, TaskStart
  PROVE  NearInv'
  <1>1. /\ pc = "idle" /\ pc' = "scan" /\ i' = 1
        /\ last_execution_time' = now /\ at' = now
        /\ UNCHANGED <<table, now, curr_token, drift>>
    BY DEF TaskStart, history
  <1>2. Late' = 0
    <2>1. (now - now) % TimerRange = 0
      BY TimerSame, DeferredAssumption DEF TypeOK, Time
    <2>2. QED
      BY <1>1, <2>1 DEF Late
  <1>3. MaxLag \in Nat /\ Late \in Nat /\ Late <= MaxLag
    BY Numbers DEF NearInv, ClockInv
  <1>4. ClockInv'
    BY <1>1, <1>2, <1>3 DEF ClockInv
  <1>5. ASSUME NEW s \in Slots, Counted(s)' PROVE SlotInv(s)'
    <2>1. SlotInv(s) /\ Passed(s)
      BY <1>1, <1>5 DEF NearInv, Counted, InUse, Passed
    <2>2. LeftOf(s)' = LeftOf(s) /\ LeftOf(s) \in Int /\ drift'[s] = drift[s] /\ drift[s] \in Nat
      BY <1>1, Numbers DEF LeftOf, SignedDiff
    <2>3. LeftOf(s)' + Late' > -(MaxLag + drift'[s])
      <3>1. LeftOf(s) + Late > -drift[s]
        BY <2>1 DEF SlotInv
      <3>2. QED
        BY <1>2, <1>3, <2>2, <3>1
    <2>4. ~Passed(s)'
      BY <1>1, DeferredAssumption DEF Passed, Slots
    <2>5. PICK d \in Delays, r \in RepeatDelays \cup {0} : LeftOf(s) <= d + r
      BY <2>1 DEF SlotInv
    <2>6. LeftOf(s)' + Late' <= d + r /\ LeftOf(s)' <= d + r /\ r \in RepeatDelays \cup {0, MaxLag}
      BY <1>2, <2>2, <2>5
    <2>7. QED
      BY <1>1, <2>3, <2>4, <2>6 DEF SlotInv
  <1>6. QED
    BY <1>4, <1>5 DEF NearInv

(* What is due is seen from the start of the walk. *)
LEMMA DueMeans ==
  ASSUME TypeOK, NearInv, pc # "idle", Counted(i)
  PROVE  SignedDiff(table[i].trigger_time, at) = LeftOf(i) + Late
  <1>1. i \in Slots /\ at = last_execution_time
    BY DEF TypeOK, NearInv, ClockInv
  <1>2. SlotInv(i) /\ ~Passed(i)
    BY <1>1, DeferredAssumption DEF NearInv, Passed, Slots
  <1>3. /\ LeftOf(i) \in Int /\ Late \in Nat /\ Late \in Time /\ MaxLag \in Nat
        /\ drift[i] \in Nat /\ drift[i] <= MaxDrift /\ MaxDrift \in Nat
        /\ TimerRange \in Nat \ {0} /\ 2 * (2 * MaxLag + MaxDrift) <= TimerRange
        /\ table[i].trigger_time \in Time /\ now = (last_execution_time + Late) % TimerRange
    BY <1>1, Numbers DEF Counted
  <1>4. PICK d \in Delays, r \in RepeatDelays \cup {0, MaxLag} : LeftOf(i) + Late <= d + r
    BY <1>2 DEF SlotInv
  <1>5. d \in Nat /\ r \in Nat /\ 2 * (d + r) < TimerRange
    BY DeferredAssumption, TimerAssumption
  <1>6. -TimerRange <= 2 * (LeftOf(i) + Late) /\ 2 * (LeftOf(i) + Late) < TimerRange
    <2>1. LeftOf(i) + Late > -(MaxLag + drift[i])
      BY <1>2 DEF SlotInv
    <2>2. QED
      BY <1>3, <1>4, <1>5, <2>1
  <1>7. now \in Time /\ last_execution_time \in Time
    BY DEF TypeOK
  <1>8. LeftOf(i) = SignedDiff(table[i].trigger_time, now)
    BY DEF LeftOf
  <1>9. SignedDiff(table[i].trigger_time, last_execution_time)
          = SignedDiff(table[i].trigger_time, now) + Late
    BY <1>3, <1>6, <1>7, <1>8, DiffEarlier DEF Time
  <1>10. QED
    BY <1>1, <1>8, <1>9

(* Entries other than the one the walk leaves. *)
LEMMA LeaveOthers ==
  ASSUME TypeOK, NearInv, pc # "idle", NextEntry, NEW s \in Slots, s # i, Counted(s),
         table'[s] = table[s], drift'[s] = drift[s], UNCHANGED <<now, last_execution_time>>
  PROVE  SlotInv(s)'
  <1>1. i \in Slots /\ TableSize \in Nat /\ Slots \subseteq Nat
    BY DeferredAssumption DEF TypeOK, Slots
  <1>2. Passed(s)' <=> Passed(s)
    BY <1>1 DEF Passed, NextEntry, Slots
  <1>3. pc' # "callback"
    BY DEF NextEntry
  <1>4. LeftOf(s)' = LeftOf(s) /\ Late' = Late
    BY DEF LeftOf, Late, SignedDiff
  <1>5. QED
    BY <1>2, <1>3, <1>4 DEF SlotInv, NearInv

LEMMA LeftPassed ==
  ASSUME TypeOK, pc # "idle", NextEntry, NEW s, s = i
  PROVE  Passed(s)' /\ pc' # "callback" /\ (pc' # "idle" => at' = at)
  <1>1. i \in Nat /\ TableSize \in Nat
    BY DeferredAssumption DEF TypeOK, Slots
  <1>2. QED
    BY <1>1 DEF Passed, NextEntry

(* An entry that is not due is due after the start of the walk. *)
LEMMA SkipNear ==
  ASSUME TypeOK, NearInv, SkipEntry
  PROVE  NearInv'
  <1>1. /\ pc = "scan" /\ ~Due /\ NextEntry
        /\ UNCHANGED <<table, last_execution_time, now, drift>>
    BY DEF SkipEntry
  <1>2. Late' = Late /\ ClockInv'
    BY <1>1, LeftPassed DEF NearInv, ClockInv, Late
  <1>3. ASSUME NEW s \in Slots, Counted(s)' PROVE SlotInv(s)'
    <2>1. Counted(s) /\ SlotInv(s)
      BY <1>1, <1>3 DEF NearInv, Counted, InUse
    <2>2. CASE s # i
      BY <1>1, <2>1, <2>2, LeaveOthers
    <2>3. CASE s = i
      <3>1. /\ LeftOf(s) \in Int /\ Late \in Nat /\ LeftOf(s)' = LeftOf(s)
            /\ drift'[s] = drift[s] /\ drift[s] \in Nat
        BY <1>1, Numbers DEF LeftOf, SignedDiff
      <3>2. ~(LeftOf(s) + Late <= 0)
        BY <1>1, <2>1, <2>3, DueMeans DEF Due, Counted, InUse
      <3>3. LeftOf(s) + Late > -drift[s]
        BY <3>1, <3>2
      <3>4. Passed(s)' /\ pc' # "callback"
        BY <1>1, <2>3, LeftPassed
      <3>5. QED
        BY <1>2, <2>1, <3>1, <3>3, <3>4 DEF SlotInv
    <2>4. QED
      BY <2>2, <2>3
  <1>4. QED
    BY <1>2, <1>3 DEF NearInv

(* A callback runs: its executor has no time left. *)
LEMMA InvokeNear ==
  ASSUME TypeOK, NearInv, InvokeCallback
  PROVE  NearInv'
  <1>1. /\ pc = "scan" /\ Due /\ pc' = "callback" /\ curr_token' = table[i].token
        /\ UNCHANGED <<table, last_execution_time, now, at, i, drift>>
    BY DEF InvokeCallback
  <1>2. Late' = Late /\ ClockInv'
    BY <1>1 DEF NearInv, ClockInv, Late
  <1>3. ASSUME NEW s \in Slots, Counted(s)' PROVE SlotInv(s)'
    <2>1. Counted(s) /\ SlotInv(s)
      BY <1>1, <1>3 DEF NearInv, Counted, InUse
    <2>2. LeftOf(s) \in Int /\ Late \in Nat /\ LeftOf(s)' = LeftOf(s)
      BY <1>1, Numbers DEF LeftOf, SignedDiff
    <2>3. Passed(s)' = Passed(s)
      BY <1>1 DEF Passed
    <2>4. s = i => (\E d \in Delays : LeftOf(s) <= d) /\ table'[s].token = curr_token'
      <3>1. SUFFICES ASSUME s = i PROVE \E d \in Delays : LeftOf(s) <= d
        BY <1>1
      <3>2. LeftOf(s) + Late <= 0
        BY <1>1, <2>1, <3>1, DueMeans DEF Due
      <3>3. PICK d \in Delays : TRUE
        BY <2>1 DEF SlotInv
      <3>4. LeftOf(s) <= d
        BY <2>2, <3>2, <3>3, DeferredAssumption
      <3>5. QED
        BY <3>4
    <2>5. QED
      BY <1>1, <1>2, <2>1, <2>2, <2>3, <2>4 DEF SlotInv
  <1>4. QED
    BY <1>2, <1>3 DEF NearInv

(* A callback returns: what it requeues is put off by the time a round of    *)
(* the main loop takes, less what is added to its drift.                     *)
LEMMA LaterMeans ==
  ASSUME NEW n \in Nat, NEW delay \in Nat, Later(n, delay) <= MaxDrift
  PROVE  n <= MaxDrift /\ Later(n, delay) >= n /\ Later(n, delay) >= n + MaxLag - delay
  <1>1. n + (MaxLag - delay) \in Int /\ MaxDrift + 1 \in Int /\ MaxLag \in Nat /\ MaxDrift \in Nat
    BY DeferredAssumption
  <1>2. Min({n + (MaxLag - delay), MaxDrift + 1})
          = IF n + (MaxLag - delay) <= MaxDrift + 1 THEN n + (MaxLag - delay) ELSE MaxDrift + 1
    BY <1>1, MinOfTwo
  <1>3. QED
    BY <1>1, <1>2 DEF Later

LEMMA ReturnNear ==
  ASSUME TypeOK, NearInv, NEW delay \in RepeatDelays \cup {0}, CallbackReturn(delay)
  PROVE  NearInv'
  <1> DEFINE time == (table[i].trigger_time + delay) % TimerRange
  <1>1. /\ pc = "callback" /\ NextEntry /\ UNCHANGED <<last_execution_time, now>> /\ i \in Slots
        /\ table' = IF table[i].token # curr_token THEN table
                    ELSE IF delay = 0 THEN [table EXCEPT ![i] = NoExecutor]
                    ELSE [table EXCEPT ![i].trigger_time = time]
        /\ drift' = IF table[i].token # curr_token THEN drift
                    ELSE [drift EXCEPT ![i] = IF delay = 0 THEN 0 ELSE Later(@, delay)]
    BY DEF CallbackReturn, TypeOK
  <1>2. Late' = Late /\ ClockInv'
    BY <1>1, LeftPassed DEF NearInv, ClockInv, Late
  <1>3. ASSUME NEW s \in Slots, Counted(s)' PROVE SlotInv(s)'
    <2>1. CASE s # i
      <3>1. table'[s] = table[s] /\ drift'[s] = drift[s]
        BY <1>1, <2>1 DEF TypeOK
      <3>2. QED
        BY <1>1, <1>3, <2>1, <3>1, LeaveOthers DEF Counted, InUse
    <2>2. CASE s = i
      <3>1. Passed(s)' /\ pc' # "callback"
        BY <1>1, <2>2, LeftPassed
      <3>2. LeftOf(s) \in Int /\ Late \in Nat /\ MaxLag \in Nat /\ table[s].trigger_time \in Time
            /\ drift[s] \in Nat
        BY Numbers
      <3>3. CASE table[i].token # curr_token
        <4>1. table'[s] = table[s] /\ drift'[s] = drift[s] /\ LeftOf(s)' = LeftOf(s)
          BY <1>1, <3>3 DEF LeftOf, SignedDiff
        <4>2. Counted(s)
          BY <1>3, <4>1 DEF Counted, InUse
        <4>3. SlotInv(s) /\ LeftOf(s) + Late > 0
          BY <1>1, <2>2, <3>3, <4>2 DEF NearInv, SlotInv
        <4>4. LeftOf(s) + Late > -drift[s]
          BY <3>2, <4>3
        <4>5. QED
          BY <1>2, <3>1, <4>1, <4>3, <4>4 DEF SlotInv
      <3>4. CASE table[i].token = curr_token /\ delay = 0
        <4>1. table'[s] = NoExecutor
          BY <1>1, <2>2, <3>4 DEF TypeOK
        <4>2. QED
          BY <1>3, <4>1 DEF Counted, InUse, NoExecutor
      <3>5. CASE table[i].token = curr_token /\ delay # 0
        <4>1. table'[s].trigger_time = time /\ table'[s].token = table[s].token
          BY <1>1, <2>2, <3>5 DEF TypeOK, Executor
        <4>2. SlotInv(s) /\ drift'[s] >= drift[s] /\ drift'[s] >= drift[s] + MaxLag - delay
          <5>1. drift'[s] = Later(drift[s], delay)
            <6>1. drift' = [drift EXCEPT ![i] = Later(@, delay)]
              BY <1>1, <3>5
            <6>2. drift \in [Slots -> 0..(MaxDrift + 1)]
              BY DEF TypeOK
            <6>3. QED
              BY <1>1, <2>2, <6>1, <6>2
          <5>2. drift'[s] <= MaxDrift /\ delay \in Nat /\ drift[s] \in Nat
            <6>1. drift'[s] <= MaxDrift
              BY <1>3 DEF Counted
            <6>2. delay \in Nat
              BY DeferredAssumption
            <6>3. QED
              BY <3>2, <6>1, <6>2
          <5>3. /\ drift[s] <= MaxDrift /\ drift'[s] >= drift[s]
                /\ drift'[s] >= drift[s] + MaxLag - delay
            BY <5>1, <5>2, LaterMeans
          <5>4. SlotInv(s)
            BY <1>3, <4>1, <5>3 DEF NearInv, Counted, InUse
          <5>5. QED
            BY <5>3, <5>4
        <4>3. PICK d \in Delays : LeftOf(s) <= d
          BY <1>1, <2>2, <4>2 DEF SlotInv
        <4>4. /\ d \in Nat /\ delay \in Nat /\ delay \in RepeatDelays /\ drift'[s] \in Int
              /\ 2 * (d + delay) < TimerRange /\ TimerRange \in Nat
          <5>1. d \in Nat /\ delay \in Nat /\ delay \in RepeatDelays
            BY <3>5, DeferredAssumption
          <5>2. 2 * (d + delay) < TimerRange /\ TimerRange \in Nat
            BY <3>5, DeferredAssumption, TimerAssumption
          <5>3. drift'[s] \in Int
            BY <1>1, <2>2, <3>2, <3>5, <5>1, DeferredAssumption, LaterType DEF TypeOK
          <5>4. QED
            BY <5>1, <5>2, <5>3
        <4>5. 2 * (LeftOf(s) + delay) < TimerRange
          BY <3>2, <4>3, <4>4
        <4>6. LeftOf(s) = SignedDiff(table[s].trigger_time, now)
          BY DEF LeftOf
        <4>7. LeftOf(s)' = SignedDiff(table'[s].trigger_time, now)
          BY <1>1 DEF LeftOf, SignedDiff
        <4>8. now \in Time
          BY DEF TypeOK
        <4>9. SignedDiff((table[s].trigger_time + delay) % TimerRange, now)
                = SignedDiff(table[s].trigger_time, now) + delay
          BY <3>2, <4>4, <4>5, <4>6, <4>8, DiffPutOff
        <4>10. LeftOf(s)' = LeftOf(s) + delay
          BY <2>2, <4>1, <4>6, <4>7, <4>9
        <4>11. LeftOf(s) + Late > -(MaxLag + drift[s])
          BY <4>2 DEF SlotInv
        <4>12. LeftOf(s)' + Late' > -drift'[s] /\ LeftOf(s)' + Late' > -(MaxLag + drift'[s])
          BY <1>2, <3>2, <4>2, <4>4, <4>10, <4>11
        <4>13. LeftOf(s)' <= d + delay
          BY <3>2, <4>3, <4>4, <4>10
        <4>14. QED
          BY <3>1, <4>4, <4>12, <4>13 DEF SlotInv
      <3>6. QED
        BY <3>3, <3>4, <3>5
    <2>3. QED
      BY <2>1, <2>2
  <1>4. QED
    BY <1>2, <1>3 DEF NearInv

LEMMA NearInductive == TypeOK /\ TypeOK' /\ NearInv /\ [Next]_vars => NearInv'
  <1>1. ASSUME NearInv, UNCHANGED vars PROVE NearInv'
    BY <1>1 DEF vars, history, NearInv, ClockInv, SlotInv, Late, LeftOf, SignedDiff, Counted,
                InUse, Passed
  <1>2. QED
    BY <1>1, ClientNear, TickNear, StartNear, SkipNear, InvokeNear, ReturnNear
    DEF Next, TaskStep, Return

LEMMA NearInitially == Init => NearInv
  <1> SUFFICES ASSUME Init PROVE NearInv
    OBVIOUS
  <1>1. Late = 0
    <2>1. (0 - 0) % TimerRange = 0
      BY DeferredAssumption
    <2>2. QED
      BY <2>1 DEF Init, Late
  <1>2. ClockInv
    BY <1>1, DeferredAssumption DEF Init, ClockInv
  <1>3. \A s \in Slots : ~InUse(s)
    BY DEF Init, InUse, NoExecutor
  <1>4. QED
    BY <1>2, <1>3 DEF NearInv, Counted

(* No executor is overdue by more than two rounds of the main loop and what  *)
(* its own callback gave away by returning delays shorter than one, nor      *)
(* further away than it was put off, across every overflow of the timer: the *)
(* signed comparison in deferred_exec_task takes none for one of the future  *)
(* or of the past, whatever callbacks queue, extend and cancel during the    *)
(* walk.  MaxDrift may be any number that leaves the bound within half of    *)
(* the timer's range; an entry that has drifted further is out of reach, and *)
(* the signed comparison does fail for it.                                   *)
THEOREM TriggersStayNear == Spec => []TriggerNear
  <1>1. TypeOK /\ NearInv => TriggerNear
    <2> SUFFICES ASSUME TypeOK, NearInv, NEW s \in Slots, Counted(s)
                 PROVE  /\ LeftOf(s) > -(2 * MaxLag + drift[s])
                        /\ \E d \in Delays, r \in RepeatDelays \cup {0} : LeftOf(s) <= d + r
      BY DEF TriggerNear, LeftOf, Counted, InUse
    <2>1. SlotInv(s) /\ Late <= MaxLag
      BY DEF NearInv, ClockInv
    <2>2. LeftOf(s) \in Int /\ Late \in Nat /\ MaxLag \in Nat /\ drift[s] \in Nat
      BY Numbers
    <2>3. LeftOf(s) + Late > -(MaxLag + drift[s])
      BY <2>1 DEF SlotInv
    <2>4. LeftOf(s) > -(2 * MaxLag + drift[s])
      BY <2>1, <2>2, <2>3
    <2>5. QED
      BY <2>1, <2>4 DEF SlotInv
  <1>2. QED
    BY <1>1, NearInitially, NearInductive, DeferredTypeCorrectness, PTL DEF Spec
=============================================================================
