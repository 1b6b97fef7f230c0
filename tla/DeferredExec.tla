---------------------------- MODULE DeferredExec ----------------------------
(***************************************************************************)
(* Deferred execution (quantum/deferred_exec.c): callbacks queued in a     *)
(* table with a delay, run by a task that the main loop calls.  A callback *)
(* may itself queue, extend or cancel executors, its own included, while   *)
(* the task walks the table, and the timer interrupt counts on meanwhile.  *)
(***************************************************************************)
EXTENDS Integers, FiniteSetsExt

(* An operator whose name ends in _ and a lower-case word is a deliberately *)
(* wrong variant of the definition that follows it, used as a mutant.       *)

CONSTANTS
  TableSize,    \* entries of the table (MAX_DEFERRED_EXECUTORS)
  TokenRange,   \* a token counts modulo this (2^8)
  TimerRange,   \* timer_read32 counts modulo this (2^32)
  Delays,       \* the non-zero delays of defer_exec and extend_deferred_exec
  RepeatDelays, \* the non-zero delays a callback returns
  OtherEntries, \* entries of another table that shares current_token
  MaxCalls,     \* bound: calls of the interface one callback makes
  MaxLag,       \* bound: the main loop gets round in this many milliseconds
  MaxDrift      \* bound: up to which drift is counted

ASSUME DeferredAssumption ==
  /\ TableSize \in Nat \ {0}
  /\ TokenRange \in Nat \ {0, 1}
  /\ TimerRange \in Nat \ {0}
  /\ MaxLag \in Nat \ {0}
  /\ MaxCalls \in Nat
  /\ OtherEntries \in Nat
  /\ Delays \subseteq Nat \ {0}
  /\ RepeatDelays \subseteq Nat \ {0}
  /\ MaxDrift \in Nat

(* The difference of two times is taken for a signed one: no delay, nor the  *)
(* sum of one and a delay that a callback returns, reaches half of the       *)
(* timer's range, 24 days, nor do two rounds of the main loop and MaxDrift.  *)
ASSUME TimerAssumption ==
  /\ \A d \in Delays, r \in RepeatDelays \cup {0, MaxLag} : 2 * (d + r) < TimerRange
  /\ 2 * (2 * MaxLag + MaxDrift) <= TimerRange

Slots == 1..TableSize
Token == 0..(TokenRange - 1)
Time == 0..(TimerRange - 1)
INVALID_DEFERRED_TOKEN == 0

(* deferred_executor_t; the callback and its argument are the client's. *)
Executor == [token : Token, trigger_time : Time]
NoExecutor == [token |-> INVALID_DEFERRED_TOKEN, trigger_time |-> 0]

VARIABLES
  table,               \* basic_executors
  current_token,       \* the last token handed out, in any table
  last_execution_time,
  now,                 \* timer_read32()
  pc,                  \* the task is "idle", at the "scan" of entry i or in its "callback"
  at,                  \* the task's copy of the time
  i,
  curr_token,
  calls,               \* the calls the running callback has made
  mine,                \* history: entry i still holds the executor whose callback runs
  drift                \* history: by how much the delays that an entry's callback returned
                       \* fell short of MaxLag, since it was last queued or extended,
                       \* in total and up to MaxDrift + 1

history == <<mine, drift>>
vars == <<table, current_token, last_execution_time, now, pc, at, i, curr_token, calls, history>>
task == <<last_execution_time, pc, at, i, curr_token>>

-----------------------------------------------------------------------------

(* (int32_t)TIMER_DIFF_32(a, b) *)
SignedDiff(a, b) ==
  LET d == (a - b) % TimerRange IN IF 2 * d < TimerRange THEN d ELSE d - TimerRange

token_can_be_used_inTable(t) == t # INVALID_DEFERRED_TOKEN
token_can_be_used(t) ==
  t # INVALID_DEFERRED_TOKEN /\ \A s \in Slots : table[s].token # t

(* allocate_token: how far current_token moves, to the next token that can   *)
(* be used, or once round to where it started looking if there is none.      *)
Usable == {d \in 1..TokenRange : token_can_be_used((current_token + d) % TokenRange)}
AfterAllocate_noWrap == current_token + (IF Usable = {} THEN 1 ELSE Min(Usable))
AfterAllocate == (current_token + (IF Usable = {} THEN 1 ELSE Min(Usable))) % TokenRange

Free == {s \in Slots : table[s].token = INVALID_DEFERRED_TOKEN}

(* The interface is called from the main loop or by a callback. *)
Called ==
  \/ pc = "idle" /\ calls' = 0
  \/ pc = "callback" /\ calls < MaxCalls /\ calls' = calls + 1

defer_exec(delay) ==
  /\ Called
  /\ Free # {}
  /\ current_token' = AfterAllocate
  /\ table' = IF Usable = {} THEN table
              ELSE [table EXCEPT ![Min(Free)] = [token |-> AfterAllocate,
                                                 trigger_time |-> (now + delay) % TimerRange]]
  /\ UNCHANGED <<task, now, history>>

(* defer_exec_advanced with another table moves current_token past the       *)
(* tokens in use there and the invalid one.                                  *)
DeferInOtherTable(d) ==
  /\ Called
  /\ current_token' = (current_token + d) % TokenRange
  /\ UNCHANGED <<task, now, history, table>>

Holding(t) == {s \in Slots : table[s].token = t}

extend_deferred_exec(t, delay) ==
  /\ Called
  /\ Holding(t) # {}
  /\ table' = [table EXCEPT ![Min(Holding(t))].trigger_time = (now + delay) % TimerRange]
  /\ drift' = [drift EXCEPT ![Min(Holding(t))] = 0]
  /\ UNCHANGED <<task, now, mine, current_token>>

cancel_deferred_exec(t) ==
  /\ Called
  /\ Holding(t) # {}
  /\ table' = [table EXCEPT ![Min(Holding(t))] = NoExecutor]
  /\ mine' = (mine /\ Min(Holding(t)) # i)
  /\ drift' = [drift EXCEPT ![Min(Holding(t))] = 0]
  /\ UNCHANGED <<task, now, current_token>>

-----------------------------------------------------------------------------
(* deferred_exec_task, in the pieces between which callbacks and the timer    *)
(* interrupt act.                                                             *)

TaskStart_unsigned ==
  /\ pc = "idle"
  /\ now > last_execution_time
  /\ last_execution_time' = now
  /\ at' = now
  /\ i' = 1
  /\ pc' = "scan"
  /\ UNCHANGED <<table, current_token, now, curr_token, calls, history>>
TaskStart ==
  /\ pc = "idle"
  /\ SignedDiff(now, last_execution_time) > 0
  /\ last_execution_time' = now
  /\ at' = now
  /\ i' = 1
  /\ pc' = "scan"
  /\ UNCHANGED <<table, current_token, now, curr_token, calls, history>>

NextEntry ==
  /\ pc' = IF i = TableSize THEN "idle" ELSE "scan"
  /\ i' = IF i = TableSize THEN 0 ELSE i + 1
  /\ curr_token' = INVALID_DEFERRED_TOKEN
  /\ calls' = 0
  /\ mine' = FALSE
  /\ at' = IF i = TableSize THEN 0 ELSE at

Due ==
  /\ table[i].token # INVALID_DEFERRED_TOKEN
  /\ SignedDiff(table[i].trigger_time, at) <= 0

SkipEntry ==
  /\ pc = "scan"
  /\ ~Due
  /\ NextEntry
  /\ UNCHANGED <<table, current_token, last_execution_time, now, drift>>

InvokeCallback ==
  /\ pc = "scan"
  /\ Due
  /\ pc' = "callback"
  /\ curr_token' = table[i].token
  /\ mine' = TRUE
  /\ UNCHANGED <<table, current_token, last_execution_time, now, at, i, calls, drift>>

(* An entry that is in time again after a delay of MaxLag is later after a    *)
(* shorter one, by at most the difference.                                    *)
Later(n, delay) ==
  IF delay >= MaxLag THEN n ELSE Min({n + (MaxLag - delay), MaxDrift + 1})

(* The callback returns: its entry is requeued, freed, or skipped if it      *)
(* holds another token than before.                                          *)
CallbackReturn_notFreed(delay) ==
  /\ pc = "callback"
  /\ table' = IF table[i].token # curr_token \/ delay = 0 THEN table
              ELSE [table EXCEPT ![i].trigger_time = (@ + delay) % TimerRange]
  /\ drift' = IF table[i].token # curr_token THEN drift
              ELSE [drift EXCEPT ![i] = IF delay = 0 THEN 0 ELSE Later(@, delay)]
  /\ NextEntry
  /\ UNCHANGED <<current_token, last_execution_time, now>>
CallbackReturn(delay) ==
  /\ pc = "callback"
  /\ table' = IF table[i].token # curr_token THEN table
              ELSE IF delay = 0 THEN [table EXCEPT ![i] = NoExecutor]
              ELSE [table EXCEPT ![i].trigger_time = (@ + delay) % TimerRange]
  /\ drift' = IF table[i].token # curr_token THEN drift
              ELSE [drift EXCEPT ![i] = IF delay = 0 THEN 0 ELSE Later(@, delay)]
  /\ NextEntry
  /\ UNCHANGED <<current_token, last_execution_time, now>>

(* The timer interrupt.  The main loop gets round within MaxLag: the bound   *)
(* is on the time since the task last ran.                                   *)
Tick ==
  /\ (now - last_execution_time) % TimerRange < MaxLag
  /\ now' = (now + 1) % TimerRange
  /\ UNCHANGED <<table, current_token, task, calls, history>>

Init ==
  /\ table = [s \in Slots |-> NoExecutor]
  /\ current_token = 0
  /\ last_execution_time = 0
  /\ now = 0
  /\ pc = "idle"
  /\ at = 0
  /\ i = 0
  /\ curr_token = INVALID_DEFERRED_TOKEN
  /\ calls = 0
  /\ mine = FALSE
  /\ drift = [s \in Slots |-> 0]

TaskStep == TaskStart \/ SkipEntry \/ InvokeCallback
Return == \E delay \in RepeatDelays \cup {0} : CallbackReturn(delay)
Client ==
  \/ \E delay \in Delays : defer_exec(delay)
  \/ \E d \in 1..(OtherEntries + 1) : DeferInOtherTable(d)
  \/ \E t \in Token \ {INVALID_DEFERRED_TOKEN}, delay \in Delays : extend_deferred_exec(t, delay)
  \/ \E t \in Token \ {INVALID_DEFERRED_TOKEN} : cancel_deferred_exec(t)

Next == TaskStep \/ Return \/ Client \/ Tick

Spec == Init /\ [][Next]_vars

(* The main loop calls the task again and again, callbacks return and time   *)
(* passes; nobody has to call the interface.                                 *)
FairSpec == Spec /\ WF_vars(TaskStep) /\ WF_vars(Return) /\ WF_vars(Tick)

-----------------------------------------------------------------------------
(* Type invariant. *)
TypeOK ==
  /\ table \in [Slots -> Executor]
  /\ current_token \in Token
  /\ last_execution_time \in Time
  /\ now \in Time
  /\ pc \in {"idle", "scan", "callback"}
  /\ at \in Time
  /\ i \in 0..TableSize
  /\ pc # "idle" => i \in Slots
  /\ curr_token \in Token
  /\ calls \in 0..MaxCalls
  /\ mine \in BOOLEAN
  /\ drift \in [Slots -> 0..(MaxDrift + 1)]

(* A token names one executor: no two entries in use hold the same one,      *)
(* although the tokens wrap around while some executors live on.             *)
TokensUnique ==
  \A s, t \in Slots :
    s # t /\ table[s].token = table[t].token => table[s].token = INVALID_DEFERRED_TOKEN

(* An executor is run on time, and never taken for one of the far future:    *)
(* with the clock wrapping around, an entry in use is never overdue by more  *)
(* than two rounds of the main loop and what its callback's delays fell      *)
(* short of one, nor further away than a delay it was given (an extension    *)
(* inside its callback adds to the delay the callback returns).  A callback  *)
(* that goes on returning delays shorter than a round falls behind without   *)
(* end, so this is said up to MaxDrift.                                      *)
TriggerNear ==
  \A s \in Slots :
    table[s].token # INVALID_DEFERRED_TOKEN /\ drift[s] <= MaxDrift =>
      LET left == SignedDiff(table[s].trigger_time, now)
      IN /\ left > -(2 * MaxLag + drift[s])
         /\ \E d \in Delays, r \in RepeatDelays \cup {0} : left <= d + r

(* What would hold if every callback's delay were at least a round of the    *)
(* main loop: no executor is ever taken for one further away than it was put *)
(* off, whatever its drift.                                                  *)
NeverFarOff ==
  \A s \in Slots :
    table[s].token # INVALID_DEFERRED_TOKEN =>
      \E d \in Delays, r \in RepeatDelays \cup {0} :
        SignedDiff(table[s].trigger_time, now) <= d + r

(* A queued executor that nobody cancels, and whose delay is not extended    *)
(* for ever, is run: an entry in use that from some time on keeps its token, *)
(* and its trigger time but for what its own callback returns, is reached    *)
(* by the walk again and again.                                              *)
Kept(s) ==
  /\ table'[s].token = table[s].token
  /\ table'[s].trigger_time # table[s].trigger_time => pc' # pc
EventuallyRuns ==
  \A s \in Slots :
    <>[][Kept(s)]_vars =>
      []<>(table[s].token = INVALID_DEFERRED_TOKEN \/ (pc = "callback" /\ i = s))

(* The task's check after a callback, "If the token has changed, then the    *)
(* callback has canceled and re-queued", tells exactly whether the entry     *)
(* still holds the executor whose callback ran.                              *)
SameExecutor ==
  pc = "callback" => (table[i].token = curr_token <=> mine)
=============================================================================
