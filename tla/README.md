# TLA+ specifications of vial-qmk's core

vial-qmk is keyboard firmware: QMK with Vial's run-time configuration, built for
the boards under `keyboards/` (RP2040 and AVR). One thread scans the switch
matrix, turns changes into key events, decides what they mean, and sends reports
to the host; settings and keymaps live in an EEPROM that most controllers emulate
in flash. This project specifies the parts of it that carry state through many
steps, checks them with TLC and proves what it can with TLAPS.

| Module | What it is |
|---|---|
| `WearLeveling` | the flash-backed EEPROM emulation, `quantum/wear_leveling/` and its flash drivers |
| `Eeprom` | what a client of that EEPROM may rely on (abstract specification) |
| `WearLevelingProofs` | theorems about `WearLeveling`: types, bounds, locking, the encodings, the order of its write log; what a power-up makes of the store (durability, torn writes, consolidation); and that `WearLeveling` implements `Eeprom` |
| `MCWearLeveling` | its instances: write requests, flash contents past the store |
| `ActionTapping` | tap-hold keys, the waiting buffer, layers and the report, `quantum/action_tapping.c` and what it calls |
| `ActionTappingProofs` | theorems about `ActionTapping` |
| `MCActionTapping` | its instances: keymaps |
| `DeferredExec` | delayed callbacks and their tokens, `quantum/deferred_exec.c` |
| `DeferredExecProofs` | theorems about `DeferredExec` |
| `Debounce`, `DebounceProofs` | the seven debounce algorithms, `quantum/debounce/*.c`, and theorems about them |
| `Combo`, `ComboProofs` | combos, `process_combo.c` with Vial's reload, and theorems about them |
| `TapDance`, `TapDanceProofs` | tap dances, `process_tap_dance.c` with Vial's dances in `vial.c`, and theorems about them |
| `SplitTransport`, `SplitTransportProofs` | the link between the halves of a split keyboard, `quantum/split_common/`, and theorems about it |
| `NumberLemmas` | least elements, loops and timers that wrap, for the proofs |
| `MCDeferredExec`, `MCDebounce`, `MCCombo`, `MCTapDance`, `MCSplitTransport` | instances of the five |

An operator whose name ends in `_` and a lower-case word (`LogFull_offByOne`) is a
deliberately wrong variant of the definition that follows it. No specification
uses it: it takes that definition's place in a mutation test, where TLC has to
find the property violated. `PROJECT.json` pairs every checked property with one.

## 1. Inventory

The event path, in the order of a call:

    matrix scan -> debounce -> matrix_task -> action_exec -> pre_process_record
      -> combos -> action_tapping_process (tap-hold) -> process_record
      -> filters (tap dance, key overrides, auto shift, caps word, ...)
      -> process_action (report, modifiers, layers) -> host driver

Beside it: deferred callbacks and housekeeping run from the main loop; the host
talks to `via.c`/`vial.c` over raw HID; these change the dynamic keymap and the
settings, which are stored through the EEPROM API.

| Component | State | Operations | What is hard | What makes it correct | Status |
|---|---|---|---|---|---|
| wear leveling (`wear_leveling.c`) | RAM cache, write address, lock; in flash the consolidated area, checksum and log | init/playback, write, read, erase, consolidate | power loss between any two flash operations, torn entries, several erase sectors, failing operations | a power cycle returns what reads returned; an interrupted call does bounded damage; nothing outside the store is touched | modelled |
| tap-hold (`action_tapping.c`) | tapping key, 8-slot ring of waiting records | `process_tapping`, buffer scan, overflow | events reordered on purpose, timeouts racing buffered releases, 16-bit timer, overflow | nothing sticks, presses wait while a key is undecided, in-time releases count, everything is decided | modelled as Vial builds it |
| actions and layers (`action.c`, `action_layer.c`) | layer state, source-layer cache, report | register, unregister, layer on/off | the layer changes between press and release | a release undoes what its press did | basic keys, modifiers, mod-tap, layer-tap, momentary layers |
| matrix task (`keyboard.c`) | previous matrix | events and ticks | a tick only when nothing changed | every change becomes one event | environment of `ActionTapping` |
| debounce (`debounce/*.c`) | per-key counters | `debounce` | saturated elapsed time, early clearing of the update flags | a stable key is reported, a bouncing key once | modelled |
| deferred execution (`deferred_exec.c`) | table of executors, token counter | queue, extend, cancel, task | callbacks that change the table while it is walked, 8-bit tokens that wrap | tokens in use are unique; every executor is run, on time | modelled |
| tap dance (`process_tap_dance.c`, `vial.c`) | one active dance, its count and timer, one global keycode override | press, release, timeout, reset | synthetic events re-enter the event path; dances are read from the keymap again at release | what was pressed is released, every dance is finished | modelled as Vial builds it |
| combos (`process_combo.c`) | key buffer, combo buffer, timers | `process_combo`, `combo_task` | overlapping combos, full buffers, reload while held | every buffered key is sent or consumed | modelled as Vial builds it |
| key overrides (`process_key_override.c`) | active override, deferred re-registration | `process_key_override`, task | suppressed modifiers, timers | suppressed modifiers come back | planned |
| Vial lock and protocol (`vial.c`, `via.c`) | unlock counter, timer | unlock start/poll, lock, commands | polls that race a timer | locked means guarded commands do nothing | planned |
| dynamic keymap (`dynamic_keymap.c`) | EEPROM regions | get, set, reset, macro send | buffers at the end of a region | regions do not overlap | planned, as a client of `Eeprom` |
| QMK settings (`qmk_settings.c`) | settings, copied from EEPROM | get, set, reset | settings changed in the middle of a decision | defaults after a reset | constants of `ActionTapping` for now |
| one-shot keys (`action_util.c`) | one-shot modifiers and layers | set, clear, timeout | timers that are checked lazily | one-shot ends after one key | planned |
| split transport (`split_common/`) | shared memory, checksums | transactions | lost transactions, a half that restarts | the master's matrix converges | matrix, data for the slave, connection |
| auto shift, caps word, repeat key, leader, layer lock, secure | a few variables each | filters of `process_record` | their order | - | after the event path |
| lighting, audio, displays, pointing devices | numeric | rendering | - | - | out of reach as data |
| USB stacks, board drivers | hardware | - | - | - | boundary of the models |

`PROJECT.json` lists the hazards at their lines, the properties that would catch
each, and for those not covered the reason.

How the modules meet: `Debounce` makes the matrix whose changes are the key events
of `ActionTapping`, `Combo` and `TapDance`; `SplitTransport` brings in the other half's
matrix; the dances and combos that the host may change in `TapDance` and `Combo` are
stored through the EEPROM of `Eeprom`. The event path is modelled stage by stage,
not as one composition.

## 2. Wear leveling

### Model

`consolidated`, `checksum` and `wlog` are the backing store: they survive
`PowerLoss`. `cache`, `write_address` and `unlocked` are the fields of
`struct wear_leveling`. `pc`, `call`, `cursor`, `req`, `off`, `raw`, `size`, `sent`
say where execution is; `before` is history, the contents when the call began.
One step is one backing-store operation, so power may be lost between any two:

| Action | Code |
|---|---|
| `wear_leveling_init` | power-up to the start of playback: driver init, `wear_leveling_read_consolidated` with its checksum |
| `PlaybackEntry`, `PlaybackEnd`, `PlaybackReadFails` | an iteration of `wear_leveling_playback_log`, and its two exits |
| `wear_leveling_write` | the range check, the comparison with the cache, the update of the cache and the unlock |
| `wear_leveling_write_raw`, `wear_leveling_append_raw`, `AppendFails` | choice of the next entry; one word of it; a rejected word |
| `EraseSector`, `EraseReturns` | `backing_store_erase`, sector by sector, and what each caller does with the result |
| `ConsolidateWord`, `ChecksumWord`, `ConsolidateFails` | `wear_leveling_write_consolidated` |
| `wear_leveling_erase`, `PowerLoss` | |

The three entry encodings are modelled bit by bit, because playback decodes
whatever is in the flash: an entry that is cut short, or one out of step, is read
as the firmware reads it. Reads of `wear_leveling_read` change nothing and return
`cache`, so they have no action. The FNV-1a checksum is represented by the contents
it hashes: two contents are assumed never to collide. What lies past the end of the
store is the constant `Beyond`.

`Eeprom` is the promise: contents changed by whole calls; a power loss inside a
call leaves each byte as it was, as it was to become, or zero. The mapping in
`WearLeveling` (`Memory`) takes the contents during power-up to be those the
power-up will come to (`Recovered`). `Recoverable` is the set of contents that a
power-up may come to: the consolidated area if its checksum is right, and over it
what playback of the log does to each byte, which `ReplaysFrom` computes by recursion
along the log.

### Runs

* `wl_log` - two-byte words, all three encodings, power loss everywhere; six log
  words. `Durable`, `NothingAfterWriteAddress`, `WriteInBounds`,
  `ConsolidatedWholeOrEmpty`, `LockedBetweenCalls`.
* `wl_words4` - four-byte words with the RP2040 layout: contents in a sector,
  checksum and log in the next. `ImplementsEeprom` and `TornAppendConfined`, which two-byte words do not have (their header spans two
  words).
* `wl_faults` - eight-byte words on flash with a lock, every operation may fail any
  number of times. `CallsReturn`. Safety is not expected here: see the list below.

Bounds. Six log words hold up to six entries, and less than two of the longest, so
a request meets the end of the log at each of its words, consolidations happen in
every run and are interrupted at every word and every sector. Four logical bytes are
enough for two overlapping requests and one that spans them; the limits of the
short encodings are scaled (`OPTIMIZED_64_LIMIT = 1` instead of 64) so that the
choice between encodings happens within them; the theorems cover the real limits.
`MaxOverrun` bounds how far past the store a run with failing erases may write.
Fairness: `WF_vars(Step)`. The firmware is one thread and each call is a loop
with no waiting in it; nothing is assumed about when calls are made.

### What the faults break

With `"erase"`, `"unlock"`, `"write"` or `"read"` in `Faults` the following is
reachable, and the safety properties above are stated without those faults:

* an erase that fails inside a consolidation leaves `write_address` at the end of
  the store (`wear_leveling.c:309`), and the next write is appended past it: the
  hypothesis of `WritesStayInLog` is needed;
* the cache is changed before the unlock (`wear_leveling.c:692`), so a write whose
  unlock failed is found unchanged, and reported as stored, when it is tried again;
* a checksum that cannot be read is taken for a wrong one, and the contents for
  empty.

## 3. Tap-hold keys

### Model

`tapping_key` and `waiting_buffer` are the static variables of `action_tapping.c`
(the ring as a sequence; it holds one record less than `WAITING_BUFFER_SIZE`); `kb`
is the layer state, the source-layer cache, and the keys and modifiers of the report;
`held`, `changed` and `now` are the switches and the timer. `KeyEvent` and `TickEvent`
are the calls of `action_exec` that `matrix_task` makes; they include the lookup by
`pre_process_record_quantum`, which caches the layer of a press. `running` says
which record `process_tapping` is called with: the new event, or the oldest
waiting one, in the loop of `action_tapping_process`. `process_tapping` is the
disjunction of its branches, one action for each:

* no tapping key: `TickIgnored`, `StartTap`, `RegularKey`;
* a tapping key down and undecided: `FirstTap`, `NestedTap`, `ReleaseOfEarlierKey`,
  `Interrupted`, `TimedOut`;
* taken as tapped and still down: `TapRelease`, `NextTapKey`, `OtherKeyDuringTap`;
* tapped and released: `SequentialTap`, `OtherKeyAfterTap`, `TapForgotten`.

Each ends in `Consumed` (processed; the loop goes on) or `Deferred` (enqueued, the
loop stops; or, with a full buffer, the overflow that clears everything).
`process_record` is modelled for basic keys, modifiers, mod-tap, layer-tap and
momentary layers. Chordal hold and retro shift are compiled out of a Vial build;
retro tapping, per-key terms and the records combos make are left out. `DEBOUNCE`
says that a key changes at most once between two ticks.

### Runs

Times are counted in fractions of the tapping term.

* `tap_timeout` - mod-tap, layer-tap and a key that differs between the layers; a
  buffer of three records, so that overflow happens; a timer that wraps after five
  units, so that it does while a key is held. `NoReleaseMissed`: a release within the
  term is never left waiting behind its undecided key, except by the branch
  that does not look (see below); `PressDelayed`: a press that arrives while a key is
  undecided waits behind all that waits; `Decided`; `Settles`: once the keys stay up,
  ticks alone empty the buffer and forget the tapping key.
* `tap_default` - Vial's default (hold on other key press) with the real buffer of
  eight slots, a fourth key that is a momentary layer key, and a main loop that may
  stall for as long as the term. `NoStuckKeys`, `NoStuckLayers`.
* `tap_one_tap_key` - permissive hold, no quick tap, one tap-hold key and stalls
  nearly as long as the term. `HeldByTappedKey`.

Bounds. Three keys are the least with which a key pressed before, during and after
an undecided one all exist together. A term of 2, 3 or 4 has instants strictly
inside it, and `TIMER_RANGE` is more than twice the term. `MaxGap` bounds the time
between two calls of `action_exec`. Fairness: `WF_vars(process_tapping)`, since a call
runs to its end, and `WF_vars(Tick)`: the main loop calls `generate_tick_event`
whenever the matrix has not changed, and a debounced matrix does not change on every
scan for ever. Key presses have no fairness.

What does not hold in every setting. `SequentialTap` makes a new press the
tapping key without calling `waiting_buffer_scan_tap` when the quick-tap term is over
(`action_tapping.c:536`): its release may already wait in the buffer, the
key is then taken as held although it was tapped in time
(`ActionTapping_sequential_tap.cfg`), and the events behind it are processed in an order
in which a release can overtake its own press and the key stays registered
(`ActionTapping_overtaken.cfg`). That needs several records to be waiting when a key is
decided; with hold on other key press the next press decides a key at once, and
`NoStuckKeys` is checked there. With permissive hold and several tap-hold keys it fails
too, as a consequence of what `ActionTapping_permissive_hold.cfg` shows; `NoStuckLayers`
needs a buffer that does not overflow.

## 4. Deferred execution

`table`, `current_token` and `last_execution_time` are the variables of
`deferred_exec.c`. `defer_exec`, `extend_deferred_exec` and `cancel_deferred_exec`
are its interface, called from the main loop or, up to `MaxCalls` times, by a
callback. `deferred_exec_task` is cut where callbacks and the timer interrupt act:
`TaskStart`, then for each entry `SkipEntry`, or `InvokeCallback` and
`CallbackReturn` with everything the callback did between the two. Another table
that shares the token counter is `DeferInOtherTable`.

Run `deferred_exec`: two entries, three token values of which one is invalid, so that
tokens wrap around after two calls while an executor lives on, and allocation has to pass
over the token in use; a timer of twelve values. `TokensUnique`; `EventuallyRuns`: an entry that
from some time on keeps its token, and its trigger time but for what its own callback
returns, is reached by the walk again and again. `MaxLag` says that the main loop gets
round before the timer does. A callback may return any delay but zero. One that asks
to be called more often than the main loop goes round falls behind for ever, by the
code's own rule of adding the delay to the old trigger time (`deferred_exec.c:141-146`);
the history variable `drift` counts, for each entry and up to `MaxDrift`, by how much
its callback's delays fell short. `TriggerNear`: with the clock wrapping around, an executor
is never overdue by two rounds of the main loop and its drift, and as long as these
fit into half of the timer's range (`TimerAssumption`) it never looks further away than
its delay. In the run delays of 1 and 2 meet a round of 2, so that entries are in time, late
within the bound, and past it. What happens past it, after 2^31 milliseconds of drift in the
firmware, is `DeferredExec_drift.cfg` in section 9.
Fairness: `WF_vars` of the task, of callbacks (they return) and of the timer; none of
the interface.

## 5. Debouncing

A step is a call of `matrix_scan`: some time passes (`MaxGap`), any raw matrix is
read, `debounce` is called with it. `algo`, chosen initially, is the file the build
compiles. The counters of keys and of rows share one function; `sym_eager` is both
the per-key and the per-row file, which differ only in what has a counter. `quiet` and
`steady` are history.

Run `debounce`: two keys in a row, all algorithms; times up to four units apart with
`DEBOUNCE = 2`, an elapsed time that saturates at three and a timer that wraps at six,
so that scans come too late, too early and at the limit. `Follows`: once a key has
been quiet for `Latency`, the next scan shows it; `Latency` is twice `DEBOUNCE` and a
scan for `asym_eager_defer_pk`, whose one counter serves the lockout after a press and
then the delay of a release. `NoiseFiltered`: a deferring algorithm shows a change
only after `DEBOUNCE` without noise on the keys it is debounced with.
`ChatterFiltered`: an eager one does not change a key twice within `DEBOUNCE`. These are
invariants and step properties: they need no fairness.

`DEBOUNCE` is at least 1. The documentation says that 0 disables debouncing
(`docs/feature_debounce_type.md:103`), and with 0 the other files compile to `none.c`, the
algorithm `none`. `sym_defer_pr.c` has no such fallback: a change sets the row's countdown
to 0 (`:61`), which is also the value for "nothing to report" (`:65`), so the
row is never reported. `Follows` and its theorem do not speak of that build.

## 6. Combos

`combo` is `key_combos` (the keys seen down, `disabled`, `active`), `key_buffer` and
`combo_buffer` the two queues, the second a ring. `KeyEvent` and `PressSwitch` are
`process_combo` with everything it calls, in its order: offer to every combo, buffer
or end the wait, apply, dump, clear. `combo_task` is the main loop's call, `reload_combo`
the host's. Of a record that is let through the model keeps its effect on the report.

Run `combo`: two overlapping combos (`a b`, `a b c`), a toggle key, a host that
changes a keycode. `NoStuckKeys`, `NoLostPress`, `OneComboPerKey`, `Flushed`. The
host's change forgets the active combos (`vial.c:525`), so the first three are stated
for a host that does not do it while keys are down; `unset` in `Flushed` is the
instant at which the timer reads 0, which the code takes for "not running"
(`process_combo.c:621`, `:659`): a press buffered then waits for the next key event
instead of the term. The timer has four values here and 65536 in the firmware.
Fairness: `WF_now(ClockMoves)`, the main loop calls `combo_task` again and again.

The limits of the buffers matter, and the run is inside them: section 10 has the
theorems and what they need. Vial lets the host set up to 32 combos of one to four
keys; the ring has four slots by default and the key buffer eight
(`process_combo.h:36`, `:39`), and the documentation warns that they may be too small
(`docs/features/combo.md:120`). What happens then:

* `Combo_ring.cfg` violates `NoStuckKeys`: as many complete combos as the ring has
  slots make it look empty. Their presses are dumped as keys, but the combos still count
  as complete, so that the first release is swallowed and its key stays registered;
* `Combo_one_key.cfg` violates it with any ring: a combo of one key that is tapped
  within the term is applied by the release, when none of its keys is down that could end
  it; it stays active, ignores its key from then on, and nothing takes its keycode back;
* a press that finds the key buffer full is dropped (`process_combo.c:629`).

## 7. Tap dances

`td` is the state of `tap_dance_actions`, `dance_state` Vial's decision, `entry` the
dances in the dynamic keymap, which `on_dance_finished` and `on_dance_reset` read anew.
`PressDance`, `PressOther`, `ReleaseDance`, `ReleaseOther` are key events with all of
`preprocess_tap_dance`, `process_record_vial` and `process_tap_dance`, in the order
`process_record_quantum` calls them; `tap_dance_task` is the main loop's. A keycode
above `QK_MODS_MAX` is pressed by a synthetic event that goes through
`preprocess_tap_dance` again: `vial_keycode_down` takes as an argument what that
re-entry does, and the re-entries are unfolded to the depth they can have.

Run `tap_dance`: a dance that is decided early after one tap, with a layer on hold, and
one decided early after two, which the host may replace by one decided only by its
term; a modifier key; up to four taps. `ReportJustified`: nothing is registered, and no
weak modifier set, without a key that is down and accounts for it. It is stated for a
host that does not change a dance under way, and for dances whose `on_tap` and
`on_double_tap` are no magic keycodes: with `MO(1)` as `on_tap` the synthetic press re-enters `preprocess_tap_dance`,
which finds the dance finished and released, resets it (releasing the keycode), and
only then is the keycode registered, to stay. `DanceFinishes`: a dance that is not
tapped again is finished, unless it was orphaned; `OrphanedByEarlyRelease`: only the
early release of another dance does that. `tap_dance_orphaned` shows that it happens.
Fairness: `WF_now(ClockMoves)`, the main loop calls `tap_dance_task` again and again.

## 8. The split transport

Each half has its copy of the shared memory, `master` and `slave`. A step of the master
is one transaction (`ReadChecksum`, `ReadData`, `SendValue`) with what the handler does
after it: retry (`TryAgain`), go on, or end the scan with the count of connection
errors and `matrix_post_scan` (`ScanDone`). The slave scans (`SlaveScan`) between any
two transactions, a transaction being atomic because of `split_shared_memory_lock`.
Everything sent by `send_if_condition` is one `value`. Transactions carry bytes that
nobody checks: the serial drivers notice framing errors and timeouts, I2C a missing
acknowledgement. The link is up, noisy or down. When it is noisy a read, that of
the checksum byte like that of the matrix, delivers anything, and a write may leave anything
in the slave's memory; either may report success or failure (`Received`, `Written`). When it is down
every transaction fails, and may have done part of its work. Only the transaction's number is taken
to be right or the error noticed. While the link is not up the slave may restart (`SlaveRestart`).

Run `split`: three matrices, two of which have the same checksum, and three values of the
checksum byte, one of which belongs to no matrix; two tries; two
connection errors; time limits of one tick, which are reached or not at every point
of a scan. `MatrixSeen`: what the master takes over has a checksum that was in the
slave's memory during this very try, unless the checksum byte itself arrived garbled (the history
variable `garbled`): then garbage left in the master's memory, or read next, may match it and
is taken for a good matrix (`transactions.c:149`, `:152`, `:157`), until a later scan
reads the checksum right. `SplitTransport_garbled.cfg` in section 9 shows it.
`MatrixConverges`, also for matrices that the
checksum does not tell apart, thanks to the forced synchronisation. `ValueConverges`,
also after a write that failed: `transport_execute_transaction` puts the value into
the master's own memory first, so the retry finds no difference and reports success,
and only the forced synchronisation repairs it. It needs keys that are quiet: while
the slave's matrix changes between any two transactions the scan ends with the first
handler. `ReleasedWhenGone`. Fairness: both halves scan for ever, time goes on; the
link owes nothing.

## 9. Findings

`tap_dance_orphaned` ends with a counterexample: Vial finishes a dance at an early
release with `process_tap_dance_action_on_dance_finished`, which clears `active_td` (`process_tap_dance.c:123`)
although another dance, pressed meanwhile, is the active one; `tap_dance_task` then
never finishes that one. `PROJECT.json` quotes the line of the documentation.

### Further counterexamples

These configurations are kept beside the runs. TLC ends each with a counterexample,
for example with `tlc -config Combo_stale.cfg MCCombo`.

| Configuration, property | What the code does | What the repository says |
|---|---|---|
| `WearLeveling_playback_bounds`, `ReadInBounds` | playback checks only the first word of an entry against the end of the store and reads the others past it (`wear_leveling.c:512`) | `tests/backing_mocks.cpp:119` expects every read within the store |
| `WearLeveling_locked_init`, `ForcedConsolidationKeepsData` | the consolidation that playback forces erases without unlocking; flash with a lock rejects it and the data read so far is dropped | `wear_leveling.c:604`: "force a consolidation with the data we already have" |
| `WearLeveling_three_sectors`, `Durable` | a log in several erase sectors, cut off between two erases, later replays old entries over newer data | the EEPROM documentation: settings "are retained even after power loss" |
| `ActionTapping_overflow`, `NoStuckLayers` | an overflow of the waiting buffer clears everything but the layers | `action_tapping.c:128`: "clear all in case of overflow" |
| `ActionTapping_layer_cache`, `NoStuckKeys` | a release that waits is processed with the layer a later press of the same key has cached (`quantum.c:274`) | `action_layer.c:306`: the action on release "is the same one as the one triggered on press" |
| `ActionTapping_sequential_tap`, `HeldMeansLong` | a press that follows a tap of the same key after the quick-tap term becomes the tapping key although its release waits in the buffer, and is taken as held (`action_tapping.c:537`) | `docs/tap_hold.md:123`: "The default mode selects the hold action only if the dual-role key is held down longer than the tapping term" |
| `ActionTapping_overtaken`, `NoStuckKeys` | a record that is refused in the loop over the buffer stays there while the key it waited for is decided; a later release is then processed before its press | `docs/tap_hold.md:129`: until the decision "key events are delayed" |
| `ActionTapping_permissive_hold`, `HeldByTappedKey` | a waiting release and a later press of the same key are taken for a tap of it (`action_tapping.c:605`) | the tap-hold documentation: "tap another key (press and release)" |
| `DeferredExec_token_reuse`, `SameExecutor` | a callback that cancels itself and queues again can get its old token; the task then treats the new executor as the old one | `deferred_exec.c:135`: "If the token has changed, then the callback has canceled and re-queued" |
| `DeferredExec_drift`, `NeverFarOff` | a callback that keeps returning delays shorter than a round of the main loop drifts out of the half of the timer's range that counts as past; its executor is then one of the far future and not run (`deferred_exec.c:141-146`) | `deferred_exec.c:145`: adding to the old trigger time "ensures best-effort timing between invocations" |
| `SplitTransport_garbled`, `ChecksumDecides` | the checksum travels over the same unchecked link as the data (`transactions.c:149`); garbled, it may match garbled data, which is then taken over | `transactions.c:188`: "Checksum matches the received data, save as the last matrix state" |
| `Combo_stale`, `NoLostPress` | with three combos, one that is disabled behind another stays in the ring (`process_combo.c:336`) and silences a press later | `process_combo.c:313`: "Mark a combo as processed from the buffer" |

## 10. Proofs

`WearLevelingProofs`, for every geometry the static assertions of the code allow,
every set of requests and every set of faults not excluded:

* `TypeCorrectness`: `Spec => []TypeOK`. Inductive invariant `TypeInv`: `TypeOK`, a
  request during an append, and a playback cursor that has not left the log on the
  low side. It rests on lemmas about the encoders, the decoder and the bit-wise
  OR of flash programming (`DecodeType`, `EntryAtType`, `BitOrType`, ...).
* `WritesStayInLog`: without failing erases, `Spec => []WriteInBounds`. `BoundsInv`
  adds that between calls there is room in the log, and which call an erase
  belongs to: a full log always leads through an erase to an empty one.
* `LockDiscipline`: without failing locks, `Spec => []LockedBetweenCalls`; the
  property is inductive once `TypeInv` is known.
* `MultibyteRoundTrip`, `Optimized64RoundTrip`, `Word01RoundTrip`: decoding an entry
  gives back what was encoded, over the full address ranges of the three formats.

The rest of `WearLevelingProofs` is about the contents. Its
hypothesis `SoundStore` says: flash without a lock (the model of
the RP2040 and SPI drivers), erases, writes and reads that succeed, sectors that cover
the store, and, if power may be lost inside a call, a log that one erase covers.
Each part is needed: the faults are those of section 2, and
`WearLeveling_three_sectors.cfg` is the counterexample to the last one.
`DurableStore` adds unlocks that succeed, because a write whose unlock
failed has already changed the cache. The instances of `wl_log` and `wl_words4` satisfy both.

* `LogWrittenInOrder`: `Spec => []NothingAfterWriteAddress`. The property
  is not inductive: a power-up finds the write address by playing the log back, and
  has to come to the first blank word although the log may end in a torn entry, which
  is as long as its first byte says. `LogInv` therefore says that the log is a chain of
  entry starts (`EntryStarts(S)`: from each, as many words as its header says lead to
  the next, and behind a blank one all is blank), that playback's cursor and the place
  where the entry in progress will end are in the chain, and what has been erased so far.
* `WritesAreDurable`: `Spec => []Durable`. `ReplayInv` adds to the chain a function `g`
  that gives what playback has done at each entry start (`Playable`), and relates the
  cache to it at each point of the code: during playback the cache is the base
  with `g[cursor]` over it; between calls with `g[write_address]`; during an append it is that,
  the entry in progress and the rest of the request (`Rest`) together. `AppendPlayable`
  is the heart: one more word of an entry is programmed, the entries before
  are read as before, and this one is read as its words so far say (`TornRead`, `CutOk`: a
  torn entry is always accepted). `NextEntry` says that the next entry is the next
  part of the request, from the three round-trip theorems.
* `ConsolidationIsAtomic`: `Spec => []ConsolidatedWholeOrEmpty`, from the same
  invariant: no checksum word is written before the contents are, and the log is erased.
* `TornWritesAreConfined`: with words of four or eight bytes, `Spec =>
  []TornAppendConfined`: the torn entry keeps the address and the length of the whole
  one (`CutOk`), and these are within the request.

The last part of `WearLevelingProofs` is the refinement, `WearLevelingIsAnEeprom`:
`Spec => ImplementsEeprom`, every step of every call, power loss and power-up is a step of `Eeprom`
or none. Its hypothesis `EepromStore` is `DurableStore` and two facts about entries
that are cut short. What such an entry reads as may not depend on the flash behind the
store, which it does when its header promises words past the end: so words have eight
bytes, where an entry is one word, or the flash behind the store is erased. And
power is not lost inside a call if words have two bytes, where the first word of an entry
has only half of the address: playback then applies a torn entry somewhere else.
`wl_words4` satisfies it. `RefInv` is on top of `ReplayInv`:

* `CallInv`: which call is in progress at each point of the code, and how far it has come;
* `AreaInv`: a byte of the consolidated area is the one its checksum was made of, or
  erased, and an erase that has passed a sector has left none of it;
* `CutInv`: what a power-up would make of the store now is, byte by byte, old, new or zero.
  For an append, `AppendCut`: the entry in progress is within the request, torn or not.
  For an erase, `EraseCut`: sectors are erased in ascending order, so that the contents
  are gone before, or together with, the log that was laid over them (`AreaBeforeLog`);
  in the other order, old contents would come back without what was written since.

`StepIsStep` then takes each action to its abstract step: the last step of a call
(`Completes`) to `Commit`, the end of playback to `PowerUp`, a power loss to `PowerLoss`
with `CutInv` (`PowerLossIsPowerLoss`), the rest to stuttering, since `Recovered` is mapped
only while power is off, and playback comes to it (`PlayedRecovers`).

`Recoverable` is recursive, and TLAPS has no induction over data here; the two facts
about the recursion are proved from the well-foundedness of the naturals instead
(`LeastNatural`): that it has a solution (`ReplayExists`, from the end of the log
backwards), and that a replay comes to `g` at the first place without an entry
(`ReplayLink`).

`ActionTappingProofs`, for every matrix, keymap, term and buffer size:

* `TappingTypeCorrectness`: `Spec => []TypeOK`, in particular the bound on the
  waiting buffer and on the 4-bit tap count. `TypeInv` adds that the record taken
  from the buffer is there.
* `ReleasesAreSeen`: `Spec => NoReleaseMissed`, and `PressesAreDelayed`: `Spec =>
  PressDelayed`. Both are step properties under `TypeInv`, with a case for each of
  the branches of `process_tapping`. `NoReleaseMissed` came out of an attempt to prove
  `HeldMeansLong`, which is false because of the branch that it names.
* `KeysAreReleased`: `Spec => []NoStuckKeys`, if `RegularKeymap` (a key is a plain key on
  every layer, or a modifier, layer or tap-hold key that is transparent above layer 0) and
  `DecidedAtOnce` (hold on other key press; or a single tap-hold key, and under permissive
  hold only plain keys besides it). `tap_default` and `tap_one_tap_key` satisfy both.
  Neither can be dropped. A key that is plain on one layer and a modifier on another gets
  stuck when its release is looked up on the wrong one (`ActionTapping_layer_cache.cfg`);
  with a second tap-hold key, or under permissive hold a modifier key, a press waits
  behind the undecided key and its release overtakes it: TLC then violates `NoStuckKeys`
  and `HeldByTappedKey`.
* `LayersAreReleased`: under the same hypotheses `Spec /\ []Room => []NoStuckLayers`,
  where `Room` says that no event meets a full buffer (an overflow clears the keyboard
  but not the layers, `ActionTapping_overflow.cfg`). `LayersAlwaysReleased` discharges `Room`
  for hold on other key press and fewer modifier, layer and tap-hold keys than places:
  only releases of such keys wait then, one of each (`BufferHasRoom`, by the pigeonhole
  principle).
* `HeldByNestedTaps`: `Spec => HeldByTappedKey`, under the hypotheses of `KeysAreReleased`.

  The four share the inductive invariant `TapInv`. `Queue` is what the firmware has taken
  in and not processed. Its events alternate for each key and end with what the key does
  now (`Alternates`), so that it makes sense to say that a key is `Down` for the part
  behind the queue. `Owned` says that every code and modifier that is on belongs to a
  key that is `Down` and whose release, looked up in the layer cache of its press, turns it
  off, or to a tap that is being played. `PhaseOK` is what waits behind an undecided key
  (`WaitsBehind`: no second tap-hold press, and no release of a plain key without its
  press) and after it is decided (`DecidedQueue`): without it, `process_tapping` might
  let a release overtake its press. `TapStep` has a case for each branch.

`DeferredExecProofs`, for every table size, width of tokens and timer, and choice of
non-zero delays:

* `DeferredTypeCorrectness`: `Spec => []TypeOK`: the walk stays in the table although
  callbacks change it.
* `TokensStayUnique`: `Spec => []TokensUnique`. The two together are inductive. The
  argument is in `AllocateToken` (the search through the tokens that wraps around ends
  at one that no entry holds, `MinIsMember` from the well-foundedness of the naturals)
  and in `UniqueKept`: every other step only frees tokens or leaves them.
* `TriggersStayNear`: `Spec => []TriggerNear`. `NearInv` bounds how late each entry is by
  where the walk stands: an entry it has passed was due after the last walk or has
  been put off since, and one it has not reached may be late by one round more. For an
  entry whose callback's delays fall short of a round the bound grows by `drift`
  (`LaterMeans`), and nothing is said of an entry whose drift has passed `MaxDrift`.

`DebounceProofs`, for every set of keys and rows, every `DEBOUNCE`, timer and gap between
scans that the timer can tell:

* `DebounceTypeCorrectness`: `Spec => []TypeOK`, `EveryStateIsReported`: `Spec =>
  []Follows`, `NoiseIsFiltered` and `ChatterIsFiltered`. One inductive invariant, `Inv`,
  with a part for each algorithm: a running counter is what is left of `DEBOUNCE` since
  the keys it stands for last changed, a counter that runs is announced by
  `counters_need_update`, and a key that differs from its debounced state has a
  counter that runs or has just been seen.

`SplitTransportProofs`, for every set of matrices, checksum function, number of tries and
time limits:

* `SplitTypeCorrectness`, `MatrixIsSeen`: `Spec => MatrixSeen`, with the
  invariant (`SeenInv`) that the checksum the master has read, unless it arrived garbled,
  was the slave's during this try; what the link does to the data is not restricted;
  `NoKeyOfADisconnectedSlave`, the safety half of `ReleasedWhenGone`.

`TapDanceProofs`, for every set of dances, keys and keycodes, every term and timer:

* `DanceTypeCorrectness`: `Spec => []TypeOK`. That `pressed` is the state of the key is
  what needs an argument, since the handlers re-enter each other through the keys they
  press. `Within(c, r, A)` says what a handler may do to the dances: it changes those of
  `A` only, leaves `pressed` alone and starts none. It is proved from the inside out,
  level by level of the re-entry (`ResetIfReleasedWithin`, `DownInnerWithin`,
  `FinishInnerWithin`, `DownKeyWithin`, `FinishedWithin`), and then for each event.
* `OrphansComeFromEarlyReleases`: `Spec => OrphanedByEarlyRelease`, from the same lemmas:
  only the active dance can become an orphan, a press of another key finishes it first
  (`FinishedActive`), and `tap_dance_task` finishes it. It needs no invariant
  but `TypeOK`.
* `NothingStaysRegistered`: if `PlainTaps` (no `on_tap` or `on_double_tap` is magic),
  `Spec => []ReportJustified`. Not inductive: `ReportInv` adds that a finished or active
  dance has been tapped, which the history variable `edited` depends on, that `KC_NO` is
  not registered, and that only keys other than dances account for themselves.
  `FinishedBacked` is the argument: what a dance registers when it is
  finished it accounts for itself, and if its key is up the reset takes back exactly that.
  `PlainTaps` enters where a magic keycode is pressed: the key of its dance is down then
  (`HeldIsPressed`), so the re-entry finds the dance finished and does not reset it
  (`DownMagic`). Section 7 has the counterexample without it.

`ComboProofs`, for any number of combos of any keys, any toggle keys, and any sizes of
the buffers and the timer:

* `ComboTypeCorrectness`: `Spec => []TypeOK`: the buffers keep within their bounds and a
  combo counts only keys of its own.
* `OverlappingCombosExclude`: `Spec => []OneComboPerKey`, without any hypothesis.
* `CombosLeaveNothingStuck`: `Spec => []NoStuckKeys`, if `RoomForCombos` (the combos that
  have keys in some layout are fewer than the slots of the ring) and `NoSingleKeys`. The
  two configurations of section 6 show that neither can be dropped. The bound is exact
  for disjoint combos, of which all may wait at once.
* `NoPressIsLost`: `Spec => []NoLostPress`, if `SimpleOverlaps` (of the combos of a layout
  either no two have a key in common or every two have) and `RoomForKeys` (the key buffer
  has a place for every key of them). `Combo_stale.cfg` is the counterexample with three
  combos of which two overlap. There a combo that is displaced behind another one
  stays in the ring, disabled; when all combos are disjoint none is displaced,
  and when all overlap there is never another one in front.

  The inductive invariant of the first three is `ComboInv`, of the last `LossInv`.
  `Settled` holds always: no key is in the key buffer twice, all in it are down, a combo has
  seen only keys that are down, an active one no key that waits, and no combo is in the
  ring twice. `Firing` needs a host that does not edit under way: complete combos
  in the ring are disjoint (`ReadyDisjoint`), so that no two of them can be applied
  to the same key, and active combos have no key in common. `Sound` says why a keycode
  is registered (`Justified`: a key that is down and in no wait, or an
  active combo one of whose keys is down) and that a complete combo is in the ring;
  this is where the hypotheses enter, since a ring that wraps forgets it and a combo
  of one key becomes active as its key goes up. `Lossless` adds that each entry of the
  ring is complete (`ReadyRing`), with its keys in the key buffer.

  A key event is a loop over all combos and, when the wait ends, one over the ring.
  `apply_combos`, `BufferCombo` and `OfferedToCombos` have them as functions over an interval;
  `LoopExists` (in `NumberLemmas`, from the well-foundedness of the naturals) says that
  such a function exists and takes its values where the body of the loop does. Each loop
  then has a predicate that says what n turns have done (`PressedTo`, `ReleasedTo`,
  `AppliedTo`), proved turn by turn (`PressedStep`, ..., with `UpTo`).

The assumptions are `WearLevelingAssumption` (the static assertions of
`wear_leveling_internal.h` and the types of the parameters), `TappingAssumption`,
`DeferredAssumption` with `TimerAssumption` (delays, and two rounds of the main loop with `MaxDrift`, fit
into half of the timer), `DebounceAssumption`, `SplitAssumption`, `TapDanceAssumption` and `ComboAssumption` (types
of the sizes; toggle keys are in no combo; the term and a round of the main loop fit into
the timer). TLC evaluates them on every run.

Only model-checked: liveness (`CallsReturn`, `Decided`, `Settles`, `EventuallyRuns`,
`Flushed`, `DanceFinishes`, and the convergence properties of `SplitTransport`), for
which TLAPS has no fairness reasoning. Every invariant of the runs is proved, each under
the hypotheses given above.

## 11. Not modelled

* Key overrides, one-shot keys, auto shift, caps word, repeat key, dynamic macros,
  leader, layer lock, secure, the Vial lock, the rest of `via.c` and the dynamic keymap:
  control logic that could be modelled the same way (see the plan).
* The composition of the event path: combos and dances that produce tap-hold keys.
* Of the split transport: encoder events (drained in a transaction after the one that
  read them, `transactions.c:257`), remote procedure calls, pointing devices, the
  watchdog, and the matrix published without a lock on AVR.
* Lighting, audio, displays, pointing devices: rendering, little control state. USB
  stacks, board drivers, `keyboards/` and vendored libraries: hardware, data and
  third-party code, which are most of the repository's lines.

## 12. Plan

1. `VialLock` (`vial.c:168`) and key overrides.
2. Settings as state of `ActionTapping`, chosen by the host at any time as
   `qmk_settings.c` allows, in place of the constants `PERMISSIVE_HOLD` and
   `HOLD_ON_OTHER_KEY_PRESS`.
3. `TapDance` composed with `ActionTapping`; encoder events in `SplitTransport`.
