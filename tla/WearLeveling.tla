---------------------------- MODULE WearLeveling ----------------------------
(***************************************************************************)
(* The wear-leveling layer that emulates an EEPROM on flash memory         *)
(* (quantum/wear_leveling/wear_leveling.c).  Logical bytes are served from *)
(* a RAM cache.  A write updates the cache and appends entries to a write  *)
(* log in the backing store; when the log is full the whole store is       *)
(* erased and the cache is written to its "consolidated" area, followed by *)
(* a checksum.  At power-up the cache is rebuilt from the consolidated     *)
(* area and the log.                                                       *)
(*                                                                         *)
(* A step is one operation on the backing store, so power may be lost      *)
(* between any two of them.  Addresses of the backing store are in units   *)
(* of backing words (BACKING_STORE_WRITE_SIZE bytes); the byte encoding of *)
(* log entries is the one of wear_leveling_internal.h, so a log that is    *)
(* torn or out of step is decoded as the firmware decodes it.              *)
(***************************************************************************)
EXTENDS Integers

(* An operator whose name ends in _ and a lower-case word is a deliberately *)
(* wrong variant of the definition that follows it: the project's mutation  *)
(* tests put it in that definition's place to see the properties fail.      *)

CONSTANTS
  BACKING_STORE_WRITE_SIZE,   \* bytes per backing word: 2, 4 or 8
  WEAR_LEVELING_LOGICAL_SIZE, \* bytes of emulated EEPROM
  WEAR_LEVELING_BACKING_SIZE, \* bytes of backing store
  SECTOR_SIZE,                \* bytes of backing store erased at a time
  OPTIMIZED_64_LIMIT,         \* addresses the byte entry can encode (64)
  WORD_01_LIMIT,              \* addresses the 0/1 word entry can encode (16384)
  Requests,                   \* the calls of wear_leveling_write that are made
  Device,                     \* the kind of flash driver, see below
  Faults,                     \* which backing-store operations may fail
  Beyond,                     \* words a read past the store or past the entry returns
  MaxOverrun,                 \* bound: words past the store that are ever written
  NoHash,                     \* an erased checksum word
  NoRequest

W == BACKING_STORE_WRITE_SIZE
Byte == 0..255
Word == [0..(W - 1) -> Byte]
Blank == [i \in 0..(W - 1) |-> 0]
LogicalBytes == 0..(WEAR_LEVELING_LOGICAL_SIZE - 1)
Contents == [LogicalBytes -> Byte]
Zeros == [b \in LogicalBytes |-> 0]

ASSUME WearLevelingAssumption ==
  /\ W \in {2, 4, 8}
  /\ WEAR_LEVELING_LOGICAL_SIZE \in Nat \ {0}
  /\ WEAR_LEVELING_LOGICAL_SIZE % W = 0
  /\ WEAR_LEVELING_LOGICAL_SIZE <= 524288
  /\ WEAR_LEVELING_BACKING_SIZE \in Nat
  /\ WEAR_LEVELING_BACKING_SIZE % WEAR_LEVELING_LOGICAL_SIZE = 0
  /\ WEAR_LEVELING_BACKING_SIZE >= 2 * WEAR_LEVELING_LOGICAL_SIZE
  /\ WEAR_LEVELING_BACKING_SIZE \div W > (WEAR_LEVELING_LOGICAL_SIZE + 8) \div W
  /\ SECTOR_SIZE \in Nat \ {0}
  /\ OPTIMIZED_64_LIMIT \in 0..64
  /\ WORD_01_LIMIT \in 0..16384
  /\ \A r \in Requests :
        /\ r.address \in Nat
        /\ r.length \in Nat
        /\ r.value \in [0..(r.length - 1) -> Byte]
  /\ Device \in {"locking", "open"}
  /\ Faults \subseteq {"power", "init", "read", "unlock", "lock", "erase", "write"}
  /\ Beyond \subseteq Word /\ Beyond # {}
  /\ MaxOverrun \in Nat
  /\ NoHash \notin Contents
  /\ NoRequest \notin Requests

(* Word addresses: the consolidated area, the checksum, then the write log. *)
ChecksumWords == 8 \div W
LogStart == (WEAR_LEVELING_LOGICAL_SIZE + 8) \div W
LogEnd == WEAR_LEVELING_BACKING_SIZE \div W
LogWords == LogStart..(LogEnd - 1)
SectorCount_lastForgotten == (WEAR_LEVELING_BACKING_SIZE \div SECTOR_SIZE) - 1
SectorCount == WEAR_LEVELING_BACKING_SIZE \div SECTOR_SIZE

FAILED == "WEAR_LEVELING_FAILED"
SUCCESS == "WEAR_LEVELING_SUCCESS"
CONSOLIDATED == "WEAR_LEVELING_CONSOLIDATED"

VARIABLES
  (* The backing store, which survives power loss. *)
  consolidated,   \* the consolidated area, byte by byte
  checksum,       \* its checksum words: each is NoHash or the contents hashed
  wlog,           \* the write log
  (* struct wear_leveling *)
  cache, write_address, unlocked,
  (* Where execution is. *)
  pc,             \* the loop that is running, "idle" between calls, "off" before init
  call,           \* the API function in progress
  acquired,       \* its lock_status is STATUS_SUCCESS: it must lock when it returns
  cursor,         \* the loop counter of playback, erase and consolidation
  erase_ok,       \* what backing_store_erase will return
  req, off,       \* the write request, and how many of its bytes are in log entries
  raw, size, sent,\* the log entry being appended, its words, and how many are written
  status,         \* the status the last call returned
  (* History: the logical contents when the write in progress was called. *)
  before

store == <<consolidated, checksum, wlog>>
entryVars == <<req, off, raw, size, sent>>
vars == <<consolidated, checksum, wlog, cache, write_address, unlocked, pc, call,
          acquired, cursor, erase_ok, req, off, raw, size, sent, status, before>>

-----------------------------------------------------------------------------
(* Log entries, write_log_entry_t: eight bytes, of which playback reads as  *)
(* many words as the entry needs.  The bytes from 8 on are what a length of *)
(* more than LOG_ENTRY_MULTIBYTE_MAX_BYTES would read past the union.       *)

LOG_ENTRY_MULTIBYTE_MAX_BYTES == 5
Raw8 == [0..9 -> Byte]
ZeroRaw == [i \in 0..9 |-> 0]

LOG_ENTRY_TYPE_MULTIBYTE == 0
LOG_ENTRY_TYPE_OPTIMIZED_64 == 1
LOG_ENTRY_TYPE_WORD_01 == 2
LOG_ENTRY_GET_TYPE(entry) == entry[0] \div 64

LOG_ENTRY_MULTIBYTE_GET_ADDRESS(entry) ==
  ((((entry[0] % 8) * 256) + entry[1]) * 256) + entry[2]
LOG_ENTRY_MULTIBYTE_GET_LENGTH(entry) == (entry[0] \div 8) % 8
LOG_ENTRY_MAKE_MULTIBYTE_lengthShifted(address, length, p) ==
  [i \in 0..9 |->
     IF i = 0 THEN ((length % 8) * 128) + ((address \div 65536) % 8)
     ELSE IF i = 1 THEN (address \div 256) % 256
     ELSE IF i = 2 THEN address % 256
     ELSE IF i - 3 < length THEN p[i - 3] ELSE 0]
LOG_ENTRY_MAKE_MULTIBYTE_addressOff(address, length, p) ==
  [i \in 0..9 |->
     IF i = 0 THEN ((length % 8) * 8) + ((address \div 65536) % 8)
     ELSE IF i = 1 THEN (address \div 256) % 256
     ELSE IF i = 2 THEN IF address = 0 THEN 0 ELSE (address - 1) % 256
     ELSE IF i - 3 < length THEN p[i - 3] ELSE 0]
LOG_ENTRY_MAKE_MULTIBYTE(address, length, p) ==
  [i \in 0..9 |->
     IF i = 0 THEN ((length % 8) * 8) + ((address \div 65536) % 8)
     ELSE IF i = 1 THEN (address \div 256) % 256
     ELSE IF i = 2 THEN address % 256
     ELSE IF i - 3 < length THEN p[i - 3] ELSE 0]

LOG_ENTRY_OPTIMIZED_64_GET_ADDRESS(entry) == entry[0] % 64
LOG_ENTRY_OPTIMIZED_64_GET_VALUE(entry) == entry[1]
LOG_ENTRY_MAKE_OPTIMIZED_64(address, value) ==
  [ZeroRaw EXCEPT ![0] = 64 + (address % 64), ![1] = value]

LOG_ENTRY_WORD_01_GET_ADDRESS(entry) == (((entry[0] % 32) * 256) + entry[1]) * 2
LOG_ENTRY_WORD_01_GET_VALUE(entry) == (entry[0] \div 32) % 2
LOG_ENTRY_MAKE_WORD_01(address, value) ==
  [ZeroRaw EXCEPT ![0] = 128 + (IF value # 0 THEN 32 ELSE 0) + ((address \div 512) % 32),
                  ![1] = (address \div 2) % 256]

(* The backing words of a multi-byte entry: three bytes of header, then the *)
(* data, in whole words and never more than the eight bytes of the union.   *)
MultibyteWords_roundedDown(length) ==
  IF 3 + length > 8 THEN 8 \div W ELSE (3 + length + W - 2) \div W
MultibyteWords(length) ==
  IF 3 + length > 8 THEN 8 \div W ELSE (3 + length + W - 1) \div W

(* Word k of an entry, log.raw16[k], log.raw32[k] or log.raw64. *)
EntryWord(entry, k) == [i \in 0..(W - 1) |-> entry[(k * W) + i]]

(* The entry that starts at word a of the store, as playback reads it: the  *)
(* reads of its later words are not checked against the end of the store.   *)
(* What lies past the store, and past the union, is the word far.           *)
EntryAt(a, far) ==
  [i \in 0..9 |->
     LET w == a + (i \div W)
     IN IF i < 8 /\ w < LogEnd THEN wlog[w][i % W] ELSE far[i % W]]

(* What an entry says: the bytes [at, at+len) become data; playback reads   *)
(* size words of it; ok is FALSE where playback gives up on the log.        *)
Multibyte(entry) ==
  LET a == LOG_ENTRY_MULTIBYTE_GET_ADDRESS(entry)
      l == LOG_ENTRY_MULTIBYTE_GET_LENGTH(entry)
      ok == a + l <= WEAR_LEVELING_LOGICAL_SIZE
  IN [ok |-> ok, at |-> a, len |-> l, data |-> [i \in 0..6 |-> entry[3 + i]],
      size |-> IF ok THEN MultibyteWords(l) ELSE IF W = 2 THEN 2 ELSE 1]

Optimized64(entry) ==
  LET a == LOG_ENTRY_OPTIMIZED_64_GET_ADDRESS(entry)
  IN [ok |-> a < WEAR_LEVELING_LOGICAL_SIZE, at |-> a, len |-> 1,
      data |-> [i \in 0..6 |-> LOG_ENTRY_OPTIMIZED_64_GET_VALUE(entry)], size |-> 1]

Word01_oneByte(entry) ==
  LET a == LOG_ENTRY_WORD_01_GET_ADDRESS(entry)
  IN [ok |-> a + 1 < WEAR_LEVELING_LOGICAL_SIZE, at |-> a, len |-> 1,
      data |-> [i \in 0..6 |-> LOG_ENTRY_WORD_01_GET_VALUE(entry)], size |-> 1]
Word01(entry) ==
  LET a == LOG_ENTRY_WORD_01_GET_ADDRESS(entry)
  IN [ok |-> a + 1 < WEAR_LEVELING_LOGICAL_SIZE, at |-> a, len |-> 2,
      data |-> [i \in 0..6 |-> IF i = 0 THEN LOG_ENTRY_WORD_01_GET_VALUE(entry) ELSE 0],
      size |-> 1]

BadEntry == [ok |-> FALSE, at |-> 0, len |-> 0, data |-> [i \in 0..6 |-> 0], size |-> 1]

Decode(entry) ==
  LET type == LOG_ENTRY_GET_TYPE(entry)
  IN IF type = LOG_ENTRY_TYPE_MULTIBYTE THEN Multibyte(entry)
     ELSE IF type = LOG_ENTRY_TYPE_OPTIMIZED_64 /\ W = 2 THEN Optimized64(entry)
     ELSE IF type = LOG_ENTRY_TYPE_WORD_01 /\ W = 2 THEN Word01(entry)
     ELSE BadEntry

(* memcpy of len bytes of data into the cache at address at. *)
Patch(c, at, len, data) ==
  [b \in LogicalBytes |-> IF at <= b /\ b < at + len THEN data[b - at] ELSE c[b]]

-----------------------------------------------------------------------------
(* The backing store.  The drivers fall in two kinds.  "locking": internal  *)
(* flash, which rejects erasing and programming while it is locked and      *)
(* reports an attempt to program a word that is not blank.  "open": flash   *)
(* without a lock, where programming a word that is not blank silently ORs  *)
(* the two (values are complemented, so programming only sets bits).        *)

Accepts == Device = "open" \/ unlocked
Bit(x, y, n) == IF (x \div n) % 2 = 1 \/ (y \div n) % 2 = 1 THEN n ELSE 0
BitOr(x, y) ==
  Bit(x, y, 1) + Bit(x, y, 2) + Bit(x, y, 4) + Bit(x, y, 8) +
  Bit(x, y, 16) + Bit(x, y, 32) + Bit(x, y, 64) + Bit(x, y, 128)

(* backing_store_write to a log word: FALSE is returned, or the word changes. *)
WriteFails(a) ==
  \/ "write" \in Faults
  \/ ~Accepts
  \/ a \in LogWords /\ wlog[a] # Blank /\ Device = "locking"
WriteOk(a, word) ==
  /\ Accepts
  /\ a \in LogWords /\ wlog[a] # Blank => Device = "open"
  /\ wlog' = [x \in LogWords |->
                IF x = a THEN [i \in 0..(W - 1) |-> BitOr(wlog[x][i], word[i])] ELSE wlog[x]]

InSector(word, k) == (word * W) \div SECTOR_SIZE = k
EraseOk(k) ==
  /\ Accepts
  /\ consolidated' = [b \in LogicalBytes |->
                        IF InSector(b \div W, k) THEN 0 ELSE consolidated[b]]
  /\ checksum' = [i \in 0..(ChecksumWords - 1) |->
                    IF InSector((WEAR_LEVELING_LOGICAL_SIZE \div W) + i, k)
                    THEN NoHash ELSE checksum[i]]
  /\ wlog' = [a \in LogWords |-> IF InSector(a, k) THEN Blank ELSE wlog[a]]
EraseFails == "erase" \in Faults \/ ~Accepts

-----------------------------------------------------------------------------
(* Returning from a call. *)

clear_cache_addressOnly ==
  /\ UNCHANGED cache
  /\ write_address' = LogStart
wear_leveling_clear_cache ==
  /\ cache' = Zeros
  /\ write_address' = LogStart

EntryDone ==
  /\ req' = NoRequest
  /\ off' = 0
  /\ raw' = ZeroRaw
  /\ size' = 0
  /\ sent' = 0

(* The end of a call: the caller that unlocked the store locks it again;    *)
(* only wear_leveling_write and wear_leveling_erase report a failure to.    *)
Return_leftUnlocked(s) ==
  /\ pc' = "idle"
  /\ call' = "none"
  /\ acquired' = FALSE
  /\ cursor' = 0
  /\ erase_ok' = TRUE
  /\ EntryDone
  /\ before' = cache'
  /\ status' = s
  /\ UNCHANGED unlocked
Return(s) ==
  /\ pc' = "idle"
  /\ call' = "none"
  /\ acquired' = FALSE
  /\ cursor' = 0
  /\ erase_ok' = TRUE
  /\ EntryDone
  /\ before' = cache'
  /\ \/ /\ unlocked' = (unlocked /\ ~acquired)
        /\ status' = s
     \/ /\ "lock" \in Faults
        /\ acquired
        /\ unlocked' = unlocked
        /\ status' = IF call = "init" THEN s ELSE FAILED

(* The condition of wear_leveling_consolidate_if_needed. *)
LogFull_offByOne(a) == a > LogEnd
LogFull(a) == a >= LogEnd

(* wear_leveling_consolidate_force up to the first sector of the erase. *)
ConsolidateForce ==
  /\ pc' = "erase"
  /\ cursor' = 0
  /\ erase_ok' = TRUE

-----------------------------------------------------------------------------
(* wear_leveling_init, from power-up to the start of log playback. *)

ReturnFailedInit ==
  /\ wear_leveling_clear_cache
  /\ Return(FAILED)
  /\ UNCHANGED store

wear_leveling_init ==
  /\ pc = "off"
  /\ \/ "init" \in Faults /\ ReturnFailedInit
     \/ "read" \in Faults /\ ReturnFailedInit
     \/ /\ \/ cache' = IF \A i \in 0..(ChecksumWords - 1) : checksum[i] = consolidated
                       THEN consolidated ELSE Zeros
           \* a failed read of the checksum goes unnoticed
           \/ "read" \in Faults /\ cache' = Zeros
        /\ write_address' = LogStart
        /\ pc' = "playback"
        /\ call' = "init"
        /\ cursor' = LogStart
        /\ UNCHANGED <<store, unlocked, acquired, erase_ok, entryVars, status, before>>

(* One iteration of wear_leveling_playback_log, which ends at a blank word, *)
(* at the end of the store, or with a forced consolidation.                 *)
PlaybackEnd_addressKept ==
  /\ pc = "playback"
  /\ cursor < LogEnd => wlog[cursor] = Blank
  /\ UNCHANGED <<store, cache, write_address>>
  /\ \/ /\ LogFull(cursor)
        /\ ConsolidateForce
        /\ UNCHANGED <<unlocked, call, acquired, entryVars, status, before>>
     \/ /\ ~LogFull(cursor)
        /\ Return(SUCCESS)
PlaybackEnd ==
  /\ pc = "playback"
  /\ cursor < LogEnd => wlog[cursor] = Blank
  /\ write_address' = cursor
  /\ UNCHANGED <<store, cache>>
  /\ \/ /\ LogFull(cursor)
        /\ ConsolidateForce
        /\ UNCHANGED <<unlocked, call, acquired, entryVars, status, before>>
     \/ /\ ~LogFull(cursor)
        /\ Return(SUCCESS)

PlaybackEntry ==
  /\ pc = "playback"
  /\ cursor < LogEnd
  /\ wlog[cursor] # Blank
  /\ \E far \in Beyond :
       LET e == Decode(EntryAt(cursor, far)) IN
         \/ /\ e.ok
            /\ cache' = Patch(cache, e.at, e.len, e.data)
            /\ cursor' = cursor + e.size
            /\ UNCHANGED <<write_address, pc, erase_ok>>
         \/ /\ ~e.ok
            /\ ConsolidateForce
            /\ write_address' = cursor + e.size
            /\ UNCHANGED cache
  /\ UNCHANGED <<store, unlocked, call, acquired, entryVars, status, before>>

(* The read of word k of an entry fails. *)
PlaybackReadFails ==
  /\ pc = "playback"
  /\ cursor < LogEnd
  /\ "read" \in Faults
  /\ \E k \in 0..3 :
       /\ \/ k = 0
          \/ wlog[cursor] # Blank /\ \E far \in Beyond : k < Decode(EntryAt(cursor, far)).size
       /\ write_address' = cursor + k
  /\ ConsolidateForce
  /\ UNCHANGED <<store, cache, unlocked, call, acquired, entryVars, status, before>>

-----------------------------------------------------------------------------
(* backing_store_erase, a sector at a time.  Internal flash goes on after a  *)
(* sector that cannot be erased, the SPI flash driver stops.                *)
EraseSector_restarted ==
  /\ pc = "erase"
  /\ cursor < SectorCount
  /\ \/ EraseOk(cursor) /\ cursor' = cursor + 1 /\ UNCHANGED erase_ok
     \/ EraseFails /\ cursor' = 0 /\ UNCHANGED <<store, erase_ok>>
  /\ UNCHANGED <<cache, write_address, unlocked, pc, call, acquired, entryVars, status, before>>
EraseSector ==
  /\ pc = "erase"
  /\ cursor < SectorCount
  /\ \/ EraseOk(cursor) /\ cursor' = cursor + 1 /\ UNCHANGED erase_ok
     \/ /\ EraseFails
        /\ cursor' = IF Device = "locking" THEN cursor + 1 ELSE SectorCount
        /\ erase_ok' = FALSE
        /\ UNCHANGED store
  /\ UNCHANGED <<cache, write_address, unlocked, pc, call, acquired, entryVars, status, before>>

(* What the callers of backing_store_erase do with its result.              *)
EraseReturns ==
  /\ pc = "erase"
  /\ cursor = SectorCount
  /\ UNCHANGED store
  /\ \/ /\ call = "erase"
        /\ wear_leveling_clear_cache
        /\ Return(IF erase_ok THEN SUCCESS ELSE FAILED)
     \/ /\ call = "init"
        /\ ~erase_ok
        /\ wear_leveling_clear_cache
        /\ Return(FAILED)
     \/ /\ call = "write"
        /\ ~erase_ok
        /\ UNCHANGED <<cache, write_address>>
        /\ Return(FAILED)
     \/ /\ call # "erase"
        /\ erase_ok
        /\ pc' = "consolidate"
        /\ cursor' = 0
        /\ \/ unlocked' = TRUE /\ acquired' = (acquired \/ ~unlocked)
           \/ "unlock" \in Faults /\ ~unlocked /\ UNCHANGED <<unlocked, acquired>>
        /\ UNCHANGED <<cache, write_address, call, erase_ok, entryVars, status, before>>

(* wear_leveling_write_consolidated: the data, then its checksum, word by   *)
(* word.  Its caller then puts the write address back to the log's start.   *)
ConsolidateFails ==
  /\ pc \in {"consolidate", "checksum"}
  /\ "write" \in Faults \/ ~Accepts
  /\ write_address' = LogStart
  /\ cache' = IF call = "init" THEN Zeros ELSE cache
  /\ Return(FAILED)
  /\ UNCHANGED store

ConsolidateWord ==
  /\ pc = "consolidate"
  /\ Accepts
  /\ consolidated' = [b \in LogicalBytes |->
                        IF b \div W = cursor THEN cache[b] ELSE consolidated[b]]
  /\ \/ /\ (cursor + 1) * W < WEAR_LEVELING_LOGICAL_SIZE
        /\ cursor' = cursor + 1
        /\ UNCHANGED pc
     \/ /\ (cursor + 1) * W >= WEAR_LEVELING_LOGICAL_SIZE
        /\ cursor' = 0
        /\ pc' = "checksum"
  /\ UNCHANGED <<checksum, wlog, cache, write_address, unlocked, call, acquired, erase_ok,
                 entryVars, status, before>>

ChecksumWord ==
  /\ pc = "checksum"
  /\ Accepts
  /\ checksum' = [checksum EXCEPT ![cursor] = cache]
  /\ UNCHANGED <<consolidated, wlog, cache>>
  /\ \/ /\ cursor + 1 < ChecksumWords
        /\ cursor' = cursor + 1
        /\ UNCHANGED <<write_address, unlocked, pc, call, acquired, erase_ok, entryVars, status,
                       before>>
     \/ /\ cursor + 1 = ChecksumWords
        /\ write_address' = LogStart
        /\ Return(CONSOLIDATED)

-----------------------------------------------------------------------------
(* wear_leveling_write up to wear_leveling_write_raw. *)
wear_leveling_write(r) ==
  LET inRange == r.address + r.length <= WEAR_LEVELING_LOGICAL_SIZE
      patched == Patch(cache, r.address, r.length, r.value)
  IN
  /\ pc = "idle"
  /\ write_address <= LogEnd + MaxOverrun
  /\ UNCHANGED <<store, write_address, cursor, erase_ok>>
  /\ \/ /\ ~inRange
        /\ status' = FAILED
        /\ UNCHANGED <<cache, unlocked, pc, call, acquired, entryVars, before>>
     \/ /\ inRange
        /\ patched = cache
        /\ status' = SUCCESS
        /\ UNCHANGED <<cache, unlocked, pc, call, acquired, entryVars, before>>
     \/ /\ inRange
        /\ patched # cache
        /\ "unlock" \in Faults
        /\ ~unlocked
        /\ cache' = patched
        /\ before' = patched
        /\ status' = FAILED
        /\ UNCHANGED <<unlocked, pc, call, acquired, entryVars>>
     \/ /\ inRange
        /\ patched # cache
        /\ cache' = patched
        /\ before' = cache
        /\ acquired' = ~unlocked
        /\ unlocked' = TRUE
        /\ pc' = "append"
        /\ call' = "write"
        /\ req' = r
        /\ UNCHANGED <<off, raw, size, sent, status>>

(* An iteration of the loop of wear_leveling_write_raw: the next log entry. *)
FitsWord01(a, remaining, p) ==
  /\ W = 2
  /\ remaining >= 2
  /\ a % 2 = 0
  /\ a < WORD_01_LIMIT
  /\ p[0] \in {0, 1}
  /\ p[1] = 0
FitsOptimized64(a) == W = 2 /\ a < OPTIMIZED_64_LIMIT
MultibyteLength(remaining) ==
  IF remaining >= LOG_ENTRY_MULTIBYTE_MAX_BYTES THEN LOG_ENTRY_MULTIBYTE_MAX_BYTES ELSE remaining

wear_leveling_write_raw ==
  LET a == req.address + off
      remaining == req.length - off
      p == [i \in 0..(remaining - 1) |-> req.value[off + i]]
      l == MultibyteLength(remaining)
  IN
  /\ pc = "append"
  /\ sent = size
  /\ remaining > 0
  /\ sent' = 0
  /\ \/ /\ FitsWord01(a, remaining, p)
        /\ raw' = LOG_ENTRY_MAKE_WORD_01(a, p[0])
        /\ size' = 1
        /\ off' = off + 2
     \/ /\ ~FitsWord01(a, remaining, p)
        /\ FitsOptimized64(a)
        /\ raw' = LOG_ENTRY_MAKE_OPTIMIZED_64(a, p[0])
        /\ size' = 1
        /\ off' = off + 1
     \/ /\ ~FitsWord01(a, remaining, p)
        /\ ~FitsOptimized64(a)
        /\ raw' = LOG_ENTRY_MAKE_MULTIBYTE(a, l, p)
        /\ size' = MultibyteWords(l)
        /\ off' = off + l
  /\ UNCHANGED <<store, cache, write_address, unlocked, pc, call, acquired, cursor, erase_ok, req,
                 status, before>>

(* wear_leveling_append_raw: program one word of the entry; a log that is   *)
(* now full is consolidated at once, and the rest of the write with it.     *)
wear_leveling_append_raw ==
  /\ pc = "append"
  /\ sent < size
  /\ WriteOk(write_address, EntryWord(raw, sent))
  /\ write_address' = write_address + 1
  /\ UNCHANGED <<consolidated, checksum, cache>>
  /\ \/ /\ LogFull(write_address + 1)
        /\ ConsolidateForce
        /\ EntryDone
        /\ UNCHANGED <<unlocked, call, acquired, status, before>>
     \/ /\ ~LogFull(write_address + 1)
        /\ sent + 1 < size \/ off < req.length
        /\ sent' = sent + 1
        /\ UNCHANGED <<unlocked, pc, call, acquired, cursor, erase_ok, req, off, raw, size, status,
                       before>>
     \/ /\ ~LogFull(write_address + 1)
        /\ sent + 1 = size
        /\ off = req.length
        /\ Return(SUCCESS)

AppendFails ==
  /\ pc = "append"
  /\ sent < size
  /\ WriteFails(write_address)
  /\ UNCHANGED <<store, cache, write_address>>
  /\ Return(FAILED)

wear_leveling_erase ==
  /\ pc = "idle"
  /\ UNCHANGED <<store, cache, write_address, entryVars, before>>
  /\ \/ /\ "unlock" \in Faults
        /\ ~unlocked
        /\ status' = FAILED
        /\ UNCHANGED <<unlocked, pc, call, acquired, cursor, erase_ok>>
     \/ /\ acquired' = ~unlocked
        /\ unlocked' = TRUE
        /\ call' = "erase"
        /\ ConsolidateForce
        /\ UNCHANGED status

(* Power is lost, or the controller is reset: between calls at any time,    *)
(* and with the "power" fault in the middle of a call too.  Only the store  *)
(* survives.                                                                *)
PowerLoss ==
  /\ pc # "off"
  /\ pc = "idle" \/ "power" \in Faults
  /\ pc' = "off"
  /\ call' = "none"
  /\ cache' = Zeros
  /\ before' = Zeros
  /\ write_address' = 0
  /\ unlocked' = FALSE
  /\ acquired' = FALSE
  /\ cursor' = 0
  /\ erase_ok' = TRUE
  /\ EntryDone
  /\ status' = SUCCESS
  /\ UNCHANGED store

-----------------------------------------------------------------------------
(* A blank chip, before wear_leveling_init. *)
Init ==
  /\ consolidated = Zeros
  /\ checksum = [i \in 0..(ChecksumWords - 1) |-> NoHash]
  /\ wlog = [a \in LogWords |-> Blank]
  /\ cache = Zeros
  /\ write_address = 0
  /\ unlocked = FALSE
  /\ pc = "off"
  /\ call = "none"
  /\ acquired = FALSE
  /\ cursor = 0
  /\ erase_ok = TRUE
  /\ req = NoRequest
  /\ off = 0
  /\ raw = ZeroRaw
  /\ size = 0
  /\ sent = 0
  /\ status = SUCCESS
  /\ before = Zeros

(* A step of the firmware inside a call. *)
Step ==
  \/ wear_leveling_init
  \/ PlaybackEnd
  \/ PlaybackEntry
  \/ PlaybackReadFails
  \/ EraseSector
  \/ EraseReturns
  \/ ConsolidateFails
  \/ ConsolidateWord
  \/ ChecksumWord
  \/ wear_leveling_write_raw
  \/ wear_leveling_append_raw
  \/ AppendFails

Next ==
  \/ Step
  \/ \E r \in Requests : wear_leveling_write(r)
  \/ wear_leveling_erase
  \/ PowerLoss

Spec == Init /\ [][Next]_vars

(* The firmware is one thread that runs a call to its end. *)
FairSpec == Spec /\ WF_vars(Step)

-----------------------------------------------------------------------------
(* What the next power-up would make of the store as it is now. *)

Keep == -1
NoChange == [b \in LogicalBytes |-> Keep]

(* The entries that playback may find at word a. *)
EntriesAt(a) == {Decode(EntryAt(a, far)) : far \in Beyond}

(* What an entry and the ones after it do to each byte: the last one wins.  *)
Then(e, later) ==
  [b \in LogicalBytes |->
     IF later[b] = Keep /\ e.at <= b /\ b < e.at + e.len THEN e.data[b - e.at] ELSE later[b]]

(* What playback from word a on may do to each byte: give it a value or     *)
(* keep it.                                                                 *)
ReplaysFrom[a \in LogStart..(LogEnd + 3)] ==
  IF a >= LogEnd THEN {NoChange}
  ELSE IF wlog[a] = Blank THEN {NoChange}
  ELSE UNION {IF e.ok THEN {Then(e, later) : later \in ReplaysFrom[a + e.size]} ELSE {NoChange}
              : e \in EntriesAt(a)}
Replays == ReplaysFrom[LogStart]

(* The consolidated data, if the checksum says that it is whole. *)
Base ==
  IF \A i \in 0..(ChecksumWords - 1) : checksum[i] = consolidated THEN consolidated ELSE Zeros

Over(c, r) == [b \in LogicalBytes |-> IF r[b] = Keep THEN c[b] ELSE r[b]]

(* The contents that power-up may come to.  They depend on what lies past   *)
(* the store only if the last entry of the log does.                        *)
Recoverable == {Over(Base, r) : r \in Replays}

-----------------------------------------------------------------------------
(* Type invariant. *)
TypeOK ==
  /\ consolidated \in Contents
  /\ checksum \in [0..(ChecksumWords - 1) -> Contents \cup {NoHash}]
  /\ wlog \in [LogWords -> Word]
  /\ cache \in Contents
  /\ write_address \in Nat
  /\ unlocked \in BOOLEAN
  /\ pc \in {"off", "playback", "idle", "append", "erase", "consolidate", "checksum"}
  /\ call \in {"none", "init", "write", "erase"}
  /\ acquired \in BOOLEAN
  /\ cursor \in Nat
  /\ erase_ok \in BOOLEAN
  /\ req \in Requests \cup {NoRequest}
  /\ off \in Nat
  /\ raw \in Raw8
  /\ size \in 0..ChecksumWords
  /\ sent \in 0..size
  /\ status \in {FAILED, SUCCESS, CONSOLIDATED}
  /\ before \in Contents

(* When no call is in progress, a power cycle brings back exactly what reads  *)
(* return now, whatever writes, consolidations and interrupted calls came     *)
(* before.                                                                    *)
Durable ==
  pc = "idle" => Recoverable = {cache}

(* Power lost while a write is appended to the log: with backing words of     *)
(* four or eight bytes, the first word of an entry holds its whole header, so *)
(* an entry that is cut short touches no byte outside the request.            *)
TornAppendConfined ==
  pc = "append" =>
    \A c \in Recoverable, b \in LogicalBytes :
       b < req.address \/ b >= req.address + req.length => c[b] = before[b]

(* While the consolidated area is rewritten a power-up yields all of the      *)
(* contents being written or an empty EEPROM, never a mixture: the checksum,  *)
(* which is written last, decides.                                            *)
ConsolidatedWholeOrEmpty ==
  pc \in {"consolidate", "checksum"} => Recoverable \subseteq {cache, Zeros}

(* The wear-leveling layer implements an EEPROM.  What an interrupted call    *)
(* leaves is decided by the power-up that follows it.                         *)
Recovered == CHOOSE c \in Recoverable : TRUE

EepromMode ==
  IF pc = "off" \/ call = "init" THEN "off" ELSE IF pc = "idle" THEN "on" ELSE "busy"
EepromMem ==
  IF pc \in {"off", "playback"} THEN Recovered
  ELSE IF call \in {"init", "none"} THEN cache ELSE before
EepromNew ==
  IF pc \in {"off", "playback"} THEN Recovered ELSE IF call = "erase" THEN Zeros ELSE cache

Memory ==
  INSTANCE Eeprom WITH
    Writes <- Requests, mode <- EepromMode, mem <- EepromMem, new <- EepromNew

ImplementsEeprom == Memory!Spec

(* The log is written in order and only where it is blank: between calls, and *)
(* while entries are appended, there is nothing at or after write_address.    *)
NothingAfterWriteAddress ==
  pc \in {"idle", "append"} =>
    \A a \in LogWords : a >= write_address => wlog[a] = Blank

(* wear_leveling_append_raw programs only words of the log: a log that has    *)
(* become full is consolidated before anything else is written.               *)
WriteInBounds ==
  pc = "append" => write_address \in LogWords

(* Playback reads only words of the store (the test double of the store       *)
(* rejects an address past its end).                                          *)
ReadInBounds ==
  pc = "playback" /\ cursor < LogEnd /\ wlog[cursor] # Blank =>
    \A far \in Beyond : cursor + Decode(EntryAt(cursor, far)).size <= LogEnd

(* A power-up whose playback ends in a forced consolidation keeps what it has *)
(* read so far.                                                               *)
ForcedConsolidationKeepsData ==
  [][call = "init" /\ pc = "erase" /\ pc' # "off" => cache' = cache]_vars

(* The store is unlocked only during a call of wear_leveling_write or         *)
(* wear_leveling_erase, or while the consolidated area is written, and the    *)
(* call that unlocked it locks it again.                                      *)
LockedBetweenCalls ==
  /\ unlocked = acquired
  /\ pc \in {"off", "idle", "playback"} => ~unlocked

(* Every call returns. *)
CallsReturn == (pc # "idle") ~> (pc = "idle")
=============================================================================
