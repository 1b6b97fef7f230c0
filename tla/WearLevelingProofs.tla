------------------------- MODULE WearLevelingProofs -------------------------
(***************************************************************************)
(* Theorems about WearLeveling, for every geometry, every request set and  *)
(* every combination of faults that the theorem's hypothesis allows.       *)
(***************************************************************************)
EXTENDS WearLeveling, NumberLemmas, TLAPS

-----------------------------------------------------------------------------
(* The geometry. *)

(* The log starts after the consolidated area and its checksum, and is not  *)
(* empty.                                                                   *)
LEMMA Geometry ==
  /\ LogStart \in Nat
  /\ LogEnd \in Nat
  /\ LogStart < LogEnd
  /\ ChecksumWords \in 1..4
  /\ SectorCount \in Nat
PROOF
  <1>1. CASE W = 2
    BY <1>1, WearLevelingAssumption, SMT DEF LogStart, LogEnd, ChecksumWords, SectorCount
  <1>2. CASE W = 4
    BY <1>2, WearLevelingAssumption, SMT DEF LogStart, LogEnd, ChecksumWords, SectorCount
  <1>3. CASE W = 8
    BY <1>3, WearLevelingAssumption, SMT DEF LogStart, LogEnd, ChecksumWords, SectorCount
  <1> QED BY <1>1, <1>2, <1>3, WearLevelingAssumption

-----------------------------------------------------------------------------
(* Log entries. *)

LEMMA BlankType == Blank \in Word
  BY DEF Blank, Word, Byte

LEMMA ZerosType == Zeros \in Contents
  BY DEF Zeros, Contents, Byte

LEMMA ZeroRawType == ZeroRaw \in Raw8
  BY DEF ZeroRaw, Raw8, Byte

LEMMA BitOrType == ASSUME NEW x \in Byte, NEW y \in Byte PROVE BitOr(x, y) \in Byte
PROOF
  <1> DEFINE B(n) == Bit(x, y, n)
             low == B(1) + B(2) + B(4) + B(8)
             middle == low + B(16) + B(32)
  <1>1. B(1) \in 0..1 /\ B(2) \in 0..2 /\ B(4) \in 0..4 /\ B(8) \in 0..8
    BY DEF Bit
  <1>2. B(16) \in 0..16 /\ B(32) \in 0..32 /\ B(64) \in 0..64 /\ B(128) \in 0..128
    BY DEF Bit
  <1> HIDE DEF B
  <1>3. low \in 0..15
    BY <1>1
  <1> HIDE DEF low
  <1>4. middle \in 0..63
    BY <1>2, <1>3
  <1> HIDE DEF middle
  <1>5. ASSUME NEW p \in 0..63, NEW q \in 0..64, NEW r \in 0..128
        PROVE  p + q + r \in 0..255
    OBVIOUS
  <1>6. middle + B(64) + B(128) \in 0..255
    BY <1>2, <1>4, <1>5
  <1> QED BY <1>6, Zenon DEF BitOr, Byte, middle, low, B

LEMMA MultibyteWordsType ==
  ASSUME NEW length \in 0..7
  PROVE  MultibyteWords(length) \in 1..4 /\ MultibyteWords(length) \in 1..ChecksumWords
PROOF
  <1>1. CASE W = 2  BY <1>1 DEF MultibyteWords, ChecksumWords
  <1>2. CASE W = 4  BY <1>2 DEF MultibyteWords, ChecksumWords
  <1>3. CASE W = 8  BY <1>3 DEF MultibyteWords, ChecksumWords
  <1> QED BY <1>1, <1>2, <1>3, WearLevelingAssumption

LEMMA EntryWordType ==
  ASSUME NEW entry \in Raw8, NEW k \in 0..(ChecksumWords - 1)
  PROVE  EntryWord(entry, k) \in Word
PROOF
  <1>1. ASSUME NEW i \in 0..(W - 1) PROVE (k * W) + i \in 0..9
    <2>1. CASE W = 2  BY <1>1, <2>1 DEF ChecksumWords
    <2>2. CASE W = 4  BY <1>1, <2>2 DEF ChecksumWords
    <2>3. CASE W = 8  BY <1>1, <2>3 DEF ChecksumWords
    <2> QED BY <2>1, <2>2, <2>3, WearLevelingAssumption
  <1>2. ASSUME NEW i \in 0..(W - 1) PROVE entry[(k * W) + i] \in Byte
    BY <1>1 DEF Raw8
  <1> QED BY <1>2 DEF EntryWord, Word

(* What playback makes of any eight bytes. *)
DecodedEntry ==
  [ok : BOOLEAN, at : Nat, len : 0..7, data : [0..6 -> Byte], size : 1..4]

LEMMA DecodeType == ASSUME NEW entry \in Raw8 PROVE Decode(entry) \in DecodedEntry
PROOF
  <1>0. \A i \in 0..9 : entry[i] \in Byte
    BY DEF Raw8
  <1>b. entry[0] \in 0..255 /\ entry[1] \in 0..255 /\ entry[2] \in 0..255
    BY <1>0 DEF Byte
  <1>a. entry[0] % 8 \in 0..31 /\ entry[0] % 32 \in 0..31
    BY <1>b
  <1>c. ASSUME NEW x \in 0..31, NEW y \in 0..255
        PROVE  ((x * 256) + y) * 2 \in Nat
    OBVIOUS
  <1>d. ASSUME NEW x \in 0..31, NEW y \in 0..255, NEW z \in 0..255
        PROVE  (((x * 256) + y) * 256) + z \in Nat
    OBVIOUS
  <1>1. Multibyte(entry) \in DecodedEntry
    <2>1. LOG_ENTRY_MULTIBYTE_GET_ADDRESS(entry) \in Nat
      BY <1>a, <1>b, <1>d DEF LOG_ENTRY_MULTIBYTE_GET_ADDRESS
    <2>2. LOG_ENTRY_MULTIBYTE_GET_LENGTH(entry) \in 0..7
      BY <1>0 DEF LOG_ENTRY_MULTIBYTE_GET_LENGTH, Byte
    <2>3. MultibyteWords(LOG_ENTRY_MULTIBYTE_GET_LENGTH(entry)) \in 1..4
      BY <2>2, MultibyteWordsType
    <2>4. [i \in 0..6 |-> entry[3 + i]] \in [0..6 -> Byte]
      BY <1>0
    <2> QED BY <2>1, <2>2, <2>3, <2>4 DEF Multibyte, DecodedEntry
  <1>2. Optimized64(entry) \in DecodedEntry
    <2>1. LOG_ENTRY_OPTIMIZED_64_GET_ADDRESS(entry) \in Nat
      BY <1>0 DEF LOG_ENTRY_OPTIMIZED_64_GET_ADDRESS, Byte
    <2>2. LOG_ENTRY_OPTIMIZED_64_GET_VALUE(entry) \in Byte
      BY <1>0 DEF LOG_ENTRY_OPTIMIZED_64_GET_VALUE
    <2> QED BY <2>1, <2>2 DEF Optimized64, DecodedEntry
  <1>3. Word01(entry) \in DecodedEntry
    <2>1. LOG_ENTRY_WORD_01_GET_ADDRESS(entry) \in Nat
      BY <1>a, <1>b, <1>c DEF LOG_ENTRY_WORD_01_GET_ADDRESS
    <2>2. LOG_ENTRY_WORD_01_GET_VALUE(entry) \in Byte
      BY <1>0 DEF LOG_ENTRY_WORD_01_GET_VALUE, Byte
    <2>3. [i \in 0..6 |-> IF i = 0 THEN LOG_ENTRY_WORD_01_GET_VALUE(entry) ELSE 0]
            \in [0..6 -> Byte]
      BY <2>2 DEF Byte
    <2> QED BY <2>1, <2>3 DEF Word01, DecodedEntry
  <1>4. BadEntry \in DecodedEntry
    BY DEF BadEntry, DecodedEntry, Byte
  <1> QED BY <1>1, <1>2, <1>3, <1>4 DEF Decode

LEMMA PatchType ==
  ASSUME NEW c \in Contents, NEW at \in Nat, NEW len \in Nat,
         NEW data, \A i \in 0..(len - 1) : data[i] \in Byte
  PROVE  Patch(c, at, len, data) \in Contents
  BY DEF Patch, Contents, LogicalBytes

LEMMA EntryAtType ==
  ASSUME NEW a \in LogWords, NEW far \in Word, wlog \in [LogWords -> Word]
  PROVE  EntryAt(a, far) \in Raw8
PROOF
  <1> SUFFICES ASSUME NEW i \in 0..9 PROVE EntryAt(a, far)[i] \in Byte
    BY DEF EntryAt, Raw8
  <1> DEFINE w == a + (i \div W)
  <1>1. i \div W \in Nat /\ i % W \in 0..(W - 1)
    BY WearLevelingAssumption
  <1>2. w < LogEnd => w \in LogWords
    BY <1>1, Geometry DEF LogWords
  <1>3. far[i % W] \in Byte
    BY <1>1 DEF Word
  <1>4. w < LogEnd => wlog[w][i % W] \in Byte
    BY <1>1, <1>2 DEF Word
  <1> QED BY <1>3, <1>4 DEF EntryAt

LEMMA MakeMultibyteType ==
  ASSUME NEW a \in Nat, NEW l \in 0..5, NEW n \in Nat, l <= n, NEW p \in [0..(n - 1) -> Byte]
  PROVE  LOG_ENTRY_MAKE_MULTIBYTE(a, l, p) \in Raw8
PROOF
  <1>1. ((l % 8) * 8) + ((a \div 65536) % 8) \in Byte
    BY DEF Byte
  <1>2. (a \div 256) % 256 \in Byte /\ a % 256 \in Byte
    BY DEF Byte
  <1>3. ASSUME NEW i \in 3..9 PROVE (IF i - 3 < l THEN p[i - 3] ELSE 0) \in Byte
    <2>1. i - 3 < l => i - 3 \in 0..(n - 1)
      OBVIOUS
    <2> QED BY <2>1 DEF Byte
  <1>4. \A i \in 0..9 : i = 0 \/ i = 1 \/ i = 2 \/ i \in 3..9
    OBVIOUS
  <1> QED BY <1>1, <1>2, <1>3, <1>4 DEF LOG_ENTRY_MAKE_MULTIBYTE, Raw8

LEMMA MakeOptimized64Type ==
  ASSUME NEW a \in Nat, NEW v \in Byte PROVE LOG_ENTRY_MAKE_OPTIMIZED_64(a, v) \in Raw8
PROOF
  <1>1. 64 + (a % 64) \in Byte
    BY DEF Byte
  <1> QED BY <1>1, ZeroRawType DEF LOG_ENTRY_MAKE_OPTIMIZED_64, Raw8

LEMMA MakeWord01Type ==
  ASSUME NEW a \in Nat, NEW v \in Byte PROVE LOG_ENTRY_MAKE_WORD_01(a, v) \in Raw8
PROOF
  <1>1. 128 + (IF v # 0 THEN 32 ELSE 0) + ((a \div 512) % 32) \in Byte
    BY DEF Byte
  <1>2. (a \div 2) % 256 \in Byte
    BY DEF Byte
  <1> QED BY <1>1, <1>2, ZeroRawType DEF LOG_ENTRY_MAKE_WORD_01, Raw8

-----------------------------------------------------------------------------
(* Type correctness.  What each loop works on is part of the invariant: an  *)
(* append has a request, and playback is inside or past the log.            *)
TypeInv ==
  /\ TypeOK
  /\ pc = "append" => req \in Requests
  /\ pc = "playback" => cursor >= LogStart

StoreType ==
  /\ consolidated \in Contents
  /\ checksum \in [0..(ChecksumWords - 1) -> Contents \cup {NoHash}]
  /\ wlog \in [LogWords -> Word]

LEMMA ReturnType ==
  ASSUME TypeInv, NEW s \in {FAILED, SUCCESS, CONSOLIDATED}, Return(s),
         StoreType', cache' \in Contents, write_address' \in Nat
  PROVE  TypeInv'
PROOF
  <1>1. unlocked' \in BOOLEAN /\ status' \in {FAILED, SUCCESS, CONSOLIDATED}
    BY DEF TypeInv, TypeOK, Return
  <1>2. acquired' \in BOOLEAN /\ erase_ok' \in BOOLEAN
    BY Zenon DEF Return
  <1> QED BY <1>1, <1>2, Geometry, ZeroRawType DEF TypeInv, TypeOK, StoreType, Return, EntryDone

LEMMA RequestType ==
  ASSUME NEW r \in Requests
  PROVE  r.address \in Nat /\ r.length \in Nat /\ r.value \in [0..(r.length - 1) -> Byte]
  BY WearLevelingAssumption

LEMMA InitType == Init => TypeInv
PROOF
  <1> SUFFICES ASSUME Init PROVE TypeInv
    OBVIOUS
  <1>1. unlocked \in BOOLEAN /\ acquired \in BOOLEAN /\ erase_ok \in BOOLEAN
    BY Zenon DEF Init
  <1>2. StoreType
    BY ZerosType, BlankType DEF Init, StoreType
  <1> QED BY <1>1, <1>2, Geometry, ZerosType, ZeroRawType
        DEF Init, TypeInv, TypeOK, StoreType, SUCCESS

LEMMA NextType == TypeInv /\ [Next]_vars => TypeInv'
PROOF
  <1> SUFFICES ASSUME TypeInv, [Next]_vars PROVE TypeInv'
    OBVIOUS
  <1> USE Geometry, ZerosType, ZeroRawType, BlankType
  <1> USE DEF FAILED, SUCCESS, CONSOLIDATED
  <1>0. StoreType
    BY DEF TypeInv, TypeOK, StoreType
  <1>s. UNCHANGED store => StoreType'
    BY <1>0 DEF StoreType, store
  <1>1. CASE wear_leveling_init
    <2>1. CASE ReturnFailedInit
      BY <2>1, <1>s, ReturnType DEF ReturnFailedInit, wear_leveling_clear_cache
    <2>2. CASE ~ReturnFailedInit
      <3>1. cache' \in Contents /\ write_address' = LogStart /\ cursor' = LogStart
        BY <1>1, <2>2 DEF wear_leveling_init, TypeInv, TypeOK
      <3> QED BY <1>1, <2>2, <3>1
            DEF wear_leveling_init, TypeInv, TypeOK, store, entryVars
    <2> QED BY <2>1, <2>2
  <1>2. CASE PlaybackEnd
    <2>1. StoreType' /\ cache' \in Contents /\ write_address' \in Nat
      BY <1>2, <1>s DEF PlaybackEnd, TypeInv, TypeOK
    <2>2. CASE LogFull(cursor)
      BY <1>2, <2>1, <2>2
        DEF PlaybackEnd, ConsolidateForce, TypeInv, TypeOK, entryVars, StoreType
    <2>3. CASE ~LogFull(cursor)
      BY <1>2, <2>1, <2>3, ReturnType DEF PlaybackEnd
    <2> QED BY <2>2, <2>3
  <1>3. CASE PlaybackEntry
    <2> cursor \in LogWords
      BY <1>3 DEF PlaybackEntry, TypeInv, TypeOK, LogWords
    <2>1. PICK far \in Beyond :
            LET e == Decode(EntryAt(cursor, far)) IN
              \/ /\ e.ok
                 /\ cache' = Patch(cache, e.at, e.len, e.data)
                 /\ cursor' = cursor + e.size
                 /\ UNCHANGED <<write_address, pc, erase_ok>>
              \/ /\ ~e.ok
                 /\ ConsolidateForce
                 /\ write_address' = cursor + e.size
                 /\ UNCHANGED cache
      BY <1>3 DEF PlaybackEntry
    <2> DEFINE e == Decode(EntryAt(cursor, far))
    <2>2. e \in DecodedEntry
      BY EntryAtType, DecodeType, WearLevelingAssumption DEF TypeInv, TypeOK
    <2>3. e.at \in Nat /\ e.len \in 0..7 /\ e.data \in [0..6 -> Byte] /\ e.size \in 1..4
      BY <2>2 DEF DecodedEntry
    <2>4. Patch(cache, e.at, e.len, e.data) \in Contents
      <3> HIDE DEF e
      <3>1. cache \in Contents
        BY DEF TypeInv, TypeOK
      <3>2. e.len \in Nat /\ \A i \in 0..(e.len - 1) : e.data[i] \in Byte
        BY <2>3
      <3> QED BY <2>3, <3>1, <3>2, PatchType
    <2> HIDE DEF e
    <2>5. cache' \in Contents
      BY <2>1, <2>4 DEF TypeInv, TypeOK, e
    <2>6. /\ cursor' \in Nat /\ write_address' \in Nat
          /\ pc' = "erase" \/ (pc' = "playback" /\ cursor' >= LogStart)
      <3>1. \/ /\ cursor' = cursor + e.size
               /\ UNCHANGED <<write_address, pc>>
            \/ ConsolidateForce /\ write_address' = cursor + e.size
        BY <2>1 DEF e
      <3>2. /\ cursor \in Nat /\ write_address \in Nat
            /\ pc = "playback" /\ cursor >= LogStart /\ e.size \in Nat
        BY <1>3, <2>3 DEF PlaybackEntry, TypeInv, TypeOK
      <3> QED BY <3>1, <3>2 DEF ConsolidateForce
    <2>7. erase_ok' \in BOOLEAN
      BY <2>1, Zenon DEF ConsolidateForce, TypeInv, TypeOK
    <2> QED BY <1>3, <2>5, <2>6, <2>7 DEF PlaybackEntry, TypeInv, TypeOK, store, entryVars
  <1>4. CASE PlaybackReadFails
    BY <1>4 DEF PlaybackReadFails, ConsolidateForce, TypeInv, TypeOK, store, entryVars
  <1>5. CASE EraseSector
    <2>1. StoreType'
      <3>1. CASE EraseOk(cursor)
        BY <3>1, <1>0 DEF EraseOk, StoreType, Contents, Byte
      <3>2. CASE ~EraseOk(cursor)
        BY <1>5, <3>2, <1>s DEF EraseSector
      <3> QED BY <3>1, <3>2
    <2>2. cursor' \in Nat
      BY <1>5 DEF EraseSector, TypeInv, TypeOK
    <2>3. erase_ok' \in BOOLEAN
      BY <1>5, Zenon DEF EraseSector, TypeInv, TypeOK
    <2> QED BY <1>5, <2>1, <2>2, <2>3 DEF EraseSector, TypeInv, TypeOK, entryVars, StoreType
  <1>6. CASE EraseReturns
    <2>1. StoreType'
      BY <1>6, <1>s DEF EraseReturns
    <2>2. CASE pc' = "consolidate"
      <3>1. /\ cursor' = 0
            /\ UNCHANGED <<cache, write_address, call, erase_ok, entryVars, status, before>>
            /\ \/ unlocked' = TRUE /\ acquired' = (acquired \/ ~unlocked)
               \/ UNCHANGED <<unlocked, acquired>>
        BY <1>6, <2>2 DEF EraseReturns, Return
      <3>2. unlocked' \in BOOLEAN /\ acquired' \in BOOLEAN
        BY <3>1, Zenon DEF TypeInv, TypeOK
      <3> QED BY <2>1, <2>2, <3>1, <3>2 DEF TypeInv, TypeOK, entryVars, StoreType
    <2>3. CASE pc' # "consolidate"
      <3>1. PICK s \in {FAILED, SUCCESS} : Return(s)
        BY <1>6, <2>3 DEF EraseReturns
      <3>2. cache' \in Contents /\ write_address' \in Nat
        BY <1>6, <2>3 DEF EraseReturns, wear_leveling_clear_cache, TypeInv, TypeOK
      <3> QED BY <2>1, <3>1, <3>2, ReturnType
    <2> QED BY <2>2, <2>3
  <1>7. CASE ConsolidateFails
    <2>1. cache' \in Contents /\ write_address' \in Nat
      BY <1>7 DEF ConsolidateFails, TypeInv, TypeOK
    <2> QED BY <1>7, <2>1, <1>s, ReturnType DEF ConsolidateFails
  <1>8. CASE ConsolidateWord
    <2>1. consolidated' \in Contents
      BY <1>8 DEF ConsolidateWord, TypeInv, TypeOK, Contents
    <2> QED BY <1>8, <2>1 DEF ConsolidateWord, TypeInv, TypeOK, entryVars
  <1>9. CASE ChecksumWord
    <2>1. StoreType' /\ cache' \in Contents
      BY <1>9, <1>0 DEF ChecksumWord, TypeInv, TypeOK, StoreType
    <2>2. CASE cursor + 1 < ChecksumWords
      BY <1>9, <2>1, <2>2 DEF ChecksumWord, TypeInv, TypeOK, StoreType, entryVars
    <2>3. CASE cursor + 1 = ChecksumWords
      BY <1>9, <2>1, <2>3, ReturnType DEF ChecksumWord, TypeInv, TypeOK
    <2> QED BY <1>9, <2>2, <2>3 DEF ChecksumWord
  <1>10. CASE wear_leveling_write_raw
    <2> DEFINE a == req.address + off
               remaining == req.length - off
               p == [i \in 0..(remaining - 1) |-> req.value[off + i]]
               l == MultibyteLength(remaining)
    <2>1. req \in Requests /\ off \in Nat /\ remaining > 0
      BY <1>10 DEF wear_leveling_write_raw, TypeInv, TypeOK
    <2>2. /\ a \in Nat /\ remaining \in Nat /\ l \in 0..5 /\ l \in 0..7 /\ l <= remaining
      BY <2>1, RequestType DEF MultibyteLength, LOG_ENTRY_MULTIBYTE_MAX_BYTES
    <2>3. p \in [0..(remaining - 1) -> Byte]
      BY <2>1, RequestType
    <2>4. p[0] \in Byte
      BY <2>1, <2>2, <2>3
    <2> HIDE DEF a, remaining, p, l
    <2>5. /\ LOG_ENTRY_MAKE_WORD_01(a, p[0]) \in Raw8
          /\ LOG_ENTRY_MAKE_OPTIMIZED_64(a, p[0]) \in Raw8
          /\ LOG_ENTRY_MAKE_MULTIBYTE(a, l, p) \in Raw8
      BY <2>2, <2>3, <2>4, MakeWord01Type, MakeOptimized64Type, MakeMultibyteType
    <2>7. MultibyteWords(l) \in 1..ChecksumWords
      BY <2>2, MultibyteWordsType
    <2>6. raw' \in Raw8 /\ size' \in 1..ChecksumWords /\ off' \in Nat /\ sent' = 0
      BY <1>10, <2>1, <2>2, <2>5, <2>7 DEF wear_leveling_write_raw, a, remaining, p, l
    <2> QED BY <1>10, <2>6 DEF wear_leveling_write_raw, TypeInv, TypeOK, store
  <1>11. CASE wear_leveling_append_raw
    <2>1. StoreType'
      <3> DEFINE word == EntryWord(raw, sent)
      <3>1. word \in Word
        <4>1. sent \in 0..(ChecksumWords - 1)
          BY <1>11 DEF wear_leveling_append_raw, TypeInv, TypeOK
        <4> QED BY <4>1, EntryWordType DEF TypeInv, TypeOK
      <3> HIDE DEF word
      <3>2. ASSUME NEW x \in LogWords
            PROVE  [i \in 0..(W - 1) |-> BitOr(wlog[x][i], word[i])] \in Word
        BY <3>1, BitOrType DEF TypeInv, TypeOK, Word
      <3>3. wlog' \in [LogWords -> Word]
        BY <1>11, <3>2 DEF wear_leveling_append_raw, WriteOk, TypeInv, TypeOK, word
      <3> QED BY <1>11, <1>0, <3>3 DEF wear_leveling_append_raw, StoreType
    <2>2. cache' \in Contents /\ write_address' \in Nat
      BY <1>11 DEF wear_leveling_append_raw, TypeInv, TypeOK
    <2>3. CASE Return(SUCCESS)
      BY <2>1, <2>2, <2>3, ReturnType
    <2>4. CASE ConsolidateForce /\ EntryDone /\ UNCHANGED <<unlocked, call, acquired, status, before>>
      BY <2>1, <2>2, <2>4 DEF ConsolidateForce, EntryDone, TypeInv, TypeOK, StoreType
    <2>5. CASE /\ sent' = sent + 1
               /\ UNCHANGED <<unlocked, pc, call, acquired, cursor, erase_ok, req, off, raw, size,
                              status, before>>
      BY <1>11, <2>1, <2>2, <2>5 DEF wear_leveling_append_raw, TypeInv, TypeOK, StoreType
    <2> QED BY <1>11, <2>3, <2>4, <2>5 DEF wear_leveling_append_raw
  <1>12. CASE AppendFails
    BY <1>12, <1>s, ReturnType DEF AppendFails, TypeInv, TypeOK
  <1>13. ASSUME NEW r \in Requests, wear_leveling_write(r) PROVE TypeInv'
    <2>1. Patch(cache, r.address, r.length, r.value) \in Contents
      <3>1. /\ cache \in Contents /\ r.address \in Nat /\ r.length \in Nat
            /\ r.value \in [0..(r.length - 1) -> Byte]
        BY RequestType DEF TypeInv, TypeOK
      <3>2. \A i \in 0..(r.length - 1) : r.value[i] \in Byte
        BY <3>1
      <3> QED BY <3>1, <3>2, PatchType
    <2>2. cache' \in Contents /\ before' \in Contents
      BY <1>13, <2>1 DEF wear_leveling_write, TypeInv, TypeOK
    <2> QED BY <1>13, <2>2 DEF wear_leveling_write, TypeInv, TypeOK, store, entryVars
  <1>14. CASE wear_leveling_erase
    <2>1. unlocked' \in BOOLEAN /\ acquired' \in BOOLEAN /\ erase_ok' \in BOOLEAN
      BY <1>14, Zenon DEF wear_leveling_erase, ConsolidateForce, TypeInv, TypeOK
    <2> QED BY <1>14, <2>1
          DEF wear_leveling_erase, ConsolidateForce, TypeInv, TypeOK, store, entryVars
  <1>15. CASE PowerLoss
    <2>1. unlocked' \in BOOLEAN /\ acquired' \in BOOLEAN /\ erase_ok' \in BOOLEAN
      BY <1>15, Zenon DEF PowerLoss
    <2>2. StoreType'
      BY <1>15, <1>s DEF PowerLoss
    <2> QED BY <1>15, <2>1, <2>2 DEF PowerLoss, EntryDone, TypeInv, TypeOK, StoreType
  <1>16. CASE UNCHANGED vars
    BY <1>16 DEF vars, TypeInv, TypeOK
  <1> QED BY <1>1, <1>2, <1>3, <1>4, <1>5, <1>6, <1>7, <1>8, <1>9, <1>10, <1>11, <1>12,
             <1>13, <1>14, <1>15, <1>16 DEF Next, Step

(* Every reachable state is well-typed: in particular whatever a torn or    *)
(* overwritten log decodes to, playback stays inside the cache.             *)
THEOREM TypeCorrectness == Spec => []TypeOK
PROOF
  <1>1. Spec => []TypeInv
    BY InitType, NextType, PTL DEF Spec
  <1>2. TypeInv => TypeOK
    BY DEF TypeInv
  <1> QED BY <1>1, <1>2, PTL

-----------------------------------------------------------------------------
(* The write address.  A store that can be erased never makes the layer     *)
(* program a word outside the log.  Between calls the address is inside the *)
(* log because a call that fills it does not return before it has           *)
(* consolidated, and the erase of a write cannot fail: the write holds the  *)
(* store unlocked.                                                          *)
BoundsInv ==
  /\ pc \in {"idle", "append"} => write_address \in LogWords
  /\ pc = "append" => call = "write" /\ unlocked
  /\ pc = "erase" => call # "none"
  /\ pc = "erase" /\ call = "write" => unlocked /\ erase_ok
  /\ pc = "playback" => call = "init"
  /\ pc \in {"consolidate", "checksum"} => call \in {"init", "write"}

LEMMA NextBounds ==
  ASSUME "erase" \notin Faults, TypeInv, BoundsInv, [Next]_vars
  PROVE  BoundsInv'
PROOF
  <1> USE Geometry
  <1>1. CASE wear_leveling_init
    BY <1>1 DEF wear_leveling_init, ReturnFailedInit, Return, wear_leveling_clear_cache,
         BoundsInv, LogWords
  <1>2. CASE PlaybackEnd
    BY <1>2 DEF PlaybackEnd, ConsolidateForce, Return, LogFull, BoundsInv, TypeInv, TypeOK, LogWords
  <1>3. CASE PlaybackEntry
    BY <1>3 DEF PlaybackEntry, ConsolidateForce, BoundsInv
  <1>4. CASE PlaybackReadFails
    BY <1>4 DEF PlaybackReadFails, ConsolidateForce, BoundsInv
  <1>5. CASE EraseSector
    BY <1>5 DEF EraseSector, EraseFails, Accepts, BoundsInv
  <1>6. CASE EraseReturns
    <2>1. ~(call = "write" /\ ~erase_ok)
      BY <1>6, Zenon DEF EraseReturns, BoundsInv
    <2>2. \/ pc' = "idle" /\ write_address' = LogStart
          \/ pc' = "consolidate" /\ call' = call /\ call # "erase"
      BY <1>6, <2>1 DEF EraseReturns, wear_leveling_clear_cache, Return
    <2>3. call \in {"none", "init", "write", "erase"} /\ (pc = "erase" => call # "none")
      BY DEF TypeInv, TypeOK, BoundsInv
    <2> QED BY <1>6, <2>2, <2>3 DEF EraseReturns, BoundsInv, LogWords
  <1>7. CASE ConsolidateFails
    BY <1>7 DEF ConsolidateFails, Return, BoundsInv, LogWords
  <1>8. CASE ConsolidateWord
    BY <1>8 DEF ConsolidateWord, BoundsInv
  <1>9. CASE ChecksumWord
    BY <1>9 DEF ChecksumWord, Return, BoundsInv, LogWords
  <1>10. CASE wear_leveling_write_raw
    BY <1>10 DEF wear_leveling_write_raw, BoundsInv
  <1>11. CASE wear_leveling_append_raw
    <2>0. \/ ConsolidateForce /\ pc' = "erase" /\ UNCHANGED <<call, unlocked>>
          \/ pc' = "idle" /\ ~LogFull(write_address + 1)
          \/ UNCHANGED <<pc, call, unlocked>> /\ ~LogFull(write_address + 1)
      BY <1>11 DEF wear_leveling_append_raw, ConsolidateForce, Return
    <2>a. ConsolidateForce => erase_ok'
      BY Zenon DEF ConsolidateForce
    <2>b. call = "write" /\ unlocked
      BY <1>11 DEF wear_leveling_append_raw, BoundsInv
    <2>1. \/ pc' = "erase" /\ call' = "write" /\ unlocked' /\ erase_ok'
          \/ pc' = "idle" /\ ~LogFull(write_address + 1)
          \/ UNCHANGED <<pc, call, unlocked>> /\ ~LogFull(write_address + 1)
      BY <2>0, <2>a, <2>b
    <2>2. write_address \in LogWords /\ write_address' = write_address + 1
      BY <1>11 DEF wear_leveling_append_raw, BoundsInv
    <2>3. ~LogFull(write_address + 1) => write_address' \in LogWords
      BY <2>2 DEF LogFull, LogWords
    <2> QED BY <1>11, <2>1, <2>3 DEF wear_leveling_append_raw, BoundsInv
  <1>12. CASE AppendFails
    BY <1>12 DEF AppendFails, Return, BoundsInv
  <1>13. ASSUME NEW r \in Requests, wear_leveling_write(r) PROVE BoundsInv'
    BY <1>13 DEF wear_leveling_write, BoundsInv
  <1>14. CASE wear_leveling_erase
    BY <1>14 DEF wear_leveling_erase, ConsolidateForce, BoundsInv
  <1>15. CASE PowerLoss
    BY <1>15 DEF PowerLoss, BoundsInv
  <1>16. CASE UNCHANGED vars
    BY <1>16 DEF vars, BoundsInv
  <1> QED BY <1>1, <1>2, <1>3, <1>4, <1>5, <1>6, <1>7, <1>8, <1>9, <1>10, <1>11, <1>12,
             <1>13, <1>14, <1>15, <1>16 DEF Next, Step

(* With a store that can be erased, wear_leveling_append_raw programs only  *)
(* words of the log, through power losses, failing writes and failing       *)
(* locks.                                                                   *)
THEOREM WritesStayInLog ==
  ASSUME "erase" \notin Faults
  PROVE  Spec => []WriteInBounds
PROOF
  <1>1. Init => TypeInv /\ BoundsInv
    BY InitType DEF Init, BoundsInv
  <1>2. TypeInv /\ BoundsInv /\ [Next]_vars => (TypeInv /\ BoundsInv)'
    BY NextType, NextBounds
  <1>3. TypeInv /\ BoundsInv => WriteInBounds
    BY DEF BoundsInv, WriteInBounds
  <1> QED BY <1>1, <1>2, <1>3, PTL DEF Spec

-----------------------------------------------------------------------------
(* Locking.  The only call that can leave the store unlocked is one whose   *)
(* backing_store_lock fails.                                                *)
LEMMA NextLocked ==
  ASSUME "lock" \notin Faults, TypeInv, LockedBetweenCalls, [Next]_vars
  PROVE  LockedBetweenCalls'
PROOF
  <1>t. unlocked \in BOOLEAN /\ acquired \in BOOLEAN
    BY DEF TypeInv, TypeOK
  <1>r. ASSUME NEW s, Return(s) PROVE LockedBetweenCalls'
    <2>1. unlocked' = (unlocked /\ ~acquired) /\ acquired' = FALSE
      BY <1>r DEF Return
    <2>2. unlocked' = FALSE
      BY <2>1, <1>t, Zenon DEF LockedBetweenCalls
    <2> QED BY <2>1, <2>2, Zenon DEF LockedBetweenCalls
  <1>u. ASSUME unlocked' = unlocked, acquired' = acquired,
               pc' \in {"off", "idle", "playback"} => ~unlocked
        PROVE  LockedBetweenCalls'
    BY <1>u, Zenon DEF LockedBetweenCalls
  <1>a. ASSUME unlocked' = TRUE, acquired' = TRUE, pc' \notin {"off", "idle", "playback"}
        PROVE  LockedBetweenCalls'
    BY <1>a, Zenon DEF LockedBetweenCalls
  <1>1. CASE wear_leveling_init
    BY <1>1, <1>r, <1>u DEF wear_leveling_init, ReturnFailedInit, LockedBetweenCalls
  <1>2. CASE PlaybackEnd
    BY <1>2, <1>r, <1>u DEF PlaybackEnd, ConsolidateForce
  <1>3. CASE PlaybackEntry
    BY <1>3, <1>u DEF PlaybackEntry, LockedBetweenCalls
  <1>4. CASE PlaybackReadFails
    BY <1>4, <1>u DEF PlaybackReadFails, LockedBetweenCalls
  <1>5. CASE EraseSector
    BY <1>5, <1>u DEF EraseSector
  <1>6. CASE EraseReturns
    <2>1. CASE \E s : Return(s)
      BY <2>1, <1>r
    <2>2. CASE /\ pc' = "consolidate"
               /\ \/ unlocked' = TRUE /\ acquired' = (acquired \/ ~unlocked)
                  \/ UNCHANGED <<unlocked, acquired>>
      <3>1. CASE unlocked' = TRUE /\ acquired' = (acquired \/ ~unlocked)
        <4>1. acquired' = TRUE
          BY <3>1, <1>t, Zenon DEF LockedBetweenCalls
        <4> QED BY <2>2, <3>1, <4>1, <1>a
      <3>2. CASE UNCHANGED <<unlocked, acquired>>
        BY <2>2, <3>2, <1>u
      <3> QED BY <2>2, <3>1, <3>2
    <2> QED BY <1>6, <2>1, <2>2 DEF EraseReturns
  <1>7. CASE ConsolidateFails
    BY <1>7, <1>r DEF ConsolidateFails
  <1>8. CASE ConsolidateWord
    BY <1>8, <1>u DEF ConsolidateWord
  <1>9. CASE ChecksumWord
    BY <1>9, <1>r, <1>u DEF ChecksumWord
  <1>10. CASE wear_leveling_write_raw
    BY <1>10, <1>u DEF wear_leveling_write_raw
  <1>11. CASE wear_leveling_append_raw
    BY <1>11, <1>r, <1>u DEF wear_leveling_append_raw, ConsolidateForce
  <1>12. CASE AppendFails
    BY <1>12, <1>r DEF AppendFails
  <1>13. ASSUME NEW r \in Requests, wear_leveling_write(r) PROVE LockedBetweenCalls'
    <2>0. pc = "idle" /\ ~unlocked
      BY <1>13 DEF wear_leveling_write, LockedBetweenCalls
    <2>1. \/ UNCHANGED <<unlocked, acquired, pc>>
          \/ unlocked' = TRUE /\ acquired' = (~unlocked) /\ pc' = "append"
      BY <1>13 DEF wear_leveling_write
    <2>2. acquired' = (~unlocked) => acquired' = TRUE
      BY <2>0, Zenon
    <2> QED BY <2>0, <2>1, <2>2, <1>u, <1>a
  <1>14. CASE wear_leveling_erase
    <2>0. pc = "idle" /\ ~unlocked
      BY <1>14 DEF wear_leveling_erase, LockedBetweenCalls
    <2>1. \/ UNCHANGED <<unlocked, acquired, pc>>
          \/ unlocked' = TRUE /\ acquired' = (~unlocked) /\ pc' = "erase"
      BY <1>14 DEF wear_leveling_erase, ConsolidateForce
    <2>2. acquired' = (~unlocked) => acquired' = TRUE
      BY <2>0, Zenon
    <2> QED BY <2>0, <2>1, <2>2, <1>u, <1>a
  <1>15. CASE PowerLoss
    <2>1. unlocked' = FALSE /\ acquired' = FALSE
      BY <1>15 DEF PowerLoss
    <2> QED BY <2>1, Zenon DEF LockedBetweenCalls
  <1>16. CASE UNCHANGED vars
    BY <1>16, <1>u DEF vars, LockedBetweenCalls
  <1> QED BY <1>1, <1>2, <1>3, <1>4, <1>5, <1>6, <1>7, <1>8, <1>9, <1>10, <1>11, <1>12,
             <1>13, <1>14, <1>15, <1>16 DEF Next, Step

(* If locking the flash does not fail, the store is locked whenever no call *)
(* is in progress, whatever else fails and wherever power is lost.          *)
THEOREM LockDiscipline ==
  ASSUME "lock" \notin Faults
  PROVE  Spec => []LockedBetweenCalls
PROOF
  <1>0. Init => LockedBetweenCalls
    BY Zenon DEF Init, LockedBetweenCalls
  <1>1. Init => TypeInv /\ LockedBetweenCalls
    BY <1>0, InitType
  <1>2. TypeInv /\ LockedBetweenCalls /\ [Next]_vars => (TypeInv /\ LockedBetweenCalls)'
    BY NextType, NextLocked
  <1> QED BY <1>1, <1>2, PTL DEF Spec

-----------------------------------------------------------------------------
(* The encoding of log entries, at the limits the code uses.                *)

LEMMA MultibyteInRange ==
  ASSUME NEW entry,
         LOG_ENTRY_MULTIBYTE_GET_ADDRESS(entry) + LOG_ENTRY_MULTIBYTE_GET_LENGTH(entry)
           <= WEAR_LEVELING_LOGICAL_SIZE
  PROVE  Multibyte(entry).ok
  BY Zenon DEF Multibyte

LEMMA Word01InRange ==
  ASSUME NEW entry, LOG_ENTRY_WORD_01_GET_ADDRESS(entry) + 1 < WEAR_LEVELING_LOGICAL_SIZE
  PROVE  Word01(entry).ok
  BY Zenon DEF Word01

(* A multi-byte entry is read back as it was written: the type, the 19-bit  *)
(* address, the length, and the data.                                       *)
THEOREM MultibyteRoundTrip ==
  ASSUME NEW a \in Nat, a < 524288, NEW l \in 1..5, NEW p, a + l <= WEAR_LEVELING_LOGICAL_SIZE
  PROVE  LET e == Decode(LOG_ENTRY_MAKE_MULTIBYTE(a, l, p))
         IN /\ e.ok /\ e.at = a /\ e.len = l /\ e.size = MultibyteWords(l)
            /\ \A i \in 0..(l - 1) : e.data[i] = p[i]
PROOF
  <1> DEFINE entry == LOG_ENTRY_MAKE_MULTIBYTE(a, l, p)
  <1>1. PICK u \in 0..7, m \in Nat, n \in Nat :
          /\ u = (a \div 65536) % 8 /\ m = (a \div 256) % 256 /\ n = a % 256
          /\ a = (((u * 256) + m) * 256) + n
    BY SMT
  <1>2. entry[0] = (l * 8) + u /\ entry[1] = m /\ entry[2] = n
    <2>1. l % 8 = l
      BY SMT
    <2> QED BY <1>1, <2>1, SMT DEF LOG_ENTRY_MAKE_MULTIBYTE
  <1>3. \A i \in 0..(l - 1) : entry[3 + i] = p[i]
    BY SMT DEF LOG_ENTRY_MAKE_MULTIBYTE
  <1> HIDE DEF entry
  <1>4. /\ ((l * 8) + u) \div 64 = 0 /\ ((l * 8) + u) % 8 = u
        /\ (((l * 8) + u) \div 8) % 8 = l
    BY SMT
  <1>5. LOG_ENTRY_MULTIBYTE_GET_LENGTH(entry) = l
    BY <1>2, <1>4, SMT DEF LOG_ENTRY_MULTIBYTE_GET_LENGTH
  <1>6. LOG_ENTRY_MULTIBYTE_GET_ADDRESS(entry) = a
    BY <1>1, <1>2, <1>4, SMT DEF LOG_ENTRY_MULTIBYTE_GET_ADDRESS
  <1>7. Decode(entry) = Multibyte(entry)
    BY <1>2, <1>4, SMT DEF Decode, LOG_ENTRY_GET_TYPE, LOG_ENTRY_TYPE_MULTIBYTE
  <1>8. \A i \in 0..(l - 1) : Multibyte(entry).data[i] = p[i]
    BY <1>3, SMT DEF Multibyte
  <1>9. /\ Multibyte(entry).at = a /\ Multibyte(entry).len = l
        /\ Multibyte(entry).size = MultibyteWords(l)
    BY <1>5, <1>6, SMT DEF Multibyte
  <1>10. Multibyte(entry).ok
    BY <1>5, <1>6, MultibyteInRange, SMT
  <1> QED BY <1>7, <1>8, <1>9, <1>10, SMT DEF entry

(* With 16-bit words, the one-byte entry carries the addresses below 64 and *)
(* every byte value.                                                        *)
THEOREM Optimized64RoundTrip ==
  ASSUME W = 2, NEW a \in 0..63, NEW v \in Byte, a < WEAR_LEVELING_LOGICAL_SIZE
  PROVE  LET e == Decode(LOG_ENTRY_MAKE_OPTIMIZED_64(a, v))
         IN e.ok /\ e.at = a /\ e.len = 1 /\ e.size = 1 /\ e.data[0] = v
PROOF
  <1> DEFINE entry == LOG_ENTRY_MAKE_OPTIMIZED_64(a, v)
  <1>1. entry[0] = 64 + a /\ entry[1] = v
    BY DEF LOG_ENTRY_MAKE_OPTIMIZED_64, ZeroRaw
  <1> HIDE DEF entry
  <1>2. LOG_ENTRY_GET_TYPE(entry) = 1
    BY <1>1 DEF LOG_ENTRY_GET_TYPE
  <1>3. LOG_ENTRY_OPTIMIZED_64_GET_ADDRESS(entry) = a
    BY <1>1 DEF LOG_ENTRY_OPTIMIZED_64_GET_ADDRESS
  <1>4. LOG_ENTRY_OPTIMIZED_64_GET_VALUE(entry) = v
    BY <1>1 DEF LOG_ENTRY_OPTIMIZED_64_GET_VALUE
  <1>5. Decode(entry) = Optimized64(entry)
    BY <1>2 DEF Decode, LOG_ENTRY_TYPE_MULTIBYTE, LOG_ENTRY_TYPE_OPTIMIZED_64
  <1>6. /\ Optimized64(entry).at = a /\ Optimized64(entry).len = 1
        /\ Optimized64(entry).size = 1 /\ Optimized64(entry).data[0] = v
    BY <1>3, <1>4 DEF Optimized64
  <1>7. Optimized64(entry).ok
    BY <1>3 DEF Optimized64
  <1> QED BY <1>5, <1>6, <1>7, SMT DEF entry

(* With 16-bit words, the 0/1 entry carries the even addresses below 16384. *)
THEOREM Word01RoundTrip ==
  ASSUME W = 2, NEW h \in Nat, h < 8192, NEW v \in {0, 1}, (2 * h) + 1 < WEAR_LEVELING_LOGICAL_SIZE
  PROVE  LET e == Decode(LOG_ENTRY_MAKE_WORD_01(2 * h, v))
         IN e.ok /\ e.at = 2 * h /\ e.len = 2 /\ e.size = 1 /\ e.data[0] = v /\ e.data[1] = 0
PROOF
  <1> DEFINE entry == LOG_ENTRY_MAKE_WORD_01(2 * h, v)
  <1>1. entry[0] = 128 + (v * 32) + (h \div 256) /\ entry[1] = h % 256
    BY DEF LOG_ENTRY_MAKE_WORD_01, ZeroRaw
  <1> HIDE DEF entry
  <1>2. h \div 256 \in 0..31
    OBVIOUS
  <1>3. LOG_ENTRY_GET_TYPE(entry) = 2
    BY <1>1, <1>2 DEF LOG_ENTRY_GET_TYPE
  <1>4. LOG_ENTRY_WORD_01_GET_ADDRESS(entry) = 2 * h
    BY <1>1, <1>2 DEF LOG_ENTRY_WORD_01_GET_ADDRESS
  <1>5. LOG_ENTRY_WORD_01_GET_VALUE(entry) = v
    BY <1>1, <1>2 DEF LOG_ENTRY_WORD_01_GET_VALUE
  <1>6. Decode(entry) = Word01(entry)
    BY <1>3 DEF Decode, LOG_ENTRY_TYPE_MULTIBYTE, LOG_ENTRY_TYPE_OPTIMIZED_64,
         LOG_ENTRY_TYPE_WORD_01
  <1>7. /\ Word01(entry).at = 2 * h /\ Word01(entry).len = 2 /\ Word01(entry).size = 1
        /\ Word01(entry).data[0] = v /\ Word01(entry).data[1] = 0
    BY <1>4, <1>5 DEF Word01
  <1>8. Word01(entry).ok
    BY <1>4, Word01InRange, SMT
  <1> QED BY <1>6, <1>7, <1>8, SMT DEF entry
-----------------------------------------------------------------------------
(* The write log.  The theorems hold of flash without a lock whose erases, *)
(* writes and reads succeed; power may be lost at any time if one erase    *)
(* covers the log, and locking and unlocking may fail.                     *)

(* Each sector holds all of the log or none of it. *)
LogInOneSector ==
  \A k \in Nat : (\A a \in LogWords : InSector(a, k)) \/ (\A a \in LogWords : ~InSector(a, k))

(* The hypothesis of the theorems. *)
SoundStore ==
  /\ Device = "open"
  /\ Faults \subseteq {"power", "lock", "unlock"}
  /\ \A a \in 0..(LogEnd - 1) : \E k \in 0..(SectorCount - 1) : InSector(a, k)
  /\ "power" \in Faults => LogInOneSector

-----------------------------------------------------------------------------
(* The words that the first byte of an entry says it has. *)
HeaderWords(byte) == IF byte \div 64 = 0 THEN MultibyteWords((byte \div 8) % 8) ELSE 1

(* S holds the places where playback may find an entry to start, each behind *)
(* the one before: only the last may be blank, and then nothing follows it.  *)
EntryStarts(S) ==
  /\ S \subseteq Nat /\ LogStart \in S
  /\ \A a \in S, b \in S :
       a < b => a \in LogWords /\ wlog[a] # Blank /\ a + HeaderWords(wlog[a][0]) <= b
  /\ \A a \in S \cap LogWords : wlog[a] # Blank => a + HeaderWords(wlog[a][0]) \in S
  /\ \A a \in S \cap LogWords : wlog[a] = Blank => \A x \in LogWords : x >= a => wlog[x] = Blank

Erased == \A a \in LogWords : wlog[a] = Blank

(* Where the entry that is being written ends, and the next one will start. *)
NextStart == IF sent = 0 THEN write_address ELSE write_address + (size - sent)

(* Playback and appending start where an entry starts. *)
StartsKnown ==
  \E S : /\ EntryStarts(S)
         /\ pc = "playback" => cursor \in S
         /\ pc \in {"idle", "append"} => NextStart \in S

(* The log at each point of the code. *)
LogInv ==
  /\ NothingAfterWriteAddress
  /\ pc # "append" => size = 0 /\ sent = 0
  /\ pc = "append" /\ size # 0 => raw[0] # 0 /\ HeaderWords(raw[0]) = size
  /\ pc = "erase" =>
       \A a \in LogWords, k \in Nat : k < cursor /\ InSector(a, k) => wlog[a] = Blank
  /\ pc \in {"consolidate", "checksum"} => Erased
  /\ pc # "erase" \/ "power" \in Faults => StartsKnown

-----------------------------------------------------------------------------
(* Programming a blank byte writes it. *)
LEMMA BitOrZero == ASSUME NEW y \in Byte PROVE BitOr(0, y) = y
  <1> DEFINE B(n) == IF (y \div n) % 2 = 1 THEN n ELSE 0
  <1>1. ASSUME NEW n \in {1, 2, 4, 8, 16, 32, 64, 128} PROVE Bit(0, y, n) = B(n)
    <2>1. (0 \div n) % 2 = 0
      OBVIOUS
    <2>2. QED
      BY <2>1 DEF Bit
  <1>2. B(1) + B(2) + B(4) + B(8) + B(16) + B(32) + B(64) + B(128) = y
    BY DEF Byte
  <1> HIDE DEF B
  <1>3. BitOr(0, y) = B(1) + B(2) + B(4) + B(8) + B(16) + B(32) + B(64) + B(128)
    BY <1>1 DEF BitOr
  <1>4. QED
    BY <1>2, <1>3

LEMMA HeaderWordsType == ASSUME NEW x \in Byte PROVE HeaderWords(x) \in 1..4
  <1>1. (x \div 8) % 8 \in 0..7
    BY DEF Byte
  <1>2. QED
    BY <1>1, MultibyteWordsType DEF HeaderWords

(* Playback goes on behind an entry that it accepts by as many words as its  *)
(* first byte says.                                                          *)
LEMMA DecodeSize ==
  ASSUME NEW entry \in Raw8, Decode(entry).ok
  PROVE  Decode(entry).size = HeaderWords(entry[0])
  <1>1. entry[0] \in Byte
    BY DEF Raw8
  <1>2. CASE entry[0] \div 64 = 0
    <2>1. Decode(entry) = Multibyte(entry)
      BY <1>2 DEF Decode, LOG_ENTRY_GET_TYPE, LOG_ENTRY_TYPE_MULTIBYTE
    <2>2. Multibyte(entry).ok => Multibyte(entry).size = MultibyteWords((entry[0] \div 8) % 8)
      BY DEF Multibyte, LOG_ENTRY_MULTIBYTE_GET_LENGTH
    <2>3. QED
      BY <1>2, <2>1, <2>2 DEF HeaderWords
  <1>3. CASE entry[0] \div 64 # 0
    <2>1. Decode(entry) \in {Optimized64(entry), Word01(entry), BadEntry}
      BY <1>3 DEF Decode, LOG_ENTRY_GET_TYPE, LOG_ENTRY_TYPE_MULTIBYTE
    <2>2. Optimized64(entry).size = 1 /\ Word01(entry).size = 1 /\ BadEntry.size = 1
      BY DEF Optimized64, Word01, BadEntry
    <2>3. QED
      BY <1>3, <2>1, <2>2 DEF HeaderWords
  <1>4. QED
    BY <1>2, <1>3

LEMMA EntryAtHeader ==
  ASSUME NEW a \in LogWords, NEW far
  PROVE  EntryAt(a, far)[0] = wlog[a][0]
  <1>1. 0 \div W = 0 /\ 0 % W = 0
    BY WearLevelingAssumption
  <1>2. a \in Int /\ a < LogEnd
    BY Geometry DEF LogWords
  <1>3. QED
    BY <1>1, <1>2 DEF EntryAt

(* An erased log has no entries. *)
LEMMA ErasedStarts == Erased => EntryStarts({LogStart})
  BY Geometry DEF Erased, EntryStarts

(* The entries that wear_leveling_write_raw makes tell their length in the   *)
(* first byte, which is not blank.                                           *)
LEMMA MadeHeader ==
  ASSUME NEW a \in Nat, NEW l \in 1..5, NEW p, NEW v
  PROVE  /\ LET x == LOG_ENTRY_MAKE_MULTIBYTE(a, l, p)[0]
            IN x # 0 /\ HeaderWords(x) = MultibyteWords(l)
         /\ LET x == LOG_ENTRY_MAKE_OPTIMIZED_64(a, v)[0]
            IN x # 0 /\ HeaderWords(x) = 1
         /\ LET x == LOG_ENTRY_MAKE_WORD_01(a, v)[0]
            IN x # 0 /\ HeaderWords(x) = 1
  <1>1. LOG_ENTRY_MAKE_MULTIBYTE(a, l, p)[0] = (l * 8) + ((a \div 65536) % 8)
    BY DEF LOG_ENTRY_MAKE_MULTIBYTE
  <1>2. ASSUME NEW u \in 0..7
        PROVE  /\ (l * 8) + u # 0 /\ ((l * 8) + u) \div 64 = 0
               /\ (((l * 8) + u) \div 8) % 8 = l
    OBVIOUS
  <1>3. LOG_ENTRY_MAKE_OPTIMIZED_64(a, v)[0] = 64 + (a % 64)
    BY DEF LOG_ENTRY_MAKE_OPTIMIZED_64, ZeroRaw
  <1>4. LOG_ENTRY_MAKE_WORD_01(a, v)[0]
          = 128 + (IF v # 0 THEN 32 ELSE 0) + ((a \div 512) % 32)
    BY DEF LOG_ENTRY_MAKE_WORD_01, ZeroRaw
  <1>5. (a \div 65536) % 8 \in 0..7
    OBVIOUS
  <1>6. QED
    BY <1>1, <1>2, <1>3, <1>4, <1>5 DEF HeaderWords

-----------------------------------------------------------------------------
(* wear_leveling_append_raw programs a word of an entry.  The first makes it *)
(* an entry, and the word behind it the place where the next one starts.     *)
Appending ==
  /\ SoundStore /\ TypeInv /\ BoundsInv /\ LogInv
  /\ pc = "append" /\ sent < size
  /\ WriteOk(write_address, EntryWord(raw, sent))

LEMMA AppendedWord ==
  ASSUME Appending
  PROVE  /\ \A x \in LogWords : x # write_address => wlog'[x] = wlog[x]
         /\ wlog[write_address] = Blank
         /\ sent = 0 => /\ wlog'[write_address] # Blank
                        /\ HeaderWords(wlog'[write_address][0]) = size
  <1>1. write_address \in LogWords
    BY DEF Appending, BoundsInv
  <1>2. \A x \in LogWords :
          wlog'[x] = IF x = write_address
                     THEN [i \in 0..(W - 1) |-> BitOr(wlog[x][i], EntryWord(raw, sent)[i])]
                     ELSE wlog[x]
    BY DEF Appending, WriteOk
  <1>3. wlog[write_address] = Blank
    <2>1. NothingAfterWriteAddress /\ pc = "append" /\ write_address \in Nat
      BY DEF Appending, LogInv, TypeInv, TypeOK
    <2>2. QED
      BY <1>1, <2>1 DEF NothingAfterWriteAddress
  <1>4. ASSUME sent = 0
        PROVE  /\ wlog'[write_address] # Blank
               /\ HeaderWords(wlog'[write_address][0]) = size
    <2>1. 0 \in 0..(W - 1) /\ 0 * W + 0 = 0
      BY WearLevelingAssumption
    <2>2. Blank[0] = 0
      BY <2>1 DEF Blank
    <2>3. EntryWord(raw, sent)[0] = raw[0]
      BY <1>4, <2>1 DEF EntryWord
    <2>4. raw[0] \in Byte
      BY DEF Appending, TypeInv, TypeOK, Raw8
    <2>5. wlog'[write_address][0] = BitOr(0, raw[0])
      BY <1>1, <1>2, <1>3, <2>1, <2>2, <2>3
    <2>6. wlog'[write_address][0] = raw[0]
      BY <2>4, <2>5, BitOrZero
    <2>7. raw[0] # 0 /\ HeaderWords(raw[0]) = size
      BY DEF Appending, TypeInv, TypeOK, LogInv
    <2>8. QED
      BY <2>2, <2>6, <2>7
  <1>5. QED
    BY <1>2, <1>3, <1>4

LEMMA AppendedBlank ==
  ASSUME Appending, NEW x \in LogWords, x >= write_address + 1
  PROVE  wlog'[x] = Blank
  <1>1. write_address \in Nat /\ x \in Nat
    BY Geometry DEF Appending, TypeInv, TypeOK, LogWords
  <1>2. x # write_address /\ x >= write_address
    BY <1>1
  <1>3. wlog[x] = Blank
    BY <1>2 DEF Appending, LogInv, NothingAfterWriteAddress
  <1>4. QED
    BY <1>2, <1>3, AppendedWord

LEMMA AppendedStarts ==
  ASSUME Appending, NEW S, EntryStarts(S), NextStart \in S,
         NEW T, T = S \cup {write_address + (size - sent)}
  PROVE  EntryStarts(T)'
  <1> DEFINE next == write_address + (size - sent)
  <1>1. /\ write_address \in Nat /\ write_address \in LogWords
        /\ size \in Nat /\ sent \in Nat /\ sent < size
        /\ next \in Nat /\ next >= write_address + 1 /\ T = S \cup {next}
    BY Geometry DEF Appending, TypeInv, TypeOK, BoundsInv
  <1>2. \A x \in LogWords : x \in Nat /\ (x >= write_address + 1 => wlog'[x] = Blank)
    BY AppendedBlank, Geometry DEF LogWords
  <1>3. CASE sent = 0
    <2>1. write_address \in S
      BY <1>3 DEF NextStart
    <2>2. \A a \in S : a \in Nat /\ a <= write_address
      BY <1>1, <2>1, AppendedWord DEF EntryStarts
    <2>3. ASSUME NEW a \in S, a < write_address
          PROVE  /\ a \in LogWords /\ wlog'[a] = wlog[a] /\ wlog'[a] # Blank
                 /\ a + HeaderWords(wlog'[a][0]) <= write_address
      BY <1>1, <2>1, <2>2, <2>3, AppendedWord DEF EntryStarts
    <2>4. \A a \in T : a \in Nat /\ (a = next \/ a = write_address \/ (a \in S /\ a < write_address))
      BY <1>1, <2>2
    <2>5. next = write_address + size
      BY <1>1, <1>3
    <2>6. next \in LogWords => \A x \in LogWords : x >= next => wlog'[x] = Blank
      BY <1>1, <1>2
    <2>7. wlog'[write_address] # Blank /\ HeaderWords(wlog'[write_address][0]) = size
      BY <1>3, AppendedWord
    <2> HIDE DEF next
    <2>8. T \subseteq Nat /\ LogStart \in T
      BY <1>1, <2>4 DEF EntryStarts
    <2>9. ASSUME NEW a \in T, NEW b \in T, a < b
          PROVE  a \in LogWords /\ wlog'[a] # Blank /\ a + HeaderWords(wlog'[a][0]) <= b
      <3>1. CASE a = write_address
        <4>1. b = next
          BY <1>1, <2>4, <2>9, <3>1
        <4>2. QED
          BY <1>1, <2>5, <2>7, <3>1, <4>1
      <3>2. CASE a \in S /\ a < write_address
        <4>1. CASE b = next \/ b = write_address
          <5>1. wlog'[a] = wlog[a] /\ wlog[a][0] \in Byte
            BY <2>3, <3>2, WearLevelingAssumption DEF Appending, TypeInv, TypeOK, Word
          <5>2. HeaderWords(wlog'[a][0]) \in 1..4
            BY <5>1, HeaderWordsType
          <5>3. QED
            BY <1>1, <2>3, <2>4, <3>2, <4>1, <5>2
        <4>2. CASE b \in S
          BY <2>3, <2>9, <3>2, <4>2 DEF EntryStarts
        <4>3. QED
          BY <2>4, <4>1, <4>2
      <3>3. a # next
        BY <1>1, <2>4, <2>9
      <3>4. QED
        BY <2>4, <3>1, <3>2, <3>3
    <2>10. ASSUME NEW a \in T \cap LogWords, wlog'[a] # Blank
           PROVE  a + HeaderWords(wlog'[a][0]) \in T
      <3>1. CASE a = next
        BY <3>1, <1>1, <2>6, <2>10
      <3>2. CASE a = write_address
        BY <3>2, <1>1, <2>5, <2>7
      <3>3. CASE a \in S /\ a < write_address
        BY <3>3, <1>1, <2>3 DEF EntryStarts
      <3>4. QED
        BY <2>4, <3>1, <3>2, <3>3
    <2>11. ASSUME NEW a \in T \cap LogWords, wlog'[a] = Blank, NEW x \in LogWords, x >= a
           PROVE  wlog'[x] = Blank
      BY <2>3, <2>4, <2>6, <2>7, <2>11
    <2>12. QED
      BY <2>8, <2>9, <2>10, <2>11 DEF EntryStarts
  <1>4. CASE sent # 0
    <2>1. next \in S /\ T = S
      BY <1>1, <1>4 DEF NextStart
    <2>2. write_address \notin S
      BY <1>1, <2>1, AppendedWord DEF EntryStarts
    <2>3. \A a \in S \cap LogWords : wlog'[a] = wlog[a]
      BY <2>2, AppendedWord
    <2>4. ASSUME NEW a \in S \cap LogWords, wlog'[a] = Blank, NEW x \in LogWords, x >= a
          PROVE  wlog'[x] = Blank
      <3>1. a \in Nat /\ ~(a < next)
        BY <2>1, <2>3, <2>4 DEF EntryStarts
      <3>2. x >= write_address + 1
        BY <1>1, <1>2, <2>4, <3>1
      <3>3. QED
        BY <1>2, <3>2
    <2>5. QED
      BY <2>1, <2>3, <2>4 DEF EntryStarts
  <1>5. QED
    BY <1>3, <1>4

-----------------------------------------------------------------------------
(* A call that returns with an erased log, and one that leaves the log as it *)
(* is, at the place where the next entry will start.                         *)
LEMMA ReturnErased ==
  ASSUME NEW s, Return(s), Erased', write_address' = LogStart
  PROVE  LogInv'
  <1>1. pc' = "idle" /\ size' = 0 /\ sent' = 0
    BY DEF Return, EntryDone
  <1>2. EntryStarts({LogStart})'
    BY Geometry DEF Erased, EntryStarts
  <1>3. NextStart' = LogStart
    BY <1>1, Geometry DEF NextStart
  <1>4. StartsKnown'
    BY <1>1, <1>2, <1>3 DEF StartsKnown
  <1>5. NothingAfterWriteAddress'
    BY DEF Erased, NothingAfterWriteAddress
  <1>6. QED
    BY <1>1, <1>4, <1>5 DEF LogInv

LEMMA ReturnAtStart ==
  ASSUME NEW s, Return(s), write_address' \in Nat,
         \A x \in LogWords : x >= write_address' => wlog'[x] = Blank,
         NEW S, EntryStarts(S)', write_address' \in S
  PROVE  LogInv'
  <1>1. pc' = "idle" /\ size' = 0 /\ sent' = 0
    BY DEF Return, EntryDone
  <1>2. NextStart' = write_address'
    BY <1>1 DEF NextStart
  <1>3. StartsKnown'
    BY <1>1, <1>2 DEF StartsKnown
  <1>4. NothingAfterWriteAddress'
    BY DEF NothingAfterWriteAddress
  <1>5. QED
    BY <1>1, <1>3, <1>4 DEF LogInv

(* The erase of the store begins: nothing is erased yet. *)
LEMMA EraseBegins ==
  ASSUME ConsolidateForce, size' = 0, sent' = 0, NEW S, EntryStarts(S)'
  PROVE  LogInv'
  <1>1. pc' = "erase" /\ cursor' = 0
    BY DEF ConsolidateForce
  <1>2. StartsKnown'
    BY <1>1 DEF StartsKnown
  <1>3. QED
    BY <1>1, <1>2 DEF LogInv, NothingAfterWriteAddress

LEMMA SameLog ==
  ASSUME NEW S, EntryStarts(S), wlog' = wlog
  PROVE  EntryStarts(S)'
  BY DEF EntryStarts

(* One sector is erased.  If power can be lost, that is all of the log, or   *)
(* none of it.                                                               *)
LEMMA LogEraseStep ==
  ASSUME SoundStore, TypeInv, LogInv, EraseSector
  PROVE  LogInv'
  <1>1. /\ pc = "erase" /\ pc' = "erase" /\ cursor \in Nat
        /\ EraseOk(cursor) /\ cursor' = cursor + 1 /\ size' = size /\ sent' = sent
    BY DEF SoundStore, EraseSector, EraseFails, Accepts, TypeInv, TypeOK, entryVars
  <1>2. \A a \in LogWords : wlog'[a] = IF InSector(a, cursor) THEN Blank ELSE wlog[a]
    BY <1>1 DEF EraseOk
  <1>3. wlog' = [a \in LogWords |-> IF InSector(a, cursor) THEN Blank ELSE wlog[a]]
    BY <1>1 DEF EraseOk
  <1>4. \A a \in LogWords, k \in Nat : k < cursor /\ InSector(a, k) => wlog[a] = Blank
    BY <1>1 DEF LogInv
  <1>5. ASSUME NEW a \in LogWords, NEW k \in Nat, k < cursor', InSector(a, k)
        PROVE  wlog'[a] = Blank
    <2>1. k < cursor \/ k = cursor
      BY <1>1, <1>5
    <2>2. QED
      BY <1>2, <1>4, <1>5, <2>1
  <1>6. ASSUME "power" \in Faults PROVE StartsKnown'
    <2>1. PICK S : EntryStarts(S)
      BY <1>6 DEF LogInv, StartsKnown
    <2>2. CASE \A a \in LogWords : InSector(a, cursor)
      <3>1. EntryStarts({LogStart})'
        BY <1>2, <2>2, Geometry DEF EntryStarts
      <3>2. QED
        BY <1>1, <3>1 DEF StartsKnown
    <2>3. CASE \A a \in LogWords : ~InSector(a, cursor)
      <3>1. \A a \in LogWords : wlog'[a] = wlog[a]
        BY <1>2, <2>3
      <3>2. EntryStarts(S)'
        BY <2>1, <3>1 DEF EntryStarts
      <3>3. QED
        BY <1>1, <3>2 DEF StartsKnown
    <2>4. QED
      BY <1>1, <1>6, <2>2, <2>3 DEF SoundStore, LogInOneSector
  <1>7. QED
    BY <1>1, <1>5, <1>6 DEF LogInv, NothingAfterWriteAddress

(* The erase has reached the last sector. *)
LEMMA AllErased ==
  ASSUME SoundStore, TypeInv, LogInv, EraseReturns
  PROVE  Erased'
  <1>1. /\ pc = "erase" /\ cursor = SectorCount /\ wlog' = wlog
    BY DEF EraseReturns, store
  <1>2. ASSUME NEW a \in LogWords PROVE wlog[a] = Blank
    <2>1. PICK k \in 0..(SectorCount - 1) : InSector(a, k)
      BY Geometry DEF SoundStore, LogWords
    <2>2. k \in Nat /\ k < cursor
      BY <1>1, Geometry
    <2>3. QED
      BY <1>1, <2>1, <2>2 DEF LogInv
  <1>3. QED
    BY <1>1, <1>2 DEF Erased

LEMMA ErasedKnown ==
  ASSUME Erased', pc' \notin {"playback", "idle", "append"}
  PROVE  StartsKnown'
  <1>1. EntryStarts({LogStart})'
    BY Geometry DEF Erased, EntryStarts
  <1>2. QED
    BY <1>1 DEF StartsKnown

(* No step of the code leaves a gap in the log. *)
LEMMA NextLog ==
  ASSUME SoundStore, TypeInv, BoundsInv, LogInv, [Next]_vars
  PROVE  LogInv'
  <1>a. Accepts /\ Accepts'
    BY DEF SoundStore, Accepts
  <1>b. Faults \cap {"init", "read", "erase", "write"} = {}
    BY DEF SoundStore
  <1>c. pc # "erase" => \E S : /\ EntryStarts(S)
                               /\ pc = "playback" => cursor \in S
                               /\ pc \in {"idle", "append"} => NextStart \in S
    BY DEF LogInv, StartsKnown
  <1>d. pc # "append" => size = 0 /\ sent = 0
    BY DEF LogInv
  <1>1. CASE wear_leveling_init
    <2>1. /\ pc = "off" /\ pc' = "playback" /\ cursor' = LogStart
          /\ wlog' = wlog /\ size' = size /\ sent' = sent
      BY <1>1, <1>b DEF wear_leveling_init, store, entryVars
    <2>2. PICK S : EntryStarts(S)
      BY <1>c, <2>1
    <2>3. EntryStarts(S)' /\ LogStart \in S
      BY <2>1, <2>2, SameLog DEF EntryStarts
    <2>4. StartsKnown'
      BY <2>1, <2>3 DEF StartsKnown
    <2>5. QED
      BY <1>d, <2>1, <2>4 DEF LogInv, NothingAfterWriteAddress
  <1>2. CASE PlaybackEnd
    <2>1. /\ pc = "playback" /\ wlog' = wlog /\ write_address' = cursor
          /\ cursor < LogEnd => wlog[cursor] = Blank
          /\ cursor \in Nat /\ cursor >= LogStart
      BY <1>2 DEF PlaybackEnd, store, TypeInv, TypeOK
    <2>2. PICK S : EntryStarts(S) /\ cursor \in S
      BY <1>c, <2>1
    <2>3. EntryStarts(S)'
      BY <2>1, <2>2, SameLog
    <2>4. CASE ConsolidateForce /\ UNCHANGED entryVars
      BY <1>d, <2>1, <2>3, <2>4, EraseBegins DEF entryVars
    <2>5. CASE ~LogFull(cursor) /\ Return(SUCCESS)
      <3>1. cursor \in LogWords
        BY <2>1, <2>5, Geometry DEF LogFull, LogWords
      <3>2. wlog[cursor] = Blank
        BY <2>1, <2>5, Geometry DEF LogFull
      <3>3. \A x \in LogWords : x >= cursor => wlog[x] = Blank
        BY <2>2, <3>1, <3>2 DEF EntryStarts
      <3>4. QED
        BY <2>1, <2>2, <2>3, <2>5, <3>3, ReturnAtStart
    <2>6. QED
      BY <1>2, <2>4, <2>5 DEF PlaybackEnd
  <1>3. CASE PlaybackEntry
    <2>1. /\ pc = "playback" /\ cursor \in LogWords /\ wlog[cursor] # Blank
          /\ wlog' = wlog /\ size' = size /\ sent' = sent
      BY <1>3, Geometry DEF PlaybackEntry, store, entryVars, LogWords, TypeInv, TypeOK
    <2>2. PICK S : EntryStarts(S) /\ cursor \in S
      BY <1>c, <2>1
    <2>3. EntryStarts(S)'
      BY <2>1, <2>2, SameLog
    <2>4. CASE ConsolidateForce
      BY <1>d, <2>1, <2>3, <2>4, EraseBegins
    <2>5. CASE ~ConsolidateForce
      <3>1. PICK far \in Beyond :
              /\ Decode(EntryAt(cursor, far)).ok
              /\ cursor' = cursor + Decode(EntryAt(cursor, far)).size
              /\ pc' = pc
        BY <1>3, <2>5 DEF PlaybackEntry
      <3>2. EntryAt(cursor, far) \in Raw8
        BY <2>1, EntryAtType, WearLevelingAssumption DEF TypeInv, TypeOK
      <3>3. cursor' = cursor + HeaderWords(wlog[cursor][0])
        BY <2>1, <3>1, <3>2, DecodeSize, EntryAtHeader
      <3>4. cursor' \in S
        BY <2>1, <2>2, <3>3 DEF EntryStarts
      <3>5. StartsKnown'
        BY <2>1, <2>3, <3>1, <3>4 DEF StartsKnown
      <3>6. QED
        BY <1>d, <2>1, <3>1, <3>5 DEF LogInv, NothingAfterWriteAddress
    <2>6. QED
      BY <2>4, <2>5
  <1>4. CASE PlaybackReadFails
    BY <1>4, <1>b DEF PlaybackReadFails
  <1>5. CASE EraseSector
    BY <1>5, LogEraseStep
  <1>6. CASE EraseReturns
    <2>1. Erased'
      BY <1>6, AllErased
    <2>2. CASE \E s : Return(s) /\ write_address' = LogStart
      BY <2>1, <2>2, ReturnErased
    <2>3. CASE pc' = "consolidate" /\ UNCHANGED entryVars
      <3>1. StartsKnown'
        BY <2>1, <2>3, ErasedKnown
      <3>2. size' = 0 /\ sent' = 0
        BY <1>6, <1>d, <2>3 DEF EraseReturns, entryVars
      <3>3. QED
        BY <2>1, <2>3, <3>1, <3>2 DEF LogInv, NothingAfterWriteAddress
    <2>4. pc = "erase" /\ call = "write" => erase_ok
      BY DEF BoundsInv
    <2>5. QED
      BY <1>6, <2>2, <2>3, <2>4 DEF EraseReturns, wear_leveling_clear_cache
  <1>7. CASE ConsolidateFails
    BY <1>7, <1>a, <1>b DEF ConsolidateFails
  <1>8. CASE ConsolidateWord
    <2>1. /\ pc = "consolidate" /\ pc' \in {"consolidate", "checksum"}
          /\ wlog' = wlog /\ size' = size /\ sent' = sent
      BY <1>8 DEF ConsolidateWord, entryVars
    <2>2. Erased'
      BY <2>1 DEF LogInv, Erased
    <2>3. StartsKnown'
      BY <2>1, <2>2, ErasedKnown
    <2>4. QED
      BY <1>d, <2>1, <2>2, <2>3 DEF LogInv, NothingAfterWriteAddress
  <1>9. CASE ChecksumWord
    <2>1. pc = "checksum" /\ wlog' = wlog
      BY <1>9 DEF ChecksumWord
    <2>2. Erased'
      BY <2>1 DEF LogInv, Erased
    <2>3. CASE UNCHANGED <<pc, entryVars>>
      <3>1. StartsKnown'
        BY <2>1, <2>2, <2>3, ErasedKnown
      <3>2. QED
        BY <1>d, <2>1, <2>2, <2>3, <3>1 DEF LogInv, NothingAfterWriteAddress, entryVars
    <2>4. CASE write_address' = LogStart /\ Return(CONSOLIDATED)
      BY <2>2, <2>4, ReturnErased
    <2>5. QED
      BY <1>9, <2>3, <2>4 DEF ChecksumWord
  <1>10. CASE wear_leveling_write_raw
    <2> DEFINE a == req.address + off
               remaining == req.length - off
               p == [i \in 0..(remaining - 1) |-> req.value[off + i]]
               l == MultibyteLength(remaining)
    <2>1. /\ pc = "append" /\ pc' = "append" /\ sent = size /\ sent' = 0 /\ remaining > 0
          /\ wlog' = wlog /\ write_address' = write_address /\ write_address \in Nat
          /\ req \in Requests /\ off \in Nat
      BY <1>10 DEF wear_leveling_write_raw, store, TypeInv, TypeOK
    <2>2. a \in Nat /\ l \in 1..5
      BY <2>1, RequestType DEF MultibyteLength, LOG_ENTRY_MULTIBYTE_MAX_BYTES
    <2> HIDE DEF a, remaining, p, l
    <2>3. \/ raw' = LOG_ENTRY_MAKE_WORD_01(a, p[0]) /\ size' = 1
          \/ raw' = LOG_ENTRY_MAKE_OPTIMIZED_64(a, p[0]) /\ size' = 1
          \/ raw' = LOG_ENTRY_MAKE_MULTIBYTE(a, l, p) /\ size' = MultibyteWords(l)
      BY <1>10 DEF wear_leveling_write_raw, a, remaining, p, l
    <2>4. raw'[0] # 0 /\ HeaderWords(raw'[0]) = size'
      BY <2>2, <2>3, MadeHeader
    <2>5. PICK S : EntryStarts(S) /\ NextStart \in S
      BY <1>c, <2>1
    <2>6. NextStart = write_address /\ NextStart' = write_address
      BY <2>1, Geometry DEF NextStart, TypeInv, TypeOK
    <2>7. StartsKnown'
      BY <2>1, <2>5, <2>6, SameLog DEF StartsKnown
    <2>8. NothingAfterWriteAddress'
      BY <2>1 DEF LogInv, NothingAfterWriteAddress
    <2>9. QED
      BY <2>1, <2>4, <2>7, <2>8 DEF LogInv
  <1>11. CASE wear_leveling_append_raw
    <2>1. Appending
      BY <1>11 DEF Appending, wear_leveling_append_raw
    <2>2. /\ write_address \in Nat /\ size \in Nat /\ sent \in Nat /\ sent < size
          /\ write_address' = write_address + 1 /\ pc = "append"
      BY <1>11, Geometry DEF wear_leveling_append_raw, TypeInv, TypeOK
    <2>3. \A x \in LogWords : x >= write_address' => wlog'[x] = Blank
      BY <2>1, <2>2, AppendedBlank
    <2>4. PICK S : EntryStarts(S)' /\ write_address + (size - sent) \in S
      <3>1. PICK T : EntryStarts(T) /\ NextStart \in T
        BY <1>c, <2>2
      <3>2. PICK S : S = T \cup {write_address + (size - sent)}
        OBVIOUS
      <3>3. QED
        BY <2>1, <3>1, <3>2, AppendedStarts
    <2>5. CASE ConsolidateForce /\ EntryDone
      BY <2>4, <2>5, EraseBegins DEF EntryDone
    <2>6. CASE sent' = sent + 1 /\ UNCHANGED <<pc, raw, size>>
      <3>1. NextStart' = write_address + (size - sent)
        BY <2>2, <2>6 DEF NextStart
      <3>2. StartsKnown'
        BY <2>2, <2>4, <2>6, <3>1 DEF StartsKnown
      <3>3. QED
        BY <2>2, <2>3, <2>6, <3>2 DEF LogInv, NothingAfterWriteAddress
    <2>7. CASE sent + 1 = size /\ Return(SUCCESS)
      <3>1. write_address' = write_address + (size - sent) /\ write_address' \in Nat
        BY <2>2, <2>7
      <3>2. QED
        BY <2>3, <2>4, <2>7, <3>1, ReturnAtStart
    <2>8. QED
      BY <1>11, <2>5, <2>6, <2>7 DEF wear_leveling_append_raw
  <1>12. CASE AppendFails
    BY <1>12, <1>a, <1>b DEF AppendFails, WriteFails, SoundStore
  <1>13. ASSUME NEW r \in Requests, wear_leveling_write(r) PROVE LogInv'
    <2>1. /\ pc = "idle" /\ pc' \in {"idle", "append"}
          /\ wlog' = wlog /\ UNCHANGED <<write_address, size, sent>>
      BY <1>13 DEF wear_leveling_write, store, entryVars
    <2>2. StartsKnown'
      BY <1>c, <2>1, SameLog DEF StartsKnown, NextStart
    <2>3. QED
      BY <1>d, <2>1, <2>2 DEF LogInv, NothingAfterWriteAddress
  <1>14. CASE wear_leveling_erase
    <2>1. /\ pc = "idle" /\ wlog' = wlog /\ UNCHANGED <<write_address, size, sent>>
          /\ pc' = pc \/ ConsolidateForce
      BY <1>14 DEF wear_leveling_erase, store, entryVars
    <2>2. PICK S : EntryStarts(S) /\ NextStart \in S
      BY <1>c, <2>1
    <2>3. EntryStarts(S)'
      BY <2>1, <2>2, SameLog
    <2>4. CASE ConsolidateForce
      BY <1>d, <2>1, <2>3, <2>4, EraseBegins
    <2>5. CASE pc' = pc
      <3>1. StartsKnown'
        BY <2>1, <2>2, <2>3, <2>5 DEF StartsKnown, NextStart
      <3>2. QED
        BY <1>d, <2>1, <2>5, <3>1 DEF LogInv, NothingAfterWriteAddress
    <2>6. QED
      BY <2>1, <2>4, <2>5
  <1>15. CASE PowerLoss
    <2>1. pc' = "off" /\ wlog' = wlog /\ size' = 0 /\ sent' = 0
      BY <1>15 DEF PowerLoss, EntryDone, store
    <2>2. PICK S : EntryStarts(S)
      BY <1>15 DEF PowerLoss, LogInv, StartsKnown
    <2>3. StartsKnown'
      BY <2>1, <2>2, SameLog DEF StartsKnown
    <2>4. QED
      BY <2>1, <2>3 DEF LogInv, NothingAfterWriteAddress
  <1>16. CASE UNCHANGED vars
    <2>1. UNCHANGED <<wlog, write_address, pc, cursor, raw, size, sent>>
      BY <1>16 DEF vars
    <2>2. StartsKnown => StartsKnown'
      BY <2>1 DEF StartsKnown, EntryStarts, NextStart
    <2>3. QED
      BY <2>1, <2>2 DEF LogInv, NothingAfterWriteAddress, Erased
  <1>17. QED
    BY <1>1, <1>2, <1>3, <1>4, <1>5, <1>6, <1>7, <1>8, <1>9, <1>10, <1>11, <1>12, <1>13,
       <1>14, <1>15, <1>16 DEF Next, Step

(* The log has no gap and is written in order: whatever was written, erased  *)
(* and cut short before, everything at and behind write_address is blank, so *)
(* that no entry is programmed over another.  The write address that a power-*)
(* up finds by playing back a log with a torn entry at its end is behind the *)
(* words of that entry, for its length is in its first word.                 *)
THEOREM LogWrittenInOrder ==
  ASSUME SoundStore
  PROVE  Spec => []NothingAfterWriteAddress
  <1>0. "erase" \notin Faults
    BY DEF SoundStore
  <1>1. Init => TypeInv /\ BoundsInv /\ LogInv
    <2> SUFFICES ASSUME Init PROVE TypeInv /\ BoundsInv /\ LogInv
      OBVIOUS
    <2>1. pc = "off" /\ size = 0 /\ sent = 0 /\ Erased
      BY DEF Init, Erased
    <2>2. StartsKnown
      BY <2>1, ErasedStarts DEF StartsKnown
    <2>3. QED
      BY <2>1, <2>2, InitType DEF BoundsInv, LogInv, NothingAfterWriteAddress
  <1>2. TypeInv /\ BoundsInv /\ LogInv /\ [Next]_vars => (TypeInv /\ BoundsInv /\ LogInv)'
    BY <1>0, NextType, NextBounds, NextLog
  <1>3. TypeInv /\ BoundsInv /\ LogInv => NothingAfterWriteAddress
    BY DEF LogInv
  <1>4. QED
    BY <1>1, <1>2, <1>3, PTL DEF Spec

-----------------------------------------------------------------------------
(***************************************************************************)
(* What a power-up makes of the backing store: what playback of the log    *)
(* comes to, entry by entry, although entries may be torn, and that it is  *)
(* what was written.  At the end, the refinement of Eeprom.                *)
(***************************************************************************)

(* What playback has done to each byte by some point of the log. *)
Delta == [LogicalBytes -> Byte \cup {Keep}]

PatchBy(c, e) == Patch(c, e.at, e.len, e.data)

LEMMA NoChangeType == NoChange \in Delta
  BY DEF NoChange, Delta

LEMMA OverNoChange ==
  ASSUME NEW c \in Contents
  PROVE  Over(c, NoChange) = c
  BY DEF Over, NoChange, Contents

LEMMA OverType ==
  ASSUME NEW c \in Contents, NEW d \in Delta
  PROVE  Over(c, d) \in Contents
  BY DEF Over, Contents, Delta

LEMMA BaseType == TypeOK => Base \in Contents
  BY ZerosType DEF Base, TypeOK

(* A byte that an entry gives is never mistaken for one that is kept. *)
LEMMA DataIsNotKeep ==
  ASSUME NEW e \in DecodedEntry, NEW i \in 0..6
  PROVE  e.data[i] \in Byte /\ e.data[i] # Keep
  BY DEF DecodedEntry, Byte, Keep

LEMMA PatchByType ==
  ASSUME NEW e \in DecodedEntry
  PROVE  /\ \A d \in Delta : PatchBy(d, e) \in Delta
         /\ \A c \in Contents : PatchBy(c, e) \in Contents
  <1>1. e.at \in Nat /\ e.len \in 0..7
    BY DEF DecodedEntry
  <1>2. ASSUME NEW b \in LogicalBytes, e.at <= b, b < e.at + e.len
        PROVE  e.data[b - e.at] \in Byte
    <2>1. b - e.at \in 0..6
      BY <1>1, <1>2 DEF LogicalBytes
    <2>2. QED
      BY <2>1, DataIsNotKeep
  <1>3. QED
    BY <1>2 DEF PatchBy, Patch, Delta, Contents

(* Applying an entry to the changes is applying it to the contents. *)
LEMMA OverPatch ==
  ASSUME NEW e \in DecodedEntry, NEW c, NEW d
  PROVE  Over(c, PatchBy(d, e)) = PatchBy(Over(c, d), e)
  <1>1. e.at \in Nat /\ e.len \in 0..7
    BY DEF DecodedEntry
  <1>2. ASSUME NEW b \in LogicalBytes
        PROVE  Over(c, PatchBy(d, e))[b] = PatchBy(Over(c, d), e)[b]
    <2>1. CASE e.at <= b /\ b < e.at + e.len
      <3>1. b - e.at \in 0..6
        BY <1>1, <2>1 DEF LogicalBytes
      <3>2. e.data[b - e.at] # Keep
        BY <3>1, DataIsNotKeep
      <3>3. QED
        BY <2>1, <3>2 DEF Over, PatchBy, Patch
    <2>2. CASE ~(e.at <= b /\ b < e.at + e.len)
      BY <2>2 DEF Over, PatchBy, Patch
    <2>3. QED
      BY <2>1, <2>2
  <1>3. QED
    BY <1>2 DEF Over, PatchBy, Patch

(* The entry first and the later ones after it, or both at once. *)
LEMMA OverThen ==
  ASSUME NEW e \in DecodedEntry, NEW c, NEW later
  PROVE  Over(c, Then(e, later)) = Over(PatchBy(c, e), later)
  <1>1. e.at \in Nat /\ e.len \in 0..7
    BY DEF DecodedEntry
  <1>2. ASSUME NEW b \in LogicalBytes
        PROVE  Over(c, Then(e, later))[b] = Over(PatchBy(c, e), later)[b]
    <2>1. CASE e.at <= b /\ b < e.at + e.len
      <3>1. b - e.at \in 0..6
        BY <1>1, <2>1 DEF LogicalBytes
      <3>2. e.data[b - e.at] # Keep
        BY <3>1, DataIsNotKeep
      <3>3. QED
        BY <2>1, <3>2 DEF Over, Then, PatchBy, Patch
    <2>2. CASE ~(e.at <= b /\ b < e.at + e.len)
      BY <2>2 DEF Over, Then, PatchBy, Patch
    <2>3. QED
      BY <2>1, <2>2
  <1>3. QED
    BY <1>2 DEF Over

-----------------------------------------------------------------------------
(* The bytes of an entry that decide what it does are those of its words,    *)
(* and what lies behind the union for a length that is too large.            *)
SameBytes(entry, other) ==
  /\ entry[0] = other[0]
  /\ \A i \in 0..7 : i < HeaderWords(entry[0]) * W => entry[i] = other[i]
  /\ Decode(entry).len <= 5 \/ (entry[8] = other[8] /\ entry[9] = other[9])

LEMMA SameBytesSameEntry ==
  ASSUME NEW entry \in Raw8, NEW other \in Raw8, SameBytes(entry, other)
  PROVE  /\ Decode(other).ok = Decode(entry).ok
         /\ \A c : PatchBy(c, Decode(other)) = PatchBy(c, Decode(entry))
         /\ Decode(other).at = Decode(entry).at /\ Decode(other).len = Decode(entry).len
  <1>1. entry[0] \in Byte /\ entry[0] = other[0]
    BY DEF Raw8, SameBytes
  <1>2. CASE entry[0] \div 64 = 0
    <2> DEFINE l == (entry[0] \div 8) % 8
    <2>1. l \in 0..7 /\ HeaderWords(entry[0]) = MultibyteWords(l)
      BY <1>1, <1>2 DEF HeaderWords, Byte
    <2>2. Decode(entry) = Multibyte(entry) /\ Decode(other) = Multibyte(other)
      BY <1>1, <1>2 DEF Decode, LOG_ENTRY_GET_TYPE, LOG_ENTRY_TYPE_MULTIBYTE
    <2>3. LOG_ENTRY_MULTIBYTE_GET_LENGTH(entry) = l /\ LOG_ENTRY_MULTIBYTE_GET_LENGTH(other) = l
      BY <1>1 DEF LOG_ENTRY_MULTIBYTE_GET_LENGTH
    <2> HIDE DEF l
    <2>4. /\ \A i \in 0..7 : i < 3 + l => i < MultibyteWords(l) * W
          /\ 1 < MultibyteWords(l) * W /\ 2 < MultibyteWords(l) * W
      <3>1. CASE W = 2  BY <2>1, <3>1 DEF MultibyteWords
      <3>2. CASE W = 4  BY <2>1, <3>2 DEF MultibyteWords
      <3>3. CASE W = 8  BY <2>1, <3>3 DEF MultibyteWords
      <3>4. QED
        BY <3>1, <3>2, <3>3, WearLevelingAssumption
    <2>5. entry[1] = other[1] /\ entry[2] = other[2]
      BY <2>1, <2>4 DEF SameBytes
    <2>6. LOG_ENTRY_MULTIBYTE_GET_ADDRESS(entry) = LOG_ENTRY_MULTIBYTE_GET_ADDRESS(other)
      BY <1>1, <2>5 DEF LOG_ENTRY_MULTIBYTE_GET_ADDRESS
    <2>7. Decode(entry).len = l /\ Decode(other).len = l
      BY <2>2, <2>3 DEF Multibyte
    <2>8. /\ Decode(entry).at = Decode(other).at
          /\ Decode(other).ok = Decode(entry).ok
      BY <2>2, <2>3, <2>6 DEF Multibyte
    <2>9. ASSUME NEW i \in 0..6, i < l PROVE Decode(entry).data[i] = Decode(other).data[i]
      <3>1. Decode(entry).data[i] = entry[3 + i] /\ Decode(other).data[i] = other[3 + i]
        BY <2>2 DEF Multibyte
      <3>2. CASE 3 + i <= 7
        <4>1. 3 + i \in 0..7 /\ 3 + i < 3 + l
          BY <2>1, <2>9, <3>2
        <4>2. entry[3 + i] = other[3 + i]
          BY <2>1, <2>4, <4>1 DEF SameBytes
        <4>3. QED
          BY <3>1, <4>2
      <3>3. CASE 3 + i > 7
        <4>1. 3 + i \in {8, 9} /\ ~(l <= 5)
          BY <2>1, <2>9, <3>3
        <4>2. entry[3 + i] = other[3 + i]
          BY <2>7, <4>1 DEF SameBytes
        <4>3. QED
          BY <3>1, <4>2
      <3>4. QED
        BY <3>2, <3>3
    <2>10. Decode(entry).at \in Nat
      BY DecodeType DEF DecodedEntry
    <2>11. ASSUME NEW c PROVE PatchBy(c, Decode(other)) = PatchBy(c, Decode(entry))
      <3>1. ASSUME NEW b \in LogicalBytes, Decode(entry).at <= b, b < Decode(entry).at + l
            PROVE  Decode(entry).data[b - Decode(entry).at] = Decode(other).data[b - Decode(entry).at]
        <4>1. b - Decode(entry).at \in 0..6 /\ b - Decode(entry).at < l
          BY <2>1, <2>10, <3>1 DEF LogicalBytes
        <4>2. QED
          BY <2>9, <4>1
      <3>2. QED
        BY <2>7, <2>8, <3>1 DEF PatchBy, Patch
    <2>12. QED
      BY <2>7, <2>8, <2>11
  <1>3. CASE entry[0] \div 64 # 0
    <2>1. CASE W = 2
      <3>1. HeaderWords(entry[0]) * W = 2
        BY <1>3, <2>1 DEF HeaderWords
      <3>2. entry[1] = other[1]
        BY <3>1 DEF SameBytes
      <3>3. Optimized64(entry) = Optimized64(other) /\ Word01(entry) = Word01(other)
        BY <1>1, <3>2 DEF Optimized64, Word01, LOG_ENTRY_OPTIMIZED_64_GET_ADDRESS,
          LOG_ENTRY_OPTIMIZED_64_GET_VALUE, LOG_ENTRY_WORD_01_GET_ADDRESS, LOG_ENTRY_WORD_01_GET_VALUE
      <3>4. Decode(entry) = Decode(other)
        BY <1>1, <1>3, <3>3 DEF Decode, LOG_ENTRY_GET_TYPE, LOG_ENTRY_TYPE_MULTIBYTE
      <3>5. QED
        BY <3>4
    <2>2. CASE W # 2
      <3>1. Decode(entry) = BadEntry /\ Decode(other) = BadEntry
        BY <1>1, <1>3, <2>2 DEF Decode, LOG_ENTRY_GET_TYPE, LOG_ENTRY_TYPE_MULTIBYTE
      <3>2. QED
        BY <3>1
    <2>3. QED
      BY <2>1, <2>2
  <1>4. QED
    BY <1>2, <1>3

-----------------------------------------------------------------------------
(* An entry of which only the first n words were programmed. *)
Cut(entry, n) == [i \in 0..9 |-> IF i < n * W THEN entry[i] ELSE 0]

LEMMA CutType ==
  ASSUME NEW entry \in Raw8, NEW n \in Nat
  PROVE  Cut(entry, n) \in Raw8
  BY DEF Cut, Raw8, Byte

(* A torn entry is still accepted, with its length: an address that lost its *)
(* low byte is only smaller.  With words of four or eight bytes it has its   *)
(* whole address.                                                            *)
LEMMA CutOk ==
  ASSUME NEW entry \in Raw8, NEW n \in Nat \ {0}, Decode(entry).ok
  PROVE  LET torn == Decode(Cut(entry, n))
         IN /\ torn.ok /\ torn.len = Decode(entry).len
            /\ W # 2 => torn.at = Decode(entry).at
            /\ Cut(entry, n)[0] = entry[0]
  <1> DEFINE torn == Cut(entry, n)
  <1>1. /\ torn[0] = entry[0] /\ torn[1] = entry[1] /\ torn[2] \in {0, entry[2]}
        /\ W # 2 => torn[2] = entry[2]
    <2>1. 0 < n * W /\ 1 < n * W /\ (W # 2 => 2 < n * W)
      BY WearLevelingAssumption
    <2>2. QED
      BY <2>1 DEF Cut
  <1>2. entry[0] \in Byte /\ entry[1] \in Byte /\ entry[2] \in Byte
    BY DEF Raw8
  <1>3. torn \in Raw8
    BY CutType
  <1> HIDE DEF torn
  <1>4. CASE entry[0] \div 64 = 0
    <2>1. Decode(entry) = Multibyte(entry) /\ Decode(torn) = Multibyte(torn)
      BY <1>1, <1>4 DEF Decode, LOG_ENTRY_GET_TYPE, LOG_ENTRY_TYPE_MULTIBYTE
    <2>2. LOG_ENTRY_MULTIBYTE_GET_LENGTH(entry) = LOG_ENTRY_MULTIBYTE_GET_LENGTH(torn)
      BY <1>1 DEF LOG_ENTRY_MULTIBYTE_GET_LENGTH
    <2> DEFINE x == ((entry[0] % 8) * 256) + entry[1]
               a == LOG_ENTRY_MULTIBYTE_GET_ADDRESS(entry)
               t == LOG_ENTRY_MULTIBYTE_GET_ADDRESS(torn)
               l == LOG_ENTRY_MULTIBYTE_GET_LENGTH(entry)
    <2>3. x \in Nat /\ l \in Nat
      <3>1. ASSUME NEW u \in 0..255, NEW v \in 0..255
            PROVE  ((u % 8) * 256) + v \in Nat /\ (u \div 8) % 8 \in Nat
        OBVIOUS
      <3>2. QED
        BY <1>2, <3>1 DEF Byte, LOG_ENTRY_MULTIBYTE_GET_LENGTH
    <2>4. a = (x * 256) + entry[2] /\ t = (x * 256) + torn[2]
      BY <1>1 DEF LOG_ENTRY_MULTIBYTE_GET_ADDRESS
    <2> HIDE DEF x, a, t, l
    <2>5. a \in Nat /\ t \in Nat /\ t <= a
      BY <1>1, <1>2, <2>3, <2>4 DEF Byte
    <2>6. a + l <= WEAR_LEVELING_LOGICAL_SIZE
      <3>1. Multibyte(entry).ok = (a + l <= WEAR_LEVELING_LOGICAL_SIZE)
        BY Zenon DEF Multibyte, a, l
      <3>2. QED
        BY <2>1, <3>1
    <2>7. t + l <= WEAR_LEVELING_LOGICAL_SIZE
      BY <2>3, <2>5, <2>6, WearLevelingAssumption
    <2>8. Multibyte(torn).ok
      BY <2>2, <2>7, MultibyteInRange DEF t, l
    <2>9. Multibyte(torn).len = Multibyte(entry).len /\ (t = a => Multibyte(torn).at = Multibyte(entry).at)
      BY <2>2 DEF Multibyte, t, a
    <2>10. W # 2 => t = a
      BY <1>1, <2>4
    <2>11. QED
      BY <1>1, <2>1, <2>8, <2>9, <2>10 DEF torn
  <1>5. CASE entry[0] \div 64 # 0
    <2>1. Optimized64(entry) = Optimized64(torn) /\ Word01(entry) = Word01(torn)
      BY <1>1 DEF Optimized64, Word01, LOG_ENTRY_OPTIMIZED_64_GET_ADDRESS,
        LOG_ENTRY_OPTIMIZED_64_GET_VALUE, LOG_ENTRY_WORD_01_GET_ADDRESS, LOG_ENTRY_WORD_01_GET_VALUE
    <2>2. Decode(entry) = Decode(torn)
      BY <1>1, <1>5, <2>1 DEF Decode, LOG_ENTRY_GET_TYPE, LOG_ENTRY_TYPE_MULTIBYTE
    <2>3. QED
      BY <1>1, <2>2 DEF torn
  <1>6. QED
    BY <1>4, <1>5

(* EntryAt for any contents of the log. *)
EntryIn(log, a, far) ==
  [i \in 0..9 |->
     LET w == a + (i \div W)
     IN IF i < 8 /\ w < LogEnd THEN log[w][i % W] ELSE far[i % W]]

LEMMA EntryAtIn == \A a, far : EntryAt(a, far) = EntryIn(wlog, a, far)
  BY DEF EntryAt, EntryIn

LEMMA EntryInType ==
  ASSUME NEW log \in [LogWords -> Word], NEW a \in LogWords, NEW far \in Word
  PROVE  EntryIn(log, a, far) \in Raw8 /\ EntryIn(log, a, far)[0] = log[a][0]
  <1>1. ASSUME NEW i \in 0..9 PROVE EntryIn(log, a, far)[i] \in Byte
    <2> DEFINE w == a + (i \div W)
    <2>1. i \div W \in Nat /\ i % W \in 0..(W - 1)
      BY WearLevelingAssumption
    <2>2. w < LogEnd => w \in LogWords
      BY <2>1, Geometry DEF LogWords
    <2>3. far[i % W] \in Byte
      BY <2>1 DEF Word
    <2>4. w < LogEnd => log[w][i % W] \in Byte
      BY <2>1, <2>2 DEF Word
    <2>5. QED
      BY <2>3, <2>4 DEF EntryIn
  <1>2. EntryIn(log, a, far)[0] = log[a][0]
    <2>1. 0 \div W = 0 /\ 0 % W = 0
      BY WearLevelingAssumption
    <2>2. a \in Int /\ a < LogEnd
      BY Geometry DEF LogWords
    <2>3. QED
      BY <2>1, <2>2 DEF EntryIn
  <1>3. QED
    BY <1>1, <1>2 DEF EntryIn, Raw8

(* What playback reads at a, where the first n words of an entry stand and   *)
(* the rest of its words, in the store or past it, are blank, is that torn   *)
(* entry.                                                                    *)
LEMMA TornRead ==
  ASSUME NEW log, NEW a \in LogWords, NEW entry \in Raw8, NEW n \in Nat \ {0}, NEW far,
         Decode(entry).ok, Decode(entry).len <= 5,
         \A k \in 0..(HeaderWords(entry[0]) - 1) :
           (IF a + k < LogEnd THEN log[a + k] ELSE far)
             = IF k < n THEN EntryWord(entry, k) ELSE Blank
  PROVE  SameBytes(Cut(entry, n), EntryIn(log, a, far))
  <1> DEFINE torn == Cut(entry, n)
             read == EntryIn(log, a, far)
             words == HeaderWords(entry[0])
  <1>1. entry[0] \in Byte /\ words \in 1..4 /\ a \in Nat
    BY HeaderWordsType, Geometry DEF Raw8, LogWords
  <1>2. torn[0] = entry[0] /\ Decode(torn).len <= 5
    BY CutOk
  <1>3. ASSUME NEW i \in 0..7, i < words * W PROVE torn[i] = read[i]
    <2> DEFINE k == i \div W
               j == i % W
    <2>1. k \in 0..(words - 1) /\ j \in 0..(W - 1) /\ (k * W) + j = i /\ (k < n <=> i < n * W)
      <3>1. CASE W = 2  BY <1>1, <1>3, <3>1
      <3>2. CASE W = 4  BY <1>1, <1>3, <3>2
      <3>3. CASE W = 8  BY <1>1, <1>3, <3>3
      <3>4. QED
        BY <3>1, <3>2, <3>3, WearLevelingAssumption
    <2>2. PICK word : word = IF a + k < LogEnd THEN log[a + k] ELSE far
      OBVIOUS
    <2>3. read[i] = word[j]
      BY <2>2 DEF EntryIn
    <2>4. word = IF k < n THEN EntryWord(entry, k) ELSE Blank
      BY <2>1, <2>2
    <2>5. torn[i] = IF k < n THEN entry[i] ELSE 0
      BY <2>1 DEF Cut
    <2> HIDE DEF k, j
    <2>6. EntryWord(entry, k)[j] = entry[i] /\ Blank[j] = 0
      BY <2>1 DEF EntryWord, Blank
    <2>7. QED
      BY <2>3, <2>4, <2>5, <2>6
  <1>4. read[0] = torn[0]
    <2>1. 0 < words * W
      BY <1>1, WearLevelingAssumption
    <2>2. QED
      BY <1>3, <2>1
  <1>5. QED
    BY <1>2, <1>3, <1>4 DEF SameBytes

-----------------------------------------------------------------------------
(* An entry that ends at the word given can be told from the store, or what  *)
(* lies past the store is known to be blank.                                 *)
Readable(end) == end <= LogEnd \/ Beyond = {Blank}

(* g[a] is what playback has done when it comes to a, from the start of the  *)
(* log up to an entry that cannot be told from the store.                    *)
Playable(S, g) ==
  /\ g \in [S -> Delta]
  /\ g[LogStart] = NoChange
  /\ \A a \in S \cap LogWords, far \in Beyond :
       wlog[a] # Blank /\ Readable(a + HeaderWords(wlog[a][0])) =>
         /\ Decode(EntryIn(wlog, a, far)).ok
         /\ g[a + HeaderWords(wlog[a][0])] = PatchBy(g[a], Decode(EntryIn(wlog, a, far)))

(* The entry that is being written, and its words that are in the log. *)
EntryStart == write_address - sent
Written ==
  /\ Decode(raw).ok /\ Decode(raw).len <= 5
  /\ \A k \in 0..(sent - 1) : wlog[EntryStart + k] = EntryWord(raw, k)

LEMMA AppendedIs ==
  ASSUME Appending
  PROVE  wlog'[write_address] = EntryWord(raw, sent)
  <1>1. write_address \in LogWords
    BY DEF Appending, BoundsInv
  <1>2. wlog[write_address] = Blank
    BY AppendedWord
  <1>3. sent \in 0..(ChecksumWords - 1) /\ raw \in Raw8
    BY Geometry DEF Appending, TypeInv, TypeOK
  <1>4. EntryWord(raw, sent) \in Word
    BY <1>3, EntryWordType
  <1>5. wlog'[write_address]
          = [i \in 0..(W - 1) |-> BitOr(wlog[write_address][i], EntryWord(raw, sent)[i])]
    BY <1>1 DEF Appending, WriteOk
  <1> DEFINE word == EntryWord(raw, sent)
  <1> HIDE DEF word
  <1>6. ASSUME NEW i \in 0..(W - 1) PROVE BitOr(wlog[write_address][i], word[i]) = word[i]
    <2>1. word[i] \in Byte /\ wlog[write_address][i] = 0
      BY <1>2, <1>4 DEF Word, Blank, word
    <2>2. QED
      BY <2>1, BitOrZero
  <1>7. word = [i \in 0..(W - 1) |-> word[i]]
    BY <1>4 DEF Word, word
  <1>8. QED
    BY <1>5, <1>6, <1>7 DEF word

(* What an entry does that ends before a word that is written. *)
LEMMA EarlierEntry ==
  ASSUME NEW old \in [LogWords -> Word], NEW new \in [LogWords -> Word],
         NEW a \in LogWords, NEW p \in LogWords, NEW far \in Beyond,
         \A x \in LogWords : x # p => new[x] = old[x],
         a + HeaderWords(old[a][0]) <= p
  PROVE  /\ Decode(EntryIn(new, a, far)).ok = Decode(EntryIn(old, a, far)).ok
         /\ \A c : PatchBy(c, Decode(EntryIn(new, a, far))) = PatchBy(c, Decode(EntryIn(old, a, far)))
         /\ new[a] = old[a]
  <1> DEFINE read == EntryIn(old, a, far)
             again == EntryIn(new, a, far)
             words == HeaderWords(old[a][0])
  <1>1. far \in Word /\ 0 \in 0..(W - 1)
    BY WearLevelingAssumption
  <1>2. read \in Raw8 /\ again \in Raw8 /\ read[0] = old[a][0] /\ again[0] = new[a][0]
    BY <1>1, EntryInType
  <1>3. old[a][0] \in Byte
    BY <1>1 DEF Word
  <1>4. words \in 1..4 /\ a \in Nat /\ p \in Nat /\ p < LogEnd /\ a < p /\ a + words <= p
    BY <1>3, HeaderWordsType, Geometry DEF LogWords
  <1>5. new[a] = old[a] /\ read[0] = again[0]
    BY <1>2, <1>4
  <1>6. ASSUME NEW i \in 0..7, i < words * W PROVE read[i] = again[i]
    <2> DEFINE k == i \div W
    <2>1. k \in 0..(words - 1)
      <3>1. CASE W = 2  BY <1>4, <1>6, <3>1
      <3>2. CASE W = 4  BY <1>4, <1>6, <3>2
      <3>3. CASE W = 8  BY <1>4, <1>6, <3>3
      <3>4. QED
        BY <3>1, <3>2, <3>3, WearLevelingAssumption
    <2>2. a + k < p /\ a + k < LogEnd /\ a + k \in LogWords
      BY <1>4, <2>1, Geometry DEF LogWords
    <2>3. new[a + k] = old[a + k]
      <3>1. a + k # p
        BY <1>4, <2>1, <2>2
      <3> HIDE DEF k
      <3>2. QED
        BY <2>2, <3>1
    <2>4. read[i] = old[a + k][i % W] /\ again[i] = new[a + k][i % W]
      BY <2>2 DEF EntryIn
    <2>5. QED
      BY <2>3, <2>4
  <1>7. read[8] = again[8] /\ read[9] = again[9]
    BY DEF EntryIn
  <1> HIDE DEF read, again
  <1>8. SameBytes(read, again)
    BY <1>2, <1>5, <1>6, <1>7 DEF SameBytes
  <1>9. QED
    BY <1>2, <1>5, <1>8, SameBytesSameEntry DEF read, again

(* A word of an entry is programmed: the entries before do what they did,    *)
(* and this one what its words so far say.                                   *)
LEMMA AppendPlayable ==
  ASSUME Appending, Written, TypeInv',
         NEW S, EntryStarts(S), NextStart \in S, EntryStart \in S,
         NEW T, T = S \cup {write_address + (size - sent)},
         NEW g, Playable(S, g),
         NEW h, h = [x \in T |-> IF x = write_address + (size - sent)
                                 THEN PatchBy(g[EntryStart], Decode(Cut(raw, sent + 1)))
                                 ELSE g[x]]
  PROVE  Playable(T, h)'
  <1> DEFINE next == write_address + (size - sent)
             start == EntryStart
             torn == Cut(raw, sent + 1)
  <1>1. /\ write_address \in Nat /\ write_address \in LogWords /\ write_address < LogEnd
        /\ size \in Nat /\ sent \in Nat /\ sent < size /\ raw \in Raw8
        /\ wlog \in [LogWords -> Word] /\ wlog' \in [LogWords -> Word]
    BY Geometry DEF Appending, TypeInv, TypeOK, BoundsInv, LogWords
  <1>2. start \in Nat /\ next \in Nat
    BY <1>1 DEF EntryStarts
  <1>3. /\ start + sent = write_address /\ start + size = next /\ next > write_address
        /\ start <= write_address
    BY <1>1, <1>2 DEF EntryStart
  <1>4. start \in LogWords
    <2>1. start >= LogStart
      <3>1. LogStart \in S
        BY DEF EntryStarts
      <3>2. ~(start < LogStart)
        BY <1>2, <3>1, Geometry DEF EntryStarts, LogWords
      <3>3. QED
        BY <1>2, <3>2, Geometry
    <2>2. QED
      BY <1>1, <1>2, <1>3, <2>1, Geometry DEF LogWords
  <1>5. HeaderWords(raw[0]) = size /\ Decode(raw).ok /\ Decode(raw).len <= 5
    BY <1>1 DEF Appending, LogInv, Written
  <1>6. /\ \A x \in LogWords : x # write_address => wlog'[x] = wlog[x]
        /\ wlog'[write_address] = EntryWord(raw, sent)
        /\ \A x \in LogWords : x \in Nat /\ (x >= write_address + 1 => wlog'[x] = Blank)
    BY AppendedWord, AppendedIs, AppendedBlank, Geometry DEF LogWords
  <1>7. \A k \in 0..(sent - 1) : wlog[start + k] = EntryWord(raw, k)
    BY DEF Written
  <1> HIDE DEF start, next
  <1>8. torn \in Raw8 /\ Decode(torn) \in DecodedEntry
    BY <1>1, CutType, DecodeType
  <1>9. ASSUME NEW k \in 0..(size - 1), start + k < LogEnd
        PROVE  wlog'[start + k] = IF k < sent + 1 THEN EntryWord(raw, k) ELSE Blank
    <2>1. start + k \in LogWords
      BY <1>2, <1>4, <1>9, Geometry DEF LogWords
    <2>2. CASE k < sent
      <3>1. k \in 0..(sent - 1) /\ start + k # write_address
        BY <1>1, <1>2, <1>3, <2>2
      <3>2. wlog'[start + k] = wlog[start + k] /\ wlog[start + k] = EntryWord(raw, k)
        BY <1>6, <1>7, <2>1, <3>1
      <3>3. k < sent + 1
        BY <1>1, <2>2
      <3>4. QED
        BY <3>2, <3>3
    <2>3. CASE k = sent
      BY <1>1, <1>3, <1>6, <2>3
    <2>4. CASE k > sent
      <3>1. start + k >= write_address + 1
        BY <1>1, <1>2, <1>3, <2>4
      <3>2. wlog'[start + k] = Blank
        BY <1>6, <2>1, <3>1
      <3>3. ~(k < sent + 1)
        BY <1>1, <2>4
      <3>4. QED
        BY <3>2, <3>3
    <2>5. QED
      BY <1>1, <2>2, <2>3, <2>4
  <1>10. wlog'[start] = EntryWord(raw, 0) /\ wlog'[start][0] = raw[0]
    <2>1. 0 \in 0..(size - 1) /\ start + 0 = start /\ start < LogEnd /\ 0 < sent + 1
      BY <1>1, <1>2, <1>3, Geometry
    <2>2. 0 \in 0..(W - 1) /\ (0 * W) + 0 = 0
      BY WearLevelingAssumption
    <2>3. wlog'[start] = EntryWord(raw, 0)
      BY <1>9, <2>1
    <2>4. QED
      BY <2>2, <2>3 DEF EntryWord
  <1>11. T = S \cup {next}
    BY DEF next
  <1>12. h = [x \in T |-> IF x = next THEN PatchBy(g[start], Decode(torn)) ELSE g[x]]
    BY DEF next, start
  <1>13. g \in [S -> Delta] /\ g[LogStart] = NoChange /\ LogStart \in S /\ start \in S
    BY DEF Playable, EntryStarts, start
  <1>14. h \in [T -> Delta] /\ h[LogStart] = NoChange
    <2>1. PatchBy(g[start], Decode(torn)) \in Delta
      BY <1>8, <1>13, PatchByType
    <2>2. LogStart # next
      BY <1>1, <1>3, <1>4, Geometry DEF LogWords
    <2> HIDE DEF torn
    <2>3. QED
      BY <1>11, <1>12, <1>13, <2>1, <2>2
  <1>15. ASSUME NEW a \in S, a # next PROVE a = start \/ (a < start /\ a \in LogWords /\ wlog[a] # Blank
                                                        /\ a + HeaderWords(wlog[a][0]) <= start)
    <2>1. a \in Nat
      BY DEF EntryStarts
    <2>2. ASSUME a > start PROVE FALSE
      <3>1. CASE sent = 0
        <4>1. start = write_address
          BY <1>1, <1>2, <1>3, <3>1
        <4>2. QED
          BY <1>13, <2>2, <4>1, AppendedWord DEF EntryStarts
      <3>2. CASE sent # 0
        <4>1. wlog[start] = wlog'[start]
          BY <1>1, <1>3, <1>4, <1>6, <3>2
        <4>2. start + HeaderWords(wlog[start][0]) <= a
          BY <1>13, <2>2 DEF EntryStarts
        <4>3. next < a
          BY <1>2, <1>3, <1>5, <1>10, <1>15, <2>1, <4>1, <4>2
        <4>4. next \in S
          BY <3>2 DEF NextStart, next
        <4>5. next \in LogWords /\ wlog[next] # Blank
          BY <4>3, <4>4 DEF EntryStarts
        <4>6. wlog[next] = Blank
          <5>1. next >= write_address + 1 /\ next # write_address
            BY <1>1, <1>2, <1>3
          <5>2. QED
            BY <1>6, <4>5, <5>1
        <4>7. QED
          BY <4>5, <4>6
      <3>3. QED
        BY <3>1, <3>2
    <2>3. a < start \/ a = start
      BY <1>2, <2>1, <2>2
    <2>4. QED
      BY <1>13, <2>3 DEF EntryStarts
  <1>16. ASSUME NEW a \in T \cap LogWords, NEW far \in Beyond, wlog'[a] # Blank,
                Readable(a + HeaderWords(wlog'[a][0]))
         PROVE  /\ Decode(EntryIn(wlog', a, far)).ok
                /\ h[a + HeaderWords(wlog'[a][0])] = PatchBy(h[a], Decode(EntryIn(wlog', a, far)))
    <2>0. far \in Word
      BY WearLevelingAssumption
    <2>1. CASE a = next
      <3>1. next >= write_address + 1
        BY <1>1, <1>2, <1>3
      <3>2. QED
        BY <1>6, <1>16, <2>1, <3>1
    <2>2. CASE a = start
      <3>1. HeaderWords(wlog'[a][0]) = size /\ Readable(next)
        BY <1>3, <1>5, <1>10, <1>16, <2>2
      <3>2. ASSUME NEW k \in 0..(size - 1)
            PROVE  (IF start + k < LogEnd THEN wlog'[start + k] ELSE far)
                     = IF k < sent + 1 THEN EntryWord(raw, k) ELSE Blank
        <4>1. CASE start + k < LogEnd
          BY <1>9, <4>1
        <4>2. CASE ~(start + k < LogEnd)
          <5>1. ~(next <= LogEnd) /\ ~(k < sent + 1)
            BY <1>1, <1>2, <1>3, <4>2, Geometry
          <5>2. far = Blank
            BY <3>1, <5>1 DEF Readable
          <5>3. QED
            BY <4>2, <5>1, <5>2
        <4>3. QED
          BY <4>1, <4>2
      <3>3. sent + 1 \in Nat \ {0}
        BY <1>1
      <3>4. SameBytes(torn, EntryIn(wlog', start, far))
        BY <1>1, <1>4, <1>5, <3>2, <3>3, TornRead
      <3>5. EntryIn(wlog', start, far) \in Raw8
        BY <1>1, <1>4, <2>0, EntryInType
      <3>6. Decode(torn).ok
        BY <1>1, <1>5, <3>3, CutOk
      <3> HIDE DEF torn
      <3>7. /\ Decode(EntryIn(wlog', start, far)).ok
            /\ PatchBy(g[start], Decode(EntryIn(wlog', start, far))) = PatchBy(g[start], Decode(torn))
        BY <1>8, <3>4, <3>5, <3>6, SameBytesSameEntry
      <3>8. h[next] = PatchBy(g[start], Decode(torn)) /\ h[start] = g[start] /\ start + size = next
        BY <1>1, <1>2, <1>3, <1>11, <1>12, <1>13
      <3>9. QED
        BY <2>2, <3>1, <3>7, <3>8
    <2>3. CASE a # next /\ a # start
      <3>1. a \in S /\ a \in LogWords /\ wlog[a] # Blank /\ a + HeaderWords(wlog[a][0]) <= start /\ a < start
        BY <1>11, <1>15, <2>3
      <3>2. wlog[a][0] \in Byte
        BY <1>1, <3>1, WearLevelingAssumption DEF Word
      <3>3. HeaderWords(wlog[a][0]) \in 1..4 /\ a \in Nat
        BY <1>6, <3>1, <3>2, HeaderWordsType
      <3>4. a + HeaderWords(wlog[a][0]) <= write_address /\ a + HeaderWords(wlog[a][0]) <= LogEnd
        BY <1>1, <1>2, <1>3, <3>1, <3>3, Geometry
      <3>5. /\ Decode(EntryIn(wlog', a, far)).ok = Decode(EntryIn(wlog, a, far)).ok
            /\ PatchBy(g[a], Decode(EntryIn(wlog', a, far))) = PatchBy(g[a], Decode(EntryIn(wlog, a, far)))
            /\ wlog'[a] = wlog[a]
        BY <1>1, <1>6, <3>1, <3>4, EarlierEntry
      <3>6. /\ Decode(EntryIn(wlog, a, far)).ok
            /\ g[a + HeaderWords(wlog[a][0])] = PatchBy(g[a], Decode(EntryIn(wlog, a, far)))
        BY <3>1, <3>4 DEF Playable, Readable
      <3>7. a + HeaderWords(wlog[a][0]) \in S /\ a + HeaderWords(wlog[a][0]) # next
        <4>1. a + HeaderWords(wlog[a][0]) \in S
          BY <3>1 DEF EntryStarts
        <4>2. a + HeaderWords(wlog[a][0]) # next
          BY <1>1, <1>2, <1>3, <3>1, <3>3
        <4>3. QED
          BY <4>1, <4>2
      <3>8. h[a] = g[a] /\ h[a + HeaderWords(wlog[a][0])] = g[a + HeaderWords(wlog[a][0])]
        BY <1>11, <1>12, <2>3, <3>1, <3>7
      <3>9. QED
        BY <3>5, <3>6, <3>8
    <2>4. QED
      BY <2>1, <2>2, <2>3
  <1>17. QED
    BY <1>14, <1>16 DEF Playable

-----------------------------------------------------------------------------
(* The bytes of a request from o on, written to c. *)
Rest(r, c, o) ==
  Patch(c, r.address + o, r.length - o, [i \in 0..(r.length - o - 1) |-> r.value[o + i]])

LEMMA RestAll ==
  ASSUME NEW r \in Requests, NEW c
  PROVE  Rest(r, c, 0) = Patch(c, r.address, r.length, r.value)
  <1>1. r.address \in Nat /\ r.length \in Nat
    BY RequestType
  <1>2. ASSUME NEW b \in LogicalBytes, r.address <= b, b < r.address + r.length
        PROVE  [i \in 0..(r.length - 0 - 1) |-> r.value[0 + i]][b - (r.address + 0)]
                 = r.value[b - r.address]
    <2>1. /\ b - r.address \in 0..(r.length - 0 - 1)
          /\ b - (r.address + 0) = b - r.address /\ 0 + (b - r.address) = b - r.address
      BY <1>1, <1>2 DEF LogicalBytes
    <2>2. QED
      BY <2>1
  <1>3. r.address + 0 = r.address /\ r.length - 0 = r.length
    BY <1>1
  <1>4. QED
    BY <1>2, <1>3 DEF Rest, Patch

LEMMA RestNothing ==
  ASSUME NEW r \in Requests, NEW c \in Contents
  PROVE  Rest(r, c, r.length) = c
  <1>1. r.address \in Nat /\ r.length \in Nat
    BY RequestType
  <1>2. r.length - r.length = 0 /\ \A b \in LogicalBytes : ~(r.address + r.length <= b
          /\ b < r.address + r.length + 0)
    BY <1>1 DEF LogicalBytes
  <1>3. QED
    BY <1>2 DEF Rest, Patch, Contents

(* The next entry and the rest behind it. *)
LEMMA RestSplit ==
  ASSUME NEW r \in Requests, NEW c, NEW o \in Nat, NEW e \in DecodedEntry,
         o + e.len <= r.length, e.at = r.address + o,
         \A i \in 0..(e.len - 1) : e.data[i] = r.value[o + i]
  PROVE  Rest(r, PatchBy(c, e), o + e.len) = Rest(r, c, o)
  <1> DEFINE n == e.len
             a == r.address
             l == r.length
             whole == [i \in 0..(l - o - 1) |-> r.value[o + i]]
             rest == [i \in 0..(l - (o + n) - 1) |-> r.value[o + n + i]]
  <1>1. a \in Nat /\ l \in Nat /\ n \in Nat
    BY RequestType DEF DecodedEntry
  <1>2. ASSUME NEW b \in LogicalBytes
        PROVE  Rest(r, PatchBy(c, e), o + n)[b] = Rest(r, c, o)[b]
    <2>0. b \in Nat
      BY DEF LogicalBytes
    <2>1. CASE a + o <= b /\ b < a + o + n
      <3>1. b - (a + o) \in 0..(n - 1) /\ b - (a + o) \in 0..(l - o - 1)
            /\ ~(a + (o + n) <= b) /\ b < a + o + (l - o)
        BY <1>1, <2>0, <2>1
      <3>2. e.data[b - (a + o)] = r.value[o + (b - (a + o))]
        BY <3>1
      <3>3. Rest(r, c, o)[b] = whole[b - (a + o)]
        BY <2>1, <3>1 DEF Rest, Patch
      <3>4. Rest(r, PatchBy(c, e), o + n)[b] = PatchBy(c, e)[b]
        BY <3>1 DEF Rest, Patch
      <3>5. PatchBy(c, e)[b] = e.data[b - (a + o)]
        BY <2>1 DEF PatchBy, Patch
      <3>6. QED
        BY <3>1, <3>2, <3>3, <3>4, <3>5
    <2>2. CASE a + o + n <= b /\ b < a + l
      <3>1. /\ a + (o + n) <= b /\ b < a + (o + n) + (l - (o + n)) /\ a + o <= b
            /\ b < a + o + (l - o)
            /\ b - (a + (o + n)) \in 0..(l - (o + n) - 1) /\ b - (a + o) \in 0..(l - o - 1)
            /\ o + n + (b - (a + (o + n))) = o + (b - (a + o))
        BY <1>1, <2>0, <2>2
      <3>2. Rest(r, c, o)[b] = whole[b - (a + o)]
        BY <3>1 DEF Rest, Patch
      <3>3. Rest(r, PatchBy(c, e), o + n)[b] = rest[b - (a + (o + n))]
        BY <3>1 DEF Rest, Patch
      <3>4. QED
        BY <3>1, <3>2, <3>3
    <2>3. CASE b < a + o \/ b >= a + l
      <3>1. /\ ~(a + (o + n) <= b /\ b < a + (o + n) + (l - (o + n)))
            /\ ~(a + o <= b /\ b < a + o + (l - o)) /\ ~(a + o <= b /\ b < a + o + n)
        BY <1>1, <2>0, <2>3
      <3>2. Rest(r, c, o)[b] = c[b] /\ Rest(r, PatchBy(c, e), o + n)[b] = PatchBy(c, e)[b]
        BY <3>1 DEF Rest, Patch
      <3>3. PatchBy(c, e)[b] = c[b]
        BY <3>1 DEF PatchBy, Patch
      <3>4. QED
        BY <3>2, <3>3
    <2>4. QED
      BY <1>1, <2>0, <2>1, <2>2, <2>3
  <1>3. QED
    BY <1>2 DEF Rest, Patch

(* wear_leveling_write_raw encodes the next bytes of the request. *)
LEMMA NextEntry ==
  ASSUME TypeInv, wear_leveling_write_raw,
         req.address + req.length <= WEAR_LEVELING_LOGICAL_SIZE, off <= req.length
  PROVE  LET e == Decode(raw')
         IN /\ e.ok /\ e.len <= 5 /\ e.at = req.address + off
            /\ off' = off + e.len /\ off' <= req.length
            /\ \A i \in 0..(e.len - 1) : e.data[i] = req.value[off + i]
  <1> DEFINE a == req.address + off
             remaining == req.length - off
             p == [i \in 0..(remaining - 1) |-> req.value[off + i]]
             l == MultibyteLength(remaining)
             size0 == WEAR_LEVELING_LOGICAL_SIZE
  <1>1. req \in Requests /\ off \in Nat /\ remaining > 0
    BY DEF wear_leveling_write_raw, TypeInv, TypeOK
  <1>2. req.address \in Nat /\ req.length \in Nat /\ req.value \in [0..(req.length - 1) -> Byte]
    BY <1>1, RequestType
  <1>3. /\ a \in Nat /\ remaining \in Nat /\ l \in 1..5 /\ l <= remaining
        /\ a + remaining <= size0 /\ size0 <= 524288 /\ a < 524288 /\ size0 \in Nat
    <2>1. size0 \in Nat /\ size0 <= 524288
      BY WearLevelingAssumption, SMT
    <2>2. off < req.length /\ req.address + req.length <= size0
      BY <1>1, <1>2
    <2>3. remaining \in Nat \ {0} /\ a \in Nat /\ a + remaining <= size0
      BY <1>1, <1>2, <2>1, <2>2, SMT
    <2> HIDE DEF a, remaining, size0
    <2>4. l \in 1..5 /\ l <= remaining
      BY <2>3, SMT DEF MultibyteLength, LOG_ENTRY_MULTIBYTE_MAX_BYTES
    <2>5. QED
      BY <2>1, <2>3, <2>4, SMT
  <1>4. \A i \in 0..(remaining - 1) : p[i] = req.value[off + i] /\ p[i] \in Byte
    BY <1>1, <1>2
  <1>5. 0 \in 0..(remaining - 1) /\ off + 0 = off
    BY <1>1, <1>3
  <1> HIDE DEF a, remaining, p, l, size0
  <1>6. CASE /\ FitsWord01(a, remaining, p)
             /\ raw' = LOG_ENTRY_MAKE_WORD_01(a, p[0]) /\ off' = off + 2
    <2>1. /\ W = 2 /\ remaining >= 2 /\ a % 2 = 0 /\ a < WORD_01_LIMIT
          /\ p[0] \in {0, 1} /\ p[1] = 0
      BY <1>6 DEF FitsWord01
    <2>2. PICK h \in Nat : a = 2 * h
      BY <1>3, <2>1
    <2>3. h < 8192 /\ (2 * h) + 1 < size0
      BY <1>3, <2>1, <2>2, WearLevelingAssumption
    <2>4. LET e == Decode(raw')
          IN e.ok /\ e.at = 2 * h /\ e.len = 2 /\ e.data[0] = p[0] /\ e.data[1] = 0
      BY <1>6, <2>1, <2>2, <2>3, Word01RoundTrip DEF size0
    <2>5. p[1] = req.value[off + 1] /\ p[0] = req.value[off + 0]
      BY <1>3, <1>4, <2>1
    <2>6. \A i \in 0..(2 - 1) : i = 0 \/ i = 1
      OBVIOUS
    <2>7. off' <= req.length
      BY <1>1, <1>2, <1>6, <2>1 DEF remaining
    <2>8. QED
      BY <1>6, <2>1, <2>2, <2>4, <2>5, <2>6, <2>7 DEF a
  <1>7. CASE /\ FitsOptimized64(a)
             /\ raw' = LOG_ENTRY_MAKE_OPTIMIZED_64(a, p[0]) /\ off' = off + 1
    <2>1. W = 2 /\ a \in 0..63 /\ p[0] \in Byte /\ a < size0
      <3>1. W = 2 /\ a < OPTIMIZED_64_LIMIT /\ OPTIMIZED_64_LIMIT \in 0..64
        BY <1>7, WearLevelingAssumption, SMT DEF FitsOptimized64
      <3>2. a \in 0..63 /\ a < size0
        BY <1>3, <1>5, <3>1, SMT
      <3>3. p[0] \in Byte
        BY <1>4, <1>5
      <3>4. QED
        BY <3>1, <3>2, <3>3
    <2>2. LET e == Decode(raw')
          IN e.ok /\ e.at = a /\ e.len = 1 /\ e.data[0] = p[0]
      BY <1>7, <2>1, Optimized64RoundTrip DEF size0
    <2>3. p[0] = req.value[off + 0]
      BY <1>4, <1>5
    <2>4. \A i \in 0..(1 - 1) : i = 0
      OBVIOUS
    <2>5. off' <= req.length
      BY <1>1, <1>2, <1>7 DEF remaining
    <2>6. QED
      BY <1>7, <2>2, <2>3, <2>4, <2>5 DEF a
  <1>8. CASE raw' = LOG_ENTRY_MAKE_MULTIBYTE(a, l, p) /\ off' = off + l
    <2>1. a + l <= size0
      BY <1>3
    <2>2. LET e == Decode(raw')
          IN e.ok /\ e.at = a /\ e.len = l /\ \A i \in 0..(l - 1) : e.data[i] = p[i]
      BY <1>3, <1>8, <2>1, MultibyteRoundTrip DEF size0
    <2>3. \A i \in 0..(l - 1) : i \in 0..(remaining - 1)
      BY <1>3
    <2>4. off' <= req.length
      <3>1. l \in Int /\ l <= req.length - off
        BY <1>3, SMT DEF remaining
      <3>2. QED
        BY <1>1, <1>2, <1>8, <3>1, SMT
    <2>5. l <= 5
      BY <1>3
    <2>6. QED
      BY <1>4, <1>8, <2>2, <2>3, <2>4, <2>5 DEF a
  <1>9. QED
    BY <1>6, <1>7, <1>8, Zenon DEF wear_leveling_write_raw, a, remaining, p, l

-----------------------------------------------------------------------------
(* The hypothesis of the theorems below.  A write whose unlock fails has     *)
(* changed the cache and leaves the store as it is.                          *)
DurableStore == SoundStore /\ "unlock" \notin Faults

InRequest(b) == req.address <= b /\ b < req.address + req.length

(* What the store says at each point of the code: the log, the entry that is *)
(* being written, the consolidated area and its checksum.                    *)
LogSays(S, g) ==
  /\ EntryStarts(S) /\ Playable(S, g)
  /\ pc = "playback" => cursor \in S /\ (Readable(cursor) => cache = Over(Base, g[cursor]))
  /\ pc = "idle" => write_address \in S /\ cache = Over(Base, g[write_address])
  /\ pc = "append" =>
       /\ NextStart \in S
       /\ sent = size => cache = Rest(req, Over(Base, g[write_address]), off)
       /\ sent # size =>
            /\ EntryStart \in S
            /\ cache = Rest(req, PatchBy(Over(Base, g[EntryStart]), Decode(raw)), off)

EntrySays ==
  /\ pc # "append" => off = 0
  /\ pc = "append" =>
       /\ req.address + req.length <= WEAR_LEVELING_LOGICAL_SIZE
       /\ off <= req.length
       /\ \A b \in LogicalBytes : ~InRequest(b) => cache[b] = before[b]
  /\ pc = "append" /\ size # 0 =>
       /\ Written
       /\ req.address <= Decode(raw).at
       /\ Decode(raw).at + Decode(raw).len <= req.address + req.length

ChecksumIndex == 0..(ChecksumWords - 1)
ChecksumAddress(i) == (WEAR_LEVELING_LOGICAL_SIZE \div W) + i

AreaSays ==
  /\ pc = "erase" =>
       \A i \in ChecksumIndex, k \in Nat :
         k < cursor /\ InSector(ChecksumAddress(i), k) => checksum[i] = NoHash
  /\ pc = "consolidate" =>
       /\ cursor * W < WEAR_LEVELING_LOGICAL_SIZE
       /\ \A i \in ChecksumIndex : checksum[i] = NoHash
       /\ \A b \in LogicalBytes : b \div W < cursor => consolidated[b] = cache[b]
  /\ pc = "checksum" =>
       /\ cursor < ChecksumWords
       /\ consolidated = cache
       /\ \A i \in ChecksumIndex : checksum[i] = IF i < cursor THEN cache ELSE NoHash

ReplayInv ==
  /\ EntrySays
  /\ AreaSays
  /\ pc # "erase" \/ "power" \in Faults => \E S, g : LogSays(S, g)

(* Where all invariants hold. *)
AllInv == TypeInv /\ BoundsInv /\ LogInv /\ ReplayInv

(* What lies in the store does not change. *)
LEMMA SamePlayable ==
  ASSUME NEW S, NEW g, Playable(S, g), wlog' = wlog
  PROVE  Playable(S, g)'
  BY DEF Playable

LEMMA SameBase == consolidated' = consolidated /\ checksum' = checksum => Base' = Base
  BY DEF Base

(* An erased log does nothing. *)
LEMMA ErasedPlayable ==
  ASSUME Erased', NEW g, g = [x \in {LogStart} |-> NoChange]
  PROVE  EntryStarts({LogStart})' /\ Playable({LogStart}, g)'
  <1>1. EntryStarts({LogStart})'
    BY Geometry DEF Erased, EntryStarts
  <1>2. g \in [{LogStart} -> Delta] /\ g[LogStart] = NoChange
    BY NoChangeType
  <1>3. QED
    BY <1>1, <1>2 DEF Erased, Playable

(* A missing checksum makes the consolidated area count as empty. *)
LEMMA NoChecksumBase ==
  ASSUME TypeOK, \A i \in ChecksumIndex : checksum[i] = NoHash
  PROVE  Base = Zeros
  <1>1. 0 \in 0..(ChecksumWords - 1) /\ NoHash \notin Contents /\ consolidated \in Contents
    BY Geometry, WearLevelingAssumption DEF TypeOK
  <1>2. checksum[0] # consolidated
    BY <1>1 DEF ChecksumIndex
  <1>3. QED
    BY <1>1, <1>2 DEF Base

(* A call returns. *)
LEMMA ReturnSays ==
  ASSUME NEW s, Return(s), NEW S, NEW g, EntryStarts(S)', Playable(S, g)',
         write_address' \in S, cache' = Over(Base', g[write_address'])
  PROVE  ReplayInv'
  <1>1. pc' = "idle" /\ off' = 0
    BY DEF Return, EntryDone
  <1>2. LogSays(S, g)'
    BY <1>1 DEF LogSays
  <1>3. EntrySays' /\ AreaSays'
    BY <1>1 DEF EntrySays, AreaSays
  <1>4. QED
    BY <1>2, <1>3 DEF ReplayInv

(* Other points of the code where nothing is known of the cache. *)
LEMMA ElsewhereSays ==
  ASSUME NEW S, NEW g, EntryStarts(S)', Playable(S, g)', pc' \notin {"playback", "idle", "append"},
         off' = 0, AreaSays'
  PROVE  ReplayInv'
  <1>1. LogSays(S, g)'
    BY DEF LogSays
  <1>2. EntrySays'
    BY DEF EntrySays
  <1>3. QED
    BY <1>1, <1>2 DEF ReplayInv

-----------------------------------------------------------------------------
(* One lemma for each group of steps. *)
LEMMA InitSays ==
  ASSUME DurableStore, AllInv, wear_leveling_init
  PROVE  ReplayInv'
  <1>1. /\ pc = "off" /\ pc' = "playback" /\ cursor' = LogStart
        /\ wlog' = wlog /\ consolidated' = consolidated /\ checksum' = checksum /\ off' = off
        /\ cache' = Base
    BY DEF wear_leveling_init, DurableStore, SoundStore, store, entryVars, Base
  <1>2. PICK S, g : LogSays(S, g)
    BY <1>1 DEF AllInv, ReplayInv
  <1>3. EntryStarts(S)' /\ Playable(S, g)'
    BY <1>1, <1>2, SameLog, SamePlayable DEF LogSays
  <1>4. LogStart \in S /\ g[LogStart] = NoChange
    BY <1>2 DEF LogSays, EntryStarts, Playable
  <1>5. Base \in Contents /\ Base' = Base
    BY <1>1, BaseType, SameBase DEF AllInv, TypeInv
  <1>6. cache' = Over(Base', g[LogStart])
    BY <1>1, <1>4, <1>5, OverNoChange
  <1>7. LogSays(S, g)'
    BY <1>1, <1>3, <1>4, <1>6 DEF LogSays
  <1>8. EntrySays' /\ AreaSays'
    BY <1>1 DEF EntrySays, AreaSays, AllInv, ReplayInv
  <1>9. QED
    BY <1>7, <1>8 DEF ReplayInv

(* The erase of the store begins. *)
LEMMA EraseSays ==
  ASSUME ConsolidateForce, off' = 0, NEW S, NEW g, EntryStarts(S)', Playable(S, g)'
  PROVE  ReplayInv'
  <1>1. pc' = "erase" /\ cursor' = 0
    BY DEF ConsolidateForce
  <1>2. AreaSays'
    BY <1>1 DEF AreaSays
  <1>3. QED
    BY <1>1, <1>2, ElsewhereSays

LEMMA PlaybackEndSays ==
  ASSUME DurableStore, AllInv, PlaybackEnd
  PROVE  ReplayInv'
  <1>1. /\ pc = "playback" /\ wlog' = wlog /\ consolidated' = consolidated
        /\ checksum' = checksum /\ cache' = cache /\ write_address' = cursor
        /\ cursor \in Nat /\ off = 0
    BY DEF PlaybackEnd, store, AllInv, TypeInv, TypeOK, ReplayInv, EntrySays
  <1>2. PICK S, g : LogSays(S, g)
    BY <1>1 DEF AllInv, ReplayInv
  <1>3. EntryStarts(S)' /\ Playable(S, g)' /\ cursor \in S
    BY <1>1, <1>2, SameLog, SamePlayable DEF LogSays
  <1>4. CASE ConsolidateForce /\ UNCHANGED entryVars
    BY <1>1, <1>3, <1>4, EraseSays DEF entryVars
  <1>5. CASE ~LogFull(cursor) /\ Return(SUCCESS)
    <2>1. cursor <= LogEnd
      BY <1>1, <1>5, Geometry DEF LogFull
    <2>2. cache = Over(Base, g[cursor])
      BY <1>1, <1>2, <2>1 DEF LogSays, Readable
    <2>3. cache' = Over(Base', g[write_address'])
      BY <1>1, <2>2, SameBase
    <2>4. QED
      BY <1>1, <1>3, <1>5, <2>3, ReturnSays
  <1>6. QED
    BY <1>4, <1>5 DEF PlaybackEnd

LEMMA PlaybackEntrySays ==
  ASSUME DurableStore, AllInv, PlaybackEntry
  PROVE  ReplayInv'
  <1>1. /\ pc = "playback" /\ cursor \in Nat /\ cursor \in LogWords /\ wlog[cursor] # Blank
        /\ wlog' = wlog /\ consolidated' = consolidated /\ checksum' = checksum
        /\ off = 0 /\ off' = 0 /\ wlog \in [LogWords -> Word]
    BY Geometry DEF PlaybackEntry, store, entryVars, LogWords, AllInv, TypeInv, TypeOK,
         ReplayInv, EntrySays
  <1>2. PICK S, g : LogSays(S, g)
    BY <1>1 DEF AllInv, ReplayInv
  <1>3. EntryStarts(S)' /\ Playable(S, g)' /\ cursor \in S
    BY <1>1, <1>2, SameLog, SamePlayable DEF LogSays
  <1>4. CASE ConsolidateForce
    BY <1>1, <1>3, <1>4, EraseSays
  <1>5. CASE ~ConsolidateForce
    <2>1. PICK far \in Beyond :
            /\ Decode(EntryAt(cursor, far)).ok
            /\ cursor' = cursor + Decode(EntryAt(cursor, far)).size
            /\ cache' = PatchBy(cache, Decode(EntryAt(cursor, far)))
            /\ pc' = pc
      BY <1>5 DEF PlaybackEntry, PatchBy
    <2> DEFINE e == Decode(EntryIn(wlog, cursor, far))
    <2>2. EntryAt(cursor, far) = EntryIn(wlog, cursor, far)
      BY EntryAtIn
    <2>3. /\ EntryIn(wlog, cursor, far) \in Raw8
          /\ EntryIn(wlog, cursor, far)[0] = wlog[cursor][0]
      BY <1>1, EntryInType, WearLevelingAssumption
    <2>4. e \in DecodedEntry /\ e.size = HeaderWords(wlog[cursor][0])
      BY <2>1, <2>2, <2>3, DecodeType, DecodeSize
    <2>5. cursor' = cursor + HeaderWords(wlog[cursor][0]) /\ cache' = PatchBy(cache, e)
      BY <2>1, <2>2, <2>4
    <2>6. HeaderWords(wlog[cursor][0]) \in 1..4
      BY <2>4 DEF DecodedEntry
    <2>7. cursor' \in S
      BY <1>1, <1>2, <1>3, <2>5 DEF LogSays, EntryStarts
    <2> HIDE DEF e
    <2>8. ASSUME Readable(cursor') PROVE cache' = Over(Base', g[cursor'])
      <3>1. g[cursor'] = PatchBy(g[cursor], e)
        BY <1>1, <1>2, <1>3, <2>5, <2>8 DEF LogSays, Playable, e
      <3>2. Readable(cursor)
        BY <1>1, Geometry DEF LogWords, Readable
      <3>3. cache = Over(Base, g[cursor])
        BY <1>1, <1>2, <3>2 DEF LogSays
      <3>4. Over(Base, PatchBy(g[cursor], e)) = PatchBy(Over(Base, g[cursor]), e)
        BY <2>4, OverPatch
      <3>5. QED
        BY <1>1, <2>5, <3>1, <3>3, <3>4, SameBase
    <2>9. LogSays(S, g)'
      BY <1>1, <1>3, <2>1, <2>7, <2>8 DEF LogSays
    <2>10. EntrySays' /\ AreaSays'
      BY <1>1, <2>1 DEF EntrySays, AreaSays
    <2>11. QED
      BY <2>9, <2>10 DEF ReplayInv
  <1>6. QED
    BY <1>4, <1>5

LEMMA EraseSectorSays ==
  ASSUME DurableStore, AllInv, EraseSector
  PROVE  ReplayInv'
  <1>1. /\ pc = "erase" /\ pc' = "erase" /\ cursor \in Nat
        /\ EraseOk(cursor) /\ cursor' = cursor + 1 /\ off = 0 /\ off' = 0
        /\ wlog \in [LogWords -> Word]
    BY DEF DurableStore, SoundStore, EraseSector, EraseFails, Accepts, AllInv, TypeInv, TypeOK,
         entryVars, ReplayInv, EntrySays
  <1>2. /\ \A a \in LogWords : wlog'[a] = IF InSector(a, cursor) THEN Blank ELSE wlog[a]
        /\ wlog' = [a \in LogWords |-> IF InSector(a, cursor) THEN Blank ELSE wlog[a]]
        /\ \A i \in ChecksumIndex :
             checksum'[i] = IF InSector(ChecksumAddress(i), cursor) THEN NoHash ELSE checksum[i]
    BY <1>1 DEF EraseOk, ChecksumIndex, ChecksumAddress
  <1>3. ASSUME NEW i \in ChecksumIndex, NEW k \in Nat, k < cursor', InSector(ChecksumAddress(i), k)
        PROVE  checksum'[i] = NoHash
    <2>1. k < cursor \/ k = cursor
      BY <1>1, <1>3
    <2>2. k < cursor => checksum[i] = NoHash
      BY <1>1, <1>3 DEF AllInv, ReplayInv, AreaSays
    <2>3. QED
      BY <1>2, <1>3, <2>1, <2>2
  <1>4. AreaSays'
    BY <1>1, <1>3 DEF AreaSays
  <1>5. CASE "power" \in Faults
    <2>1. PICK S, g : LogSays(S, g)
      BY <1>5 DEF AllInv, ReplayInv
    <2>2. CASE \A a \in LogWords : InSector(a, cursor)
      <3>1. Erased'
        BY <1>2, <2>2 DEF Erased
      <3>2. PICK h : h = [x \in {LogStart} |-> NoChange]
        OBVIOUS
      <3>3. QED
        BY <1>1, <1>4, <3>1, <3>2, ErasedPlayable, ElsewhereSays
    <2>3. CASE \A a \in LogWords : ~InSector(a, cursor)
      <3>1. wlog' = wlog
        BY <1>1, <1>2, <2>3
      <3>2. EntryStarts(S)' /\ Playable(S, g)'
        BY <2>1, <3>1, SameLog, SamePlayable DEF LogSays
      <3>3. QED
        BY <1>1, <1>4, <3>2, ElsewhereSays
    <2>4. QED
      BY <1>1, <1>5, <2>2, <2>3 DEF DurableStore, SoundStore, LogInOneSector
  <1>6. CASE "power" \notin Faults
    BY <1>1, <1>4, <1>6 DEF ReplayInv, EntrySays
  <1>7. QED
    BY <1>5, <1>6

(* The checksum words lie before the log. *)
LEMMA ChecksumInStore ==
  ASSUME NEW i \in ChecksumIndex
  PROVE  ChecksumAddress(i) \in 0..(LogEnd - 1)
  <1> DEFINE L == WEAR_LEVELING_LOGICAL_SIZE
  <1>1. ChecksumAddress(i) \in Nat /\ ChecksumAddress(i) < LogStart
    <2>1. CASE W = 2
      BY <2>1, WearLevelingAssumption DEF ChecksumAddress, ChecksumIndex, ChecksumWords, LogStart
    <2>2. CASE W = 4
      BY <2>2, WearLevelingAssumption DEF ChecksumAddress, ChecksumIndex, ChecksumWords, LogStart
    <2>3. CASE W = 8
      BY <2>3, WearLevelingAssumption DEF ChecksumAddress, ChecksumIndex, ChecksumWords, LogStart
    <2>4. QED
      BY <2>1, <2>2, <2>3, WearLevelingAssumption
  <1>2. QED
    BY <1>1, Geometry

LEMMA EraseReturnsSays ==
  ASSUME DurableStore, AllInv, EraseReturns
  PROVE  ReplayInv'
  <1>1. /\ pc = "erase" /\ cursor = SectorCount /\ wlog' = wlog /\ off = 0
        /\ consolidated' = consolidated /\ checksum' = checksum /\ Erased'
    BY AllErased DEF EraseReturns, store, AllInv, DurableStore, ReplayInv, EntrySays
  <1>2. ASSUME NEW i \in ChecksumIndex PROVE checksum[i] = NoHash
    <2>1. PICK k \in 0..(SectorCount - 1) : InSector(ChecksumAddress(i), k)
      BY ChecksumInStore DEF DurableStore, SoundStore
    <2>2. k \in Nat /\ k < cursor
      BY <1>1, Geometry
    <2>3. QED
      BY <1>1, <2>1, <2>2 DEF AllInv, ReplayInv, AreaSays
  <1>3. Base = Zeros /\ Base' = Base
    BY <1>1, <1>2, NoChecksumBase, SameBase DEF AllInv, TypeInv
  <1>4. PICK h : h = [x \in {LogStart} |-> NoChange]
    OBVIOUS
  <1>5. EntryStarts({LogStart})' /\ Playable({LogStart}, h)'
    BY <1>1, <1>4, ErasedPlayable
  <1>6. CASE \E s : Return(s) /\ wear_leveling_clear_cache
    <2>1. write_address' = LogStart /\ cache' = Zeros
      BY <1>6 DEF wear_leveling_clear_cache
    <2>2. cache' = Over(Base', h[write_address'])
      BY <1>3, <1>4, <2>1, OverNoChange, ZerosType
    <2>3. QED
      BY <1>5, <1>6, <2>1, <2>2, ReturnSays
  <1>7. CASE pc' = "consolidate" /\ cursor' = 0 /\ UNCHANGED entryVars
    <2>1. off' = 0 /\ pc' = "consolidate"
      BY <1>1, <1>7 DEF entryVars
    <2>2. cursor' * W < WEAR_LEVELING_LOGICAL_SIZE
      BY <1>7, WearLevelingAssumption
    <2>3. \A b \in LogicalBytes : ~(b \div W < 0)
      BY WearLevelingAssumption DEF LogicalBytes
    <2>4. AreaSays'
      BY <1>1, <1>2, <1>7, <2>2, <2>3 DEF AreaSays
    <2>5. QED
      BY <1>5, <2>1, <2>4, ElsewhereSays
  <1>8. pc = "erase" /\ call = "write" => erase_ok
    BY DEF AllInv, BoundsInv
  <1>9. QED
    BY <1>6, <1>7, <1>8 DEF EraseReturns

LEMMA ConsolidateWordSays ==
  ASSUME DurableStore, AllInv, ConsolidateWord
  PROVE  ReplayInv'
  <1>1. /\ pc = "consolidate" /\ wlog' = wlog /\ checksum' = checksum /\ cache' = cache
        /\ off = 0 /\ off' = 0 /\ Erased /\ cursor \in Nat
        /\ cache \in Contents /\ consolidated \in Contents
    BY DEF ConsolidateWord, entryVars, AllInv, LogInv, TypeInv, TypeOK, ReplayInv, EntrySays
  <1>2. PICK h : h = [x \in {LogStart} |-> NoChange]
    OBVIOUS
  <1>3. EntryStarts({LogStart})' /\ Playable({LogStart}, h)'
    <2>1. Erased'
      BY <1>1 DEF Erased
    <2>2. QED
      BY <1>2, <2>1, ErasedPlayable
  <1>4. /\ \A i \in ChecksumIndex : checksum[i] = NoHash
        /\ \A b \in LogicalBytes : b \div W < cursor => consolidated[b] = cache[b]
    BY <1>1 DEF AllInv, ReplayInv, AreaSays
  <1>5. ASSUME NEW b \in LogicalBytes, b \div W < cursor + 1 PROVE consolidated'[b] = cache[b]
    <2>1. b \div W \in Int
      BY WearLevelingAssumption DEF LogicalBytes
    <2>2. b \div W < cursor \/ b \div W = cursor
      BY <1>1, <1>5, <2>1
    <2>3. consolidated'[b] = IF b \div W = cursor THEN cache[b] ELSE consolidated[b]
      BY DEF ConsolidateWord
    <2>4. QED
      BY <1>4, <2>2, <2>3
  <1>6. AreaSays' /\ pc' \in {"consolidate", "checksum"}
    <2>1. CASE /\ (cursor + 1) * W < WEAR_LEVELING_LOGICAL_SIZE
               /\ cursor' = cursor + 1 /\ pc' = pc
      BY <1>1, <1>4, <1>5, <2>1 DEF AreaSays
    <2>2. CASE /\ (cursor + 1) * W >= WEAR_LEVELING_LOGICAL_SIZE
               /\ cursor' = 0 /\ pc' = "checksum"
      <3>1. ASSUME NEW b \in LogicalBytes PROVE b \div W < cursor + 1
        <4>1. b < (cursor + 1) * W /\ b \in Nat
          <5>1. PICK n : n = (cursor + 1) * W
            OBVIOUS
          <5>2. n \in Int /\ WEAR_LEVELING_LOGICAL_SIZE \in Int
            BY <1>1, <5>1, WearLevelingAssumption, SMT
          <5>3. QED
            BY <2>2, <5>1, <5>2, SMT DEF LogicalBytes
        <4>2. CASE W = 2  BY <1>1, <4>1, <4>2
        <4>3. CASE W = 4  BY <1>1, <4>1, <4>3
        <4>4. CASE W = 8  BY <1>1, <4>1, <4>4
        <4>5. QED
          BY <4>2, <4>3, <4>4, WearLevelingAssumption
      <3>2. \A b \in LogicalBytes : consolidated'[b] = cache[b]
        BY <1>5, <3>1
      <3>3. consolidated' = [b \in LogicalBytes |-> IF b \div W = cursor THEN cache[b] ELSE consolidated[b]]
        BY DEF ConsolidateWord
      <3>4. consolidated' = cache
        BY <1>1, <3>2, <3>3 DEF Contents
      <3>5. 0 < ChecksumWords /\ \A i \in ChecksumIndex : ~(i < 0)
        BY Geometry DEF ChecksumIndex
      <3>6. QED
        BY <1>1, <1>4, <2>2, <3>4, <3>5 DEF AreaSays
    <2>3. QED
      BY <1>1, <2>1, <2>2 DEF ConsolidateWord
  <1>7. QED
    BY <1>1, <1>3, <1>6, ElsewhereSays

LEMMA ChecksumWordSays ==
  ASSUME DurableStore, AllInv, ChecksumWord
  PROVE  ReplayInv'
  <1>1. /\ pc = "checksum" /\ wlog' = wlog /\ consolidated' = consolidated /\ cache' = cache
        /\ off = 0 /\ Erased /\ cursor \in Nat
        /\ cache \in Contents /\ consolidated = cache
        /\ checksum \in [ChecksumIndex -> Contents \cup {NoHash}]
        /\ \A i \in ChecksumIndex : checksum[i] = IF i < cursor THEN cache ELSE NoHash
    BY DEF ChecksumWord, AllInv, LogInv, TypeInv, TypeOK, ReplayInv, EntrySays, AreaSays,
         ChecksumIndex
  <1>2. PICK h : h = [x \in {LogStart} |-> NoChange]
    OBVIOUS
  <1>3. EntryStarts({LogStart})' /\ Playable({LogStart}, h)'
    <2>1. Erased'
      BY <1>1 DEF Erased
    <2>2. QED
      BY <1>2, <2>1, ErasedPlayable
  <1>4. \A i \in ChecksumIndex : checksum'[i] = IF i < cursor + 1 THEN cache ELSE NoHash
    <2>1. checksum' = [checksum EXCEPT ![cursor] = cache]
      BY DEF ChecksumWord
    <2>2. \A i \in ChecksumIndex : i \in Int /\ (i < cursor + 1 <=> i < cursor \/ i = cursor)
      BY <1>1 DEF ChecksumIndex
    <2>3. QED
      BY <1>1, <2>1, <2>2
  <1>5. CASE cursor + 1 < ChecksumWords /\ cursor' = cursor + 1 /\ UNCHANGED <<pc, entryVars>>
    <2>1. AreaSays' /\ off' = 0 /\ pc' = "checksum"
      BY <1>1, <1>4, <1>5 DEF AreaSays, entryVars
    <2>2. QED
      BY <1>3, <2>1, ElsewhereSays
  <1>6. CASE cursor + 1 = ChecksumWords /\ write_address' = LogStart /\ Return(CONSOLIDATED)
    <2>1. \A i \in ChecksumIndex : i < cursor + 1
      BY <1>1, <1>6, Geometry DEF ChecksumIndex
    <2>2. \A i \in 0..(ChecksumWords - 1) : checksum'[i] = consolidated'
      BY <1>1, <1>4, <2>1 DEF ChecksumIndex
    <2>3. Base' = cache
      BY <1>1, <2>2 DEF Base
    <2>4. cache' = Over(Base', h[write_address']) /\ write_address' \in {LogStart}
      BY <1>1, <1>2, <1>6, <2>3, OverNoChange
    <2>5. QED
      BY <1>3, <1>6, <2>4, ReturnSays
  <1>7. QED
    BY <1>5, <1>6 DEF ChecksumWord

(* The next entry is made: nothing of it is in the log yet. *)
LEMMA WriteRawSays ==
  ASSUME DurableStore, AllInv, TypeInv', wear_leveling_write_raw
  PROVE  ReplayInv'
  <1>1. /\ pc = "append" /\ pc' = "append" /\ sent = size /\ sent' = 0
        /\ wlog' = wlog /\ consolidated' = consolidated /\ checksum' = checksum
        /\ cache' = cache /\ before' = before /\ write_address' = write_address /\ req' = req
        /\ write_address \in Nat /\ size \in Nat /\ off \in Nat /\ req \in Requests
        /\ raw' \in Raw8
    BY DEF wear_leveling_write_raw, store, AllInv, TypeInv, TypeOK
  <1>2. PICK S, g : LogSays(S, g)
    BY <1>1 DEF AllInv, ReplayInv
  <1>3. EntryStarts(S)' /\ Playable(S, g)'
    BY <1>1, <1>2, SameLog, SamePlayable DEF LogSays
  <1>4. write_address \in S /\ cache = Rest(req, Over(Base, g[write_address]), off)
    <2>1. NextStart = write_address
      BY <1>1 DEF NextStart
    <2>2. QED
      BY <1>1, <1>2, <2>1 DEF LogSays
  <1>5. /\ req.address + req.length <= WEAR_LEVELING_LOGICAL_SIZE /\ off <= req.length
        /\ \A b \in LogicalBytes : ~InRequest(b) => cache[b] = before[b]
    BY <1>1 DEF AllInv, ReplayInv, EntrySays
  <1> DEFINE e == Decode(raw')
  <1>6. /\ e.ok /\ e.len <= 5 /\ e.at = req.address + off
        /\ off' = off + e.len /\ off' <= req.length
        /\ \A i \in 0..(e.len - 1) : e.data[i] = req.value[off + i]
    BY <1>5, NextEntry DEF AllInv
  <1>7. e \in DecodedEntry
    BY <1>1, DecodeType
  <1>8. Rest(req, PatchBy(Over(Base, g[write_address]), e), off') = Rest(req, Over(Base, g[write_address]), off)
    BY <1>1, <1>6, <1>7, RestSplit
  <1>9. size' # 0
    <2>1. req.length - off > 0
      BY DEF wear_leveling_write_raw
    <2>2. MultibyteLength(req.length - off) \in 1..5
      BY <1>1, <2>1, RequestType DEF MultibyteLength, LOG_ENTRY_MULTIBYTE_MAX_BYTES
    <2>3. MultibyteWords(MultibyteLength(req.length - off)) \in 1..4
      BY <2>2, MultibyteWordsType
    <2>4. size' = 1 \/ size' = MultibyteWords(MultibyteLength(req.length - off))
      BY DEF wear_leveling_write_raw
    <2>5. QED
      BY <2>3, <2>4
  <1>10. EntryStart' = write_address /\ NextStart' = write_address
    BY <1>1 DEF EntryStart, NextStart
  <1>11. LogSays(S, g)'
    BY <1>1, <1>3, <1>4, <1>8, <1>9, <1>10, SameBase DEF LogSays
  <1>12. Written'
    <2>1. \A k \in 0..(0 - 1) : FALSE
      OBVIOUS
    <2>2. QED
      BY <1>1, <1>6, <2>1 DEF Written
  <1>13. req.address <= e.at /\ e.at + e.len <= req.address + req.length
    <2>1. req.address \in Nat /\ req.length \in Nat /\ e.len \in Nat
      BY <1>1, <1>7, RequestType DEF DecodedEntry
    <2>2. QED
      BY <1>1, <1>6, <2>1
  <1>14. \A b \in LogicalBytes : InRequest(b)' = InRequest(b)
    BY <1>1 DEF InRequest
  <1>15. EntrySays'
    BY <1>1, <1>5, <1>6, <1>12, <1>13, <1>14 DEF EntrySays
  <1>16. AreaSays'
    BY <1>1 DEF AreaSays
  <1>17. QED
    BY <1>11, <1>15, <1>16 DEF ReplayInv

(* A write begins: the cache already holds the request. *)
LEMMA WriteSays ==
  ASSUME DurableStore, AllInv, NEW r \in Requests, wear_leveling_write(r)
  PROVE  ReplayInv'
  <1>1. /\ pc = "idle" /\ wlog' = wlog /\ consolidated' = consolidated /\ checksum' = checksum
        /\ write_address' = write_address /\ cursor' = cursor
        /\ off = 0 /\ size = 0 /\ sent = 0 /\ cache \in Contents
    BY DEF wear_leveling_write, store, AllInv, TypeInv, TypeOK, ReplayInv, EntrySays, LogInv
  <1>2. PICK S, g : LogSays(S, g)
    BY <1>1 DEF AllInv, ReplayInv
  <1>3. EntryStarts(S)' /\ Playable(S, g)'
    BY <1>1, <1>2, SameLog, SamePlayable DEF LogSays
  <1>4. write_address \in S /\ cache = Over(Base, g[write_address])
    BY <1>1, <1>2 DEF LogSays
  <1>5. CASE UNCHANGED <<cache, pc, entryVars>>
    <2>1. LogSays(S, g)'
      BY <1>1, <1>3, <1>4, <1>5, SameBase DEF LogSays
    <2>2. EntrySays' /\ AreaSays'
      BY <1>1, <1>5 DEF EntrySays, AreaSays, entryVars
    <2>3. QED
      BY <2>1, <2>2 DEF ReplayInv
  <1>6. CASE /\ r.address + r.length <= WEAR_LEVELING_LOGICAL_SIZE
             /\ cache' = Patch(cache, r.address, r.length, r.value)
             /\ before' = cache /\ pc' = "append" /\ req' = r
             /\ UNCHANGED <<off, raw, size, sent>>
    <2>1. cache' = Rest(r, cache, 0)
      BY <1>6, RestAll
    <2>2. NextStart' = write_address
      BY <1>1, <1>6 DEF NextStart
    <2>3. LogSays(S, g)'
      BY <1>1, <1>3, <1>4, <1>6, <2>1, <2>2, SameBase DEF LogSays
    <2>4. ASSUME NEW b \in LogicalBytes, ~InRequest(b)' PROVE cache'[b] = before'[b]
      BY <1>6, <2>4 DEF InRequest, Patch
    <2>5. r.length >= 0
      BY RequestType
    <2>6. EntrySays'
      BY <1>1, <1>6, <2>4, <2>5 DEF EntrySays
    <2>7. AreaSays'
      BY <1>6 DEF AreaSays
    <2>8. QED
      BY <2>3, <2>6, <2>7 DEF ReplayInv
  <1>7. QED
    BY <1>5, <1>6 DEF wear_leveling_write, DurableStore

LEMMA EraseCallSays ==
  ASSUME DurableStore, AllInv, wear_leveling_erase
  PROVE  ReplayInv'
  <1>1. /\ pc = "idle" /\ wlog' = wlog /\ off = 0 /\ off' = 0 /\ ConsolidateForce
    BY DEF wear_leveling_erase, store, entryVars, AllInv, ReplayInv, EntrySays, DurableStore
  <1>2. PICK S, g : LogSays(S, g)
    BY <1>1 DEF AllInv, ReplayInv
  <1>3. EntryStarts(S)' /\ Playable(S, g)'
    BY <1>1, <1>2, SameLog, SamePlayable DEF LogSays
  <1>4. QED
    BY <1>1, <1>3, EraseSays

LEMMA PowerLossSays ==
  ASSUME DurableStore, AllInv, PowerLoss
  PROVE  ReplayInv'
  <1>1. /\ pc' = "off" /\ wlog' = wlog /\ off' = 0
        /\ pc # "erase" \/ "power" \in Faults
    BY DEF PowerLoss, store, EntryDone
  <1>2. PICK S, g : LogSays(S, g)
    BY <1>1 DEF AllInv, ReplayInv
  <1>3. EntryStarts(S)' /\ Playable(S, g)'
    BY <1>1, <1>2, SameLog, SamePlayable DEF LogSays
  <1>4. AreaSays'
    BY <1>1 DEF AreaSays
  <1>5. QED
    BY <1>1, <1>3, <1>4, ElsewhereSays

(* With all its words an entry is no longer torn. *)
LEMMA CutWhole ==
  ASSUME NEW entry \in Raw8, Decode(entry).ok, Decode(entry).len <= 5, NEW c
  PROVE  PatchBy(c, Decode(Cut(entry, HeaderWords(entry[0])))) = PatchBy(c, Decode(entry))
  <1> DEFINE n == HeaderWords(entry[0])
             torn == Cut(entry, n)
  <1>1. n \in Nat \ {0}
    BY HeaderWordsType DEF Raw8
  <1> HIDE DEF n
  <1>2. torn \in Raw8
    BY <1>1, CutType
  <1>3. Decode(torn).len <= 5 /\ torn[0] = entry[0]
    BY <1>1, CutOk
  <1>4. \A i \in 0..7 : i < n * W => torn[i] = entry[i]
    BY DEF Cut
  <1> HIDE DEF torn
  <1>5. SameBytes(torn, entry)
    BY <1>3, <1>4 DEF SameBytes, n
  <1>6. QED
    BY <1>2, <1>5, SameBytesSameEntry DEF torn, n

(* A word of the entry is programmed: the log and what playback makes of it. *)
LEMMA AppendedLog ==
  ASSUME DurableStore, AllInv, TypeInv', wear_leveling_append_raw, NEW S, NEW g, LogSays(S, g),
         NEW next, next = write_address + (size - sent)
  PROVE  \E T, h :
           /\ EntryStarts(T)' /\ Playable(T, h)'
           /\ EntryStart \in T /\ next \in T /\ h[EntryStart] = g[EntryStart]
           /\ h[next] = PatchBy(g[EntryStart], Decode(Cut(raw, sent + 1)))
  <1>1. /\ pc = "append" /\ sent < size /\ WriteOk(write_address, EntryWord(raw, sent))
        /\ write_address \in Nat /\ size \in Nat /\ sent \in Nat
    BY Geometry DEF wear_leveling_append_raw, AllInv, TypeInv, TypeOK
  <1>2. Appending
    BY <1>1 DEF Appending, AllInv, DurableStore
  <1>3. EntryStarts(S) /\ Playable(S, g) /\ NextStart \in S /\ EntryStart \in S
    BY <1>1 DEF LogSays
  <1>4. Written
    BY <1>1 DEF AllInv, ReplayInv, EntrySays
  <1>5. PICK T : T = S \cup {next}
    OBVIOUS
  <1>6. PICK h : h = [x \in T |-> IF x = next
                                  THEN PatchBy(g[EntryStart], Decode(Cut(raw, sent + 1)))
                                  ELSE g[x]]
    OBVIOUS
  <1>7. EntryStarts(T)' /\ Playable(T, h)'
    BY <1>2, <1>3, <1>4, <1>5, <1>6, AppendedStarts, AppendPlayable
  <1>8. EntryStart \in Nat
    BY <1>3 DEF EntryStarts
  <1>9. EntryStart # next
    BY <1>1, <1>8 DEF EntryStart
  <1>10. QED
    BY <1>3, <1>5, <1>6, <1>7, <1>9

(* A word of the entry is programmed. *)
LEMMA AppendSays ==
  ASSUME DurableStore, AllInv, TypeInv', wear_leveling_append_raw
  PROVE  ReplayInv'
  <1>1. /\ pc = "append" /\ sent < size /\ write_address' = write_address + 1
        /\ consolidated' = consolidated /\ checksum' = checksum /\ cache' = cache
        /\ WriteOk(write_address, EntryWord(raw, sent))
        /\ write_address \in Nat /\ size \in Nat /\ sent \in Nat /\ off \in Nat
        /\ raw \in Raw8 /\ req \in Requests /\ cache \in Contents
    BY Geometry DEF wear_leveling_append_raw, AllInv, TypeInv, TypeOK
  <1>2. Appending
    BY <1>1 DEF Appending, AllInv, DurableStore
  <1>3. PICK S, g : LogSays(S, g)
    BY <1>1 DEF AllInv, ReplayInv
  <1>4. /\ EntryStarts(S) /\ Playable(S, g) /\ NextStart \in S /\ EntryStart \in S
        /\ cache = Rest(req, PatchBy(Over(Base, g[EntryStart]), Decode(raw)), off)
    BY <1>1, <1>3 DEF LogSays
  <1>5. /\ req.address + req.length <= WEAR_LEVELING_LOGICAL_SIZE
        /\ off <= req.length
        /\ \A b \in LogicalBytes : ~InRequest(b) => cache[b] = before[b]
        /\ Written
        /\ req.address <= Decode(raw).at
        /\ Decode(raw).at + Decode(raw).len <= req.address + req.length
    BY <1>1 DEF AllInv, ReplayInv, EntrySays
  <1>6. PICK start, next : start = EntryStart /\ next = write_address + (size - sent)
    OBVIOUS
  <1>9. PICK T, h :
          /\ EntryStarts(T)' /\ Playable(T, h)'
          /\ start \in T /\ next \in T /\ h[start] = g[start]
          /\ h[next] = PatchBy(g[start], Decode(Cut(raw, sent + 1)))
    BY <1>3, <1>6, AppendedLog
  <1>10. start \in Nat /\ start + sent = write_address
    <2>1. start \in Nat
      BY <1>4, <1>6 DEF EntryStarts
    <2>2. QED
      BY <1>1, <1>6, <2>1 DEF EntryStart
  <1>11. Base' = Base /\ Base \in Contents
    BY <1>1, SameBase, BaseType DEF AllInv, TypeInv
  <1>12. Decode(raw) \in DecodedEntry /\ Decode(raw).ok /\ Decode(raw).len <= 5
         /\ HeaderWords(raw[0]) = size
    BY <1>1, <1>5, DecodeType DEF Written, AllInv, LogInv
  <1>13. ASSUME sent + 1 = size
         PROVE  Over(Base, h[next]) = PatchBy(Over(Base, g[start]), Decode(raw))
    <2>1. PatchBy(g[start], Decode(Cut(raw, sent + 1))) = PatchBy(g[start], Decode(raw))
      BY <1>1, <1>12, <1>13, CutWhole
    <2>2. QED
      BY <1>9, <1>12, <2>1, OverPatch
  <1>14. CASE ConsolidateForce /\ EntryDone
    BY <1>9, <1>14, EraseSays DEF EntryDone
  <1>15. CASE /\ sent + 1 < size \/ off < req.length
              /\ sent' = sent + 1
              /\ UNCHANGED <<pc, req, off, raw, size, before>>
    <2>1. NextStart' = next /\ EntryStart' = start
      BY <1>1, <1>6, <1>10, <1>15 DEF NextStart, EntryStart
    <2>2. sent' = size' => write_address' = next /\ sent + 1 = size
      BY <1>1, <1>6, <1>15
    <2>3. sent' = size' => cache' = Rest(req, Over(Base, h[next]), off)
      BY <1>1, <1>4, <1>6, <1>13, <2>2
    <2>4. LogSays(T, h)'
      BY <1>1, <1>4, <1>6, <1>9, <1>10, <1>11, <1>15, <2>1, <2>2, <2>3 DEF LogSays
    <2>5. ASSUME NEW k \in 0..sent PROVE wlog'[start + k] = EntryWord(raw, k)
      <3>1. CASE k = sent
        BY <1>2, <1>10, <3>1, AppendedIs
      <3>2. CASE k # sent
        <4>1. k \in 0..(sent - 1) /\ start + k # write_address
          BY <1>1, <1>10, <2>5, <3>2
        <4>2. wlog[start + k] = EntryWord(raw, k)
          BY <1>5, <1>6, <4>1 DEF Written
        <4>3. start + k \in LogWords
          <5>1. write_address \in LogWords /\ LogStart \in S /\ start \in S
            BY <1>1, <1>4, <1>6 DEF AllInv, BoundsInv, EntryStarts
          <5>2. ~(start < LogStart)
            BY <1>4, <1>10, <5>1, Geometry DEF EntryStarts, LogWords
          <5>3. QED
            BY <1>1, <1>10, <4>1, <5>1, <5>2, Geometry DEF LogWords
        <4>4. QED
          BY <1>2, <4>1, <4>2, <4>3, AppendedWord
      <3>3. QED
        BY <3>1, <3>2
    <2>6. Written'
      <3>1. sent' - 1 = sent
        BY <1>1, <1>15
      <3>2. QED
        BY <1>12, <1>15, <2>1, <2>5, <3>1 DEF Written
    <2>7. \A b \in LogicalBytes : InRequest(b)' = InRequest(b)
      BY <1>15 DEF InRequest
    <2>8. EntrySays'
      BY <1>1, <1>5, <1>15, <2>6, <2>7 DEF EntrySays
    <2>9. AreaSays'
      BY <1>1, <1>15 DEF AreaSays
    <2>10. QED
      BY <2>4, <2>8, <2>9 DEF ReplayInv
  <1>16. CASE sent + 1 = size /\ off = req.length /\ Return(SUCCESS)
    <2>1. write_address' = next
      BY <1>1, <1>6, <1>16
    <2>2. h[next] \in Delta
      BY <1>9, <1>10 DEF Playable
    <2>3. Over(Base, h[next]) \in Contents
      BY <1>11, <2>2, OverType
    <2>4. cache = Rest(req, Over(Base, h[next]), req.length)
      BY <1>4, <1>6, <1>13, <1>16
    <2>5. cache' = Over(Base', h[write_address'])
      BY <1>1, <1>11, <2>1, <2>3, <2>4, RestNothing
    <2>6. QED
      BY <1>9, <1>10, <1>16, <2>1, <2>5, ReturnSays
  <1>17. QED
    BY <1>14, <1>15, <1>16 DEF wear_leveling_append_raw

(* Every step keeps all invariants. *)
LEMMA NextSays ==
  ASSUME DurableStore, AllInv, [Next]_vars
  PROVE  AllInv'
  <1>a. SoundStore /\ Accepts /\ Faults \cap {"init", "read", "erase", "write", "unlock"} = {}
    BY DEF DurableStore, SoundStore, Accepts
  <1>b. TypeInv' /\ BoundsInv' /\ LogInv'
    BY <1>a, NextType, NextBounds, NextLog DEF AllInv
  <1> SUFFICES ReplayInv'
    BY <1>b DEF AllInv
  <1>1. CASE wear_leveling_init       BY <1>1, InitSays
  <1>2. CASE PlaybackEnd              BY <1>2, PlaybackEndSays
  <1>3. CASE PlaybackEntry            BY <1>3, PlaybackEntrySays
  <1>4. CASE PlaybackReadFails        BY <1>4, <1>a DEF PlaybackReadFails
  <1>5. CASE EraseSector              BY <1>5, EraseSectorSays
  <1>6. CASE EraseReturns             BY <1>6, EraseReturnsSays
  <1>7. CASE ConsolidateFails         BY <1>7, <1>a DEF ConsolidateFails
  <1>8. CASE ConsolidateWord          BY <1>8, ConsolidateWordSays
  <1>9. CASE ChecksumWord             BY <1>9, ChecksumWordSays
  <1>10. CASE wear_leveling_write_raw BY <1>10, <1>b, WriteRawSays
  <1>11. CASE wear_leveling_append_raw BY <1>11, <1>b, AppendSays
  <1>12. CASE AppendFails
    <2>1. pc = "append" /\ sent < size /\ WriteFails(write_address)
      BY <1>12 DEF AppendFails
    <2>2. Device = "open" => "write" \in Faults
      BY <1>a, <2>1 DEF WriteFails
    <2>3. QED
      BY <1>a, <2>2 DEF SoundStore
  <1>13. CASE \E r \in Requests : wear_leveling_write(r)
    BY <1>13, WriteSays
  <1>14. CASE wear_leveling_erase     BY <1>14, EraseCallSays
  <1>15. CASE PowerLoss               BY <1>15, PowerLossSays
  <1>16. CASE UNCHANGED vars
    <2>1. ReplayInv
      BY DEF AllInv
    <2>2. /\ \A S, g : LogSays(S, g)' = LogSays(S, g)
          /\ EntrySays' = EntrySays /\ AreaSays' = AreaSays /\ pc' = pc
      BY <1>16 DEF vars, LogSays, EntryStarts, Playable, NextStart, EntryStart, Base, EntrySays,
           Written, InRequest, AreaSays
    <2>3. QED
      BY <2>1, <2>2 DEF ReplayInv
  <1>17. QED
    BY <1>1, <1>2, <1>3, <1>4, <1>5, <1>6, <1>7, <1>8, <1>9, <1>10, <1>11, <1>12, <1>13, <1>14,
       <1>15, <1>16 DEF Next, Step

-----------------------------------------------------------------------------
(* Replays is defined by recursion along the log.  The recursion has a       *)
(* solution, because every entry has at least one word and playback leaves   *)
(* the store by at most three words.                                         *)
ReplayDomain == LogStart..(LogEnd + 3)

ReplayStep(f, a) ==
  IF a >= LogEnd THEN {NoChange}
  ELSE IF wlog[a] = Blank THEN {NoChange}
  ELSE UNION {IF e.ok THEN {Then(e, later) : later \in f[a + e.size]} ELSE {NoChange}
              : e \in EntriesAt(a)}

IsReplay(f) == f = [a \in ReplayDomain |-> ReplayStep(f, a)]

LEMMA EntriesAtType ==
  ASSUME TypeOK, NEW a \in LogWords, NEW e \in EntriesAt(a)
  PROVE  e \in DecodedEntry /\ e.size \in 1..4
  <1>1. PICK far \in Beyond : e = Decode(EntryAt(a, far))
    BY DEF EntriesAt
  <1>2. far \in Word
    BY WearLevelingAssumption, SMT
  <1>3. EntryAt(a, far) \in Raw8
    BY <1>2, EntryAtType DEF TypeOK
  <1>4. QED
    BY <1>1, <1>3, DecodeType DEF DecodedEntry

(* A step of the recursion looks only at what follows. *)
LEMMA ReplayStepLater ==
  ASSUME TypeOK, NEW a \in ReplayDomain, NEW f, NEW g, \A x \in ReplayDomain : x > a => f[x] = g[x]
  PROVE  ReplayStep(f, a) = ReplayStep(g, a)
  <1>1. CASE a >= LogEnd
    BY <1>1 DEF ReplayStep
  <1>2. CASE ~(a >= LogEnd)
    <2>1. a \in LogWords /\ a \in Nat
      BY <1>2, Geometry DEF LogWords, ReplayDomain
    <2>2. ASSUME NEW e \in EntriesAt(a) PROVE f[a + e.size] = g[a + e.size]
      <3>1. e.size \in 1..4
        BY <2>1, EntriesAtType
      <3>2. a + e.size \in ReplayDomain /\ a + e.size > a
        BY <1>2, <2>1, <3>1, Geometry DEF ReplayDomain
      <3>3. QED
        BY <3>2
    <2>3. QED
      BY <1>2, <2>2 DEF ReplayStep
  <1>3. QED
    BY <1>1, <1>2

LEMMA ReplayExists ==
  ASSUME TypeOK
  PROVE  \E f : IsReplay(f)
  <1> DEFINE Solves(f, n) == \A a \in n..(LogEnd + 3) : f[a] = ReplayStep(f, a)
             Good == {n \in LogStart..LogEnd : \E f : Solves(f, n)}
  <1>1. LogEnd \in Good
    <2>1. PICK f : f = [a \in LogEnd..(LogEnd + 3) |-> {NoChange}]
      OBVIOUS
    <2>2. Solves(f, LogEnd)
      BY <2>1, Geometry DEF ReplayStep
    <2>3. QED
      BY <2>2, Geometry
  <1>2. Good \subseteq Nat /\ Good # {}
    BY <1>1, Geometry
  <1>3. PICK n \in Good : \A y \in Good : n =< y
    <2> HIDE DEF Good
    <2>1. QED
      BY <1>2, LeastNatural
  <1>4. n \in LogStart..LogEnd /\ n \in Nat
    BY <1>3, Geometry
  <1>5. PICK f : Solves(f, n)
    BY <1>3
  <1>6. n = LogStart
    <2> SUFFICES ASSUME n # LogStart PROVE FALSE
      OBVIOUS
    <2>1. n - 1 \in LogStart..LogEnd /\ n - 1 \in ReplayDomain
      BY <1>4, Geometry DEF ReplayDomain
    <2>2. PICK g : g = [a \in (n - 1)..(LogEnd + 3) |-> IF a = n - 1 THEN ReplayStep(f, n - 1) ELSE f[a]]
      OBVIOUS
    <2>3. ASSUME NEW a \in (n - 1)..(LogEnd + 3) PROVE g[a] = ReplayStep(g, a)
      <3>1. a \in ReplayDomain /\ a \in Int
        BY <1>4, <2>1, <2>3, Geometry DEF ReplayDomain
      <3>2. ASSUME NEW x \in ReplayDomain, x > a PROVE f[x] = g[x]
        <4>1. x \in (n - 1)..(LogEnd + 3) /\ x # n - 1
          BY <1>4, <2>3, <3>1, <3>2, Geometry DEF ReplayDomain
        <4>2. QED
          BY <2>2, <4>1
      <3>3. ReplayStep(f, a) = ReplayStep(g, a)
        BY <3>1, <3>2, ReplayStepLater
      <3>4. CASE a = n - 1
        BY <2>2, <3>3, <3>4
      <3>5. CASE a # n - 1
        <4>1. a \in n..(LogEnd + 3)
          BY <1>4, <2>3, <3>1, <3>5, Geometry
        <4>2. QED
          BY <1>5, <2>2, <3>3, <3>5, <4>1
      <3>6. QED
        BY <3>4, <3>5
    <2>4. n - 1 \in Good
      BY <2>1, <2>3
    <2>5. QED
      BY <1>3, <1>4, <2>4
  <1>7. PICK g : g = [a \in ReplayDomain |-> f[a]]
    OBVIOUS
  <1>8. ASSUME NEW a \in ReplayDomain PROVE g[a] = ReplayStep(g, a)
    <2>1. f[a] = ReplayStep(f, a)
      BY <1>5, <1>6 DEF ReplayDomain
    <2>2. ReplayStep(f, a) = ReplayStep(g, a)
      BY <1>7, ReplayStepLater
    <2>3. QED
      BY <1>7, <2>1, <2>2
  <1>9. g = [a \in ReplayDomain |-> ReplayStep(g, a)]
    BY <1>7, <1>8
  <1>10. QED
    BY <1>9 DEF IsReplay

LEMMA ReplaysRecursion ==
  ASSUME TypeOK
  PROVE  /\ \A a \in ReplayDomain : ReplaysFrom[a] = ReplayStep(ReplaysFrom, a)
         /\ LogStart \in ReplayDomain
  <1>1. IsReplay(ReplaysFrom)
    BY ReplayExists, Zenon DEF ReplaysFrom, IsReplay, ReplayStep, ReplayDomain
  <1>2. QED
    BY <1>1, Geometry DEF IsReplay, ReplayDomain

(* What a power-up comes to is what playback has done at the first place     *)
(* where there is no entry.                                                  *)
LEMMA ReplayLink ==
  ASSUME TypeOK, NEW S, NEW g, EntryStarts(S), Playable(S, g),
         NEW p \in S, p <= LogEnd + 3, Readable(p), p \in LogWords => wlog[p] = Blank
  PROVE  Recoverable = {Over(Base, g[p])}
  <1> DEFINE Agrees(a) ==
               /\ ReplaysFrom[a] # {}
               /\ \A r \in ReplaysFrom[a] : Over(Over(Base, g[a]), r) = Over(Base, g[p])
             Bad == {n \in Nat : \E a \in S : a <= p /\ n = p - a /\ ~Agrees(a)}
  <1>1. S \subseteq Nat /\ p \in Nat /\ LogStart \in S /\ Base \in Contents
        /\ g \in [S -> Delta] /\ g[LogStart] = NoChange
        /\ wlog \in [LogWords -> Word]
    BY BaseType DEF EntryStarts, Playable, TypeOK
  <1>2. \A a \in S : a >= LogStart
    <2> SUFFICES ASSUME NEW a \in S, ~(a >= LogStart) PROVE FALSE
      OBVIOUS
    <2>1. a \in Nat /\ a < LogStart
      BY <1>1, Geometry
    <2>2. a \in LogWords
      BY <1>1, <2>1 DEF EntryStarts
    <2>3. QED
      BY <2>1, <2>2, Geometry DEF LogWords
  <1>3. ASSUME NEW a \in S, a <= p, \A b \in S : a < b /\ b <= p => Agrees(b)
        PROVE  Agrees(a)
    <2>1. a \in ReplayDomain /\ a \in Nat
      BY <1>1, <1>2, <1>3, Geometry DEF ReplayDomain
    <2>2. ReplaysFrom[a] = ReplayStep(ReplaysFrom, a)
      BY <2>1, ReplaysRecursion
    <2>3. CASE a = p
      <3>1. ReplaysFrom[a] = {NoChange}
        <4>1. a >= LogEnd \/ (~(a >= LogEnd) /\ a \in LogWords)
          BY <1>2, <2>1, Geometry DEF LogWords
        <4>2. QED
          BY <2>2, <2>3, <4>1 DEF ReplayStep
      <3>2. Over(Base, g[p]) \in Contents
        BY <1>1, OverType
      <3>3. QED
        BY <2>3, <3>1, <3>2, OverNoChange
    <2>4. CASE a # p
      <3>1. a < p
        BY <1>1, <1>3, <2>1, <2>4
      <3>2. a \in LogWords /\ wlog[a] # Blank /\ a + HeaderWords(wlog[a][0]) <= p
        BY <3>1 DEF EntryStarts
      <3>3. PICK b : b = a + HeaderWords(wlog[a][0])
        OBVIOUS
      <3>4. wlog[a][0] \in Byte
        <4>1. 0 \in 0..(W - 1)
          BY WearLevelingAssumption, SMT
        <4>2. QED
          BY <1>1, <3>2, <4>1 DEF Word
      <3>5. b \in S /\ a < b /\ b <= p /\ Readable(b)
        <4>1. HeaderWords(wlog[a][0]) \in 1..4
          BY <3>4, HeaderWordsType
        <4>2. b \in S
          BY <3>2, <3>3 DEF EntryStarts
        <4>3. a < b /\ b <= p /\ b \in Int
          <5>1. \A n \in 1..4 : a < a + n /\ a + n \in Int
            BY <2>1
          <5>2. QED
            BY <3>2, <3>3, <4>1, <5>1
        <4>4. p <= LogEnd => b <= LogEnd
          BY <1>1, <4>3, Geometry
        <4>5. QED
          BY <4>2, <4>3, <4>4 DEF Readable
      <3>6. Agrees(b)
        BY <1>3, <3>5
      <3>7. ~(a >= LogEnd)
        BY <3>2, Geometry DEF LogWords
      <3>8. ReplaysFrom[a] = UNION {IF e.ok THEN {Then(e, later) : later \in ReplaysFrom[a + e.size]}
                                    ELSE {NoChange} : e \in EntriesAt(a)}
        BY <2>2, <3>2, <3>7 DEF ReplayStep
      <3>9. ASSUME NEW e \in EntriesAt(a)
            PROVE  e \in DecodedEntry /\ e.ok /\ a + e.size = b /\ g[b] = PatchBy(g[a], e)
        <4>1. PICK far \in Beyond : e = Decode(EntryIn(wlog, a, far))
          BY EntryAtIn DEF EntriesAt
        <4>2. e.ok /\ g[b] = PatchBy(g[a], e)
          BY <3>2, <3>3, <3>5, <4>1 DEF Playable
        <4>3. far \in Word
          BY WearLevelingAssumption, SMT
        <4>4. EntryIn(wlog, a, far) \in Raw8 /\ EntryIn(wlog, a, far)[0] = wlog[a][0]
          BY <1>1, <3>2, <4>3, EntryInType
        <4>5. e.size = HeaderWords(wlog[a][0])
          BY <4>1, <4>2, <4>4, DecodeSize
        <4>6. QED
          BY <3>2, <3>3, <4>2, <4>5, EntriesAtType
      <3>10. EntriesAt(a) # {}
        <4>1. Beyond # {}
          BY WearLevelingAssumption, SMT
        <4>2. QED
          BY <4>1 DEF EntriesAt
      <3>11. ReplaysFrom[a] # {}
        <4>1. PICK e \in EntriesAt(a) : TRUE
          BY <3>10
        <4>2. PICK later \in ReplaysFrom[b] : TRUE
          BY <3>6
        <4>3. Then(e, later) \in ReplaysFrom[a]
          BY <3>8, <3>9, <4>1, <4>2
        <4>4. QED
          BY <4>3
      <3>12. ASSUME NEW r \in ReplaysFrom[a]
             PROVE  Over(Over(Base, g[a]), r) = Over(Base, g[p])
        <4>1. PICK e \in EntriesAt(a) :
                r \in IF e.ok THEN {Then(e, later) : later \in ReplaysFrom[a + e.size]} ELSE {NoChange}
          BY <3>8, <3>12
        <4>2. PICK later \in ReplaysFrom[b] : r = Then(e, later)
          BY <3>9, <4>1
        <4>3. Over(Over(Base, g[a]), r) = Over(PatchBy(Over(Base, g[a]), e), later)
          BY <3>9, <4>2, OverThen
        <4>4. PatchBy(Over(Base, g[a]), e) = Over(Base, g[b])
          BY <3>9, OverPatch
        <4>5. QED
          BY <3>6, <4>2, <4>3, <4>4
      <3>13. QED
        BY <3>11, <3>12
    <2>5. QED
      BY <2>3, <2>4
  <1>4. Bad = {}
    <2> SUFFICES ASSUME Bad # {} PROVE FALSE
      OBVIOUS
    <2> HIDE DEF Agrees
    <2>1. PICK n \in Bad : \A y \in Bad : n =< y
      <3>1. Bad \subseteq Nat
        OBVIOUS
      <3> HIDE DEF Bad
      <3>2. QED
        BY <3>1, LeastNatural
    <2>2. PICK a \in S : a <= p /\ n = p - a /\ ~Agrees(a)
      BY <2>1
    <2>3. ASSUME NEW b \in S, a < b, b <= p PROVE Agrees(b)
      <3> SUFFICES ASSUME ~Agrees(b) PROVE FALSE
        OBVIOUS
      <3>1. p - b \in Nat /\ p - b < n
        BY <1>1, <2>2, <2>3
      <3>2. p - b \in Bad
        BY <2>3, <3>1
      <3>3. QED
        BY <1>1, <2>1, <2>2, <3>1, <3>2
    <2>4. QED
      BY <1>3, <2>2, <2>3
  <1>5. Agrees(LogStart)
    <2>1. LogStart <= p /\ p - LogStart \in Nat
      BY <1>1, <1>2, Geometry
    <2> HIDE DEF Agrees
    <2>2. QED
      BY <1>1, <1>4, <2>1
  <1>6. Over(Base, g[LogStart]) = Base
    BY <1>1, OverNoChange
  <1>7. QED
    BY <1>5, <1>6 DEF Recoverable, Replays

-----------------------------------------------------------------------------
(* The inductive invariant. *)
LEMMA InitInv == ASSUME DurableStore, Init PROVE AllInv
  <1>1. TypeInv /\ pc = "off" /\ off = 0 /\ size = 0 /\ sent = 0 /\ Erased
    BY InitType DEF Init, Erased
  <1>2. BoundsInv
    BY <1>1 DEF BoundsInv
  <1>3. EntryStarts({LogStart})
    BY <1>1, ErasedStarts
  <1>4. LogInv
    BY <1>1, <1>3 DEF LogInv, StartsKnown, NothingAfterWriteAddress
  <1>5. PICK g : g = [x \in {LogStart} |-> NoChange]
    OBVIOUS
  <1>6. Playable({LogStart}, g)
    BY <1>1, <1>5, NoChangeType DEF Playable, Erased
  <1>7. LogSays({LogStart}, g)
    BY <1>1, <1>3, <1>6 DEF LogSays
  <1>8. EntrySays /\ AreaSays
    BY <1>1 DEF EntrySays, AreaSays
  <1>9. QED
    BY <1>1, <1>2, <1>4, <1>7, <1>8 DEF AllInv, ReplayInv

LEMMA AllInvHolds == ASSUME DurableStore PROVE Spec => []AllInv
  <1>1. Init => AllInv
    BY InitInv
  <1>2. AllInv /\ [Next]_vars => AllInv'
    BY NextSays
  <1>3. QED
    BY <1>1, <1>2, PTL DEF Spec

(* Durable: between calls, what a power-up would read from the store is what *)
(* reads return now.  After any sequence of writes, erases, consolidations   *)
(* and interrupted calls the cache of wear_leveling.c and its backing store  *)
(* agree.                                                                    *)
THEOREM WritesAreDurable ==
  ASSUME DurableStore
  PROVE  Spec => []Durable
  <1>1. AllInv => Durable
    <2> SUFFICES ASSUME AllInv, pc = "idle" PROVE Recoverable = {cache}
      BY DEF Durable
    <2>1. PICK S, g : LogSays(S, g)
      BY DEF AllInv, ReplayInv
    <2>2. /\ EntryStarts(S) /\ Playable(S, g) /\ write_address \in S
          /\ cache = Over(Base, g[write_address])
      BY <2>1 DEF LogSays
    <2>3. write_address \in LogWords /\ TypeOK /\ write_address \in Nat
      BY DEF AllInv, BoundsInv, TypeInv, TypeOK
    <2>4. wlog[write_address] = Blank
      BY <2>3 DEF AllInv, LogInv, NothingAfterWriteAddress
    <2>5. write_address <= LogEnd + 3 /\ Readable(write_address)
      BY <2>3, Geometry DEF LogWords, Readable
    <2>6. QED
      BY <2>2, <2>3, <2>4, <2>5, ReplayLink
  <1>2. QED
    BY <1>1, AllInvHolds, PTL

(* While the consolidated area is written, the log is erased and the         *)
(* checksum decides.                                                         *)
LEMMA ConsolidatingRecovers ==
  ASSUME AllInv, pc \in {"consolidate", "checksum"}
  PROVE  Recoverable = {Base} /\ Base \in {cache, Zeros}
  <1>1. Erased /\ TypeOK
    BY DEF AllInv, LogInv, TypeInv
  <1>2. PICK g : g = [x \in {LogStart} |-> NoChange]
    OBVIOUS
  <1>3. EntryStarts({LogStart}) /\ Playable({LogStart}, g)
    BY <1>1, <1>2, ErasedStarts, NoChangeType DEF Playable, Erased
  <1>4. LogStart <= LogEnd + 3 /\ Readable(LogStart) /\ wlog[LogStart] = Blank
    BY <1>1, Geometry DEF LogWords, Erased, Readable
  <1>5. Recoverable = {Over(Base, g[LogStart])}
    BY <1>1, <1>3, <1>4, ReplayLink
  <1>6. Base \in Contents /\ Over(Base, g[LogStart]) = Base
    BY <1>1, <1>2, BaseType, OverNoChange
  <1>7. Base \in {cache, Zeros}
    <2>1. CASE pc = "consolidate"
      <3>1. \A i \in ChecksumIndex : checksum[i] = NoHash
        BY <2>1 DEF AllInv, ReplayInv, AreaSays
      <3>2. QED
        BY <1>1, <3>1, NoChecksumBase
    <2>2. CASE pc = "checksum"
      <3>1. consolidated = cache
        BY <2>2 DEF AllInv, ReplayInv, AreaSays
      <3>2. QED
        BY <3>1 DEF Base
    <2>3. QED
      BY <2>1, <2>2
  <1>8. QED
    BY <1>5, <1>6, <1>7

(* ConsolidatedWholeOrEmpty: while wear_leveling_consolidate_force writes    *)
(* the consolidated area, a power-up reads all of the contents or none.      *)
THEOREM ConsolidationIsAtomic ==
  ASSUME DurableStore
  PROVE  Spec => []ConsolidatedWholeOrEmpty
  <1>1. AllInv => ConsolidatedWholeOrEmpty
    BY ConsolidatingRecovers DEF ConsolidatedWholeOrEmpty
  <1>2. QED
    BY <1>1, AllInvHolds, PTL

(* What the rest of a request leaves alone. *)
LEMMA RestOutside ==
  ASSUME NEW r \in Requests, NEW c, NEW o \in Nat, NEW b \in LogicalBytes,
         b < r.address \/ b >= r.address + r.length
  PROVE  Rest(r, c, o)[b] = c[b]
  <1>1. ~(r.address + o <= b /\ b < r.address + o + (r.length - o))
    BY RequestType DEF LogicalBytes
  <1>2. QED
    BY <1>1 DEF Rest, Patch

(* What an entry of a request leaves alone. *)
LEMMA EntryOutside ==
  ASSUME NEW r \in Requests, NEW c, NEW e \in DecodedEntry, NEW b \in LogicalBytes,
         r.address <= e.at, e.at + e.len <= r.address + r.length,
         b < r.address \/ b >= r.address + r.length
  PROVE  PatchBy(c, e)[b] = c[b]
  <1>1. r.address \in Nat /\ r.length \in Nat /\ e.at \in Nat /\ e.len \in Nat /\ b \in Nat
    BY RequestType DEF DecodedEntry, LogicalBytes
  <1>2. ~(e.at <= b /\ b < e.at + e.len)
    BY <1>1
  <1>3. QED
    BY <1>2 DEF PatchBy, Patch

(* An entry that is being written. *)
LEMMA AppendState ==
  ASSUME AllInv, pc = "append"
  PROVE  /\ TypeOK /\ write_address \in LogWords /\ write_address \in Nat /\ req \in Requests
         /\ size \in Nat /\ sent \in Nat /\ sent <= size /\ off \in Nat /\ raw \in Raw8
         /\ size <= ChecksumWords /\ wlog \in [LogWords -> Word]
  BY Geometry DEF AllInv, BoundsInv, TypeInv, TypeOK

(* With words of four or eight bytes an entry has at most two words, and one *)
(* that is being written ends in the log.                                    *)
LEMMA AppendEnds ==
  ASSUME AllInv, pc = "append", W # 2
  PROVE  /\ NextStart \in Nat /\ NextStart >= write_address /\ NextStart <= LogEnd
         /\ NextStart \in LogWords => wlog[NextStart] = Blank
  <1>1. ChecksumWords <= 2
    BY WearLevelingAssumption, SMT DEF ChecksumWords
  <1>2. write_address < LogEnd
    BY AppendState, Geometry DEF LogWords
  <1>3. NextStart \in Nat /\ NextStart >= write_address /\ NextStart <= LogEnd
    BY <1>1, <1>2, AppendState, Geometry DEF NextStart
  <1>4. QED
    BY <1>3 DEF AllInv, LogInv, NothingAfterWriteAddress

(* Playback takes an entry that is partly written for one with the same      *)
(* address and length.                                                       *)
LEMMA TornEntry ==
  ASSUME AllInv, pc = "append", W # 2, sent # 0, sent # size, NEW S, NEW g, LogSays(S, g)
  PROVE  \E e \in DecodedEntry :
           /\ g[NextStart] = PatchBy(g[EntryStart], e)
           /\ e.at = Decode(raw).at /\ e.len = Decode(raw).len
  <1>1. EntryStarts(S) /\ Playable(S, g) /\ NextStart \in S /\ EntryStart \in S
    BY DEF LogSays
  <1>2. PICK start : start = EntryStart
    OBVIOUS
  <1>3. /\ Written /\ HeaderWords(raw[0]) = size
    BY AppendState DEF AllInv, ReplayInv, EntrySays, LogInv
  <1>4. start \in Nat /\ start + sent = write_address
    BY <1>1, <1>2, AppendState DEF EntryStarts, EntryStart
  <1>5. NextStart = start + size /\ start < NextStart
    BY <1>4, AppendState DEF NextStart
  <1>6. start \in LogWords /\ wlog[start] # Blank
    BY <1>1, <1>2, <1>5 DEF EntryStarts
  <1>7. ASSUME NEW k \in 0..(size - 1)
        PROVE  /\ start + k < LogEnd
               /\ wlog[start + k] = IF k < sent THEN EntryWord(raw, k) ELSE Blank
    <2>1. start + k < LogEnd
      BY <1>4, <1>5, AppendState, AppendEnds, Geometry
    <2>2. CASE k < sent
      <3>1. k \in 0..(sent - 1)
        BY <2>2, AppendState
      <3>2. QED
        BY <1>2, <1>3, <2>1, <2>2, <3>1 DEF Written
    <2>3. CASE ~(k < sent)
      <3>1. start + k \in LogWords /\ start + k >= write_address
        BY <1>4, <1>6, <2>1, <2>3, AppendState, Geometry DEF LogWords
      <3>2. QED
        BY <2>1, <2>3, <3>1 DEF AllInv, LogInv, NothingAfterWriteAddress
    <2>4. QED
      BY <2>2, <2>3
  <1>8. wlog[start][0] = raw[0]
    <2>1. 0 \in 0..(size - 1) /\ 0 < sent /\ start + 0 = start
      BY <1>4, AppendState
    <2>2. 0 \in 0..(W - 1) /\ (0 * W) + 0 = 0
      BY WearLevelingAssumption, SMT
    <2>3. wlog[start] = EntryWord(raw, 0)
      BY <1>7, <2>1
    <2>4. QED
      BY <2>2, <2>3 DEF EntryWord
  <1>9. PICK far \in Beyond : far \in Word
    BY WearLevelingAssumption, SMT
  <1>10. PICK read : read = EntryIn(wlog, start, far)
    OBVIOUS
  <1>11. read \in Raw8 /\ Decode(read) \in DecodedEntry
    BY <1>6, <1>9, <1>10, AppendState, EntryInType, DecodeType
  <1>12. g[NextStart] = PatchBy(g[start], Decode(read))
    <2>1. Readable(NextStart)
      BY AppendEnds DEF Readable
    <2>2. QED
      BY <1>1, <1>2, <1>3, <1>5, <1>6, <1>8, <1>10, <2>1 DEF Playable
  <1>13. Decode(raw).ok /\ Decode(raw).len <= 5 /\ sent \in Nat \ {0}
    BY <1>3, AppendState DEF Written
  <1>14. SameBytes(Cut(raw, sent), read)
    BY <1>3, <1>6, <1>7, <1>10, <1>13, AppendState, TornRead
  <1>15. Cut(raw, sent) \in Raw8
    BY AppendState, CutType
  <1>16. Decode(read).at = Decode(raw).at /\ Decode(read).len = Decode(raw).len
    BY <1>11, <1>13, <1>14, <1>15, AppendState, SameBytesSameEntry, CutOk
  <1>17. QED
    BY <1>2, <1>11, <1>12, <1>16

(* TornAppendConfined: with words of four or eight bytes, power lost in the  *)
(* middle of a write changes no byte outside the request, whichever of the   *)
(* words of its entries wear_leveling_append_raw has programmed.             *)
THEOREM TornWritesAreConfined ==
  ASSUME DurableStore, W # 2
  PROVE  Spec => []TornAppendConfined
  <1>1. AllInv => TornAppendConfined
    <2> SUFFICES ASSUME AllInv, pc = "append", NEW c \in Recoverable, NEW b \in LogicalBytes,
                        b < req.address \/ b >= req.address + req.length
                 PROVE  c[b] = before[b]
      BY DEF TornAppendConfined
    <2>1. PICK S, g : LogSays(S, g)
      BY DEF AllInv, ReplayInv
    <2>2. EntryStarts(S) /\ Playable(S, g) /\ NextStart \in S
      BY <2>1 DEF LogSays
    <2>3. req \in Requests /\ off \in Nat /\ raw \in Raw8 /\ TypeOK
      BY AppendState
    <2>4. cache[b] = before[b]
      <3>1. ~InRequest(b)
        BY <2>3, RequestType DEF InRequest, LogicalBytes
      <3>2. QED
        BY <3>1 DEF AllInv, ReplayInv, EntrySays
    <2>5. Readable(NextStart) /\ NextStart <= LogEnd + 3
      BY AppendEnds, Geometry DEF Readable
    <2>6. c = Over(Base, g[NextStart])
      BY <2>2, <2>3, <2>5, AppendEnds, ReplayLink
    <2>7. CASE sent = size
      <3>1. NextStart = write_address /\ cache = Rest(req, Over(Base, g[write_address]), off)
        BY <2>1, <2>7, AppendState DEF LogSays, NextStart
      <3>2. QED
        BY <2>3, <2>4, <2>6, <3>1, RestOutside
    <2>8. CASE sent # size
      <3>1. cache = Rest(req, PatchBy(Over(Base, g[EntryStart]), Decode(raw)), off)
        BY <2>1, <2>8 DEF LogSays
      <3>2. /\ req.address <= Decode(raw).at
            /\ Decode(raw).at + Decode(raw).len <= req.address + req.length
        BY <2>8, AppendState DEF AllInv, ReplayInv, EntrySays
      <3>3. Over(Base, g[EntryStart])[b] = before[b]
        BY <2>3, <2>4, <3>1, <3>2, DecodeType, RestOutside, EntryOutside
      <3>4. CASE sent = 0
        <4>1. NextStart = EntryStart
          BY <3>4, AppendState DEF NextStart, EntryStart
        <4>2. QED
          BY <2>6, <3>3, <4>1
      <3>5. CASE sent # 0
        <4>1. PICK e \in DecodedEntry :
                /\ g[NextStart] = PatchBy(g[EntryStart], e)
                /\ e.at = Decode(raw).at /\ e.len = Decode(raw).len
          BY <2>1, <2>8, <3>5, TornEntry
        <4>2. PatchBy(Over(Base, g[EntryStart]), e)[b] = Over(Base, g[EntryStart])[b]
          BY <2>3, <3>2, <4>1, EntryOutside
        <4>3. c = PatchBy(Over(Base, g[EntryStart]), e)
          BY <2>6, <4>1, OverPatch
        <4>4. QED
          BY <3>3, <4>2, <4>3
      <3>6. QED
        BY <3>4, <3>5
    <2>9. QED
      BY <2>7, <2>8
  <1>2. QED
    BY <1>1, AllInvHolds, PTL
-----------------------------------------------------------------------------
(* The wear-leveling layer is an EEPROM: every step of WearLeveling is a    *)
(* step of Eeprom, or none, under the mapping of WearLeveling.tla.  Power    *)
(* may be lost at any step of any call.                                      *)

(* The hypothesis.  What a power-up makes of an entry that was cut short at  *)
(* the end of the store must not depend on what lies behind it, which is the *)
(* case for words of eight bytes.  With words of two bytes the header of an  *)
(* entry can be cut too, so there only whole calls are considered.           *)
EepromStore ==
  /\ DurableStore
  /\ W = 8 \/ Beyond = {Blank}
  /\ "power" \in Faults => W # 2

(* The chain of entries and the place where playback ends. *)
Chain(S, g, p) ==
  /\ EntryStarts(S) /\ Playable(S, g)
  /\ p \in S /\ p <= LogEnd + 3 /\ Readable(p)
  /\ p \in LogWords => wlog[p] = Blank

(* What may be left of a byte when power is lost. *)
MayBeLeft(c) == \A b \in LogicalBytes : c[b] \in {EepromMem[b], EepromNew[b], 0}

(* Which call is in progress, and what its loop has come to. *)
CallInv ==
  /\ pc \in {"off", "idle"} => call = "none"
  /\ pc = "idle" => before = cache
  /\ pc = "playback" =>
       /\ call = "init"
       /\ cursor <= LogEnd + 3 /\ (W = 8 => cursor <= LogEnd)
  /\ pc = "append" =>
       /\ call = "write"
       /\ size # 0 => Decode(raw).at + Decode(raw).len = req.address + off
  /\ pc = "erase" => call # "none" /\ erase_ok
  /\ pc \in {"consolidate", "checksum"} => call \in {"init", "write"}

(* The consolidated area is what its checksum was made of, or erased. *)
AreaInv ==
  /\ \A i \in ChecksumIndex, b \in LogicalBytes :
       checksum[i] # NoHash => consolidated[b] \in {checksum[i][b], 0}
  /\ pc = "erase" =>
       \A b \in LogicalBytes, k \in Nat : k < cursor /\ InSector(b \div W, k) => consolidated[b] = 0

(* What a power-up would make of a call that is cut short now. *)
CutInv ==
  "power" \in Faults /\ pc \in {"append", "erase"} =>
    \E S, g, p : Chain(S, g, p) /\ MayBeLeft(Over(Base, g[p]))

RefInv == CallInv /\ AreaInv /\ CutInv

(* A change of other state changes nothing of what playback comes to. *)
LEMMA SameRecovered == UNCHANGED store => Recovered' = Recovered
  BY DEF store, Recovered, Recoverable, Base, Replays, ReplaysFrom, EntriesAt, EntryAt
-----------------------------------------------------------------------------
(* The operations on the store that may fail here: none. *)
LEMMA NothingFails ==
  ASSUME DurableStore
  PROVE  /\ Device = "open" /\ Accepts /\ ~EraseFails
         /\ Faults \cap {"init", "read", "erase", "write", "unlock"} = {}
         /\ \A a : ~WriteFails(a)
  BY DEF DurableStore, SoundStore, Accepts, EraseFails, WriteFails

(* An entry is one word where a word holds eight bytes. *)
LEMMA WideHeader ==
  ASSUME NEW x \in Byte, W = 8
  PROVE  HeaderWords(x) = 1
  <1>1. (x \div 8) % 8 \in 0..7
    BY DEF Byte
  <1>2. \A l \in 0..7 : MultibyteWords(l) = 1
    BY DEF MultibyteWords
  <1>3. QED
    BY <1>1, <1>2 DEF HeaderWords

LEMMA ReturnCall == ASSUME NEW s, Return(s) PROVE CallInv'
  BY DEF Return, CallInv

LEMMA ForceCall == ASSUME ConsolidateForce, call' # "none" PROVE CallInv'
  BY DEF ConsolidateForce, CallInv

(* Playback reads every entry of the log. *)
LEMMA PlaybackReads ==
  ASSUME EepromStore, AllInv, CallInv, PlaybackEntry
  PROVE  /\ pc = "playback" /\ pc' = "playback" /\ call' = call
         /\ cursor' <= LogEnd + 3 /\ (W = 8 => cursor' <= LogEnd)
  <1>1. /\ pc = "playback" /\ cursor \in Nat /\ cursor \in LogWords /\ cursor < LogEnd
        /\ wlog[cursor] # Blank /\ wlog \in [LogWords -> Word] /\ call' = call
    BY Geometry DEF PlaybackEntry, LogWords, AllInv, TypeInv, TypeOK
  <1>2. PICK S, g : LogSays(S, g)
    BY <1>1 DEF AllInv, ReplayInv
  <1>3. EntryStarts(S) /\ Playable(S, g) /\ cursor \in S
    BY <1>1, <1>2 DEF LogSays
  <1>4. wlog[cursor][0] \in Byte
    <2>1. 0 \in 0..(W - 1)
      BY WearLevelingAssumption, SMT
    <2>2. QED
      BY <1>1, <2>1 DEF Word
  <1>5. PICK n : n = HeaderWords(wlog[cursor][0])
    OBVIOUS
  <1>6. n \in 1..4 /\ (W = 8 => n = 1)
    BY <1>4, <1>5, HeaderWordsType, WideHeader
  <1>7. cursor + n <= LogEnd + 3 /\ (W = 8 => cursor + n <= LogEnd)
    BY <1>1, <1>6, Geometry
  <1>8. Readable(cursor + n)
    BY <1>7 DEF Readable, EepromStore
  <1>9. ASSUME NEW far \in Beyond
        PROVE  Decode(EntryAt(cursor, far)).ok /\ Decode(EntryAt(cursor, far)).size = n
    <2>1. Decode(EntryIn(wlog, cursor, far)).ok
      BY <1>1, <1>3, <1>5, <1>8 DEF Playable
    <2>2. far \in Word
      BY WearLevelingAssumption, SMT
    <2>3. EntryIn(wlog, cursor, far) \in Raw8 /\ EntryIn(wlog, cursor, far)[0] = wlog[cursor][0]
      BY <1>1, <2>2, EntryInType
    <2>4. QED
      BY <1>5, <2>1, <2>3, DecodeSize, EntryAtIn
  <1>10. pc' = pc /\ cursor' = cursor + n
    BY <1>9 DEF PlaybackEntry
  <1>11. QED
    BY <1>1, <1>7, <1>10

LEMMA NextCall ==
  ASSUME EepromStore, AllInv, CallInv, [Next]_vars
  PROVE  CallInv'
  <1>a. DurableStore
    BY DEF EepromStore
  <1>b. pc = "erase" => erase_ok /\ call # "none"
    BY DEF CallInv
  <1>1. CASE wear_leveling_init
    <2>1. pc' = "playback" /\ call' = "init" /\ cursor' = LogStart
      BY <1>1, <1>a, NothingFails DEF wear_leveling_init
    <2>2. QED
      BY <2>1, Geometry DEF CallInv
  <1>2. CASE PlaybackEnd
    <2>1. call = "init"
      BY <1>2 DEF PlaybackEnd, CallInv
    <2>2. QED
      BY <1>2, <2>1, ReturnCall, ForceCall DEF PlaybackEnd
  <1>3. CASE PlaybackEntry
    <2>1. call = "init"
      BY <1>3 DEF PlaybackEntry, CallInv
    <2>2. QED
      BY <1>3, <2>1, PlaybackReads DEF CallInv
  <1>4. CASE PlaybackReadFails
    BY <1>4, <1>a, NothingFails DEF PlaybackReadFails
  <1>5. CASE EraseSector
    <2>1. pc = "erase" /\ pc' = pc /\ call' = call /\ erase_ok' = erase_ok
      BY <1>5, <1>a, NothingFails DEF EraseSector
    <2>2. QED
      BY <1>b, <2>1 DEF CallInv
  <1>6. CASE EraseReturns
    <2>1. CASE \E s : Return(s)
      BY <2>1, ReturnCall
    <2>2. CASE ~\E s : Return(s)
      <3>1. pc' = "consolidate" /\ call' = call /\ call # "erase" /\ pc = "erase"
        BY <1>6, <2>2 DEF EraseReturns
      <3>2. call \in {"none", "init", "write", "erase"}
        BY DEF AllInv, TypeInv, TypeOK
      <3>3. QED
        BY <1>b, <3>1, <3>2 DEF CallInv
    <2>3. QED
      BY <2>1, <2>2
  <1>7. CASE ConsolidateFails
    BY <1>7, ReturnCall DEF ConsolidateFails
  <1>8. CASE ConsolidateWord
    BY <1>8 DEF ConsolidateWord, CallInv
  <1>9. CASE ChecksumWord
    <2>1. CASE \E s : Return(s)
      BY <2>1, ReturnCall
    <2>2. CASE pc' = pc /\ call' = call
      BY <1>9, <2>2 DEF ChecksumWord, CallInv
    <2>3. QED
      BY <1>9, <2>1, <2>2 DEF ChecksumWord
  <1>10. CASE wear_leveling_write_raw
    <2>1. pc = "append" /\ pc' = "append" /\ call' = call /\ req' = req
      BY <1>10 DEF wear_leveling_write_raw
    <2>2. req.address + req.length <= WEAR_LEVELING_LOGICAL_SIZE /\ off <= req.length
      BY <2>1 DEF AllInv, ReplayInv, EntrySays
    <2>3. /\ Decode(raw').at = req.address + off /\ off' = off + Decode(raw').len
      BY <1>10, <2>2, NextEntry DEF AllInv
    <2>4. off \in Nat /\ off' \in Nat /\ req.address \in Nat /\ Decode(raw').len \in Nat
      <3>1. TypeInv'
        BY NextType DEF AllInv
      <3>2. QED
        BY <2>1, <3>1, RequestType, DecodeType DEF AllInv, TypeInv, TypeOK, DecodedEntry
    <2>5. Decode(raw').at + Decode(raw').len = req.address + off'
      BY <2>3, <2>4
    <2>6. QED
      BY <2>1, <2>5 DEF CallInv
  <1>11. CASE wear_leveling_append_raw
    <2>1. pc = "append" /\ call = "write"
      BY <1>11 DEF wear_leveling_append_raw, CallInv
    <2>2. CASE \E s : Return(s)
      BY <2>2, ReturnCall
    <2>3. CASE ConsolidateForce /\ call' = call
      BY <2>1, <2>3, ForceCall
    <2>4. CASE UNCHANGED <<pc, call, req, off, raw, size>>
      BY <2>1, <2>4 DEF CallInv
    <2>5. QED
      BY <1>11, <2>2, <2>3, <2>4 DEF wear_leveling_append_raw
  <1>12. CASE AppendFails
    BY <1>12, ReturnCall DEF AppendFails
  <1>13. ASSUME NEW r \in Requests, wear_leveling_write(r) PROVE CallInv'
    <2>1. pc = "idle" /\ call = "none" /\ before = cache /\ size = 0
      BY <1>13 DEF wear_leveling_write, CallInv, AllInv, LogInv
    <2>2. CASE pc' = "append"
      <3>1. call' = "write" /\ size' = size
        BY <1>13, <2>1, <2>2 DEF wear_leveling_write
      <3>2. QED
        BY <2>1, <2>2, <3>1 DEF CallInv
    <2>3. CASE pc' = pc
      <3>1. call' = call /\ before' = cache'
        BY <1>13, <2>1, <2>3 DEF wear_leveling_write
      <3>2. QED
        BY <2>1, <2>3, <3>1 DEF CallInv
    <2>4. QED
      BY <1>13, <2>2, <2>3 DEF wear_leveling_write
  <1>14. CASE wear_leveling_erase
    <2>1. ConsolidateForce /\ call' = "erase"
      BY <1>14, <1>a, NothingFails DEF wear_leveling_erase
    <2>2. QED
      BY <2>1, ForceCall
  <1>15. CASE PowerLoss
    BY <1>15 DEF PowerLoss, CallInv
  <1>16. CASE UNCHANGED vars
    BY <1>16 DEF vars, CallInv
  <1>17. QED
    BY <1>1, <1>2, <1>3, <1>4, <1>5, <1>6, <1>7, <1>8, <1>9, <1>10, <1>11, <1>12, <1>13, <1>14,
       <1>15, <1>16 DEF Next, Step

-----------------------------------------------------------------------------
(* The consolidated area. *)
LEMMA SameArea ==
  ASSUME AreaInv, consolidated' = consolidated, checksum' = checksum, pc' = "erase" => cursor' = 0
  PROVE  AreaInv'
  <1>1. \A k \in Nat : ~(k < 0)
    OBVIOUS
  <1>2. QED
    BY <1>1 DEF AreaInv

LEMMA EraseArea ==
  ASSUME DurableStore, AllInv, AreaInv, EraseSector
  PROVE  AreaInv'
  <1>1. pc = "erase" /\ EraseOk(cursor) /\ cursor' = cursor + 1 /\ cursor \in Nat
    BY NothingFails DEF EraseSector, AllInv, TypeInv, TypeOK
  <1>2. \A b \in LogicalBytes :
          consolidated'[b] = IF InSector(b \div W, cursor) THEN 0 ELSE consolidated[b]
    BY <1>1 DEF EraseOk
  <1>3. \A i \in ChecksumIndex : checksum'[i] \in {NoHash, checksum[i]}
    BY <1>1 DEF EraseOk, ChecksumIndex
  <1>4. ASSUME NEW i \in ChecksumIndex, NEW b \in LogicalBytes, checksum'[i] # NoHash
        PROVE  consolidated'[b] \in {checksum'[i][b], 0}
    BY <1>2, <1>3, <1>4 DEF AreaInv
  <1>5. ASSUME NEW b \in LogicalBytes, NEW k \in Nat, k < cursor', InSector(b \div W, k)
        PROVE  consolidated'[b] = 0
    <2>1. k < cursor \/ k = cursor
      BY <1>1, <1>5
    <2>2. k < cursor => consolidated[b] = 0
      BY <1>1, <1>5 DEF AreaInv
    <2>3. QED
      BY <1>2, <1>5, <2>1, <2>2
  <1>6. QED
    BY <1>4, <1>5 DEF AreaInv

LEMMA NextArea ==
  ASSUME EepromStore, AllInv, AreaInv, [Next]_vars
  PROVE  AreaInv'
  <1>a. DurableStore
    BY DEF EepromStore
  <1>1. CASE EraseSector
    BY <1>1, <1>a, EraseArea
  <1>2. CASE ConsolidateWord
    <2>1. pc = "consolidate" /\ pc' # "erase" /\ checksum' = checksum
      BY <1>2 DEF ConsolidateWord
    <2>2. \A i \in ChecksumIndex : checksum[i] = NoHash
      BY <2>1 DEF AllInv, ReplayInv, AreaSays
    <2>3. QED
      BY <2>1, <2>2 DEF AreaInv
  <1>3. CASE ChecksumWord
    <2>1. pc = "checksum" /\ consolidated' = consolidated /\ pc' # "erase"
      BY <1>3 DEF ChecksumWord, Return
    <2>2. \A i \in ChecksumIndex : checksum'[i] \in {checksum[i], cache}
      BY <1>3 DEF ChecksumWord, AllInv, TypeInv, TypeOK, ChecksumIndex
    <2>3. consolidated = cache
      BY <2>1 DEF AllInv, ReplayInv, AreaSays
    <2>4. QED
      BY <2>1, <2>2, <2>3 DEF AreaInv
  <1>4. CASE ~EraseSector /\ ~ConsolidateWord /\ ~ChecksumWord
    <2>1. consolidated' = consolidated /\ checksum' = checksum
      BY <1>4 DEF Next, Step, vars, store, wear_leveling_init, ReturnFailedInit, PlaybackEnd,
           PlaybackEntry, PlaybackReadFails, EraseReturns, ConsolidateFails,
           wear_leveling_write_raw, wear_leveling_append_raw, AppendFails, wear_leveling_write,
           wear_leveling_erase, PowerLoss
    <2>2. CASE UNCHANGED vars
      BY <2>2 DEF vars, AreaInv
    <2>3. CASE Next
      <3>1. pc' = "erase" => cursor' = 0
        BY <1>4, <2>3 DEF Next, Step, wear_leveling_init, ReturnFailedInit, PlaybackEnd,
           PlaybackEntry, PlaybackReadFails, EraseReturns, ConsolidateFails, ConsolidateForce,
           Return, wear_leveling_write_raw, wear_leveling_append_raw, AppendFails,
           wear_leveling_write, wear_leveling_erase, PowerLoss
      <3>2. QED
        BY <2>1, <3>1, SameArea
    <2>4. QED
      BY <2>2, <2>3
  <1>5. QED
    BY <1>1, <1>2, <1>3, <1>4

(* Erasing a sector leaves the base of a power-up, or empties it. *)
LEMMA ErasedBase ==
  ASSUME TypeOK, AreaInv, NEW k, EraseOk(k)
  PROVE  Base' \in {Base, Zeros}
  <1> SUFFICES ASSUME Base' # Zeros PROVE Base' = Base
    OBVIOUS
  <1>1. /\ \A i \in ChecksumIndex : checksum'[i] = consolidated'
        /\ Base' = consolidated'
    BY DEF Base, ChecksumIndex
  <1>2. consolidated' \in Contents /\ consolidated' # NoHash /\ consolidated \in Contents
    <2>1. consolidated' \in Contents /\ consolidated \in Contents
      <3>1. consolidated \in Contents
        BY DEF TypeOK
      <3>2. \A b \in LogicalBytes : consolidated[b] \in Byte /\ 0 \in Byte
        BY <3>1 DEF Contents, Byte
      <3>3. consolidated' = [b \in LogicalBytes |->
                               IF InSector(b \div W, k) THEN 0 ELSE consolidated[b]]
        BY DEF EraseOk
      <3>4. QED
        BY <3>1, <3>2, <3>3 DEF Contents
    <2>2. NoHash \notin Contents
      BY WearLevelingAssumption, SMT
    <2>3. QED
      BY <2>1, <2>2
  <1>3. \A i \in ChecksumIndex : checksum[i] = consolidated' /\ checksum[i] # NoHash
    <2>1. \A i \in ChecksumIndex : checksum'[i] \in {NoHash, checksum[i]}
      BY DEF EraseOk, ChecksumIndex
    <2>2. QED
      BY <1>1, <1>2, <2>1
  <1>4. 0 \in ChecksumIndex
    BY Geometry DEF ChecksumIndex
  <1>5. ASSUME NEW b \in LogicalBytes PROVE consolidated'[b] = consolidated[b]
    <2>1. consolidated'[b] \in {0, consolidated[b]}
      BY DEF EraseOk
    <2>2. consolidated[b] \in {consolidated'[b], 0}
      BY <1>3, <1>4 DEF AreaInv
    <2>3. QED
      BY <2>1, <2>2
  <1>6. consolidated' = consolidated
    BY <1>2, <1>5 DEF Contents
  <1>7. QED
    BY <1>1, <1>3, <1>6 DEF Base, ChecksumIndex

-----------------------------------------------------------------------------
(* What is left of a call that is cut short. *)
LEMMA ChainRecovers ==
  ASSUME TypeOK, NEW S, NEW g, NEW p, Chain(S, g, p)
  PROVE  Recoverable = {Over(Base, g[p])}
  BY ReplayLink DEF Chain

LEMMA SameChain ==
  ASSUME NEW S, NEW g, NEW p, Chain(S, g, p), wlog' = wlog
  PROVE  Chain(S, g, p)'
  BY SameLog, SamePlayable DEF Chain

(* A torn entry has its bytes, or zeros. *)
LEMMA CutData ==
  ASSUME NEW entry \in Raw8, NEW n \in Nat \ {0}, Decode(entry).ok, W # 2, NEW i \in 0..6
  PROVE  Decode(Cut(entry, n)).data[i] \in {Decode(entry).data[i], 0}
  <1> DEFINE torn == Cut(entry, n)
  <1>1. torn[0] = entry[0]
    BY CutOk
  <1>2. entry[0] \div 64 = 0
    <2>1. ~BadEntry.ok
      BY DEF BadEntry
    <2>2. QED
      BY <2>1 DEF Decode, LOG_ENTRY_GET_TYPE, LOG_ENTRY_TYPE_MULTIBYTE
  <1>3. torn[3 + i] \in {entry[3 + i], 0}
    BY DEF Cut
  <1> HIDE DEF torn
  <1>4. Decode(entry) = Multibyte(entry) /\ Decode(torn) = Multibyte(torn)
    BY <1>1, <1>2 DEF Decode, LOG_ENTRY_GET_TYPE, LOG_ENTRY_TYPE_MULTIBYTE
  <1>5. Decode(entry).data[i] = entry[3 + i] /\ Decode(torn).data[i] = torn[3 + i]
    BY <1>4 DEF Multibyte
  <1>6. QED
    BY <1>3, <1>5 DEF torn

InEntry(b) == Decode(raw).at <= b /\ b < Decode(raw).at + Decode(raw).len

(* What the log held before the entry that is being written: outside of the  *)
(* entry, what a power-up would read now.                                    *)
LEMMA BeforeEntry ==
  ASSUME AllInv, CutInv, pc = "append", call = "write", W # 2, "power" \in Faults, sent # size,
         NEW S, NEW g, LogSays(S, g), NEW b \in LogicalBytes, ~InEntry(b)
  PROVE  Over(Base, g[EntryStart])[b] \in {before[b], cache[b], 0}
  <1>1. Over(Base, g[NextStart])[b] \in {before[b], cache[b], 0}
    <2>1. PICK R, h, p : Chain(R, h, p) /\ MayBeLeft(Over(Base, h[p]))
      BY DEF CutInv
    <2>2. Recoverable = {Over(Base, h[p])}
      BY <2>1, AppendState, ChainRecovers
    <2>3. Readable(NextStart) /\ NextStart <= LogEnd + 3
      BY AppendEnds, Geometry DEF Readable
    <2>4. Chain(S, g, NextStart)
      BY <2>3, AppendEnds DEF Chain, LogSays
    <2>5. Recoverable = {Over(Base, g[NextStart])}
      BY <2>4, AppendState, ChainRecovers
    <2>6. EepromMem = before /\ EepromNew = cache
      BY DEF EepromMem, EepromNew
    <2>7. QED
      BY <2>1, <2>2, <2>5, <2>6 DEF MayBeLeft
  <1>2. CASE sent = 0
    <2>1. NextStart = EntryStart
      BY <1>2, AppendState DEF NextStart, EntryStart
    <2>2. QED
      BY <1>1, <2>1
  <1>3. CASE sent # 0
    <2>1. PICK e \in DecodedEntry :
            /\ g[NextStart] = PatchBy(g[EntryStart], e)
            /\ e.at = Decode(raw).at /\ e.len = Decode(raw).len
      BY <1>3, TornEntry
    <2>2. Over(Base, g[NextStart]) = PatchBy(Over(Base, g[EntryStart]), e)
      BY <2>1, OverPatch
    <2>3. PatchBy(Over(Base, g[EntryStart]), e)[b] = Over(Base, g[EntryStart])[b]
      BY <2>1 DEF PatchBy, Patch, InEntry
    <2>4. QED
      BY <1>1, <2>2, <2>3
  <1>4. QED
    BY <1>2, <1>3

(* The bytes of the entry that is being written are those of the cache. *)
LEMMA EntryIsCached ==
  ASSUME AllInv, CallInv, pc = "append", sent # size, NEW S, NEW g, LogSays(S, g),
         NEW b \in LogicalBytes, InEntry(b)
  PROVE  /\ b - Decode(raw).at \in 0..6
         /\ cache[b] = Decode(raw).data[b - Decode(raw).at]
  <1>1. cache = Rest(req, PatchBy(Over(Base, g[EntryStart]), Decode(raw)), off)
    BY DEF LogSays
  <1>2. Decode(raw).at + Decode(raw).len = req.address + off
    BY AppendState DEF CallInv
  <1>3. /\ Decode(raw).at \in Nat /\ Decode(raw).len \in 0..7 /\ b \in Nat
        /\ req.address \in Nat /\ off \in Nat
    BY AppendState, RequestType, DecodeType DEF DecodedEntry, LogicalBytes
  <1>4. ~(req.address + off <= b)
    BY <1>2, <1>3 DEF InEntry
  <1>5. cache[b] = PatchBy(Over(Base, g[EntryStart]), Decode(raw))[b]
    BY <1>1, <1>4 DEF Rest, Patch
  <1>6. b - Decode(raw).at \in 0..6
    BY <1>3 DEF InEntry
  <1>7. QED
    BY <1>5, <1>6 DEF PatchBy, Patch, InEntry

LEMMA AppendCut ==
  ASSUME EepromStore, "power" \in Faults, AllInv, CallInv, CutInv, TypeInv',
         wear_leveling_append_raw
  PROVE  \E S, g, p :
           /\ Chain(S, g, p)'
           /\ \A b \in LogicalBytes : Over(Base', g[p])[b] \in {before[b], cache[b], 0}
  <1>1. /\ pc = "append" /\ sent < size /\ call = "write" /\ W # 2 /\ DurableStore
        /\ consolidated' = consolidated /\ checksum' = checksum
        /\ WriteOk(write_address, EntryWord(raw, sent))
    BY DEF wear_leveling_append_raw, CallInv, EepromStore
  <1>2. Appending /\ sent # size
    BY <1>1, AppendState DEF Appending, AllInv, DurableStore
  <1>3. PICK S, g : LogSays(S, g)
    BY <1>1 DEF AllInv, ReplayInv
  <1>4. PICK next : next = write_address + (size - sent)
    OBVIOUS
  <1>5. PICK T, h :
          /\ EntryStarts(T)' /\ Playable(T, h)' /\ next \in T
          /\ h[next] = PatchBy(g[EntryStart], Decode(Cut(raw, sent + 1)))
    BY <1>1, <1>3, <1>4, AppendedLog
  <1>6. /\ next \in Nat /\ next >= write_address + 1 /\ next <= LogEnd + 3 /\ Readable(next)
    <2>1. write_address < LogEnd /\ write_address \in Nat
      BY <1>1, AppendState, Geometry DEF LogWords
    <2>2. next \in Nat /\ next >= write_address + 1 /\ next <= LogEnd + 3
      BY <1>1, <1>4, <2>1, AppendState, Geometry
    <2>3. W = 8 => next <= LogEnd
      <3>1. W = 8 => ChecksumWords = 1
        BY DEF ChecksumWords
      <3>2. QED
        BY <1>1, <1>4, <2>1, <3>1, AppendState, Geometry
    <2>4. QED
      BY <2>2, <2>3 DEF Readable, EepromStore
  <1>7. next \in LogWords => wlog'[next] = Blank
    BY <1>2, <1>6, AppendedBlank
  <1>8. Chain(T, h, next)'
    BY <1>5, <1>6, <1>7 DEF Chain, Readable
  <1>9. PICK torn : torn = Decode(Cut(raw, sent + 1))
    OBVIOUS
  <1>10. /\ torn \in DecodedEntry /\ torn.at = Decode(raw).at /\ torn.len = Decode(raw).len
         /\ \A i \in 0..6 : torn.data[i] \in {Decode(raw).data[i], 0}
    <2>1. sent + 1 \in Nat \ {0} /\ raw \in Raw8
      BY <1>1, AppendState
    <2>2. Decode(raw).ok
      BY <1>1, AppendState DEF AllInv, ReplayInv, EntrySays, Written
    <2>3. torn \in DecodedEntry
      BY <1>9, <2>1, CutType, DecodeType
    <2>4. QED
      BY <1>1, <1>9, <2>1, <2>2, <2>3, CutOk, CutData
  <1>11. Base' = Base
    BY <1>1, SameBase
  <1>12. Over(Base', h[next]) = PatchBy(Over(Base, g[EntryStart]), torn)
    BY <1>5, <1>9, <1>10, <1>11, OverPatch
  <1>13. ASSUME NEW b \in LogicalBytes
         PROVE  Over(Base', h[next])[b] \in {before[b], cache[b], 0}
    <2>1. CASE InEntry(b)
      <3>1. Over(Base', h[next])[b] = torn.data[b - Decode(raw).at]
        BY <1>10, <1>12, <2>1 DEF PatchBy, Patch, InEntry
      <3>2. /\ b - Decode(raw).at \in 0..6
            /\ cache[b] = Decode(raw).data[b - Decode(raw).at]
        BY <1>1, <1>2, <1>3, <2>1, EntryIsCached
      <3>3. QED
        BY <1>10, <3>1, <3>2
    <2>2. CASE ~InEntry(b)
      <3>1. Over(Base', h[next])[b] = Over(Base, g[EntryStart])[b]
        BY <1>10, <1>12, <2>2 DEF PatchBy, Patch, InEntry
      <3>2. QED
        BY <1>1, <1>2, <1>3, <2>2, <3>1, BeforeEntry
    <2>3. QED
      BY <2>1, <2>2
  <1>14. QED
    BY <1>8, <1>13

(* The consolidated area lies before the log. *)
LEMMA AreaBeforeLog ==
  ASSUME NEW b \in LogicalBytes, NEW n \in Nat, InSector(LogStart, n)
  PROVE  \E k \in Nat : k <= n /\ InSector(b \div W, k)
  <1> DEFINE x == (b \div W) * W
             y == LogStart * W
  <1>1. x \in Nat /\ y \in Nat /\ x <= y
    <2>1. WEAR_LEVELING_LOGICAL_SIZE \in Nat /\ b \in Nat /\ b < WEAR_LEVELING_LOGICAL_SIZE
      BY WearLevelingAssumption, SMT DEF LogicalBytes
    <2>2. CASE W = 2  BY <2>1, <2>2 DEF LogStart
    <2>3. CASE W = 4  BY <2>1, <2>3 DEF LogStart
    <2>4. CASE W = 8  BY <2>1, <2>4 DEF LogStart
    <2>5. QED
      BY <2>2, <2>3, <2>4, WearLevelingAssumption, SMT
  <1> HIDE DEF x, y
  <1>2. SECTOR_SIZE \in Nat \ {0}
    BY WearLevelingAssumption, SMT
  <1>3. x \div SECTOR_SIZE \in Nat /\ x \div SECTOR_SIZE <= y \div SECTOR_SIZE
    BY <1>1, <1>2
  <1>4. QED
    BY <1>3 DEF InSector, x, y

LEMMA EraseCut ==
  ASSUME EepromStore, AllInv, AreaInv, CutInv, EraseSector
  PROVE  CutInv'
  <1> SUFFICES ASSUME "power" \in Faults
               PROVE  (\E S, g, p : Chain(S, g, p) /\ MayBeLeft(Over(Base, g[p])))'
    BY DEF CutInv
  <1>1. DurableStore
    BY DEF EepromStore
  <1>2. /\ pc = "erase" /\ pc' = "erase" /\ EraseOk(cursor) /\ cursor \in Nat /\ TypeOK
        /\ EepromMem' = EepromMem /\ EepromNew' = EepromNew
    BY <1>1, NothingFails DEF EraseSector, EepromMem, EepromNew, AllInv, TypeInv, TypeOK
  <1>3. PICK S, g, p : Chain(S, g, p) /\ MayBeLeft(Over(Base, g[p]))
    BY <1>2 DEF CutInv
  <1>4. CASE \A a \in LogWords : InSector(a, cursor)
    <2>1. Erased'
      BY <1>2, <1>4 DEF Erased, EraseOk
    <2>2. PICK h : h = [x \in {LogStart} |-> NoChange]
      OBVIOUS
    <2>3. EntryStarts({LogStart})' /\ Playable({LogStart}, h)'
      BY <2>1, <2>2, ErasedPlayable
    <2>4. LogStart <= LogEnd + 3 /\ LogStart <= LogEnd /\ LogStart \in LogWords
      BY Geometry DEF LogWords
    <2>5. Chain({LogStart}, h, LogStart)'
      BY <2>1, <2>3, <2>4 DEF Chain, Readable, Erased
    <2>6. ASSUME NEW b \in LogicalBytes PROVE consolidated'[b] = 0
      <3>1. PICK k \in Nat : k <= cursor /\ InSector(b \div W, k)
        BY <1>2, <1>4, <2>4, AreaBeforeLog
      <3>2. k < cursor \/ k = cursor
        BY <1>2, <3>1
      <3>3. k < cursor => consolidated[b] = 0
        BY <1>2, <3>1 DEF AreaInv
      <3>4. QED
        BY <1>2, <3>1, <3>2, <3>3 DEF EraseOk
    <2>7. consolidated' = Zeros
      BY <1>2, <2>6 DEF EraseOk, Zeros
    <2>8. Base' = Zeros
      BY <2>7 DEF Base
    <2>9. \A b \in LogicalBytes : Over(Base', h[LogStart])[b] = 0
      BY <2>2, <2>8 DEF Over, NoChange, Zeros
    <2>10. MayBeLeft(Over(Base, h[LogStart]))'
      BY <2>9 DEF MayBeLeft
    <2>11. QED
      BY <2>5, <2>10
  <1>5. CASE \A a \in LogWords : ~InSector(a, cursor)
    <2>1. wlog' = wlog
      <3>1. wlog \in [LogWords -> Word]
        BY <1>2 DEF TypeOK
      <3>2. QED
        BY <1>2, <1>5, <3>1 DEF EraseOk
    <2>2. Chain(S, g, p)'
      BY <1>3, <2>1, SameChain
    <2>3. Base' \in {Base, Zeros}
      BY <1>2, ErasedBase
    <2>4. \A b \in LogicalBytes : Over(Base', g[p])[b] \in {Over(Base, g[p])[b], 0}
      BY <2>3 DEF Over, Zeros
    <2>5. MayBeLeft(Over(Base, g[p]))'
      BY <1>2, <1>3, <2>4 DEF MayBeLeft
    <2>6. QED
      BY <2>2, <2>5
  <1>6. QED
    BY <1>1, <1>2, <1>4, <1>5 DEF DurableStore, SoundStore, LogInOneSector

(* Between calls, and where playback ends, the cache is what a power-up      *)
(* would read.                                                               *)
LEMMA IdleChain ==
  ASSUME AllInv, pc = "idle"
  PROVE  \E S, g, p : Chain(S, g, p) /\ Over(Base, g[p]) = cache
  <1>1. PICK S, g : LogSays(S, g)
    BY DEF AllInv, ReplayInv
  <1>2. write_address \in LogWords
    BY DEF AllInv, BoundsInv
  <1>3. /\ wlog[write_address] = Blank
        /\ write_address <= LogEnd + 3 /\ Readable(write_address)
    <2>1. write_address \in Nat /\ write_address < LogEnd
      BY <1>2, Geometry DEF LogWords
    <2>2. wlog[write_address] = Blank
      BY <1>2, <2>1 DEF AllInv, LogInv, NothingAfterWriteAddress
    <2>3. QED
      BY <2>1, <2>2, Geometry DEF Readable
  <1>4. QED
    BY <1>1, <1>3 DEF LogSays, Chain

LEMMA PlayedChain ==
  ASSUME EepromStore, AllInv, CallInv, PlaybackEnd
  PROVE  \E S, g, p : Chain(S, g, p) /\ Over(Base, g[p]) = cache
  <1>1. pc = "playback" /\ (cursor < LogEnd => wlog[cursor] = Blank) /\ cursor \in Nat
    BY DEF PlaybackEnd, AllInv, TypeInv, TypeOK
  <1>2. PICK S, g : LogSays(S, g)
    BY <1>1 DEF AllInv, ReplayInv
  <1>3. cursor <= LogEnd + 3 /\ Readable(cursor)
    BY <1>1 DEF CallInv, Readable, EepromStore
  <1>4. cursor \in LogWords => wlog[cursor] = Blank
    BY <1>1, Geometry DEF LogWords
  <1>5. QED
    BY <1>1, <1>2, <1>3, <1>4 DEF LogSays, Chain

(* A call begins, or its erase does, and the store stays as it was. *)
LEMMA CutBegins ==
  ASSUME NEW S, NEW g, NEW p, Chain(S, g, p), UNCHANGED store,
         \A b \in LogicalBytes : Over(Base, g[p])[b] \in {EepromMem'[b], EepromNew'[b], 0}
  PROVE  CutInv'
  <1>1. Chain(S, g, p)' /\ Base' = Base
    BY SameChain, SameBase DEF store
  <1>2. MayBeLeft(Over(Base, g[p]))'
    BY <1>1 DEF MayBeLeft
  <1>3. QED
    BY <1>1, <1>2 DEF CutInv

LEMMA NextCut ==
  ASSUME EepromStore, AllInv, RefInv, [Next]_vars
  PROVE  CutInv'
  <1>a. CallInv /\ AreaInv /\ CutInv /\ DurableStore /\ TypeInv'
    BY NextType DEF RefInv, EepromStore, AllInv
  <1> SUFFICES ASSUME "power" \in Faults, pc' \in {"append", "erase"} PROVE CutInv'
    BY DEF CutInv
  <1>1. CASE PlaybackEnd
    <2>1. PICK S, g, p : Chain(S, g, p) /\ Over(Base, g[p]) = cache
      BY <1>1, <1>a, PlayedChain
    <2>2. pc' = "erase" /\ cache' = cache /\ call' = call /\ UNCHANGED store
      BY <1>1 DEF PlaybackEnd, Return, ConsolidateForce
    <2>3. call = "init"
      BY <1>1, <1>a DEF PlaybackEnd, CallInv
    <2>4. EepromMem' = cache
      BY <2>2, <2>3 DEF EepromMem
    <2>5. QED
      BY <2>1, <2>2, <2>4, CutBegins
  <1>2. CASE EraseSector
    BY <1>2, <1>a, EraseCut
  <1>3. CASE wear_leveling_write_raw
    <2>1. /\ pc = "append" /\ pc' = pc /\ call' = call /\ cache' = cache /\ before' = before
          /\ UNCHANGED store
      BY <1>3 DEF wear_leveling_write_raw
    <2>2. EepromMem' = EepromMem /\ EepromNew' = EepromNew
      BY <2>1 DEF EepromMem, EepromNew
    <2>3. PICK S, g, p : Chain(S, g, p) /\ MayBeLeft(Over(Base, g[p]))
      BY <1>a, <2>1 DEF CutInv
    <2>4. QED
      BY <2>1, <2>2, <2>3, CutBegins DEF MayBeLeft
  <1>4. CASE wear_leveling_append_raw
    <2>1. call = "write" /\ call' = call /\ cache' = cache /\ before' = before
      BY <1>4, <1>a DEF wear_leveling_append_raw, CallInv, Return
    <2>2. EepromMem' = before /\ EepromNew' = cache
      BY <2>1 DEF EepromMem, EepromNew
    <2>3. PICK S, g, p :
            /\ Chain(S, g, p)'
            /\ \A b \in LogicalBytes : Over(Base', g[p])[b] \in {before[b], cache[b], 0}
      BY <1>4, <1>a, AppendCut
    <2>4. MayBeLeft(Over(Base, g[p]))'
      BY <2>2, <2>3 DEF MayBeLeft
    <2>5. QED
      BY <2>3, <2>4 DEF CutInv
  <1>5. ASSUME NEW r \in Requests, wear_leveling_write(r) PROVE CutInv'
    <2>1. pc = "idle" /\ call' = "write" /\ before' = cache /\ UNCHANGED store
      BY <1>5 DEF wear_leveling_write
    <2>2. PICK S, g, p : Chain(S, g, p) /\ Over(Base, g[p]) = cache
      BY <2>1, IdleChain
    <2>3. EepromMem' = cache
      BY <2>1 DEF EepromMem
    <2>4. QED
      BY <2>1, <2>2, <2>3, CutBegins
  <1>6. CASE wear_leveling_erase
    <2>1. pc = "idle" /\ call' = "erase" /\ before' = before /\ UNCHANGED store
      BY <1>6, <1>a, NothingFails DEF wear_leveling_erase
    <2>2. PICK S, g, p : Chain(S, g, p) /\ Over(Base, g[p]) = cache
      BY <2>1, IdleChain
    <2>3. EepromMem' = cache
      BY <1>a, <2>1 DEF EepromMem, CallInv
    <2>4. QED
      BY <2>1, <2>2, <2>3, CutBegins
  <1>7. CASE UNCHANGED vars
    <2>1. /\ pc' = pc /\ call' = call /\ cache' = cache /\ before' = before /\ UNCHANGED store
      BY <1>7 DEF vars, store
    <2>2. EepromMem' = EepromMem /\ EepromNew' = EepromNew
      BY <2>1 DEF EepromMem, EepromNew
    <2>3. PICK S, g, p : Chain(S, g, p) /\ MayBeLeft(Over(Base, g[p]))
      BY <1>a, <2>1 DEF CutInv
    <2>4. QED
      BY <2>1, <2>2, <2>3, CutBegins DEF MayBeLeft
  <1>8. CASE \/ wear_leveling_init \/ PlaybackReadFails \/ EraseReturns \/ ConsolidateFails
             \/ ConsolidateWord \/ ChecksumWord \/ AppendFails \/ PowerLoss
    BY <1>8, <1>a, NothingFails DEF wear_leveling_init, ReturnFailedInit, PlaybackReadFails,
         EraseReturns, ConsolidateFails, ConsolidateWord, ChecksumWord, AppendFails, PowerLoss, Return
  <1>9. CASE PlaybackEntry
    BY <1>9, <1>a, PlaybackReads
  <1>10. QED
    BY <1>1, <1>2, <1>3, <1>4, <1>5, <1>6, <1>7, <1>8, <1>9 DEF Next, Step

LEMMA InitRef == Init => RefInv
  <1>1. Init => CallInv /\ CutInv
    BY DEF Init, CallInv, CutInv
  <1>2. Init => AreaInv
    BY DEF Init, AreaInv, ChecksumIndex
  <1>3. QED
    BY <1>1, <1>2 DEF RefInv

LEMMA NextRef ==
  ASSUME EepromStore, AllInv, RefInv, [Next]_vars
  PROVE  RefInv'
  BY NextCall, NextArea, NextCut DEF RefInv

-----------------------------------------------------------------------------
(* Every step is a step of the EEPROM. *)
LEMMA InitIsInit == ASSUME EepromStore, Init PROVE Memory!Init
  <1>1. pc = "off" /\ Erased /\ TypeOK /\ consolidated = Zeros
    BY InitType DEF Init, Erased, TypeInv
  <1>2. PICK g : g = [x \in {LogStart} |-> NoChange]
    OBVIOUS
  <1>3. EntryStarts({LogStart}) /\ Playable({LogStart}, g)
    BY <1>1, <1>2, ErasedStarts, NoChangeType DEF Playable, Erased
  <1>4. Readable(LogStart) /\ LogStart <= LogEnd + 3 /\ LogStart \in LogWords
    BY Geometry DEF Readable, LogWords
  <1>5. Chain({LogStart}, g, LogStart)
    BY <1>1, <1>3, <1>4 DEF Chain, Erased
  <1>6. Base = Zeros
    BY <1>1 DEF Base
  <1>7. Recoverable = {Zeros}
    BY <1>1, <1>2, <1>5, <1>6, ChainRecovers, OverNoChange, ZerosType
  <1>8. Recovered = Zeros
    BY <1>7 DEF Recovered
  <1>9. EepromMode = "off" /\ EepromMem = Zeros /\ EepromNew = Zeros
    BY <1>1, <1>8 DEF EepromMode, EepromMem, EepromNew
  <1>10. QED
    BY <1>9 DEF Memory!Init, Memory!Zeros, Zeros

LEMMA Returned ==
  ASSUME NEW s, Return(s)
  PROVE  EepromMode' = "on" /\ EepromMem' = cache' /\ EepromNew' = cache'
  BY DEF Return, EepromMode, EepromMem, EepromNew

(* What a power-up would read at the points where it is known. *)
LEMMA IdleRecovers ==
  ASSUME AllInv, pc = "idle"
  PROVE  Recovered = cache
  <1>1. Recoverable = {cache}
    BY IdleChain, ChainRecovers DEF AllInv, TypeInv
  <1>2. QED
    BY <1>1 DEF Recovered

LEMMA PlayedRecovers ==
  ASSUME EepromStore, AllInv, CallInv, PlaybackEnd
  PROVE  Recovered = cache
  <1>1. Recoverable = {cache}
    BY PlayedChain, ChainRecovers DEF AllInv, TypeInv
  <1>2. QED
    BY <1>1 DEF Recovered

LEMMA CutRecovers ==
  ASSUME AllInv, RefInv, "power" \in Faults, pc \in {"append", "erase", "consolidate", "checksum"}
  PROVE  MayBeLeft(Recovered)
  <1>1. CASE pc \in {"append", "erase"}
    <2>1. PICK S, g, p : Chain(S, g, p) /\ MayBeLeft(Over(Base, g[p]))
      BY <1>1 DEF RefInv, CutInv
    <2>2. Recoverable = {Over(Base, g[p])}
      BY <2>1, ChainRecovers DEF AllInv, TypeInv
    <2>3. Recovered = Over(Base, g[p])
      BY <2>2 DEF Recovered
    <2>4. QED
      BY <2>1, <2>3
  <1>2. CASE pc \in {"consolidate", "checksum"}
    <2>1. Recoverable = {Base} /\ Base \in {cache, Zeros}
      BY <1>2, ConsolidatingRecovers
    <2>2. Recovered \in {cache, Zeros}
      BY <2>1 DEF Recovered
    <2>3. EepromNew = cache
      BY <1>2 DEF EepromNew, RefInv, CallInv
    <2>4. QED
      BY <2>2, <2>3 DEF MayBeLeft, Zeros
  <1>3. QED
    BY <1>1, <1>2

eepromVars == <<EepromMode, EepromMem, EepromNew>>

(* Inside a call, a step that leaves the cache and the call alone. *)
LEMMA Stutters ==
  ASSUME UNCHANGED <<call, cache, before>>,
         pc \in {"append", "erase", "consolidate", "checksum"},
         pc' \in {"append", "erase", "consolidate", "checksum"}
  PROVE  UNCHANGED eepromVars
  BY DEF eepromVars, EepromMode, EepromMem, EepromNew

(* A write or a power-up is over. *)
LEMMA Completes ==
  ASSUME NEW s, Return(s), cache' = cache, pc \in {"append", "erase", "consolidate", "checksum"},
         call \in {"init", "write"}
  PROVE  Memory!PowerUp \/ Memory!Commit
  <1>1. EepromMode' = "on" /\ EepromMem' = cache /\ EepromNew' = cache
    BY Returned
  <1>2. EepromNew = cache
    BY DEF EepromNew
  <1>3. CASE call = "init"
    <2>1. EepromMode = "off" /\ EepromMem = cache
      BY <1>3 DEF EepromMode, EepromMem
    <2>2. QED
      BY <1>1, <1>2, <2>1 DEF Memory!PowerUp
  <1>4. CASE call = "write"
    <2>1. EepromMode = "busy"
      BY <1>4 DEF EepromMode
    <2>2. QED
      BY <1>1, <1>2, <2>1 DEF Memory!Commit
  <1>5. QED
    BY <1>3, <1>4

LEMMA PowerLossIsPowerLoss ==
  ASSUME AllInv, RefInv, PowerLoss
  PROVE  Memory!PowerLoss
  <1>1. /\ pc' = "off" /\ UNCHANGED store /\ pc # "off" /\ (pc = "idle" \/ "power" \in Faults)
    BY DEF PowerLoss
  <1>2. EepromMode' = "off" /\ EepromMem' = Recovered /\ EepromNew' = Recovered
    BY <1>1, SameRecovered DEF EepromMode, EepromMem, EepromNew
  <1>3. CASE pc = "idle"
    <2>1. EepromMode = "on" /\ EepromMem = cache
      BY <1>3 DEF EepromMode, EepromMem, RefInv, CallInv
    <2>2. QED
      BY <1>2, <1>3, <2>1, IdleRecovers DEF Memory!PowerLoss
  <1>4. CASE pc = "playback"
    <2>1. EepromMode # "on" /\ EepromMem = Recovered
      BY <1>4 DEF EepromMode, EepromMem
    <2>2. QED
      BY <1>2, <2>1 DEF Memory!PowerLoss
  <1>5. CASE pc \in {"append", "erase", "consolidate", "checksum"}
    <2>1. EepromMode # "on" /\ MayBeLeft(Recovered)
      BY <1>1, <1>5, CutRecovers DEF EepromMode
    <2>2. QED
      BY <1>2, <2>1 DEF Memory!PowerLoss, MayBeLeft
  <1>6. QED
    BY <1>1, <1>3, <1>4, <1>5 DEF AllInv, TypeInv, TypeOK

LEMMA WriteIsWrite ==
  ASSUME AllInv, RefInv, DurableStore, NEW r \in Requests, wear_leveling_write(r)
  PROVE  Memory!Write(r) \/ UNCHANGED eepromVars
  <1>1. pc = "idle" /\ call = "none"
    BY DEF wear_leveling_write, RefInv, CallInv
  <1>2. EepromMode = "on" /\ EepromMem = cache /\ EepromNew = cache
    BY <1>1 DEF EepromMode, EepromMem, EepromNew
  <1>3. CASE pc' = "append"
    <2>1. /\ call' = "write" /\ before' = cache
          /\ cache' = Patch(cache, r.address, r.length, r.value)
      BY <1>1, <1>3 DEF wear_leveling_write
    <2>2. EepromMode' = "busy" /\ EepromMem' = cache /\ EepromNew' = cache'
      BY <1>3, <2>1 DEF EepromMode, EepromMem, EepromNew
    <2>3. QED
      BY <1>2, <2>1, <2>2 DEF Memory!Write, Patch
  <1>4. CASE pc' # "append"
    <2>1. UNCHANGED <<pc, call, cache>>
      BY <1>4, NothingFails DEF wear_leveling_write
    <2>2. EepromMode' = "on" /\ EepromMem' = cache /\ EepromNew' = cache
      BY <1>1, <2>1 DEF EepromMode, EepromMem, EepromNew
    <2>3. QED
      BY <1>2, <2>2 DEF eepromVars
  <1>5. QED
    BY <1>3, <1>4

LEMMA EraseIsErase ==
  ASSUME AllInv, RefInv, DurableStore, wear_leveling_erase
  PROVE  Memory!Erase
  <1>1. pc = "idle" /\ call = "none" /\ before = cache
    BY DEF wear_leveling_erase, RefInv, CallInv
  <1>2. pc' = "erase" /\ call' = "erase" /\ before' = before
    BY NothingFails DEF wear_leveling_erase, ConsolidateForce
  <1>3. EepromMode = "on" /\ EepromMem = cache
    BY <1>1 DEF EepromMode, EepromMem
  <1>4. EepromMode' = "busy" /\ EepromMem' = cache /\ EepromNew' = Zeros
    BY <1>1, <1>2 DEF EepromMode, EepromMem, EepromNew
  <1>5. QED
    BY <1>3, <1>4 DEF Memory!Erase, Memory!Zeros, Zeros

LEMMA EraseReturnsIsCommit ==
  ASSUME AllInv, RefInv, EraseReturns
  PROVE  Memory!Commit \/ UNCHANGED eepromVars
  <1>1. pc = "erase" /\ erase_ok
    BY DEF EraseReturns, RefInv, CallInv
  <1>2. CASE call = "erase"
    <2>1. cache' = Zeros /\ \E s : Return(s)
      BY <1>1, <1>2 DEF EraseReturns, wear_leveling_clear_cache
    <2>2. EepromMode = "busy" /\ EepromNew = Zeros
      BY <1>1, <1>2 DEF EepromMode, EepromNew
    <2>3. EepromMode' = "on" /\ EepromMem' = Zeros /\ EepromNew' = Zeros
      BY <2>1, Returned
    <2>4. QED
      BY <2>2, <2>3 DEF Memory!Commit
  <1>3. CASE call # "erase"
    <2>1. pc' = "consolidate" /\ UNCHANGED <<call, cache, before>>
      BY <1>1, <1>3 DEF EraseReturns
    <2>2. QED
      BY <1>1, <2>1, Stutters
  <1>4. QED
    BY <1>2, <1>3

LEMMA StepIsStep ==
  ASSUME EepromStore, AllInv, RefInv, [Next]_vars
  PROVE  Memory!Next \/ UNCHANGED eepromVars
  <1>a. CallInv /\ DurableStore
    BY DEF RefInv, EepromStore
  <1>1. CASE wear_leveling_init
    <2>1. pc = "off" /\ pc' = "playback" /\ call' = "init" /\ UNCHANGED store
      BY <1>1, <1>a, NothingFails DEF wear_leveling_init
    <2>2. QED
      BY <2>1, SameRecovered DEF eepromVars, EepromMode, EepromMem, EepromNew
  <1>2. CASE PlaybackEnd
    <2>1. pc = "playback" /\ call = "init" /\ cache' = cache
      BY <1>2, <1>a DEF PlaybackEnd, CallInv
    <2>2. EepromMode = "off" /\ EepromMem = cache /\ EepromNew = cache
      BY <1>2, <1>a, <2>1, PlayedRecovers DEF EepromMode, EepromMem, EepromNew
    <2>3. CASE Return(SUCCESS)
      BY <2>1, <2>2, <2>3, Returned DEF Memory!Next, Memory!PowerUp
    <2>4. CASE ConsolidateForce /\ call' = call
      BY <2>1, <2>2, <2>4 DEF ConsolidateForce, eepromVars, EepromMode, EepromMem, EepromNew
    <2>5. QED
      BY <1>2, <2>3, <2>4 DEF PlaybackEnd
  <1>3. CASE PlaybackEntry
    <2>1. pc = "playback" /\ pc' = "playback" /\ call' = call /\ UNCHANGED store
      BY <1>3, <1>a, PlaybackReads DEF PlaybackEntry
    <2>2. QED
      BY <2>1, SameRecovered DEF eepromVars, EepromMode, EepromMem, EepromNew
  <1>4. CASE PlaybackReadFails \/ ConsolidateFails \/ AppendFails
    BY <1>4, <1>a, NothingFails DEF PlaybackReadFails, ConsolidateFails, AppendFails
  <1>5. CASE EraseSector
    BY <1>5, Stutters DEF EraseSector
  <1>6. CASE EraseReturns
    BY <1>6, EraseReturnsIsCommit DEF Memory!Next
  <1>7. CASE ConsolidateWord
    BY <1>7, Stutters DEF ConsolidateWord
  <1>8. CASE ChecksumWord
    <2>1. pc = "checksum" /\ cache' = cache /\ call \in {"init", "write"}
      BY <1>8, <1>a DEF ChecksumWord, CallInv
    <2>2. CASE Return(CONSOLIDATED)
      BY <2>1, <2>2, Completes DEF Memory!Next
    <2>3. CASE UNCHANGED <<pc, call, before>>
      BY <2>1, <2>3, Stutters
    <2>4. QED
      BY <1>8, <2>2, <2>3 DEF ChecksumWord
  <1>9. CASE wear_leveling_write_raw
    BY <1>9, Stutters DEF wear_leveling_write_raw
  <1>10. CASE wear_leveling_append_raw
    <2>1. pc = "append" /\ cache' = cache /\ call = "write"
      BY <1>10, <1>a DEF wear_leveling_append_raw, CallInv
    <2>2. CASE Return(SUCCESS)
      BY <2>1, <2>2, Completes DEF Memory!Next
    <2>3. CASE pc' \in {"append", "erase"} /\ UNCHANGED <<call, before>>
      BY <2>1, <2>3, Stutters
    <2>4. QED
      BY <1>10, <2>1, <2>2, <2>3 DEF wear_leveling_append_raw, ConsolidateForce
  <1>11. ASSUME NEW r \in Requests, wear_leveling_write(r)
         PROVE  Memory!Next \/ UNCHANGED eepromVars
    BY <1>11, <1>a, WriteIsWrite DEF Memory!Next
  <1>12. CASE wear_leveling_erase
    BY <1>12, <1>a, EraseIsErase DEF Memory!Next
  <1>13. CASE PowerLoss
    BY <1>13, PowerLossIsPowerLoss DEF Memory!Next
  <1>14. CASE UNCHANGED vars
    <2>1. UNCHANGED <<pc, call, cache, before>> /\ UNCHANGED store
      BY <1>14 DEF vars, store
    <2>2. QED
      BY <2>1, SameRecovered DEF eepromVars, EepromMode, EepromMem, EepromNew
  <1>15. QED
    BY <1>1, <1>2, <1>3, <1>4, <1>5, <1>6, <1>7, <1>8, <1>9, <1>10, <1>11, <1>12, <1>13, <1>14
       DEF Next, Step

(* ImplementsEeprom: the wear-leveling layer is an EEPROM that changes by    *)
(* whole calls of wear_leveling_write and wear_leveling_erase; a power loss  *)
(* inside a call leaves each byte as it was, as the call wanted it, or zero, *)
(* and one between calls leaves every byte alone.                            *)
THEOREM WearLevelingIsAnEeprom ==
  ASSUME EepromStore
  PROVE  Spec => ImplementsEeprom
  <1>1. Init => Memory!Init
    BY InitIsInit
  <1>2. AllInv /\ RefInv /\ [Next]_vars => [Memory!Next]_eepromVars
    BY StepIsStep
  <1>3. Init => RefInv
    BY InitRef
  <1>4. AllInv /\ RefInv /\ [Next]_vars => RefInv'
    BY NextRef
  <1>5. Spec => []AllInv
    BY AllInvHolds DEF EepromStore
  <1>6. Spec => []RefInv
    BY <1>3, <1>4, <1>5, PTL DEF Spec
  <1>7. QED
    BY <1>1, <1>2, <1>5, <1>6, PTL DEF Spec, ImplementsEeprom, Memory!Spec, eepromVars
=============================================================================
