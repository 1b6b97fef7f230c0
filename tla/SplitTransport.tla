--------------------------- MODULE SplitTransport ---------------------------
(***************************************************************************)
(* The link between the halves of a split keyboard (quantum/split_common,  *)
(* matrix_post_scan of quantum/matrix_common.c).  In every scan the master *)
(* reads the slave's matrix, guarded by a CRC-8, writes the state that the *)
(* slave needs, and supervises the connection.                             *)
(*                                                                         *)
(* Each half has its own copy of the shared memory; a transaction copies   *)
(* one part of it from the one to the other.  Transactions are atomic      *)
(* (split_shared_memory_lock), but the slave scans between any two of      *)
(* them.  All the data that is sent to the slave with send_if_condition    *)
(* is one value here.                                                      *)
(*                                                                         *)
(* No transport checks the data that it carries: the serial drivers notice *)
(* framing errors and timeouts and compare the number of the transaction,  *)
(* which the slave sends back before the data; I2C notices no more than a  *)
(* missing acknowledgement.  A noisy link may therefore deliver any byte   *)
(* in place of the one sent, the checksum's included, and report success.  *)
(***************************************************************************)
EXTENDS Integers, FiniteSetsExt

(* An operator whose name ends in _ and a lower-case word is a deliberately *)
(* wrong variant of the definition that follows it, used as a mutant.       *)

CONSTANTS
  Matrices,       \* the states of the slave's half of the matrix
  NoKeys,         \* the one with all keys up
  Checksums,      \* the values of a byte
  Crc,            \* crc8 of each matrix; different ones may have the same
  NoCrc,          \* the checksum in the memory of a slave that has just started
  Values,         \* what the master may send to the slave
  NoValue,        \* the one that both start with
  Retries,        \* of transaction_handler_master while connected
  SPLIT_MAX_CONNECTION_ERRORS,
  FORCED_SYNC_THROTTLE_MS,
  SPLIT_CONNECTION_CHECK_TIMEOUT

ASSUME SplitAssumption ==
  /\ NoKeys \in Matrices /\ NoValue \in Values
  /\ Crc \in [Matrices -> Checksums] /\ NoCrc \in Checksums
  /\ Retries \in Nat \ {0}
  /\ SPLIT_MAX_CONNECTION_ERRORS \in Nat \ {0}
  /\ FORCED_SYNC_THROTTLE_MS \in Nat \ {0}
  /\ SPLIT_CONNECTION_CHECK_TIMEOUT \in Nat \ {0}

VARIABLES
  link,              \* "up", "noisy" or "down"
  keys,              \* the slave's matrix, after debouncing
  slave,             \* the slave's shared memory: matrix, checksum, value
  master,            \* the master's: matrix, value
  value,             \* what the slave should know
  at,                \* the transaction that the master does next, "scan" between scans
  iter,              \* which try of its handler this is
  curr_checksum,     \* in read_if_checksum_mismatch, NoCrc outside
  last_matrix,
  matrix_age,        \* time since the last_update of the matrix, up to the limit
  value_age,         \* and since that of the value
  check_age,         \* time since connection_check_timer was set, up to the limit
  connection_errors, \* up to the limit
  last_connected,
  matrix,            \* the slave's half of the master's matrix
  seen,              \* history: the checksums in the slave's memory since this try began
  garbled            \* history: the checksum that this try read was not the slave's

history == <<seen, garbled>>
vars == <<link, keys, slave, master, value, at, iter, curr_checksum, last_matrix, matrix_age,
          value_age, check_age, connection_errors, last_connected, matrix, history>>
scanVars == <<check_age, connection_errors, last_connected, matrix>>

is_transport_connected == connection_errors < SPLIT_MAX_CONNECTION_ERRORS
num_retries == IF is_transport_connected THEN Retries ELSE 1

-----------------------------------------------------------------------------
(* matrix_post_scan, after transport_master_if_connected returned. *)
matrix_post_scan_keysKept(connected, slave_matrix) ==
  /\ matrix' = IF connected THEN slave_matrix ELSE matrix
  /\ last_connected' = connected
matrix_post_scan(connected, slave_matrix) ==
  /\ matrix' = IF connected THEN slave_matrix ELSE IF last_connected THEN NoKeys ELSE matrix
  /\ last_connected' = connected

(* The end of transport_master_if_connected and of the scan. *)
ScanDone_uncapped(okay) ==
  LET errors == IF okay THEN 0 ELSE connection_errors + 1
      connected == errors < SPLIT_MAX_CONNECTION_ERRORS
  IN /\ at' = "scan" /\ iter' = 1 /\ seen' = {}
     /\ connection_errors' = errors
     /\ check_age' = IF connected THEN check_age ELSE 0
     /\ matrix_post_scan(connected, last_matrix')
ScanDone(okay) ==
  LET errors == IF okay THEN 0 ELSE Min({connection_errors + 1, SPLIT_MAX_CONNECTION_ERRORS})
      connected == errors < SPLIT_MAX_CONNECTION_ERRORS
  IN /\ at' = "scan" /\ iter' = 1 /\ seen' = {}
     /\ connection_errors' = errors
     /\ check_age' = IF connected THEN check_age ELSE 0
     /\ matrix_post_scan(connected, last_matrix')

(* transaction_handler_master: the handler that starts with transaction t    *)
(* failed.                                                                   *)
TryAgain(t) ==
  \/ /\ iter < num_retries
     /\ at' = t /\ iter' = iter + 1
     /\ seen' = IF t = "checksum" THEN {slave.checksum} ELSE {}
     /\ UNCHANGED scanVars
  \/ iter >= num_retries /\ ScanDone(FALSE)

NextHandler(t) ==
  /\ at' = t /\ iter' = 1 /\ seen' = {}
  /\ UNCHANGED scanVars

(* transport_master_if_connected: no attempt for a while when disconnected. *)
StartScan ==
  /\ at = "scan"
  /\ \/ /\ ~is_transport_connected /\ check_age < SPLIT_CONNECTION_CHECK_TIMEOUT
        /\ matrix_post_scan(FALSE, NoKeys)
        /\ UNCHANGED <<at, seen>>
     \/ /\ is_transport_connected \/ check_age >= SPLIT_CONNECTION_CHECK_TIMEOUT
        /\ at' = "checksum" /\ seen' = {slave.checksum}
        /\ UNCHANGED <<matrix, last_connected>>
  /\ UNCHANGED <<link, keys, slave, master, value, iter, curr_checksum, last_matrix,
                 matrix_age, value_age, check_age, connection_errors, garbled>>

(* slave_matrix_handlers_master with read_if_checksum_mismatch: the matrix   *)
(* is read if its checksum is not that of the last one, or from time to time. *)
MatrixChanged_byChecksum(sum) == sum # Crc[master.matrix]
MatrixChanged(sum) ==
  matrix_age >= FORCED_SYNC_THROTTLE_MS \/ sum # Crc[master.matrix]

(* transport_read of an item: what it returns and what is in the master's    *)
(* memory then.  A noisy link delivers anything, and may or may not notice   *)
(* that it did; when it is down a read breaks off.                           *)
Received(sent, Items) ==
  CASE link = "up"    -> {[okay |-> TRUE, item |-> sent]}
    [] link = "noisy" -> [okay : BOOLEAN, item : Items]
    [] link = "down"  -> [okay : {FALSE}, item : Items]

ReadChecksum ==
  /\ at = "checksum"
  /\ \E r \in Received(slave.checksum, Checksums) :
       \/ /\ r.okay
          /\ garbled' = (r.item # slave.checksum)
          /\ \/ /\ MatrixChanged(r.item)
                /\ curr_checksum' = r.item
                /\ at' = "data"
                /\ UNCHANGED <<iter, seen, last_matrix>> /\ UNCHANGED scanVars
             \/ /\ ~MatrixChanged(r.item)
                /\ last_matrix' = master.matrix
                /\ NextHandler("value")
                /\ UNCHANGED curr_checksum
       \/ /\ ~r.okay
          /\ UNCHANGED <<curr_checksum, last_matrix, garbled>>
          /\ TryAgain("checksum")
  /\ UNCHANGED <<link, keys, slave, master, value, matrix_age, value_age>>

Accepted_unchecked(r) == r.okay
Accepted(r) == r.okay /\ curr_checksum = Crc[r.item]

ReadData ==
  /\ at = "data"
  /\ \E r \in Received(slave.matrix, Matrices) :
       /\ master' = [master EXCEPT !.matrix = r.item]
       /\ \/ /\ Accepted(r)
             /\ matrix_age' = 0
             /\ last_matrix' = r.item
             /\ NextHandler("value")
             /\ UNCHANGED garbled
          \/ /\ ~Accepted(r)
             /\ garbled' = FALSE
             /\ UNCHANGED <<matrix_age, last_matrix>>
             /\ TryAgain("checksum")
  /\ curr_checksum' = NoCrc
  /\ UNCHANGED <<link, keys, slave, value, value_age>>

(* send_if_condition: the value is put into the master's copy of the shared  *)
(* memory first, so that a second try after a failure finds no difference.   *)
SendNeeded_changedOnly == value # master.value
SendNeeded == value_age >= FORCED_SYNC_THROTTLE_MS \/ value # master.value

(* transport_write, by its result: what is in the slave's memory then. *)
Written(okay) ==
  IF link = "up" THEN {v \in {value} : okay}
  ELSE {v \in Values : link = "down" => ~okay}

SendValue ==
  /\ at = "value"
  /\ UNCHANGED <<link, keys, value, curr_checksum, last_matrix, matrix_age>>
  /\ garbled' = FALSE
  /\ \/ ~SendNeeded /\ ScanDone(TRUE) /\ UNCHANGED <<slave, master, value_age>>
     \/ /\ SendNeeded
        /\ master' = [master EXCEPT !.value = value]
        /\ \/ /\ \E v \in Written(TRUE) : slave' = [slave EXCEPT !.value = v]
              /\ value_age' = 0
              /\ ScanDone(TRUE)
           \/ /\ \E v \in Written(FALSE) : slave' = [slave EXCEPT !.value = v]
              /\ UNCHANGED value_age
              /\ TryAgain("value")

Master == StartScan \/ ReadChecksum \/ ReadData \/ SendValue

-----------------------------------------------------------------------------
(* transactions_slave: the slave publishes its matrix. *)
SlaveScan ==
  /\ slave' = [slave EXCEPT !.matrix = keys, !.checksum = Crc[keys]]
  /\ seen' = IF at \in {"checksum", "data"} THEN seen \cup {Crc[keys]} ELSE seen
  /\ UNCHANGED <<link, keys, master, value, at, iter, curr_checksum, last_matrix, matrix_age,
                 value_age, scanVars, garbled>>

KeyChange(m) ==
  /\ m # keys
  /\ keys' = m
  /\ UNCHANGED <<link, slave, master, value, at, iter, curr_checksum, last_matrix, matrix_age,
                 value_age, scanVars, history>>

(* The master's own state changes between its scans. *)
ValueChange(v) ==
  /\ at = "scan" /\ v # value
  /\ value' = v
  /\ UNCHANGED <<link, keys, slave, master, at, iter, curr_checksum, last_matrix, matrix_age,
                 value_age, scanVars, history>>

Fresh == [matrix |-> NoKeys, checksum |-> NoCrc, value |-> NoValue]

LinkChange ==
  /\ link' \in {"up", "noisy", "down"} \ {link}
  /\ UNCHANGED <<keys, slave, master, value, at, iter, curr_checksum, last_matrix, matrix_age,
                 value_age, scanVars, history>>

(* The slave, which has its power from the master, starts anew. *)
SlaveRestart ==
  /\ link # "up"
  /\ slave' = Fresh
  /\ keys' = NoKeys
  /\ seen' = IF at \in {"checksum", "data"} THEN seen \cup {NoCrc} ELSE seen
  /\ UNCHANGED <<link, master, value, at, iter, curr_checksum, last_matrix, matrix_age,
                 value_age, scanVars, garbled>>

Older(age, limit) == IF age < limit THEN age + 1 ELSE age

Tick ==
  /\ matrix_age' = Older(matrix_age, FORCED_SYNC_THROTTLE_MS)
  /\ value_age' = Older(value_age, FORCED_SYNC_THROTTLE_MS)
  /\ check_age' = Older(check_age, SPLIT_CONNECTION_CHECK_TIMEOUT)
  /\ UNCHANGED <<link, keys, slave, master, value, at, iter, curr_checksum, last_matrix,
                 connection_errors, last_connected, matrix, history>>

Init ==
  /\ link \in {"up", "noisy", "down"}
  /\ keys = NoKeys
  /\ slave = Fresh
  /\ master = [matrix |-> NoKeys, value |-> NoValue]
  /\ value = NoValue
  /\ at = "scan" /\ iter = 1
  /\ seen = {} /\ garbled = FALSE
  /\ curr_checksum = NoCrc
  /\ last_matrix = NoKeys
  /\ matrix_age = 0 /\ value_age = 0 /\ check_age = 0
  /\ connection_errors = 0
  /\ last_connected = FALSE
  /\ matrix = NoKeys

Next ==
  \/ Master
  \/ SlaveScan
  \/ \E m \in Matrices : KeyChange(m)
  \/ \E v \in Values : ValueChange(v)
  \/ LinkChange
  \/ SlaveRestart
  \/ Tick

Spec == Init /\ [][Next]_vars

(* Both halves go on scanning and time goes on. *)
FairSpec == Spec /\ WF_vars(Master) /\ WF_vars(SlaveScan) /\ WF_vars(Tick)

-----------------------------------------------------------------------------
(* Type invariant. *)
TypeOK ==
  /\ link \in {"up", "noisy", "down"} /\ keys \in Matrices /\ value \in Values
  /\ slave \in [matrix : Matrices, checksum : Checksums, value : Values]
  /\ master \in [matrix : Matrices, value : Values]
  /\ at \in {"scan", "checksum", "data", "value"} /\ iter \in 1..Retries
  /\ curr_checksum \in Checksums
  /\ seen \subseteq Checksums /\ garbled \in BOOLEAN
  /\ last_matrix \in Matrices /\ matrix \in Matrices
  /\ matrix_age \in 0..FORCED_SYNC_THROTTLE_MS /\ value_age \in 0..FORCED_SYNC_THROTTLE_MS
  /\ check_age \in 0..SPLIT_CONNECTION_CHECK_TIMEOUT
  /\ connection_errors \in 0..SPLIT_MAX_CONNECTION_ERRORS
  /\ last_connected \in BOOLEAN

(* The matrix that the master takes over was, as far as its checksum tells,  *)
(* in the slave's memory while the master was reading it, unless the byte    *)
(* with the checksum itself was garbled in this try: neither a change        *)
(* between the two transactions, nor garbled or broken-off data, of this try *)
(* or left in the master's memory by an earlier one, gets through.           *)
MatrixSeen ==
  [][at' = "value" /\ at \in {"checksum", "data"} /\ ~garbled'
       => Crc[last_matrix'] \in seen]_vars

(* The comment "Checksum matches the received data, save as the last matrix  *)
(* state" of slave_matrix_handlers_master, taken for a promise that what is  *)
(* read and accepted was the slave's.  It is one only as long as the         *)
(* checksum, which travels over the same unchecked link, is right.           *)
ChecksumDecides ==
  [][at = "data" /\ at' = "value" => Crc[last_matrix'] \in seen]_vars

(* When the link stays up and the slave's keys stay as they are, the master  *)
(* gets to know them, even if the change does not show in the checksum.      *)
MatrixConverges ==
  <>[](link = "up") /\ <>[][UNCHANGED keys]_vars => <>[](matrix = keys)

(* When the link and the slave's keys are quiet the slave gets to know what  *)
(* the master sends, even if the transaction failed, or the slave was        *)
(* started anew, before.  (While the keys change between any two             *)
(* transactions the scan does not get that far.)                             *)
ValueConverges ==
  <>[](link = "up") /\ <>[][UNCHANGED <<keys, value>>]_vars => <>[](slave.value = value)

(* No key of the slave stays down when the link is gone for good. *)
ReleasedWhenGone == <>[](link = "down") => <>[](matrix = NoKeys)
=============================================================================
