------------------------ MODULE SplitTransportProofs ------------------------
(***************************************************************************)
(* The split transport, for every set of matrices and values, every        *)
(* checksum function, every number of retries and every limit: types, that *)
(* the master takes over only what the slave published unless a checksum   *)
(* was garbled, and that the keys of a half that is not connected are up.  *)
(***************************************************************************)
EXTENDS SplitTransport, NumberLemmas, TLAPS

(* The connection errors that ScanDone counts stay below their limit. *)
LEMMA ErrorsType ==
  ASSUME TypeOK, NEW okay \in BOOLEAN
  PROVE  (IF okay THEN 0 ELSE Min({connection_errors + 1, SPLIT_MAX_CONNECTION_ERRORS}))
           \in 0..SPLIT_MAX_CONNECTION_ERRORS
  <1>1. connection_errors + 1 \in Int /\ SPLIT_MAX_CONNECTION_ERRORS \in Nat \ {0}
    BY SplitAssumption DEF TypeOK
  <1>2. Min({connection_errors + 1, SPLIT_MAX_CONNECTION_ERRORS})
          = IF connection_errors + 1 <= SPLIT_MAX_CONNECTION_ERRORS
            THEN connection_errors + 1 ELSE SPLIT_MAX_CONNECTION_ERRORS
    BY <1>1, MinOfTwo
  <1>3. QED
    BY <1>1, <1>2 DEF TypeOK

(* What a scan leaves behind that ends here. *)
ScanType ==
  /\ at' \in {"scan", "checksum", "data", "value"}
  /\ iter' \in 1..Retries
  /\ seen' \subseteq Checksums
  /\ check_age' \in 0..SPLIT_CONNECTION_CHECK_TIMEOUT
  /\ connection_errors' \in 0..SPLIT_MAX_CONNECTION_ERRORS
  /\ last_connected' \in BOOLEAN
  /\ matrix' \in Matrices

LEMMA ScanDoneType ==
  ASSUME TypeOK, NEW okay \in BOOLEAN, ScanDone(okay), last_matrix' \in Matrices
  PROVE  ScanType
  <1> DEFINE errors == IF okay THEN 0
                       ELSE Min({connection_errors + 1, SPLIT_MAX_CONNECTION_ERRORS})
             connected == errors < SPLIT_MAX_CONNECTION_ERRORS
  <1>1. errors \in 0..SPLIT_MAX_CONNECTION_ERRORS
    BY ErrorsType
  <1>2. /\ at' = "scan" /\ iter' = 1 /\ seen' = {}
        /\ connection_errors' = errors
        /\ check_age' = IF connected THEN check_age ELSE 0
        /\ matrix_post_scan(connected, last_matrix')
    BY DEF ScanDone
  <1>3. connected \in BOOLEAN
    OBVIOUS
  <1> HIDE DEF errors, connected
  <1>4. matrix' \in Matrices /\ last_connected' \in BOOLEAN
    BY <1>2, <1>3, SplitAssumption DEF matrix_post_scan, TypeOK
  <1>5. QED
    BY <1>1, <1>2, <1>4, SplitAssumption DEF ScanType, TypeOK

LEMMA TryAgainType ==
  ASSUME TypeOK, NEW t \in {"checksum", "value"}, TryAgain(t), last_matrix' \in Matrices
  PROVE  ScanType
  <1>1. CASE /\ iter < num_retries /\ at' = t /\ iter' = iter + 1
             /\ seen' = IF t = "checksum" THEN {slave.checksum} ELSE {}
             /\ UNCHANGED scanVars
    <2>1. iter' \in 1..Retries
      BY <1>1, SplitAssumption DEF TypeOK, num_retries
    <2>2. seen' \subseteq Checksums
      BY <1>1 DEF TypeOK
    <2>3. QED
      BY <1>1, <2>1, <2>2 DEF ScanType, TypeOK, scanVars
  <1>2. CASE ScanDone(FALSE)
    BY <1>2, ScanDoneType
  <1>3. QED
    BY <1>1, <1>2 DEF TryAgain

LEMMA NextHandlerType ==
  ASSUME TypeOK, NEW t \in {"value"}, NextHandler(t)
  PROVE  ScanType
  BY SplitAssumption DEF NextHandler, ScanType, TypeOK, scanVars

(* What is received is an item of the kind that was asked for. *)
LEMMA ReceivedType ==
  ASSUME NEW Items, NEW sent \in Items, NEW r \in Received(sent, Items),
         link \in {"up", "noisy", "down"}
  PROVE  r.item \in Items
  <1>1. CASE link = "up"
    BY <1>1 DEF Received
  <1>2. CASE link = "noisy"
    <2>1. r \in [okay : BOOLEAN, item : Items]
      BY <1>2 DEF Received
    <2>2. QED
      BY <2>1
  <1>3. CASE link = "down"
    <2>1. r \in [okay : {FALSE}, item : Items]
      BY <1>3 DEF Received
    <2>2. QED
      BY <2>1
  <1>4. QED
    BY <1>1, <1>2, <1>3

(* The two ways on from the checksum, and the failure. *)
ChecksumRead(r) ==
  \/ /\ r.okay
     /\ garbled' = (r.item # slave.checksum)
     /\ \/ /\ MatrixChanged(r.item)
           /\ curr_checksum' = r.item
           /\ at' = "data"
           /\ UNCHANGED <<iter, seen, last_matrix>> /\ UNCHANGED scanVars
        \/ /\ ~MatrixChanged(r.item)
           /\ last_matrix' = master.matrix
           /\ NextHandler("value")
           /\ UNCHANGED curr_checksum
  \/ /\ ~r.okay
     /\ UNCHANGED <<curr_checksum, last_matrix, garbled>>
     /\ TryAgain("checksum")

(* A step of the master keeps the types. *)
LEMMA MasterType ==
  ASSUME TypeOK, Master
  PROVE  TypeOK'
  <1>1. CASE StartScan
    <2>1. matrix' \in Matrices /\ last_connected' \in BOOLEAN
      BY <1>1, SplitAssumption DEF StartScan, matrix_post_scan, TypeOK
    <2>2. at' \in {"scan", "checksum", "data", "value"} /\ seen' \subseteq Checksums
      BY <1>1 DEF StartScan, TypeOK
    <2>3. QED
      BY <1>1, <2>1, <2>2 DEF StartScan, TypeOK
  <1>2. CASE ReadChecksum
    <2>1. PICK r \in Received(slave.checksum, Checksums) : ChecksumRead(r)
      BY <1>2 DEF ReadChecksum, ChecksumRead
    <2>2. r.item \in Checksums
      BY ReceivedType DEF TypeOK
    <2>3. /\ last_matrix' \in Matrices /\ curr_checksum' \in Checksums /\ garbled' \in BOOLEAN
      BY <2>1, <2>2 DEF ChecksumRead, TypeOK
    <2>4. ScanType
      BY <2>1, <2>3, NextHandlerType, TryAgainType DEF ChecksumRead, ScanType, TypeOK, scanVars
    <2>5. QED
      BY <1>2, <2>3, <2>4 DEF ReadChecksum, ScanType, TypeOK
  <1>3. CASE ReadData
    <2>1. PICK r \in Received(slave.matrix, Matrices) :
            /\ master' = [master EXCEPT !.matrix = r.item]
            /\ \/ /\ Accepted(r)
                  /\ matrix_age' = 0
                  /\ last_matrix' = r.item
                  /\ NextHandler("value")
                  /\ UNCHANGED garbled
               \/ /\ ~Accepted(r)
                  /\ garbled' = FALSE
                  /\ UNCHANGED <<matrix_age, last_matrix>>
                  /\ TryAgain("checksum")
      BY <1>3 DEF ReadData
    <2>2. r.item \in Matrices
      BY ReceivedType DEF TypeOK
    <2>3. /\ last_matrix' \in Matrices
          /\ matrix_age' \in 0..FORCED_SYNC_THROTTLE_MS
          /\ master' \in [matrix : Matrices, value : Values]
          /\ garbled' \in BOOLEAN /\ curr_checksum' \in Checksums
      <3>1. garbled' \in BOOLEAN
        BY <2>1 DEF TypeOK
      <3>2. curr_checksum' \in Checksums
        BY <1>3, SplitAssumption DEF ReadData
      <3>3. QED
        BY <2>1, <2>2, <3>1, <3>2, SplitAssumption DEF TypeOK
    <2>4. ScanType
      BY <2>1, <2>3, NextHandlerType, TryAgainType
    <2>5. QED
      BY <1>3, <2>3, <2>4 DEF ReadData, ScanType, TypeOK
  <1>4. CASE SendValue
    <2>1. last_matrix' \in Matrices
      BY <1>4 DEF SendValue, TypeOK
    <2>2. ScanType
      BY <1>4, <2>1, ScanDoneType, TryAgainType DEF SendValue
    <2>3. slave' = slave \/ \E v \in Values : slave' = [slave EXCEPT !.value = v]
      <3>1. Written(TRUE) \subseteq Values /\ Written(FALSE) \subseteq Values
        BY DEF Written, TypeOK
      <3>2. QED
        BY <1>4, <3>1 DEF SendValue
    <2>4. \A v \in Values : [slave EXCEPT !.value = v]
                              \in [matrix : Matrices, checksum : Checksums, value : Values]
      BY DEF TypeOK
    <2>5. slave' \in [matrix : Matrices, checksum : Checksums, value : Values]
      BY <2>3, <2>4 DEF TypeOK
    <2>6. [master EXCEPT !.value = value] \in [matrix : Matrices, value : Values]
      BY DEF TypeOK
    <2>7. master' \in {master, [master EXCEPT !.value = value]}
      BY <1>4 DEF SendValue
    <2>8. master' \in [matrix : Matrices, value : Values]
      BY <2>6, <2>7 DEF TypeOK
    <2>9. value_age' = 0 \/ value_age' = value_age
      BY <1>4 DEF SendValue
    <2>10. value_age' \in 0..FORCED_SYNC_THROTTLE_MS
      BY <2>9, SplitAssumption DEF TypeOK
    <2>11. UNCHANGED <<link, keys, value, curr_checksum, last_matrix, matrix_age>> /\ garbled' = FALSE
      BY <1>4 DEF SendValue
    <2>12. QED
      BY <2>2, <2>5, <2>8, <2>10, <2>11 DEF ScanType, TypeOK
  <1>5. QED
    BY <1>1, <1>2, <1>3, <1>4 DEF Master

LEMMA FreshType == Fresh \in [matrix : Matrices, checksum : Checksums, value : Values]
  BY SplitAssumption DEF Fresh

LEMMA OlderType ==
  ASSUME NEW limit \in Nat, NEW age \in 0..limit
  PROVE  Older(age, limit) \in 0..limit
  BY DEF Older

(* So do the slave, the link, the keys and the clock. *)
LEMMA EnvironmentType ==
  ASSUME TypeOK,
         \/ SlaveScan \/ LinkChange \/ SlaveRestart \/ Tick
         \/ \E m \in Matrices : KeyChange(m)
         \/ \E v \in Values : ValueChange(v)
  PROVE  TypeOK'
  <1>1. CASE SlaveScan
    <2>1. Crc[keys] \in Checksums
      BY SplitAssumption DEF TypeOK
    <2>2. QED
      BY <1>1, <2>1 DEF SlaveScan, TypeOK, scanVars
  <1>2. CASE LinkChange
    BY <1>2 DEF LinkChange, TypeOK, scanVars, history
  <1>3. CASE SlaveRestart
    BY <1>3, FreshType, SplitAssumption DEF SlaveRestart, TypeOK, scanVars
  <1>4. CASE Tick
    BY <1>4, OlderType, SplitAssumption DEF Tick, TypeOK, history
  <1>5. CASE \E m \in Matrices : KeyChange(m)
    BY <1>5 DEF KeyChange, TypeOK, scanVars, history
  <1>6. CASE \E v \in Values : ValueChange(v)
    BY <1>6 DEF ValueChange, TypeOK, scanVars, history
  <1>7. QED
    BY <1>1, <1>2, <1>3, <1>4, <1>5, <1>6

LEMMA TypeInitially == Init => TypeOK
  <1> SUFFICES ASSUME Init PROVE TypeOK
    OBVIOUS
  <1>1. NoCrc \in Checksums /\ NoKeys \in Matrices /\ NoValue \in Values
    BY SplitAssumption
  <1>2. slave \in [matrix : Matrices, checksum : Checksums, value : Values]
    BY FreshType DEF Init
  <1>3. master \in [matrix : Matrices, value : Values]
    BY <1>1 DEF Init
  <1>4. /\ 1 \in 1..Retries
        /\ 0 \in 0..FORCED_SYNC_THROTTLE_MS
        /\ 0 \in 0..SPLIT_CONNECTION_CHECK_TIMEOUT
        /\ 0 \in 0..SPLIT_MAX_CONNECTION_ERRORS
    BY SplitAssumption
  <1>5. QED
    BY <1>1, <1>2, <1>3, <1>4 DEF Init, TypeOK

LEMMA TypeInductive == TypeOK /\ [Next]_vars => TypeOK'
  <1>1. ASSUME TypeOK, UNCHANGED vars PROVE TypeOK'
    BY <1>1 DEF vars, history, TypeOK
  <1>2. QED
    BY <1>1, MasterType, EnvironmentType DEF Next

(* The split transport is type-correct: the retry counter, the connection    *)
(* errors and the ages never leave their bounds, and no checksum or matrix   *)
(* is made up, whatever the link delivers.                                   *)
THEOREM SplitTypeCorrectness == Spec => []TypeOK
  BY TypeInitially, TypeInductive, PTL DEF Spec

-----------------------------------------------------------------------------
(* MatrixSeen needs to know what the checksums at hand have to do with the   *)
(* history: during the transactions that read the matrix the checksum in the *)
(* slave's memory is in it, and so is the one that the master read, if it    *)
(* came as it was sent.                                                      *)
SeenInv ==
  /\ at \in {"checksum", "data"} => slave.checksum \in seen
  /\ at = "data" /\ ~garbled => curr_checksum \in seen

(* A try that begins anew forgets what was seen before. *)
LEMMA TryAgainSeen ==
  ASSUME TryAgain("checksum"), slave' = slave
  PROVE  (at' \in {"checksum", "data"} => slave'.checksum \in seen') /\ at' # "data"
  BY DEF TryAgain, ScanDone

LEMMA SeenInitially == Init => SeenInv
  BY DEF Init, SeenInv

LEMMA SeenInductive == TypeOK /\ SeenInv /\ [Next]_vars => SeenInv'
  <1> SUFFICES ASSUME TypeOK, SeenInv, [Next]_vars PROVE SeenInv'
    OBVIOUS
  <1>1. CASE StartScan
    BY <1>1 DEF StartScan, SeenInv
  <1>2. CASE ReadChecksum
    <2>1. slave' = slave
      BY <1>2 DEF ReadChecksum
    <2>2. PICK r \in Received(slave.checksum, Checksums) : ChecksumRead(r)
      BY <1>2 DEF ReadChecksum, ChecksumRead
    <2>3. CASE ~r.okay
      BY <2>1, <2>2, <2>3, TryAgainSeen DEF ChecksumRead, SeenInv
    <2>4. CASE r.okay /\ at' = "data"
      <3>1. /\ curr_checksum' = r.item /\ seen' = seen /\ slave.checksum \in seen
            /\ garbled' = (r.item # slave.checksum)
        BY <1>2, <2>2, <2>4 DEF ReadChecksum, ChecksumRead, NextHandler, SeenInv
      <3>2. QED
        BY <2>1, <3>1 DEF SeenInv
    <2>5. CASE r.okay /\ at' # "data"
      BY <2>2, <2>5 DEF ChecksumRead, NextHandler, SeenInv
    <2>6. QED
      BY <2>3, <2>4, <2>5
  <1>3. CASE ReadData
    <2>1. slave' = slave
      BY <1>3 DEF ReadData
    <2>2. NextHandler("value") \/ TryAgain("checksum")
      BY <1>3 DEF ReadData
    <2>3. QED
      BY <2>1, <2>2, TryAgainSeen DEF NextHandler, SeenInv
  <1>4. CASE SendValue
    <2>1. ScanDone(TRUE) \/ TryAgain("value")
      BY <1>4 DEF SendValue
    <2>2. at' \in {"scan", "value"}
      BY <2>1 DEF ScanDone, TryAgain
    <2>3. QED
      BY <2>2 DEF SeenInv
  <1>5. CASE SlaveScan
    <2>1. slave'.checksum = Crc[keys]
      BY <1>5 DEF SlaveScan, TypeOK
    <2>2. QED
      BY <1>5, <2>1 DEF SlaveScan, SeenInv
  <1>6. CASE SlaveRestart
    BY <1>6 DEF SlaveRestart, Fresh, SeenInv
  <1>7. CASE LinkChange \/ Tick \/ UNCHANGED vars
    BY <1>7 DEF LinkChange, Tick, vars, history, SeenInv
  <1>8. CASE \E m \in Matrices : KeyChange(m)
    BY <1>8 DEF KeyChange, history, SeenInv
  <1>9. CASE \E v \in Values : ValueChange(v)
    BY <1>9 DEF ValueChange, history, SeenInv
  <1>10. QED
    BY <1>1, <1>2, <1>3, <1>4, <1>5, <1>6, <1>7, <1>8, <1>9 DEF Next, Master

(* The two ways on to the next handler: the checksum that was read is that   *)
(* of the matrix the master has already, or that of the data it got.         *)
LEMMA SeenStep ==
  ASSUME TypeOK, SeenInv, [Next]_vars, at' = "value", at \in {"checksum", "data"}, ~garbled'
  PROVE  Crc[last_matrix'] \in seen
  <1>1. CASE ReadChecksum
    <2>1. ~TryAgain("checksum")
      BY DEF TryAgain, ScanDone
    <2>2. PICK r \in Received(slave.checksum, Checksums) : ChecksumRead(r)
      BY <1>1 DEF ReadChecksum, ChecksumRead
    <2>3. /\ ~MatrixChanged(slave.checksum) /\ last_matrix' = master.matrix
      BY <2>1, <2>2 DEF ChecksumRead
    <2>4. slave.checksum = Crc[master.matrix]
      BY <2>3 DEF MatrixChanged
    <2>5. QED
      BY <2>3, <2>4 DEF SeenInv
  <1>2. CASE ReadData
    <2>1. ~TryAgain("checksum")
      BY DEF TryAgain, ScanDone
    <2>2. \E r \in Received(slave.matrix, Matrices) :
             Accepted(r) /\ last_matrix' = r.item /\ UNCHANGED garbled
      BY <1>2, <2>1 DEF ReadData
    <2>3. curr_checksum = Crc[last_matrix']
      BY <2>2 DEF Accepted
    <2>4. at = "data"
      BY <1>2 DEF ReadData
    <2>5. QED
      BY <2>2, <2>3, <2>4 DEF SeenInv
  <1>3. ASSUME StartScan \/ SendValue PROVE FALSE
    BY <1>3 DEF StartScan, SendValue
  <1>4. ASSUME \/ SlaveScan \/ LinkChange \/ SlaveRestart \/ Tick \/ UNCHANGED vars
               \/ \E m \in Matrices : KeyChange(m)
               \/ \E v \in Values : ValueChange(v)
        PROVE  FALSE
    BY <1>4 DEF SlaveScan, LinkChange, SlaveRestart, Tick, KeyChange, ValueChange, vars, history
  <1>5. QED
    BY <1>1, <1>2, <1>3, <1>4 DEF Next, Master

(* MatrixSeen, for every matrix, checksum function and number of tries: what *)
(* matrix_post_scan takes over is, as far as the CRC can tell, a matrix that *)
(* the slave published since this try began, whatever a noisy link does to   *)
(* the data.  What it does to the checksum itself is the exception that the  *)
(* code makes: nothing checks that byte.                                     *)
THEOREM MatrixIsSeen == Spec => MatrixSeen
  <1>1. Spec => []SeenInv
    BY SeenInitially, SeenInductive, SplitTypeCorrectness, PTL DEF Spec
  <1>2. TypeOK /\ SeenInv /\ [Next]_vars
          => [at' = "value" /\ at \in {"checksum", "data"} /\ ~garbled'
                => Crc[last_matrix'] \in seen]_vars
    BY SeenStep
  <1>3. QED
    BY <1>1, <1>2, SplitTypeCorrectness, PTL DEF Spec, MatrixSeen

-----------------------------------------------------------------------------
(* What the split code keeps twice, the error counter of the transport and   *)
(* the last_connected of matrix_post_scan, agrees as far as it matters: the  *)
(* slave's half of the matrix is empty whenever the one or the other says    *)
(* that there is no connection.                                              *)
ReleasedWhenDisconnected ==
  /\ ~last_connected => matrix = NoKeys
  /\ ~is_transport_connected => ~last_connected

(* A scan that ends disconnected empties the matrix, or leaves it empty. *)
LEMMA PostScanReleased ==
  ASSUME NEW connected, NEW m, ReleasedWhenDisconnected,
         matrix_post_scan(connected, m)
  PROVE  (~last_connected' => matrix' = NoKeys) /\ last_connected' = connected
  BY DEF matrix_post_scan, ReleasedWhenDisconnected

LEMMA ScanDoneReleased ==
  ASSUME NEW okay \in BOOLEAN, ReleasedWhenDisconnected, ScanDone(okay)
  PROVE  ReleasedWhenDisconnected'
  <1> DEFINE errors == IF okay THEN 0
                       ELSE Min({connection_errors + 1, SPLIT_MAX_CONNECTION_ERRORS})
             connected == errors < SPLIT_MAX_CONNECTION_ERRORS
  <1>1. connection_errors' = errors /\ matrix_post_scan(connected, last_matrix')
    BY DEF ScanDone
  <1>2. (~last_connected' => matrix' = NoKeys) /\ last_connected' = connected
    BY <1>1, PostScanReleased
  <1>3. (is_transport_connected)' = connected
    BY <1>1 DEF is_transport_connected
  <1>4. QED
    BY <1>2, <1>3 DEF ReleasedWhenDisconnected

LEMMA TryAgainReleased ==
  ASSUME NEW t, ReleasedWhenDisconnected, TryAgain(t)
  PROVE  ReleasedWhenDisconnected'
  <1>1. UNCHANGED scanVars \/ ScanDone(FALSE)
    BY DEF TryAgain
  <1>2. CASE UNCHANGED scanVars
    BY <1>2 DEF scanVars, ReleasedWhenDisconnected, is_transport_connected
  <1>3. QED
    BY <1>1, <1>2, ScanDoneReleased

LEMMA ReleasedInductive ==
  ReleasedWhenDisconnected /\ [Next]_vars => ReleasedWhenDisconnected'
  <1> SUFFICES ASSUME ReleasedWhenDisconnected, [Next]_vars PROVE ReleasedWhenDisconnected'
    OBVIOUS
  <1>1. CASE StartScan
    <2>1. connection_errors' = connection_errors
      BY <1>1 DEF StartScan
    <2>2. CASE matrix_post_scan(FALSE, NoKeys)
      BY <2>2, PostScanReleased DEF ReleasedWhenDisconnected
    <2>3. CASE UNCHANGED <<matrix, last_connected>>
      BY <2>1, <2>3 DEF ReleasedWhenDisconnected, is_transport_connected
    <2>4. QED
      BY <1>1, <2>2, <2>3 DEF StartScan
  <1>2. CASE ReadChecksum
    <2>1. UNCHANGED scanVars \/ TryAgain("checksum")
      BY <1>2 DEF ReadChecksum, NextHandler
    <2>2. QED
      BY <2>1, TryAgainReleased DEF scanVars, ReleasedWhenDisconnected, is_transport_connected
  <1>3. CASE ReadData
    <2>1. UNCHANGED scanVars \/ TryAgain("checksum")
      BY <1>3 DEF ReadData, NextHandler
    <2>2. QED
      BY <2>1, TryAgainReleased DEF scanVars, ReleasedWhenDisconnected, is_transport_connected
  <1>4. CASE SendValue
    <2>1. ScanDone(TRUE) \/ TryAgain("value")
      BY <1>4 DEF SendValue
    <2>2. QED
      BY <2>1, ScanDoneReleased, TryAgainReleased
  <1>5. CASE \/ SlaveScan \/ LinkChange \/ SlaveRestart \/ Tick \/ UNCHANGED vars
             \/ \E m \in Matrices : KeyChange(m)
             \/ \E v \in Values : ValueChange(v)
    BY <1>5 DEF SlaveScan, LinkChange, SlaveRestart, Tick, KeyChange, ValueChange, vars,
                scanVars, ReleasedWhenDisconnected, is_transport_connected
  <1>6. QED
    BY <1>1, <1>2, <1>3, <1>4, <1>5 DEF Next, Master

(* The safety half of ReleasedWhenGone: whatever the link and the retries    *)
(* did, no key of the slave is down in the master's matrix while             *)
(* is_transport_connected is false or matrix_post_scan has noticed it.       *)
THEOREM NoKeyOfADisconnectedSlave == Spec => []ReleasedWhenDisconnected
  <1>1. Init => ReleasedWhenDisconnected
    BY SplitAssumption DEF Init, ReleasedWhenDisconnected, is_transport_connected
  <1>2. QED
    BY <1>1, ReleasedInductive, PTL DEF Spec
=============================================================================
