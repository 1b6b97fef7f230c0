------------------------------- MODULE Eeprom -------------------------------
(***************************************************************************)
(* What the firmware expects of its emulated EEPROM (the API of            *)
(* quantum/wear_leveling/wear_leveling.h): contents that survive a power   *)
(* cycle, changed by whole calls.  A power loss inside a call may leave    *)
(* any byte as it was, as the call wanted it, or zero, and nothing else.   *)
(***************************************************************************)
EXTENDS Integers

CONSTANTS LogicalBytes, Writes

VARIABLES
  mode,     \* "off" until a power-up has finished, then "on", "busy" in a call
  mem,      \* the contents when the call in progress, if any, began
  new       \* the contents when it is over

Zeros == [b \in LogicalBytes |-> 0]

Init ==
  /\ mode = "off"
  /\ mem = Zeros
  /\ new = Zeros

PowerUp ==
  /\ mode = "off"
  /\ mode' = "on"
  /\ UNCHANGED <<mem, new>>

Write(r) ==
  /\ mode = "on"
  /\ mode' = "busy"
  /\ new' = [b \in LogicalBytes |->
               IF r.address <= b /\ b < r.address + r.length THEN r.value[b - r.address]
               ELSE mem[b]]
  /\ UNCHANGED mem

Erase ==
  /\ mode = "on"
  /\ mode' = "busy"
  /\ new' = Zeros
  /\ UNCHANGED mem

Commit ==
  /\ mode = "busy"
  /\ mode' = "on"
  /\ mem' = new
  /\ UNCHANGED new

PowerLoss ==
  /\ mode' = "off"
  /\ new' = mem'
  /\ \A b \in LogicalBytes :
       mem'[b] \in IF mode = "on" THEN {mem[b]} ELSE {mem[b], new[b], 0}

Next ==
  \/ PowerUp
  \/ \E r \in Writes : Write(r)
  \/ Erase
  \/ Commit
  \/ PowerLoss

Spec == Init /\ [][Next]_<<mode, mem, new>>
=============================================================================
