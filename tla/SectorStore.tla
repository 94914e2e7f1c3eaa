---------------------------- MODULE SectorStore ----------------------------
(***************************************************************************)
(* What the buffer cache promises the file system: each disk sector is a   *)
(* register with a lock.  A process locks a sector, may write it any       *)
(* number of times, and unlocks it.  Module Bcache implements this.        *)
(***************************************************************************)
CONSTANTS
  Sectors, Procs, Nobody,
  Data                \* Data[s]: what sector s may hold

VARIABLES
  value,              \* value[s]: the contents of sector s
  holder              \* holder[s]: the process that has it locked, or Nobody

vars == <<value, holder>>

Init ==
  /\ value \in [Sectors -> UNION {Data[s] : s \in Sectors}]
  /\ \A s \in Sectors : value[s] \in Data[s]
  /\ holder = [s \in Sectors |-> Nobody]

Lock(p, s) ==
  /\ holder[s] = Nobody
  /\ holder' = [holder EXCEPT ![s] = p]
  /\ UNCHANGED value

Write(s, v) ==
  /\ holder[s] # Nobody
  /\ value' = [value EXCEPT ![s] = v]
  /\ UNCHANGED holder

Unlock(s) ==
  /\ holder[s] # Nobody
  /\ holder' = [holder EXCEPT ![s] = Nobody]
  /\ UNCHANGED value

Next ==
  \E s \in Sectors :
    \/ \E p \in Procs : Lock(p, s)
    \/ \E v \in Data[s] : Write(s, v)
    \/ Unlock(s)

Spec == Init /\ [][Next]_vars
=============================================================================
