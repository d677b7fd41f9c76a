---------------------------- MODULE SectorStore ----------------------------
(***************************************************************************)
(* What synchdisk.h promises: a disk on which ReadSector and WriteSector   *)
(* take effect one at a time, each at one moment between its call and its  *)
(* return, with ReadSector returning what was written last.                *)
(***************************************************************************)
CONSTANTS Thread, Sector, Data, NULL

VARIABLES sectors,  \* the contents of the disk
          op,       \* the operation of each thread, NULL if none
          done,     \* the threads whose operation has taken effect
          data      \* what each thread's buffer holds

vars == <<sectors, op, done, data>>

Operation == [name : {"ReadSector", "WriteSector"}, sector : Sector]

Init ==
  /\ sectors \in [Sector -> Data]
  /\ op = [t \in Thread |-> NULL]
  /\ done = {}
  /\ data \in [Thread -> Data]

Call(t) ==
  /\ op[t] = NULL
  /\ \E o \in Operation, d \in Data :
       /\ op' = [op EXCEPT ![t] = o]
       /\ data' = [data EXCEPT ![t] = d]
  /\ UNCHANGED <<sectors, done>>

Effect(t) ==
  /\ op[t] # NULL /\ t \notin done
  /\ done' = done \cup {t}
  /\ \/ /\ op[t].name = "ReadSector"
        /\ data' = [data EXCEPT ![t] = sectors[op[t].sector]]
        /\ UNCHANGED sectors
     \/ /\ op[t].name = "WriteSector"
        /\ sectors' = [sectors EXCEPT ![op[t].sector] = data[t]]
        /\ UNCHANGED data
  /\ UNCHANGED op

Return(t) ==
  /\ op[t] # NULL /\ t \in done
  /\ op' = [op EXCEPT ![t] = NULL]
  /\ done' = done \ {t}
  /\ UNCHANGED <<sectors, data>>

Next == \E t \in Thread : Call(t) \/ Effect(t) \/ Return(t)

Spec == Init /\ [][Next]_vars
=============================================================================
