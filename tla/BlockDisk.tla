----------------------------- MODULE BlockDisk ------------------------------
(***************************************************************************)
(* What the emulated hard disk promises the Mac: a write command changes   *)
(* its sectors in ascending order and no others, reads return the sectors  *)
(* as they are, and a loss of power damages sectors of the erase block     *)
(* being written only, none while no command is in progress.               *)
(***************************************************************************)
EXTENDS Integers

CONSTANTS
  Sectors, Contents,
  Lost,       (* what a damaged sector holds                               *)
  Blocks,     (* the erase blocks, sets of sectors                         *)
  Commands    (* the write commands: functions from addresses to Contents  *)

VARIABLES
  disk,
  todo,       (* what is left of the command in progress, empty if there is none *)
  out         (* the last sector read, and what was read                   *)

vars == <<disk, todo, out>>

None == <<>>
Idle == DOMAIN todo = {}

Init == disk \in [Sectors -> Contents] /\ Idle /\ out = None

Begin == Idle /\ todo' \in Commands /\ UNCHANGED <<disk, out>>

\* A command that has reached an address behind the last sector stays there.
IsNext(s) == s \in Sectors /\ s \in DOMAIN todo /\ \A t \in DOMAIN todo : s <= t

Write(s) ==
  /\ IsNext(s)
  /\ disk' = [disk EXCEPT ![s] = todo[s]]
  /\ todo' = [t \in DOMAIN todo \ {s} |-> todo[t]]
  /\ UNCHANGED out

Read(s) == Idle /\ out' = <<s, disk[s]>> /\ UNCHANGED <<disk, todo>>

\* Any sectors of the block in progress may be lost; the sector to be written
\* may already have got its new contents.
Damage(s, block, lost) ==
  /\ IsNext(s) /\ s \in block
  /\ \E now \in {disk[s], todo[s]} :
       disk' = [t \in Sectors |-> IF t \in lost THEN Lost ELSE IF t = s THEN now ELSE disk[t]]

PowerLoss ==
  /\ disk' = disk \/ \E s \in Sectors, block \in Blocks : \E lost \in SUBSET block :
                        Damage(s, block, lost)
  /\ DOMAIN todo' = {} /\ out' = None

Next == Begin \/ PowerLoss \/ \E s \in Sectors : Write(s) \/ Read(s)

Spec == Init /\ [][Next]_vars
=============================================================================
