------------------------------ MODULE FlashHd -------------------------------
(***************************************************************************)
(* The hard disk in the flash partition, src/hd.c.  Flash is erased in     *)
(* blocks of SecsPerBlock sectors, so writeSector reads the block around a *)
(* sector, erases it and programs it again with the sector replaced.  The  *)
(* power may fail between any two of these calls and inside the last two.  *)
(*                                                                         *)
(* The contents of a sector are a value; Erased is that of a sector after  *)
(* an erase or in a half-programmed one.  The partition driver is external: *)
(* an access outside the partition fails and the assert around it stops    *)
(* the program, until the next restart.                                    *)
(***************************************************************************)
EXTENDS Integers

CONSTANTS
  Size,          (* sectors of the partition                               *)
  SecsPerBlock,  (* 4096 / 512                                             *)
  Contents,      (* what a sector may hold                                 *)
  Erased,        (* what it holds after an erase                           *)
  MaxLen         (* bound: sectors of a command                            *)

ASSUME SizeAssumption ==
  /\ SecsPerBlock \in Nat \ {0} /\ MaxLen \in Nat \ {0}
  /\ Size \in Nat \ {0} /\ Size % SecsPerBlock = 0
ASSUME ContentsAssumption == Contents # {} /\ Erased \notin Contents

VARIABLES
  flash,    (* the partition                                               *)
  secdat,   (* the buffer of writeSector, whole blocks only                *)
  job,      (* the command in progress: next sector, sectors left, its data *)
  pc,       (* where writeSector is; "idle" between commands               *)
  out       (* the last sector read, and what was read                     *)
vars == <<flash, secdat, job, pc, out>>

Lba == 0 .. Size - 1
Cell == Contents \cup {Erased}
Block(lba) == lba \div SecsPerBlock
InBlock(lba) == {s \in Lba : Block(s) = Block(lba)}
NoJob == [lba |-> 0, len |-> 0, data |-> <<>>]
Nothing == <<>>

-----------------------------------------------------------------------------
(* hdScsiCmd.                                                              *)

\* A read of len sectors is len of these; it never changes the flash.  One
\* that goes past the end of the partition fails, and so does the assert.
ReadSector(lba) ==
  /\ pc = "idle" /\ lba \in Lba
  /\ out' = <<lba, flash[lba]>>
  /\ UNCHANGED <<flash, secdat, job, pc>>

ReadOutside(lba) ==
  /\ pc = "idle" /\ lba \notin Lba
  /\ pc' = "aborted"
  /\ UNCHANGED <<flash, secdat, job, out>>

\* lba and len come from the Mac; READ CAPACITY has told it the number of
\* sectors, one more than the last address.
StartWrite(lba, len, data) ==
  /\ pc = "idle"
  /\ job' = [lba |-> lba, len |-> len, data |-> data] /\ pc' = IF len = 0 THEN "idle" ELSE "read"
  /\ UNCHANGED <<flash, secdat, out>>

-----------------------------------------------------------------------------
(* writeSector.                                                            *)

\* Bug variant: the buffer is filled from the sector on, not from its block.
ReadUnaligned ==
  /\ pc = "read" /\ job.lba \in Lba
  /\ secdat' = [s \in InBlock(job.lba) |-> flash[(s + job.lba) % Size]] /\ pc' = "erase"
  /\ UNCHANGED <<flash, job, out>>

ReadBlock ==
  /\ pc = "read" /\ job.lba \in Lba
  /\ secdat' = [s \in InBlock(job.lba) |-> flash[s]] /\ pc' = "erase"
  /\ UNCHANGED <<flash, job, out>>

\* The read behind the end of the partition: the assert fails.
ReadFails ==
  /\ pc = "read" /\ job.lba \notin Lba
  /\ pc' = "aborted"
  /\ UNCHANGED <<flash, secdat, job, out>>

EraseBlock ==
  /\ pc = "erase"
  /\ flash' = [s \in Lba |-> IF s \in InBlock(job.lba) THEN Erased ELSE flash[s]]
  /\ pc' = "program"
  /\ UNCHANGED <<secdat, job, out>>

Patched == [secdat EXCEPT ![job.lba] = job.data[1]]

\* Bug variant: the block is programmed with the new sector alone.
ProgramOne ==
  /\ pc = "program"
  /\ flash' = [flash EXCEPT ![job.lba] = job.data[1]]
  /\ job' = [lba |-> job.lba + 1, len |-> job.len - 1, data |-> job.data]
  /\ pc' = IF job.len = 1 THEN "idle" ELSE "read"
  /\ UNCHANGED <<secdat, out>>

\* Programs the block and moves on to the next sector of the command.
ProgramBlock ==
  /\ pc = "program"
  /\ flash' = [s \in Lba |-> IF s \in InBlock(job.lba) THEN Patched[s] ELSE flash[s]]
  /\ job' = [lba |-> job.lba + 1, len |-> job.len - 1,
             data |-> [i \in 1 .. job.len - 1 |-> job.data[i + 1]]]
  /\ pc' = IF job.len = 1 THEN "idle" ELSE "read"
  /\ UNCHANGED <<secdat, out>>

-----------------------------------------------------------------------------
(* Loss of power: an erase in progress may have reached any of its sectors, *)
(* a program only the first ones.  Memory is gone; the next power up        *)
(* starts with no command.                                                  *)

Torn ==
  \/ flash' = flash
  \/ /\ pc = "erase"
     /\ \E gone \in SUBSET InBlock(job.lba) :
          flash' = [s \in Lba |-> IF s \in gone THEN Erased ELSE flash[s]]
  \/ /\ pc = "program"
     /\ \E end \in InBlock(job.lba) :
          flash' = [s \in Lba |-> IF s \in InBlock(job.lba) /\ s < end
                                  THEN Patched[s] ELSE flash[s]]

PowerLoss == Torn /\ pc' = "idle" /\ job' = NoJob /\ secdat' = Nothing /\ out' = Nothing

Data(len) == [1 .. len -> Contents]

Init ==
  /\ flash \in [Lba -> Contents] /\ secdat = Nothing /\ job = NoJob
  /\ pc = "idle" /\ out = Nothing

Next ==
  \/ \E lba \in 0 .. Size : ReadSector(lba) \/ ReadOutside(lba)
  \/ \E lba \in 0 .. Size, len \in 0 .. MaxLen : \E data \in Data(len) : StartWrite(lba, len, data)
  \/ ReadBlock \/ ReadFails \/ EraseBlock \/ ProgramBlock \/ PowerLoss

Spec == Init /\ [][Next]_vars

-----------------------------------------------------------------------------
(* Properties.                                                             *)

\* A command in progress always has a sector to write, its data, and a lba no
\* more than one behind the partition; between commands none is left.
Pcs == {"idle", "read", "erase", "program", "aborted"}
TypeOK ==
  /\ flash \in [Lba -> Cell] /\ pc \in Pcs
  /\ out = Nothing \/ out \in Lba \X Cell
  /\ job.lba \in 0 .. Size /\ (pc = "idle" => job.len = 0)
  /\ pc \in {"read", "erase", "program"} =>
       job.len \in 1 .. MaxLen /\ job.data \in Data(job.len)
  /\ pc \in {"erase", "program"} =>
       /\ job.lba \in Lba /\ secdat \in [InBlock(job.lba) -> Cell]

\* Until a block is programmed again, secdat holds all of it: before the erase
\* the two agree, after it the buffer is the only copy.
BufferHoldsBlock ==
  /\ pc = "erase" => \A s \in InBlock(job.lba) : secdat[s] = flash[s]
  /\ pc = "program" => \A s \in InBlock(job.lba) : flash[s] = Erased

\* The disk the Mac sees: the flash, and the buffer for an erased block.
Disk == [s \in Lba |-> IF pc = "program" /\ s \in InBlock(job.lba)
                      THEN secdat[s] ELSE flash[s]]
Todo(lba, data, len) == [s \in lba .. lba + len - 1 |-> data[s - lba + 1]]
AllBlocks == {InBlock(s) : s \in Lba}
Commands == UNION {{Todo(lba, data, len) : lba \in 0 .. Size, data \in Data(len)} :
                     len \in 0 .. MaxLen}
D == INSTANCE BlockDisk WITH
       Sectors <- Lba, Lost <- Erased, Blocks <- AllBlocks,
       disk <- Disk, todo <- Todo(job.lba, job.data, job.len), out <- out

\* Writing through blocks is writing single sectors: a command changes its own
\* sectors only, one after the other, each with its data, and a loss of power
\* in the middle of it costs sectors of one block at most, none between
\* commands.
IsDisk == D!Spec
=============================================================================
