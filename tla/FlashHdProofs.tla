--------------------------- MODULE FlashHdProofs ----------------------------
(***************************************************************************)
(* FlashHd implements BlockDisk, for every size of the partition, of its   *)
(* erase blocks and of the commands, and whenever the power fails.  The    *)
(* inductive invariant is the type invariant with BufferHoldsBlock: an     *)
(* erased block is whole in secdat.  How sectors are grouped in blocks does *)
(* not matter: only that a sector lies in its own block is used.           *)
(***************************************************************************)
EXTENDS FlashHd, TLAPS

Inv == TypeOK /\ BufferHoldsBlock

\* A block is made of sectors, and a sector lies in its block.
LEMMA BlockOfSector ==
  ASSUME NEW lba \in Lba
  PROVE  InBlock(lba) \subseteq Lba /\ lba \in InBlock(lba)
BY DEF InBlock

LEMMA InitInv == Init => Inv
<1> SUFFICES ASSUME Init PROVE Inv
  OBVIOUS
<1>1. flash \in [Lba -> Cell] /\ pc = "idle" /\ out = Nothing
      /\ job.len = 0 /\ job.lba \in 0 .. Size
  BY SizeAssumption DEF Init, Cell, NoJob
<1> QED BY <1>1 DEF Inv, TypeOK, BufferHoldsBlock, Pcs

-----------------------------------------------------------------------------
(* Every step keeps the invariant.                                         *)

LEMMA ReadSectorInv ==
  ASSUME Inv, NEW lba \in Lba, ReadSector(lba)
  PROVE  Inv'
<1>1. flash[lba] \in Cell
  BY DEF Inv, TypeOK
<1>2. out' \in Lba \X Cell
  BY <1>1 DEF ReadSector
<1> QED BY <1>2 DEF ReadSector, Inv, TypeOK, BufferHoldsBlock

LEMMA ReadOutsideInv ==
  ASSUME Inv, NEW lba \in 0 .. Size, ReadOutside(lba)
  PROVE  Inv'
BY DEF ReadOutside, Inv, TypeOK, BufferHoldsBlock, Pcs

LEMMA StartWriteInv ==
  ASSUME Inv, NEW lba \in 0 .. Size, NEW len \in 0 .. MaxLen, NEW data \in Data(len),
         StartWrite(lba, len, data)
  PROVE  Inv'
<1>1. /\ job'.lba = lba /\ job'.len = len /\ job'.data = data
      /\ flash' = flash /\ out' = out /\ secdat' = secdat
  BY DEF StartWrite
<1>2. pc' \in {"idle", "read"} /\ (pc' = "read" => len \in 1 .. MaxLen) /\ (pc' = "idle" => len = 0)
  BY SizeAssumption DEF StartWrite
<1> QED BY <1>1, <1>2 DEF Inv, TypeOK, BufferHoldsBlock, Pcs

LEMMA ReadBlockInv ==
  ASSUME Inv, ReadBlock
  PROVE  Inv'
<1>1. job.lba \in Lba /\ InBlock(job.lba) \subseteq Lba
  BY BlockOfSector DEF ReadBlock
<1>2. secdat' = [s \in InBlock(job.lba) |-> flash[s]]
  BY DEF ReadBlock
<1>3. secdat' \in [InBlock(job.lba) -> Cell]
  BY <1>1, <1>2 DEF Inv, TypeOK
<1>4. pc' = "erase" /\ flash' = flash /\ job' = job /\ out' = out /\ pc = "read"
  BY DEF ReadBlock
<1> QED BY <1>1, <1>2, <1>3, <1>4 DEF Inv, TypeOK, BufferHoldsBlock, Pcs, InBlock, Lba, Block

LEMMA ReadFailsInv ==
  ASSUME Inv, ReadFails
  PROVE  Inv'
BY DEF ReadFails, Inv, TypeOK, BufferHoldsBlock, Pcs

LEMMA EraseBlockInv ==
  ASSUME Inv, EraseBlock
  PROVE  Inv'
<1>1. job.lba \in Lba /\ InBlock(job.lba) \subseteq Lba
  BY BlockOfSector DEF EraseBlock, Inv, TypeOK
<1>2. flash' = [s \in Lba |-> IF s \in InBlock(job.lba) THEN Erased ELSE flash[s]]
  BY DEF EraseBlock
<1>3. flash' \in [Lba -> Cell]
  BY <1>2 DEF Inv, TypeOK, Cell
<1>4. pc = "erase" /\ pc' = "program" /\ secdat' = secdat /\ job' = job /\ out' = out
  BY DEF EraseBlock
<1>5. \A s \in InBlock(job.lba) : flash'[s] = Erased
  BY <1>1, <1>2
<1> QED BY <1>3, <1>4, <1>5 DEF Inv, TypeOK, BufferHoldsBlock, Pcs, InBlock, Lba, Block

\* The block to be programmed: secdat with the sector of the command.
LEMMA PatchedBlock ==
  ASSUME Inv, pc = "program"
  PROVE  /\ job.lba \in Lba /\ InBlock(job.lba) \subseteq Lba /\ job.lba \in InBlock(job.lba)
         /\ job.data[1] \in Contents
         /\ Patched \in [InBlock(job.lba) -> Cell]
         /\ Patched[job.lba] = job.data[1]
         /\ \A s \in InBlock(job.lba) : s # job.lba => Patched[s] = secdat[s]
<1>1. /\ job.lba \in Lba /\ secdat \in [InBlock(job.lba) -> Cell]
      /\ job.len \in 1 .. MaxLen /\ job.data \in [1 .. job.len -> Contents]
  BY DEF Inv, TypeOK, Data
<1>2. InBlock(job.lba) \subseteq Lba /\ job.lba \in InBlock(job.lba)
  BY <1>1, BlockOfSector
<1>3. job.data[1] \in Contents
  BY <1>1, SizeAssumption
<1> QED BY <1>1, <1>2, <1>3 DEF Patched, Cell

LEMMA ProgramBlockInv ==
  ASSUME Inv, ProgramBlock
  PROVE  Inv'
<1>1. pc = "program"
  BY DEF ProgramBlock
<1>2. flash' = [s \in Lba |-> IF s \in InBlock(job.lba) THEN Patched[s] ELSE flash[s]]
  BY DEF ProgramBlock
<1>3. flash' \in [Lba -> Cell]
  BY <1>1, <1>2, PatchedBlock DEF Inv, TypeOK
<1>4. job.lba \in 0 .. Size - 1 /\ job.len \in 1 .. MaxLen /\ job.data \in [1 .. job.len -> Contents]
  BY <1>1 DEF Inv, TypeOK, Data, Lba
<1>5. /\ job'.lba = job.lba + 1 /\ job'.len = job.len - 1
      /\ job'.data = [i \in 1 .. job.len - 1 |-> job.data[i + 1]]
      /\ out' = out
  BY DEF ProgramBlock
<1>6. job'.data \in Data(job'.len)
  <2>1. \A i \in 1 .. job.len - 1 : i + 1 \in 1 .. job.len
    BY <1>4, SizeAssumption
  <2>2. \A i \in 1 .. job.len - 1 : job.data[i + 1] \in Contents
    BY <1>4, <2>1
  <2>3. [i \in 1 .. job.len - 1 |-> job.data[i + 1]] \in [1 .. job.len - 1 -> Contents]
    BY <2>2
  <2> QED BY <1>5, <2>3 DEF Data
<1>7. job'.lba \in 0 .. Size
  BY <1>4, <1>5, SizeAssumption
<1>8. /\ pc' \in {"idle", "read"}
      /\ pc' = "read" => job'.len \in 1 .. MaxLen
      /\ pc' = "idle" => job'.len = 0
  BY <1>4, <1>5, SizeAssumption DEF ProgramBlock
<1> QED BY <1>3, <1>5, <1>6, <1>7, <1>8 DEF Inv, TypeOK, BufferHoldsBlock, Pcs

LEMMA PowerLossInv ==
  ASSUME Inv, PowerLoss
  PROVE  Inv'
<1>1. flash' \in [Lba -> Cell]
  <2>1. CASE flash' = flash
    BY <2>1 DEF Inv, TypeOK
  <2>2. CASE pc = "erase" /\ \E gone \in SUBSET InBlock(job.lba) :
                flash' = [s \in Lba |-> IF s \in gone THEN Erased ELSE flash[s]]
    BY <2>2 DEF Inv, TypeOK, Cell
  <2>3. CASE pc = "program" /\ \E end \in InBlock(job.lba) :
                flash' = [s \in Lba |-> IF s \in InBlock(job.lba) /\ s < end
                                        THEN Patched[s] ELSE flash[s]]
    <3>1. Patched \in [InBlock(job.lba) -> Cell] /\ flash \in [Lba -> Cell]
      BY <2>3, PatchedBlock DEF Inv, TypeOK
    <3> QED BY <2>3, <3>1
  <2> QED BY <2>1, <2>2, <2>3 DEF PowerLoss, Torn
<1>2. pc' = "idle" /\ out' = Nothing /\ job'.len = 0 /\ job'.lba \in 0 .. Size
  BY SizeAssumption DEF PowerLoss, NoJob
<1> QED BY <1>1, <1>2 DEF Inv, TypeOK, BufferHoldsBlock, Pcs

LEMMA NextInv == Inv /\ [Next]_vars => Inv'
<1> SUFFICES ASSUME Inv, [Next]_vars PROVE Inv'
  OBVIOUS
<1>1. CASE \E lba \in 0 .. Size : ReadSector(lba) \/ ReadOutside(lba)
  <2>1. PICK lba \in 0 .. Size : ReadSector(lba) \/ ReadOutside(lba)
    BY <1>1
  <2>2. CASE ReadSector(lba)
    BY <2>2, ReadSectorInv DEF ReadSector
  <2>3. CASE ReadOutside(lba)
    BY <2>3, ReadOutsideInv
  <2> QED BY <2>1, <2>2, <2>3
<1>2. CASE \E lba \in 0 .. Size, len \in 0 .. MaxLen : \E data \in Data(len) :
             StartWrite(lba, len, data)
  BY <1>2, StartWriteInv
<1>3. CASE ReadBlock
  BY <1>3, ReadBlockInv
<1>4. CASE ReadFails
  BY <1>4, ReadFailsInv
<1>5. CASE EraseBlock
  BY <1>5, EraseBlockInv
<1>6. CASE ProgramBlock
  BY <1>6, ProgramBlockInv
<1>7. CASE PowerLoss
  BY <1>7, PowerLossInv
<1>8. CASE UNCHANGED vars
  BY <1>8 DEF vars, Inv, TypeOK, BufferHoldsBlock
<1> QED BY <1>1, <1>2, <1>3, <1>4, <1>5, <1>6, <1>7, <1>8 DEF Next

LEMMA AlwaysInv == Spec => []Inv
<1> QED BY InitInv, NextInv, PTL DEF Spec

\* Whatever commands run and whenever the power fails, the command in progress
\* stays well-formed and inside the partition (src/hd.c, writeSector).
THEOREM TypeCorrect == Spec => []TypeOK
<1>1. Inv => TypeOK
  BY DEF Inv
<1> QED BY <1>1, AlwaysInv, PTL

\* While the flash block is erased secdat holds all of it: nothing but a loss
\* of power can lose a sector (src/hd.c:42-45).
THEOREM BufferSafe == Spec => []BufferHoldsBlock
<1>1. Inv => BufferHoldsBlock
  BY DEF Inv
<1> QED BY <1>1, AlwaysInv, PTL

-----------------------------------------------------------------------------
(* The refinement.                                                         *)

\* Nothing is left of a command of no sectors, and what is left of a longer one
\* begins with its sector.
LEMMA TodoEmpty == \A lba \in Int : \A data : DOMAIN Todo(lba, data, 0) = {}
BY DEF Todo

LEMMA TodoFirst ==
  ASSUME Inv, pc \in {"erase", "program"}
  PROVE  /\ D!IsNext(job.lba)
         /\ Todo(job.lba, job.data, job.len)[job.lba] = job.data[1]
<1>1. job.lba \in Lba /\ job.lba \in Int /\ job.len \in 1 .. MaxLen
  BY SizeAssumption DEF Inv, TypeOK, Lba
<1>2. job.lba \in job.lba .. job.lba + job.len - 1
  BY <1>1, SizeAssumption
<1> QED BY <1>1, <1>2, SizeAssumption DEF D!IsNext, Todo

\* Between commands nothing is left to do.
LEMMA IdleTodo ==
  ASSUME Inv, pc = "idle"
  PROVE  D!Idle
<1>1. job.len = 0 /\ job.lba \in Int
  BY SizeAssumption DEF Inv, TypeOK
<1> QED BY <1>1, TodoEmpty DEF D!Idle

LEMMA DiskInit == Init => D!Init
<1> SUFFICES ASSUME Init PROVE D!Init
  OBVIOUS
<1>1. Disk = flash
  BY DEF Init, Disk
<1>2. D!Idle
  BY InitInv, IdleTodo DEF Init
<1> QED BY <1>1, <1>2 DEF Init, D!Init, Nothing, D!None

LEMMA ReadSectorRefines ==
  ASSUME Inv, NEW lba \in Lba, ReadSector(lba)
  PROVE  D!Read(lba)
<1>1. Disk[lba] = flash[lba]
  BY DEF Disk, ReadSector
<1>2. Disk' = Disk /\ UNCHANGED Todo(job.lba, job.data, job.len)
  BY DEF Disk, ReadSector
<1>3. D!Idle
  BY IdleTodo DEF ReadSector
<1> QED BY <1>1, <1>2, <1>3 DEF D!Read, ReadSector

\* A command that cannot be carried out leaves the disk as it is.
LEMMA ReadOutsideRefines ==
  ASSUME Inv, NEW lba \in 0 .. Size, ReadOutside(lba)
  PROVE  UNCHANGED D!vars
BY DEF ReadOutside, Disk, D!vars

LEMMA StartWriteRefines ==
  ASSUME Inv, NEW lba \in 0 .. Size, NEW len \in 0 .. MaxLen, NEW data \in Data(len),
         StartWrite(lba, len, data)
  PROVE  D!Begin
<1>1. Disk' = Disk /\ out' = out
  BY DEF StartWrite, Disk
<1>2. D!Idle
  BY IdleTodo DEF StartWrite
<1>3. job'.lba = lba /\ job'.len = len /\ job'.data = data
  BY DEF StartWrite
<1>4. Todo(lba, data, len) \in Commands
  BY DEF Commands
<1>5. Todo(job.lba, job.data, job.len)' = Todo(lba, data, len)
  BY <1>3
<1> QED BY <1>1, <1>2, <1>4, <1>5 DEF D!Begin

\* Reading a block and erasing it are invisible to the Mac.
LEMMA ReadBlockRefines ==
  ASSUME Inv, ReadBlock
  PROVE  UNCHANGED D!vars
BY DEF ReadBlock, Disk, D!vars

LEMMA ReadFailsRefines ==
  ASSUME Inv, ReadFails
  PROVE  UNCHANGED D!vars
BY DEF ReadFails, Disk, D!vars

LEMMA EraseBlockRefines ==
  ASSUME Inv, EraseBlock
  PROVE  UNCHANGED D!vars
<1>1. /\ pc = "erase" /\ pc' = "program" /\ secdat' = secdat /\ job' = job /\ out' = out
      /\ flash' = [s \in Lba |-> IF s \in InBlock(job.lba) THEN Erased ELSE flash[s]]
  BY DEF EraseBlock
<1>2. \A s \in InBlock(job.lba) : secdat[s] = flash[s]
  BY <1>1 DEF Inv, BufferHoldsBlock
<1>3. Disk = [s \in Lba |-> flash[s]]
  BY <1>1 DEF Disk
<1>4. Disk' = [s \in Lba |-> IF s \in InBlock(job.lba) THEN secdat[s] ELSE flash'[s]]
  BY <1>1 DEF Disk, InBlock, Lba, Block
<1>5. Disk' = Disk
  BY <1>1, <1>2, <1>3, <1>4
<1> QED BY <1>1, <1>5 DEF D!vars

\* Programming a block writes the next sector of the command, and that only.
LEMMA ProgramBlockRefines ==
  ASSUME Inv, ProgramBlock
  PROVE  job.lba \in Lba /\ D!Write(job.lba)
<1>1. pc = "program" /\ pc' \in {"idle", "read"} /\ out' = out
  BY DEF ProgramBlock
<1>2. flash' = [s \in Lba |-> IF s \in InBlock(job.lba) THEN Patched[s] ELSE flash[s]]
  BY DEF ProgramBlock
<1>3. Disk' = [s \in Lba |-> flash'[s]]
  BY <1>1 DEF Disk
<1>4. Disk = [s \in Lba |-> IF s \in InBlock(job.lba) THEN secdat[s] ELSE flash[s]]
  BY <1>1 DEF Disk
<1>5. Disk' = [Disk EXCEPT ![job.lba] = job.data[1]]
  BY <1>1, <1>2, <1>3, <1>4, PatchedBlock
<1>6. job.lba \in Lba
  BY <1>1, PatchedBlock
<1> DEFINE todo == Todo(job.lba, job.data, job.len)
<1>7. todo' = [t \in DOMAIN todo \ {job.lba} |-> todo[t]]
  <2>1. job.lba \in Int /\ job.len \in 1 .. MaxLen /\ MaxLen \in Nat /\ Size \in Nat
    BY <1>1, <1>6, SizeAssumption DEF Inv, TypeOK, Lba
  <2>2. /\ job'.lba = job.lba + 1 /\ job'.len = job.len - 1
        /\ job'.data = [i \in 1 .. job.len - 1 |-> job.data[i + 1]]
    BY DEF ProgramBlock
  <2>3. todo = [s \in job.lba .. job.lba + job.len - 1 |-> job.data[s - job.lba + 1]]
    BY DEF Todo
  <2>4. todo' = [s \in job.lba + 1 .. job.lba + job.len - 1 |-> job'.data[s - job.lba]]
    <3>1. job.lba + 1 + (job.len - 1) - 1 = job.lba + job.len - 1
      BY <2>1
    <3>2. \A s \in job.lba + 1 .. job.lba + job.len - 1 : s - (job.lba + 1) + 1 = s - job.lba
      BY <2>1
    <3> QED BY <2>2, <3>1, <3>2 DEF Todo
  <2>5. \A s \in job.lba + 1 .. job.lba + job.len - 1 :
          job'.data[s - job.lba] = job.data[s - job.lba + 1]
    BY <2>1, <2>2
  <2>6. DOMAIN todo \ {job.lba} = job.lba + 1 .. job.lba + job.len - 1
    BY <2>1, <2>3
  <2>7. \A s \in DOMAIN todo \ {job.lba} : todo[s] = job.data[s - job.lba + 1]
    BY <2>3
  <2> HIDE DEF todo
  <2> QED BY <2>4, <2>5, <2>6, <2>7
<1>8. D!IsNext(job.lba) /\ todo[job.lba] = job.data[1]
  BY <1>1, TodoFirst
<1> QED BY <1>1, <1>5, <1>6, <1>7, <1>8 DEF D!Write

\* A loss of power damages the block in progress, and only that.
LEMMA PowerLossRefines ==
  ASSUME Inv, PowerLoss
  PROVE  D!PowerLoss
<1>1. pc' = "idle" /\ out' = Nothing /\ Disk' = [s \in Lba |-> flash'[s]]
  BY DEF PowerLoss, Disk
<1>2. DOMAIN Todo(job.lba, job.data, job.len)' = {}
  <2>1. job'.lba = 0 /\ job'.len = 0
    BY DEF PowerLoss, NoJob
  <2> QED BY <2>1 DEF Todo
<1> DEFINE B == InBlock(job.lba)
           Damaged(now, lost) ==
             [t \in Lba |-> IF t \in lost THEN Erased ELSE IF t = job.lba THEN now ELSE Disk[t]]
<1>3. ASSUME Disk' = Disk
      PROVE  D!PowerLoss
  BY <1>1, <1>2, <1>3 DEF D!PowerLoss, Nothing, D!None
<1>4. ASSUME NEW now \in {Disk[job.lba], job.data[1]}, NEW lost \in SUBSET B,
             pc \in {"erase", "program"}, Disk' = Damaged(now, lost)
      PROVE  D!PowerLoss
  <2>1. job.lba \in Lba /\ job.lba \in B /\ B \in AllBlocks
    BY <1>4, BlockOfSector DEF Inv, TypeOK, AllBlocks
  <2>2. /\ D!IsNext(job.lba)
        /\ now \in {Disk[job.lba], Todo(job.lba, job.data, job.len)[job.lba]}
    BY <1>4, TodoFirst
  <2>3. D!Damage(job.lba, B, lost)
    BY <1>4, <2>1, <2>2, Zenon DEF D!Damage
  <2>4. \E s \in Lba, block \in AllBlocks : \E l \in SUBSET block : D!Damage(s, block, l)
    BY <2>1, <2>3
  <2> QED BY <1>1, <1>2, <2>4, Zenon DEF D!PowerLoss, Nothing, D!None
<1>5. CASE flash' = flash /\ pc # "program"
  <2>1. Disk' = Disk
    BY <1>1, <1>5 DEF Disk
  <2> QED BY <1>3, <2>1
<1>6. CASE pc = "erase" /\ \E gone \in SUBSET InBlock(job.lba) :
              flash' = [s \in Lba |-> IF s \in gone THEN Erased ELSE flash[s]]
  <2>1. PICK gone \in SUBSET B : flash' = [s \in Lba |-> IF s \in gone THEN Erased ELSE flash[s]]
    BY <1>6
  <2>2. Disk = [s \in Lba |-> flash[s]]
    BY <1>6 DEF Disk
  <2>3. Disk' = Damaged(Disk[job.lba], gone)
    BY <1>1, <2>1, <2>2
  <2> QED BY <1>4, <1>6, <2>1, <2>3
<1>7. CASE pc = "program"
  <2>1. /\ job.lba \in B /\ B \subseteq Lba
        /\ Patched[job.lba] = job.data[1]
        /\ \A s \in B : s # job.lba => Patched[s] = secdat[s]
    BY <1>7, PatchedBlock
  <2>2. Disk = [s \in Lba |-> IF s \in B THEN secdat[s] ELSE flash[s]]
    BY <1>7 DEF Disk
  <2>3. \A s \in B : flash[s] = Erased
    BY <1>7 DEF Inv, BufferHoldsBlock
  <2>4. CASE flash' = flash
    <3>1. Disk' = Damaged(job.data[1], B)
      BY <1>1, <2>1, <2>2, <2>3, <2>4
    <3> QED BY <1>4, <1>7, <3>1
  <2>5. CASE \E end \in B : flash' = [s \in Lba |-> IF s \in B /\ s < end
                                                   THEN Patched[s] ELSE flash[s]]
    <3>1. PICK end \in B : flash' = [s \in Lba |-> IF s \in B /\ s < end
                                                   THEN Patched[s] ELSE flash[s]]
      BY <2>5
    <3>2. Disk' = Damaged(job.data[1], {s \in B : ~(s < end)})
      BY <1>1, <2>1, <2>2, <2>3, <3>1
    <3> QED BY <1>4, <1>7, <3>2
  <2> QED BY <1>7, <2>4, <2>5 DEF PowerLoss, Torn
<1> QED BY <1>5, <1>6, <1>7 DEF PowerLoss, Torn

LEMMA StepRefines == Inv /\ [Next]_vars => [D!Next]_(D!vars)
<1> SUFFICES ASSUME Inv, [Next]_vars PROVE [D!Next]_(D!vars)
  OBVIOUS
<1>1. CASE \E lba \in 0 .. Size : ReadSector(lba) \/ ReadOutside(lba)
  <2>1. PICK lba \in 0 .. Size : ReadSector(lba) \/ ReadOutside(lba)
    BY <1>1
  <2>2. CASE ReadSector(lba)
    <3>1. lba \in Lba /\ D!Read(lba)
      BY <2>2, ReadSectorRefines DEF ReadSector
    <3> QED BY <3>1 DEF D!Next
  <2>3. CASE ReadOutside(lba)
    BY <2>3, ReadOutsideRefines
  <2> QED BY <2>1, <2>2, <2>3
<1>2. CASE \E lba \in 0 .. Size, len \in 0 .. MaxLen : \E data \in Data(len) :
             StartWrite(lba, len, data)
  BY <1>2, StartWriteRefines DEF D!Next
<1>3. CASE ReadBlock
  BY <1>3, ReadBlockRefines
<1>4. CASE ReadFails
  BY <1>4, ReadFailsRefines
<1>5. CASE EraseBlock
  BY <1>5, EraseBlockRefines
<1>6. CASE ProgramBlock
  BY <1>6, ProgramBlockRefines DEF D!Next
<1>7. CASE PowerLoss
  BY <1>7, PowerLossRefines DEF D!Next
<1>8. CASE UNCHANGED vars
  BY <1>8 DEF vars, D!vars, Disk, InBlock, Lba, Block
<1> QED BY <1>1, <1>2, <1>3, <1>4, <1>5, <1>6, <1>7, <1>8 DEF Next

\* The disk in flash is the disk BlockDisk describes: sectors are written one
\* by one although flash is erased in blocks, and a loss of power damages one
\* block at most (src/hd.c, hdScsiCmd and writeSector).
THEOREM Refinement == Spec => IsDisk
<1> QED BY DiskInit, StepRefines, AlwaysInv, PTL DEF Spec, IsDisk, D!Spec
=============================================================================
