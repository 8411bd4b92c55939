------------------------------ MODULE ScsiDisk ------------------------------
(***************************************************************************)
(* The SCSI controller (Ncr) with the disk in flash (FlashHd) behind it,   *)
(* joined by hdScsiCmd, and a Mac in front of it.                          *)
(*                                                                         *)
(* The Mac's SCSI manager is in the ROM and external.  This one takes a    *)
(* command through arbitration, selection, command, data, status and       *)
(* message, one register access after the other.  It may end a data phase  *)
(* early, address an id without a device, and reset the bus at any point,  *)
(* after which it clears the phase register.  It reads data by DMA.        *)
(***************************************************************************)
EXTENDS Integers, Sequences

CONSTANTS
  Size, SecsPerBlock, Sectors, Erased, MaxLen,   (* see FlashHd            *)
  Ids, HdId, FirstId, Own, Blank,                (* see Ncr                *)
  Identity, Capacity,     (* the answers to INQUIRY and READ CAPACITY      *)
  Cdbs                    (* commands the Mac gives                        *)

VARIABLES
  ncr, flash, secdat, job, pc, out,
  mac     (* what the Mac is at, wants, has sent and has got               *)
hd == <<flash, secdat, job, pc, out>>
vars == <<ncr, hd, mac>>

Zero == [op |-> "test", lba |-> 0, len |-> 0]
AllCdbs == Cdbs \cup {Zero}
Contents == Sectors \cup {Blank, Identity, Capacity}
Devices == {HdId}
Sizes == [cmd |-> 2, data |-> MaxLen, msg |-> 2]

F == INSTANCE FlashHd
N == INSTANCE Ncr WITH Cdbs <- AllCdbs, Sectors <- Contents \cup {Erased}

Ops == {"read", "write", "inquiry", "capacity", "test", "unsupported"}
ASSUME ScsiAssumption ==
  /\ F!SizeAssumption /\ F!ContentsAssumption /\ HdId \in Ids /\ FirstId \in Ids
  /\ Cdbs \subseteq [op : Ops, lba : 0 .. Size, len : 0 .. MaxLen]

-----------------------------------------------------------------------------
(* hdScsiCmd.                                                              *)

Command == N!Cdb
InDisk(c) == c.lba + c.len <= Size

\* writeSector runs for the sectors one after the other, with what the data
\* buffer holds of them.
WriteData == [i \in 1 .. Command.len |-> ncr.mem[<<"data", i - 1>>]]

\* Bug variant: the length is that of the buffer.
BeginWhole(val) ==
  /\ N!Call(val)
  /\ IF Command.op = "write" THEN F!StartWrite(Command.lba, MaxLen, WriteData)
     ELSE IF Command.op = "read" /\ ~InDisk(Command) THEN F!ReadOutside(Size)
     ELSE UNCHANGED hd

\* A read behind the last sector fails in the driver, before it has copied any.
BeginCommand(val) ==
  /\ N!Call(val)
  /\ IF Command.op = "write" THEN F!StartWrite(Command.lba, Command.len, WriteData)
     ELSE IF Command.op = "read" /\ ~InDisk(Command) THEN F!ReadOutside(Size)
     ELSE UNCHANGED hd

\* What it answers with, from the start of the data buffer on.
Answer ==
  CASE Command.op = "read"     -> [i \in 0 .. Command.len - 1 |-> flash[Command.lba + i]]
    [] Command.op = "inquiry"  -> [i \in {0} |-> Identity]
    [] Command.op = "capacity" -> [i \in {0} |-> Capacity]
    [] OTHER                   -> [i \in {} |-> Blank]
Answered(p) == p[1] = "data" /\ p[2] \in DOMAIN Answer

\* How much of it the command answers with.
Length ==
  CASE Command.op = "read" -> Command.len
    [] Command.op \in {"inquiry", "capacity"} -> 1
    [] OTHER -> 0

\* Bug variant: a read answers without clearing.
ClearedNotRead(p) == Command.op \notin {"inquiry", "read"} /\ p \in {<<"cmd", 0>>, <<"msg", 0>>}

\* Status and message are cleared, except by INQUIRY, which returns before.
Cleared(p) == Command.op # "inquiry" /\ p \in {<<"cmd", 0>>, <<"msg", 0>>}

Memory == [p \in N!Places |-> IF Answered(p) THEN Answer[p[2]]
                             ELSE IF Cleared(p) THEN Zero ELSE ncr.mem[p]]

EndCommand == pc = "idle" /\ N!Return(Memory, Length) /\ UNCHANGED hd

Flash == F!ReadBlock \/ F!ReadFails \/ F!EraseBlock \/ F!ProgramBlock

-----------------------------------------------------------------------------
(* The Mac (external).                                                     *)

AtRest == [at |-> "free", id |-> FirstId, got |-> <<>>, status |-> "none",
           cdb |-> Zero, sent |-> <<>>, runs |-> 0]  \* the last three: of the last command

At(from, to) == mac.at = from /\ mac' = [mac EXCEPT !.at = to] /\ UNCHANGED hd
Free == [mac EXCEPT !.at = "free", !.got = <<>>, !.status = "none"]

\* A change of phase may run the command in the buffer.
Change(from, to, phase) ==
  /\ mac.at = from
  /\ \/ N!WriteTcr(phase) /\ mac' = [mac EXCEPT !.at = to] /\ UNCHANGED hd
     \/ BeginCommand(phase) /\ mac' = [mac EXCEPT !.at = to, !.runs = @ + 1]

Arbitrate ==
  \/ At("free", "own") /\ N!WriteData(Own, FALSE)
  \/ At("own", "arb") /\ N!WriteMode({"ARB"})
  \/ At("arb", "won") /\ N!ReadIni

Select ==
  \/ \E id \in Ids : /\ mac.at = "won" /\ N!WriteData(id, FALSE) /\ UNCHANGED hd
                     /\ mac' = [mac EXCEPT !.at = "chosen", !.id = id]
  \/ At("chosen", "raised") /\ N!WriteIni({"SEL", "BSY", "DBUS"})
  \/ At("raised", "unarmed") /\ N!WriteMode({})
  \/ At("unarmed", "asking") /\ N!WriteIni({"SEL", "DBUS"})
  \/ N!TargetBusy /\ At("asking", "selected") /\ N!WriteIni({})
  \/ ~N!TargetBusy /\ At("asking", "free") /\ N!WriteIni({})

\* A unit by handshake: the data register, ACK up, ACK down.
SendCdb ==
  \/ Change("selected", "command", {"CD"})
  \/ \E c \in Cdbs :
       /\ mac.at = "command" /\ N!Requests /\ N!WriteData(c, FALSE) /\ UNCHANGED hd
       /\ mac' = [mac EXCEPT !.at = "cmdAck", !.cdb = c, !.sent = <<>>, !.runs = 0]
  \/ At("cmdAck", "cmdRel") /\ N!WriteIni({"ACK", "DBUS"})
  \/ At("cmdRel", "sent") /\ N!WriteIni({})

Wants == IF mac.cdb.op = "read" THEN mac.cdb.len ELSE 1

DataIn ==
  \/ mac.cdb.op \in {"read", "inquiry", "capacity"} /\ Change("sent", "inStart", {"IO"})
  \/ At("inStart", "in") /\ N!WriteMode({"DMA"})
  \/ /\ mac.at = "in" /\ Len(mac.got) < Wants /\ N!ReadData(TRUE) /\ UNCHANGED hd
     /\ mac' = [mac EXCEPT !.got = Append(@, ncr'.din)]
  \/ At("in", "dataDone") /\ N!WriteMode({})

\* A unit of data out goes by DMA or by handshake.
DataOut ==
  \/ mac.cdb.op = "write" /\ Change("sent", "out", {})
  \/ At("out", "outDma") /\ N!WriteMode({"DMA"})
  \/ \E s \in Sectors, dma \in BOOLEAN :
       /\ mac.at = IF dma THEN "outDma" ELSE "out"
       /\ Len(mac.sent) < mac.cdb.len /\ N!WriteData(s, dma) /\ UNCHANGED hd
       /\ mac' = [mac EXCEPT !.at = IF dma THEN @ ELSE "outAck", !.sent = Append(@, s)]
  \/ At("outAck", "outRel") /\ N!WriteIni({"ACK", "DBUS"})
  \/ At("outRel", "out") /\ N!WriteIni({})
  \/ mac.at \in {"out", "outDma"} /\ At(mac.at, "dataDone") /\ N!WriteMode({})

Finish ==
  \/ Change("dataDone", "status", {"CD", "IO"})
  \/ mac.cdb.op = "test" /\ Change("sent", "status", {"CD", "IO"})
  \/ /\ mac.at = "status" /\ N!ReadData(FALSE) /\ UNCHANGED hd
     /\ mac' = [mac EXCEPT !.at = "stAck", !.status = ncr'.din.op]
  \/ At("stAck", "stRel") /\ N!WriteIni({"ACK"})
  \/ At("stRel", "message") /\ N!WriteIni({})
  \/ Change("message", "msgAck", {"CD", "IO", "MSG"})
  \/ At("msgAck", "msgRel") /\ N!WriteIni({"ACK"})
  \/ mac.at = "msgRel" /\ N!WriteIni({}) /\ UNCHANGED hd /\ mac' = Free

\* A reset leaves the phase register and the buffers alone: a write whose data
\* phase was cut short still runs, when the next command changes the phase.
Resets == {"rst", "rstMode", "rstTcr"}
Reset ==
  \/ mac.at \notin Resets \cup {"free"} /\ At(mac.at, "rst") /\ N!WriteIni({"RST"})
  \/ At("rst", "rstMode") /\ N!WriteIni({})
  \/ At("rstMode", "rstTcr") /\ N!WriteMode({})
  \/ /\ mac.at = "rstTcr" /\ mac' = Free
     /\ N!WriteTcr({}) /\ UNCHANGED hd

Mac == Arbitrate \/ Select \/ SendCdb \/ DataIn \/ DataOut \/ Finish \/ Reset

\* A failed assert restarts the emulator, and so does a loss of power in
\* FlashHd; here only the first is of interest.
Restart == pc = "aborted" /\ F!PowerLoss /\ ncr' = N!PowerUp /\ mac' = AtRest

Init ==
  /\ F!Init /\ flash = [s \in F!Lba |-> Blank]     \* a disk never written
  /\ N!Init /\ mac = AtRest
Next ==
  \/ Mac
  \/ Flash /\ UNCHANGED <<ncr, mac>>
  \/ EndCommand /\ UNCHANGED mac
  \/ Restart

Spec == Init /\ [][Next]_vars

-----------------------------------------------------------------------------
(* Properties.                                                             *)

\* The controller keeps to its types, its pointer to its buffer, and talks
\* only to a device that is there.
Controller == N!TypeOK /\ N!PointerInBuffer /\ N!DataHasDevice

\* What the Mac has read so far is what the disk holds, unit by unit.
Expected(i) == CASE mac.cdb.op = "read" -> flash[mac.cdb.lba + i - 1]
                 [] mac.cdb.op = "inquiry" -> Identity
                 [] mac.cdb.op = "capacity" -> Capacity
                 [] OTHER -> Blank
ReadsTheDisk == \A i \in DOMAIN mac.got : mac.got[i] = Expected(i)

\* When the Mac reads the status of a write whose data it has sent, the disk
\* holds them.
WriteDone ==
  mac.status # "none" /\ mac.cdb.op = "write" /\ Len(mac.sent) = mac.cdb.len =>
    \A i \in DOMAIN mac.sent : flash[mac.cdb.lba + i - 1] = mac.sent[i]

\* A device is called for the descriptor that was sent last and at most once, even
\* if a reset has cut the command short, and it is the one the Mac has selected
\* last, whatever the arbitrations and time-outs before.
CalledOnce ==
  ncr.call = "device" => Command = mac.cdb /\ mac.runs = 1 /\ ncr.selected = mac.id

\* Every call of the flash driver is one the driver is made for.
DrivesFlash == F!Spec

\* The status the Mac reads is the one of the command it gave last: cleared by
\* the disk, or the opcode itself when the command never ran and for INQUIRY,
\* which returns before the status is cleared.  An old status is never read.
StatusOfCommand ==
  mac.status # "none" =>
    mac.status = IF mac.runs = 1 /\ mac.cdb.op # "inquiry" THEN "test" ELSE mac.cdb.op
=============================================================================
