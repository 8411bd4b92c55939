-------------------------------- MODULE Ncr ---------------------------------
(***************************************************************************)
(* The SCSI controller of components/tme/ncr.c: the registers the Mac      *)
(* accesses, the emulated bus (arbitration, selection, data) and the       *)
(* transfer buffers.  A phase is what the Mac writes into the target       *)
(* command register; leaving a phase may call the device.                  *)
(*                                                                         *)
(* A unit of a transfer is a whole command descriptor, a status, a message *)
(* or a sector of data, never a single byte.  A command descriptor has its *)
(* opcode, address and length decoded; Zero is the byte 0, good status or  *)
(* TEST UNIT READY.  The device is external to this module: Call starts    *)
(* it and Return takes its answer, and the Mac waits in between.           *)
(***************************************************************************)
EXTENDS Integers

CONSTANTS
  Ids,       (* SCSI ids, and what selects them in the data register        *)
  Devices,   (* those a device is registered for, {6}                       *)
  FirstId,   (* id 0, in ncr.selected at power up                           *)
  Own,       (* another value of the data register: the Mac's own id        *)
  Cdbs,      (* command descriptors: records with a field op               *)
  Zero,      (* the one that starts with a byte 0                           *)
  Sectors,   (* contents of a unit of data                                  *)
  Blank,     (* one that was never filled                                   *)
  Sizes      (* units each buffer holds                                     *)

Buffers == {"cmd", "data", "msg"}
Units == Ids \cup {Own, Blank} \cup Cdbs \cup Sectors
NcrAssumption ==   \* of every use
  /\ Devices \subseteq Ids /\ FirstId \in Ids /\ Zero \in Cdbs
  /\ Sizes \in [Buffers -> Nat \ {0}]

VARIABLE ncr

Lines == {"RST", "ACK", "BSY", "SEL", "ATN", "DBUS"}       \* INI_*
Phase == {"IO", "CD", "MSG"}                               \* TCR_*
States == {"IDLE", "ARB", "ARBDONE", "SELECT", "SELDONE", "DATA"}
Places == UNION {{<<b, i>> : i \in 0 .. Sizes[b] - 1} : b \in Buffers}
Contents == [Places -> Units]
NcrState ==
  [mode : SUBSET {"ARB", "DMA"}, tcr : SUBSET (Phase \cup {"REQ"}),
   dout : Units, din : Units, inicmd : SUBSET Lines,
   selected : Ids, state : States, mem : Contents,
   buf : Buffers \cup {"none"},       \* none: the null pointer of power up
   bufpos : Nat, datalen : Nat,
   call : {"none", "device"},         \* device: in scsiCmd
   next : SUBSET (Phase \cup {"REQ"})] \* the phase written when it was called

PowerUp ==
  [mode |-> {}, tcr |-> {}, dout |-> Zero, din |-> Zero, inicmd |-> {},
   selected |-> FirstId, state |-> "IDLE",
   mem |-> [p \in Places |-> IF p[1] = "data" THEN Blank ELSE Zero],
   buf |-> "none", bufpos |-> 0, datalen |-> 0, call |-> "none", next |-> {}]
Init == ncr = PowerUp

Running == ncr.call = "none"
BufMax == IF ncr.buf = "none" THEN 0 ELSE Sizes[ncr.buf]
Room == ncr.bufpos # BufMax

\* ncr.buf[ncr.bufpos] = val.
Stored(val) == [ncr.mem EXCEPT ![<<ncr.buf, ncr.bufpos>>] = val]
Here == ncr.mem[<<ncr.buf, ncr.bufpos>>]

-----------------------------------------------------------------------------
(* Register 0 and 6: the data, by DMA if the access has dack.              *)

\* What is read is din afterwards.
ReadData(dack) ==
  /\ Running
  /\ ncr' = IF "DMA" \in ncr.mode /\ dack /\ "IO" \in ncr.tcr /\ Room
            THEN [ncr EXCEPT !.din = Here, !.bufpos = @ + 1]
            ELSE ncr

\* Bug variant: what is stored is the byte written before.
WriteDataLate(val, dack) ==
  /\ Running
  /\ IF "DMA" \in ncr.mode /\ dack
     THEN /\ Room
          /\ ncr' = [ncr EXCEPT !.mem = Stored(ncr.dout), !.dout = val, !.din = val,
                                !.bufpos = IF "IO" \in ncr.tcr THEN @ ELSE @ + 1]
     ELSE ncr' = [ncr EXCEPT !.dout = val, !.din = val]

\* The code stores a byte by DMA before it looks at bufmax; one behind the end
\* of a buffer lands outside it and is not modelled.
WriteData(val, dack) ==
  /\ Running
  /\ IF "DMA" \in ncr.mode /\ dack
     THEN /\ Room
          /\ ncr' = [ncr EXCEPT !.mem = Stored(val), !.dout = val, !.din = val,
                                !.bufpos = IF "IO" \in ncr.tcr THEN @ ELSE @ + 1]
     ELSE ncr' = [ncr EXCEPT !.dout = val, !.din = val]

-----------------------------------------------------------------------------
(* Register 1: the lines of the initiator.                                 *)

\* Reading it ends an arbitration, if the device selected last exists.
ReadIni ==
  /\ Running
  /\ ncr' = IF ncr.state = "ARB" /\ ncr.selected \in Devices
            THEN [ncr EXCEPT !.state = "ARBDONE"] ELSE ncr

Selecting(val) == {"SEL", "DBUS", "BSY"} \subseteq val /\ ncr.state \in {"ARBDONE", "ARB"}
Selected(val) == IF Selecting(val) /\ ncr.dout \in Ids THEN ncr.dout ELSE ncr.selected

\* The three tests run one after the other, each on what the one before left.
Asked(val) == IF Selecting(val) THEN "SELECT" ELSE ncr.state
Answered(val) == IF "BSY" \notin val /\ Asked(val) = "SELECT" THEN "SELDONE" ELSE Asked(val)
StateAfter(val) ==
  IF "SEL" \in val \/ Answered(val) # "SELDONE" THEN Answered(val)
  ELSE IF Selected(val) \in Devices THEN "DATA" ELSE "IDLE"

\* A byte goes out as ACK rises, the next one comes in as it falls.
Out(val) ==
  /\ StateAfter(val) = "DATA" /\ "ACK" \in val \ ncr.inicmd /\ "IO" \notin ncr.tcr /\ Room
In(val) ==
  /\ StateAfter(val) = "DATA" /\ "ACK" \in ncr.inicmd \ val /\ "IO" \in ncr.tcr /\ Room

\* Bug variant: a missing device is taken for one that answered.
WriteIniAnyDevice(val) ==
  /\ Running
  /\ ncr' = [ncr EXCEPT
       !.state = IF "RST" \in val THEN "IDLE"
                 ELSE IF "SEL" \notin val /\ Answered(val) = "SELDONE" THEN "DATA"
                 ELSE StateAfter(val),
       !.selected = Selected(val), !.inicmd = val,
       !.mem = IF Out(val) THEN Stored(ncr.dout) ELSE @,
       !.din = IF In(val) THEN Here ELSE @,
       !.bufpos = IF Out(val) \/ In(val) THEN @ + 1 ELSE @]

\* A reset ends in the idle state and changes neither phase nor buffers.
WriteIni(val) ==
  /\ Running
  /\ ncr' = [ncr EXCEPT
       !.state = IF "RST" \in val THEN "IDLE" ELSE StateAfter(val),
       !.selected = Selected(val), !.inicmd = val,
       !.mem = IF Out(val) THEN Stored(ncr.dout) ELSE @,
       !.din = IF In(val) THEN Here ELSE @,
       !.bufpos = IF Out(val) \/ In(val) THEN @ + 1 ELSE @]

-----------------------------------------------------------------------------
(* Register 2: the mode; arbitration is a bit of it.                       *)

WriteMode(val) ==
  /\ Running
  /\ ncr' = [ncr EXCEPT !.mode = val,
                        !.state = IF "ARB" \in val THEN "ARB" ELSE IF @ = "ARB" THEN "IDLE" ELSE @]

-----------------------------------------------------------------------------
(* Register 3: the phase.                                                  *)

\* Bug variant: an empty data out phase runs the command, too.
ParsesEmpty(val) ==
  ncr.tcr \cap Phase = {} \/ (ncr.tcr \cap Phase = {"CD"} /\ val \cap Phase = {"IO"})

\* The command in the buffer runs at the end of a data out phase that moved
\* something, and at the change from command to data in.
Parses(val) ==
  IF ncr.tcr \cap Phase = {} THEN ncr.bufpos # 0
  ELSE ncr.tcr \cap Phase = {"CD"} /\ val \cap Phase = {"IO"}

Cdb == ncr.mem[<<"cmd", 0>>]
Supported == Cdb.op # "unsupported"
Calls(val) == val # ncr.tcr /\ Parses(val) /\ Supported /\ ncr.selected \in Devices

\* Which buffer a phase uses; MSG alone keeps the one before.
BufferOf(val) ==
  CASE val \cap {"MSG", "CD"} = {}            -> "data"
    [] val \cap {"MSG", "CD"} = {"CD"}        -> "cmd"
    [] val \cap {"MSG", "CD"} = {"CD", "MSG"} -> "msg"
    [] OTHER                                  -> ncr.buf

\* Bug variant: the buffer pointer is not put back.
EnterKeepsPos(val, mem, len) ==
  LET b == BufferOf(val)
  IN  [ncr EXCEPT !.tcr = val, !.buf = b, !.mem = mem,
                  !.datalen = IF val \cap {"MSG", "CD"} \in {{"CD"}, {"CD", "MSG"}} THEN 1 ELSE len,
                  !.din = IF b = "none" THEN @ ELSE mem[<<b, 0>>], !.call = "none", !.next = {}]

\* The rest of a phase change, with the memory and length the device left.
\* No phase before the first one of its buffer leaves it at none.
Enter(val, mem, len) ==
  LET b == BufferOf(val)
  IN  [ncr EXCEPT !.tcr = val, !.buf = b, !.mem = mem, !.bufpos = 0,
                  !.datalen = IF val \cap {"MSG", "CD"} \in {{"CD"}, {"CD", "MSG"}} THEN 1 ELSE len,
                  !.din = IF b = "none" THEN @ ELSE mem[<<b, 0>>], !.call = "none", !.next = {}]

WriteTcr(val) ==
  /\ Running /\ ~Calls(val)
  /\ ncr' = IF val = ncr.tcr THEN ncr ELSE Enter(val, ncr.mem, ncr.datalen)

Call(val) ==
  /\ Running /\ Calls(val)
  /\ ncr' = [ncr EXCEPT !.call = "device", !.next = val]

Return(mem, len) ==
  /\ ~Running
  /\ ncr' = Enter(ncr.next, mem, len)

-----------------------------------------------------------------------------
(* What the status registers 4 and 5 show.                                 *)

TargetBusy ==
  ncr.state = "ARB" \/ "BSY" \in ncr.inicmd
    \/ (ncr.selected \in Devices /\ ncr.state = "SELDONE")
Requests == ncr.state = "DATA" /\ "ACK" \notin ncr.inicmd

\* Any program: the accesses in any order.
Any ==
  \/ \E dack \in BOOLEAN : ReadData(dack) \/ \E val \in Units : WriteData(val, dack)
  \/ ReadIni
  \/ \E val \in SUBSET Lines : WriteIni(val)
  \/ \E val \in SUBSET {"ARB", "DMA"} : WriteMode(val)
  \/ \E val \in SUBSET (Phase \cup {"REQ"}) : WriteTcr(val) \/ Call(val)
  \/ \E mem \in Contents, len \in Nat : Return(mem, len)

Spec == Init /\ [][Any]_ncr

-----------------------------------------------------------------------------
(* Properties, for any program.                                            *)

TypeOK == ncr \in NcrState

\* The buffer pointer never leaves its buffer, whatever the program does, and
\* a null buffer is never followed.
PointerInBuffer == ncr.bufpos <= BufMax

\* Data is exchanged with a device that exists: the tests of ncrWrite run in
\* an order that never leaves DATA behind for a device that is not there.
DataHasDevice == ncr.state = "DATA" => ncr.selected \in Devices
=============================================================================
