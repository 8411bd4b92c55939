---------------------------- MODULE ScsiProofs -----------------------------
(***************************************************************************)
(* Proofs about ScsiDisk, for every partition, every set of commands and   *)
(* ids and every way the Mac takes through them.  First the controller     *)
(* (N) under any program, every register access possible at any time;      *)
(* then the Mac's way through the phases, on which a command runs at most  *)
(* once; then the disk behind it, whose writes are followed on what        *)
(* FlashHdProofs has shown them to be: single sectors, in order.           *)
(***************************************************************************)
EXTENDS ScsiDisk, TLAPS

LEMMA NcrHolds == N!NcrAssumption
<1>1. MaxLen \in Nat \ {0} BY ScsiAssumption DEF F!SizeAssumption
<1>2. Sizes \in [N!Buffers -> Nat \ {0}] BY <1>1 DEF Sizes, N!Buffers
<1>3. Devices \subseteq Ids /\ FirstId \in Ids BY ScsiAssumption DEF Devices
<1> QED BY <1>2, <1>3 DEF N!NcrAssumption, AllCdbs

-----------------------------------------------------------------------------
(* The controller, under any program.                                      *)

\* The three invariants depend on each other: the place a byte is stored at is
\* one of the buffers' because the pointer is inside, and it is inside because
\* it is a number and moves only where there is room.
NInv == N!TypeOK /\ N!PointerInBuffer /\ N!DataHasDevice

LEMMA PlaceType ==
  ASSUME NEW b \in N!Buffers, NEW i \in Nat, i < Sizes[b]
  PROVE  <<b, i>> \in N!Places
<1>1. Sizes[b] \in Nat BY NcrHolds DEF N!NcrAssumption
<1>2. i \in 0 .. Sizes[b] - 1 BY <1>1
<1> QED BY <1>2 DEF N!Places

\* What the buffer pointer points at, when there is room.
LEMMA RoomType ==
  ASSUME NInv, N!Room
  PROVE  ncr.buf \in N!Buffers /\ ncr.bufpos < Sizes[ncr.buf]
           /\ <<ncr.buf, ncr.bufpos>> \in N!Places /\ ncr.bufpos + 1 <= N!BufMax
<1>1. ncr.bufpos \in Nat /\ ncr.buf \in N!Buffers \cup {"none"}
  BY DEF NInv, N!TypeOK, N!NcrState
<1>2. ncr.buf \in N!Buffers
  <2>1. ncr.buf # "none" BY <1>1 DEF NInv, N!PointerInBuffer, N!BufMax, N!Room
  <2> QED BY <1>1, <2>1
<1>3. N!BufMax = Sizes[ncr.buf] BY <1>2 DEF N!BufMax, N!Buffers
<1>4. N!BufMax \in Nat BY NcrHolds, <1>2, <1>3 DEF N!NcrAssumption
<1>5. ncr.bufpos < N!BufMax BY <1>1, <1>4 DEF NInv, N!PointerInBuffer, N!Room
<1> QED BY <1>1, <1>2, <1>3, <1>4, <1>5, PlaceType

LEMMA HereType ==
  ASSUME NInv, N!Room
  PROVE  N!Here \in N!Units
<1>1. <<ncr.buf, ncr.bufpos>> \in N!Places BY RoomType
<1>2. ncr.mem \in [N!Places -> N!Units] BY DEF NInv, N!TypeOK, N!NcrState, N!Contents
<1> QED BY <1>1, <1>2 DEF N!Here

LEMMA StoredType ==
  ASSUME NInv, NEW val \in N!Units
  PROVE  N!Stored(val) \in N!Contents
<1>1. ncr.mem \in [N!Places -> N!Units] BY DEF NInv, N!TypeOK, N!NcrState, N!Contents
<1> QED BY <1>1 DEF N!Stored, N!Contents

LEMMA UnitTypes ==
  Zero \in N!Units /\ Blank \in N!Units /\ \A id \in Ids : id \in N!Units
BY NcrHolds DEF N!NcrAssumption, N!Units

\* The state ncrWrite leaves: DATA only with a device.
LEMMA StateType ==
  ASSUME NInv, NEW val \in SUBSET N!Lines
  PROVE  /\ N!StateAfter(val) \in N!States /\ N!Selected(val) \in Ids
         /\ N!StateAfter(val) = "DATA" => N!Selected(val) \in Devices
<1>1. ncr.state \in N!States /\ ncr.selected \in Ids BY DEF NInv, N!TypeOK, N!NcrState
<1>2. N!Selected(val) \in Ids BY <1>1 DEF N!Selected
<1>3. N!Asked(val) \in N!States /\ N!Answered(val) \in N!States BY <1>1 DEF N!Asked, N!Answered, N!States
<1>4. N!StateAfter(val) \in N!States BY <1>3 DEF N!StateAfter, N!States
<1>5. ASSUME N!StateAfter(val) = "DATA" PROVE N!Selected(val) \in Devices
  <2>1. CASE "SEL" \in val \/ N!Answered(val) # "SELDONE"
    <3>1. N!Answered(val) = "DATA" BY <1>5, <2>1 DEF N!StateAfter
    <3>2. N!Asked(val) = "DATA" BY <3>1 DEF N!Answered
    <3>3. ncr.state = "DATA" /\ ~N!Selecting(val) BY <3>2 DEF N!Asked
    <3> QED BY <3>3 DEF N!Selected, NInv, N!DataHasDevice
  <2>2. CASE ~("SEL" \in val \/ N!Answered(val) # "SELDONE")
    BY <1>5, <2>2 DEF N!StateAfter
  <2> QED BY <2>1, <2>2
<1> QED BY <1>2, <1>4, <1>5

\* A phase change starts at the beginning of its buffer.
LEMMA EnterKeeps ==
  ASSUME NInv, NEW val \in SUBSET (N!Phase \cup {"REQ"}), NEW mem \in N!Contents, NEW len \in Nat,
         ncr' = N!Enter(val, mem, len)
  PROVE  NInv'
<1>1. ncr \in N!NcrState BY DEF NInv, N!TypeOK
<1>2. N!BufferOf(val) \in N!Buffers \cup {"none"}
  BY <1>1 DEF N!BufferOf, N!Buffers, N!NcrState
<1>3. N!BufferOf(val) # "none" => mem[<<N!BufferOf(val), 0>>] \in N!Units
  <2> SUFFICES ASSUME N!BufferOf(val) # "none" PROVE mem[<<N!BufferOf(val), 0>>] \in N!Units
    OBVIOUS
  <2>1. N!BufferOf(val) \in N!Buffers BY <1>2
  <2>2. 0 < Sizes[N!BufferOf(val)] BY NcrHolds, <2>1 DEF N!NcrAssumption
  <2>3. <<N!BufferOf(val), 0>> \in N!Places BY <2>1, <2>2, PlaceType
  <2> QED BY <2>3 DEF N!Contents
<1>4. ncr' \in N!NcrState
  BY <1>1, <1>2, <1>3 DEF N!Enter, N!NcrState
<1>5. N!PointerInBuffer'
  <2>1. ncr'.bufpos = 0 /\ ncr'.buf = N!BufferOf(val) BY <1>1 DEF N!Enter, N!NcrState
  <2>2. N!BufMax' >= 0 BY NcrHolds, <1>2, <2>1 DEF N!BufMax, N!NcrAssumption
  <2> QED BY <2>1, <2>2 DEF N!PointerInBuffer
<1>6. N!DataHasDevice'
  <2>1. ncr'.state = ncr.state /\ ncr'.selected = ncr.selected BY <1>1 DEF N!Enter, N!NcrState
  <2> QED BY <2>1 DEF NInv, N!DataHasDevice
<1> QED BY <1>4, <1>5, <1>6 DEF NInv, N!TypeOK

LEMMA InitHolds == N!Init => NInv
<1> SUFFICES ASSUME N!Init PROVE NInv
  OBVIOUS
<1>1. ncr = N!PowerUp BY DEF N!Init
<1>2. [p \in N!Places |-> IF p[1] = "data" THEN Blank ELSE Zero] \in N!Contents
  BY UnitTypes DEF N!Contents
<1>3. N!PowerUp \in N!NcrState
  BY NcrHolds, <1>2, UnitTypes DEF N!NcrAssumption, N!PowerUp, N!NcrState, N!States
<1>4. ncr.bufpos = 0 /\ ncr.buf = "none" /\ ncr.state = "IDLE" BY <1>1 DEF N!PowerUp
<1> QED BY <1>1, <1>3, <1>4 DEF NInv, N!TypeOK, N!PointerInBuffer, N!BufMax, N!DataHasDevice

LEMMA ReadDataKeeps ==
  ASSUME NInv, NEW dack \in BOOLEAN, N!ReadData(dack)
  PROVE  NInv'
<1>1. ncr \in N!NcrState BY DEF NInv, N!TypeOK
<1>2. CASE ncr' = ncr BY <1>2 DEF NInv, N!TypeOK, N!PointerInBuffer, N!DataHasDevice, N!BufMax
<1>3. CASE N!Room /\ ncr' = [ncr EXCEPT !.din = N!Here, !.bufpos = @ + 1]
  <2> DEFINE pos == ncr.bufpos + 1
             din == N!Here
  <2>4. din \in N!Units /\ pos \in Nat BY <1>1, <1>3, HereType DEF N!NcrState
  <2>5. ncr' = [ncr EXCEPT !.din = din, !.bufpos = pos] BY <1>1, <1>3 DEF N!NcrState
  <2> HIDE DEF din, pos
  <2>1. ncr' \in N!NcrState BY <1>1, <2>4, <2>5 DEF N!NcrState
  <2>2. /\ ncr'.bufpos = ncr.bufpos + 1 /\ ncr'.buf = ncr.buf /\ ncr'.state = ncr.state
        /\ ncr'.selected = ncr.selected
    BY <1>1, <1>3 DEF N!NcrState
  <2>3. N!PointerInBuffer' BY <1>3, <2>2, RoomType DEF N!PointerInBuffer, N!BufMax
  <2> QED BY <2>1, <2>2, <2>3 DEF NInv, N!TypeOK, N!DataHasDevice
<1> QED BY <1>2, <1>3 DEF N!ReadData

LEMMA WriteDataKeeps ==
  ASSUME NInv, NEW dack \in BOOLEAN, NEW val \in N!Units, N!WriteData(val, dack)
  PROVE  NInv'
<1>1. ncr \in N!NcrState BY DEF NInv, N!TypeOK
<1>2. CASE ncr' = [ncr EXCEPT !.dout = val, !.din = val]
  <2>1. ncr' \in N!NcrState BY <1>1, <1>2 DEF N!NcrState
  <2>2. /\ ncr'.bufpos = ncr.bufpos /\ ncr'.buf = ncr.buf /\ ncr'.state = ncr.state
        /\ ncr'.selected = ncr.selected
    BY <1>1, <1>2 DEF N!NcrState
  <2> QED BY <2>1, <2>2 DEF NInv, N!TypeOK, N!PointerInBuffer, N!DataHasDevice, N!BufMax
<1>3. CASE /\ N!Room
           /\ ncr' = [ncr EXCEPT !.mem = N!Stored(val), !.dout = val, !.din = val,
                                 !.bufpos = IF "IO" \in ncr.tcr THEN @ ELSE @ + 1]
  <2> DEFINE pos == IF "IO" \in ncr.tcr THEN ncr.bufpos ELSE ncr.bufpos + 1
  <2>3. pos \in Nat /\ N!Stored(val) \in N!Contents BY <1>1, StoredType DEF N!NcrState
  <2>4. ncr' = [ncr EXCEPT !.mem = N!Stored(val), !.dout = val, !.din = val, !.bufpos = pos]
    BY <1>1, <1>3 DEF N!NcrState
  <2> HIDE DEF pos
  <2>1. ncr' \in N!NcrState BY <1>1, <2>3, <2>4 DEF N!NcrState
  <2>2. /\ ncr'.bufpos \in {ncr.bufpos, ncr.bufpos + 1} /\ ncr'.buf = ncr.buf
        /\ ncr'.state = ncr.state /\ ncr'.selected = ncr.selected
    BY <1>1, <1>3 DEF N!NcrState
  <2>5. N!PointerInBuffer'
    BY <1>3, <2>2, RoomType DEF NInv, N!PointerInBuffer, N!BufMax
  <2> QED BY <2>1, <2>2, <2>5 DEF NInv, N!TypeOK, N!DataHasDevice
<1> QED BY <1>2, <1>3 DEF N!WriteData

LEMMA WriteIniKeeps ==
  ASSUME NInv, NEW val \in SUBSET N!Lines, N!WriteIni(val)
  PROVE  NInv'
<1>1. ncr \in N!NcrState BY DEF NInv, N!TypeOK
<1> DEFINE mem == IF N!Out(val) THEN N!Stored(ncr.dout) ELSE ncr.mem
           din == IF N!In(val) THEN N!Here ELSE ncr.din
           pos == IF N!Out(val) \/ N!In(val) THEN ncr.bufpos + 1 ELSE ncr.bufpos
           st  == IF "RST" \in val THEN "IDLE" ELSE N!StateAfter(val)
<1>2. ncr' = [ncr EXCEPT !.state = st, !.selected = N!Selected(val), !.inicmd = val,
                         !.mem = mem, !.din = din, !.bufpos = pos]
  BY <1>1 DEF N!WriteIni, N!NcrState
<1>3. mem \in N!Contents
  <2>1. ncr.dout \in N!Units /\ ncr.mem \in N!Contents BY <1>1 DEF N!NcrState
  <2> QED BY <2>1, StoredType
<1>4. din \in N!Units
  <2>1. ncr.din \in N!Units BY <1>1 DEF N!NcrState
  <2>2. N!In(val) => N!Room BY DEF N!In
  <2> QED BY <2>1, <2>2, HereType
<1>5. pos \in Nat /\ pos <= N!BufMax
  <2>1. ncr.bufpos \in Nat /\ ncr.bufpos <= N!BufMax BY <1>1 DEF N!NcrState, NInv, N!PointerInBuffer
  <2>2. (N!Out(val) \/ N!In(val)) => N!Room BY DEF N!In, N!Out
  <2>3. N!Room => ncr.bufpos + 1 <= N!BufMax BY RoomType
  <2> QED BY <2>1, <2>2, <2>3
<1>6. st \in N!States /\ N!Selected(val) \in Ids /\ (st = "DATA" => N!Selected(val) \in Devices)
  <2>1. "IDLE" \in N!States /\ "IDLE" # "DATA" BY DEF N!States
  <2> QED BY <2>1, StateType
<1> HIDE DEF mem, din, pos, st
<1>7. ncr' \in N!NcrState BY <1>1, <1>2, <1>3, <1>4, <1>5, <1>6 DEF N!NcrState
<1>8. /\ ncr'.bufpos = pos /\ ncr'.buf = ncr.buf /\ ncr'.state = st
      /\ ncr'.selected = N!Selected(val)
  BY <1>1, <1>2 DEF N!NcrState
<1>9. N!PointerInBuffer' BY <1>5, <1>8 DEF N!PointerInBuffer, N!BufMax
<1>10. N!DataHasDevice' BY <1>6, <1>8 DEF N!DataHasDevice
<1> QED BY <1>7, <1>9, <1>10 DEF NInv, N!TypeOK

\* The accesses that change neither pointer nor selection.
LEMMA StateOnly ==
  ASSUME NInv, ncr' \in N!NcrState, ncr'.bufpos = ncr.bufpos, ncr'.buf = ncr.buf,
         ncr'.selected = ncr.selected, ncr'.state \in {ncr.state, "ARB", "ARBDONE", "IDLE"}
  PROVE  NInv'
BY DEF NInv, N!TypeOK, N!PointerInBuffer, N!DataHasDevice, N!BufMax

LEMMA StepKeeps == NInv /\ [N!Any]_ncr => NInv'
<1> SUFFICES ASSUME NInv, [N!Any]_ncr PROVE NInv'
  OBVIOUS
<1>1. ncr \in N!NcrState BY DEF NInv, N!TypeOK
<1>2. CASE UNCHANGED ncr BY <1>2 DEF NInv, N!TypeOK, N!PointerInBuffer, N!DataHasDevice, N!BufMax
<1>3. ASSUME NEW dack \in BOOLEAN, N!ReadData(dack) PROVE NInv' BY <1>3, ReadDataKeeps
<1>4. ASSUME NEW dack \in BOOLEAN, NEW val \in N!Units, N!WriteData(val, dack) PROVE NInv'
  BY <1>4, WriteDataKeeps
<1>5. CASE N!ReadIni
  <2>1. CASE ncr' = ncr BY <1>2, <2>1
  <2>2. CASE ncr' = [ncr EXCEPT !.state = "ARBDONE"]
    <3>1. ncr' \in N!NcrState BY <1>1, <2>2 DEF N!NcrState, N!States
    <3>2. /\ ncr'.bufpos = ncr.bufpos /\ ncr'.buf = ncr.buf /\ ncr'.selected = ncr.selected
          /\ ncr'.state = "ARBDONE"
      BY <1>1, <2>2 DEF N!NcrState
    <3> QED BY <3>1, <3>2, StateOnly
  <2> QED BY <1>5, <2>1, <2>2 DEF N!ReadIni
<1>6. ASSUME NEW val \in SUBSET N!Lines, N!WriteIni(val) PROVE NInv' BY <1>6, WriteIniKeeps
<1>7. ASSUME NEW val \in SUBSET {"ARB", "DMA"}, N!WriteMode(val) PROVE NInv'
  <2> DEFINE st == IF "ARB" \in val THEN "ARB" ELSE IF ncr.state = "ARB" THEN "IDLE" ELSE ncr.state
  <2>1. ncr' = [ncr EXCEPT !.mode = val, !.state = st] BY <1>1, <1>7 DEF N!WriteMode, N!NcrState
  <2>2. st \in N!States /\ st \in {ncr.state, "ARB", "ARBDONE", "IDLE"}
    BY <1>1 DEF N!NcrState, N!States
  <2> HIDE DEF st
  <2>3. ncr' \in N!NcrState BY <1>1, <2>1, <2>2 DEF N!NcrState
  <2>4. /\ ncr'.bufpos = ncr.bufpos /\ ncr'.buf = ncr.buf /\ ncr'.selected = ncr.selected
        /\ ncr'.state = st
    BY <1>1, <2>1 DEF N!NcrState
  <2> QED BY <2>2, <2>3, <2>4, StateOnly
<1>8. ASSUME NEW val \in SUBSET (N!Phase \cup {"REQ"}), N!WriteTcr(val) PROVE NInv'
  <2>1. ncr.mem \in N!Contents /\ ncr.datalen \in Nat BY <1>1 DEF N!NcrState
  <2>2. CASE ncr' = ncr BY <1>2, <2>2
  <2>3. CASE ncr' = N!Enter(val, ncr.mem, ncr.datalen) BY <2>1, <2>3, EnterKeeps
  <2> QED BY <1>8, <2>2, <2>3 DEF N!WriteTcr
<1>9. ASSUME NEW val \in SUBSET (N!Phase \cup {"REQ"}), N!Call(val) PROVE NInv'
  <2>1. ncr' = [ncr EXCEPT !.call = "device", !.next = val] BY <1>9 DEF N!Call
  <2>2. ncr' \in N!NcrState BY <1>1, <2>1 DEF N!NcrState
  <2>3. /\ ncr'.bufpos = ncr.bufpos /\ ncr'.buf = ncr.buf /\ ncr'.selected = ncr.selected
        /\ ncr'.state = ncr.state
    BY <1>1, <2>1 DEF N!NcrState
  <2> QED BY <2>2, <2>3, StateOnly
<1>10. ASSUME NEW mem \in N!Contents, NEW len \in Nat, N!Return(mem, len) PROVE NInv'
  <2>1. ncr.next \in SUBSET (N!Phase \cup {"REQ"}) BY <1>1 DEF N!NcrState
  <2> QED BY <1>10, <2>1, EnterKeeps DEF N!Return
<1> QED BY <1>2, <1>3, <1>4, <1>5, <1>6, <1>7, <1>8, <1>9, <1>10 DEF N!Any

\* The inductive invariant holds of every run.
THEOREM NInvHolds == N!Spec => []NInv
BY InitHolds, StepKeeps, PTL DEF N!Spec

\* Whatever the program does to the registers, the controller keeps to its
\* types.
THEOREM ControllerTypes == N!Spec => []N!TypeOK
<1>1. NInv => N!TypeOK BY DEF NInv
<1> QED BY <1>1, NInvHolds, PTL

\* ncr.bufpos stays in the buffer ncr.buf points at, through every order of
\* phase changes, handshakes and DMA accesses.
THEOREM PointerStaysInBuffer == N!Spec => []N!PointerInBuffer
<1>1. NInv => N!PointerInBuffer BY DEF NInv
<1> QED BY <1>1, NInvHolds, PTL

\* The data state is entered and kept only with a device that exists.
THEOREM DataOnlyWithDevice == N!Spec => []N!DataHasDevice
<1>1. NInv => N!DataHasDevice BY DEF NInv
<1> QED BY <1>1, NInvHolds, PTL

-----------------------------------------------------------------------------
(* What an access leaves in the registers.                                 *)

Kept1 ==
  /\ ncr'.tcr = ncr.tcr /\ ncr'.buf = ncr.buf
  /\ ncr'.call = ncr.call /\ ncr'.next = ncr.next
Kept2 == ncr'.mem = ncr.mem /\ ncr'.bufpos = ncr.bufpos
Kept3 == ncr'.inicmd = ncr.inicmd /\ ncr'.mode = ncr.mode
Kept4 == ncr'.selected = ncr.selected /\ ncr'.state = ncr.state

LEMMA DataFields ==
  ASSUME NInv, NEW val \in N!Units, N!WriteData(val, FALSE)
  PROVE  Kept1 /\ Kept2 /\ Kept3 /\ Kept4 /\ ncr'.dout = val /\ ncr.call = "none"
<1>1. ncr \in N!NcrState BY DEF NInv, N!TypeOK
<1>2. ncr' = [ncr EXCEPT !.dout = val, !.din = val] BY DEF N!WriteData
<1> QED BY <1>1, <1>2 DEF N!NcrState, Kept1, Kept2, Kept3, Kept4, N!WriteData, N!Running

LEMMA StoreFields ==
  ASSUME NInv, NEW val \in N!Units, N!WriteData(val, TRUE), "DMA" \in ncr.mode,
         "IO" \notin ncr.tcr
  PROVE  /\ Kept1 /\ Kept3 /\ Kept4 /\ N!Room /\ ncr.call = "none"
         /\ ncr'.mem = N!Stored(val) /\ ncr'.bufpos = ncr.bufpos + 1
<1>1. ncr \in N!NcrState BY DEF NInv, N!TypeOK
<1> DEFINE mem == N!Stored(val)  pos == ncr.bufpos + 1
<1>2. ncr' = [ncr EXCEPT !.mem = mem, !.dout = val, !.din = val, !.bufpos = pos]
  BY <1>1 DEF N!WriteData, N!NcrState
<1> HIDE DEF mem, pos
<1>3. Kept1 /\ Kept3 /\ Kept4 /\ ncr'.mem = mem /\ ncr'.bufpos = pos
  BY <1>1, <1>2 DEF N!NcrState, Kept1, Kept3, Kept4
<1> QED BY <1>3 DEF mem, pos, N!WriteData, N!Running

LEMMA ReadFields ==
  ASSUME NInv, NEW dack \in BOOLEAN, N!ReadData(dack)
  PROVE  /\ Kept1 /\ Kept3 /\ Kept4 /\ ncr'.mem = ncr.mem /\ ncr.call = "none"
         /\ ~dack => ncr' = ncr
         /\ dack /\ "DMA" \in ncr.mode /\ "IO" \in ncr.tcr /\ N!Room =>
              ncr'.din = N!Here /\ ncr'.bufpos = ncr.bufpos + 1
<1>1. ncr \in N!NcrState BY DEF NInv, N!TypeOK
<1> DEFINE din == N!Here  pos == ncr.bufpos + 1
           moves == "DMA" \in ncr.mode /\ dack /\ "IO" \in ncr.tcr /\ N!Room
<1>2. ncr' = IF moves THEN [ncr EXCEPT !.din = din, !.bufpos = pos] ELSE ncr
  BY <1>1 DEF N!ReadData, N!NcrState
<1> HIDE DEF din, pos
<1>3. CASE moves
  <2>1. /\ Kept1 /\ Kept3 /\ Kept4 /\ ncr'.mem = ncr.mem /\ ncr'.din = din
        /\ ncr'.bufpos = pos
    BY <1>1, <1>2, <1>3 DEF N!NcrState, Kept1, Kept3, Kept4
  <2> QED BY <1>3, <2>1 DEF din, pos, N!ReadData, N!Running
<1>4. CASE ~moves
  <2>1. ncr' = ncr BY <1>2, <1>4
  <2> QED BY <1>4, <2>1 DEF Kept1, Kept3, Kept4, N!ReadData, N!Running
<1> QED BY <1>3, <1>4

LEMMA ModeFields ==
  ASSUME NInv, NEW val \in SUBSET {"ARB", "DMA"}, N!WriteMode(val)
  PROVE  /\ Kept1 /\ Kept2 /\ ncr'.inicmd = ncr.inicmd /\ ncr'.mode = val
         /\ ncr'.selected = ncr.selected /\ ncr'.dout = ncr.dout /\ ncr'.din = ncr.din
         /\ ncr.call = "none"
         /\ ncr'.state = IF "ARB" \in val THEN "ARB"
                         ELSE IF ncr.state = "ARB" THEN "IDLE" ELSE ncr.state
<1>1. ncr \in N!NcrState BY DEF NInv, N!TypeOK
<1> DEFINE st == IF "ARB" \in val THEN "ARB" ELSE IF ncr.state = "ARB" THEN "IDLE" ELSE ncr.state
<1>2. ncr' = [ncr EXCEPT !.mode = val, !.state = st] BY <1>1 DEF N!WriteMode, N!NcrState
<1> HIDE DEF st
<1>3. /\ Kept1 /\ Kept2 /\ ncr'.inicmd = ncr.inicmd /\ ncr'.mode = val
      /\ ncr'.selected = ncr.selected /\ ncr'.dout = ncr.dout /\ ncr'.din = ncr.din
      /\ ncr'.state = st
  BY <1>1, <1>2 DEF N!NcrState, Kept1, Kept2
<1> QED BY <1>3 DEF st, N!WriteMode, N!Running

LEMMA ReadIniFields ==
  ASSUME NInv, N!ReadIni
  PROVE  /\ Kept1 /\ Kept2 /\ Kept3 /\ ncr'.selected = ncr.selected /\ ncr.call = "none"
         /\ ncr.state = "ARB" => ncr'.state \in {"ARB", "ARBDONE"}
<1>1. ncr \in N!NcrState BY DEF NInv, N!TypeOK
<1>2. ncr' = [ncr EXCEPT !.state = "ARBDONE"] \/ ncr' = ncr BY DEF N!ReadIni
<1> QED BY <1>1, <1>2 DEF N!NcrState, Kept1, Kept2, Kept3, N!ReadIni, N!Running

LEMMA IniFields ==
  ASSUME NInv, NEW val \in SUBSET N!Lines, N!WriteIni(val)
  PROVE  /\ Kept1 /\ ncr'.mode = ncr.mode /\ ncr'.dout = ncr.dout /\ ncr'.inicmd = val
         /\ ncr'.selected = N!Selected(val) /\ ncr.call = "none"
         /\ ncr'.state = IF "RST" \in val THEN "IDLE" ELSE N!StateAfter(val)
         /\ ncr'.mem = IF N!Out(val) THEN N!Stored(ncr.dout) ELSE ncr.mem
         /\ ncr'.bufpos = IF N!Out(val) \/ N!In(val) THEN ncr.bufpos + 1 ELSE ncr.bufpos
<1>1. ncr \in N!NcrState BY DEF NInv, N!TypeOK
<1> DEFINE mem == IF N!Out(val) THEN N!Stored(ncr.dout) ELSE ncr.mem
           din == IF N!In(val) THEN N!Here ELSE ncr.din
           pos == IF N!Out(val) \/ N!In(val) THEN ncr.bufpos + 1 ELSE ncr.bufpos
           st  == IF "RST" \in val THEN "IDLE" ELSE N!StateAfter(val)
           sel == N!Selected(val)
<1>2. ncr' = [ncr EXCEPT !.state = st, !.selected = sel, !.inicmd = val,
                         !.mem = mem, !.din = din, !.bufpos = pos]
  BY <1>1 DEF N!WriteIni, N!NcrState
<1> HIDE DEF mem, din, pos, st, sel
<1>3. /\ Kept1 /\ ncr'.mode = ncr.mode /\ ncr'.dout = ncr.dout /\ ncr'.inicmd = val
      /\ ncr'.selected = sel /\ ncr'.state = st /\ ncr'.mem = mem /\ ncr'.bufpos = pos
  BY <1>1, <1>2 DEF N!NcrState, Kept1
<1> QED BY <1>3 DEF mem, pos, st, sel, N!WriteIni, N!Running

LEMMA EnterFields ==
  ASSUME NInv, NEW val, NEW mem, NEW len, ncr' = N!Enter(val, mem, len)
  PROVE  /\ Kept3 /\ Kept4 /\ ncr'.dout = ncr.dout
         /\ ncr'.tcr = val /\ ncr'.buf = N!BufferOf(val) /\ ncr'.mem = mem /\ ncr'.bufpos = 0
         /\ N!BufferOf(val) # "none" => ncr'.din = mem[<<N!BufferOf(val), 0>>]
         /\ ncr'.call = "none"
<1>1. ncr \in N!NcrState BY DEF NInv, N!TypeOK
<1> DEFINE b == N!BufferOf(val)
           din == IF b = "none" THEN ncr.din ELSE mem[<<b, 0>>]
           n == IF val \cap {"MSG", "CD"} \in {{"CD"}, {"CD", "MSG"}} THEN 1 ELSE len
<1>2. ncr' = [ncr EXCEPT !.tcr = val, !.buf = b, !.mem = mem, !.bufpos = 0, !.datalen = n,
                         !.din = din, !.call = "none", !.next = {}]
  BY <1>1 DEF N!Enter, N!NcrState
<1> HIDE DEF b, din, n
<1>3. /\ Kept3 /\ Kept4 /\ ncr'.dout = ncr.dout /\ ncr'.tcr = val /\ ncr'.buf = b
      /\ ncr'.mem = mem /\ ncr'.bufpos = 0 /\ ncr'.din = din /\ ncr'.call = "none"
  BY <1>1, <1>2 DEF N!NcrState, Kept3, Kept4
<1> QED BY <1>3 DEF b, din

LEMMA CallFields ==
  ASSUME NInv, NEW val, N!Call(val)
  PROVE  /\ Kept2 /\ Kept3 /\ Kept4 /\ ncr'.tcr = ncr.tcr /\ ncr'.buf = ncr.buf
         /\ ncr'.call = "device" /\ ncr'.next = val /\ ncr.call = "none"
         /\ ncr.selected = HdId
<1>1. ncr \in N!NcrState BY DEF NInv, N!TypeOK
<1>2. ncr' = [ncr EXCEPT !.call = "device", !.next = val] BY DEF N!Call
<1> QED BY <1>1, <1>2 DEF N!NcrState, Kept2, Kept3, Kept4, N!Call, N!Running, N!Calls, Devices

-----------------------------------------------------------------------------
(* The inductive invariant.  Its first half is the Mac's way: what the     *)
(* registers hold at each step of it.                                      *)

Msg == {"CD", "IO", "MSG"}
CommandAts == {"command", "cmdAck", "cmdRel", "sent"}
InAts == {"inStart", "in"}
OutAts == {"out", "outDma", "outAck", "outRel"}
StatusAts == {"status", "stAck", "stRel", "message"}
MsgAts == {"msgAck", "msgRel"}
Choosing == {"raised", "unarmed", "asking"}
Talking ==
  {"selected", "dataDone"} \cup CommandAts \cup InAts \cup OutAts \cup StatusAts \cup MsgAts
Quiet == {"free", "own", "arb", "won", "chosen"} \cup Choosing \cup {"selected"}
Ats == Quiet \cup Talking \cup Resets
ReadOps == {"read", "inquiry", "capacity"}

MacType ==
  mac \in [at : Ats, id : Ids, cdb : AllCdbs, got : Seq(N!Units), sent : Seq(Sectors),
           runs : {0, 1}, status : Ops \cup {"none"}]

\* The bus: who is selected, and the lines while they talk.
Bus ==
  /\ mac.at = "arb" => ncr.state = "ARB"
  /\ mac.at \in {"won", "chosen"} => ncr.state \in {"ARB", "ARBDONE"}
  /\ mac.at = "chosen" => ncr.dout = mac.id
  /\ mac.at \in {"raised", "unarmed"} => ncr.state = "SELECT"
  /\ mac.at = "asking" => ncr.state = "SELDONE" /\ ncr.inicmd = {"SEL", "DBUS"}
  /\ mac.at \in Talking => ncr.state = "DATA" /\ mac.id = HdId
  /\ mac.at \in Talking \cup Choosing => ncr.selected = mac.id
  /\ mac.at \in Talking =>
       ("ACK" \in ncr.inicmd <=> mac.at \in {"cmdRel", "outRel", "stRel", "msgRel"})
  /\ mac.at \in Talking \cup {"unarmed", "asking"} =>
       ("DMA" \in ncr.mode <=> mac.at \in {"in", "outDma"})

\* The phase register and the buffer it has chosen, unless a device is called.
PhaseRight == ncr.call = "none" =>
  /\ mac.at \in CommandAts => ncr.tcr = {"CD"} /\ ncr.buf = "cmd"
  /\ mac.at \in InAts => ncr.tcr = {"IO"} /\ ncr.buf = "data" /\ mac.cdb.op \in ReadOps
  /\ mac.at \in OutAts => ncr.tcr = {} /\ ncr.buf = "data" /\ mac.cdb.op = "write"
  /\ mac.at = "dataDone" => IF mac.cdb.op = "write" THEN ncr.tcr = {} /\ ncr.buf = "data"
                            ELSE ncr.tcr = {"IO"} /\ mac.cdb.op \in ReadOps
  /\ mac.at \in StatusAts => ncr.tcr = {"CD", "IO"} /\ ncr.buf = "cmd"
  /\ mac.at \in MsgAts => ncr.tcr = Msg
  /\ mac.at \in Quiet => ncr.tcr \in {{}, Msg}

\* The descriptor in the buffer: the one sent last, until its command has run.
Ran ==
  /\ Command \in AllCdbs
  /\ mac.at = "cmdAck" => ncr.dout = mac.cdb
  /\ mac.at \in {"command", "cmdAck"} /\ ncr.call = "none" => ncr.bufpos = 0
  /\ mac.at \in {"cmdAck", "cmdRel", "sent"} => mac.runs = 0 /\ mac.sent = <<>>
  /\ mac.at \in {"cmdRel", "sent"} \cup OutAts => Command = mac.cdb
  /\ mac.at \in OutAts => mac.runs = 0
  /\ mac.at \in InAts => mac.runs = 1
  /\ mac.at = "dataDone" => (mac.runs = IF mac.cdb.op = "write" THEN 0 ELSE 1)
  /\ mac.at \in {"dataDone"} \cup InAts \cup StatusAts /\ ncr.call = "none" =>
       Command = IF mac.runs = 1 /\ mac.cdb.op # "inquiry" THEN Zero ELSE mac.cdb
  /\ mac.at = "status" /\ ncr.call = "none" => ncr.din = Command

\* A data out phase that has moved something is always that of the last command,
\* which has not run: it may outlive resets and arbitrations.
Pending == ncr.tcr = {} /\ ncr.bufpos # 0 =>
  mac.cdb.op = "write" /\ Command = mac.cdb /\ mac.runs = IF ncr.call = "none" THEN 0 ELSE 1

\* The three changes of phase that call the disk.
Calling == ncr.call = "device" =>
  /\ \/ mac.at = "command" /\ ncr.next = {"CD"} /\ mac.cdb.op = "write"
     \/ mac.at = "inStart" /\ ncr.next = {"IO"} /\ mac.cdb.op \in ReadOps
     \/ mac.at = "status" /\ ncr.next = {"CD", "IO"} /\ mac.cdb.op = "write"
  /\ mac.runs = 1 /\ Command = mac.cdb

StatusRead ==
  mac.status # "none" => mac.at \in {"stAck", "stRel", "message"} \cup MsgAts \cup Resets

Way ==
  MacType /\ Bus /\ PhaseRight /\ Ran /\ Pending /\ Calling /\ StatusRead /\ StatusOfCommand

(* The second half is the disk: what the flash and the data buffer hold.   *)

Buffer(i) == ncr.mem[<<"data", i - 1>>]
DataCells == \A i \in 1 .. MaxLen : Buffer(i) \in Contents

\* The driver is at rest unless a device is called, and never reads outside.
Driver ==
  /\ F!TypeOK /\ F!BufferHoldsBlock /\ F!Disk \in [F!Lba -> Contents]
  /\ ncr.call = "none" => pc = "idle"
  /\ ncr.call = "device" /\ mac.cdb.op = "read" /\ pc = "idle" => InDisk(mac.cdb)
  /\ ncr.call = "device" /\ mac.cdb.op # "write" => pc \in {"idle", "aborted"}

\* While a write runs, each of its sectors is on the disk or still to be written.
Todo == F!Todo(job.lba, job.data, job.len)
Kept(s, unit) == IF s \in DOMAIN Todo THEN Todo[s] = unit ELSE s \in F!Lba /\ F!Disk[s] = unit
Writing == ncr.call = "device" /\ mac.cdb.op = "write" =>
  \A i \in 1 .. mac.cdb.len : Kept(mac.cdb.lba + i - 1, Buffer(i))

\* What the Mac has sent is in the buffer until the write has run, then on disk.
Buffered(n) == \A i \in 1 .. n : Buffer(i) = mac.sent[i]
Sent == Len(mac.sent)
Sending ==
  /\ mac.at \in OutAts \cup {"dataDone", "status"} /\ mac.cdb.op = "write" => Sent <= mac.cdb.len
  /\ mac.at \in OutAts \cup {"dataDone"} /\ mac.cdb.op = "write" =>
       Buffered(ncr.bufpos) /\ ncr.bufpos = IF mac.at = "outAck" THEN Sent - 1 ELSE Sent
  /\ mac.at = "outAck" => Sent > 0 /\ ncr.dout = mac.sent[Sent]
  /\ mac.at = "status" /\ ncr.call = "device" => Buffered(Sent)

OnDisk == \A i \in DOMAIN mac.sent : flash[mac.cdb.lba + i - 1] = mac.sent[i]
Written ==
  mac.at \in StatusAts \cup MsgAts /\ ncr.call = "none" /\ mac.cdb.op = "write"
    /\ Sent = mac.cdb.len => OnDisk

\* What the Mac reads is in the buffer, and it has read up to the pointer.
Answers == \A i \in 1 .. Wants : Buffer(i) = Expected(i)
Reading ==
  /\ mac.at \in InAts /\ ncr.call = "none" =>
       Answers /\ ncr.bufpos = Len(mac.got) /\ ncr.bufpos <= Wants
  /\ mac.got # <<>> => mac.at \in {"in", "dataDone"} \cup StatusAts \cup MsgAts \cup Resets
                         /\ mac.cdb.op \in ReadOps

OfDisk ==
  DataCells /\ Driver /\ Writing /\ Sending /\ Written /\ Reading /\ ReadsTheDisk /\ WriteDone

IInv == NInv /\ Way /\ OfDisk

-----------------------------------------------------------------------------
(* What an access does at a point of the Mac's way.                        *)

DataKept ==
  mac'.cdb = mac.cdb /\ mac'.got = mac.got /\ mac'.sent = mac.sent /\ mac'.status = mac.status
MacKept == DataKept /\ mac'.id = mac.id /\ mac'.runs = mac.runs

\* A move of the Mac that changes only where it is.
LEMMA Moved ==
  ASSUME MacType, NEW to \in Ats, mac' = [mac EXCEPT !.at = to]
  PROVE  mac'.at = to /\ MacKept /\ MacType'
BY DEF MacType, MacKept, DataKept

LEMMA AtFields ==
  ASSUME MacType, NEW from, NEW to \in Ats, At(from, to)
  PROVE  mac.at = from /\ mac'.at = to /\ MacKept /\ MacType' /\ hd' = hd
BY Moved DEF At

\* Lowering ACK moves no data out, and the pointer only in a phase of data in.
LEMMA Lowered ==
  ASSUME NInv, NEW val \in SUBSET N!Lines, N!WriteIni(val), "ACK" \notin val
  PROVE  /\ Kept1 /\ ncr'.mode = ncr.mode /\ ncr'.inicmd = val /\ ncr'.dout = ncr.dout
         /\ ncr.call = "none" /\ ncr'.mem = ncr.mem
         /\ ncr.tcr = {} => ncr'.bufpos = ncr.bufpos
         /\ "ACK" \notin ncr.inicmd => ncr'.bufpos = ncr.bufpos
<1>1. ~N!Out(val) BY DEF N!Out
<1>2. ncr.tcr = {} \/ "ACK" \notin ncr.inicmd => ~N!In(val) BY DEF N!In
<1> QED BY <1>1, <1>2, IniFields

\* As long as they talk, only ACK matters.
LEMMA Talked ==
  ASSUME NInv, ncr.state = "DATA", NEW val \in SUBSET N!Lines, "RST" \notin val, N!WriteIni(val)
  PROVE  /\ Kept1 /\ ncr'.mode = ncr.mode /\ ncr'.inicmd = val /\ ncr'.dout = ncr.dout
         /\ ncr'.selected = ncr.selected /\ ncr'.state = "DATA" /\ ncr.call = "none"
         /\ "IO" \in ncr.tcr => ncr'.mem = ncr.mem
         /\ "IO" \notin ncr.tcr /\ "ACK" \notin val \ ncr.inicmd => Kept2
         /\ "IO" \notin ncr.tcr /\ "ACK" \in val \ ncr.inicmd /\ N!Room =>
              ncr'.mem = N!Stored(ncr.dout) /\ ncr'.bufpos = ncr.bufpos + 1
<1>1. N!Selected(val) = ncr.selected /\ N!StateAfter(val) = "DATA"
  BY DEF N!Selected, N!Selecting, N!StateAfter, N!Answered, N!Asked
<1>2. N!Out(val) <=> "ACK" \in val \ ncr.inicmd /\ "IO" \notin ncr.tcr /\ N!Room
  BY <1>1 DEF N!Out
<1>3. N!In(val) => "IO" \in ncr.tcr BY DEF N!In
<1>4. /\ Kept1 /\ ncr'.mode = ncr.mode /\ ncr'.dout = ncr.dout /\ ncr'.inicmd = val
      /\ ncr'.selected = ncr.selected /\ ncr'.state = "DATA" /\ ncr.call = "none"
      /\ ncr'.mem = IF N!Out(val) THEN N!Stored(ncr.dout) ELSE ncr.mem
      /\ ncr'.bufpos = IF N!Out(val) \/ N!In(val) THEN ncr.bufpos + 1 ELSE ncr.bufpos
  BY <1>1, IniFields
<1> QED BY <1>2, <1>3, <1>4 DEF Kept2

\* The changes of phase of this Mac, and which of them run a command.
Phases == {{}, {"CD"}, {"IO"}, {"CD", "IO"}, Msg}
Runs(val) ==
  \/ ncr.tcr = {} /\ val # {} /\ ncr.bufpos # 0
  \/ ncr.tcr = {"CD"} /\ val = {"IO"}
LEMMA PhaseCalls ==
  ASSUME NInv, NEW val \in Phases, ncr.tcr \in Phases
  PROVE  N!Calls(val) <=> Runs(val) /\ Command.op # "unsupported" /\ ncr.selected = HdId
<1>1. N!Parses(val) <=> IF ncr.tcr = {} THEN ncr.bufpos # 0
                        ELSE ncr.tcr = {"CD"} /\ val = {"IO"}
  BY DEF N!Parses, N!Phase, Phases, Msg
<1> QED BY <1>1 DEF N!Calls, N!Supported, Command, Devices, Runs, Phases, Msg

\* A phase change starts with the buffer of the phase; MSG only with CD.
LEMMA PhaseBuffer ==
  /\ N!BufferOf({}) = "data" /\ N!BufferOf({"IO"}) = "data"
  /\ N!BufferOf({"CD"}) = "cmd" /\ N!BufferOf({"CD", "IO"}) = "cmd" /\ N!BufferOf(Msg) = "msg"
<1>1. {} \cap {"MSG", "CD"} = {} /\ {"IO"} \cap {"MSG", "CD"} = {}
  OBVIOUS
<1>2. {"CD"} \cap {"MSG", "CD"} = {"CD"} /\ {"CD", "IO"} \cap {"MSG", "CD"} = {"CD"}
  OBVIOUS
<1>3. Msg \cap {"MSG", "CD"} = {"CD", "MSG"} BY DEF Msg
<1> QED BY <1>1, <1>2, <1>3 DEF N!BufferOf

\* A change of phase that runs nothing.
LEMMA TcrFields ==
  ASSUME NInv, NEW val \in Phases, val # ncr.tcr, N!WriteTcr(val)
  PROVE  /\ Kept3 /\ Kept4 /\ ncr'.dout = ncr.dout /\ ncr'.tcr = val
         /\ ncr'.buf = N!BufferOf(val) /\ ncr'.mem = ncr.mem /\ ncr'.bufpos = 0
         /\ ncr'.din = ncr.mem[<<N!BufferOf(val), 0>>]
         /\ ncr.call = "none" /\ ncr'.call = "none"
<1>1. ncr' = N!Enter(val, ncr.mem, ncr.datalen) BY DEF N!WriteTcr
<1>2. N!BufferOf(val) # "none" BY PhaseBuffer DEF Phases
<1> QED BY <1>1, <1>2, EnterFields DEF N!WriteTcr, N!Running

-----------------------------------------------------------------------------
(* A move of the Mac without a call: the disk rests, and most of the half  *)
(* of the invariant about it is as before.                                 *)

\* The driver itself.
LEMMA DriverRests ==
  ASSUME OfDisk, hd' = hd, ncr.call = "none", ncr'.call = "none"
  PROVE  Driver' /\ Writing'
<1>1. /\ flash' = flash /\ secdat' = secdat /\ job' = job /\ pc' = pc /\ out' = out
  BY DEF hd
<1>2. F!Disk' = F!Disk BY <1>1 DEF F!Disk, F!InBlock, F!Block, F!Lba
<1>3. F!TypeOK' = F!TypeOK /\ F!BufferHoldsBlock' = F!BufferHoldsBlock
  BY <1>1 DEF F!TypeOK, F!BufferHoldsBlock
<1> QED BY <1>1, <1>2, <1>3 DEF OfDisk, Driver, Writing

\* The data buffer is as it was, and so is the driver.
LEMMA CellsKept ==
  ASSUME OfDisk, hd' = hd, \A i : Buffer(i)' = Buffer(i), ncr.call = "none", ncr'.call = "none"
  PROVE  DataCells' /\ Driver' /\ Writing'
<1>1. DataCells' BY DEF OfDisk, DataCells
<1> QED BY <1>1, DriverRests

\* Nor does anything else that speaks of the disk or the buffer change.
LEMMA DiskRests ==
  ASSUME OfDisk, hd' = hd, \A i : Buffer(i)' = Buffer(i), ncr.call = "none", ncr'.call = "none",
         DataKept
  PROVE  /\ DataCells' /\ Driver' /\ Writing' /\ ReadsTheDisk' /\ WriteDone'
         /\ \A n : Buffered(n)' = Buffered(n)
         /\ OnDisk' = OnDisk /\ Answers' = Answers /\ Wants' = Wants /\ Sent' = Sent
<1>1. /\ flash' = flash /\ secdat' = secdat /\ job' = job /\ pc' = pc /\ out' = out
  BY DEF hd
<1>2. \A i : Buffer(i)' = Buffer(i)
  OBVIOUS
<1>3. DataCells' /\ Driver' /\ Writing' BY <1>2, CellsKept
<1>4. mac'.cdb = mac.cdb /\ mac'.got = mac.got /\ mac'.sent = mac.sent /\ mac'.status = mac.status
  BY DEF DataKept
<1>5. \A i : Expected(i)' = Expected(i) BY <1>1, <1>4 DEF Expected
<1>6. ReadsTheDisk' BY <1>4, <1>5 DEF OfDisk, ReadsTheDisk
<1>7. WriteDone' BY <1>1, <1>4 DEF OfDisk, WriteDone
<1>8. \A n : Buffered(n)' = Buffered(n) BY <1>2, <1>4 DEF Buffered
<1>9. OnDisk' = OnDisk BY <1>1, <1>4 DEF OnDisk
<1>10. Wants' = Wants /\ Sent' = Sent BY <1>4 DEF Wants, Sent
<1>11. Answers' = Answers BY <1>2, <1>5, <1>10 DEF Answers
<1> QED BY <1>3, <1>6, <1>7, <1>8, <1>9, <1>10, <1>11

\* A common case: the buffers are not written at all.
LEMMA DiskKept ==
  ASSUME OfDisk, hd' = hd, ncr'.mem = ncr.mem, ncr.call = "none", ncr'.call = "none", DataKept
  PROVE  /\ DataCells' /\ Driver' /\ Writing' /\ ReadsTheDisk' /\ WriteDone'
         /\ \A n : Buffered(n)' = Buffered(n)
         /\ OnDisk' = OnDisk /\ Answers' = Answers /\ Wants' = Wants /\ Sent' = Sent
<1>1. \A i : Buffer(i)' = Buffer(i) BY DEF Buffer
<1> QED BY <1>1, DiskRests

\* Arbitration moves no register that matters but the mode and the state.
LEMMA ArbitrateKeeps ==
  ASSUME NInv, Way, OfDisk, Arbitrate
  PROVE  Way' /\ OfDisk'
<1> USE DEF Ats, Quiet, Talking, Choosing, CommandAts, InAts, OutAts, StatusAts, MsgAts, Resets
<1>1. CASE At("free", "own") /\ N!WriteData(Own, FALSE)
  <2>1. mac.at = "free" /\ mac'.at = "own" /\ MacKept /\ MacType' /\ hd' = hd
    BY <1>1, AtFields DEF Way
  <2>2. Own \in N!Units BY DEF N!Units
  <2>3. Kept1 /\ Kept2 /\ Kept3 /\ Kept4 /\ ncr.call = "none" BY <1>1, <2>2, DataFields
  <2>4. Way'
    BY <2>1, <2>3 DEF Way, Bus, PhaseRight, Ran, Pending, Calling, StatusRead, StatusOfCommand,
                      MacKept, DataKept, Kept1, Kept2, Kept3, Kept4, Command, N!Cdb
  <2>5. OfDisk'
    BY <2>1, <2>3, DiskKept DEF OfDisk, Sending, Written, Reading, MacKept, DataKept, Kept1, Kept2
  <2> QED BY <2>4, <2>5
<1>2. CASE At("own", "arb") /\ N!WriteMode({"ARB"})
  <2>1. mac.at = "own" /\ mac'.at = "arb" /\ MacKept /\ MacType' /\ hd' = hd
    BY <1>2, AtFields DEF Way
  <2>2. Kept1 /\ Kept2 /\ ncr'.selected = ncr.selected /\ ncr'.state = "ARB" /\ ncr.call = "none"
    BY <1>2, ModeFields
  <2>3. Way'
    BY <2>1, <2>2 DEF Way, Bus, PhaseRight, Ran, Pending, Calling, StatusRead, StatusOfCommand,
                      MacKept, DataKept, Kept1, Kept2, Command, N!Cdb
  <2>4. OfDisk'
    BY <2>1, <2>2, DiskKept DEF OfDisk, Sending, Written, Reading, MacKept, DataKept, Kept1, Kept2
  <2> QED BY <2>3, <2>4
<1>3. CASE At("arb", "won") /\ N!ReadIni
  <2>1. mac.at = "arb" /\ mac'.at = "won" /\ MacKept /\ MacType' /\ hd' = hd
    BY <1>3, AtFields DEF Way
  <2>2. Kept1 /\ Kept2 /\ Kept3 /\ ncr'.state \in {"ARB", "ARBDONE"} /\ ncr.call = "none"
    BY <1>3, <2>1, ReadIniFields DEF Way, Bus
  <2>3. Way'
    BY <2>1, <2>2 DEF Way, Bus, PhaseRight, Ran, Pending, Calling, StatusRead, StatusOfCommand,
                      MacKept, DataKept, Kept1, Kept2, Kept3, Command, N!Cdb
  <2>4. OfDisk'
    BY <2>1, <2>2, DiskKept DEF OfDisk, Sending, Written, Reading, MacKept, DataKept, Kept1, Kept2
  <2> QED BY <2>3, <2>4
<1> QED BY <1>1, <1>2, <1>3 DEF Arbitrate

\* Selection: the device chosen is the one asked, and no command runs.
LEMMA SelectKeeps ==
  ASSUME NInv, Way, OfDisk, Select
  PROVE  Way' /\ OfDisk'
<1> USE DEF Ats, Quiet, Talking, Choosing, CommandAts, InAts, OutAts, StatusAts, MsgAts, Resets
<1>1. ASSUME NEW id \in Ids, mac.at = "won", N!WriteData(id, FALSE), UNCHANGED hd,
             mac' = [mac EXCEPT !.at = "chosen", !.id = id]
      PROVE  Way' /\ OfDisk'
  <2>1. mac'.at = "chosen" /\ mac'.id = id /\ DataKept /\ mac'.runs = mac.runs /\ MacType'
    BY <1>1 DEF Way, MacType, DataKept
  <2>2. Kept1 /\ Kept2 /\ Kept3 /\ Kept4 /\ ncr'.dout = id /\ ncr.call = "none"
    BY <1>1, UnitTypes, DataFields
  <2>3. Way'
    BY <1>1, <2>1, <2>2 DEF Way, Bus, PhaseRight, Ran, Pending, Calling, StatusRead,
       StatusOfCommand, DataKept, Kept1, Kept2, Kept3, Kept4, Command, N!Cdb
  <2>4. OfDisk'
    BY <1>1, <2>1, <2>2, DiskKept DEF OfDisk, Sending, Written, Reading, DataKept, Kept1, Kept2
  <2> QED BY <2>3, <2>4
<1> USE DEF Way, Bus, PhaseRight, Ran, Pending, Calling, StatusRead, StatusOfCommand,
            MacKept, DataKept,
            OfDisk, Sending, Written, Reading, Kept1, Kept2, Command, N!Cdb
<1>2. CASE At("chosen", "raised") /\ N!WriteIni({"SEL", "BSY", "DBUS"})
  <2>1. mac.at = "chosen" /\ mac'.at = "raised" /\ MacKept /\ MacType' /\ hd' = hd
    BY <1>2, AtFields
  <2>2. {"SEL", "BSY", "DBUS"} \in SUBSET N!Lines BY DEF N!Lines
  <2>3. ncr.dout \in Ids /\ ncr.dout = mac.id /\ ncr.state \in {"ARB", "ARBDONE"}
    BY <2>1 DEF MacType
  <2>4. /\ N!Selected({"SEL", "BSY", "DBUS"}) = mac.id
        /\ N!StateAfter({"SEL", "BSY", "DBUS"}) = "SELECT"
    BY <2>3 DEF N!Selected, N!Selecting, N!StateAfter, N!Answered, N!Asked
  <2>5. ~N!Out({"SEL", "BSY", "DBUS"}) /\ ~N!In({"SEL", "BSY", "DBUS"})
    BY <2>4 DEF N!Out, N!In
  <2>6. /\ Kept1 /\ Kept2 /\ ncr.call = "none" /\ ncr'.state = "SELECT" /\ ncr'.selected = mac.id
    BY <1>2, <2>2, <2>4, <2>5, IniFields
  <2> QED BY <2>1, <2>6, DiskKept
<1>3. CASE At("raised", "unarmed") /\ N!WriteMode({})
  <2>1. mac.at = "raised" /\ mac'.at = "unarmed" /\ MacKept /\ MacType' /\ hd' = hd
    BY <1>3, AtFields
  <2>2. /\ Kept1 /\ Kept2 /\ ncr'.selected = ncr.selected /\ ncr'.state = "SELECT"
        /\ ncr'.mode = {} /\ ncr.call = "none"
    BY <1>3, <2>1, ModeFields
  <2> QED BY <2>1, <2>2, DiskKept
<1>4. CASE At("unarmed", "asking") /\ N!WriteIni({"SEL", "DBUS"})
  <2>1. mac.at = "unarmed" /\ mac'.at = "asking" /\ MacKept /\ MacType' /\ hd' = hd
    BY <1>4, AtFields
  <2>2. {"SEL", "DBUS"} \in SUBSET N!Lines BY DEF N!Lines
  <2>3. N!Selected({"SEL", "DBUS"}) = ncr.selected /\ N!StateAfter({"SEL", "DBUS"}) = "SELDONE"
    BY <2>1 DEF N!Selected, N!Selecting, N!StateAfter, N!Answered, N!Asked
  <2>4. ~N!Out({"SEL", "DBUS"}) /\ ~N!In({"SEL", "DBUS"})
    BY <2>3 DEF N!Out, N!In
  <2>5. /\ Kept1 /\ Kept2 /\ ncr.call = "none" /\ ncr'.state = "SELDONE"
        /\ ncr'.selected = ncr.selected /\ ncr'.inicmd = {"SEL", "DBUS"} /\ ncr'.mode = ncr.mode
    BY <1>4, <2>2, <2>3, <2>4, IniFields
  <2> QED BY <2>1, <2>5, DiskKept
<1>5. CASE N!TargetBusy /\ At("asking", "selected") /\ N!WriteIni({})
  <2>1. mac.at = "asking" /\ mac'.at = "selected" /\ MacKept /\ MacType' /\ hd' = hd
    BY <1>5, AtFields
  <2>2. ncr.state = "SELDONE" /\ ncr.inicmd = {"SEL", "DBUS"} /\ ncr.selected = HdId
    BY <1>5, <2>1 DEF N!TargetBusy, Devices
  <2>3. N!Selected({}) = ncr.selected /\ N!StateAfter({}) = "DATA"
    BY <2>2 DEF N!Selected, N!Selecting, N!StateAfter, N!Answered, N!Asked, Devices
  <2>4. /\ Kept1 /\ Kept2 /\ ncr.call = "none" /\ ncr'.inicmd = {} /\ ncr'.mode = ncr.mode
    BY <1>5, <2>2, Lowered
  <2>5. ncr'.state = "DATA" /\ ncr'.selected = ncr.selected BY <1>5, <2>3, IniFields
  <2> QED BY <2>1, <2>2, <2>4, <2>5, DiskKept
<1>6. CASE ~N!TargetBusy /\ At("asking", "free") /\ N!WriteIni({})
  <2>1. mac.at = "asking" /\ mac'.at = "free" /\ MacKept /\ MacType' /\ hd' = hd
    BY <1>6, AtFields
  <2>2. Kept1 /\ Kept2 /\ ncr.call = "none" BY <1>6, <2>1, Lowered
  <2> QED BY <2>1, <2>2, DiskKept
<1> QED BY <1>1, <1>2, <1>3, <1>4, <1>5, <1>6 DEF Select

\* What a unit stored in one buffer leaves in the other.
LEMMA StoredCdb ==
  ASSUME NInv, ncr.buf = "cmd", ncr.bufpos = 0, NEW val, ncr'.mem = N!Stored(val)
  PROVE  Command' = val /\ \A i : Buffer(i)' = Buffer(i)
<1>1. 0 \in Nat /\ "cmd" \in N!Buffers /\ 0 < Sizes["cmd"] BY DEF N!Buffers, Sizes
<1>2. <<"cmd", 0>> \in N!Places BY <1>1, PlaceType
<1>3. ncr.mem \in [N!Places -> N!Units] BY DEF NInv, N!TypeOK, N!NcrState, N!Contents
<1>4. ncr'.mem = [ncr.mem EXCEPT ![<<"cmd", 0>>] = val] BY DEF N!Stored
<1>5. Command' = val BY <1>2, <1>3, <1>4 DEF Command, N!Cdb
<1>6. \A i : <<"data", i - 1>> # <<"cmd", 0>>
  OBVIOUS
<1>7. \A i : ncr'.mem[<<"data", i - 1>>] = ncr.mem[<<"data", i - 1>>] BY <1>3, <1>4, <1>6
<1> QED BY <1>5, <1>7 DEF Buffer

\* The descriptor arrives in the command buffer, and is the command to run.
LEMMA SendCdbKeeps ==
  ASSUME NInv, Way, OfDisk, SendCdb, ncr'.call = "none"
  PROVE  Way' /\ OfDisk'
<1> USE DEF Ats, Quiet, Talking, Choosing, CommandAts, InAts, OutAts, StatusAts, MsgAts, Resets
<1>1. ASSUME NEW c \in Cdbs, mac.at = "command", N!WriteData(c, FALSE), UNCHANGED hd,
             mac' = [mac EXCEPT !.at = "cmdAck", !.cdb = c, !.sent = <<>>, !.runs = 0]
      PROVE  Way' /\ OfDisk'
  <2>1. <<>> \in Seq(Sectors) /\ c \in AllCdbs BY DEF AllCdbs
  <2>2. /\ mac'.at = "cmdAck" /\ mac'.id = mac.id /\ mac'.cdb = c /\ mac'.got = mac.got
        /\ mac'.sent = <<>> /\ mac'.runs = 0 /\ mac'.status = mac.status /\ MacType'
    BY <1>1, <2>1 DEF Way, MacType
  <2>3. /\ Kept1 /\ Kept2 /\ Kept3 /\ Kept4 /\ ncr'.dout = c /\ ncr.call = "none"
    <3>1. c \in N!Units BY DEF N!Units, AllCdbs
    <3> QED BY <1>1, <3>1, DataFields
  <2>4. mac'.got = <<>> /\ mac'.status = "none"
    BY <1>1, <2>2 DEF Way, StatusRead, OfDisk, Reading
  <2>5. Way'
    BY <1>1, <2>1, <2>2, <2>3, <2>4 DEF Way, Bus, PhaseRight, Ran, Pending, Calling, StatusRead,
       StatusOfCommand, Kept1, Kept2, Kept3, Kept4, Command, N!Cdb
  <2>6. DataCells' /\ Driver' /\ Writing'
    <3>1. \A i : Buffer(i)' = Buffer(i) BY <2>3 DEF Buffer, Kept2
    <3>2. ncr'.call = "none" BY <2>3 DEF Kept1
    <3> QED BY <1>1, <2>3, <3>1, <3>2, CellsKept
  <2>7. ReadsTheDisk' /\ WriteDone' BY <2>4 DEF ReadsTheDisk, WriteDone
  <2> QED BY <2>2, <2>4, <2>5, <2>6, <2>7 DEF OfDisk, Sending, Written, Reading
<1> USE DEF Way, Bus, PhaseRight, Ran, Pending, Calling, StatusRead, StatusOfCommand, MacKept,
            DataKept, OfDisk, Sending, Written, Reading, Kept1, Kept2, Command, N!Cdb
<1>2. CASE Change("selected", "command", {"CD"})
  <2>1. /\ mac.at = "selected" /\ N!WriteTcr({"CD"}) /\ mac' = [mac EXCEPT !.at = "command"]
        /\ hd' = hd
    BY <1>2, CallFields DEF Change, BeginCommand
  <2>2. mac'.at = "command" /\ MacKept /\ MacType' BY <2>1, Moved
  <2>3. ncr.call = "none" BY <2>1 DEF N!WriteTcr, N!Running
  <2>4. {"CD"} \in Phases /\ ncr.tcr # {"CD"} BY <2>1, <2>3 DEF Phases, Msg
  <2>5. /\ Kept3 /\ Kept4 /\ ncr'.tcr = {"CD"} /\ ncr'.buf = "cmd" /\ ncr'.mem = ncr.mem
        /\ ncr'.bufpos = 0 /\ ncr'.call = "none"
    BY <2>1, <2>4, TcrFields, PhaseBuffer
  <2> QED BY <2>1, <2>2, <2>3, <2>5, DiskKept DEF Kept3, Kept4
<1>3. CASE At("cmdAck", "cmdRel") /\ N!WriteIni({"ACK", "DBUS"})
  <2>1. mac.at = "cmdAck" /\ mac'.at = "cmdRel" /\ MacKept /\ MacType' /\ hd' = hd
    BY <1>3, AtFields
  <2>2. ncr.call = "none" BY <1>3 DEF N!WriteIni, N!Running
  <2>3. ncr.buf = "cmd" /\ ncr.bufpos = 0 /\ ncr.tcr = {"CD"} /\ ncr.dout = mac.cdb
    BY <2>1, <2>2
  <2>4. N!Room BY <2>3 DEF N!Room, N!BufMax, Sizes
  <2>5. {"ACK", "DBUS"} \in SUBSET N!Lines BY DEF N!Lines
  <2>6. /\ Kept1 /\ ncr'.mode = ncr.mode /\ ncr'.inicmd = {"ACK", "DBUS"}
        /\ ncr'.selected = ncr.selected /\ ncr'.state = "DATA" /\ ncr'.mem = N!Stored(mac.cdb)
    BY <1>3, <2>1, <2>3, <2>4, <2>5, Talked
  <2>7. Command' = mac.cdb /\ \A i : Buffer(i)' = Buffer(i) BY <2>3, <2>6, StoredCdb
  <2>8. mac.cdb \in AllCdbs BY DEF MacType
  <2>9. Way' BY <2>1, <2>2, <2>3, <2>6, <2>7, <2>8
  <2>10. OfDisk' BY <2>1, <2>2, <2>6, <2>7, DiskRests
  <2> QED BY <2>9, <2>10
<1>4. CASE At("cmdRel", "sent") /\ N!WriteIni({})
  <2>1. mac.at = "cmdRel" /\ mac'.at = "sent" /\ MacKept /\ MacType' /\ hd' = hd
    BY <1>4, AtFields
  <2>2. ncr.call = "none" BY <1>4 DEF N!WriteIni, N!Running
  <2>3. /\ Kept1 /\ Kept2 /\ ncr'.mode = ncr.mode /\ ncr'.inicmd = {}
        /\ ncr'.selected = ncr.selected /\ ncr'.state = "DATA"
    BY <1>4, <2>1, <2>2, Talked
  <2> QED BY <2>1, <2>2, <2>3, DiskKept
<1> QED BY <1>1, <1>2, <1>3, <1>4 DEF SendCdb

\* The fields of a descriptor.
LEMMA CdbType ==
  ASSUME NEW c \in AllCdbs
  PROVE  c.op \in Ops /\ c.lba \in 0 .. Size /\ c.len \in 0 .. MaxLen
<1>1. Zero.op \in Ops /\ Zero.lba \in 0 .. Size /\ Zero.len \in 0 .. MaxLen
  BY ScsiAssumption DEF Zero, Ops, F!SizeAssumption
<1>2. CASE c \in Cdbs BY <1>2, ScsiAssumption
<1> QED BY <1>1, <1>2 DEF AllCdbs

\* The unit the Mac reads is the one it expects.
LEMMA ReadKeeps ==
  ASSUME NInv, Way, OfDisk, mac.at = "in", Len(mac.got) < Wants, N!ReadData(TRUE), UNCHANGED hd,
         mac' = [mac EXCEPT !.got = Append(@, ncr'.din)]
  PROVE  Way' /\ OfDisk'
<1> USE DEF Ats, Quiet, Talking, Choosing, CommandAts, InAts, OutAts, StatusAts, MsgAts, Resets
<1> DEFINE got == Append(mac.got, ncr'.din)
<1>1. ncr.call = "none" BY DEF N!ReadData, N!Running
<1>2. /\ ncr.bufpos = Len(mac.got) /\ Answers /\ ncr.tcr = {"IO"} /\ ncr.buf = "data"
      /\ "DMA" \in ncr.mode /\ mac.cdb.op \in ReadOps
  BY <1>1 DEF OfDisk, Reading, Way, PhaseRight, Bus
<1>3. mac.got \in Seq(N!Units) /\ mac.cdb \in AllCdbs BY DEF Way, MacType
<1>4. Wants \in Nat /\ Wants <= MaxLen /\ MaxLen \in Nat /\ Len(mac.got) \in Nat
  BY <1>3, CdbType, ScsiAssumption DEF Wants, F!SizeAssumption
<1>5. N!Room BY <1>2, <1>4 DEF N!Room, N!BufMax, Sizes
<1>6. /\ Kept1 /\ Kept3 /\ Kept4 /\ ncr'.mem = ncr.mem /\ ncr'.din = N!Here
      /\ ncr'.bufpos = ncr.bufpos + 1
  BY <1>2, <1>5, ReadFields
<1>7. ncr'.din \in N!Units BY <1>5, <1>6, HereType
<1>8. /\ got \in Seq(N!Units) /\ Len(got) = Len(mac.got) + 1
      /\ \A i \in 1 .. Len(mac.got) : got[i] = mac.got[i]
      /\ got[Len(mac.got) + 1] = ncr'.din
  BY <1>3, <1>7
<1>9. /\ mac'.at = "in" /\ mac'.id = mac.id /\ mac'.cdb = mac.cdb /\ mac'.got = got
      /\ mac'.sent = mac.sent /\ mac'.runs = mac.runs /\ mac'.status = mac.status /\ MacType'
  BY <1>3, <1>8 DEF Way, MacType
<1> HIDE DEF got
<1>10. Way'
  <2>1. Command' = Command BY <1>6 DEF Command, N!Cdb
  <2>2. Bus' /\ PhaseRight' BY <1>1, <1>6, <1>9 DEF Way, Bus, PhaseRight, Kept1, Kept3, Kept4
  <2>3. Ran' /\ Pending' BY <1>1, <1>2, <1>6, <1>9, <2>1 DEF Way, Ran, Pending, PhaseRight, Kept1
  <2>4. Calling' /\ StatusRead' /\ StatusOfCommand'
    BY <1>1, <1>6, <1>9 DEF Way, Calling, StatusRead, StatusOfCommand, Kept1
  <2> QED BY <1>9, <2>2, <2>3, <2>4 DEF Way
<1>11. /\ flash' = flash /\ ncr'.call = "none" BY <1>1, <1>6 DEF hd, Kept1
<1>12. \A i : Buffer(i)' = Buffer(i) BY <1>6 DEF Buffer
<1>13. DataCells' /\ Driver' /\ Writing' BY <1>1, <1>11, <1>12, CellsKept
<1>14. \A i : Expected(i)' = Expected(i) BY <1>9, <1>11 DEF Expected
<1>15. Wants' = Wants BY <1>9 DEF Wants
<1>16. Answers' BY <1>2, <1>12, <1>14, <1>15 DEF Answers
<1>17. ReadsTheDisk'
  <2>1. \A i \in 1 .. Len(mac.got) : mac.got[i] = Expected(i)
    BY <1>3 DEF OfDisk, ReadsTheDisk
  <2>2. Len(mac.got) + 1 \in 1 .. Wants BY <1>4
  <2>3. Buffer(Len(mac.got) + 1) = N!Here BY <1>2, <1>4 DEF Buffer, N!Here
  <2>4. ncr'.din = Expected(Len(mac.got) + 1) BY <1>2, <1>6, <2>2, <2>3 DEF Answers
  <2>5. \A i \in 1 .. Len(mac.got) + 1 : got[i] = Expected(i) BY <1>4, <1>8, <2>1, <2>4
  <2>6. DOMAIN mac'.got = 1 .. Len(mac.got) + 1 BY <1>8, <1>9
  <2> QED BY <1>9, <1>14, <2>5, <2>6 DEF ReadsTheDisk
<1>18. WriteDone' BY <1>9, <1>11 DEF OfDisk, WriteDone
<1>19. Reading' BY <1>2, <1>4, <1>6, <1>8, <1>9, <1>15, <1>16 DEF Reading
<1>20. Sending' /\ Written'
  BY <1>9, <1>2, <1>1, <1>4 DEF Sending, Written, OfDisk, Way, PhaseRight, Sent
<1> QED BY <1>10, <1>13, <1>17, <1>18, <1>19, <1>20 DEF OfDisk

\* Data in: what is read next is always what comes next.
LEMMA DataInKeeps ==
  ASSUME NInv, Way, OfDisk, DataIn, ncr'.call = "none"
  PROVE  Way' /\ OfDisk'
<1>1. CASE /\ mac.at = "in" /\ Len(mac.got) < Wants /\ N!ReadData(TRUE) /\ UNCHANGED hd
           /\ mac' = [mac EXCEPT !.got = Append(@, ncr'.din)]
  BY <1>1, ReadKeeps
<1> USE DEF Ats, Quiet, Talking, Choosing, CommandAts, InAts, OutAts, StatusAts, MsgAts, Resets,
            Way, Bus, PhaseRight, Ran, Pending, Calling, StatusRead, StatusOfCommand, MacKept,
            DataKept, OfDisk, Sending, Written, Reading, Kept1, Kept2
<1>2. CASE mac.cdb.op \in ReadOps /\ Change("sent", "inStart", {"IO"})
  <2>1. mac.at = "sent" /\ N!WriteTcr({"IO"}) BY <1>2, CallFields DEF Change, BeginCommand
  <2>2. ncr.tcr = {"CD"} /\ Command = mac.cdb /\ ncr.selected = HdId
    BY <2>1 DEF N!WriteTcr, N!Running
  <2>3. {"IO"} \in Phases /\ {"CD"} \in Phases BY DEF Phases
  <2>4. N!Calls({"IO"}) BY <1>2, <2>2, <2>3, PhaseCalls DEF Runs, ReadOps
  <2> QED BY <2>1, <2>4 DEF N!WriteTcr
<1> USE DEF Command, N!Cdb
<1>3. CASE At("inStart", "in") /\ N!WriteMode({"DMA"})
  <2>1. mac.at = "inStart" /\ mac'.at = "in" /\ MacKept /\ MacType' /\ hd' = hd
    BY <1>3, AtFields
  <2>2. /\ Kept1 /\ Kept2 /\ ncr'.selected = ncr.selected /\ ncr'.state = "DATA"
        /\ ncr'.mode = {"DMA"} /\ ncr'.inicmd = ncr.inicmd /\ ncr.call = "none"
    BY <1>3, <2>1, ModeFields
  <2>3. Way' BY <2>1, <2>2
  <2>4. OfDisk' BY <2>1, <2>2, DiskKept
  <2> QED BY <2>3, <2>4
<1>4. CASE At("in", "dataDone") /\ N!WriteMode({})
  <2>1. mac.at = "in" /\ mac'.at = "dataDone" /\ MacKept /\ MacType' /\ hd' = hd
    BY <1>4, AtFields
  <2>2. /\ Kept1 /\ Kept2 /\ ncr'.selected = ncr.selected /\ ncr'.state = "DATA"
        /\ ncr'.mode = {} /\ ncr'.inicmd = ncr.inicmd /\ ncr.call = "none"
    BY <1>4, <2>1, ModeFields
  <2>3. Way' BY <2>1, <2>2 DEF ReadOps
  <2>4. OfDisk' BY <2>1, <2>2, DiskKept DEF ReadOps
  <2> QED BY <2>3, <2>4
<1> QED BY <1>1, <1>2, <1>3, <1>4 DEF DataIn, ReadOps

\* A unit stored in the data buffer leaves the rest of it and the command.
LEMMA StoredData ==
  ASSUME NInv, ncr.buf = "data", ncr.bufpos < MaxLen, NEW val, ncr'.mem = N!Stored(val)
  PROVE  /\ Command' = Command
         /\ \A i \in Int : Buffer(i)' = IF i = ncr.bufpos + 1 THEN val ELSE Buffer(i)
<1>1. ncr.bufpos \in Nat /\ ncr.mem \in [N!Places -> N!Units]
  BY DEF NInv, N!TypeOK, N!NcrState, N!Contents
<1> DEFINE n == ncr.bufpos
           here == <<"data", n>>
<1>2. here \in N!Places BY <1>1, PlaceType DEF N!Buffers, Sizes
<1>3. ncr'.mem = [ncr.mem EXCEPT ![here] = val] BY DEF N!Stored
<1>4. ncr'.mem[here] = val /\ \A p : p # here => ncr'.mem[p] = ncr.mem[p]
  BY <1>1, <1>2, <1>3
<1>5. Command' = Command BY <1>4 DEF Command, N!Cdb
<1>6. ASSUME NEW i \in Int
      PROVE  Buffer(i)' = IF i = ncr.bufpos + 1 THEN val ELSE Buffer(i)
  <2>1. <<"data", i - 1>> = here <=> i = ncr.bufpos + 1 BY <1>1
  <2> QED BY <1>4, <2>1 DEF Buffer
<1> QED BY <1>5, <1>6

\* The unit the Mac sends is in the buffer before the next one.
LEMMA SentKeeps ==
  ASSUME NInv, Way, OfDisk, mac.at = "outDma", NEW s \in Sectors, Len(mac.sent) < mac.cdb.len,
         N!WriteData(s, TRUE), UNCHANGED hd, mac' = [mac EXCEPT !.sent = Append(@, s)]
  PROVE  Way' /\ OfDisk'
<1> USE DEF Ats, Quiet, Talking, Choosing, CommandAts, InAts, OutAts, StatusAts, MsgAts, Resets
<1> DEFINE sent == Append(mac.sent, s)
<1>1. ncr.call = "none" BY DEF N!WriteData, N!Running
<1>2. /\ ncr.bufpos = Len(mac.sent) /\ Buffered(ncr.bufpos) /\ ncr.tcr = {} /\ ncr.buf = "data"
      /\ "DMA" \in ncr.mode /\ mac.cdb.op = "write" /\ mac.got = <<>> /\ mac.status = "none"
  BY <1>1 DEF OfDisk, Sending, Sent, Way, PhaseRight, Bus, Reading, StatusRead, ReadOps
<1>3. mac.sent \in Seq(Sectors) /\ mac.cdb \in AllCdbs BY DEF Way, MacType
<1>4. mac.cdb.len \in Nat /\ mac.cdb.len <= MaxLen /\ MaxLen \in Nat /\ Len(mac.sent) \in Nat
  BY <1>3, CdbType, ScsiAssumption DEF F!SizeAssumption
<1>5. s \in N!Units BY DEF N!Units, Contents
<1>6. /\ Kept1 /\ Kept3 /\ Kept4 /\ ncr'.mem = N!Stored(s) /\ ncr'.bufpos = ncr.bufpos + 1
  BY <1>2, <1>5, StoreFields
<1>7. ncr.bufpos < MaxLen BY <1>2, <1>4
<1>8. Command' = Command /\ \A i \in Int : Buffer(i)' = IF i = ncr.bufpos + 1 THEN s ELSE Buffer(i)
  BY <1>2, <1>6, <1>7, StoredData
<1>9. /\ sent \in Seq(Sectors) /\ Len(sent) = Len(mac.sent) + 1
      /\ \A i \in 1 .. Len(mac.sent) : sent[i] = mac.sent[i]
      /\ sent[Len(mac.sent) + 1] = s
  BY <1>3
<1>10. /\ mac'.at = "outDma" /\ mac'.id = mac.id /\ mac'.cdb = mac.cdb /\ mac'.got = mac.got
       /\ mac'.sent = sent /\ mac'.runs = mac.runs /\ mac'.status = mac.status /\ MacType'
  BY <1>9 DEF Way, MacType
<1> HIDE DEF sent
<1>11. Way'
  BY <1>1, <1>2, <1>6, <1>8, <1>10 DEF Way, Bus, PhaseRight, Ran, Pending, Calling, StatusRead,
     StatusOfCommand, Kept1, Kept3, Kept4
<1>12. ncr'.call = "none" BY <1>1, <1>6 DEF Kept1
<1>13. Driver' /\ Writing' BY <1>1, <1>12, DriverRests
<1>14. DataCells' BY <1>8, ScsiAssumption DEF OfDisk, DataCells, Contents, F!SizeAssumption
<1>15. Sending'
  <2>1. \A i \in 1 .. Len(mac.sent) + 1 : Buffer(i)' = sent[i]
    BY <1>2, <1>4, <1>8, <1>9 DEF Buffered
  <2>2. ncr'.bufpos = Len(mac.sent) + 1 BY <1>2, <1>6
  <2>3. Buffered(ncr.bufpos)' BY <1>10, <2>1, <2>2 DEF Buffered
  <2> QED BY <1>4, <1>9, <1>10, <2>2, <2>3 DEF Sending, Sent
<1>16. Written' /\ Reading' /\ ReadsTheDisk' /\ WriteDone'
  BY <1>2, <1>10 DEF Written, Reading, ReadsTheDisk, WriteDone
<1> QED BY <1>11, <1>13, <1>14, <1>15, <1>16 DEF OfDisk

\* By handshake it is in the data register first.
LEMMA OfferedKeeps ==
  ASSUME NInv, Way, OfDisk, mac.at = "out", NEW s \in Sectors, Len(mac.sent) < mac.cdb.len,
         N!WriteData(s, FALSE), UNCHANGED hd,
         mac' = [mac EXCEPT !.at = "outAck", !.sent = Append(@, s)]
  PROVE  Way' /\ OfDisk'
<1> USE DEF Ats, Quiet, Talking, Choosing, CommandAts, InAts, OutAts, StatusAts, MsgAts, Resets
<1> DEFINE sent == Append(mac.sent, s)
<1>1. ncr.call = "none" BY DEF N!WriteData, N!Running
<1>2. /\ ncr.bufpos = Len(mac.sent) /\ Buffered(ncr.bufpos) /\ ncr.tcr = {} /\ ncr.buf = "data"
      /\ mac.cdb.op = "write" /\ mac.got = <<>> /\ mac.status = "none"
  BY <1>1 DEF OfDisk, Sending, Sent, Way, PhaseRight, Reading, StatusRead, ReadOps
<1>3. mac.sent \in Seq(Sectors) /\ mac.cdb \in AllCdbs BY DEF Way, MacType
<1>4. mac.cdb.len \in Nat /\ Len(mac.sent) \in Nat
  BY <1>3, CdbType, ScsiAssumption DEF F!SizeAssumption
<1>5. s \in N!Units BY DEF N!Units, Contents
<1>6. Kept1 /\ Kept2 /\ Kept3 /\ Kept4 /\ ncr'.dout = s BY <1>5, DataFields
<1>7. /\ sent \in Seq(Sectors) /\ Len(sent) = Len(mac.sent) + 1
      /\ \A i \in 1 .. Len(mac.sent) : sent[i] = mac.sent[i]
      /\ sent[Len(mac.sent) + 1] = s
  BY <1>3
<1>8. /\ mac'.at = "outAck" /\ mac'.id = mac.id /\ mac'.cdb = mac.cdb /\ mac'.got = mac.got
      /\ mac'.sent = sent /\ mac'.runs = mac.runs /\ mac'.status = mac.status /\ MacType'
  BY <1>7 DEF Way, MacType
<1> HIDE DEF sent
<1>9. Way'
  BY <1>1, <1>2, <1>6, <1>8 DEF Way, Bus, PhaseRight, Ran, Pending, Calling, StatusRead,
     StatusOfCommand, Kept1, Kept2, Kept3, Kept4, Command, N!Cdb
<1>10. ncr'.call = "none" /\ \A i : Buffer(i)' = Buffer(i) BY <1>1, <1>6 DEF Kept1, Kept2, Buffer
<1>11. DataCells' /\ Driver' /\ Writing' BY <1>1, <1>10, CellsKept
<1>12. Sending'
  <2>1. \A i \in 1 .. Len(mac.sent) : Buffer(i)' = sent[i] BY <1>2, <1>7, <1>10 DEF Buffered
  <2>2. ncr'.bufpos = Len(mac.sent) BY <1>2, <1>6 DEF Kept2
  <2>3. Buffered(ncr.bufpos)' BY <1>8, <2>1, <2>2 DEF Buffered
  <2> QED BY <1>4, <1>6, <1>7, <1>8, <2>2, <2>3 DEF Sending, Sent
<1>13. Written' /\ Reading' /\ ReadsTheDisk' /\ WriteDone'
  BY <1>2, <1>8 DEF Written, Reading, ReadsTheDisk, WriteDone
<1> QED BY <1>9, <1>11, <1>12, <1>13 DEF OfDisk

\* ACK moves it to the buffer.
LEMMA AckedKeeps ==
  ASSUME NInv, Way, OfDisk, At("outAck", "outRel"), N!WriteIni({"ACK", "DBUS"})
  PROVE  Way' /\ OfDisk'
<1> USE DEF Ats, Quiet, Talking, Choosing, CommandAts, InAts, OutAts, StatusAts, MsgAts, Resets
<1>1. mac.at = "outAck" /\ mac'.at = "outRel" /\ MacKept /\ MacType' /\ hd' = hd
  BY AtFields DEF Way
<1>2. ncr.call = "none" BY DEF N!WriteIni, N!Running
<1>3. /\ ncr.bufpos = Len(mac.sent) - 1 /\ Buffered(ncr.bufpos) /\ ncr.tcr = {}
      /\ ncr.buf = "data" /\ mac.cdb.op = "write" /\ mac.got = <<>> /\ mac.status = "none"
      /\ Len(mac.sent) <= mac.cdb.len /\ Len(mac.sent) > 0 /\ ncr.dout = mac.sent[Len(mac.sent)]
      /\ ncr.state = "DATA" /\ "ACK" \notin ncr.inicmd
  BY <1>1, <1>2 DEF OfDisk, Sending, Sent, Way, PhaseRight, Bus, Reading, StatusRead, ReadOps
<1>4. mac.sent \in Seq(Sectors) /\ mac.cdb \in AllCdbs BY DEF Way, MacType
<1>5. /\ mac.cdb.len \in Nat /\ mac.cdb.len <= MaxLen /\ MaxLen \in Nat /\ Len(mac.sent) \in Nat
      /\ ncr.dout \in Sectors
  BY <1>3, <1>4, CdbType, ScsiAssumption DEF F!SizeAssumption
<1>6. ncr.bufpos < MaxLen /\ N!Room BY <1>3, <1>5 DEF N!Room, N!BufMax, Sizes
<1>7. {"ACK", "DBUS"} \in SUBSET N!Lines BY DEF N!Lines
<1>8. /\ Kept1 /\ ncr'.mode = ncr.mode /\ ncr'.inicmd = {"ACK", "DBUS"}
      /\ ncr'.selected = ncr.selected /\ ncr'.state = "DATA" /\ ncr'.mem = N!Stored(ncr.dout)
      /\ ncr'.bufpos = ncr.bufpos + 1
  BY <1>3, <1>6, <1>7, Talked
<1>9. /\ Command' = Command
      /\ \A i \in Int : Buffer(i)' = IF i = ncr.bufpos + 1 THEN ncr.dout ELSE Buffer(i)
  BY <1>3, <1>6, <1>8, StoredData
<1>10. Way'
  BY <1>1, <1>2, <1>3, <1>8, <1>9 DEF Way, Bus, PhaseRight, Ran, Pending, Calling, StatusRead,
     StatusOfCommand, MacKept, DataKept, Kept1
<1>11. ncr'.call = "none" BY <1>2, <1>8 DEF Kept1
<1>12. Driver' /\ Writing' BY <1>1, <1>2, <1>11, DriverRests
<1>13. DataCells' BY <1>5, <1>9, ScsiAssumption DEF OfDisk, DataCells, Contents, F!SizeAssumption
<1>14. Sending'
  <2>1. \A i \in 1 .. Len(mac.sent) : Buffer(i)' = mac.sent[i] BY <1>3, <1>5, <1>9 DEF Buffered
  <2>2. ncr'.bufpos = Len(mac.sent) BY <1>3, <1>5, <1>8
  <2>3. Buffered(ncr.bufpos)' BY <1>1, <2>1, <2>2 DEF Buffered, MacKept, DataKept
  <2> QED BY <1>1, <1>3, <2>2, <2>3 DEF Sending, Sent, MacKept, DataKept
<1>15. Written' /\ Reading' /\ ReadsTheDisk' /\ WriteDone'
  BY <1>1, <1>3 DEF Written, Reading, ReadsTheDisk, WriteDone, MacKept, DataKept
<1> QED BY <1>10, <1>12, <1>13, <1>14, <1>15 DEF OfDisk

\* Data out, by DMA or by handshake.
LEMMA DataOutKeeps ==
  ASSUME NInv, Way, OfDisk, DataOut, ncr'.call = "none"
  PROVE  Way' /\ OfDisk'
<1>1. CASE \E s \in Sectors, dma \in BOOLEAN :
             /\ mac.at = IF dma THEN "outDma" ELSE "out"
             /\ Len(mac.sent) < mac.cdb.len /\ N!WriteData(s, dma) /\ UNCHANGED hd
             /\ mac' = [mac EXCEPT !.at = IF dma THEN @ ELSE "outAck", !.sent = Append(@, s)]
  <2>1. PICK s \in Sectors, dma \in BOOLEAN :
             /\ mac.at = IF dma THEN "outDma" ELSE "out"
             /\ Len(mac.sent) < mac.cdb.len /\ N!WriteData(s, dma) /\ UNCHANGED hd
             /\ mac' = [mac EXCEPT !.at = IF dma THEN @ ELSE "outAck", !.sent = Append(@, s)]
    BY <1>1
  <2>2. CASE dma
    <3>1. mac' = [mac EXCEPT !.sent = Append(@, s)] BY <2>1, <2>2 DEF Way, MacType
    <3>2. mac.at = "outDma" /\ N!WriteData(s, TRUE) BY <2>1, <2>2
    <3> QED BY <2>1, <3>1, <3>2, SentKeeps
  <2>3. CASE ~dma
    <3>1. mac' = [mac EXCEPT !.at = "outAck", !.sent = Append(@, s)] BY <2>1, <2>3
    <3>2. mac.at = "out" /\ N!WriteData(s, FALSE) BY <2>1, <2>3
    <3> QED BY <2>1, <3>1, <3>2, OfferedKeeps
  <2> QED BY <2>2, <2>3
<1>2. CASE At("outAck", "outRel") /\ N!WriteIni({"ACK", "DBUS"})
  BY <1>2, AckedKeeps
<1> USE DEF Ats, Quiet, Talking, Choosing, CommandAts, InAts, OutAts, StatusAts, MsgAts, Resets,
            Way, Bus, PhaseRight, Ran, Pending, Calling, StatusRead, StatusOfCommand, MacKept,
            DataKept, OfDisk, Sending, Written, Reading, Kept1, Kept2
<1>3. CASE mac.cdb.op = "write" /\ Change("sent", "out", {})
  <2>1. mac.at = "sent" /\ N!WriteTcr({}) /\ mac' = [mac EXCEPT !.at = "out"] /\ hd' = hd
    BY <1>3, CallFields DEF Change, BeginCommand
  <2>2. mac'.at = "out" /\ MacKept /\ MacType' BY <2>1, Moved
  <2>3. ncr.call = "none" BY <2>1 DEF N!WriteTcr, N!Running
  <2>4. {} \in Phases /\ ncr.tcr # {} /\ mac.runs = 0 /\ mac.sent = <<>> /\ Command = mac.cdb
    BY <2>1, <2>3 DEF Phases
  <2>5. /\ Kept3 /\ Kept4 /\ ncr'.tcr = {} /\ ncr'.buf = "data" /\ ncr'.mem = ncr.mem
        /\ ncr'.bufpos = 0 /\ ncr'.call = "none"
    BY <2>1, <2>4, TcrFields, PhaseBuffer
  <2>6. Command' = Command BY <2>5 DEF Command, N!Cdb
  <2>7. Way' BY <1>3, <2>1, <2>2, <2>3, <2>4, <2>5, <2>6 DEF Kept3, Kept4
  <2>8. Sent = 0 /\ Buffered(0)' BY <2>4 DEF Sent, Buffered
  <2>9. mac.cdb.len >= 0
    <3>1. mac.cdb \in AllCdbs BY DEF MacType
    <3> QED BY <3>1, CdbType, ScsiAssumption DEF F!SizeAssumption
  <2>10. OfDisk' BY <2>1, <2>2, <2>3, <2>5, <2>8, <2>9, DiskKept DEF ReadOps
  <2> QED BY <2>7, <2>10
<1> USE DEF Command, N!Cdb
<1>4. CASE At("out", "outDma") /\ N!WriteMode({"DMA"})
  <2>1. mac.at = "out" /\ mac'.at = "outDma" /\ MacKept /\ MacType' /\ hd' = hd
    BY <1>4, AtFields
  <2>2. /\ Kept1 /\ Kept2 /\ ncr'.selected = ncr.selected /\ ncr'.state = "DATA"
        /\ ncr'.mode = {"DMA"} /\ ncr'.inicmd = ncr.inicmd /\ ncr.call = "none"
    BY <1>4, <2>1, ModeFields
  <2>3. Way' BY <2>1, <2>2
  <2>4. OfDisk' BY <2>1, <2>2, DiskKept
  <2> QED BY <2>3, <2>4
<1>5. CASE At("outRel", "out") /\ N!WriteIni({})
  <2>1. mac.at = "outRel" /\ mac'.at = "out" /\ MacKept /\ MacType' /\ hd' = hd
    BY <1>5, AtFields
  <2>2. ncr.call = "none" BY <1>5 DEF N!WriteIni, N!Running
  <2>3. /\ Kept1 /\ Kept2 /\ ncr'.mode = ncr.mode /\ ncr'.inicmd = {}
        /\ ncr'.selected = ncr.selected /\ ncr'.state = "DATA"
    BY <1>5, <2>1, <2>2, Talked
  <2>4. Way' BY <2>1, <2>2, <2>3
  <2>5. OfDisk' BY <2>1, <2>2, <2>3, DiskKept
  <2> QED BY <2>4, <2>5
<1>6. CASE mac.at \in {"out", "outDma"} /\ At(mac.at, "dataDone") /\ N!WriteMode({})
  <2>1. /\ mac.at \in {"out", "outDma"} /\ mac'.at = "dataDone" /\ MacKept /\ MacType'
        /\ hd' = hd
    BY <1>6, Moved DEF At
  <2>2. /\ Kept1 /\ Kept2 /\ ncr'.selected = ncr.selected /\ ncr'.state = "DATA"
        /\ ncr'.mode = {} /\ ncr'.inicmd = ncr.inicmd /\ ncr.call = "none"
    BY <1>6, <2>1, ModeFields
  <2>3. Way' BY <2>1, <2>2
  <2>4. OfDisk' BY <2>1, <2>2, DiskKept DEF ReadOps
  <2> QED BY <2>3, <2>4
<1> QED BY <1>1, <1>2, <1>3, <1>4, <1>5, <1>6 DEF DataOut

\* The end of a data phase that leaves nothing to run.
LEMMA UncalledKeeps ==
  ASSUME NInv, Way, OfDisk, Change("dataDone", "status", {"CD", "IO"}), ncr'.call = "none"
  PROVE  Way' /\ OfDisk'
<1> USE DEF Ats, Quiet, Talking, Choosing, CommandAts, InAts, OutAts, StatusAts, MsgAts, Resets,
            Way, Bus, PhaseRight, Ran, Pending, Calling, StatusRead, StatusOfCommand, MacKept,
            DataKept, OfDisk, Sending, Written, Reading
<1>1. /\ mac.at = "dataDone" /\ N!WriteTcr({"CD", "IO"}) /\ mac' = [mac EXCEPT !.at = "status"]
      /\ hd' = hd
  BY CallFields DEF Change, BeginCommand
<1>2. mac'.at = "status" /\ MacKept /\ MacType' BY <1>1, Moved
<1>3. ncr.call = "none" BY <1>1 DEF N!WriteTcr, N!Running
<1>4. /\ {"CD", "IO"} \in Phases /\ ncr.tcr \in Phases /\ ncr.tcr # {"CD", "IO"}
  BY <1>1, <1>3 DEF Phases
<1>5. /\ Kept3 /\ Kept4 /\ ncr'.tcr = {"CD", "IO"} /\ ncr'.buf = "cmd" /\ ncr'.mem = ncr.mem
      /\ ncr'.bufpos = 0 /\ ncr'.call = "none" /\ ncr'.din = ncr.mem[<<"cmd", 0>>]
  BY <1>1, <1>4, TcrFields, PhaseBuffer
<1>6. Command' = Command /\ ncr'.din = Command BY <1>5 DEF Command, N!Cdb
<1>7. Way' BY <1>1, <1>2, <1>3, <1>5, <1>6 DEF Kept3, Kept4
<1>8. mac.cdb.op = "write" => Sent = 0
  <2> SUFFICES ASSUME mac.cdb.op = "write" PROVE Sent = 0
    OBVIOUS
  <2>1. ncr.tcr = {} /\ Command = mac.cdb /\ ncr.selected = HdId /\ ncr.bufpos = Sent
    BY <1>1, <1>3
  <2>2. ~Runs({"CD", "IO"}) BY <1>1, <1>4, <2>1, PhaseCalls DEF N!WriteTcr
  <2> QED BY <2>1, <2>2 DEF Runs
<1>9. Sent = 0 => OnDisk
  <2>1. mac.sent \in Seq(Sectors) BY DEF MacType
  <2> QED BY <2>1 DEF Sent, OnDisk
<1>10. OfDisk' BY <1>1, <1>2, <1>3, <1>5, <1>8, <1>9, DiskKept
<1> QED BY <1>7, <1>10

\* The status is that of the command, and that of a write says it is on disk.
LEMMA StatusKeeps ==
  ASSUME NInv, Way, OfDisk, mac.at = "status", N!ReadData(FALSE), UNCHANGED hd,
         mac' = [mac EXCEPT !.at = "stAck", !.status = ncr'.din.op]
  PROVE  Way' /\ OfDisk'
<1> USE DEF Ats, Quiet, Talking, Choosing, CommandAts, InAts, OutAts, StatusAts, MsgAts, Resets
<1>1. ncr' = ncr BY ReadFields
<1>2. ncr.call = "none" BY DEF N!ReadData, N!Running
<1>3. ncr.din = Command /\ Command \in AllCdbs BY <1>2 DEF Way, Ran
<1>4. ncr.din.op \in Ops BY <1>3, CdbType
<1>5. /\ mac'.at = "stAck" /\ mac'.id = mac.id /\ mac'.cdb = mac.cdb /\ mac'.got = mac.got
      /\ mac'.sent = mac.sent /\ mac'.runs = mac.runs /\ mac'.status = Command.op /\ MacType'
  BY <1>1, <1>3, <1>4 DEF Way, MacType
<1>6. /\ Bus' /\ PhaseRight' /\ Ran' /\ Pending' /\ Calling' /\ StatusRead'
  BY <1>1, <1>2, <1>5 DEF Way, Bus, PhaseRight, Ran, Pending, Calling, StatusRead, Command, N!Cdb
<1>7. StatusOfCommand' BY <1>2, <1>5 DEF Way, Ran, StatusOfCommand, Zero
<1>8. \A i : Buffer(i)' = Buffer(i) BY <1>1 DEF Buffer
<1>9. DataCells' /\ Driver' /\ Writing' BY <1>1, <1>2, <1>8, CellsKept
<1>10. Sending' BY <1>1, <1>2, <1>5 DEF Sending
<1>11. flash' = flash BY DEF hd
<1>12. OnDisk' = OnDisk /\ Sent' = Sent BY <1>5, <1>11 DEF OnDisk, Sent
<1>13. Written' BY <1>1, <1>2, <1>5, <1>12 DEF OfDisk, Written
<1>14. WriteDone' BY <1>2, <1>5, <1>12 DEF OfDisk, Written, WriteDone, OnDisk, Sent
<1>15. Reading' BY <1>5 DEF OfDisk, Reading
<1>16. ReadsTheDisk' BY <1>5, <1>11 DEF OfDisk, ReadsTheDisk, Expected
<1> QED BY <1>5, <1>6, <1>7, <1>9, <1>10, <1>13, <1>14, <1>15, <1>16 DEF Way, OfDisk

\* Free again, the Mac has forgotten what it has read.
LEMMA FreeKeeps ==
  ASSUME NInv, Way, OfDisk, mac' = Free, UNCHANGED hd,
         ncr'.mem = ncr.mem, ncr.call = "none", ncr'.call = "none",
         ncr'.tcr \in {{}, Msg},
         ncr'.tcr = {} /\ ncr'.bufpos # 0 => ncr.tcr = {} /\ ncr.bufpos # 0
  PROVE  Way' /\ OfDisk'
<1> USE DEF Ats, Quiet, Talking, Choosing, CommandAts, InAts, OutAts, StatusAts, MsgAts, Resets
<1>1. <<>> \in Seq(N!Units)
  OBVIOUS
<1>2. /\ mac'.at = "free" /\ mac'.id = mac.id /\ mac'.cdb = mac.cdb /\ mac'.got = <<>>
      /\ mac'.sent = mac.sent /\ mac'.runs = mac.runs /\ mac'.status = "none" /\ MacType'
  BY <1>1 DEF Free, Way, MacType
<1>3. Command' = Command /\ \A i : Buffer(i)' = Buffer(i) BY DEF Command, N!Cdb, Buffer
<1>4. Bus' /\ PhaseRight' /\ Ran' /\ Pending' /\ Calling' /\ StatusRead' /\ StatusOfCommand'
  BY <1>2, <1>3 DEF Way, Bus, PhaseRight, Ran, Pending, Calling, StatusRead, StatusOfCommand
<1>5. DataCells' /\ Driver' /\ Writing' BY <1>3, CellsKept
<1>6. Sending' /\ Written' /\ Reading' /\ ReadsTheDisk' /\ WriteDone'
  BY <1>2 DEF Sending, Written, Reading, ReadsTheDisk, WriteDone
<1> QED BY <1>2, <1>4, <1>5, <1>6 DEF Way, OfDisk

\* Status and message.
LEMMA FinishKeeps ==
  ASSUME NInv, Way, OfDisk, Finish, ncr'.call = "none"
  PROVE  Way' /\ OfDisk'
<1>1. CASE Change("dataDone", "status", {"CD", "IO"})
  BY <1>1, UncalledKeeps
<1>2. CASE /\ mac.at = "status" /\ N!ReadData(FALSE) /\ UNCHANGED hd
           /\ mac' = [mac EXCEPT !.at = "stAck", !.status = ncr'.din.op]
  BY <1>2, StatusKeeps
<1> USE DEF Ats, Quiet, Talking, Choosing, CommandAts, InAts, OutAts, StatusAts, MsgAts, Resets,
            Way, Bus, PhaseRight, Ran, Pending, Calling, StatusRead, StatusOfCommand, MacKept,
            DataKept, OfDisk, Sending, Written, Reading, Kept1
<1>3. CASE mac.cdb.op = "test" /\ Change("sent", "status", {"CD", "IO"})
  <2>1. /\ mac.at = "sent" /\ N!WriteTcr({"CD", "IO"}) /\ mac' = [mac EXCEPT !.at = "status"]
        /\ hd' = hd
    BY <1>3, CallFields DEF Change, BeginCommand
  <2>2. mac'.at = "status" /\ MacKept /\ MacType' BY <2>1, Moved
  <2>3. ncr.call = "none" BY <2>1 DEF N!WriteTcr, N!Running
  <2>4. {"CD", "IO"} \in Phases /\ ncr.tcr # {"CD", "IO"}
    <3>1. ncr.tcr = {"CD"} BY <2>1, <2>3
    <3>2. "IO" \notin {"CD"} /\ "IO" \in {"CD", "IO"}
      OBVIOUS
    <3> QED BY <3>1, <3>2 DEF Phases
  <2>5. /\ Kept3 /\ Kept4 /\ ncr'.tcr = {"CD", "IO"} /\ ncr'.buf = "cmd" /\ ncr'.mem = ncr.mem
        /\ ncr'.bufpos = 0 /\ ncr'.call = "none" /\ ncr'.din = ncr.mem[<<"cmd", 0>>]
    BY <2>1, <2>4, TcrFields, PhaseBuffer
  <2>6. Command' = Command /\ ncr'.din = Command BY <2>5 DEF Command, N!Cdb
  <2>7. Way' BY <1>3, <2>1, <2>2, <2>3, <2>5, <2>6 DEF Kept3, Kept4
  <2>8. OfDisk' BY <1>3, <2>1, <2>2, <2>3, <2>5, DiskKept DEF ReadOps
  <2> QED BY <2>7, <2>8
<1>4. CASE At("stAck", "stRel") /\ N!WriteIni({"ACK"})
  <2>1. mac.at = "stAck" /\ mac'.at = "stRel" /\ MacKept /\ MacType' /\ hd' = hd
    BY <1>4, AtFields
  <2>2. ncr.call = "none" BY <1>4 DEF N!WriteIni, N!Running
  <2>3. {"ACK"} \in SUBSET N!Lines BY DEF N!Lines
  <2>4. /\ Kept1 /\ ncr'.mem = ncr.mem /\ ncr'.mode = ncr.mode /\ ncr'.inicmd = {"ACK"}
        /\ ncr'.selected = ncr.selected /\ ncr'.state = "DATA" /\ ncr.tcr = {"CD", "IO"}
    BY <1>4, <2>1, <2>2, <2>3, Talked
  <2>5. Way' BY <2>1, <2>2, <2>4 DEF Command, N!Cdb
  <2>6. OfDisk' BY <2>1, <2>2, <2>4, DiskKept
  <2> QED BY <2>5, <2>6
<1>5. CASE At("stRel", "message") /\ N!WriteIni({})
  <2>1. mac.at = "stRel" /\ mac'.at = "message" /\ MacKept /\ MacType' /\ hd' = hd
    BY <1>5, AtFields
  <2>2. ncr.call = "none" BY <1>5 DEF N!WriteIni, N!Running
  <2>3. /\ Kept1 /\ ncr'.mem = ncr.mem /\ ncr'.mode = ncr.mode /\ ncr'.inicmd = {}
        /\ ncr'.selected = ncr.selected /\ ncr'.state = "DATA" /\ ncr.tcr = {"CD", "IO"}
    BY <1>5, <2>1, <2>2, Talked
  <2>4. Way' BY <2>1, <2>2, <2>3 DEF Command, N!Cdb
  <2>5. OfDisk' BY <2>1, <2>2, <2>3, DiskKept
  <2> QED BY <2>4, <2>5
<1>6. CASE Change("message", "msgAck", Msg)
  <2>1. /\ mac.at = "message" /\ N!WriteTcr(Msg) /\ mac' = [mac EXCEPT !.at = "msgAck"]
        /\ hd' = hd
    BY <1>6, CallFields DEF Change, BeginCommand
  <2>2. mac'.at = "msgAck" /\ MacKept /\ MacType' BY <2>1, Moved
  <2>3. ncr.call = "none" BY <2>1 DEF N!WriteTcr, N!Running
  <2>4. Msg \in Phases /\ ncr.tcr # Msg
    <3>1. ncr.tcr = {"CD", "IO"} BY <2>1, <2>3
    <3>2. "MSG" \notin {"CD", "IO"} /\ "MSG" \in Msg BY DEF Msg
    <3> QED BY <3>1, <3>2 DEF Phases
  <2>5. /\ Kept3 /\ Kept4 /\ ncr'.tcr = Msg /\ ncr'.mem = ncr.mem
        /\ ncr'.bufpos = 0 /\ ncr'.call = "none"
    BY <2>1, <2>4, TcrFields
  <2>6. Msg # {} BY DEF Msg
  <2>7. Way' BY <2>1, <2>2, <2>3, <2>5, <2>6 DEF Kept3, Kept4, Command, N!Cdb
  <2>8. OfDisk' BY <2>1, <2>2, <2>3, <2>5, DiskKept
  <2> QED BY <2>7, <2>8
<1>7. CASE At("msgAck", "msgRel") /\ N!WriteIni({"ACK"})
  <2>1. mac.at = "msgAck" /\ mac'.at = "msgRel" /\ MacKept /\ MacType' /\ hd' = hd
    BY <1>7, AtFields
  <2>2. ncr.call = "none" BY <1>7 DEF N!WriteIni, N!Running
  <2>3. {"ACK"} \in SUBSET N!Lines BY DEF N!Lines
  <2>4. ncr.tcr = Msg /\ "IO" \in Msg /\ Msg # {} BY <2>1, <2>2 DEF Msg
  <2>5. /\ Kept1 /\ ncr'.mem = ncr.mem /\ ncr'.mode = ncr.mode /\ ncr'.inicmd = {"ACK"}
        /\ ncr'.selected = ncr.selected /\ ncr'.state = "DATA"
    BY <1>7, <2>1, <2>2, <2>3, <2>4, Talked
  <2>6. Way' BY <2>1, <2>2, <2>4, <2>5 DEF Command, N!Cdb
  <2>7. OfDisk' BY <2>1, <2>2, <2>5, DiskKept
  <2> QED BY <2>6, <2>7
<1>8. CASE mac.at = "msgRel" /\ N!WriteIni({}) /\ UNCHANGED hd /\ mac' = Free
  <2>1. ncr.call = "none" BY <1>8 DEF N!WriteIni, N!Running
  <2>2. Kept1 /\ ncr'.mem = ncr.mem /\ ncr'.call = "none" BY <1>8, <2>1, Lowered
  <2>3. ncr'.tcr = Msg /\ Msg # {} BY <1>8, <2>1, <2>2 DEF Msg
  <2> QED BY <1>8, <2>1, <2>2, <2>3, FreeKeeps
<1> QED BY <1>1, <1>2, <1>3, <1>4, <1>5, <1>6, <1>7, <1>8 DEF Finish, Msg

\* A reset takes the Mac off the bus and leaves a write pending.
LEMMA ResetKeeps ==
  ASSUME NInv, Way, OfDisk, Reset
  PROVE  Way' /\ OfDisk'
<1> USE DEF Ats, Quiet, Talking, Choosing, CommandAts, InAts, OutAts, StatusAts, MsgAts, Resets
<1>1. CASE /\ mac.at = "rstTcr" /\ mac' = Free /\ N!WriteTcr({}) /\ UNCHANGED hd
  <2>1. ncr.call = "none" BY <1>1 DEF N!WriteTcr, N!Running
  <2>2. CASE ncr.tcr = {}
    <3>1. ncr' = ncr BY <1>1, <2>2 DEF N!WriteTcr
    <3> QED BY <1>1, <2>1, <2>2, <3>1, FreeKeeps
  <2>3. CASE ncr.tcr # {}
    <3>1. {} \in Phases BY DEF Phases
    <3>2. ncr'.tcr = {} /\ ncr'.mem = ncr.mem /\ ncr'.bufpos = 0 /\ ncr'.call = "none"
      BY <1>1, <2>3, <3>1, TcrFields
    <3> QED BY <1>1, <2>1, <3>2, FreeKeeps
  <2> QED BY <2>2, <2>3
<1> USE DEF Way, Bus, PhaseRight, Ran, Pending, Calling, StatusRead, StatusOfCommand, MacKept,
            DataKept, OfDisk, Sending, Written, Reading, Kept1, Command, N!Cdb
<1>2. CASE mac.at \notin Resets \cup {"free"} /\ At(mac.at, "rst") /\ N!WriteIni({"RST"})
  <2>1. /\ mac.at \notin Resets \cup {"free"} /\ mac'.at = "rst" /\ MacKept /\ MacType'
        /\ hd' = hd
    BY <1>2, Moved DEF At
  <2>2. {"RST"} \in SUBSET N!Lines BY DEF N!Lines
  <2>3. /\ Kept1 /\ ncr'.mem = ncr.mem /\ ncr.call = "none"
        /\ ncr.tcr = {} => ncr'.bufpos = ncr.bufpos
    BY <1>2, <2>2, Lowered
  <2>4. Way' BY <2>1, <2>3
  <2>5. OfDisk' BY <2>1, <2>3, DiskKept
  <2> QED BY <2>4, <2>5
<1>3. CASE At("rst", "rstMode") /\ N!WriteIni({})
  <2>1. mac.at = "rst" /\ mac'.at = "rstMode" /\ MacKept /\ MacType' /\ hd' = hd
    BY <1>3, AtFields
  <2>2. /\ Kept1 /\ ncr'.mem = ncr.mem /\ ncr.call = "none"
        /\ ncr.tcr = {} => ncr'.bufpos = ncr.bufpos
    BY <1>3, Lowered
  <2>3. Way' BY <2>1, <2>2
  <2>4. OfDisk' BY <2>1, <2>2, DiskKept
  <2> QED BY <2>3, <2>4
<1>4. CASE At("rstMode", "rstTcr") /\ N!WriteMode({})
  <2>1. mac.at = "rstMode" /\ mac'.at = "rstTcr" /\ MacKept /\ MacType' /\ hd' = hd
    BY <1>4, AtFields
  <2>2. Kept1 /\ Kept2 /\ ncr.call = "none" BY <1>4, ModeFields
  <2>3. Way' BY <2>1, <2>2 DEF Kept2
  <2>4. OfDisk' BY <2>1, <2>2, DiskKept DEF Kept2
  <2> QED BY <2>3, <2>4
<1> QED BY <1>1, <1>2, <1>3, <1>4 DEF Reset

-----------------------------------------------------------------------------
(* The driver: FlashHdProofs, of the same disk.                            *)

FP == INSTANCE FlashHdProofs

\* The assumptions on the disk are the same,
LEMMA FlashAssumptions == FP!SizeAssumption /\ FP!ContentsAssumption
BY ScsiAssumption DEF F!SizeAssumption, FP!SizeAssumption, F!ContentsAssumption,
   FP!ContentsAssumption

\* and so are its operators,
LEMMA SameBlocks ==
  /\ F!Lba = FP!Lba /\ F!Cell = FP!Cell /\ F!InBlock(job.lba) = FP!InBlock(job.lba)
  /\ F!Patched = FP!Patched /\ F!Disk = FP!Disk /\ Todo = FP!Todo(job.lba, job.data, job.len)
  /\ \A len : F!Data(len) = FP!Data(len)
<1>1. F!Lba = FP!Lba BY DEF F!Lba, FP!Lba
<1>2. \A s : F!Block(s) = FP!Block(s) BY DEF F!Block, FP!Block
<1>3. F!InBlock(job.lba) = FP!InBlock(job.lba) BY <1>1, <1>2 DEF F!InBlock, FP!InBlock
<1>4. F!Cell = FP!Cell BY DEF F!Cell, FP!Cell
<1>5. F!Patched = FP!Patched BY DEF F!Patched, FP!Patched
<1>6. F!Disk = FP!Disk BY <1>1, <1>3 DEF F!Disk, FP!Disk
<1>7. Todo = FP!Todo(job.lba, job.data, job.len) BY DEF Todo, F!Todo, FP!Todo
<1>8. \A len : F!Data(len) = FP!Data(len) BY DEF F!Data, FP!Data
<1> QED BY <1>1, <1>3, <1>4, <1>5, <1>6, <1>7, <1>8

\* its invariant,
LEMMA SameInv == FP!Inv <=> F!TypeOK /\ F!BufferHoldsBlock
<1>1. F!TypeOK = FP!TypeOK
  BY SameBlocks DEF F!TypeOK, FP!TypeOK, F!Pcs, FP!Pcs, F!Nothing, FP!Nothing
<1>2. F!BufferHoldsBlock = FP!BufferHoldsBlock
  BY SameBlocks DEF F!BufferHoldsBlock, FP!BufferHoldsBlock
<1> QED BY <1>1, <1>2 DEF FP!Inv

\* its commands
LEMMA SameStarts ==
  /\ \A lba, len, data : F!StartWrite(lba, len, data) = FP!StartWrite(lba, len, data)
  /\ \A lba : F!ReadOutside(lba) = FP!ReadOutside(lba)
BY SameBlocks DEF F!StartWrite, FP!StartWrite, F!ReadOutside, FP!ReadOutside

\* its steps,
LEMMA SameSteps ==
  /\ F!ReadBlock = FP!ReadBlock /\ F!ReadFails = FP!ReadFails
  /\ F!EraseBlock = FP!EraseBlock /\ F!ProgramBlock = FP!ProgramBlock
<1>1. F!ReadBlock = FP!ReadBlock BY SameBlocks DEF F!ReadBlock, FP!ReadBlock
<1>2. F!ReadFails = FP!ReadFails BY SameBlocks DEF F!ReadFails, FP!ReadFails
<1>3. F!EraseBlock = FP!EraseBlock BY SameBlocks DEF F!EraseBlock, FP!EraseBlock
<1>4. F!ProgramBlock = FP!ProgramBlock BY SameBlocks DEF F!ProgramBlock, FP!ProgramBlock
<1> QED BY <1>1, <1>2, <1>3, <1>4

\* and so all it may do.
LEMMA SameNext == F!Next => FP!Next
<1>1. ASSUME F!PowerLoss PROVE FP!PowerLoss
  <2>1. F!Lba = FP!Lba /\ F!InBlock(job.lba) = FP!InBlock(job.lba) /\ F!Patched = FP!Patched
    BY SameBlocks
  <2>2. CASE flash' = flash
    BY <1>1, <2>2 DEF F!PowerLoss, FP!PowerLoss, FP!Torn, F!NoJob, FP!NoJob, F!Nothing, FP!Nothing
  <2>3. ASSUME pc = "erase", NEW gone \in SUBSET F!InBlock(job.lba),
               flash' = [s \in F!Lba |-> IF s \in gone THEN Erased ELSE flash[s]]
        PROVE  FP!Torn
    BY <2>1, <2>3 DEF FP!Torn
  <2>4. ASSUME pc = "program", NEW end \in F!InBlock(job.lba),
               flash' = [s \in F!Lba |-> IF s \in F!InBlock(job.lba) /\ s < end
                                         THEN F!Patched[s] ELSE flash[s]]
        PROVE  FP!Torn
    BY <2>1, <2>4 DEF FP!Torn
  <2>5. FP!Torn BY <1>1, <2>2, <2>3, <2>4 DEF F!PowerLoss, F!Torn, FP!Torn
  <2> QED BY <1>1, <2>5 DEF F!PowerLoss, FP!PowerLoss, F!NoJob, FP!NoJob, F!Nothing, FP!Nothing
<1>2. \A lba : F!ReadSector(lba) => FP!ReadSector(lba)
  BY SameBlocks DEF F!ReadSector, FP!ReadSector
<1>3. ASSUME NEW lba \in 0 .. Size, NEW len \in 0 .. MaxLen, NEW data \in F!Data(len),
             F!StartWrite(lba, len, data)
      PROVE  FP!Next
  <2>1. FP!StartWrite(lba, len, data) /\ data \in FP!Data(len) BY <1>3, SameStarts, SameBlocks
  <2> QED BY <2>1 DEF FP!Next
<1>4. ASSUME NEW lba \in 0 .. Size, F!ReadSector(lba) \/ F!ReadOutside(lba) PROVE FP!Next
  BY <1>2, <1>4, SameStarts DEF FP!Next
<1>5. CASE F!ReadBlock \/ F!ReadFails \/ F!EraseBlock \/ F!ProgramBlock \/ F!PowerLoss
  BY <1>1, <1>5, SameSteps DEF FP!Next
<1> QED BY <1>3, <1>4, <1>5 DEF F!Next

\* A command that starts keeps the driver's invariant, and the
\* disk is as it was: it is the driver's own step that changes it.
LEMMA StartKeeps ==
  ASSUME F!TypeOK, F!BufferHoldsBlock, NEW lba \in 0 .. Size, NEW len \in 0 .. MaxLen,
         NEW data \in F!Data(len), F!StartWrite(lba, len, data)
  PROVE  /\ F!TypeOK' /\ F!BufferHoldsBlock' /\ F!Disk' = F!Disk
<1>1. FP!Inv BY SameInv
<1>2. FP!StartWrite(lba, len, data) /\ data \in FP!Data(len) BY SameStarts, SameBlocks
<1>3. FP!Inv' BY <1>1, <1>2, FlashAssumptions, FP!StartWriteInv
<1>4. F!TypeOK' /\ F!BufferHoldsBlock' BY <1>3, SameInv, PTL
<1>5. F!Disk' = F!Disk BY DEF F!StartWrite, F!Disk
<1> QED BY <1>4, <1>5

\* So does a read that fails.
LEMMA OutsideKeeps ==
  ASSUME F!TypeOK, F!BufferHoldsBlock, F!ReadOutside(Size)
  PROVE  F!TypeOK' /\ F!BufferHoldsBlock' /\ F!Disk' = F!Disk
<1>1. FP!Inv BY SameInv
<1>2. FP!ReadOutside(Size) BY SameStarts
<1>3. Size \in 0 .. Size BY ScsiAssumption DEF F!SizeAssumption
<1>4. FP!Inv' BY <1>1, <1>2, <1>3, FlashAssumptions, FP!ReadOutsideInv
<1>5. F!TypeOK' /\ F!BufferHoldsBlock' BY <1>4, SameInv, PTL
<1>6. F!Disk' = F!Disk BY DEF F!ReadOutside, F!Disk
<1> QED BY <1>5, <1>6

\* These two are cited for the next state as well.
LEMMA SameDisk == F!Disk = FP!Disk
BY SameBlocks

LEMMA SameTodo == Todo = FP!Todo(job.lba, job.data, job.len)
BY SameBlocks

\* A step of the driver changes the disk as BlockDisk says, if at all.
LEMMA FlashSteps ==
  ASSUME F!TypeOK, F!BufferHoldsBlock, Flash
  PROVE  /\ F!TypeOK' /\ F!BufferHoldsBlock' /\ pc \in {"read", "erase", "program"}
         /\ (F!Disk' = F!Disk /\ Todo' = Todo) \/ (job.lba \in F!Lba /\ FP!D!Write(job.lba))
<1>1. FP!Inv BY SameInv
<1>2. FP!ReadBlock \/ FP!ReadFails \/ FP!EraseBlock \/ FP!ProgramBlock BY SameSteps DEF Flash
<1>3. FP!Inv'
  BY <1>1, <1>2, FlashAssumptions, FP!ReadBlockInv, FP!ReadFailsInv, FP!EraseBlockInv,
     FP!ProgramBlockInv
<1>4. F!TypeOK' /\ F!BufferHoldsBlock' BY <1>3, SameInv, PTL
<1>5. UNCHANGED FP!D!vars \/ (job.lba \in FP!Lba /\ FP!D!Write(job.lba))
  BY <1>1, <1>2, FlashAssumptions, FP!ReadBlockRefines, FP!ReadFailsRefines,
     FP!EraseBlockRefines, FP!ProgramBlockRefines
<1>6. UNCHANGED FP!D!vars => /\ FP!Disk' = FP!Disk
                            /\ FP!Todo(job.lba, job.data, job.len)' = FP!Todo(job.lba, job.data, job.len)
  BY DEF FP!D!vars
<1>7. FP!Disk' = FP!Disk => F!Disk' = F!Disk
  <2>1. F!Disk = FP!Disk BY SameDisk
  <2>2. (F!Disk = FP!Disk)' BY SameDisk, PTL
  <2> QED BY <2>1, <2>2
<1>8. FP!Todo(job.lba, job.data, job.len)' = FP!Todo(job.lba, job.data, job.len) => Todo' = Todo
  BY DEF Todo, F!Todo, FP!Todo
<1>9. pc \in {"read", "erase", "program"}
  BY <1>2 DEF FP!ReadBlock, FP!ReadFails, FP!EraseBlock, FP!ProgramBlock
<1> QED BY <1>4, <1>5, <1>6, <1>7, <1>8, <1>9, SameBlocks

-----------------------------------------------------------------------------
(* The steps of the disk.                                                  *)

\* No access calls a device but a change of phase.
LEMMA Uncalled ==
  ASSUME NInv
  PROVE  /\ \A val, dack : N!WriteData(val, dack) => ncr'.call = "none"
         /\ \A dack : N!ReadData(dack) => ncr'.call = "none"
         /\ \A val : N!WriteIni(val) \/ N!WriteMode(val) \/ N!ReadIni => ncr'.call = "none"
         /\ \A val : N!WriteTcr(val) => ncr'.call = "none"
<1>1. ncr \in N!NcrState BY DEF NInv, N!TypeOK
<1>2. \A val, dack : N!WriteData(val, dack) => ncr'.call = "none"
  BY <1>1 DEF N!WriteData, N!Running, N!NcrState
<1>3. \A dack : N!ReadData(dack) => ncr'.call = "none"
  BY <1>1 DEF N!ReadData, N!Running, N!NcrState
<1>4. \A val : N!WriteIni(val) => ncr'.call = "none"
  BY <1>1 DEF N!WriteIni, N!Running, N!NcrState
<1>5. \A val : N!WriteMode(val) \/ N!ReadIni => ncr'.call = "none"
  BY <1>1 DEF N!WriteMode, N!ReadIni, N!Running, N!NcrState
<1>6. \A val : N!WriteTcr(val) => ncr'.call = "none"
  BY <1>1 DEF N!WriteTcr, N!Enter, N!Running, N!NcrState
<1> QED BY <1>2, <1>3, <1>4, <1>5, <1>6

\* Which change of phase it is, and for which command.
Caller(to, val) ==
  \/ to = "command" /\ val = {"CD"} /\ mac.at = "selected" /\ mac.cdb.op = "write" /\ ncr.tcr = {}
  \/ to = "inStart" /\ val = {"IO"} /\ mac.at = "sent" /\ mac.cdb.op \in ReadOps /\ ncr.tcr = {"CD"}
  \/ to = "status" /\ val = {"CD", "IO"} /\ mac.at = "dataDone" /\ mac.cdb.op = "write"
       /\ ncr.tcr = {}
CallBy(to, val) ==
  /\ BeginCommand(val) /\ mac' = [mac EXCEPT !.at = to, !.runs = @ + 1]
  /\ Caller(to, val) /\ mac.runs = 0 /\ Command = mac.cdb

\* Only these of the Mac's moves call the disk, for a command not yet run.
LEMMA WhoCalls ==
  ASSUME NInv, Way, Mac, ncr'.call # "none"
  PROVE  \E to, val : CallBy(to, val)
<1> USE DEF Ats, Quiet, Talking, Choosing, CommandAts, InAts, OutAts, StatusAts, MsgAts, Resets
<1>1. \/ Change("selected", "command", {"CD"})
      \/ mac.cdb.op \in ReadOps /\ Change("sent", "inStart", {"IO"})
      \/ mac.cdb.op = "write" /\ Change("sent", "out", {})
      \/ Change("dataDone", "status", {"CD", "IO"})
      \/ mac.cdb.op = "test" /\ Change("sent", "status", {"CD", "IO"})
      \/ Change("message", "msgAck", {"CD", "IO", "MSG"})
  <2>1. ~Arbitrate /\ ~Select /\ ~Reset
    BY Uncalled, Zenon DEF Arbitrate, Select, Reset
  <2>2. CASE SendCdb BY <2>2, Uncalled, Zenon DEF SendCdb
  <2>3. CASE DataIn BY <2>3, Uncalled, Zenon DEF DataIn, ReadOps
  <2>4. CASE DataOut BY <2>4, Uncalled, Zenon DEF DataOut
  <2>5. CASE Finish BY <2>5, Uncalled, Zenon DEF Finish
  <2> QED BY <2>1, <2>2, <2>3, <2>4, <2>5 DEF Mac
<1>2. \A from, to, val : Change(from, to, val) =>
        /\ mac.at = from /\ BeginCommand(val) /\ mac' = [mac EXCEPT !.at = to, !.runs = @ + 1]
        /\ N!Call(val)
  BY Uncalled DEF Change, BeginCommand
<1>3. \A val : N!Call(val) => ncr.call = "none" /\ N!Calls(val) BY DEF N!Call, N!Running
<1>4. \A val \in Phases : ncr.tcr \in Phases /\ N!Call(val) => Runs(val)
  BY <1>3, PhaseCalls
<1>5. {"CD", "IO"} # {"IO"} /\ {"CD"} # {} /\ {} # {"IO"} /\ {"CD", "IO"} # {} /\ {"CD"} # {"IO"}
      /\ Msg # {"IO"} /\ Msg # {} /\ {"CD", "IO"} # {"CD"} /\ {"IO"} # {}
  <2>1. "IO" \notin {"CD"} /\ "CD" \notin {"IO"} /\ "MSG" \in Msg /\ "MSG" \notin {"IO"}
    BY DEF Msg
  <2> QED BY <2>1
<1>6. CASE Change("selected", "command", {"CD"})
  <2>1. mac.at = "selected" /\ N!Call({"CD"}) /\ ncr.call = "none" BY <1>2, <1>3, <1>6
  <2>2. ncr.tcr \in {{}, Msg} BY <2>1 DEF Way, PhaseRight
  <2>3. Runs({"CD"}) BY <1>4, <2>1, <2>2 DEF Phases
  <2>4. ncr.tcr = {} /\ ncr.bufpos # 0 BY <1>5, <2>3 DEF Runs
  <2>5. mac.cdb.op = "write" /\ Command = mac.cdb /\ mac.runs = 0
    BY <2>1, <2>4 DEF Way, Pending
  <2>6. CallBy("command", {"CD"}) BY <1>2, <1>6, <2>1, <2>4, <2>5 DEF CallBy, Caller
  <2> QED BY <2>6
<1>7. CASE mac.cdb.op \in ReadOps /\ Change("sent", "inStart", {"IO"})
  <2>1. mac.at = "sent" /\ N!Call({"IO"}) /\ ncr.call = "none" BY <1>2, <1>3, <1>7
  <2>2. ncr.tcr = {"CD"} /\ mac.runs = 0 /\ Command = mac.cdb
    BY <2>1 DEF Way, PhaseRight, Ran
  <2>3. CallBy("inStart", {"IO"}) BY <1>2, <1>7, <2>1, <2>2 DEF CallBy, Caller
  <2> QED BY <2>3
<1>8. CASE mac.cdb.op = "write" /\ Change("sent", "out", {})
  <2>1. mac.at = "sent" /\ N!Call({}) /\ ncr.call = "none" BY <1>2, <1>3, <1>8
  <2>2. ncr.tcr = {"CD"} BY <2>1 DEF Way, PhaseRight
  <2>3. Runs({}) BY <1>4, <2>1, <2>2 DEF Phases
  <2> QED BY <1>5, <2>2, <2>3 DEF Runs
<1>9. CASE Change("dataDone", "status", {"CD", "IO"})
  <2>1. mac.at = "dataDone" /\ N!Call({"CD", "IO"}) /\ ncr.call = "none" BY <1>2, <1>3, <1>9
  <2>2. IF mac.cdb.op = "write" THEN ncr.tcr = {} ELSE ncr.tcr = {"IO"}
    BY <2>1 DEF Way, PhaseRight
  <2>3. Runs({"CD", "IO"}) BY <1>4, <2>1, <2>2 DEF Phases
  <2>4. ncr.tcr = {} /\ ncr.bufpos # 0 /\ mac.cdb.op = "write" BY <1>5, <2>2, <2>3 DEF Runs
  <2>5. Command = mac.cdb /\ mac.runs = 0 BY <2>1, <2>4 DEF Way, Pending
  <2>6. CallBy("status", {"CD", "IO"}) BY <1>2, <1>9, <2>1, <2>4, <2>5 DEF CallBy, Caller
  <2> QED BY <2>6
<1>10. CASE mac.cdb.op = "test" /\ Change("sent", "status", {"CD", "IO"})
  <2>1. mac.at = "sent" /\ N!Call({"CD", "IO"}) /\ ncr.call = "none" BY <1>2, <1>3, <1>10
  <2>2. ncr.tcr = {"CD"} BY <2>1 DEF Way, PhaseRight
  <2>3. Runs({"CD", "IO"}) BY <1>4, <2>1, <2>2 DEF Phases
  <2> QED BY <1>5, <2>2, <2>3 DEF Runs
<1>11. CASE Change("message", "msgAck", {"CD", "IO", "MSG"})
  <2>1. mac.at = "message" /\ N!Call(Msg) /\ ncr.call = "none" BY <1>2, <1>3, <1>11 DEF Msg
  <2>2. ncr.tcr = {"CD", "IO"} BY <2>1 DEF Way, PhaseRight
  <2>3. Runs(Msg) BY <1>4, <2>1, <2>2 DEF Phases
  <2> QED BY <1>5, <2>2, <2>3 DEF Runs
<1> QED BY <1>1, <1>6, <1>7, <1>8, <1>9, <1>10, <1>11

\* What the Mac writes in a command is a command of the driver.
LEMMA DataOfWrite ==
  ASSUME NInv, OfDisk, Command \in AllCdbs
  PROVE  WriteData \in F!Data(Command.len)
<1>1. Command.len \in 0 .. MaxLen /\ MaxLen \in Nat
  BY CdbType, ScsiAssumption DEF F!SizeAssumption
<1>2. \A i \in 1 .. Command.len : Buffer(i) \in Contents BY <1>1 DEF OfDisk, DataCells
<1> QED BY <1>2 DEF WriteData, F!Data, Buffer

\* The driver's part of a call.
LEMMA CallsDriver ==
  ASSUME NInv, OfDisk, ncr.call = "none", Command \in AllCdbs, NEW val, BeginCommand(val)
  PROVE  /\ [F!Next]_hd /\ F!TypeOK' /\ F!BufferHoldsBlock' /\ F!Disk' = F!Disk /\ flash' = flash
         /\ Command.op = "write" =>
              job' = [lba |-> Command.lba, len |-> Command.len, data |-> WriteData]
         /\ Command.op = "read" /\ pc' = "idle" => InDisk(Command)
         /\ Command.op # "write" => pc' \in {"idle", "aborted"}
<1>1. F!TypeOK /\ F!BufferHoldsBlock /\ pc = "idle" BY DEF OfDisk, Driver
<1>2. Command.lba \in 0 .. Size /\ Command.len \in 0 .. MaxLen BY CdbType
<1>3. Size \in 0 .. Size BY ScsiAssumption DEF F!SizeAssumption
<1>4. CASE Command.op = "write"
  <2>1. F!StartWrite(Command.lba, Command.len, WriteData) BY <1>4 DEF BeginCommand
  <2>2. WriteData \in F!Data(Command.len) BY DataOfWrite
  <2>3. F!Next BY <1>2, <2>1, <2>2, Zenon DEF F!Next
  <2>4. F!TypeOK' /\ F!BufferHoldsBlock' /\ F!Disk' = F!Disk
    BY <1>1, <1>2, <2>1, <2>2, StartKeeps
  <2>5. job' = [lba |-> Command.lba, len |-> Command.len, data |-> WriteData] /\ flash' = flash
    BY <2>1 DEF F!StartWrite
  <2> QED BY <1>4, <2>3, <2>4, <2>5
<1>5. CASE Command.op = "read" /\ ~InDisk(Command)
  <2>1. F!ReadOutside(Size) BY <1>5 DEF BeginCommand
  <2>2. F!Next BY <1>3, <2>1, Zenon DEF F!Next
  <2>3. F!TypeOK' /\ F!BufferHoldsBlock' /\ F!Disk' = F!Disk
    BY <1>1, <2>1, OutsideKeeps
  <2>4. flash' = flash /\ pc' = "aborted" BY <2>1 DEF F!ReadOutside
  <2> QED BY <1>5, <2>2, <2>3, <2>4
<1>6. CASE Command.op # "write" /\ ~(Command.op = "read" /\ ~InDisk(Command))
  <2>1. hd' = hd BY <1>6 DEF BeginCommand
  <2>2. flash' = flash /\ secdat' = secdat /\ job' = job /\ pc' = pc /\ out' = out
    BY <2>1 DEF hd
  <2>3. F!Disk' = F!Disk BY <2>2 DEF F!Disk, F!InBlock, F!Block, F!Lba
  <2>4. F!TypeOK' /\ F!BufferHoldsBlock' BY <1>1, <2>2 DEF F!TypeOK, F!BufferHoldsBlock
  <2> QED BY <1>1, <1>6, <2>1, <2>2, <2>3, <2>4
<1> QED BY <1>4, <1>5, <1>6

\* A command that starts finds its data in the buffer.
LEMMA CallKeeps ==
  ASSUME NInv, Way, OfDisk, NEW to, NEW val, CallBy(to, val)
  PROVE  Way' /\ OfDisk' /\ [F!Next]_hd
<1> USE DEF Ats, Quiet, Talking, Choosing, CommandAts, InAts, OutAts, StatusAts, MsgAts, Resets
<1>1. /\ Kept2 /\ Kept3 /\ Kept4 /\ ncr'.tcr = ncr.tcr /\ ncr'.buf = ncr.buf
      /\ ncr'.call = "device" /\ ncr'.next = val /\ ncr.call = "none"
  BY CallFields DEF CallBy, BeginCommand
<1>2. /\ to \in Ats /\ mac.runs = 0 /\ Command = mac.cdb /\ mac.cdb \in AllCdbs
      /\ Caller(to, val) /\ mac' = [mac EXCEPT !.at = to, !.runs = @ + 1]
  BY DEF CallBy, Caller, Way, MacType
<1>3. /\ mac'.at = to /\ mac'.id = mac.id /\ DataKept /\ mac'.runs = 1 /\ MacType'
  <2>1. mac' = [mac EXCEPT !.at = to, !.runs = 1] BY <1>2 DEF Way, MacType
  <2>2. MacType /\ to \in Ats BY <1>2 DEF Way
  <2> HIDE DEF Ats
  <2> QED BY <2>1, <2>2 DEF MacType, DataKept
<1>4. mac.got = <<>> /\ mac.status = "none"
  BY <1>2 DEF Way, StatusRead, OfDisk, Reading, Caller, ReadOps
<1>5. Command' = Command /\ \A i : Buffer(i)' = Buffer(i)
  BY <1>1 DEF Command, N!Cdb, Buffer, Kept2
<1>6. mac'.cdb = mac.cdb /\ mac'.got = <<>> /\ mac'.sent = mac.sent /\ mac'.status = "none"
  BY <1>3, <1>4 DEF DataKept
<1>7. {"CD"} # {}
  OBVIOUS
<1>8. Bus'
  BY <1>1, <1>2, <1>3 DEF Way, Bus, Caller, Kept3, Kept4
<1>9. PhaseRight' /\ Ran' /\ Pending' /\ Calling' /\ StatusRead' /\ StatusOfCommand'
  BY <1>1, <1>2, <1>3, <1>5, <1>6, <1>7 DEF Way, PhaseRight, Ran, Pending, Calling, StatusRead,
     StatusOfCommand, Caller
<1>10. /\ [F!Next]_hd /\ F!TypeOK' /\ F!BufferHoldsBlock' /\ F!Disk' = F!Disk /\ flash' = flash
       /\ mac.cdb.op = "write" =>
            job' = [lba |-> mac.cdb.lba, len |-> mac.cdb.len, data |-> WriteData]
       /\ mac.cdb.op = "read" /\ pc' = "idle" => InDisk(mac.cdb)
       /\ mac.cdb.op # "write" => pc' \in {"idle", "aborted"}
  BY <1>1, <1>2, CallsDriver DEF CallBy
<1>11. DataCells' BY <1>5 DEF OfDisk, DataCells
<1>12. Driver'
  <2>1. F!Disk' \in [F!Lba -> Contents] BY <1>10 DEF OfDisk, Driver
  <2> QED BY <1>1, <1>6, <1>10, <2>1 DEF Driver, InDisk, F!Lba
<1>13. Writing'
  <2> SUFFICES ASSUME mac.cdb.op = "write", NEW i \in 1 .. mac.cdb.len
               PROVE  Kept(mac.cdb.lba + i - 1, Buffer(i))'
    BY <1>6 DEF Writing
  <2>1. mac.cdb.lba \in Int /\ mac.cdb.len \in Int
    BY <1>2, CdbType, ScsiAssumption DEF F!SizeAssumption
  <2> DEFINE s == mac.cdb.lba + i - 1
  <2>2. s \in mac.cdb.lba .. mac.cdb.lba + mac.cdb.len - 1 /\ s - mac.cdb.lba + 1 = i BY <2>1
  <2>3. Todo' = [t \in mac.cdb.lba .. mac.cdb.lba + mac.cdb.len - 1 |-> WriteData[t - mac.cdb.lba + 1]]
    BY <1>10 DEF Todo, F!Todo
  <2>4. s \in DOMAIN Todo' /\ Todo'[s] = WriteData[i] BY <2>2, <2>3
  <2>5. WriteData[i] = Buffer(i) BY <1>2 DEF WriteData, Buffer
  <2>6. Todo'[s] = Buffer(i)' BY <1>5, <2>4, <2>5
  <2> QED BY <1>6, <2>4, <2>6 DEF Kept
<1>14. Sending'
  <2>1. \A n : Buffered(n)' = Buffered(n) BY <1>5, <1>6 DEF Buffered
  <2>2. Sent' = Sent BY <1>6 DEF Sent
  <2> QED BY <1>1, <1>2, <1>3, <1>6, <2>1, <2>2 DEF OfDisk, Sending, Caller, ReadOps
<1>15. Written' /\ Reading' /\ ReadsTheDisk' /\ WriteDone'
  BY <1>1, <1>6 DEF Written, Reading, ReadsTheDisk, WriteDone
<1> QED BY <1>3, <1>8, <1>9, <1>10, <1>11, <1>12, <1>13, <1>14, <1>15 DEF Way, OfDisk

\* The driver works only for a write, and brings sector by sector to the disk.
LEMMA FlashKeeps ==
  ASSUME NInv, Way, OfDisk, Flash, ncr' = ncr, mac' = mac
  PROVE  Way' /\ OfDisk'
<1>1. F!TypeOK /\ F!BufferHoldsBlock /\ F!Disk \in [F!Lba -> Contents] BY DEF OfDisk, Driver
<1>2. /\ F!TypeOK' /\ F!BufferHoldsBlock' /\ pc \in {"read", "erase", "program"}
      /\ (F!Disk' = F!Disk /\ Todo' = Todo) \/ (job.lba \in F!Lba /\ FP!D!Write(job.lba))
  BY <1>1, FlashSteps
<1>3. ncr.call = "device" /\ mac.cdb.op = "write"
  <2>1. ncr.call \in {"none", "device"} BY DEF NInv, N!TypeOK, N!NcrState
  <2> QED BY <1>2, <2>1 DEF OfDisk, Driver
<1>4. mac.at \in {"command", "status"} /\ mac.got = <<>> /\ mac.status = "none"
  BY <1>3 DEF Way, Calling, StatusRead, OfDisk, Reading, ReadOps, MsgAts, Resets
<1>5. Way'
  BY DEF Way, MacType, Bus, PhaseRight, Ran, Pending, Calling, StatusRead, StatusOfCommand,
         Command, N!Cdb
<1>6. \A i : Buffer(i)' = Buffer(i) BY DEF Buffer
<1>7. DataCells' BY <1>6 DEF OfDisk, DataCells
<1>8. F!Disk' \in [F!Lba -> Contents] /\ \A s, unit : Kept(s, unit) => Kept(s, unit)'
  <2>1. CASE F!Disk' = F!Disk /\ Todo' = Todo BY <1>1, <2>1 DEF Kept, F!Lba
  <2>2. CASE job.lba \in F!Lba /\ FP!D!Write(job.lba)
    <3> DEFINE l == job.lba
    <3>1. FP!Disk = F!Disk /\ Todo = FP!Todo(job.lba, job.data, job.len) BY SameBlocks
    <3>2. (F!Disk = FP!Disk)' /\ (Todo = FP!Todo(job.lba, job.data, job.len))'
      <4>1. (F!Disk = FP!Disk)' BY SameDisk, PTL
      <4>2. (Todo = FP!Todo(job.lba, job.data, job.len))' BY SameTodo, PTL
      <4> QED BY <4>1, <4>2
    <3>3. /\ l \in DOMAIN Todo /\ F!Disk' = [F!Disk EXCEPT ![l] = Todo[l]]
          /\ Todo' = [t \in DOMAIN Todo \ {l} |-> Todo[t]]
      BY <2>2, <3>1, <3>2 DEF FP!D!Write, FP!D!IsNext
    <3>4. Todo[l] \in Contents
      <4>1. job.len \in 1 .. MaxLen /\ job.data \in [1 .. job.len -> Contents] /\ job.lba \in Int
        BY <1>1, <1>2, ScsiAssumption DEF F!TypeOK, F!Data, F!SizeAssumption
      <4>2. Todo = [s \in l .. l + job.len - 1 |-> job.data[s - l + 1]] BY DEF Todo, F!Todo
      <4>3. l \in l .. l + job.len - 1 /\ l - l + 1 = 1 /\ 1 \in 1 .. job.len
        BY <4>1, ScsiAssumption DEF F!SizeAssumption
      <4>4. Todo[l] = job.data[1] BY <4>2, <4>3
      <4> QED BY <4>1, <4>3, <4>4
    <3> HIDE DEF l
    <3>5. F!Disk' \in [F!Lba -> Contents] BY <1>1, <3>3, <3>4 DEF F!Lba
    <3>6. l \in F!Lba /\ F!Lba' = F!Lba BY <2>2 DEF l, F!Lba
    <3>7. ASSUME NEW s, NEW unit, Kept(s, unit) PROVE Kept(s, unit)'
      <4>1. CASE s = l
        <5>1. s \notin DOMAIN Todo' /\ Todo[s] = unit BY <3>3, <3>7, <4>1 DEF Kept
        <5>2. F!Disk'[s] = unit BY <1>1, <3>3, <3>6, <4>1, <5>1
        <5> QED BY <3>6, <4>1, <5>1, <5>2 DEF Kept
      <4>2. CASE s # l /\ s \in DOMAIN Todo
        <5>1. s \in DOMAIN Todo' /\ Todo'[s] = Todo[s] BY <3>3, <4>2
        <5> QED BY <3>7, <4>2, <5>1 DEF Kept
      <4>3. CASE s # l /\ s \notin DOMAIN Todo
        <5>1. s \notin DOMAIN Todo' BY <3>3, <4>3
        <5>2. s \in F!Lba /\ F!Disk[s] = unit BY <3>7, <4>3 DEF Kept
        <5>3. F!Disk'[s] = F!Disk[s] BY <1>1, <3>3, <4>3, <5>2
        <5> QED BY <3>6, <5>1, <5>2, <5>3 DEF Kept
      <4> QED BY <4>1, <4>2, <4>3
    <3> QED BY <3>5, <3>7 DEF F!Lba
  <2> QED BY <1>2, <2>1, <2>2
<1>9. Driver' BY <1>2, <1>3, <1>8 DEF Driver, F!Lba
<1>10. Writing'
  <2> SUFFICES ASSUME NEW i \in 1 .. mac.cdb.len
               PROVE  Kept(mac.cdb.lba + i - 1, Buffer(i))'
    BY DEF Writing
  <2> DEFINE s == mac.cdb.lba + i - 1
             unit == Buffer(i)
  <2>1. Kept(s, unit) BY <1>3 DEF OfDisk, Writing
  <2>2. s' = s /\ unit' = unit BY <1>6
  <2>3. (Kept(mac.cdb.lba + i - 1, Buffer(i)))' =
          IF s \in DOMAIN Todo' THEN Todo'[s] = unit ELSE s \in F!Lba' /\ F!Disk'[s] = unit
    BY <2>2 DEF Kept
  <2> HIDE DEF s, unit
  <2>4. IF s \in DOMAIN Todo' THEN Todo'[s] = unit ELSE s \in F!Lba' /\ F!Disk'[s] = unit
    BY <1>8, <2>1 DEF Kept
  <2> QED BY <2>3, <2>4
<1>11. Sending'
  <2>1. \A n : Buffered(n)' = Buffered(n) BY <1>6 DEF Buffered
  <2> QED BY <2>1 DEF OfDisk, Sending, Sent
<1>12. Written' /\ Reading' /\ ReadsTheDisk' /\ WriteDone'
  BY <1>3, <1>4 DEF Written, Reading, ReadsTheDisk, WriteDone
<1> QED BY <1>5, <1>7, <1>9, <1>10, <1>11, <1>12 DEF OfDisk

\* What a command leaves in the buffers.
LEMMA LeftBehind ==
  ASSUME NInv
  PROVE  /\ Memory[<<"cmd", 0>>] = IF Command.op # "inquiry" THEN Zero ELSE Command
         /\ \A i \in 1 .. MaxLen : Memory[<<"data", i - 1>>] =
              IF i - 1 \in DOMAIN Answer THEN Answer[i - 1] ELSE Buffer(i)
<1>1. 0 \in Nat /\ "cmd" \in N!Buffers /\ 0 < Sizes["cmd"] BY DEF N!Buffers, Sizes
<1>2. <<"cmd", 0>> \in N!Places BY <1>1, PlaceType
<1>3. ~Answered(<<"cmd", 0>>) BY DEF Answered
<1>4. Memory[<<"cmd", 0>>] = IF Command.op # "inquiry" THEN Zero ELSE Command
  BY <1>2, <1>3 DEF Memory, Cleared, Command, N!Cdb
<1>5. ASSUME NEW i \in 1 .. MaxLen
      PROVE  Memory[<<"data", i - 1>>] =
               IF i - 1 \in DOMAIN Answer THEN Answer[i - 1] ELSE Buffer(i)
  <2>1. i - 1 \in Nat /\ i - 1 < MaxLen BY ScsiAssumption DEF F!SizeAssumption
  <2> DEFINE n == i - 1
  <2>2. n \in Nat /\ n < Sizes["data"] /\ "data" \in N!Buffers BY <2>1 DEF Sizes, N!Buffers
  <2> HIDE DEF n
  <2>3. <<"data", n>> \in N!Places BY <2>2, PlaceType
  <2>4. Answered(<<"data", n>>) <=> n \in DOMAIN Answer BY DEF Answered
  <2>5. ~Cleared(<<"data", n>>) BY DEF Cleared
  <2>6. Memory[<<"data", n>>] = IF n \in DOMAIN Answer THEN Answer[n] ELSE ncr.mem[<<"data", n>>]
    BY <2>3, <2>4, <2>5 DEF Memory
  <2> QED BY <2>6 DEF n, Buffer
<1> QED BY <1>4, <1>5

\* A read gives the sectors of the disk, which are all in it.
LEMMA AnswerOfRead ==
  ASSUME NInv, Way, OfDisk, ncr.call = "device", pc = "idle", mac.cdb.op \in ReadOps
  PROVE  \A i \in 1 .. Wants : i - 1 \in DOMAIN Answer /\ Answer[i - 1] = Expected(i)
<1>1. Command = mac.cdb /\ mac.cdb \in AllCdbs BY DEF Way, Calling, MacType
<1>2. mac.cdb.len \in 0 .. MaxLen /\ MaxLen \in Nat /\ mac.cdb.lba \in Int
  BY <1>1, CdbType, ScsiAssumption DEF F!SizeAssumption
<1>3. CASE mac.cdb.op = "read"
  <2>1. Wants = mac.cdb.len /\ Answer = [i \in 0 .. mac.cdb.len - 1 |-> flash[mac.cdb.lba + i]]
    BY <1>1, <1>3 DEF Wants, Answer
  <2>2. \A i : Expected(i) = flash[mac.cdb.lba + i - 1] BY <1>3 DEF Expected
  <2>3. ASSUME NEW i \in 1 .. mac.cdb.len
        PROVE  i - 1 \in DOMAIN Answer /\ Answer[i - 1] = Expected(i)
    <3>1. i - 1 \in 0 .. mac.cdb.len - 1 /\ mac.cdb.lba + (i - 1) = mac.cdb.lba + i - 1 BY <1>2
    <3> QED BY <2>1, <2>2, <3>1
  <2> QED BY <2>1, <2>3
<1>4. CASE mac.cdb.op = "inquiry"
  <2>1. Wants = 1 /\ Answer = [i \in {0} |-> Identity] BY <1>1, <1>4 DEF Wants, Answer
  <2> QED BY <1>4, <2>1 DEF Expected
<1>5. CASE mac.cdb.op = "capacity"
  <2>1. Wants = 1 /\ Answer = [i \in {0} |-> Capacity] BY <1>1, <1>5 DEF Wants, Answer
  <2> QED BY <1>5, <2>1 DEF Expected
<1> QED BY <1>3, <1>4, <1>5 DEF ReadOps

\* What the disk answers with is data.
LEMMA AnswerType ==
  ASSUME Way, OfDisk, ncr.call = "device", pc = "idle"
  PROVE  \A n \in DOMAIN Answer : Answer[n] \in Contents
<1>1. Command = mac.cdb /\ mac.cdb \in AllCdbs BY DEF Way, Calling, MacType
<1>2. /\ mac.cdb.len \in 0 .. MaxLen /\ MaxLen \in Nat /\ mac.cdb.lba \in 0 .. Size /\ Size \in Nat
  BY <1>1, CdbType, ScsiAssumption DEF F!SizeAssumption
<1>3. F!Disk = flash /\ flash \in [F!Lba -> Contents]
  <2>1. F!Disk = [s \in F!Lba |-> flash[s]] BY DEF F!Disk
  <2> QED BY <2>1 DEF OfDisk, Driver, F!TypeOK
<1>4. CASE mac.cdb.op = "read"
  <2>1. Answer = [i \in 0 .. mac.cdb.len - 1 |-> flash[mac.cdb.lba + i]]
    BY <1>1, <1>4 DEF Answer
  <2>2. mac.cdb.lba + mac.cdb.len <= Size BY <1>4 DEF OfDisk, Driver, InDisk
  <2>3. \A i \in 0 .. mac.cdb.len - 1 : mac.cdb.lba + i \in F!Lba BY <1>2, <2>2 DEF F!Lba
  <2> QED BY <1>3, <2>1, <2>3
<1>5. CASE mac.cdb.op # "read"
  <2>1. Answer \in {[i \in {0} |-> Identity], [i \in {0} |-> Capacity], [i \in {} |-> Blank]}
    BY <1>1, <1>5 DEF Answer
  <2> QED BY <2>1 DEF Contents
<1> QED BY <1>4, <1>5

\* The driver is done: every sector of a write is on the disk.
LEMMA WriteOnDisk ==
  ASSUME Way, OfDisk, ncr.call = "device", pc = "idle", mac.cdb.op = "write"
  PROVE  \A i \in 1 .. mac.cdb.len : flash[mac.cdb.lba + i - 1] = Buffer(i)
<1>1. job.len = 0 /\ job.lba \in Int
  BY ScsiAssumption DEF OfDisk, Driver, F!TypeOK, F!SizeAssumption
<1>2. DOMAIN Todo = {} BY <1>1 DEF Todo, F!Todo
<1>3. F!Disk = [s \in F!Lba |-> flash[s]] BY DEF F!Disk
<1> SUFFICES ASSUME NEW i \in 1 .. mac.cdb.len PROVE flash[mac.cdb.lba + i - 1] = Buffer(i)
  OBVIOUS
<1>4. Kept(mac.cdb.lba + i - 1, Buffer(i)) BY DEF OfDisk, Writing
<1> QED BY <1>2, <1>3, <1>4 DEF Kept

\* A command that ends has done what the Mac asked for.
LEMMA EndKeeps ==
  ASSUME NInv, Way, OfDisk, EndCommand, mac' = mac
  PROVE  Way' /\ OfDisk'
<1> USE DEF Ats, Quiet, Talking, Choosing, CommandAts, InAts, OutAts, StatusAts, MsgAts, Resets
<1>1. ncr.call = "device" /\ pc = "idle" /\ hd' = hd
  <2>1. ncr.call \in {"none", "device"} BY DEF NInv, N!TypeOK, N!NcrState
  <2> QED BY <2>1 DEF EndCommand, N!Return, N!Running
<1>2. /\ \/ mac.at = "command" /\ ncr.next = {"CD"} /\ mac.cdb.op = "write"
         \/ mac.at = "inStart" /\ ncr.next = {"IO"} /\ mac.cdb.op \in ReadOps
         \/ mac.at = "status" /\ ncr.next = {"CD", "IO"} /\ mac.cdb.op = "write"
      /\ mac.runs = 1 /\ Command = mac.cdb /\ mac.cdb \in AllCdbs
  BY <1>1 DEF Way, Calling, MacType
<1> DEFINE next == ncr.next
<1>3. /\ Kept3 /\ Kept4 /\ ncr'.tcr = next /\ ncr'.buf = N!BufferOf(next)
      /\ ncr'.mem = Memory /\ ncr'.bufpos = 0 /\ ncr'.call = "none"
      /\ N!BufferOf(next) # "none" => ncr'.din = Memory[<<N!BufferOf(next), 0>>]
  <2>1. ncr' = N!Enter(next, Memory, Length) BY DEF EndCommand, N!Return
  <2> HIDE DEF next
  <2> QED BY <2>1, EnterFields
<1>4. /\ next = {"CD"} => ncr'.buf = "cmd"
      /\ next = {"IO"} => ncr'.buf = "data"
      /\ next = {"CD", "IO"} => ncr'.buf = "cmd" /\ ncr'.din = Memory[<<"cmd", 0>>]
  BY <1>3, PhaseBuffer
<1>5. Command' = IF mac.cdb.op # "inquiry" THEN Zero ELSE mac.cdb
  BY <1>2, <1>3, LeftBehind DEF Command, N!Cdb
<1>6. \A i \in 1 .. MaxLen :
        Buffer(i)' = IF i - 1 \in DOMAIN Answer THEN Answer[i - 1] ELSE Buffer(i)
  BY <1>3, LeftBehind DEF Buffer
<1>7. mac.status = "none" /\ mac.got = <<>>
  BY <1>2 DEF Way, StatusRead, OfDisk, Reading, ReadOps
<1>8. Zero \in AllCdbs BY DEF AllCdbs
<1>9. ncr'.din = Command' \/ next # {"CD", "IO"}
  BY <1>2, <1>4, <1>5, LeftBehind
<1>10. /\ {"CD"} # {} /\ {"IO"} # {} /\ {"CD", "IO"} # {}
       /\ {"CD"} # {"CD", "IO"} /\ {"IO"} # {"CD", "IO"}
  <2>1. "CD" \notin {"IO"} /\ "IO" \notin {"CD"}
    OBVIOUS
  <2> QED BY <2>1
<1> HIDE DEF next
<1>11. MacType' /\ Bus' BY <1>2, <1>3 DEF Way, MacType, Bus, Kept3, Kept4
<1>12. PhaseRight' BY <1>2, <1>3, <1>4, <1>10 DEF next, Way, PhaseRight
<1>13. Ran'
  <2>1. Command' \in AllCdbs BY <1>2, <1>5, <1>8
  <2> QED BY <1>2, <1>3, <1>5, <1>9, <1>10, <2>1 DEF next, Way, Ran, ReadOps
<1>14. Pending' /\ Calling' /\ StatusRead' /\ StatusOfCommand'
  BY <1>2, <1>3, <1>7, <1>10 DEF next, Pending, Calling, StatusRead, StatusOfCommand
<1>15. DataCells' BY <1>1, <1>6, AnswerType DEF OfDisk, DataCells
<1>16. /\ flash' = flash /\ secdat' = secdat /\ job' = job /\ pc' = pc /\ out' = out
  BY <1>1 DEF hd
<1>17. Driver' /\ Writing'
  <2>1. F!Disk' = F!Disk BY <1>16 DEF F!Disk, F!InBlock, F!Block, F!Lba
  <2>2. F!TypeOK' /\ F!BufferHoldsBlock'
    BY <1>16 DEF OfDisk, Driver, F!TypeOK, F!BufferHoldsBlock
  <2>3. F!Disk' \in [F!Lba -> Contents] BY <2>1 DEF OfDisk, Driver
  <2> QED BY <1>1, <1>3, <1>16, <2>2, <2>3 DEF Driver, Writing, F!Lba
<1>18. ReadsTheDisk' /\ WriteDone' BY <1>7 DEF ReadsTheDisk, WriteDone
<1>19. Sending' BY <1>2, <1>3 DEF OfDisk, Sending, Sent, ReadOps
<1>20. Written'
  <2> SUFFICES ASSUME mac.at = "status", mac.cdb.op = "write", Sent = mac.cdb.len PROVE OnDisk'
    BY <1>2 DEF Written, Sent
  <2>1. mac.sent \in Seq(Sectors) BY DEF Way, MacType
  <2>2. \A i \in 1 .. Len(mac.sent) : Buffer(i) = mac.sent[i]
    BY <1>1 DEF OfDisk, Sending, Buffered, Sent
  <2>3. \A i \in 1 .. mac.cdb.len : flash[mac.cdb.lba + i - 1] = Buffer(i) BY <1>1, WriteOnDisk
  <2>4. \A i \in DOMAIN mac.sent : flash[mac.cdb.lba + i - 1] = mac.sent[i]
    BY <2>1, <2>2, <2>3 DEF Sent
  <2> QED BY <1>16, <2>4 DEF OnDisk
<1>21. Reading'
  <2> SUFFICES ASSUME mac.at = "inStart" PROVE Answers' /\ 0 <= Wants
    BY <1>2, <1>3, <1>7 DEF Reading, Wants
  <2>1. mac.cdb.op \in ReadOps BY <1>2
  <2>2. Wants \in 0 .. MaxLen
    BY <1>2, CdbType, ScsiAssumption DEF Wants, F!SizeAssumption
  <2>3. \A i \in 1 .. Wants : i \in 1 .. MaxLen
    BY <2>2, ScsiAssumption DEF F!SizeAssumption
  <2>4. \A i \in 1 .. Wants : Buffer(i)' = Expected(i) BY <1>1, <1>6, <2>1, <2>3, AnswerOfRead
  <2>5. Wants' = Wants /\ \A i : Expected(i)' = Expected(i) BY <1>16 DEF Wants, Expected
  <2>6. Answers' BY <2>4, <2>5 DEF Answers
  <2> QED BY <2>2, <2>6, ScsiAssumption DEF F!SizeAssumption
<1> QED BY <1>11, <1>12, <1>13, <1>14, <1>15, <1>17, <1>18, <1>19, <1>20, <1>21 DEF Way, OfDisk

-----------------------------------------------------------------------------
(* The Mac is one of the programs the controller is proved for.            *)

\* The accesses of any program.
LEMMA Accesses ==
  /\ \A val \in N!Units, dack \in BOOLEAN : N!WriteData(val, dack) => N!Any
  /\ \A dack \in BOOLEAN : N!ReadData(dack) => N!Any
  /\ N!ReadIni => N!Any
  /\ \A val \in SUBSET N!Lines : N!WriteIni(val) => N!Any
  /\ \A val \in SUBSET {"ARB", "DMA"} : N!WriteMode(val) => N!Any
  /\ \A val \in SUBSET (N!Phase \cup {"REQ"}) : N!WriteTcr(val) \/ N!Call(val) => N!Any
  /\ \A mem \in N!Contents, len \in Nat : N!Return(mem, len) => N!Any
BY Zenon DEF N!Any

LEMMA UnitsOfMac ==
  /\ Own \in N!Units /\ Ids \subseteq N!Units /\ Cdbs \subseteq N!Units
  /\ Sectors \subseteq N!Units
BY DEF N!Units, AllCdbs, Contents

LEMMA LinesOfMac ==
  /\ {"SEL", "BSY", "DBUS"} \in SUBSET N!Lines /\ {"SEL", "DBUS"} \in SUBSET N!Lines
  /\ {} \in SUBSET N!Lines /\ {"ACK", "DBUS"} \in SUBSET N!Lines /\ {"ACK"} \in SUBSET N!Lines
  /\ {"RST"} \in SUBSET N!Lines
BY DEF N!Lines

LEMMA PhaseIsAny ==
  ASSUME NEW from, NEW to, NEW val \in Phases, Change(from, to, val)
  PROVE  N!Any
<1>1. val \in SUBSET (N!Phase \cup {"REQ"}) BY DEF Phases, Msg, N!Phase
<1> QED BY <1>1, Accesses DEF Change, BeginCommand

LEMMA MacIsProgram ==
  ASSUME Mac
  PROVE  N!Any
<1>1. TRUE \in BOOLEAN /\ FALSE \in BOOLEAN
  OBVIOUS
<1>2. {"ARB"} \in SUBSET {"ARB", "DMA"} /\ {"DMA"} \in SUBSET {"ARB", "DMA"}
      /\ {} \in SUBSET {"ARB", "DMA"}
  OBVIOUS
<1>3. /\ {} \in Phases /\ {"CD"} \in Phases /\ {"IO"} \in Phases /\ {"CD", "IO"} \in Phases
      /\ {"CD", "IO", "MSG"} \in Phases
  BY DEF Phases, Msg
<1>4. {} \in SUBSET (N!Phase \cup {"REQ"})
  OBVIOUS
<1>5. CASE Arbitrate BY <1>1, <1>2, <1>5, Accesses, UnitsOfMac, Zenon DEF Arbitrate
<1>6. CASE Select
  <2>1. CASE \E id \in Ids : N!WriteData(id, FALSE)
    BY <1>1, <2>1, Accesses, UnitsOfMac
  <2>2. CASE N!WriteIni({"SEL", "BSY", "DBUS"}) \/ N!WriteMode({}) \/ N!WriteIni({"SEL", "DBUS"})
             \/ N!WriteIni({})
    BY <1>2, <2>2, Accesses, LinesOfMac, Zenon
  <2> QED BY <1>6, <2>1, <2>2, Zenon DEF Select
<1>7. CASE SendCdb
  <2>1. CASE \E c \in Cdbs : N!WriteData(c, FALSE)
    BY <1>1, <2>1, Accesses, UnitsOfMac
  <2>2. CASE N!WriteIni({"ACK", "DBUS"}) \/ N!WriteIni({})
    BY <2>2, Accesses, LinesOfMac, Zenon
  <2>3. CASE Change("selected", "command", {"CD"}) BY <1>3, <2>3, PhaseIsAny
  <2> QED BY <1>7, <2>1, <2>2, <2>3, Zenon DEF SendCdb
<1>8. CASE DataIn
  <2>1. CASE Change("sent", "inStart", {"IO"}) BY <1>3, <2>1, PhaseIsAny
  <2>2. CASE N!WriteMode({"DMA"}) \/ N!WriteMode({}) \/ N!ReadData(TRUE)
    BY <1>1, <1>2, <2>2, Accesses, Zenon
  <2> QED BY <1>8, <2>1, <2>2, Zenon DEF DataIn
<1>9. CASE DataOut
  <2>1. CASE Change("sent", "out", {}) BY <1>3, <2>1, PhaseIsAny
  <2>2. CASE \E s \in Sectors, dma \in BOOLEAN : N!WriteData(s, dma)
    BY <2>2, Accesses, UnitsOfMac
  <2>3. CASE N!WriteMode({"DMA"}) \/ N!WriteMode({}) BY <1>2, <2>3, Accesses, Zenon
  <2>4. CASE N!WriteIni({"ACK", "DBUS"}) \/ N!WriteIni({})
    BY <2>4, Accesses, LinesOfMac, Zenon
  <2> QED BY <1>9, <2>1, <2>2, <2>3, <2>4, Zenon DEF DataOut
<1>10. CASE Finish
  <2>1. CASE \/ Change("dataDone", "status", {"CD", "IO"}) \/ Change("sent", "status", {"CD", "IO"})
             \/ Change("message", "msgAck", {"CD", "IO", "MSG"})
    BY <1>3, <2>1, PhaseIsAny
  <2>2. CASE N!ReadData(FALSE) BY <1>1, <2>2, Accesses, Zenon
  <2>3. CASE N!WriteIni({"ACK"}) \/ N!WriteIni({}) BY <2>3, Accesses, LinesOfMac, Zenon
  <2> QED BY <1>10, <2>1, <2>2, <2>3, Zenon DEF Finish
<1>11. CASE Reset
  <2>1. N!WriteIni({"RST"}) \/ N!WriteIni({}) \/ N!WriteMode({}) \/ N!WriteTcr({})
    BY <1>11, Zenon DEF Reset
  <2> QED BY <1>2, <1>4, <2>1, Accesses, LinesOfMac, Zenon
<1> QED BY <1>5, <1>6, <1>7, <1>8, <1>9, <1>10, <1>11 DEF Mac

\* What the disk answers with are units of data.
LEMMA AnswerIsAny ==
  ASSUME NInv, Way, OfDisk, EndCommand
  PROVE  N!Any
<1>1. ncr.call = "device" /\ pc = "idle"
  <2>1. ncr.call \in {"none", "device"} BY DEF NInv, N!TypeOK, N!NcrState
  <2> QED BY <2>1 DEF EndCommand, N!Return, N!Running
<1>2. \A n \in DOMAIN Answer : Answer[n] \in N!Units
  <2>1. Contents \subseteq N!Units BY DEF N!Units
  <2> QED BY <1>1, <2>1, AnswerType
<1>3. ncr.mem \in [N!Places -> N!Units] BY DEF NInv, N!TypeOK, N!NcrState, N!Contents
<1>4. \A p : Answered(p) => p[2] \in DOMAIN Answer BY DEF Answered
<1>5. Memory \in [N!Places -> N!Units] BY <1>2, <1>3, <1>4, UnitTypes DEF Memory
<1>6. Length \in Nat
  <2>1. Command \in AllCdbs BY DEF Way, Ran
  <2> QED BY <2>1, CdbType, ScsiAssumption DEF Length, F!SizeAssumption
<1> QED BY <1>5, <1>6, Accesses DEF EndCommand, N!Contents

\* The registers and buffers of a controller just started.
LEMMA PowerUpFields ==
  /\ N!PowerUp.state = "IDLE" /\ N!PowerUp.tcr = {} /\ N!PowerUp.bufpos = 0
  /\ N!PowerUp.call = "none" /\ N!PowerUp.mem[<<"cmd", 0>>] = Zero
  /\ \A i \in 1 .. MaxLen : N!PowerUp.mem[<<"data", i - 1>>] = Blank
<1>1. 0 \in Nat /\ "cmd" \in N!Buffers /\ 0 < Sizes["cmd"] BY DEF N!Buffers, Sizes
<1>2. <<"cmd", 0>> \in N!Places BY <1>1, PlaceType
<1>3. ASSUME NEW i \in 1 .. MaxLen PROVE <<"data", i - 1>> \in N!Places
  <2> DEFINE n == i - 1
  <2>1. n \in Nat /\ n < Sizes["data"] /\ "data" \in N!Buffers
    BY ScsiAssumption DEF Sizes, N!Buffers, F!SizeAssumption
  <2> HIDE DEF n
  <2>2. <<"data", n>> \in N!Places BY <2>1, PlaceType
  <2> QED BY <2>2 DEF n
<1>4. N!PowerUp.mem = [p \in N!Places |-> IF p[1] = "data" THEN Blank ELSE Zero]
  BY DEF N!PowerUp
<1>5. N!PowerUp.mem[<<"cmd", 0>>] = Zero BY <1>2, <1>4
<1>6. \A i \in 1 .. MaxLen : N!PowerUp.mem[<<"data", i - 1>>] = Blank BY <1>3, <1>4
<1> QED BY <1>5, <1>6 DEF N!PowerUp

\* The state of a power up: nothing called, nothing pending.
AtStart ==
  /\ ncr = N!PowerUp /\ mac = AtRest /\ pc = "idle"
  /\ F!TypeOK /\ F!BufferHoldsBlock /\ F!Disk \in [F!Lba -> Contents]

\* Such a start is a good one, whatever the disk holds,
LEMMA StartsGood == AtStart => IInv
<1> SUFFICES ASSUME AtStart PROVE IInv
  OBVIOUS
<1> USE DEF Ats, Quiet, Talking, Choosing, CommandAts, InAts, OutAts, StatusAts, MsgAts, Resets
<1>1. NInv BY InitHolds DEF AtStart, N!Init
<1>2. /\ ncr.state = "IDLE" /\ ncr.tcr = {} /\ ncr.bufpos = 0 /\ ncr.call = "none"
      /\ Command = Zero /\ \A i \in 1 .. MaxLen : Buffer(i) = Blank
  BY PowerUpFields DEF AtStart, Command, N!Cdb, Buffer
<1>3. /\ mac.at = "free" /\ mac.got = <<>> /\ mac.status = "none" /\ mac.sent = <<>>
  BY DEF AtStart, AtRest
<1>4. <<>> \in Seq(N!Units) /\ <<>> \in Seq(Sectors) /\ FirstId \in Ids /\ Zero \in AllCdbs
  BY ScsiAssumption DEF AllCdbs
<1>5. MacType BY <1>4 DEF AtStart, AtRest, MacType
<1>6. Bus /\ PhaseRight /\ Ran /\ Pending /\ Calling /\ StatusRead /\ StatusOfCommand
  BY <1>2, <1>3, <1>4 DEF Bus, PhaseRight, Ran, Pending, Calling, StatusRead, StatusOfCommand
<1>7. DataCells BY <1>2 DEF DataCells, Contents
<1>8. Driver /\ Writing BY <1>2 DEF AtStart, Driver, Writing
<1>9. Sending /\ Written /\ Reading /\ ReadsTheDisk /\ WriteDone
  BY <1>3 DEF Sending, Written, Reading, ReadsTheDisk, WriteDone
<1> QED BY <1>1, <1>5, <1>6, <1>7, <1>8, <1>9 DEF IInv, Way, OfDisk

\* the first with a disk never written,
LEMMA InitGood == Init => IInv
<1> SUFFICES ASSUME Init PROVE IInv
  OBVIOUS
<1>1. FP!Init BY SameBlocks DEF Init, F!Init, FP!Init, F!Nothing, FP!Nothing, F!NoJob, FP!NoJob
<1>2. F!TypeOK /\ F!BufferHoldsBlock BY <1>1, FlashAssumptions, FP!InitInv, SameInv
<1>3. flash \in [F!Lba -> Contents] /\ pc = "idle" BY DEF Init, F!Init
<1>4. F!Disk = flash BY <1>3 DEF F!Disk
<1>5. AtStart BY <1>2, <1>3, <1>4 DEF AtStart, Init, N!Init
<1> QED BY <1>5, StartsGood

\* The emulator starts again; the flash is as the failed command found it.
LEMMA RestartKeeps ==
  ASSUME IInv, Restart
  PROVE  IInv' /\ F!Next
<1>1. /\ F!TypeOK /\ F!BufferHoldsBlock /\ F!Disk \in [F!Lba -> Contents] /\ pc = "aborted"
      /\ F!PowerLoss
  BY DEF IInv, OfDisk, Driver, Restart
<1>2. FP!PowerLoss
  BY <1>1, SameBlocks DEF F!PowerLoss, FP!PowerLoss, F!Torn, FP!Torn, F!NoJob, FP!NoJob,
     F!Nothing, FP!Nothing
<1>3. FP!Inv BY <1>1, SameInv
<1>4. FP!Inv' BY <1>2, <1>3, FlashAssumptions, FP!PowerLossInv
<1>5. F!TypeOK' /\ F!BufferHoldsBlock' BY <1>4, SameInv, PTL
<1>6. flash' = flash /\ pc' = "idle" BY <1>1 DEF F!PowerLoss, F!Torn
<1>7. F!Disk' = F!Disk BY <1>1, <1>6 DEF F!Disk
<1>8. AtStart' BY <1>1, <1>5, <1>6, <1>7 DEF AtStart, Restart, F!Lba
<1>9. IInv' BY <1>8, StartsGood, PTL
<1>10. F!Next BY <1>1 DEF F!Next
<1> QED BY <1>9, <1>10

-----------------------------------------------------------------------------
(* The invariant holds of every run.                                       *)

\* A move of the Mac, whether it calls the disk or not.
LEMMA MacKeeps ==
  ASSUME IInv, Mac
  PROVE  IInv' /\ [F!Next]_hd
<1>1. NInv /\ Way /\ OfDisk BY DEF IInv
<1>2. NInv' BY <1>1, MacIsProgram, StepKeeps
<1>3. CASE ncr'.call = "none"
  <2>1. Way' /\ OfDisk'
    BY <1>1, <1>3, ArbitrateKeeps, SelectKeeps, SendCdbKeeps, DataInKeeps, DataOutKeeps,
       FinishKeeps, ResetKeeps DEF Mac
  <2>2. hd' = hd
    <3>1. \A from, to : At(from, to) => hd' = hd BY DEF At
    <3>2. \A from, to, val : Change(from, to, val) => hd' = hd
      BY <1>1, <1>3, CallFields DEF Change, BeginCommand
    <3>3. CASE Arbitrate \/ Select \/ Reset BY <3>1, <3>3, Zenon DEF Arbitrate, Select, Reset
    <3>4. CASE SendCdb BY <3>1, <3>2, <3>4, Zenon DEF SendCdb
    <3>5. CASE DataIn BY <3>1, <3>2, <3>5, Zenon DEF DataIn
    <3>6. CASE DataOut BY <3>1, <3>2, <3>6, Zenon DEF DataOut
    <3>7. CASE Finish BY <3>1, <3>2, <3>7, Zenon DEF Finish
    <3> QED BY <3>3, <3>4, <3>5, <3>6, <3>7 DEF Mac
  <2> QED BY <1>2, <2>1, <2>2 DEF IInv
<1>4. CASE ncr'.call # "none"
  <2>1. \E to, val : CallBy(to, val) BY <1>1, <1>4, WhoCalls
  <2>2. Way' /\ OfDisk' /\ [F!Next]_hd BY <1>1, <2>1, CallKeeps
  <2> QED BY <1>2, <2>2 DEF IInv
<1> QED BY <1>3, <1>4

\* A step in which nothing moves keeps the disk's half.
LEMMA StillOfDisk ==
  ASSUME OfDisk, ncr' = ncr, mac' = mac, flash' = flash, secdat' = secdat, job' = job, pc' = pc,
         out' = out
  PROVE  OfDisk'
<1>1. /\ DataCells /\ Driver /\ Writing /\ Sending /\ Written /\ Reading /\ ReadsTheDisk
      /\ WriteDone
  BY DEF OfDisk
<1>2. \A i : Buffer(i)' = Buffer(i) BY DEF Buffer
<1>3. DataCells' BY <1>1, <1>2 DEF DataCells, Buffer
<1>4. F!Disk' = F!Disk BY DEF F!Disk
<1>5. Todo' = Todo BY DEF Todo, F!Todo
<1>6. F!TypeOK' BY <1>1 DEF Driver, F!TypeOK
<1>7. F!BufferHoldsBlock' BY <1>1 DEF Driver, F!BufferHoldsBlock
<1>8. Driver' BY <1>1, <1>4, <1>6, <1>7 DEF Driver
<1>9. Writing' BY <1>1, <1>4, <1>5 DEF Writing, Kept, Buffer
<1>10. Sending' BY <1>1 DEF Sending, Sent, Buffered, Buffer
<1>11. Written' BY <1>1 DEF Written, OnDisk, Sent
<1>12. Reading' BY <1>1 DEF Reading, Answers, Buffer, Wants, Expected
<1>13. ReadsTheDisk' BY <1>1 DEF ReadsTheDisk, Expected
<1>14. WriteDone' BY <1>1 DEF WriteDone
<1> QED BY <1>3, <1>8, <1>9, <1>10, <1>11, <1>12, <1>13, <1>14 DEF OfDisk

\* Every step keeps the invariant, and is one of the driver's or none of them.
LEMMA NextKeeps == IInv /\ [Next]_vars => IInv' /\ [F!Next]_hd
<1> SUFFICES ASSUME IInv, [Next]_vars PROVE IInv' /\ [F!Next]_hd
  OBVIOUS
<1>1. NInv /\ Way /\ OfDisk BY DEF IInv
<1>2. CASE Mac BY <1>2, MacKeeps
<1>3. CASE Flash /\ UNCHANGED <<ncr, mac>>
  <2>1. NInv' BY <1>1, <1>3, StepKeeps
  <2>2. F!Next BY <1>3 DEF Flash, F!Next
  <2> QED BY <1>1, <1>3, <2>1, <2>2, FlashKeeps DEF IInv
<1>4. CASE EndCommand /\ UNCHANGED mac
  <2>1. NInv' BY <1>1, <1>4, AnswerIsAny, StepKeeps
  <2>2. hd' = hd BY <1>4 DEF EndCommand
  <2> QED BY <1>1, <1>4, <2>1, <2>2, EndKeeps DEF IInv
<1>5. CASE Restart BY <1>5, RestartKeeps
<1>6. CASE UNCHANGED vars
  <2>1. ncr' = ncr /\ hd' = hd /\ mac' = mac BY <1>6 DEF vars
  <2>2. NInv' BY <1>1, <2>1, StepKeeps
  <2>3. Way'
    BY <1>1, <2>1 DEF Way, MacType, Bus, PhaseRight, Ran, Pending, Calling, StatusRead,
       StatusOfCommand, Command, N!Cdb
  <2>4. CASE ncr.call = "none"
    <3>1. DataKept BY <2>1 DEF DataKept
    <3>2. OfDisk'
      BY <1>1, <2>1, <2>4, <3>1, DiskKept DEF OfDisk, Sending, Written, Reading
    <3> QED BY <2>1, <2>2, <2>3, <3>2 DEF IInv
  <2>5. CASE ncr.call # "none"
    <3>1. /\ flash' = flash /\ secdat' = secdat /\ job' = job /\ pc' = pc /\ out' = out
      BY <2>1 DEF hd
    <3>2. OfDisk' BY <1>1, <2>1, <3>1, StillOfDisk
    <3> QED BY <2>1, <2>2, <2>3, <3>2 DEF IInv
  <2> QED BY <2>4, <2>5
<1> QED BY <1>2, <1>3, <1>4, <1>5, <1>6 DEF Next

\* The inductive invariant of the composition.
THEOREM IInvHolds == Spec => []IInv
<1>1. IInv /\ [Next]_vars => IInv' BY NextKeeps
<1> QED BY InitGood, <1>1, PTL DEF Spec

\* Controller: behind every command of this Mac the controller keeps to its types,
\* its pointer to the buffer of the phase, and transfers only with a device selected.
THEOREM ControllerHolds == Spec => []Controller
<1>1. IInv => Controller BY DEF IInv, NInv, Controller
<1> QED BY IInvHolds, <1>1, PTL

\* ReadsTheDisk: what the Mac has read of a command's data is, unit by unit, what the
\* flash holds of the sectors it asked for (ncr_read of the buffer hdScsiCmd has filled).
THEOREM ReadsAreOfDisk == Spec => []ReadsTheDisk
<1>1. IInv => ReadsTheDisk BY DEF IInv, OfDisk
<1> QED BY IInvHolds, <1>1, PTL

\* WriteDone: once the Mac reads a status of a write it has sent all data of, these data
\* are in flash, although the status is of the change of phase and not of the data.
THEOREM WritesAreDone == Spec => []WriteDone
<1>1. IInv => WriteDone BY DEF IInv, OfDisk
<1> QED BY IInvHolds, <1>1, PTL

\* CalledOnce: hdScsiCmd runs at most once for a descriptor, for the one sent last, on
\* the device the Mac has selected last, whatever resets came between.
THEOREM CommandsRunOnce == Spec => []CalledOnce
<1>1. ASSUME IInv PROVE CalledOnce
  <2>1. SUFFICES ASSUME ncr.call = "device"
                 PROVE  Command = mac.cdb /\ mac.runs = 1 /\ ncr.selected = mac.id
    BY DEF CalledOnce
  <2>2. Calling /\ Bus BY <1>1 DEF IInv, Way
  <2>3. mac.at \in {"command", "inStart", "status"} /\ mac.runs = 1 /\ Command = mac.cdb
    BY <2>1, <2>2 DEF Calling
  <2>4. mac.at \in Talking BY <2>3 DEF Talking, CommandAts, InAts, StatusAts
  <2> QED BY <2>2, <2>3, <2>4 DEF Bus
<1> QED BY IInvHolds, <1>1, PTL

\* StatusOfCommand: the status byte is always that of the command given last.
THEOREM StatusIsOfCommand == Spec => []StatusOfCommand
<1>1. IInv => StatusOfCommand BY DEF IInv, Way
<1> QED BY IInvHolds, <1>1, PTL

\* DrivesFlash: the composition implements the flash driver's specification: every call
\* the controller makes of it is one that FlashHd, and so the block disk, allows.
THEOREM DriverIsDriven == Spec => DrivesFlash
<1>1. Init => F!Init BY DEF Init
<1>2. IInv /\ [Next]_vars => [F!Next]_(F!vars) BY NextKeeps DEF F!vars, hd
<1> QED BY IInvHolds, <1>1, <1>2, PTL DEF Spec, DrivesFlash, F!Spec

\* The disk as the Mac sees it through the controller is the sector-wise disk of
\* BlockDisk: commands change their sectors in ascending order, each to its data.
THEOREM BehindController == Spec => FP!IsDisk
<1>1. Init => FP!Init
  BY SameBlocks DEF Init, F!Init, FP!Init, F!Nothing, FP!Nothing, F!NoJob, FP!NoJob
<1>2. IInv /\ [Next]_vars => [FP!Next]_(FP!vars) BY NextKeeps, SameNext DEF FP!vars, hd
<1>3. Spec => FP!Spec BY IInvHolds, <1>1, <1>2, PTL DEF Spec, FP!Spec
<1>4. FP!Spec => FP!IsDisk BY FlashAssumptions, FP!Refinement
<1> QED BY <1>3, <1>4, PTL
=============================================================================
