-------------------------------- MODULE Scc --------------------------------
(***************************************************************************)
(* The Zilog 8530 serial controller of the emulated Mac, components/tme/   *)
(* scc.c: two channels that carry the mouse quadrature lines (DCD) and the *)
(* LocalTalk frames.  The whole of `static Scc scc' is one record, each C  *)
(* function is an operator from a record to a record, and each entry point *)
(* (a register access of the 68k, sccTick, sccSetDcd, sccRecv) is one      *)
(* action.                                                                 *)
(*                                                                         *)
(* Abstractions.  A frame is its first byte (the LLAP destination) and its *)
(* length; register values are the fields the code tests; WR2 and WR9 only *)
(* shape the vector that RR2 returns and are left out, as are the fields   *)
(* the code writes and never reads (eofIntPending, intpendingOld, rxDelay, *)
(* guard).  Timers are the code's numbers, in SCC ticks.                   *)
(***************************************************************************)
EXTENDS Integers, Sequences, FiniteSets

CONSTANTS
  NoRxBuf,      (* NO_RXBUF: receive buffers of a channel                  *)
  TickLen,      (* the argument of sccTick, 100 in emu.c                   *)
  LinkChans,    (* channels frames from the network arrive on              *)
  LinkFrames,   (* those frames, [dest, len], len without the two CRC bytes *)
  LinkDelays,   (* the delays sccRecv is called with                       *)
  DriverChans,  (* channels the Mac's driver programs                       *)
  Addrs,        (* node addresses the driver may write to WR6              *)
  Wr1Values,    (* values of WR1, [ena, mode]                              *)
  Wr15Values,   (* values of WR15, sets of external/status conditions      *)
  LowCmds,      (* WR0 commands, bits 5..3, the driver issues              *)
  HighCmds,     (* WR0 commands, bits 7..6, the driver issues              *)
  Pointers,     (* WR0 register pointers, bits 2..0, the driver writes     *)
  TxBytes,      (* bytes the driver transmits                              *)
  MaxTx,        (* bound: bytes the driver writes before a frame is handed *)
                (* on (txData holds BUFLEN), and before the timer they add *)
                (* to is served                                            *)
  DcdChans,     (* channels whose DCD line the mouse moves                 *)
  LocalTalk,    (* TRUE: network/localtalk.c is linked; FALSE: its stub    *)
  Undefined     (* TRUE: the driver may make the accesses the code rejects *)

SCC_CHANA == 0
SCC_CHANB == 1
Chan == {SCC_CHANA, SCC_CHANB}

Broadcast == 255
RTS == 132               \* LLAP_TYPE_RTS
ExtFlags == {"BREAK", "EOM", "CTS", "SYNC", "DCD"}
Rr0Flags == ExtFlags \cup {"RX", "TXE"}
NotLatched == {}         \* rr0Latched = -1; a status always has TXE
Free == -1               \* RxBuf.delay of a free buffer

AllLowCmds == {"nop", "point_high", "reset_ext", "abort", "int_next",
               "reset_txint", "error_reset", "reset_ius"}
AllHighCmds == {"nop", "reset_rxcrc", "reset_txcrc", "reset_underrun"}

ASSUME RingAssumption == NoRxBuf \in Nat \ {0} /\ TickLen \in Nat \ {0}
ASSUME LinkAssumption ==
  /\ LinkChans \subseteq Chan
  /\ LinkFrames \subseteq [dest : Nat, len : Nat \ {0}]
  /\ LinkDelays \subseteq Nat \ {0}
ASSUME DriverAssumption ==
  /\ DriverChans \subseteq Chan /\ Addrs \subseteq Nat
  /\ Wr1Values \subseteq [ena : BOOLEAN, mode : 0 .. 3]
  /\ Wr15Values \subseteq SUBSET ExtFlags
  /\ LowCmds \subseteq AllLowCmds /\ HighCmds \subseteq AllHighCmds
  /\ Pointers \subseteq 0 .. 7
  /\ TxBytes \subseteq Nat /\ MaxTx \in Nat /\ MaxTx >= 3
  /\ DcdChans \subseteq Chan
  /\ LocalTalk \in BOOLEAN /\ Undefined \in BOOLEAN

VARIABLE scc
vars == <<scc>>

Buf == 0 .. NoRxBuf - 1
RxBuf == [delay : Int, len : Nat, dest : Nat]
SccChan ==
  [dcd : BOOLEAN, wr1 : [ena : BOOLEAN, mode : 0 .. 3], wr15 : SUBSET ExtFlags,
   sdlcaddr : Nat, hunting : BOOLEAN, txTimer : Nat,
   txData : [0 .. MaxTx - 1 -> Nat], txPos : 0 .. MaxTx,
   rx : [Buf -> RxBuf], rxBufCur : Buf, rxPos : Nat, eofDelay : Nat,
   rr0Latched : SUBSET Rr0Flags, rr0Prev : SUBSET Rr0Flags,
   rxAbrtTimer : Nat, rxEom : BOOLEAN, intOnNextRxChar : BOOLEAN]

(* The SCC state; irqs counts the calls of sccIrq(1) the last entry point   *)
(* made, exited whether the process has left through exit(1).               *)
SccState == [regptr : 0 .. 15, intpending : SUBSET (Chan \X {"EXT", "RX"}),
        chan : [Chan -> SccChan], irqs : Nat, exited : BOOLEAN]

-----------------------------------------------------------------------------
(* The receive ring of one channel.                                        *)

NextBuf(b) == IF b + 1 >= NoRxBuf THEN 0 ELSE b + 1

RxHasByte(ch) == ch.rx[ch.rxBufCur].delay = 0

\* Bug variants: the cursor is not rewound; the ring index is not advanced.
IgnoreRestKeepingPos(ch) ==
  IF ch.rxPos = 0 THEN ch
  ELSE [ch EXCEPT !.rx[ch.rxBufCur].delay = Free, !.rxBufCur = NextBuf(@)]
IgnoreRestInPlace(ch) ==
  IF ch.rxPos = 0 THEN ch
  ELSE [ch EXCEPT !.rx[ch.rxBufCur].delay = Free, !.rxPos = 0]

\* Gives up the current buffer, unless no byte of it has been read.
RxBufIgnoreRest(ch) ==
  IF ch.rxPos = 0 THEN ch
  ELSE [ch EXCEPT !.rx[ch.rxBufCur].delay = Free,
                  !.rxBufCur = NextBuf(@), !.rxPos = 0]

\* Bug variant: the byte being read counts as left.
BytesLeftWithCurrent(ch) == ch.rx[ch.rxBufCur].len - ch.rxPos

RxBytesLeft(ch) == ch.rx[ch.rxBufCur].len - ch.rxPos - 1

RxByte(ch) ==
  LET next == [ch EXCEPT !.rxPos = @ + 1]
  IN  IF next.rxPos = ch.rx[ch.rxBufCur].len THEN RxBufIgnoreRest(next) ELSE next

\* Only the delay of the current buffer runs.
RxBufTick(ch) ==
  LET d == ch.rx[ch.rxBufCur].delay
  IN  IF d > 0
        THEN [ch EXCEPT !.rx[ch.rxBufCur].delay = IF d > TickLen THEN d - TickLen ELSE 0]
        ELSE ch

RxBufExpires(ch) == ch.rx[ch.rxBufCur].delay \in 1 .. TickLen

\* The buffer k places after the current one.
Slot(ch, k) == IF ch.rxBufCur + k < NoRxBuf THEN ch.rxBufCur + k
                                            ELSE ch.rxBufCur + k - NoRxBuf

\* Bug variants: the search starts at buffer 0; a full ring is not noticed.
RecvFromZero(ch, frame, delay) ==
  LET free == {b \in Buf : ch.rx[b].delay = Free}
      first == CHOOSE b \in free : \A j \in free : b <= j
  IN  IF free = {} THEN ch
      ELSE [ch EXCEPT !.rx[first] =
              [delay |-> delay, len |-> frame.len + 2, dest |-> frame.dest]]
RecvWhenFull(ch, frame, delay) ==
  LET free == {k \in Buf : ch.rx[Slot(ch, k)].delay = Free}
      first == IF free = {} THEN 0 ELSE CHOOSE k \in free : \A j \in free : k <= j
  IN  [ch EXCEPT !.rx[Slot(ch, first)] =
         [delay |-> delay, len |-> frame.len + 2, dest |-> frame.dest]]

\* The first free buffer takes the frame and its two CRC bytes; with none
\* free the frame is dropped.
SccRecv(ch, frame, delay) ==
  LET free == {k \in Buf : ch.rx[Slot(ch, k)].delay = Free}
      first == CHOOSE k \in free : \A j \in free : k <= j
  IN  IF free = {} THEN ch
      ELSE [ch EXCEPT !.rx[Slot(ch, first)] =
              [delay |-> delay, len |-> frame.len + 2, dest |-> frame.dest]]

-----------------------------------------------------------------------------
(* Interrupts.                                                             *)

RaiseInt(s, n) == [s EXCEPT !.irqs = @ + (IF s.chan[n].wr1.ena THEN 1 ELSE 0)]

CalcRr0(ch) ==
  {"TXE", "CTS"}
    \cup (IF RxHasByte(ch) THEN {"RX"} ELSE {})
    \cup (IF ch.dcd THEN {"DCD"} ELSE {})
    \cup (IF ch.hunting THEN {"SYNC"} ELSE {})
    \cup (IF ch.txTimer = 0 THEN {"EOM"} ELSE {})
    \cup (IF ch.rxAbrtTimer \in 1 .. 19 THEN {"BREAK"} ELSE {})

Changed(ch) == (CalcRr0(ch) \ ch.rr0Prev) \cup (ch.rr0Prev \ CalcRr0(ch))

\* Bug variant: rr0Prev follows only the changes that interrupt.
CheckExtIntForgetful(s, n) ==
  LET rr0 == CalcRr0(s.chan[n])
  IN  IF Changed(s.chan[n]) \cap s.chan[n].wr15 # {} /\ <<n, "EXT">> \notin s.intpending
        THEN RaiseInt([s EXCEPT !.chan[n].rr0Prev = rr0, !.chan[n].rr0Latched = rr0,
                                !.intpending = @ \cup {<<n, "EXT">>}], n)
        ELSE s

CheckExtInt(s, n) ==
  LET rr0 == CalcRr0(s.chan[n])
      seen == [s EXCEPT !.chan[n].rr0Prev = rr0]
  IN  IF Changed(s.chan[n]) \cap s.chan[n].wr15 # {} /\ <<n, "EXT">> \notin s.intpending
        THEN RaiseInt([seen EXCEPT !.chan[n].rr0Latched = rr0,
                                   !.intpending = @ \cup {<<n, "EXT">>}], n)
        ELSE seen

WantsRxInt(ch) ==
  /\ ch.wr1.mode # 0
  /\ RxHasByte(ch)
  /\ \/ ch.intOnNextRxChar
     \/ ch.rxEom
     \/ ch.wr1.mode = 1 /\ ch.rxPos = 0
     \/ ch.wr1.mode = 2

CheckRxIntPending(s, n) ==
  LET ch == s.chan[n]
      pend == IF WantsRxInt(ch) THEN s.intpending \cup {<<n, "RX">>}
                                ELSE s.intpending \ {<<n, "RX">>}
  IN  RaiseInt([s EXCEPT !.intpending = pend,
                         !.chan[n].intOnNextRxChar = @ /\ ~RxHasByte(ch)], n)

\* Bug variant: no RX interrupt for the first byte of a frame.
TriggerRxSilent(s, n) ==
  LET ch == s.chan[n]
      buf == ch.rx[ch.rxBufCur]
  IN  IF buf.dest \in {Broadcast, ch.sdlcaddr}
        THEN [s EXCEPT !.chan[n].rxPos = 0, !.chan[n].hunting = FALSE,
                       !.chan[n].eofDelay = buf.len * 3]
        ELSE [s EXCEPT !.chan[n] = RxBufIgnoreRest(ch)]

\* The delay of the current buffer has run out: the frame reaches the
\* receiver.
TriggerRx(s, n) ==
  LET ch == s.chan[n]
      buf == ch.rx[ch.rxBufCur]
      atStart == [s EXCEPT !.chan[n].rxPos = 0]
      sync == IF "SYNC" \in ch.wr15
                THEN RaiseInt([atStart EXCEPT !.intpending = @ \cup {<<n, "EXT">>}], n)
                ELSE atStart
  IN  IF buf.dest \in {Broadcast, ch.sdlcaddr}
        THEN [CheckRxIntPending(sync, n) EXCEPT !.chan[n].hunting = FALSE,
                                                !.chan[n].eofDelay = buf.len * 3]
        ELSE [s EXCEPT !.chan[n] = RxBufIgnoreRest(ch)]

-----------------------------------------------------------------------------
(* Transmission.  localtalkSend looks at the LLAP header at the front of   *)
(* txData whatever the length; it answers an RTS that is not a broadcast   *)
(* with a CTS, on channel B, through sccRecv.  Its other packet types do   *)
(* not call back into the SCC.  The firmware links a stub.                 *)

LocaltalkSend(s, data) ==
  IF LocalTalk /\ data[2] = RTS /\ data[0] # Broadcast
    THEN [s EXCEPT !.chan[SCC_CHANB] = SccRecv(@, [dest |-> data[1], len |-> 3], 3)]
    ELSE s

SccTxFinished(s, n) ==
  [LocaltalkSend(s, s.chan[n].txData) EXCEPT !.chan[n].txPos = 0]

-----------------------------------------------------------------------------
(* sccTick, called once per main-loop round: per channel, the transmit     *)
(* timer, the receive delay, the end-of-frame delay and the abort timer.   *)

\* Bug variant: a timer runs below zero.
ElapseBelowZero(t) == IF t > 0 THEN t - TickLen ELSE t

Elapse(t) == IF t > TickLen THEN t - TickLen ELSE 0

TxTick(s, n) ==
  LET later == [s EXCEPT !.chan[n].txTimer = Elapse(@)]
  IN  IF s.chan[n].txTimer \in 1 .. TickLen THEN SccTxFinished(later, n) ELSE later

RxTick(s, n) ==
  LET later == [s EXCEPT !.chan[n] = RxBufTick(@)]
  IN  IF RxBufExpires(s.chan[n]) THEN TriggerRx(later, n) ELSE later

EofExpires(ch) == ch.eofDelay \in 1 .. TickLen /\ ch.wr1.mode \in {2, 3}

\* Bug variant: the end-of-frame interrupt is marked and not raised.
EofTickSilent(s, n) ==
  LET later == [s EXCEPT !.chan[n].eofDelay = Elapse(@)]
  IN  IF EofExpires(s.chan[n])
        THEN [later EXCEPT !.intpending = @ \cup {<<n, "RX">>}] ELSE later

EofTick(s, n) ==
  LET later == [s EXCEPT !.chan[n].eofDelay = Elapse(@)]
  IN  IF EofExpires(s.chan[n])
        THEN RaiseInt([later EXCEPT !.intpending = @ \cup {<<n, "RX">>}], n)
        ELSE later

AbortTick(s, n) == [s EXCEPT !.chan[n].rxAbrtTimer = Elapse(@)]

TickChan(s, n) ==
  LET tx == TxTick(s, n)
      rx == RxTick(tx, n)
      eof == EofTick(rx, n)
      end == AbortTick(eof, n)
      needCheck == \/ s.chan[n].txTimer \in 1 .. TickLen
                   \/ RxBufExpires(tx.chan[n])
                   \/ EofExpires(rx.chan[n])
                   \/ eof.chan[n].rxAbrtTimer > 0
  IN  IF needCheck THEN CheckExtInt(end, n) ELSE end

-----------------------------------------------------------------------------
(* Entry points.  Each starts with irqs at 0: it counts for that call.     *)

Call == [scc EXCEPT !.irqs = 0]

SccTick ==
  /\ ~scc.exited
  /\ scc' = TickChan(TickChan(Call, SCC_CHANA), SCC_CHANB)

\* Bug variant: the line changes without a look at the interrupts.
SetDcdQuietly(n, val) ==
  /\ ~scc.exited
  /\ scc' = [Call EXCEPT !.chan[n].dcd = val]

SccSetDcd(n, val) ==
  /\ ~scc.exited
  /\ scc' = CheckExtInt([Call EXCEPT !.chan[n].dcd = val], n)

LinkRecv(n, frame, delay) ==
  /\ ~scc.exited
  /\ scc' = [Call EXCEPT !.chan[n] = SccRecv(@, frame, delay)]

\* The register an access reaches: the data address is register 8, the
\* control address the register of regptr (one pointer for both channels),
\* which falls back to 0.
Access(reg) ==
  IF scc.exited THEN {}
  ELSE (IF scc.regptr = reg THEN {[Call EXCEPT !.regptr = 0]} ELSE {})
         \cup (IF reg = 8 THEN {Call} ELSE {})

\* sccWrite and sccRead both end with checkExtInt.
Done(s, n) == scc' = CheckExtInt(s, n)

Wr0Low(s, n, cmd) ==
  CASE cmd = "reset_ext"   -> [s EXCEPT !.chan[n].rr0Latched = NotLatched]
    [] cmd = "abort"       -> CheckRxIntPending(SccTxFinished(s, n), n)
    [] cmd = "int_next"    -> CheckRxIntPending([s EXCEPT !.chan[n].intOnNextRxChar = TRUE], n)
    [] cmd = "error_reset" -> CheckRxIntPending([s EXCEPT !.chan[n] = RxBufIgnoreRest(@)], n)
    [] OTHER               -> s

Wr0High(s, n, cmd) ==
  IF cmd = "reset_underrun" THEN [s EXCEPT !.chan[n].txTimer = 10] ELSE s

Wr0(s, n, ptr, low, high) ==
  LET sel == [s EXCEPT !.regptr = IF low = "point_high" THEN ptr + 8 ELSE ptr]
  IN  Wr0High(Wr0Low(sel, n, low), n, high)

WriteWR0(n, ptr, low, high) ==
  /\ low # "reset_txint" /\ high # "reset_rxcrc"
  /\ \E s \in Access(0) : Done(Wr0(s, n, ptr, low, high), n)

WriteWR1(n, val) == \E s \in Access(1) : Done([s EXCEPT !.chan[n].wr1 = val], n)
EnterHunt(n) == \E s \in Access(3) : Done([s EXCEPT !.chan[n].hunting = TRUE], n)
WriteWR6(n, addr) == \E s \in Access(6) : Done([s EXCEPT !.chan[n].sdlcaddr = addr], n)
WriteWR15(n, val) == \E s \in Access(15) : Done(RaiseInt([s EXCEPT !.chan[n].wr15 = val], n), n)

\* Bug variant: a written byte does not start the transmit timer.
WriteDataUntimed(n, byte) ==
  /\ scc.chan[n].txPos < MaxTx /\ scc.chan[n].txTimer <= 30 * MaxTx
  /\ \E s \in Access(8) :
       Done([s EXCEPT !.chan[n].txData[s.chan[n].txPos] = byte, !.chan[n].txPos = @ + 1], n)

WriteData(n, byte) ==
  /\ scc.chan[n].txPos < MaxTx /\ scc.chan[n].txTimer <= 30 * MaxTx
  /\ \E s \in Access(8) :
       Done([s EXCEPT !.chan[n].txData[s.chan[n].txPos] = byte,
                      !.chan[n].txPos = @ + 1, !.chan[n].txTimer = @ + 30], n)

\* Registers whose value the emulation does not use, WR3 without the hunt
\* bit and WR14 with a command it knows.
WriteInert(n) ==
  \E reg \in {2, 3, 4, 5, 7} \cup 9 .. 14 : \E s \in Access(reg) : Done(s, n)

ReadRR0(n) == \E s \in Access(0) : Done([s EXCEPT !.chan[n].rr0Latched = NotLatched], n)

\* The reads that change nothing: RR1, RR3, RR10, RR15.
ReadStatus(n) == \E reg \in {1, 3, 10, 15} : \E s \in Access(reg) : Done(s, n)

\* The order in which RR2 looks for a reason.
IntReasons == << <<SCC_CHANB, "EXT">>, <<SCC_CHANA, "EXT">>,
                 <<SCC_CHANA, "RX">>, <<SCC_CHANB, "RX">> >>

\* Takes the first pending reason: an EXT one is over, an RX one is worked
\* out again.
TakeReason(s) ==
  LET i == CHOOSE k \in 1 .. 4 : /\ IntReasons[k] \in s.intpending
                                 /\ \A j \in 1 .. k - 1 : IntReasons[j] \notin s.intpending
      rsn == IntReasons[i]
  IN  IF s.intpending = {} THEN s
      ELSE IF rsn[2] = "EXT" THEN [s EXCEPT !.intpending = @ \ {rsn}]
      ELSE CheckRxIntPending(s, rsn[1])

\* Bug variant: what is still pending is not raised again.
RaiseNothing(s, n) == s

RaiseRemaining(s, n) == IF \E p \in s.intpending : p[1] = n THEN RaiseInt(s, n) ELSE s

\* RR2 read on channel B: the interrupt acknowledge.
IntAck ==
  \E s \in Access(2) :
    Done(RaiseRemaining(RaiseRemaining(TakeReason(s), SCC_CHANA), SCC_CHANB), SCC_CHANB)

ReadByte(s, n) ==
  LET ch == s.chan[n]
      last == RxHasByte(ch) /\ RxBytesLeft(ch) = 1
      read == IF RxHasByte(ch) THEN RxByte(ch) ELSE ch
  IN  [s EXCEPT !.chan[n] = [read EXCEPT !.rxEom = last,
                                         !.rxAbrtTimer = IF last THEN 40 ELSE @]]

ReadData(n) == \E s \in Access(8) : Done(CheckRxIntPending(ReadByte(s, n), n), n)

\* The accesses that reach exit(1): two WR0 commands, an unknown WR14
\* command, and the read registers that are not emulated.
Exit(n) ==
  /\ Undefined
  /\ ~scc.exited
  /\ \/ scc.regptr = 0 /\ ("reset_txint" \in LowCmds \/ "reset_rxcrc" \in HighCmds)
     \/ scc.regptr = 14
     \/ scc.regptr \notin {0, 1, 3, 8, 10, 15} /\ ~(scc.regptr = 2 /\ n = SCC_CHANB)
  /\ scc' = [scc EXCEPT !.exited = TRUE, !.irqs = 0]

-----------------------------------------------------------------------------
(* sccInit: the record is static, hence zero; the two sccSetDcd calls run  *)
(* while every delay is still 0, so rr0Prev starts with the RX bit set.    *)

InitChan ==
  [dcd |-> TRUE, wr1 |-> [ena |-> FALSE, mode |-> 0], wr15 |-> {}, sdlcaddr |-> 0,
   hunting |-> FALSE, txTimer |-> 0, txData |-> [i \in 0 .. MaxTx - 1 |-> 0], txPos |-> 0,
   rx |-> [b \in Buf |-> [delay |-> Free, len |-> 0, dest |-> 0]],
   rxBufCur |-> 0, rxPos |-> 0, eofDelay |-> 0, rr0Latched |-> NotLatched,
   rr0Prev |-> {"RX", "TXE", "CTS", "DCD", "EOM"}, rxAbrtTimer |-> 0,
   rxEom |-> FALSE, intOnNextRxChar |-> FALSE]

Init == scc = [regptr |-> 0, intpending |-> {}, chan |-> [n \in Chan |-> InitChan],
               irqs |-> 0, exited |-> FALSE]

Write(n) ==
  \/ \E ptr \in Pointers, low \in LowCmds, high \in HighCmds : WriteWR0(n, ptr, low, high)
  \/ \E val \in Wr1Values : WriteWR1(n, val)
  \/ EnterHunt(n)
  \/ \E addr \in Addrs : WriteWR6(n, addr)
  \/ \E val \in Wr15Values : WriteWR15(n, val)
  \/ \E byte \in TxBytes : WriteData(n, byte)
  \/ WriteInert(n)

Read(n) == ReadRR0(n) \/ ReadStatus(n) \/ ReadData(n)

Bus == IntAck \/ \E n \in DriverChans : Write(n) \/ Read(n) \/ Exit(n)

Link == \E n \in LinkChans, frame \in LinkFrames, delay \in LinkDelays :
          LinkRecv(n, frame, delay)

Mouse == \E n \in DcdChans, val \in BOOLEAN : SccSetDcd(n, val)

Next == SccTick \/ Mouse \/ Link \/ Bus

Spec == Init /\ [][Next]_vars

-----------------------------------------------------------------------------
(* Properties.                                                             *)

\* Every field stays in its range.
TypeOK == scc \in SccState

\* The frames of a channel lie in consecutive buffers starting at rxBufCur,
\* so the search of sccRecv appends behind the last of them, and only the
\* first may be readable: none is skipped, overwritten or overtaken.
RingContiguous(ch) ==
  \E k \in 0 .. NoRxBuf : \A i \in Buf :
    /\ i < k => ch.rx[Slot(ch, i)].delay >= 0 /\ ch.rx[Slot(ch, i)].len >= 3
    /\ i >= k => ch.rx[Slot(ch, i)].delay = Free
    /\ 0 < i /\ i < k => ch.rx[Slot(ch, i)].delay > 0
RxRing == \A n \in Chan : RingContiguous(scc.chan[n])

\* The read cursor is inside the frame it points into, and moves only while
\* that frame is readable; it is at 0 whenever the next frame is awaited, so
\* triggerRx never restarts a frame the driver is reading.
InFrame(ch) ==
  ch.rxPos > 0 => RxHasByte(ch) /\ ch.rxPos < ch.rx[ch.rxBufCur].len

\* Once a byte of a frame has been read, the end-of-frame status of RR1 is up
\* exactly while the last byte is the next one to be read.
EomInFrame(ch) ==
  ch.rxPos > 0 => (ch.rxEom <=> ch.rxPos = ch.rx[ch.rxBufCur].len - 1)
CursorExact == \A n \in Chan : InFrame(scc.chan[n]) /\ EomInFrame(scc.chan[n])

\* Bytes written and not yet handed to LocalTalk always have the transmit
\* timer running behind them; otherwise the frame would never leave.
TxCovered(ch) == ch.txPos > 0 => ch.txTimer > 0
TxTimerCovers == \A n \in Chan : TxCovered(scc.chan[n])

\* A condition that becomes pending on a channel whose interrupts are enabled
\* is signalled to the CPU by the same call.
PendingSignalled ==
  [][\A p \in scc'.intpending \ scc.intpending : scc'.chan[p[1]].wr1.ena => scc'.irqs > 0]_vars

\* The mouse counts on it: a DCD edge on a channel that enables DCD
\* interrupts leaves the channel's EXT condition pending.
DcdEdgePending ==
  [][\A n \in Chan :
       /\ scc'.chan[n].dcd # scc.chan[n].dcd
       /\ "DCD" \in scc.chan[n].wr15
       => <<n, "EXT">> \in scc'.intpending]_vars

\* A step takes back at most one EXT condition, and then every interrupt
\* still pending on an enabled channel is signalled again.
AckKeepsRest ==
  [][LET gone == {p \in scc.intpending \ scc'.intpending : p[2] = "EXT"}
     IN  gone # {} =>
           /\ Cardinality(gone) = 1
           /\ (\E p \in scc'.intpending : scc'.chan[p[1]].wr1.ena) => scc'.irqs > 0]_vars

\* In the mode "interrupt on all characters" every byte that comes up for
\* reading, the first of a frame for this node and each one behind it, has its
\* RX interrupt pending: the driver is never left waiting in front of a byte.
NewByte(old, new) == RxHasByte(new) /\ (~RxHasByte(old) \/ new.rxPos # old.rxPos)
EveryByteInterrupts ==
  [][\A n \in Chan :
       LET old == scc.chan[n]
           new == scc'.chan[n]
       IN  /\ NewByte(old, new) /\ old.wr1.mode = 2 /\ new.wr1.mode = 2
           /\ new.rx[new.rxBufCur].dest \in {Broadcast, new.sdlcaddr}
           => <<n, "RX">> \in scc'.intpending]_vars

\* The receive ring of channel B is the bounded queue of SccRxFifo: rxBufCur
\* is its head, and a call either lets frames join or gives up the readable
\* head, never both and never out of order.
QueueLen(ch) == Cardinality({b \in Buf : ch.rx[b].delay # Free})
Queue(ch) == [i \in 1 .. QueueLen(ch) |->
                [dest |-> ch.rx[Slot(ch, i - 1)].dest, len |-> ch.rx[Slot(ch, i - 1)].len]]
Fifo == INSTANCE SccRxFifo WITH Capacity <- NoRxBuf, q <- Queue(scc.chan[SCC_CHANB]),
                                ready <- RxHasByte(scc.chan[SCC_CHANB])
RingIsFifo == Fifo!Spec

\* With the main loop ticking and a driver that keeps reading the data
\* register, every buffer of the receive ring is free again and again: no
\* frame stays in it for ever, whatever else the driver does.
FairSpec == Spec /\ WF_vars(SccTick) /\ \A n \in DriverChans : WF_vars(ReadData(n))
RingDrains == \A n \in LinkChans, b \in Buf : []<>(scc.chan[n].rx[b].delay = Free)

\* With the main loop ticking, bytes written for transmission are handed on.
TxHandedOn == \A n \in DriverChans : []<>(scc.chan[n].txPos = 0)
=============================================================================
