-------------------------------- MODULE Via --------------------------------
(***************************************************************************)
(* The 6522 VIA of the emulated Mac, components/tme/via.c: two timers, the *)
(* control lines CA1 (vertical blank) and CA2 (one second), the interrupt  *)
(* flags and the two ports.  `static Via via' is one record; registers     *)
(* that are bit masks are sets of named bits.  The callbacks out of the    *)
(* VIA are viaIrq (fields line and req) and the port writes; what rtcCom   *)
(* answers to a port B write is any bit.                                   *)
(***************************************************************************)
EXTENDS Integers, FiniteSets

CONSTANTS
  StepLen,       (* the argument of viaStep, 100 in emu.c                  *)
  T2Wrap,        (* timer 2 wraps at 0x10000                               *)
  SrPeriod,      (* viaStep sets IFR_SR every 200 calls                    *)
  Timer1Depth,   (* bound: timer 1 is not run further below zero than this *)
  LowBytes,      (* low bytes written to the timer latches                 *)
  HighBytes,     (* high bytes written to the timer latches                *)
  IfrWrites,     (* sets of flags written to IFR                           *)
  IerBits,       (* sets of flags enabled or disabled through IER          *)
  Ca2Fields,     (* values of the CA2 field of PCR                         *)
  PortVals,      (* bytes written to the ports and the DDRs, as bit sets   *)
  MouseBits,     (* port B bits the mouse moves, 3 to 5                    *)
  RegsUsed       (* registers the driver accesses                          *)

Byte == 256
Flags == {"T1", "T2", "CB1", "CB2", "SR", "CA1", "CA2"}
Unsupported == {"CB1", "CB2"}
Bits == 0 .. 7

ASSUME TimeAssumption ==
  /\ StepLen \in Nat \ {0} /\ SrPeriod \in Nat \ {0} /\ T2Wrap \in Nat /\ T2Wrap > StepLen
  /\ Timer1Depth \in Nat
  /\ LowBytes \subseteq 0 .. Byte - 1 /\ HighBytes \subseteq 0 .. Byte - 1
  /\ \A hi \in HighBytes, lo \in LowBytes \cup {0} : hi * Byte + lo <= T2Wrap
ASSUME RegisterAssumption ==
  /\ IfrWrites \subseteq SUBSET (Flags \cup {"IRQ"})
  /\ IerBits \subseteq SUBSET Flags
  /\ Ca2Fields \subseteq 0 .. 3 /\ PortVals \subseteq SUBSET Bits
  /\ MouseBits \subseteq 3 .. 5 /\ RegsUsed \subseteq 0 .. 15

VARIABLE via
vars == <<via>>

ViaState ==
  [ifr : SUBSET (Flags \cup {"IRQ"}), ier : SUBSET Flags,
   timer1 : Int, timer2 : 0 .. T2Wrap, latch1 : Nat, latch2 : Nat,
   freeRun : BOOLEAN,               \* bit 6 of ACR
   ca2 : 0 .. 3,                    \* the CA2 field of PCR
   controlin : [{"CA1", "CA2"} -> BOOLEAN],
   srTicks : Nat, p : 0 .. SrPeriod - 1,
   ina : SUBSET Bits, inb : SUBSET Bits, ddra : SUBSET Bits, ddrb : SUBSET Bits,
   line : {0, 1},                   \* the last argument of viaIrq
   req : {"none", "raise", "drop"}, \* the call of viaIrq made by this step
   val : Int,                       \* what this step's read of a latch returned
   aborted : BOOLEAN]

Low(n) == n % Byte
High(n) == n \div Byte

\* Bug variant: the request line is not dropped.
CheckIrqSticky(s) ==
  IF s.ifr \cap s.ier # {}
    THEN [s EXCEPT !.ifr = @ \cup {"IRQ"}, !.line = 1, !.req = "raise"]
    ELSE [s EXCEPT !.ifr = @ \ {"IRQ"}]

\* Bug variant (the disused `oldmint'): only a new interrupt is told.
CheckIrqOnce(s) ==
  IF s.ifr \cap s.ier # {}
    THEN IF "IRQ" \in s.ifr THEN s
         ELSE [s EXCEPT !.ifr = @ \cup {"IRQ"}, !.line = 1, !.req = "raise"]
    ELSE IF "IRQ" \in s.ifr
      THEN [s EXCEPT !.ifr = @ \ {"IRQ"}, !.line = 0, !.req = "drop"]
      ELSE s

\* viaCheckIrq: IFR_IRQ follows the enabled flags, and the CPU is told.
ViaCheckIrq(s) ==
  IF s.ifr \cap s.ier # {}
    THEN [s EXCEPT !.ifr = @ \cup {"IRQ"}, !.line = 1, !.req = "raise"]
    ELSE IF "IRQ" \in s.ifr
      THEN [s EXCEPT !.ifr = @ \ {"IRQ"}, !.line = 0, !.req = "drop"]
      ELSE s

Clear(s, flags) == ViaCheckIrq([s EXCEPT !.ifr = @ \ flags])

Call == [via EXCEPT !.req = "none", !.val = -1]

-----------------------------------------------------------------------------
(* Called by the main loop.                                                *)

Timer1Step(s) ==
  LET t == s.timer1 - StepLen
  IN  IF s.timer1 = 0 /\ ~s.freeRun THEN s
      ELSE IF t <= 1 THEN [s EXCEPT !.timer1 = t + s.latch1, !.ifr = @ \cup {"T1"}]
      ELSE [s EXCEPT !.timer1 = t]

\* Bug variant: timer 2 runs on below zero.
Timer2Unwrapped(s) ==
  LET t == s.timer2 - StepLen
  IN  IF t <= 0 THEN [s EXCEPT !.timer2 = t, !.ifr = @ \cup {"T2"}]
      ELSE [s EXCEPT !.timer2 = t]

Timer2Step(s) ==
  LET t == s.timer2 - StepLen
  IN  IF t <= 0 THEN [s EXCEPT !.timer2 = t + T2Wrap, !.ifr = @ \cup {"T2"}]
      ELSE [s EXCEPT !.timer2 = t]

SrStep(s) ==
  IF s.srTicks = 0 THEN s
  ELSE IF s.srTicks <= StepLen THEN [s EXCEPT !.srTicks = 0, !.ifr = @ \cup {"SR"}]
  ELSE [s EXCEPT !.srTicks = @ - StepLen]

PeriodStep(s) ==
  IF s.p + 1 = SrPeriod THEN [s EXCEPT !.p = 0, !.ifr = @ \cup {"SR"}]
  ELSE [s EXCEPT !.p = @ + 1]

ViaStep ==
  /\ ~via.aborted /\ via.timer1 >= -Timer1Depth
  /\ via' = ViaCheckIrq(PeriodStep(SrStep(Timer2Step(Timer1Step(Call)))))

\* pcrFor: CA1 triggers on falling edges whatever its bit; CA2 on falling
\* edges if its field is not 0, else on rising ones.
FallingEdge(s, no) == no = "CA1" \/ s.ca2 # 0

\* Bug variant: the level is taken for an edge.
ViaControlWriteLevel(no, val) ==
  /\ ~via.aborted
  /\ LET seen == IF FallingEdge(via, no) <=> ~val
                   THEN ViaCheckIrq([Call EXCEPT !.ifr = @ \cup {no}]) ELSE Call
     IN  via' = [seen EXCEPT !.controlin[no] = val]

ViaControlWrite(no, val) ==
  /\ ~via.aborted
  /\ LET hit == via.controlin[no] # val /\ (FallingEdge(via, no) <=> ~val)
         seen == IF hit THEN ViaCheckIrq([Call EXCEPT !.ifr = @ \cup {no}]) ELSE Call
     IN  via' = [seen EXCEPT !.controlin[no] = val]

\* viaSet and viaClear on port B: the mouse button and quadrature lines.
ViaSetBit(bit, val) ==
  /\ ~via.aborted
  /\ via' = [Call EXCEPT !.inb = IF val THEN @ \cup {bit} ELSE @ \ {bit}]

-----------------------------------------------------------------------------
(* Register accesses of the 68k.                                           *)

Reg(r) == r \in RegsUsed /\ ~via.aborted

Driven(in, ddr, val) == (in \ ddr) \cup (val \cap ddr)

\* A port access takes back both control-line flags of the port.
AccessPortA(s) == Clear(s, {"CA1", "CA2"})

\* Bug variant: port B takes back the flag of port A.
AccessPortBSwapped(s) == Clear(s, {"CA1", "CB2"})

AccessPortB(s) == Clear(s, {"CB1", "CB2"})

\* rtcCom's answer is put on bit 0 before the byte is merged in.
WriteORB(val) ==
  /\ Reg(0)
  /\ \E rtc \in {{}, {0}} :
       via' = AccessPortB([Call EXCEPT !.inb = Driven((@ \ {0}) \cup rtc, via.ddrb, val)])

WriteORA(val) == Reg(1) /\ via' = AccessPortA([Call EXCEPT !.ina = Driven(@, via.ddra, val)])
WriteORANoClear(val) == Reg(15) /\ via' = [Call EXCEPT !.ina = Driven(@, via.ddra, val)]
WriteDDRB(val) == Reg(2) /\ via' = [Call EXCEPT !.ddrb = val]
WriteDDRA(val) == Reg(3) /\ via' = [Call EXCEPT !.ddra = val]

WithLow(latch, lo) == High(latch) * Byte + lo
WithHigh(latch, hi) == hi * Byte + Low(latch)

WriteT1LL(lo) == (Reg(4) \/ Reg(6)) /\ via' = [Call EXCEPT !.latch1 = WithLow(@, lo)]
WriteT1CH(hi) ==
  /\ Reg(5)
  /\ LET latch == WithHigh(via.latch1, hi)
     IN  via' = Clear([Call EXCEPT !.latch1 = latch, !.timer1 = latch], {"T1"})
WriteT1LH(hi) == Reg(7) /\ via' = Clear([Call EXCEPT !.latch1 = WithHigh(@, hi)], {"T1"})
WriteT2LL(lo) == Reg(8) /\ via' = [Call EXCEPT !.latch2 = lo]
WriteT2CH(hi) ==
  Reg(9) /\ via' = Clear([Call EXCEPT !.timer2 = hi * Byte + via.latch2], {"T2"})
WriteSR == Reg(10) /\ via' = [Call EXCEPT !.srTicks = 8]
WriteACR(free) == Reg(11) /\ via' = [Call EXCEPT !.freeRun = free]
WritePCR(field) == Reg(12) /\ via' = [Call EXCEPT !.ca2 = field]
WriteIFR(flags) == Reg(13) /\ via' = Clear(Call, flags)

\* Bug variant: enabling an interrupt does not look at the flags.
WriteIERUnchecked(enable, flags) ==
  /\ Reg(14)
  /\ LET ier == IF enable THEN via.ier \cup flags ELSE via.ier \ flags
     IN  via' = IF ier \cap Unsupported # {} THEN [Call EXCEPT !.ier = ier, !.aborted = TRUE]
                ELSE [Call EXCEPT !.ier = ier]

WriteIER(enable, flags) ==
  /\ Reg(14)
  /\ LET ier == IF enable THEN via.ier \cup flags ELSE via.ier \ flags
     IN  via' = IF ier \cap Unsupported # {} THEN [Call EXCEPT !.ier = ier, !.aborted = TRUE]
                ELSE ViaCheckIrq([Call EXCEPT !.ier = ier])

ReadORB == Reg(0) /\ via' = AccessPortB(Call)
ReadORA == Reg(1) /\ via' = AccessPortA(Call)
ReadT1CL == Reg(4) /\ via' = Clear(Call, {"T1"})
ReadT1LH == Reg(7) /\ via' = [Call EXCEPT !.val = Low(via.latch1)]
ReadT2CL == Reg(8) /\ via' = Clear(Call, {"T2"})

\* Reading SR clears its flag and leaves IFR_IRQ and the line as they are.
ReadSR == Reg(10) /\ via' = [Call EXCEPT !.ifr = @ \ {"SR"}]

-----------------------------------------------------------------------------
\* The static record is zero; tmeStartEmu then sets port B bit 3.
Init ==
  via = [ifr |-> {}, ier |-> {}, timer1 |-> 0, timer2 |-> 0, latch1 |-> 0, latch2 |-> 0,
         freeRun |-> FALSE, ca2 |-> 0,
         controlin |-> [l \in {"CA1", "CA2"} |-> FALSE], srTicks |-> 0, p |-> 0,
         ina |-> {}, inb |-> {3}, ddra |-> {}, ddrb |-> {},
         line |-> 0, req |-> "none", val |-> -1, aborted |-> FALSE]

Write ==
  \/ \E val \in PortVals : \/ WriteORB(val) \/ WriteORA(val) \/ WriteORANoClear(val)
                           \/ WriteDDRA(val) \/ WriteDDRB(val)
  \/ \E lo \in LowBytes : WriteT1LL(lo) \/ WriteT2LL(lo)
  \/ \E hi \in HighBytes : WriteT1CH(hi) \/ WriteT1LH(hi) \/ WriteT2CH(hi)
  \/ WriteSR
  \/ \E free \in BOOLEAN : WriteACR(free)
  \/ \E field \in Ca2Fields : WritePCR(field)
  \/ \E flags \in IfrWrites : WriteIFR(flags)
  \/ \E enable \in BOOLEAN, flags \in IerBits : WriteIER(enable, flags)

Read == ReadORB \/ ReadORA \/ ReadT1CL \/ ReadT1LH \/ ReadT2CL \/ ReadSR

Lines ==
  \/ \E no \in {"CA1", "CA2"}, val \in BOOLEAN : ViaControlWrite(no, val)
  \/ \E bit \in MouseBits, val \in BOOLEAN : ViaSetBit(bit, val)

Next == ViaStep \/ Lines \/ Write \/ Read

Spec == Init /\ [][Next]_vars

-----------------------------------------------------------------------------
Enabled == via.ifr \cap via.ier

\* Every register keeps its type, and timer 2 stays within its 16 bits.
TypeOK == via \in ViaState

\* An enabled flag holds the interrupt line, whatever order flags are set,
\* cleared, enabled and disabled in (viaCheckIrq and each of its callers).
\* Taking the last enabled flag back drops the line in the same access, with
\* two exceptions that the code has: a read of SR (line 267), which the next
\* call of viaCheckIrq makes good, and a write of IFR with bit 7 (line 202),
\* which hides from viaCheckIrq that the line was up.
LateDrop == ReadSR \/ \E flags \in IfrWrites : "IRQ" \in flags /\ WriteIFR(flags)
LineFollowsFlags ==
  [][/\ ~via'.aborted /\ Enabled' # {} => via'.line = 1 /\ "IRQ" \in via'.ifr
     /\ Enabled # {} /\ Enabled' = {} /\ via'.line = 1 => LateDrop]_vars

\* The vertical blank flag rises on the edge of its line and on nothing else,
\* and is only lost to a port A access or a write of IFR that names it: not to
\* ORA-NC, a timer, or the other control line.
VblankTaken ==
  \/ ReadORA \/ \E val \in PortVals : WriteORA(val)
  \/ \E flags \in IfrWrites : "CA1" \in flags /\ WriteIFR(flags)
VblankKept ==
  [][/\ "CA1" \notin via.ifr /\ "CA1" \in via'.ifr =>
          via.controlin["CA1"] /\ ~via'.controlin["CA1"]
     /\ "CA1" \in via.ifr /\ "CA1" \notin via'.ifr => VblankTaken]_vars
=============================================================================
