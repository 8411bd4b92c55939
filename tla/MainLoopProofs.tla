--------------------------- MODULE MainLoopProofs ---------------------------
(***************************************************************************)
(* Proofs about MainLoop, for every frame, every set of registers and      *)
(* interrupts the ROM uses and every mask it sets.  The VIA in the loop    *)
(* keeps the invariant of ViaProofs, which also says what each of its      *)
(* steps tells the CPU; a request of level 1 then stands only while        *)
(* IFR_IRQ does.                                                           *)
(***************************************************************************)
EXTENDS MainLoop, TLAPS

ST == INSTANCE SequenceTheorems

VP == INSTANCE ViaProofs WITH
        StepLen <- 100, T2Wrap <- 200, SrPeriod <- 1, Timer1Depth <- 0,
        LowBytes <- {}, HighBytes <- {}, IfrWrites <- {{"CA1", "CA2", "SR", "T2"}},
        IerBits <- {ViaIer}, Ca2Fields <- {}, PortVals <- {}, MouseBits <- {},
        RegsUsed <- ViaRegs

-----------------------------------------------------------------------------
(* The interrupt logic.                                                    *)

\* The saved masks rise, up to the mask of the handler that runs.
Rising(c) ==
  /\ \A i \in 1 .. Len(c.saved) - 1 : c.saved[i] < c.saved[i + 1]
  /\ c.saved # <<>> => c.saved[Len(c.saved)] < c.mask
CpuOK(c) == c \in CpuState /\ Rising(c)

LEMMA RisingNests == CpuOK(cpu) => NestingOrdered
<1> SUFFICES ASSUME CpuOK(cpu), NEW i \in 2 .. Len(Append(cpu.saved, cpu.mask))
             PROVE  Append(cpu.saved, cpu.mask)[i - 1] < Append(cpu.saved, cpu.mask)[i]
  BY DEF NestingOrdered
<1> DEFINE s == cpu.saved  m == cpu.mask
<1>1. s \in Seq(0 .. 7) /\ m \in 0 .. 7 BY DEF CpuOK, CpuState
<1>2. (\A k \in 1 .. Len(s) - 1 : s[k] < s[k + 1]) /\ (s # <<>> => s[Len(s)] < m)
  BY DEF CpuOK, Rising
<1>3. i \in 2 .. Len(Append(s, m)) OBVIOUS
<1> SUFFICES Append(s, m)[i - 1] < Append(s, m)[i] OBVIOUS
<1> HIDE DEF s, m
<1> QED BY <1>1, <1>2, <1>3

LEMMA TakeOK ==
  ASSUME NEW c, CpuOK(c), c.level > c.mask
  PROVE  CpuOK(Take(c)) /\ Take(c).level = 0
<1> DEFINE s == c.saved  m == c.mask  l == c.level  t == Append(s, m)
<1>1. s \in Seq(0 .. 7) /\ m \in 0 .. 7 /\ l \in Levels /\ l \in 0 .. 7 /\ m < l
  BY DEF CpuOK, CpuState, Levels
<1>2. (\A k \in 1 .. Len(s) - 1 : s[k] < s[k + 1]) /\ (s # <<>> => s[Len(s)] < m)
  BY DEF CpuOK, Rising
<1>3. Take(c) = [c EXCEPT !.saved = t, !.mask = l, !.took = l, !.level = 0] BY DEF Take
<1> HIDE DEF s, m, l
<1>4. t \in Seq(0 .. 7) /\ Len(t) = Len(s) + 1 /\ t # <<>> /\ t[Len(t)] = m
  BY <1>1
<1>5. \A k \in 1 .. Len(t) - 1 : t[k] < t[k + 1] BY <1>1, <1>2
<1> HIDE DEF t
<1>6. /\ Take(c) \in CpuState /\ Take(c).saved = t /\ Take(c).mask = l
      /\ Take(c).level = 0
  <2>1. 0 \in Levels BY DEF Levels
  <2> QED BY <1>1, <1>3, <1>4, <2>1 DEF CpuOK, CpuState
<1> QED BY <1>1, <1>4, <1>5, <1>6 DEF CpuOK, Rising

LEMMA CheckOK ==
  ASSUME NEW c, CpuOK(c)
  PROVE  CpuOK(CheckInterrupts(c)) /\ CheckInterrupts(c).level \in {0, c.level}
<1>1. CASE c.level > c.mask BY <1>1, TakeOK DEF CheckInterrupts
<1>2. CASE ~(c.level > c.mask) BY <1>2 DEF CheckInterrupts
<1> QED BY <1>1, <1>2

LEMMA SetIrqOK ==
  ASSUME NEW c, CpuOK(c), NEW level \in Levels
  PROVE  CpuOK(SetIrq(c, level)) /\ SetIrq(c, level).level \in {0, level}
<1> DEFINE d == [c EXCEPT !.level = level]
<1>1. d \in CpuState /\ d.saved = c.saved /\ d.mask = c.mask /\ d.level = level
  BY DEF CpuOK, CpuState
<1>2. SetIrq(c, level) = CheckInterrupts(d) BY DEF SetIrq
<1> HIDE DEF d
<1>3. CpuOK(d) BY <1>1 DEF CpuOK, Rising
<1> QED BY <1>1, <1>2, <1>3, CheckOK

LEMMA SetMaskOK ==
  ASSUME NEW c \in CpuState, NEW mask \in 0 .. 7,
         \A i \in 1 .. Len(c.saved) - 1 : c.saved[i] < c.saved[i + 1],
         c.saved # <<>> => c.saved[Len(c.saved)] < mask
  PROVE  CpuOK(SetMask(c, mask)) /\ SetMask(c, mask).level \in {0, c.level}
<1> DEFINE d == [c EXCEPT !.mask = mask]
<1>1. d \in CpuState /\ d.saved = c.saved /\ d.mask = mask /\ d.level = c.level
  BY DEF CpuState
<1>2. SetMask(c, mask) = CheckInterrupts(d) BY DEF SetMask
<1> HIDE DEF d
<1>3. CpuOK(d) BY <1>1 DEF CpuOK, Rising
<1> QED BY <1>1, <1>2, <1>3, CheckOK

LEMMA QuietOK ==
  ASSUME CpuOK(cpu)
  PROVE  CpuOK(Quiet) /\ Quiet.level = cpu.level /\ Quiet.mask = cpu.mask
         /\ Quiet.saved = cpu.saved
<1>1. Quiet \in CpuState /\ Quiet.level = cpu.level /\ Quiet.mask = cpu.mask
      /\ Quiet.saved = cpu.saved
  BY DEF Quiet, CpuOK, CpuState, Levels
<1> QED BY <1>1 DEF CpuOK, Rising

\* A request of level 1 stands only while IFR_IRQ does.
Stands == cpu.level = 1 => "IRQ" \in via.ifr

LEMMA ViaIrqOK ==
  ASSUME CpuOK(cpu), ViaIrq, via'.req \in {"none", "raise", "drop"}
  PROVE  /\ CpuOK(cpu')
         /\ cpu'.level = 1 => via'.req = "raise" \/ (via'.req = "none" /\ cpu.level = 1)
<1>1. CASE via'.req = "raise"
  <2>1. cpu' = SetIrq(Quiet, 1) BY <1>1 DEF ViaIrq
  <2> QED BY <1>1, <2>1, QuietOK, SetIrqOK DEF Levels
<1>2. CASE via'.req = "drop"
  <2>1. cpu' = SetIrq(Quiet, 0) BY <1>2 DEF ViaIrq
  <2>2. 0 \in Levels BY DEF Levels
  <2>3. CpuOK(cpu') /\ cpu'.level \in {0} BY <2>1, <2>2, QuietOK, SetIrqOK
  <2> QED BY <2>3
<1>3. CASE via'.req = "none" BY <1>3, QuietOK DEF ViaIrq
<1> QED BY <1>1, <1>2, <1>3

LEMMA SccIrqOK ==
  ASSUME CpuOK(cpu), SccIrq
  PROVE  CpuOK(cpu') /\ (cpu'.level = 1 => cpu.level = 1)
<1>1. CASE scc'.irqs = 0 BY <1>1, QuietOK DEF SccIrq
<1> DEFINE a == SetIrq(Quiet, 2)  b == SetIrq(a, 2)
<1>2. 2 \in Levels BY DEF Levels
<1>3. CpuOK(a) /\ a.level \in {0, 2} BY <1>2, QuietOK, SetIrqOK
<1>4. CpuOK(b) /\ b.level \in {0, 2} BY <1>2, <1>3, SetIrqOK
<1>5. CASE scc'.irqs = 1
  <2>1. cpu' = a BY <1>5 DEF SccIrq
  <2> QED BY <1>3, <2>1
<1>6. CASE scc'.irqs # 0 /\ scc'.irqs # 1
  <2>1. cpu' = [b EXCEPT !.took = a.took] BY <1>6 DEF SccIrq
  <2> HIDE DEF a, b
  <2>2. cpu' \in CpuState /\ cpu'.saved = b.saved /\ cpu'.mask = b.mask
        /\ cpu'.level = b.level
    BY <1>3, <1>4, <2>1 DEF CpuOK, CpuState
  <2> QED BY <1>4, <2>2 DEF CpuOK, Rising
<1> QED BY <1>1, <1>5, <1>6

LEMMA MoveToSrOK ==
  ASSUME CpuOK(cpu), NEW mask \in Masks, MoveToSr(mask)
  PROVE  CpuOK(cpu') /\ (cpu'.level = 1 => cpu.level = 1)
<1>1. mask \in 0 .. 7 BY LoopAssumption
<1>2. cpu.mask \in 0 .. 7 /\ cpu.saved \in Seq(0 .. 7) BY DEF CpuOK, CpuState
<1>3. cpu.saved # <<>> => cpu.saved[Len(cpu.saved)] < mask
  BY <1>1, <1>2 DEF MoveToSr, CpuOK, Rising
<1>4. \A i \in 1 .. Len(cpu.saved) - 1 : cpu.saved[i] < cpu.saved[i + 1]
  BY DEF CpuOK, Rising
<1>5. cpu' = SetMask(Quiet, mask) BY DEF MoveToSr
<1>6. CpuOK(cpu') /\ cpu'.level \in {0, Quiet.level}
  BY <1>1, <1>3, <1>4, <1>5, QuietOK, SetMaskOK DEF CpuOK
<1> QED BY <1>6, QuietOK

LEMMA RteOK ==
  ASSUME CpuOK(cpu), Rte
  PROVE  CpuOK(cpu') /\ (cpu'.level = 1 => cpu.level = 1)
<1> DEFINE s == cpu.saved  n == Len(s)  t == SubSeq(s, 1, n - 1)
           d == [Quiet EXCEPT !.saved = t]
<1>1. s \in Seq(0 .. 7) /\ s # <<>> BY DEF CpuOK, CpuState, Rte
<1>2. \A k \in 1 .. Len(s) - 1 : s[k] < s[k + 1] BY DEF CpuOK, Rising
<1>3. cpu' = SetMask(d, s[n]) BY QuietOK DEF Rte
<1> HIDE DEF s
<1>4. n \in Nat \ {0} /\ s[n] \in 0 .. 7 BY <1>1
<1>5. t \in Seq(0 .. 7) /\ Len(t) = n - 1 /\ \A k \in 1 .. n - 1 : t[k] = s[k]
  <2> DEFINE q == n - 1
  <2>1. q \in Nat /\ 1 \in Int /\ \A i \in 1 .. q : s[i] \in 0 .. 7 BY <1>1, <1>4
  <2> HIDE DEF q, n
  <2>2. /\ SubSeq(s, 1, q) \in Seq(0 .. 7)
        /\ Len(SubSeq(s, 1, q)) = IF 1 <= q THEN q - 1 + 1 ELSE 0
        /\ \A i \in 1 .. q - 1 + 1 : SubSeq(s, 1, q)[i] = s[1 + i - 1]
    BY <2>1, ST!SubSeqProperties
  <2>3. t = SubSeq(s, 1, q) BY DEF q
  <2> HIDE DEF t
  <2>4. Len(t) = q /\ \A k \in 1 .. q : t[k] = s[k] BY <2>1, <2>2, <2>3
  <2> QED BY <2>2, <2>3, <2>4 DEF q
<1> HIDE DEF t, n
<1>6. d \in CpuState /\ d.saved = t /\ d.level = cpu.level
  BY <1>5, QuietOK DEF CpuOK, CpuState
<1> HIDE DEF d
<1>7. \A k \in 1 .. Len(t) - 1 : t[k] < t[k + 1] BY <1>2, <1>4, <1>5 DEF n
<1>8. t # <<>> => t[Len(t)] < s[n] BY <1>2, <1>4, <1>5 DEF n
<1>9. CpuOK(cpu') /\ cpu'.level \in {0, d.level}
  BY <1>3, <1>4, <1>6, <1>7, <1>8, SetMaskOK
<1> QED BY <1>6, <1>9

-----------------------------------------------------------------------------
(* The VIA in the loop.                                                    *)

LEMMA ViaAssumptions == VP!TimeAssumption /\ VP!RegisterAssumption
<1>1. VP!TimeAssumption BY DEF VP!TimeAssumption, VP!Byte
<1>2. ViaIer \subseteq VP!Flags BY RomAssumption DEF V!Flags, VP!Flags
<1>3. VP!RegisterAssumption
  BY <1>2, RomAssumption DEF VP!RegisterAssumption, VP!Flags
<1> QED BY <1>1, <1>3

\* The operators of Via are the same under either name.
LEMMA SameStep == V!ViaStep => VP!ViaStep
<1>1. V!Call = VP!Call BY DEF V!Call, VP!Call
<1>2. ASSUME NEW s PROVE V!Timer1Step(s) = VP!Timer1Step(s)
  BY DEF V!Timer1Step, VP!Timer1Step
<1>3. ASSUME NEW s PROVE V!Timer2Step(s) = VP!Timer2Step(s)
  BY DEF V!Timer2Step, VP!Timer2Step
<1>4. ASSUME NEW s PROVE V!SrStep(s) = VP!SrStep(s) BY DEF V!SrStep, VP!SrStep
<1>5. ASSUME NEW s PROVE V!PeriodStep(s) = VP!PeriodStep(s) BY DEF V!PeriodStep, VP!PeriodStep
<1>6. ASSUME NEW s PROVE V!ViaCheckIrq(s) = VP!ViaCheckIrq(s)
  BY DEF V!ViaCheckIrq, VP!ViaCheckIrq
<1> QED BY <1>1, <1>2, <1>3, <1>4, <1>5, <1>6 DEF V!ViaStep, VP!ViaStep

LEMMA SameLine ==
  ASSUME NEW no, NEW val, V!ViaControlWrite(no, val)
  PROVE  VP!ViaControlWrite(no, val)
BY DEF V!ViaControlWrite, V!Call, V!FallingEdge, V!ViaCheckIrq,
  VP!ViaControlWrite, VP!Call, VP!FallingEdge, VP!ViaCheckIrq

LEMMA SameAccess == V!Write \/ V!Read => VP!Write \/ VP!Read
<1>1. V!Read => VP!Read
  BY DEF V!Read, V!ReadORB, V!ReadORA, V!ReadT1CL, V!ReadT1LH, V!ReadT2CL, V!ReadSR, V!Reg,
    V!AccessPortA, V!AccessPortB, V!Clear, V!ViaCheckIrq, V!Call, V!Low, V!Byte,
    VP!Read, VP!ReadORB, VP!ReadORA, VP!ReadT1CL, VP!ReadT1LH, VP!ReadT2CL, VP!ReadSR,
    VP!Reg, VP!AccessPortA, VP!AccessPortB, VP!Clear, VP!ViaCheckIrq, VP!Call, VP!Low,
    VP!Byte
<1>2. V!Write => VP!Write
  BY DEF V!Write, V!WriteSR, V!WriteACR, V!WriteIFR, V!WriteIER, V!Reg, V!Unsupported,
    V!Clear, V!ViaCheckIrq, V!Call,
    VP!Write, VP!WriteSR, VP!WriteACR, VP!WriteIFR, VP!WriteIER, VP!Reg, VP!Unsupported,
    VP!Clear, VP!ViaCheckIrq, VP!Call
<1> QED BY <1>1, <1>2

\* A step of the VIA and the call of viaIrq it makes.
LEMMA ViaTold ==
  ASSUME CpuOK(cpu), Stands, ViaIrq, VP!StepOK
  PROVE  CpuOK(cpu') /\ Stands'
<1>1. via'.req \in {"none", "raise", "drop"}
  BY DEF VP!StepOK, VP!IInv, VP!Good, VP!ViaState
<1>2. /\ CpuOK(cpu')
      /\ cpu'.level = 1 => via'.req = "raise" \/ (via'.req = "none" /\ cpu.level = 1)
  BY <1>1, ViaIrqOK
<1>3. ~VP!Hides BY DEF VP!Hides
<1>4. Stands' BY <1>2, <1>3 DEF Stands, VP!StepOK, VP!Told
<1> QED BY <1>2, <1>4

\* The CA2 line stays as it is, or is set by the end of a frame.
LEMMA LinesKept ==
  ASSUME VP!IInv, V!ViaStep \/ V!Write \/ V!Read
  PROVE  VP!StepOK /\ via'.controlin = via.controlin
<1>1. VP!AccessOK
  <2>1. CASE V!ViaStep BY <2>1, SameStep, ViaAssumptions, VP!StepKeeps
  <2>2. CASE V!Write \/ V!Read
    <3>1. VP!Write \/ VP!Read BY <2>2, SameAccess
    <3>2. CASE VP!Read BY <3>2, ViaAssumptions, VP!ReadKeeps
    <3>3. CASE VP!Write
      BY <3>3, ViaAssumptions, VP!PortsKeep, VP!LatchesKeep, VP!ModesKeep, VP!IfrKeeps,
        VP!IerKeeps DEF VP!Write
    <3> QED BY <3>1, <3>2, <3>3
  <2> QED BY <2>1, <2>2
<1> QED BY <1>1 DEF VP!AccessOK

LEMMA LineSet ==
  ASSUME VP!IInv, NEW no \in {"CA1", "CA2"}, NEW val \in BOOLEAN, V!ViaControlWrite(no, val)
  PROVE  VP!StepOK /\ via'.controlin = [via.controlin EXCEPT ![no] = val]
<1>1. VP!ViaControlWrite(no, val) BY SameLine
<1> QED BY <1>1, ViaAssumptions, VP!LineKeeps

LEMMA MouseKept ==
  ASSUME VP!IInv, MouseLines
  PROVE  VP!StepOK /\ via'.controlin = via.controlin
<1>1. V!Call = VP!Call BY DEF V!Call, VP!Call
<1> DEFINE inb == via.inb \cup {3, 4, 5}
<1>2. inb \in SUBSET VP!Bits BY DEF VP!IInv, VP!Good, VP!ViaState, VP!Bits
<1>3. VP!Same(VP!Call) /\ VP!Call.inb = via.inb
  BY ViaAssumptions, VP!CallSame, VP!CallGood
<1>4. via' = [VP!Call EXCEPT !.inb = inb] BY <1>1, <1>3 DEF MouseLines
<1> HIDE DEF inb
<1>5. VP!Same(via') BY <1>2, <1>3, <1>4, ViaAssumptions, VP!SetPorts
<1>6. VP!AccessOK BY <1>5, ViaAssumptions, VP!SameStep
<1> QED BY <1>6 DEF VP!AccessOK

-----------------------------------------------------------------------------
(* The frames of a second.                                                 *)

\* CA2 is up in the last frame of a second and falls as it ends.
Up(top) == via.controlin["CA2"] <=> loop.frame = top
Pulse ==
  /\ loop.phase = "second" => loop.frame \in 1 .. FramesPerSec /\ Up(FramesPerSec)
  /\ loop.phase # "second" => loop.frame < FramesPerSec /\ Up(FramesPerSec - 1)
  /\ loop.ticked => loop.phase = "cpu" /\ loop.frame = 0
LoopInv == loop \in LoopState /\ Pulse

IInv == VP!IInv /\ CpuOK(cpu) /\ Stands /\ LoopInv

\* A step that neither moves CA2 nor ends a frame.
LEMMA PulseKept ==
  ASSUME LoopInv, loop' \in LoopState, loop'.frame = loop.frame,
         loop.phase # "second", loop'.phase # "second", ~loop'.ticked \/ loop' = loop,
         via'.controlin = via.controlin
  PROVE  LoopInv'
BY DEF LoopInv, Pulse, Up

LEMMA GoOK ==
  ASSUME LoopInv, NEW from \in Phases \ {"second"}, NEW to \in Phases \ {"second"},
         Go(from, to), via'.controlin = via.controlin
  PROVE  LoopInv'
<1>1. /\ loop' \in LoopState /\ loop'.frame = loop.frame /\ loop'.phase = to
      /\ loop'.ticked = FALSE /\ loop.phase = from
  BY DEF Go, LoopInv, LoopState
<1> QED BY <1>1, PulseKept

LEMMA RomOK == ASSUME IInv, Rom PROVE IInv'
<1>1. CASE ViaAccess
  <2>1. VP!StepOK /\ via'.controlin = via.controlin /\ loop' = loop
    BY <1>1, LinesKept DEF IInv, ViaAccess
  <2>2. CpuOK(cpu') /\ Stands' BY <1>1, <2>1, ViaTold DEF IInv, ViaAccess
  <2>3. LoopInv' BY <2>1 DEF IInv, LoopInv, Pulse, Up
  <2> QED BY <2>1, <2>2, <2>3 DEF IInv, VP!StepOK
<1>2. ASSUME via' = via, loop' = loop, CpuOK(cpu'), cpu'.level = 1 => cpu.level = 1
      PROVE  IInv'
  <2>1. VP!IInv' BY <1>2 DEF IInv, VP!IInv, VP!Good, VP!LineUp, VP!Caused
  <2>2. LoopInv' BY <1>2 DEF IInv, LoopInv, Pulse, Up
  <2> QED BY <1>2, <2>1, <2>2 DEF IInv, Stands
<1>3. CASE SccAccess BY <1>2, <1>3, SccIrqOK DEF IInv, SccAccess
<1>4. CASE \E mask \in Masks : MoveToSr(mask)
  BY <1>2, <1>4, MoveToSrOK DEF IInv, MoveToSr
<1>5. CASE Rte BY <1>2, <1>5, RteOK DEF IInv, Rte
<1> QED BY <1>1, <1>3, <1>4, <1>5 DEF Rom

\* A step of the SCC or of nothing but the loop, and what it leaves alone.
LEMMA SccTold ==
  ASSUME IInv, via' = via, SccIrq \/ cpu' = Quiet
  PROVE  VP!IInv' /\ CpuOK(cpu') /\ Stands' /\ via'.controlin = via.controlin
<1>1. VP!IInv' BY DEF IInv, VP!IInv, VP!Good, VP!LineUp, VP!Caused
<1>2. CpuOK(cpu') /\ (cpu'.level = 1 => cpu.level = 1) BY SccIrqOK, QuietOK DEF IInv
<1> QED BY <1>1, <1>2 DEF IInv, Stands

LEMMA RoundOK ==
  ASSUME IInv,
         \/ EndSlice \/ StepVia \/ TickScc \/ MouseLines
         \/ \E val \in XLevels : MouseDcdA(val)
         \/ \E val \in BOOLEAN : MouseDcdB(val)
  PROVE  IInv'
<1>1. CASE EndSlice
  <2>1. LoopInv' BY <1>1, GoOK DEF EndSlice, IInv, Phases
  <2> QED BY <1>1, <2>1, SccTold DEF EndSlice, IInv
<1>2. CASE StepVia
  <2>1. VP!StepOK /\ via'.controlin = via.controlin BY <1>2, LinesKept DEF StepVia, IInv
  <2>2. LoopInv' BY <1>2, <2>1, GoOK DEF StepVia, IInv, Phases
  <2>3. CpuOK(cpu') /\ Stands' BY <1>2, <2>1, ViaTold DEF StepVia, IInv
  <2> QED BY <2>1, <2>2, <2>3 DEF IInv, VP!StepOK
<1>3. CASE TickScc
  <2>1. LoopInv' BY <1>3, GoOK DEF TickScc, IInv, Phases
  <2> QED BY <1>3, <2>1, SccTold DEF TickScc, IInv
<1>4. CASE MouseLines
  <2>1. VP!StepOK /\ via'.controlin = via.controlin BY <1>4, MouseKept DEF IInv
  <2>2. LoopInv' BY <1>4, <2>1, GoOK DEF MouseLines, IInv, Phases
  <2>3. via'.ifr = via.ifr
    BY <1>4 DEF MouseLines, V!Call, IInv, VP!IInv, VP!Good, VP!ViaState
  <2>4. CpuOK(cpu') /\ Stands' BY <1>4, <2>3, QuietOK DEF MouseLines, IInv, Stands
  <2> QED BY <2>1, <2>2, <2>4 DEF IInv, VP!StepOK
<1>5. CASE \E val \in XLevels : MouseDcdA(val)
  <2>1. PICK val \in XLevels : MouseDcdA(val) BY <1>5
  <2>2. LoopInv' BY <2>1, GoOK DEF MouseDcdA, IInv, Phases
  <2> QED BY <2>1, <2>2, SccTold DEF MouseDcdA, IInv
<1>6. CASE \E val \in BOOLEAN : MouseDcdB(val)
  <2>1. PICK val \in BOOLEAN : MouseDcdB(val) BY <1>6
  <2>2. loop \in LoopState /\ loop.phase = "dcdB" /\ loop.x \in 0 .. Rounds
    BY <2>1 DEF MouseDcdB, IInv, LoopInv, LoopState
  <2>3. PICK to \in {"cpu", "frame"}, x \in 0 .. Rounds :
          loop' = [loop EXCEPT !.phase = to, !.x = x]
    <3>1. loop.x + 1 < Rounds => loop.x + 1 \in 0 .. Rounds BY <2>2, LoopAssumption
    <3>2. 0 \in 0 .. Rounds BY LoopAssumption
    <3> QED BY <2>1, <2>2, <3>1, <3>2 DEF MouseDcdB
  <2>4. ~loop.ticked BY <2>2 DEF IInv, LoopInv, Pulse
  <2>5. /\ loop' \in LoopState /\ loop'.frame = loop.frame /\ loop'.phase = to
        /\ loop'.ticked = loop.ticked
    BY <2>2, <2>3 DEF LoopState, Phases
  <2>6. LoopInv' BY <2>1, <2>2, <2>4, <2>5, PulseKept DEF MouseDcdB, IInv
  <2> QED BY <2>1, <2>6, SccTold DEF MouseDcdB, IInv
<1> QED BY <1>1, <1>2, <1>3, <1>4, <1>5, <1>6

LEMMA VblankOK == ASSUME IInv, Vblank PROVE IInv'
<1> DEFINE val == ~via.controlin["CA1"]
<1>1. via.controlin \in [{"CA1", "CA2"} -> BOOLEAN] BY DEF IInv, VP!IInv, VP!Good, VP!ViaState
<1>2. val \in BOOLEAN /\ V!ViaControlWrite("CA1", val) BY DEF Vblank
<1> HIDE DEF val
<1>3. VP!StepOK /\ via'.controlin = [via.controlin EXCEPT !["CA1"] = val]
  BY <1>2, LineSet DEF IInv
<1>4. via'.controlin["CA2"] = via.controlin["CA2"] BY <1>1, <1>3
<1>5. loop \in LoopState /\ loop.phase = "frame" /\ loop.frame \in Nat
      /\ loop.frame < FramesPerSec /\ ~loop.ticked /\ Up(FramesPerSec - 1)
  BY LoopAssumption DEF Vblank, IInv, LoopInv, LoopState, Pulse
<1>6. loop.frame + 1 \in 1 .. FramesPerSec /\ loop.frame + 1 \in 0 .. FramesPerSec
  BY <1>5, LoopAssumption
<1>7. loop' = [loop EXCEPT !.phase = "second", !.frame = loop.frame + 1] BY DEF Vblank
<1>8. /\ loop' \in LoopState /\ loop'.phase = "second" /\ loop'.frame = loop.frame + 1
      /\ loop'.ticked = loop.ticked
  BY <1>5, <1>6, <1>7 DEF LoopState, Phases
<1>9. loop'.frame = FramesPerSec <=> loop.frame = FramesPerSec - 1
  BY <1>5, <1>8, LoopAssumption
<1>10. Up(FramesPerSec)' BY <1>4, <1>5, <1>9 DEF Up
<1>11. LoopInv' BY <1>5, <1>6, <1>8, <1>10 DEF LoopInv, Pulse
<1>12. CpuOK(cpu') /\ Stands' BY <1>3, ViaTold DEF Vblank, IInv
<1> QED BY <1>3, <1>11, <1>12 DEF IInv, VP!StepOK

LEMMA SecondOK == ASSUME IInv, Second PROVE IInv'
<1> DEFINE val == ~via.controlin["CA2"]
           ends == loop.frame >= FramesPerSec
           frame == IF ends THEN 0 ELSE loop.frame
           rises == loop.frame >= FramesPerSec - 1
<1>1. via.controlin \in [{"CA1", "CA2"} -> BOOLEAN] BY DEF IInv, VP!IInv, VP!Good, VP!ViaState
<1>2. loop \in LoopState /\ loop.frame \in 1 .. FramesPerSec /\ Up(FramesPerSec)
  BY DEF Second, IInv, LoopInv, Pulse
<1>3. /\ frame \in 0 .. FramesPerSec /\ frame < FramesPerSec /\ ends \in BOOLEAN
      /\ ends => frame = 0
  BY <1>2, LoopAssumption
<1>4. /\ ends <=> loop.frame = FramesPerSec
      /\ frame = FramesPerSec - 1 <=> rises /\ ~ends
      /\ ends => rises
  BY <1>2, LoopAssumption
<1>5. loop' = [loop EXCEPT !.phase = "cpu", !.ticked = ends, !.frame = frame]
  BY DEF Second
<1>6. rises => V!ViaControlWrite("CA2", val) /\ ViaIrq BY DEF Second
<1>7. ~rises => cpu' = Quiet /\ via' = via BY DEF Second
<1> HIDE DEF ends, frame, rises
<1>8. /\ loop' \in LoopState /\ loop'.phase = "cpu" /\ loop'.frame = frame
      /\ loop'.ticked = ends
  BY <1>2, <1>3, <1>5 DEF LoopState, Phases
<1>9. ASSUME rises PROVE VP!StepOK /\ via'.controlin["CA2"] = val
  <2>1. val \in BOOLEAN OBVIOUS
  <2>2. VP!StepOK /\ via'.controlin = [via.controlin EXCEPT !["CA2"] = val]
    BY <1>6, <1>9, <2>1, LineSet DEF IInv
  <2> QED BY <1>1, <2>2
<1>10. VP!IInv' /\ CpuOK(cpu') /\ Stands'
  <2>1. CASE rises BY <1>6, <1>9, <2>1, ViaTold DEF IInv, VP!StepOK
  <2>2. CASE ~rises BY <1>7, <2>2, SccTold
  <2> QED BY <2>1, <2>2
<1>11. Up(FramesPerSec - 1)'
  <2>1. via.controlin["CA2"] \in BOOLEAN /\ (via.controlin["CA2"] <=> ends)
    BY <1>1, <1>2, <1>4 DEF Up
  <2>2. loop'.frame = FramesPerSec - 1 <=> rises /\ ~ends BY <1>4, <1>8
  <2>3. via'.controlin["CA2"] <=> rises /\ ~ends
    <3>1. CASE rises BY <1>9, <2>1, <3>1
    <3>2. CASE ~rises BY <1>4, <1>7, <2>1, <3>2
    <3> QED BY <3>1, <3>2
  <2> QED BY <2>2, <2>3 DEF Up
<1>12. LoopInv' BY <1>3, <1>8, <1>11 DEF LoopInv, Pulse
<1> QED BY <1>10, <1>12 DEF IInv

-----------------------------------------------------------------------------
(* The theorems.                                                           *)

LEMMA InitOK == Init => IInv
<1> SUFFICES ASSUME Init PROVE IInv OBVIOUS
<1>1. VP!Init BY DEF Init, V!Init, VP!Init
<1>2. VP!IInv BY <1>1, ViaAssumptions, VP!InitOK
<1>3. CpuOK(cpu)
  <2>1. cpu \in CpuState BY DEF Init, CpuState, Levels
  <2> QED BY <2>1 DEF Init, CpuOK, Rising
<1>4. loop \in LoopState BY LoopAssumption DEF Init, LoopState, Phases
<1>5. Up(FramesPerSec - 1)
  <2>1. ~via.controlin["CA2"] BY DEF Init, V!Init
  <2>2. loop.frame # FramesPerSec - 1 BY LoopAssumption DEF Init
  <2> QED BY <2>1, <2>2 DEF Up
<1>6. Pulse
  <2>1. loop.frame < FramesPerSec BY LoopAssumption DEF Init
  <2> QED BY <1>5, <2>1 DEF Init, Pulse
<1> QED BY <1>2, <1>3, <1>4, <1>6 DEF Init, IInv, LoopInv, Stands

THEOREM IInvHolds == Spec => []IInv
<1>1. IInv /\ [Next]_vars => IInv'
  <2> SUFFICES ASSUME IInv, [Next]_vars PROVE IInv' OBVIOUS
  <2>1. CASE Next BY <2>1, RomOK, RoundOK, VblankOK, SecondOK DEF Next, Emulator
  <2>2. CASE UNCHANGED vars
    <3>1. VP!IInv' BY <2>2 DEF vars, IInv, VP!IInv, VP!Good, VP!LineUp, VP!Caused
    <3>2. CpuOK(cpu') /\ Stands' BY <2>2 DEF vars, IInv, Stands
    <3>3. LoopInv' BY <2>2 DEF vars, IInv, LoopInv, Pulse, Up
    <3> QED BY <3>1, <3>2, <3>3 DEF IInv
  <2> QED BY <2>1, <2>2
<1> QED BY <1>1, InitOK, PTL DEF Spec

\* The request level, the mask and the saved masks of the 68k core keep their
\* types, and interrupt handlers nest upwards only, whatever the ROM does
\* between two rounds.
THEOREM TypeCorrect == Spec => []TypeOK
<1>1. IInv => TypeOK BY RisingNests DEF IInv, CpuOK, LoopInv, TypeOK
<1> QED BY <1>1, IInvHolds, PTL

\* viaIrq and m68k_set_irq: a request of the VIA never outlives the flags it
\* stands for, but for a read of SR whose interrupt is enabled.
THEOREM RequestHasCause == Spec => []NoStaleVia
<1>1. IInv => NoStaleVia
  <2> SUFFICES ASSUME IInv, cpu.level = 1
               PROVE  via.ifr \cap via.ier # {} \/ "SR" \in via.ier
    BY DEF NoStaleVia
  <2> QED BY DEF IInv, Stands, VP!IInv, VP!Caused
<1> QED BY <1>1, IInvHolds, PTL

\* The end of a frame: one pulse of CA2 and one tick of the clock chip a second.
THEOREM SecondIsWhole == Spec => []OneSecond
<1>1. IInv => OneSecond BY DEF IInv, LoopInv, Pulse, Up, OneSecond
<1> QED BY <1>1, IInvHolds, PTL

-----------------------------------------------------------------------------
(* The components in the loop keep to their own specifications.            *)

LEMMA ViaSteps == ASSUME IInv, [Next]_vars PROVE VP!StepOK \/ via' = via
<1>1. CASE Rom
  BY <1>1, LinesKept DEF Rom, ViaAccess, SccAccess, MoveToSr, Rte, IInv
<1>2. CASE EndSlice \/ TickScc BY <1>2 DEF EndSlice, TickScc
<1>3. CASE StepVia BY <1>3, LinesKept DEF StepVia, IInv
<1>4. CASE MouseLines BY <1>4, MouseKept DEF IInv
<1>5. CASE (\E val \in XLevels : MouseDcdA(val)) \/ (\E val \in BOOLEAN : MouseDcdB(val))
  BY <1>5 DEF MouseDcdA, MouseDcdB
<1>6. CASE Vblank
  <2>1. (~via.controlin["CA1"]) \in BOOLEAN OBVIOUS
  <2> QED BY <1>6, <2>1, LineSet DEF Vblank, IInv
<1>7. CASE Second
  <2>1. (~via.controlin["CA2"]) \in BOOLEAN OBVIOUS
  <2>2. V!ViaControlWrite("CA2", ~via.controlin["CA2"]) \/ via' = via BY <1>7 DEF Second
  <2> QED BY <2>1, <2>2, LineSet DEF IInv
<1>8. CASE UNCHANGED vars BY <1>8 DEF vars
<1> QED BY <1>1, <1>2, <1>3, <1>4, <1>5, <1>6, <1>7, <1>8 DEF Next, Emulator

LEMMA SameLate == VP!LateDrop => V!LateDrop
BY DEF VP!LateDrop, VP!ReadSR, VP!WriteIFR, VP!Reg, VP!Clear, VP!ViaCheckIrq, VP!Call,
  V!LateDrop, V!ReadSR, V!WriteIFR, V!Reg, V!Clear, V!ViaCheckIrq, V!Call

LEMMA SameTaken == VP!VblankTaken => V!VblankTaken
BY DEF VP!VblankTaken, VP!ReadORA, VP!AccessPortA, VP!WriteIFR, VP!Reg, VP!Clear,
  VP!ViaCheckIrq, VP!Call,
  V!VblankTaken, V!ReadORA, V!AccessPortA, V!WriteIFR, V!Reg, V!Clear,
  V!ViaCheckIrq, V!Call

\* The VIA in the loop, where the three mouse lines move in one step: its
\* registers keep their types, and its line follows the enabled flags as Via says.
THEOREM ViaInLoop == Spec => []V!TypeOK /\ V!LineFollowsFlags
<1>1. IInv => V!TypeOK
  <2> SUFFICES ASSUME IInv PROVE V!TypeOK OBVIOUS
  <2>1. VP!TypeOK BY DEF IInv, VP!IInv, VP!Good, VP!TypeOK
  <2> QED
    BY <2>1 DEF V!TypeOK, V!ViaState, V!Flags, V!Bits, VP!TypeOK, VP!ViaState, VP!Flags, VP!Bits
<1> DEFINE Rises == ~via'.aborted /\ V!Enabled' # {} => via'.line = 1 /\ "IRQ" \in via'.ifr
           Falls == V!Enabled # {} /\ V!Enabled' = {} /\ via'.line = 1 => V!LateDrop
<1>2. ASSUME IInv, [Next]_vars PROVE [Rises /\ Falls]_(V!vars)
  <2>1. CASE via' = via BY <2>1 DEF V!vars
  <2>2. CASE VP!StepOK
    <3>1. Rises BY <2>2 DEF VP!StepOK, VP!IInv, VP!LineUp, V!Enabled
    <3>2. Falls BY <2>2, SameLate DEF VP!StepOK, VP!Dropped, VP!Enabled, V!Enabled
    <3> QED BY <3>1, <3>2
  <2> QED BY <1>2, <2>1, <2>2, ViaSteps
<1>3. [Rises /\ Falls]_(V!vars) <=>
        [/\ ~via'.aborted /\ V!Enabled' # {} => via'.line = 1 /\ "IRQ" \in via'.ifr
         /\ V!Enabled # {} /\ V!Enabled' = {} /\ via'.line = 1 => V!LateDrop]_(V!vars)
  OBVIOUS
<1> QED BY <1>1, <1>2, <1>3, IInvHolds, PTL DEF Spec, V!LineFollowsFlags

\* The vertical blank in the loop: its flag rises with Vblank's edge on CA1 only
\* and is lost to the ROM taking it back only, whatever the other lines do.
THEOREM VblankInLoop == Spec => V!VblankKept
<1> DEFINE Edge == "CA1" \notin via.ifr /\ "CA1" \in via'.ifr =>
                     via.controlin["CA1"] /\ ~via'.controlin["CA1"]
           Kept == "CA1" \in via.ifr /\ "CA1" \notin via'.ifr => V!VblankTaken
<1>1. ASSUME IInv, [Next]_vars PROVE [Edge /\ Kept]_(V!vars)
  <2>1. CASE via' = via BY <2>1 DEF V!vars
  <2>2. CASE VP!StepOK BY <2>2, SameTaken DEF VP!StepOK, VP!Edge, VP!Kept
  <2> QED BY <1>1, <2>1, <2>2, ViaSteps
<1>2. [Edge /\ Kept]_(V!vars) <=>
        [/\ "CA1" \notin via.ifr /\ "CA1" \in via'.ifr =>
              via.controlin["CA1"] /\ ~via'.controlin["CA1"]
         /\ "CA1" \in via.ifr /\ "CA1" \notin via'.ifr => V!VblankTaken]_(V!vars)
  OBVIOUS
<1> QED BY <1>1, <1>2, IInvHolds, PTL DEF Spec, V!VblankKept

LEMMA SccAssumptions == S!RingAssumption /\ S!LinkAssumption /\ S!DriverAssumption
BY RomAssumption DEF S!RingAssumption, S!LinkAssumption, S!DriverAssumption, S!Chan,
  S!SCC_CHANA, S!SCC_CHANB, S!ExtFlags, S!AllLowCmds, S!AllHighCmds

\* The SCC in the loop takes the steps of Scc and no other, from inputs its
\* assumptions allow: what is proved of Scc holds in the loop.
THEOREM SccInLoop == Spec => S!Spec
<1>1. ASSUME [Next]_vars PROVE [S!Next]_(S!vars)
  <2>1. CASE SccAccess BY <2>1 DEF SccAccess, S!Next
  <2>2. CASE TickScc BY <2>2 DEF TickScc, S!Next
  <2>3. ASSUME NEW n \in {0, 1}, NEW val \in BOOLEAN, S!SccSetDcd(n, val) PROVE S!Next
    BY <2>3 DEF S!Next, S!Mouse
  <2>4. CASE \E val \in XLevels : MouseDcdA(val) BY <2>3, <2>4, LoopAssumption DEF MouseDcdA
  <2>5. CASE \E val \in BOOLEAN : MouseDcdB(val) BY <2>3, <2>5 DEF MouseDcdB
  <2>6. CASE ViaAccess \/ (\E mask \in Masks : MoveToSr(mask)) \/ Rte \/ EndSlice \/ StepVia
             \/ MouseLines \/ Vblank \/ Second \/ UNCHANGED vars
    BY <2>6 DEF ViaAccess, MoveToSr, Rte, EndSlice, StepVia, MouseLines, Vblank, Second,
      vars, S!vars
  <2> QED BY <1>1, <2>1, <2>2, <2>4, <2>5, <2>6 DEF Next, Rom, Emulator
<1> QED BY <1>1, PTL DEF Spec, Init, S!Spec
=============================================================================
