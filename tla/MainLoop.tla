------------------------------ MODULE MainLoop ------------------------------
(***************************************************************************)
(* The emulator loop of components/tme/emu.c (tmeStartEmu) around the two  *)
(* interrupt sources, Via and Scc, and the interrupt logic of the 68k core *)
(* they share: one request level (CPU_INT_LEVEL) that every call of        *)
(* m68k_set_irq overwrites, the mask of the status register, and the masks *)
(* the exceptions in progress have saved.                                  *)
(*                                                                         *)
(* The Mac's ROM is not in the repository.  Between two rounds it may      *)
(* access the registers of either device, change its mask and return from  *)
(* an exception, in any order; a handler does not lower its mask below the *)
(* level it was entered with (the assumption in MoveToSr).                 *)
(***************************************************************************)
EXTENDS Integers, Sequences

CONSTANTS
  Rounds,        (* rounds of 1000 cycles in a frame, 8000000/60/1000       *)
  EarlyBreak,    (* first round sndDone may end the frame in, 67            *)
  FramesPerSec,  (* 60                                                      *)
  ViaRegs,       (* VIA registers the ROM accesses                          *)
  ViaIer,        (* the VIA flags it enables                                *)
  SccConds,      (* the SCC conditions it enables in WR15                   *)
  Masks,         (* the interrupt masks it sets                             *)
  XLevels        (* levels of the horizontal quadrature line (channel A)    *)

ASSUME LoopAssumption ==
  /\ Rounds \in Nat \ {0} /\ EarlyBreak \in Nat
  /\ FramesPerSec \in Nat /\ FramesPerSec >= 2
  /\ Masks \subseteq 0 .. 7 /\ XLevels \subseteq BOOLEAN /\ XLevels # {}

VARIABLES via, scc, cpu, loop
vars == <<via, scc, cpu, loop>>

V == INSTANCE Via WITH
       StepLen <- 100, T2Wrap <- 200, SrPeriod <- 1, Timer1Depth <- 0,
       LowBytes <- {}, HighBytes <- {}, IfrWrites <- {{"CA1", "CA2", "SR", "T2"}},
       IerBits <- {ViaIer}, Ca2Fields <- {}, PortVals <- {}, MouseBits <- {}, RegsUsed <- ViaRegs
S == INSTANCE Scc WITH
       NoRxBuf <- 1, TickLen <- 100, LinkChans <- {}, LinkFrames <- {}, LinkDelays <- {},
       DriverChans <- {1}, Addrs <- {}, Wr1Values <- {[ena |-> TRUE, mode |-> 0]},
       Wr15Values <- {SccConds}, LowCmds <- {"nop", "point_high"}, HighCmds <- {"nop"},
       Pointers <- {1, 2, 7}, TxBytes <- {}, MaxTx <- 3, DcdChans <- {0, 1},
       LocalTalk <- FALSE, Undefined <- FALSE

ASSUME RomAssumption ==
  ViaRegs \subseteq 0 .. 15 /\ ViaIer \subseteq V!Flags /\ SccConds \subseteq S!ExtFlags

Levels == 0 .. 2         \* 1: the VIA, 2: the SCC
CpuState == [level : Levels,     \* CPU_INT_LEVEL
             mask : 0 .. 7,      \* FLAG_INT_MASK
             saved : Seq(0 .. 7), \* the masks in the stack frames
             took : Levels]      \* the level this step took, 0 for none
Phases == {"cpu", "via", "scc", "mouse", "dcdA", "dcdB", "frame", "second"}
LoopState == [phase : Phases, x : 0 .. Rounds, frame : 0 .. FramesPerSec, ticked : BOOLEAN]

-----------------------------------------------------------------------------
(* The interrupt logic of the CPU core.                                    *)

\* Bug variant: the handler runs with the mask of what it interrupted.
TakeUnmasked(c) ==
  [c EXCEPT !.saved = Append(@, c.mask), !.took = c.level, !.level = 0]

\* m68ki_exception_interrupt: the request is over as soon as it is taken.
Take(c) ==
  [c EXCEPT !.saved = Append(@, c.mask), !.mask = c.level, !.took = c.level, !.level = 0]

CheckInterrupts(c) == IF c.level > c.mask THEN Take(c) ELSE c

SetIrq(c, level) == CheckInterrupts([c EXCEPT !.level = level])
SetMask(c, mask) == CheckInterrupts([c EXCEPT !.mask = mask])

Quiet == [cpu EXCEPT !.took = 0]

\* viaIrq: each step of the VIA calls it at most once.
ViaIrq ==
  cpu' = CASE via'.req = "raise" -> SetIrq(Quiet, 1)
           [] via'.req = "drop"  -> SetIrq(Quiet, 0)
           [] via'.req = "none"  -> Quiet

\* sccIrq: a step of the SCC may call it several times; after the second
\* call another one changes nothing.
SccIrq ==
  cpu' = IF scc'.irqs = 0 THEN Quiet
         ELSE IF scc'.irqs = 1 THEN SetIrq(Quiet, 2)
         ELSE [SetIrq(SetIrq(Quiet, 2), 2) EXCEPT !.took = SetIrq(Quiet, 2).took]

-----------------------------------------------------------------------------
(* m68k_execute: the ROM.                                                  *)

Running == loop.phase = "cpu"

ViaAccess == Running /\ (V!Write \/ V!Read) /\ ViaIrq /\ UNCHANGED <<scc, loop>>
SccAccess == Running /\ S!Bus /\ SccIrq /\ UNCHANGED <<via, loop>>

MoveToSr(mask) ==
  /\ Running /\ (cpu.saved = <<>> \/ mask >= cpu.mask)
  /\ cpu' = SetMask(Quiet, mask)
  /\ UNCHANGED <<via, scc, loop>>

Rte ==
  /\ Running /\ cpu.saved # <<>>
  /\ LET n == Len(cpu.saved)
     IN  cpu' = SetMask([Quiet EXCEPT !.saved = SubSeq(@, 1, n - 1)], cpu.saved[n])
  /\ UNCHANGED <<via, scc, loop>>

Rom == ViaAccess \/ SccAccess \/ (\E mask \in Masks : MoveToSr(mask)) \/ Rte

-----------------------------------------------------------------------------
(* The rest of a round, and the end of a frame.                            *)

Go(from, to) == loop.phase = from /\ loop' = [loop EXCEPT !.phase = to, !.ticked = FALSE]

EndSlice == Go("cpu", "via") /\ cpu' = Quiet /\ UNCHANGED <<via, scc>>
StepVia == Go("via", "scc") /\ V!ViaStep /\ ViaIrq /\ UNCHANGED scc
TickScc == Go("scc", "mouse") /\ S!SccTick /\ SccIrq /\ UNCHANGED via

\* The button and the two quadrature lines that are not interrupts.
MouseLines ==
  /\ Go("mouse", "dcdA") /\ cpu' = Quiet /\ UNCHANGED scc
  /\ via' = [V!Call EXCEPT !.inb = @ \cup {3, 4, 5}]

MouseDcdA(val) == Go("dcdA", "dcdB") /\ S!SccSetDcd(0, val) /\ SccIrq /\ UNCHANGED via

\* The last call of a round; sndDone may end the frame in its second half.
MouseDcdB(val) ==
  /\ loop.phase = "dcdB" /\ S!SccSetDcd(1, val) /\ SccIrq /\ UNCHANGED via
  /\ \/ /\ loop.x + 1 < Rounds
        /\ loop' = [loop EXCEPT !.phase = "cpu", !.x = @ + 1]
     \/ /\ loop.x + 1 = Rounds \/ loop.x >= EarlyBreak
        /\ loop' = [loop EXCEPT !.phase = "frame", !.x = 0]

Vblank ==
  /\ loop.phase = "frame"
  /\ loop' = [loop EXCEPT !.phase = "second", !.frame = @ + 1]
  /\ V!ViaControlWrite("CA1", ~via.controlin["CA1"]) /\ ViaIrq /\ UNCHANGED scc

\* Bug variant: the counter starts again one frame late.
SecondLate ==
  /\ loop.phase = "second" /\ UNCHANGED scc
  /\ loop' = [loop EXCEPT !.phase = "cpu", !.ticked = (loop.frame >= FramesPerSec),
                          !.frame = IF @ >= FramesPerSec THEN 1 ELSE @]
  /\ IF loop.frame >= FramesPerSec - 1
       THEN V!ViaControlWrite("CA2", ~via.controlin["CA2"]) /\ ViaIrq
       ELSE cpu' = Quiet /\ UNCHANGED via

\* Bug variant: the counter is never put back to 0.
SecondNever ==
  /\ loop.phase = "second" /\ UNCHANGED scc
  /\ loop' = [loop EXCEPT !.phase = "cpu", !.ticked = (loop.frame >= FramesPerSec)]
  /\ IF loop.frame >= FramesPerSec - 1
       THEN V!ViaControlWrite("CA2", ~via.controlin["CA2"]) /\ ViaIrq
       ELSE cpu' = Quiet /\ UNCHANGED via

\* CA2 rises in the last frame of a second and falls at its end, when the
\* clock chip ticks.
Second ==
  /\ loop.phase = "second" /\ UNCHANGED scc
  /\ loop' = [loop EXCEPT !.phase = "cpu", !.ticked = (loop.frame >= FramesPerSec),
                          !.frame = IF @ >= FramesPerSec THEN 0 ELSE @]
  /\ IF loop.frame >= FramesPerSec - 1
       THEN V!ViaControlWrite("CA2", ~via.controlin["CA2"]) /\ ViaIrq
       ELSE cpu' = Quiet /\ UNCHANGED via

Emulator ==
  \/ EndSlice \/ StepVia \/ TickScc \/ MouseLines
  \/ \E val \in XLevels : MouseDcdA(val)
  \/ \E val \in BOOLEAN : MouseDcdB(val)
  \/ Vblank \/ Second

Init ==
  /\ V!Init /\ S!Init
  /\ cpu = [level |-> 0, mask |-> 7, saved |-> <<>>, took |-> 0]
  /\ loop = [phase |-> "cpu", x |-> 0, frame |-> 0, ticked |-> FALSE]

Next == Rom \/ Emulator

Spec == Init /\ [][Next]_vars

\* m68k_execute returns when its cycles are used up; the loop goes on.
FairSpec == Spec /\ WF_vars(Emulator)

-----------------------------------------------------------------------------
(* Properties.                                                             *)

\* Interrupt handlers nest only upwards: the masks saved by the exceptions in
\* progress rise, and so the stack holds at most one handler of each level.
NestingOrdered ==
  LET all == Append(cpu.saved, cpu.mask)
  IN  \A i \in 2 .. Len(all) : all[i - 1] < all[i]
TypeOK == cpu \in CpuState /\ loop \in LoopState /\ NestingOrdered

\* A level 1 request waiting for the mask is withdrawn with the last enabled
\* VIA flag: the CPU never takes it for a cause that has been taken back.  The
\* exception is the late withdrawal of LineFollowsFlags in Via, a read of SR
\* while its interrupt is enabled.
NoStaleVia == cpu.level = 1 => via.ifr \cap via.ier # {} \/ "SR" \in via.ier

\* The one-second line is up in the last frame of a second only, and falls
\* with the tick of the clock chip.
OneSecond ==
  /\ loop.phase # "second" => (via.controlin["CA2"] <=> loop.frame = FramesPerSec - 1)
  /\ loop.ticked => loop.frame = 0

\* If the ROM is at mask 0 at the end of a slice again and again, every
\* enabled VIA flag is taken by the CPU or taken back, even if the SCC has
\* overwritten its request while it was masked: viaStep asks again.
RomUnmasks == []<>(loop.phase = "via" /\ cpu.mask = 0)
ViaServed ==
  RomUnmasks => (via.ifr \cap via.ier # {} ~> (cpu.took = 1 \/ via.ifr \cap via.ier = {}))

\* m68kconf.h, "all interrupt requests will auto-clear when the interrupt is
\* serviced": a waiting request of the SCC is over when it is taken.
SccRequestKept == [][cpu.level = 2 /\ cpu'.level # 2 => cpu'.took = 2]_vars
=============================================================================
