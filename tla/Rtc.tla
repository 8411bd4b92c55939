--------------------------------- MODULE Rtc --------------------------------
(***************************************************************************)
(* macrtc.c: the clock chip, 32 bytes of memory behind a serial line with  *)
(* an enable, a clock and a data wire.  The first four bytes count the     *)
(* seconds.  A command is 8 bits, the highest set to read, with the        *)
(* address in bits 6 to 2; a byte to write follows it, or the byte is read.*)
(***************************************************************************)
EXTENDS Integers

CONSTANTS
  Regs,      (* the addresses the Mac uses, with 0 to 7; 0 to 31 in the code *)
  MaxClocks  (* bound: clocks of a transaction                             *)

VARIABLES
  pos, cmd, lastClkVal,  (* bits so far, the bits, the clock line          *)
  mem,
  ret                    (* what rtcCom has returned last                  *)
vars == <<pos, cmd, lastClkVal, mem, ret>>

Bytes == 0 .. 255
Words == 0 .. 65535
Bit(n) == 2 ^ (15 - n)
IsRead(c) == c >= 32768
Addr(c) == (c \div 1024) % 32

Init(pram) == pos = 0 /\ cmd = 0 /\ lastClkVal = 0 /\ mem = pram /\ ret = 0

\* A byte counts on when all before it overflow, and only three of them count.
Carry(x) == \A y \in 0 .. x - 1 : mem[y] = 255
Ticked(x) == IF x < 3 /\ Carry(x) THEN (mem[x] + 1) % 256 ELSE mem[x]

rtcTick ==
  /\ mem' = [r \in Regs |-> IF r < 4 THEN Ticked(r) ELSE IF r < 8 THEN Ticked(r - 4) ELSE mem[r]]
  /\ UNCHANGED <<pos, cmd, lastClkVal, ret>>

\* Bug variant: a transaction that was broken off is not forgotten.
DisableKeepsPos(clk) ==
  /\ cmd' = 0 /\ lastClkVal' = clk /\ ret' = 0
  /\ UNCHANGED <<pos, mem>>

Disable(clk) ==
  /\ pos' = 0 /\ cmd' = 0 /\ lastClkVal' = clk /\ ret' = 0
  /\ UNCHANGED mem

Hold(clk) ==
  /\ lastClkVal' = clk /\ ret' = 0
  /\ UNCHANGED <<pos, cmd, mem>>

Taken(dat) ==
  IF pos < 8 \/ (pos < 16 /\ ~IsRead(cmd)) THEN cmd + dat * Bit(pos) ELSE cmd

\* Bug variant: the byte is fetched again with every bit.
ClockReadLive(dat) ==
  /\ IsRead(Taken(dat)) /\ pos < MaxClocks
  /\ cmd' = Taken(dat) - (Taken(dat) % 256) + (IF pos >= 8 THEN mem[Addr(Taken(dat))] ELSE 0)
  /\ ret' \in IF pos < 16 THEN {(cmd' \div Bit(pos)) % 2} ELSE {0, 1}
  /\ pos' = pos + 1 /\ lastClkVal' = 1 /\ UNCHANGED mem

\* The byte is fetched with the ninth clock.  Behind the sixteenth the code shifts
\* by a negative count: any bit.
ClockRead(dat) ==
  /\ IsRead(Taken(dat)) /\ pos < MaxClocks
  /\ cmd' = Taken(dat) + (IF pos = 8 THEN mem[Addr(Taken(dat))] ELSE 0)
  /\ ret' \in IF pos < 16 THEN {(cmd' \div Bit(pos)) % 2} ELSE {0, 1}
  /\ pos' = pos + 1 /\ lastClkVal' = 1 /\ UNCHANGED mem

\* Bug variant: every clock behind the last bit writes again.
ClockWriteOn(dat) ==
  /\ ~IsRead(Taken(dat)) /\ pos < MaxClocks
  /\ cmd' = Taken(dat) /\ ret' = 0 /\ pos' = pos + 1 /\ lastClkVal' = 1
  /\ mem' = IF pos >= 15 THEN [mem EXCEPT ![Addr(cmd')] = cmd' % 256] ELSE mem

\* The sixteenth clock writes.
ClockWrite(dat) ==
  /\ ~IsRead(Taken(dat)) /\ pos < MaxClocks
  /\ cmd' = Taken(dat) /\ ret' = 0 /\ pos' = pos + 1 /\ lastClkVal' = 1
  /\ mem' = IF pos = 15 THEN [mem EXCEPT ![Addr(cmd')] = cmd' % 256] ELSE mem

\* saveRtcMem is called in this step.
Writes == pos = 15 /\ pos' = 16 /\ ~IsRead(cmd')

rtcCom(en, dat, clk) ==
  IF en = 1 THEN Disable(clk)
  ELSE IF clk = lastClkVal \/ clk = 0 THEN Hold(clk)
  ELSE ClockRead(dat) \/ ClockWrite(dat)

TypeOK ==
  /\ pos \in 0 .. MaxClocks /\ cmd \in Words /\ lastClkVal \in {0, 1}
  /\ mem \in [Regs -> Bytes] /\ ret \in {0, 1}
=============================================================================
