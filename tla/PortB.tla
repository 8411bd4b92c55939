-------------------------------- MODULE PortB -------------------------------
(***************************************************************************)
(* What the Mac has on port B of the VIA: the clock chip (Rtc) on bits 0   *)
(* to 2, with its memory saved to the flash (NVS), and the mouse (Mouse)   *)
(* on bits 3 to 5 and on the carrier lines of the SCC.                     *)
(*                                                                         *)
(* The Mac (external) clocks commands into the chip, breaks them off,      *)
(* clocks on behind their end, and writes other bits of the port meanwhile.*)
(* It counts the edges of the mouse before the next round.                 *)
(***************************************************************************)
EXTENDS Integers, Sequences

CONSTANTS
  Regs, MaxClocks, MAXCDX,  (* see Rtc and Mouse                           *)
  Prams,      (* contents of the flash at first; all 0 if never saved      *)
  Ops,        (* commands of the Mac                                       *)
  Deltas,     (* movements of the sensor in a frame                        *)
  MaxTicks, MaxMoves   (* bounds: seconds, movements                       *)

ASSUME PortBAssumption ==
  /\ 0 .. 7 \subseteq Regs /\ Regs \subseteq 0 .. 31 /\ MaxClocks \in Nat
  /\ MAXCDX \in Nat \ {0} /\ Deltas \subseteq Int
  /\ Prams \subseteq [Regs -> 0 .. 255]
  /\ Ops # {} /\ Ops \subseteq [read : BOOLEAN, a : Regs, v : 0 .. 255]

VARIABLES
  pos, cmd, lastClkVal, mem, ret,   (* see Rtc                             *)
  left, rp, btn,                    (* see Mouse                           *)
  inb0, ddrb0,  (* bit 0 of the port and its direction, 1: out             *)
  nvs,          (* the blob in the flash                                   *)
  mac,          (* the transaction of the Mac                              *)
  count,        (* where it has the mouse                                  *)
  ticks, moves, (* seconds and movements so far                            *)
  hist          (* history, for the properties                             *)
rtc == <<pos, cmd, lastClkVal, mem, ret>>
mouse == <<left, rp, btn, count, moves>>
port == <<inb0, ddrb0>>
vars == <<rtc, mouse, port, nvs, mac, ticks, hist>>

C == INSTANCE Rtc
Mo == INSTANCE Mouse
Axes == Mo!Axes

-----------------------------------------------------------------------------
(* Writes to the port.                                                     *)

\* Bug variant: the memory is saved before the byte is in it.
SavedEarly ==
  /\ nvs' = mem
  /\ hist' = [hist EXCEPT !.since = 0, !.unsaved = FALSE]
\* saveRtcMem goes on when the flash fails.
saveRtcMem ==
  \/ nvs' = mem' /\ hist' = [hist EXCEPT !.since = 0, !.unsaved = FALSE]
  \/ nvs' = nvs /\ hist' = [hist EXCEPT !.unsaved = TRUE]

\* viaCbPortBWrite, and the merge of the byte: the answer stays on an input bit.
PortWrite(en, dat, clk) ==
  /\ C!rtcCom(en, dat, clk)
  /\ IF C!Writes THEN saveRtcMem ELSE UNCHANGED <<nvs, hist>>
  /\ inb0' = (IF ddrb0 = 1 THEN dat ELSE ret') /\ UNCHANGED ddrb0

-----------------------------------------------------------------------------
(* The Mac (external).                                                     *)

Word(op) == ((IF op.read THEN 128 ELSE 0) + 4 * op.a + 1) * 256 + op.v
Sends(k) == IF k < 16 THEN (Word(mac.op) \div C!Bit(k)) % 2 ELSE 0
Idle == [at |-> "idle", op |-> CHOOSE op \in Ops : TRUE, k |-> 0, got |-> <<>>, seen |-> {},
         disturbed |-> FALSE]

Begin(op) ==
  /\ mac.at = "idle" /\ PortWrite(0, 0, 0)
  /\ mac' = [Idle EXCEPT !.at = "high", !.op = op, !.seen = {mem[op.a]}]
Output ==
  /\ mac.at = "high" /\ mac.k = 0 /\ ddrb0 = 0 /\ ddrb0' = 1
  /\ UNCHANGED <<rtc, inb0, nvs, mac, hist>>
Input ==
  /\ mac.at = "high" /\ mac.k = 8 /\ mac.op.read /\ ddrb0 = 1 /\ ddrb0' = 0
  /\ UNCHANGED <<rtc, inb0, nvs, mac, hist>>

Answers == mac.op.read /\ mac.k > 8
Lower ==
  /\ \/ mac.at = "high" /\ mac.k < 8 /\ ddrb0 = 1
     \/ mac.at = "high" /\ mac.k >= 8 /\ ~mac.op.read
     \/ mac.at = "high" /\ mac.k = 8 /\ mac.op.read /\ ddrb0 = 0
     \/ mac.at = "sampled"
  /\ mac.k < MaxClocks /\ PortWrite(0, Sends(mac.k), 0) /\ mac' = [mac EXCEPT !.at = "low"]
Raise ==
  /\ mac.at = "low" /\ PortWrite(0, Sends(mac.k), 1)
  /\ mac' = [mac EXCEPT !.at = "high", !.k = @ + 1]
Sample ==
  /\ mac.at = "high" /\ Answers /\ UNCHANGED <<rtc, port, nvs, hist>>
  /\ mac' = [mac EXCEPT !.at = "sampled", !.got = IF mac.k <= 16 THEN Append(@, inb0) ELSE @]

\* Another bit of the port is written: the sound, say.
Disturb ==
  /\ mac.at \in {"low", "high", "sampled"} /\ PortWrite(0, Sends(mac.k), lastClkVal)
  /\ mac' = [mac EXCEPT !.disturbed = @ \/ (mac.at = "high" /\ Answers)]

Finish ==
  /\ mac.at = IF mac.op.read THEN "sampled" ELSE "high"
  /\ mac.k >= 16 /\ PortWrite(1, 0, 0) /\ mac' = [mac EXCEPT !.at = "done"]
Abort ==
  /\ mac.at \in {"low", "high", "sampled"} /\ PortWrite(1, 0, lastClkVal)
  /\ mac' = Idle
Rest == mac.at = "done" /\ mac' = Idle /\ UNCHANGED <<rtc, port, nvs, hist>>

Mac == /\ UNCHANGED <<mouse, ticks>>
       /\ \/ (\E op \in Ops : Begin(op)) \/ Output \/ Input \/ Lower \/ Raise \/ Sample
          \/ Disturb \/ Finish \/ Abort \/ Rest

-----------------------------------------------------------------------------
(* The emulator, and its restart.                                          *)

On == mac.at # "off"
Tick ==
  /\ On /\ ticks < MaxTicks /\ ticks' = ticks + 1 /\ C!rtcTick
  /\ mac' = [mac EXCEPT !.seen = @ \cup {mem'[mac.op.a]}]
  /\ hist' = [hist EXCEPT !.since = @ + 1] /\ UNCHANGED <<mouse, port, nvs>>

\* dispDraw.
Move(d, b) ==
  /\ On /\ moves < MaxMoves /\ moves' = moves + 1 /\ Mo!mouseMove(d, b)
  /\ hist' = [hist EXCEPT !.asked = [a \in Axes |-> @[a] + d[a]],
                          !.clipped = [a \in Axes |-> @[a] \/ left'[a] # left[a] + d[a]]]
  /\ UNCHANGED <<rtc, port, count, nvs, mac, ticks>>

\* The carrier interrupt comes with QxA; the Mac looks at QxB, which the loop has set
\* on the port before (external).
Edge(a) ==
  LET was == Mo!Quad(rp[a])
      now == Mo!Quad(rp'[a])
  IN  IF was[1] = now[1] THEN 0 ELSE IF now[1] = now[2] THEN -1 ELSE 1

MouseRound ==
  /\ On /\ Mo!mouseTick
  /\ count' = [a \in Axes |-> count[a] + Edge(a)]
  /\ UNCHANGED <<rtc, port, moves, nvs, mac, ticks, hist>>

PowerLoss ==
  /\ On /\ mac' = [Idle EXCEPT !.at = "off"]
  /\ UNCHANGED <<rtc, port, mouse, nvs, ticks, hist>>

Fresh == [since |-> 0, unsaved |-> FALSE,
          asked |-> [a \in Axes |-> 0], clipped |-> [a \in Axes |-> FALSE]]

\* app_main: the memory is loaded with what was saved.
PowerOn ==
  /\ mac.at = "off" /\ mac' = Idle /\ hist' = Fresh /\ UNCHANGED <<nvs, ticks, moves>>
  /\ pos' = 0 /\ cmd' = 0 /\ lastClkVal' = 0 /\ mem' = nvs /\ ret' = 0
  /\ left' = [a \in Axes |-> 0] /\ rp' = left' /\ count' = left' /\ btn' = 0
  /\ inb0' = 0 /\ ddrb0' = 0

Init ==
  /\ nvs \in Prams /\ C!Init(nvs) /\ Mo!Init /\ inb0 = 0 /\ ddrb0 = 0 /\ mac = Idle
  /\ count = [a \in Axes |-> 0] /\ ticks = 0 /\ moves = 0 /\ hist = Fresh
Next ==
  \/ Mac \/ Tick \/ MouseRound \/ PowerLoss \/ PowerOn
  \/ \E d \in [Axes -> Deltas], b \in {0, 1} : Move(d, b)
Spec == Init /\ [][Next]_vars

-----------------------------------------------------------------------------
(* Properties.                                                             *)

TypeOK ==
  /\ C!TypeOK /\ Mo!TypeOK
  /\ nvs \in [Regs -> C!Bytes] /\ inb0 \in {0, 1} /\ ddrb0 \in {0, 1}
  /\ mac.at \in {"off", "idle", "low", "high", "sampled", "done"}

Value(bits) == 128 * bits[1] + 64 * bits[2] + 32 * bits[3] + 16 * bits[4]
                 + 8 * bits[5] + 4 * bits[6] + 2 * bits[7] + bits[8]

\* A byte the Mac has read is one the register had since the command began, whole and
\* not mixed from before and after a second, unless another write to the port came
\* between a clock and the look at its bit.
ReadWhole ==
  mac.at = "done" /\ mac.op.read /\ ~mac.disturbed => Value(mac.got) \in mac.seen

\* The sixteenth clock of a write writes its byte, and but for the seconds nothing else
\* ever does: no read, no command broken off before, no clock behind the last bit.
Stores == ~mac.op.read /\ mac.k = 15 /\ mac'.k = 16
WriteExact ==
  [][On /\ ticks' = ticks =>
       mem' = IF Stores THEN [mem EXCEPT ![mac.op.a] = mac.op.v] ELSE mem]_vars

\* If the power fails now, the Mac gets back all it has written, unless the last save
\* has failed, and a clock that is slow by the seconds since.  The count runs over
\* after 2^24 seconds, the highest byte does not count.
Seconds(m) == m[0] + 256 * m[1] + 65536 * m[2]
SavedAsWritten ==
  ~hist.unsaved =>
    /\ Seconds(mem) = (Seconds(nvs) + hist.since) % 2 ^ 24 /\ mem[3] = nvs[3]
    /\ \A r \in Regs \ (0 .. 7) : mem[r] = nvs[r]

\* What the Mac counts from the edges is the position played, and position and
\* movement left add up to what the sensor has seen, as long as none was clipped.
MouseFollows ==
  \A a \in Axes :
    /\ count[a] = (rp[a] + 1) \div 2
    /\ ~hist.clipped[a] => left[a] + Mo!Turn(a) * rp[a] = hist.asked[a]
=============================================================================
