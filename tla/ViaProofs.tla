----------------------------- MODULE ViaProofs -----------------------------
(***************************************************************************)
(* Proofs about Via, for every step length, latch and program.  A step     *)
(* either ends in viaCheckIrq, which makes the line follow the enabled     *)
(* flags whatever it was, or leaves flags, enables and line alone; a read  *)
(* of SR and the abort are the only others.                                *)
(***************************************************************************)
EXTENDS Via, TLAPS

\* The line while the program runs: an enabled flag holds it.
LineUp(s) == ~s.aborted /\ s.ifr \cap s.ier # {} => s.line = 1 /\ "IRQ" \in s.ifr

\* Timer 2 is loaded with what has been written, and so stays in its range.
Good(s) ==
  /\ s \in ViaState /\ s.latch2 \in LowBytes \cup {0}
  /\ ~s.aborted => s.ier \cap Unsupported = {}

\* IFR_IRQ stands for an enabled flag, or for the SR flag since it was read.
Caused(s) == "IRQ" \in s.ifr => s.ifr \cap s.ier # {} \/ "SR" \in s.ier

IInv == Good(via) /\ LineUp(via) /\ Caused(via)

\* What the two action properties say of a step.
Dropped == Enabled # {} /\ Enabled' = {} /\ via'.line = 1 => LateDrop
Edge == "CA1" \notin via.ifr /\ "CA1" \in via'.ifr =>
          via.controlin["CA1"] /\ ~via'.controlin["CA1"]
Kept == "CA1" \in via.ifr /\ "CA1" \notin via'.ifr => VblankTaken

\* What viaIrq has told the CPU in a step, against what IFR_IRQ says after it.
Hides == \E flags \in IfrWrites : "IRQ" \in flags /\ WriteIFR(flags)
Told ==
  /\ via'.req = "raise" => "IRQ" \in via'.ifr
  /\ "IRQ" \in via.ifr /\ "IRQ" \notin via'.ifr => via'.req = "drop" \/ Hides
StepOK == IInv' /\ Dropped /\ Edge /\ Kept /\ Told

\* A step that is not a change of the control lines.
AccessOK == StepOK /\ via'.controlin = via.controlin

-----------------------------------------------------------------------------
(* viaCheckIrq.                                                            *)

LEMMA CheckType ==
  ASSUME NEW s \in ViaState
  PROVE  ViaCheckIrq(s) \in ViaState
<1>1. CASE s.ifr \cap s.ier # {}
  <2>1. s.ifr \cup {"IRQ"} \in SUBSET (Flags \cup {"IRQ"}) BY DEF ViaState
  <2> QED BY <1>1, <2>1 DEF ViaCheckIrq, ViaState
<1>2. CASE s.ifr \cap s.ier = {} /\ "IRQ" \in s.ifr
  <2>1. s.ifr \ {"IRQ"} \in SUBSET (Flags \cup {"IRQ"}) BY DEF ViaState
  <2> QED BY <1>2, <2>1 DEF ViaCheckIrq, ViaState
<1>3. CASE s.ifr \cap s.ier = {} /\ "IRQ" \notin s.ifr BY <1>3 DEF ViaCheckIrq
<1> QED BY <1>1, <1>2, <1>3

LEMMA CheckFields ==
  ASSUME NEW s \in ViaState
  PROVE  LET c == ViaCheckIrq(s) IN
         /\ c.ier = s.ier /\ c.latch2 = s.latch2 /\ c.aborted = s.aborted
         /\ c.controlin = s.controlin
         /\ c.ifr \ {"IRQ"} = s.ifr \ {"IRQ"}
         /\ c.ifr \cap c.ier = s.ifr \cap s.ier
         /\ s.ifr \cap s.ier # {} => c.line = 1 /\ "IRQ" \in c.ifr
         /\ s.ifr \cap s.ier = {} /\ "IRQ" \in s.ifr => c.line = 0
         /\ s.ifr \cap s.ier = {} => "IRQ" \notin c.ifr
         /\ s.req = "none" /\ c.req = "raise" => "IRQ" \in c.ifr
         /\ "IRQ" \in s.ifr /\ "IRQ" \notin c.ifr => c.req = "drop"
<1>1. "IRQ" \notin s.ier BY DEF ViaState, Flags
<1>2. CASE s.ifr \cap s.ier # {} BY <1>1, <1>2 DEF ViaCheckIrq, ViaState
<1>3. CASE s.ifr \cap s.ier = {} /\ "IRQ" \in s.ifr BY <1>1, <1>3 DEF ViaCheckIrq, ViaState
<1>4. CASE s.ifr \cap s.ier = {} /\ "IRQ" \notin s.ifr BY <1>1, <1>4 DEF ViaCheckIrq
<1> QED BY <1>2, <1>3, <1>4

\* A step that ends in viaCheckIrq, on what the rest of it has left.
LEMMA Checked ==
  ASSUME IInv, ~via.aborted, NEW s, Good(s), via' = ViaCheckIrq(s), ~s.aborted,
         s.req = "none", "IRQ" \in via.ifr => "IRQ" \in s.ifr \/ Hides
  PROVE  IInv' /\ Dropped /\ Told /\ via'.controlin = s.controlin
<1>1. s \in ViaState BY DEF Good
<1>2. /\ via'.ier = s.ier /\ via'.latch2 = s.latch2 /\ via'.aborted = s.aborted
      /\ via'.controlin = s.controlin
      /\ s.ifr \cap s.ier = {} => "IRQ" \notin via'.ifr
      /\ via'.req = "raise" => "IRQ" \in via'.ifr
      /\ "IRQ" \in s.ifr /\ "IRQ" \notin via'.ifr => via'.req = "drop"
      /\ via'.ifr \cap via'.ier = s.ifr \cap s.ier
      /\ s.ifr \cap s.ier # {} => via'.line = 1 /\ "IRQ" \in via'.ifr
      /\ s.ifr \cap s.ier = {} /\ "IRQ" \in s.ifr => via'.line = 0
  BY <1>1, CheckFields
<1>3. via' \in ViaState BY <1>1, CheckType
<1>4. IInv' BY <1>2, <1>3 DEF IInv, Good, LineUp, Caused
<1>5. Dropped BY <1>2 DEF Dropped, Enabled, IInv, LineUp, Hides, LateDrop
<1>6. Told BY <1>2 DEF Told
<1> QED BY <1>2, <1>4, <1>5, <1>6

\* A step that leaves flags, enables and line alone.
LEMMA Untouched ==
  ASSUME IInv, Good(via'), via'.ifr = via.ifr, via'.ier = via.ier,
         via'.line = via.line, via'.aborted = via.aborted, via'.req = "none"
  PROVE  StepOK
BY DEF StepOK, IInv, Good, LineUp, Caused, Dropped, Edge, Kept, Enabled, Told

-----------------------------------------------------------------------------
(* viaStep.                                                                *)

\* What its parts do to the record, but for their counters.
Timed(s, t) ==
  /\ Good(t) /\ t.aborted = s.aborted /\ t.controlin = s.controlin /\ t.req = s.req
  /\ t.ifr \ {"T1", "T2", "SR"} = s.ifr \ {"T1", "T2", "SR"}

LEMMA CallGood ==
  ASSUME IInv
  PROVE  /\ Good(Call) /\ Call.ifr = via.ifr /\ Call.ier = via.ier /\ Call.line = via.line
         /\ Call.aborted = via.aborted /\ Call.controlin = via.controlin
         /\ Call.latch1 = via.latch1 /\ Call.latch2 = via.latch2
         /\ Call.inb = via.inb /\ Call.ina = via.ina /\ Call.req = "none"
<1>1. via \in ViaState BY DEF IInv, Good
<1>2. Call \in ViaState
  <2>1. -1 \in Int OBVIOUS
  <2> DEFINE minus == -1
  <2> HIDE DEF minus
  <2> QED BY <1>1, <2>1 DEF Call, ViaState, minus
<1>3. /\ Call.ifr = via.ifr /\ Call.ier = via.ier /\ Call.line = via.line
      /\ Call.aborted = via.aborted /\ Call.controlin = via.controlin
      /\ Call.latch1 = via.latch1 /\ Call.latch2 = via.latch2
      /\ Call.inb = via.inb /\ Call.ina = via.ina /\ Call.req = "none"
  BY <1>1 DEF Call, ViaState
<1> QED BY <1>2, <1>3 DEF IInv, Good

LEMMA Timer1Good ==
  ASSUME NEW s, Good(s)
  PROVE  Timed(s, Timer1Step(s))
<1> DEFINE t == s.timer1 - StepLen
<1>1. s \in ViaState /\ t \in Int /\ t + s.latch1 \in Int BY TimeAssumption DEF Good, ViaState
<1>2. s.ifr \cup {"T1"} \in SUBSET (Flags \cup {"IRQ"}) BY <1>1 DEF ViaState, Flags
<1>3. [s EXCEPT !.timer1 = t + s.latch1, !.ifr = @ \cup {"T1"}] \in ViaState
  BY <1>1, <1>2 DEF ViaState
<1>4. [s EXCEPT !.timer1 = t] \in ViaState BY <1>1 DEF ViaState
<1> HIDE DEF t
<1>5. Timed(s, [s EXCEPT !.timer1 = t + s.latch1, !.ifr = @ \cup {"T1"}])
  BY <1>1, <1>3 DEF Timed, Good, ViaState
<1>6. Timed(s, [s EXCEPT !.timer1 = t]) BY <1>1, <1>4 DEF Timed, Good, ViaState
<1>7. Timed(s, s) BY DEF Timed
<1> QED BY <1>5, <1>6, <1>7 DEF Timer1Step, t

LEMMA Timer2Good ==
  ASSUME NEW s, Good(s)
  PROVE  Timed(s, Timer2Step(s))
<1> DEFINE t == s.timer2 - StepLen
<1>1. s \in ViaState /\ t \in Int /\ t + T2Wrap \in Nat /\ t <= T2Wrap
  BY TimeAssumption DEF Good, ViaState
<1>2. s.ifr \cup {"T2"} \in SUBSET (Flags \cup {"IRQ"}) BY <1>1 DEF ViaState, Flags
<1>3. ASSUME t <= 0 PROVE t + T2Wrap \in 0 .. T2Wrap BY <1>1, <1>3, TimeAssumption
<1>4. ASSUME ~(t <= 0) PROVE t \in 0 .. T2Wrap BY <1>1, <1>4, TimeAssumption
<1> HIDE DEF t
<1>5. ASSUME t <= 0
      PROVE  Timed(s, [s EXCEPT !.timer2 = t + T2Wrap, !.ifr = @ \cup {"T2"}])
  <2>1. [s EXCEPT !.timer2 = t + T2Wrap, !.ifr = @ \cup {"T2"}] \in ViaState
    BY <1>1, <1>2, <1>3, <1>5 DEF ViaState
  <2> QED BY <1>1, <2>1 DEF Timed, Good, ViaState
<1>6. ASSUME ~(t <= 0) PROVE Timed(s, [s EXCEPT !.timer2 = t])
  <2>1. [s EXCEPT !.timer2 = t] \in ViaState BY <1>1, <1>4, <1>6 DEF ViaState
  <2> QED BY <1>1, <2>1 DEF Timed, Good, ViaState
<1> QED BY <1>5, <1>6 DEF Timer2Step, t

LEMMA SrGood ==
  ASSUME NEW s, Good(s)
  PROVE  Timed(s, SrStep(s))
<1>1. s \in ViaState BY DEF Good
<1>2. s.ifr \cup {"SR"} \in SUBSET (Flags \cup {"IRQ"}) BY <1>1 DEF ViaState, Flags
<1>3. ASSUME ~(s.srTicks <= StepLen) PROVE s.srTicks - StepLen \in Nat
  BY <1>1, <1>3, TimeAssumption DEF ViaState
<1>4. Timed(s, [s EXCEPT !.srTicks = 0, !.ifr = @ \cup {"SR"}])
  <2>1. [s EXCEPT !.srTicks = 0, !.ifr = @ \cup {"SR"}] \in ViaState
    BY <1>1, <1>2 DEF ViaState
  <2> QED BY <1>1, <2>1 DEF Timed, Good, ViaState
<1>5. ASSUME ~(s.srTicks <= StepLen) PROVE Timed(s, [s EXCEPT !.srTicks = @ - StepLen])
  <2>1. [s EXCEPT !.srTicks = @ - StepLen] \in ViaState BY <1>1, <1>3, <1>5 DEF ViaState
  <2> QED BY <1>1, <2>1 DEF Timed, Good, ViaState
<1>6. Timed(s, s) BY DEF Timed
<1> QED BY <1>4, <1>5, <1>6 DEF SrStep

LEMMA PeriodGood ==
  ASSUME NEW s, Good(s)
  PROVE  Timed(s, PeriodStep(s))
<1>1. s \in ViaState BY DEF Good
<1>2. s.ifr \cup {"SR"} \in SUBSET (Flags \cup {"IRQ"}) BY <1>1 DEF ViaState, Flags
<1>3. 0 \in 0 .. SrPeriod - 1 BY TimeAssumption
<1>4. ASSUME s.p + 1 # SrPeriod PROVE s.p + 1 \in 0 .. SrPeriod - 1
  BY <1>1, <1>4, TimeAssumption DEF ViaState
<1>5. Timed(s, [s EXCEPT !.p = 0, !.ifr = @ \cup {"SR"}])
  <2>1. [s EXCEPT !.p = 0, !.ifr = @ \cup {"SR"}] \in ViaState BY <1>1, <1>2, <1>3 DEF ViaState
  <2> QED BY <1>1, <2>1 DEF Timed, Good, ViaState
<1>6. ASSUME s.p + 1 # SrPeriod PROVE Timed(s, [s EXCEPT !.p = @ + 1])
  <2>1. [s EXCEPT !.p = @ + 1] \in ViaState BY <1>1, <1>4, <1>6 DEF ViaState
  <2> QED BY <1>1, <2>1 DEF Timed, Good, ViaState
<1> QED BY <1>5, <1>6 DEF PeriodStep

LEMMA StepKeeps == ASSUME IInv, ViaStep PROVE AccessOK
<1> DEFINE a == Timer1Step(Call)  b == Timer2Step(a)  c == SrStep(b)  d == PeriodStep(c)
<1>1. Timed(Call, a) BY CallGood, Timer1Good
<1>2. Timed(a, b) BY <1>1, Timer2Good DEF Timed
<1>3. Timed(b, c) BY <1>2, SrGood DEF Timed
<1>4. Timed(c, d) BY <1>3, PeriodGood DEF Timed
<1>5. via' = ViaCheckIrq(d) /\ ~via.aborted BY DEF ViaStep
<1> HIDE DEF a, b, c, d
<1>6. Timed(Call, d) BY <1>1, <1>2, <1>3, <1>4 DEF Timed
<1>7. /\ Good(d) /\ ~d.aborted /\ d.req = "none" /\ d.controlin = via.controlin
      /\ "IRQ" \in d.ifr <=> "IRQ" \in via.ifr
      /\ "CA1" \in d.ifr <=> "CA1" \in via.ifr
  BY <1>5, <1>6, CallGood DEF Timed
<1>8. IInv' /\ Dropped /\ Told /\ via'.controlin = via.controlin BY <1>5, <1>7, Checked
<1>9. "CA1" \in via'.ifr <=> "CA1" \in d.ifr BY <1>5, <1>7, CheckFields DEF Good
<1> QED BY <1>7, <1>8, <1>9 DEF AccessOK, StepOK, Edge, Kept

-----------------------------------------------------------------------------
(* Accesses of the registers and lines.                                    *)

\* What an access has left before it takes flags back.
Same(s) ==
  /\ Good(s) /\ s.ifr = via.ifr /\ s.ier = via.ier /\ s.line = via.line
  /\ s.aborted = via.aborted /\ s.controlin = via.controlin /\ s.req = "none"

LEMMA SameStep ==
  ASSUME IInv, Same(via')
  PROVE  AccessOK
BY Untouched DEF Same, AccessOK

LEMMA ClearStep ==
  ASSUME IInv, ~via.aborted, NEW s, Same(s), NEW flags \in SUBSET (Flags \cup {"IRQ"}),
         via' = Clear(s, flags), "IRQ" \in flags => Hides, "CA1" \in flags => VblankTaken
  PROVE  AccessOK
<1> DEFINE t == [s EXCEPT !.ifr = @ \ flags]
<1>1. s \in ViaState BY DEF Same, Good
<1>2. t \in ViaState BY <1>1 DEF ViaState
<1>3. t.ifr = via.ifr \ flags /\ Good(t) /\ ~t.aborted
      /\ t.req = "none" /\ t.controlin = via.controlin
  BY <1>1, <1>2 DEF Same, Good, ViaState
<1>4. via' = ViaCheckIrq(t) BY DEF Clear
<1> HIDE DEF t
<1>5. IInv' /\ Dropped /\ Told /\ via'.controlin = via.controlin BY <1>3, <1>4, Checked
<1>6. "CA1" \in via'.ifr <=> "CA1" \in t.ifr BY <1>2, <1>4, CheckFields
<1> QED BY <1>3, <1>5, <1>6 DEF AccessOK, StepOK, Edge, Kept

LEMMA CallSame == ASSUME IInv PROVE Same(Call)
BY CallGood DEF Same

\* One field is set, of those that neither flags nor line depend on.
LEMMA SetPorts ==
  ASSUME NEW s, Same(s), NEW val \in SUBSET Bits
  PROVE  /\ Same([s EXCEPT !.ina = val]) /\ Same([s EXCEPT !.inb = val])
         /\ Same([s EXCEPT !.ddra = val]) /\ Same([s EXCEPT !.ddrb = val])
<1>1. s \in ViaState BY DEF Same, Good
<1>2. [s EXCEPT !.ina = val] \in ViaState BY <1>1 DEF ViaState
<1>3. [s EXCEPT !.inb = val] \in ViaState BY <1>1 DEF ViaState
<1>4. [s EXCEPT !.ddra = val] \in ViaState BY <1>1 DEF ViaState
<1>5. [s EXCEPT !.ddrb = val] \in ViaState BY <1>1 DEF ViaState
<1> QED BY <1>1, <1>2, <1>3, <1>4, <1>5 DEF Same, Good, ViaState

LEMMA SetLatches ==
  ASSUME NEW s, Same(s), NEW n \in Nat
  PROVE  /\ Same([s EXCEPT !.latch1 = n]) /\ Same([s EXCEPT !.latch1 = n, !.timer1 = n])
         /\ n \in LowBytes => Same([s EXCEPT !.latch2 = n])
         /\ n \in 0 .. T2Wrap => Same([s EXCEPT !.timer2 = n])
<1>1. s \in ViaState BY DEF Same, Good
<1>2. [s EXCEPT !.latch1 = n] \in ViaState BY <1>1 DEF ViaState
<1>3. [s EXCEPT !.latch1 = n, !.timer1 = n] \in ViaState
  <2>1. n \in Int OBVIOUS
  <2> QED BY <1>1, <2>1 DEF ViaState
<1>4. [s EXCEPT !.latch2 = n] \in ViaState BY <1>1 DEF ViaState
<1>5. n \in 0 .. T2Wrap => [s EXCEPT !.timer2 = n] \in ViaState BY <1>1 DEF ViaState
<1>6. Same([s EXCEPT !.latch1 = n]) /\ Same([s EXCEPT !.latch1 = n, !.timer1 = n])
  BY <1>1, <1>2, <1>3 DEF Same, Good, ViaState
<1>7. n \in LowBytes => Same([s EXCEPT !.latch2 = n]) BY <1>1, <1>4 DEF Same, Good, ViaState
<1>8. n \in 0 .. T2Wrap => Same([s EXCEPT !.timer2 = n])
  BY <1>1, <1>5 DEF Same, Good, ViaState
<1> QED BY <1>6, <1>7, <1>8

LEMMA SetOthers ==
  ASSUME NEW s, Same(s)
  PROVE  /\ Same([s EXCEPT !.srTicks = 8])
         /\ \A free \in BOOLEAN : Same([s EXCEPT !.freeRun = free])
         /\ \A field \in 0 .. 3 : Same([s EXCEPT !.ca2 = field])
         /\ \A n \in Int : Same([s EXCEPT !.val = n])
<1>1. s \in ViaState BY DEF Same, Good
<1>2. Same([s EXCEPT !.srTicks = 8])
  <2>1. [s EXCEPT !.srTicks = 8] \in ViaState BY <1>1 DEF ViaState
  <2> QED BY <1>1, <2>1 DEF Same, Good, ViaState
<1>3. ASSUME NEW free \in BOOLEAN PROVE Same([s EXCEPT !.freeRun = free])
  <2>1. [s EXCEPT !.freeRun = free] \in ViaState BY <1>1 DEF ViaState
  <2> QED BY <1>1, <2>1 DEF Same, Good, ViaState
<1>4. ASSUME NEW field \in 0 .. 3 PROVE Same([s EXCEPT !.ca2 = field])
  <2>1. [s EXCEPT !.ca2 = field] \in ViaState BY <1>1 DEF ViaState
  <2> QED BY <1>1, <2>1 DEF Same, Good, ViaState
<1>5. ASSUME NEW n \in Int PROVE Same([s EXCEPT !.val = n])
  <2>1. [s EXCEPT !.val = n] \in ViaState BY <1>1 DEF ViaState
  <2> QED BY <1>1, <2>1 DEF Same, Good, ViaState
<1> QED BY <1>2, <1>3, <1>4, <1>5

LEMMA LineKeeps ==
  ASSUME IInv, NEW no \in {"CA1", "CA2"}, NEW val \in BOOLEAN, ViaControlWrite(no, val)
  PROVE  StepOK /\ via'.controlin = [via.controlin EXCEPT ![no] = val]
<1> DEFINE hit == via.controlin[no] # val /\ (FallingEdge(via, no) <=> ~val)
           flagged == [Call EXCEPT !.ifr = @ \cup {no}]
           seen == IF hit THEN ViaCheckIrq(flagged) ELSE Call
<1>1. via' = [seen EXCEPT !.controlin[no] = val] /\ ~via.aborted BY DEF ViaControlWrite
<1>2. Same(Call) /\ Call \in ViaState BY CallSame DEF Same, Good
<1>3. flagged \in ViaState
  <2>1. Call.ifr \cup {no} \in SUBSET (Flags \cup {"IRQ"}) BY <1>2 DEF ViaState, Flags
  <2> QED BY <1>2, <2>1 DEF ViaState
<1>4. Good(flagged) /\ flagged.ifr = via.ifr \cup {no} /\ ~flagged.aborted
      /\ flagged.req = "none" /\ flagged.controlin = via.controlin
  BY <1>1, <1>2, <1>3 DEF Same, Good, ViaState
<1> HIDE DEF flagged
<1>5. ASSUME NEW s \in ViaState
      PROVE  LET c == [s EXCEPT !.controlin[no] = val] IN
             /\ c \in ViaState /\ c.ifr = s.ifr /\ c.ier = s.ier /\ c.line = s.line
             /\ c.aborted = s.aborted /\ c.latch2 = s.latch2 /\ c.controlin[no] = val
             /\ c.req = s.req /\ c.controlin = [s.controlin EXCEPT ![no] = val]
  <2>1. [s.controlin EXCEPT ![no] = val] \in [{"CA1", "CA2"} -> BOOLEAN]
    BY DEF ViaState
  <2> QED BY <2>1 DEF ViaState
<1>6. CASE ~hit
  <2>1. seen = Call BY <1>6
  <2>2. Good(via') /\ via'.ifr = via.ifr /\ via'.ier = via.ier /\ via'.line = via.line
        /\ via'.aborted = via.aborted /\ via'.req = "none"
        /\ via'.controlin = [via.controlin EXCEPT ![no] = val]
    BY <1>1, <1>2, <1>5, <2>1 DEF Same, Good
  <2> QED BY <1>1, <2>2, Untouched
<1>7. CASE hit
  <2> DEFINE c == ViaCheckIrq(flagged)
  <2>1. via' = [c EXCEPT !.controlin[no] = val] BY <1>1, <1>7
  <2>2. /\ c \in ViaState /\ c.ier = flagged.ier /\ c.latch2 = flagged.latch2 /\ ~c.aborted
        /\ c.controlin = via.controlin
        /\ flagged.ifr \cap flagged.ier = {} => "IRQ" \notin c.ifr
        /\ c.req = "raise" => "IRQ" \in c.ifr
        /\ "IRQ" \in flagged.ifr /\ "IRQ" \notin c.ifr => c.req = "drop"
        /\ c.ifr \ {"IRQ"} = flagged.ifr \ {"IRQ"}
        /\ c.ifr \cap c.ier = flagged.ifr \cap flagged.ier
        /\ flagged.ifr \cap flagged.ier # {} => c.line = 1 /\ "IRQ" \in c.ifr
        /\ flagged.ifr \cap flagged.ier = {} /\ "IRQ" \in flagged.ifr => c.line = 0
    BY <1>3, <1>4, CheckType, CheckFields
  <2> HIDE DEF c
  <2>3. /\ via' \in ViaState /\ via'.ifr = c.ifr /\ via'.ier = c.ier /\ via'.line = c.line
        /\ via'.aborted = c.aborted /\ via'.latch2 = c.latch2 /\ via'.controlin[no] = val
        /\ via'.req = c.req /\ via'.controlin = [via.controlin EXCEPT ![no] = val]
    BY <1>5, <2>1, <2>2
  <2>4. IInv' BY <1>4, <2>2, <2>3 DEF IInv, Good, LineUp, Caused
  <2>5. flagged.ier = via.ier BY <1>2 DEF flagged, Same, ViaState
  <2>6. Dropped BY <1>1, <1>4, <2>2, <2>3, <2>5 DEF Dropped, Enabled, IInv, LineUp
  <2>7. Kept BY <1>4, <2>2, <2>3 DEF Kept
  <2>8. Edge
    <3>1. "CA1" \notin via.ifr /\ "CA1" \in via'.ifr => no = "CA1" BY <1>4, <2>2, <2>3
    <3>2. /\ via.controlin[no] # val /\ via.controlin[no] \in BOOLEAN
          /\ FallingEdge(via, no) <=> ~val
      BY <1>7 DEF IInv, Good, ViaState
    <3>3. no = "CA1" => ~val BY <3>2 DEF FallingEdge
    <3> QED BY <2>3, <3>1, <3>2, <3>3 DEF Edge
  <2>9. Told BY <1>4, <2>2, <2>3 DEF Told
  <2> QED BY <2>3, <2>4, <2>6, <2>7, <2>8, <2>9 DEF StepOK
<1> QED BY <1>6, <1>7

LEMMA SetBitKeeps ==
  ASSUME IInv, NEW bit \in MouseBits, NEW val \in BOOLEAN, ViaSetBit(bit, val)
  PROVE  AccessOK
<1> DEFINE inb == IF val THEN via.inb \cup {bit} ELSE via.inb \ {bit}
<1>1. via.inb \in SUBSET Bits /\ bit \in Bits
  BY RegisterAssumption DEF IInv, Good, ViaState, Bits
<1>2. inb \in SUBSET Bits BY <1>1
<1>3. via' = [Call EXCEPT !.inb = inb] BY CallGood DEF ViaSetBit
<1> HIDE DEF inb
<1>4. Same(via') BY <1>2, <1>3, CallSame, SetPorts
<1> QED BY <1>4, SameStep DEF ViaSetBit

\* viaWrite of the ports.
LEMMA PortType ==
  ASSUME IInv, NEW val \in PortVals
  PROVE  /\ val \in SUBSET Bits /\ Driven(via.ina, via.ddra, val) \in SUBSET Bits
         /\ \A rtc \in {{}, {0}} :
              Driven((via.inb \ {0}) \cup rtc, via.ddrb, val) \in SUBSET Bits
<1>1. via.ina \in SUBSET Bits /\ via.inb \in SUBSET Bits BY DEF IInv, Good, ViaState
<1>2. val \in SUBSET Bits /\ 0 \in Bits BY RegisterAssumption DEF Bits
<1> QED BY <1>1, <1>2 DEF Driven

LEMMA PortsKeep ==
  ASSUME IInv, NEW val \in PortVals,
         \/ WriteORB(val) \/ WriteORA(val) \/ WriteORANoClear(val)
         \/ WriteDDRA(val) \/ WriteDDRB(val)
  PROVE  AccessOK
<1>1. CASE WriteORB(val)
  <2>1. PICK rtc \in {{}, {0}} :
          via' = AccessPortB([Call EXCEPT !.inb = Driven((@ \ {0}) \cup rtc, via.ddrb, val)])
    BY <1>1 DEF WriteORB
  <2> DEFINE inb == Driven((via.inb \ {0}) \cup rtc, via.ddrb, val)
             s == [Call EXCEPT !.inb = inb]
  <2>2. inb \in SUBSET Bits BY PortType
  <2>3. via' = Clear(s, {"CB1", "CB2"}) BY <2>1, CallGood DEF AccessPortB
  <2> HIDE DEF inb
  <2>4. Same(s) BY <2>2, CallSame, SetPorts
  <2> HIDE DEF s
  <2> QED BY <1>1, <2>3, <2>4, ClearStep DEF WriteORB, Reg, Flags
<1>2. CASE WriteORA(val)
  <2> DEFINE ina == Driven(via.ina, via.ddra, val)
             s == [Call EXCEPT !.ina = ina]
  <2>1. ina \in SUBSET Bits BY PortType
  <2>2. via' = Clear(s, {"CA1", "CA2"}) BY <1>2, CallGood DEF WriteORA, AccessPortA
  <2>3. VblankTaken BY <1>2 DEF VblankTaken
  <2> HIDE DEF ina
  <2>4. Same(s) BY <2>1, CallSame, SetPorts
  <2> HIDE DEF s
  <2> QED BY <1>2, <2>2, <2>3, <2>4, ClearStep DEF WriteORA, Reg, Flags
<1>3. CASE WriteORANoClear(val)
  <2> DEFINE ina == Driven(via.ina, via.ddra, val)
  <2>1. ina \in SUBSET Bits BY PortType
  <2>2. via' = [Call EXCEPT !.ina = ina] BY <1>3, CallGood DEF WriteORANoClear
  <2> HIDE DEF ina
  <2>3. Same(via') BY <2>1, <2>2, CallSame, SetPorts
  <2> QED BY <1>3, <2>3, SameStep DEF WriteORANoClear, Reg
<1>4. CASE WriteDDRA(val)
  BY <1>4, PortType, CallSame, SetPorts, SameStep DEF WriteDDRA, Reg
<1>5. CASE WriteDDRB(val)
  BY <1>5, PortType, CallSame, SetPorts, SameStep DEF WriteDDRB, Reg
<1> QED BY <1>1, <1>2, <1>3, <1>4, <1>5

\* viaWrite of the latches and timers.
LEMMA LatchType ==
  ASSUME NEW latch \in Nat, NEW n \in 0 .. Byte - 1
  PROVE  WithLow(latch, n) \in Nat /\ WithHigh(latch, n) \in Nat
<1>1. latch \div Byte \in Nat /\ (latch % Byte) \in Nat BY DEF Byte
<1>2. n * Byte \in Nat /\ (latch \div Byte) * Byte \in Nat /\ n \in Nat BY <1>1 DEF Byte
<1> QED BY <1>1, <1>2 DEF WithLow, WithHigh, High, Low

LEMMA LatchesKeep ==
  ASSUME IInv, \/ \E lo \in LowBytes : WriteT1LL(lo) \/ WriteT2LL(lo)
               \/ \E hi \in HighBytes : WriteT1CH(hi) \/ WriteT1LH(hi) \/ WriteT2CH(hi)
  PROVE  AccessOK
<1>1. via.latch1 \in Nat /\ via.latch2 \in LowBytes \cup {0} BY DEF IInv, Good, ViaState
<1>2. CASE \E lo \in LowBytes : WriteT1LL(lo) \/ WriteT2LL(lo)
  <2>1. PICK lo \in LowBytes : WriteT1LL(lo) \/ WriteT2LL(lo) BY <1>2
  <2>2. lo \in 0 .. Byte - 1 BY TimeAssumption
  <2>3. lo \in Nat /\ ~via.aborted BY <2>1, <2>2 DEF Byte, WriteT1LL, WriteT2LL, Reg
  <2>4. CASE WriteT1LL(lo)
    <3>1. WithLow(via.latch1, lo) \in Nat BY <1>1, <2>2, LatchType
    <3>2. via' = [Call EXCEPT !.latch1 = WithLow(via.latch1, lo)]
      BY <2>4, CallGood DEF WriteT1LL
    <3> QED BY <2>3, <3>1, <3>2, CallSame, SetLatches, SameStep
  <2>5. CASE WriteT2LL(lo)
    <3>1. via' = [Call EXCEPT !.latch2 = lo] BY <2>5 DEF WriteT2LL
    <3> QED BY <2>3, <3>1, CallSame, SetLatches, SameStep
  <2> QED BY <2>1, <2>4, <2>5
<1>3. CASE \E hi \in HighBytes : WriteT1CH(hi) \/ WriteT1LH(hi) \/ WriteT2CH(hi)
  <2>1. PICK hi \in HighBytes : WriteT1CH(hi) \/ WriteT1LH(hi) \/ WriteT2CH(hi) BY <1>3
  <2>2. hi \in 0 .. Byte - 1 /\ ~via.aborted
    BY <2>1, TimeAssumption DEF WriteT1CH, WriteT1LH, WriteT2CH, Reg
  <2> DEFINE latch == WithHigh(via.latch1, hi)
  <2>3. latch \in Nat BY <1>1, <2>2, LatchType
  <2>4. {"T1"} \in SUBSET (Flags \cup {"IRQ"}) /\ {"T2"} \in SUBSET (Flags \cup {"IRQ"})
    BY DEF Flags
  <2> HIDE DEF latch
  <2>5. CASE WriteT1CH(hi)
    <3> DEFINE s == [Call EXCEPT !.latch1 = latch, !.timer1 = latch]
    <3>1. via' = Clear(s, {"T1"}) BY <2>5 DEF WriteT1CH, latch
    <3>2. Same(s) BY <2>3, CallSame, SetLatches
    <3> HIDE DEF s
    <3> QED BY <2>2, <2>4, <3>1, <3>2, ClearStep
  <2>6. CASE WriteT1LH(hi)
    <3> DEFINE s == [Call EXCEPT !.latch1 = latch]
    <3>1. via' = Clear(s, {"T1"}) BY <2>6, CallGood DEF WriteT1LH, latch
    <3>2. Same(s) BY <2>3, CallSame, SetLatches
    <3> HIDE DEF s
    <3> QED BY <2>2, <2>4, <3>1, <3>2, ClearStep
  <2>7. CASE WriteT2CH(hi)
    <3> DEFINE n == hi * Byte + via.latch2
               s == [Call EXCEPT !.timer2 = n]
    <3>1. via' = Clear(s, {"T2"}) BY <2>7 DEF WriteT2CH
    <3>2. via.latch2 \in 0 .. Byte - 1
      <4>1. 0 \in 0 .. Byte - 1 BY DEF Byte
      <4>2. LowBytes \subseteq 0 .. Byte - 1 BY TimeAssumption
      <4> QED BY <1>1, <4>1, <4>2
    <3>3. n \in Nat BY <2>2, <3>2 DEF Byte
    <3>4. n <= T2Wrap BY <1>1, <2>1, TimeAssumption
    <3>5. n \in 0 .. T2Wrap BY <3>3, <3>4, TimeAssumption
    <3> HIDE DEF n
    <3>6. Same(s) BY <3>3, <3>5, CallSame, SetLatches
    <3> HIDE DEF s
    <3> QED BY <2>2, <2>4, <3>1, <3>6, ClearStep
  <2> QED BY <2>1, <2>5, <2>6, <2>7
<1> QED BY <1>2, <1>3

LEMMA ModesKeep ==
  ASSUME IInv, \/ WriteSR
               \/ \E free \in BOOLEAN : WriteACR(free)
               \/ \E field \in Ca2Fields : WritePCR(field)
  PROVE  AccessOK
<1>1. ~via.aborted BY DEF WriteSR, WriteACR, WritePCR, Reg
<1>2. CASE WriteSR
  <2>1. via' = [Call EXCEPT !.srTicks = 8] BY <1>2 DEF WriteSR
  <2>2. Same(via') BY <2>1, CallSame, SetOthers
  <2> QED BY <1>1, <2>2, SameStep
<1>3. CASE \E free \in BOOLEAN : WriteACR(free)
  <2>1. PICK free \in BOOLEAN : via' = [Call EXCEPT !.freeRun = free] BY <1>3 DEF WriteACR
  <2>2. Same(via') BY <2>1, CallSame, SetOthers
  <2> QED BY <1>1, <2>2, SameStep
<1>4. CASE \E field \in Ca2Fields : WritePCR(field)
  <2>1. PICK field \in 0 .. 3 : via' = [Call EXCEPT !.ca2 = field]
    BY <1>4, RegisterAssumption DEF WritePCR
  <2>2. Same(via') BY <2>1, CallSame, SetOthers
  <2> QED BY <1>1, <2>2, SameStep
<1> QED BY <1>2, <1>3, <1>4

LEMMA IfrKeeps == ASSUME IInv, NEW flags \in IfrWrites, WriteIFR(flags) PROVE AccessOK
<1>1. ~via.aborted /\ via' = Clear(Call, flags) BY DEF WriteIFR, Reg
<1>2. flags \in SUBSET (Flags \cup {"IRQ"}) BY RegisterAssumption
<1>3. ("IRQ" \in flags => Hides) /\ ("CA1" \in flags => VblankTaken)
  BY DEF Hides, VblankTaken
<1> QED BY <1>1, <1>2, <1>3, CallSame, ClearStep

\* An abort leaves the line as it was: only enabling can cause it, and that
\* takes no enabled flag away.
LEMMA IerKeeps ==
  ASSUME IInv, NEW enable \in BOOLEAN, NEW flags \in IerBits, WriteIER(enable, flags)
  PROVE  AccessOK
<1> DEFINE ier == IF enable THEN via.ier \cup flags ELSE via.ier \ flags
<1>1. /\ ~via.aborted /\ via.ier \in SUBSET Flags /\ via.ier \cap Unsupported = {}
      /\ flags \in SUBSET Flags
  BY RegisterAssumption DEF WriteIER, Reg, IInv, Good, ViaState
<1>2. ier \in SUBSET Flags BY <1>1
<1>3. ier \cap Unsupported # {} => via.ier \subseteq ier BY <1>1
<1>4. via' = IF ier \cap Unsupported # {} THEN [Call EXCEPT !.ier = ier, !.aborted = TRUE]
             ELSE ViaCheckIrq([Call EXCEPT !.ier = ier])
  BY DEF WriteIER
<1> HIDE DEF ier
<1>5. Same(Call) /\ Call \in ViaState BY CallSame DEF Same, Good
<1>6. CASE ier \cap Unsupported # {}
  <2> DEFINE s == [Call EXCEPT !.ier = ier, !.aborted = TRUE]
  <2>1. s \in ViaState BY <1>2, <1>5 DEF ViaState
  <2>2. s.ifr = via.ifr /\ s.ier = ier /\ s.aborted /\ s.latch2 = Call.latch2
        /\ s.req = "none" /\ s.controlin = via.controlin
    BY <1>5 DEF Same, ViaState
  <2>3. via' = s BY <1>4, <1>6
  <2> HIDE DEF s
  <2>4. Caused(via') BY <1>3, <1>6, <2>2, <2>3 DEF IInv, Caused
  <2>5. IInv' BY <1>5, <2>1, <2>2, <2>3, <2>4 DEF IInv, Same, Good, LineUp
  <2>6. Dropped BY <1>3, <1>6, <2>2, <2>3 DEF Dropped, Enabled
  <2> QED BY <2>2, <2>3, <2>5, <2>6 DEF AccessOK, StepOK, Edge, Kept, Told
<1>7. CASE ier \cap Unsupported = {}
  <2> DEFINE s == [Call EXCEPT !.ier = ier]
  <2>1. s \in ViaState BY <1>2, <1>5 DEF ViaState
  <2>2. Good(s) /\ ~s.aborted /\ s.ifr = via.ifr
        /\ s.req = "none" /\ s.controlin = via.controlin
    BY <1>1, <1>5, <1>7, <2>1 DEF Same, Good, ViaState
  <2>3. via' = ViaCheckIrq(s) BY <1>4, <1>7
  <2> HIDE DEF s
  <2>4. IInv' /\ Dropped /\ Told /\ via'.controlin = via.controlin BY <1>1, <2>2, <2>3, Checked
  <2>5. "CA1" \in via'.ifr <=> "CA1" \in via.ifr BY <2>1, <2>2, <2>3, CheckFields
  <2> QED BY <2>4, <2>5 DEF AccessOK, StepOK, Edge, Kept, Told
<1> QED BY <1>6, <1>7

LEMMA ReadKeeps == ASSUME IInv, Read PROVE AccessOK
<1>1. ~via.aborted BY DEF Read, ReadORB, ReadORA, ReadT1CL, ReadT1LH, ReadT2CL, ReadSR, Reg
<1>2. CASE ReadORB
  <2>1. via' = Clear(Call, {"CB1", "CB2"}) BY <1>2 DEF ReadORB, AccessPortB
  <2> QED BY <1>1, <2>1, CallSame, ClearStep DEF Flags
<1>3. CASE ReadORA
  <2>1. via' = Clear(Call, {"CA1", "CA2"}) BY <1>3 DEF ReadORA, AccessPortA
  <2> QED BY <1>1, <1>3, <2>1, CallSame, ClearStep DEF Flags, VblankTaken
<1>4. CASE ReadT1CL
  <2>1. via' = Clear(Call, {"T1"}) BY <1>4 DEF ReadT1CL
  <2> QED BY <1>1, <2>1, CallSame, ClearStep DEF Flags
<1>5. CASE ReadT2CL
  <2>1. via' = Clear(Call, {"T2"}) BY <1>5 DEF ReadT2CL
  <2> QED BY <1>1, <2>1, CallSame, ClearStep DEF Flags
<1>6. CASE ReadT1LH
  <2>1. via.latch1 \in Nat BY DEF IInv, Good, ViaState
  <2>2. Low(via.latch1) \in Int BY <2>1 DEF Low, Byte
  <2>3. via' = [Call EXCEPT !.val = Low(via.latch1)] BY <1>6 DEF ReadT1LH
  <2>4. Same(via') BY <2>2, <2>3, CallSame, SetOthers
  <2> QED BY <1>1, <2>4, SameStep
<1>7. CASE ReadSR
  <2> DEFINE s == [Call EXCEPT !.ifr = @ \ {"SR"}]
  <2>1. Call \in ViaState /\ Same(Call) BY CallSame DEF Same, Good
  <2>2. s \in ViaState BY <2>1 DEF ViaState
  <2>3. /\ s.ifr = via.ifr \ {"SR"} /\ s.ier = via.ier /\ s.line = via.line
        /\ s.aborted = via.aborted /\ s.latch2 = Call.latch2
        /\ s.req = "none" /\ s.controlin = via.controlin
    BY <2>1 DEF Same, ViaState
  <2>4. via' = s BY <1>7 DEF ReadSR
  <2> HIDE DEF s
  <2>5. IInv' BY <2>1, <2>2, <2>3, <2>4 DEF IInv, Same, Good, LineUp, Caused
  <2> QED BY <1>7, <2>3, <2>4, <2>5 DEF AccessOK, StepOK, Dropped, Edge, Kept, LateDrop, Told
<1> QED BY <1>2, <1>3, <1>4, <1>5, <1>6, <1>7 DEF Read

-----------------------------------------------------------------------------
(* The theorems.                                                           *)

LEMMA InitOK == Init => IInv
<1> SUFFICES ASSUME Init PROVE IInv OBVIOUS
<1>1. 0 \in 0 .. T2Wrap /\ 0 \in 0 .. SrPeriod - 1 BY TimeAssumption
<1>2. -1 \in Int OBVIOUS
<1> DEFINE minus == -1
<1> HIDE DEF minus
<1>3. via \in ViaState
  <2>1. {3} \in SUBSET Bits BY DEF Bits
  <2> QED BY <1>1, <1>2, <2>1 DEF Init, ViaState, minus
<1> QED BY <1>3 DEF Init, IInv, Good, LineUp, Caused

LEMMA NextOK == ASSUME IInv, Next PROVE StepOK
<1>1. CASE ViaStep BY <1>1, StepKeeps DEF AccessOK
<1>2. CASE Lines BY <1>2, LineKeeps, SetBitKeeps DEF Lines, AccessOK
<1>3. CASE Write BY <1>3, PortsKeep, LatchesKeep, ModesKeep, IfrKeeps, IerKeeps DEF Write, AccessOK
<1>4. CASE Read BY <1>4, ReadKeeps DEF AccessOK
<1> QED BY <1>1, <1>2, <1>3, <1>4 DEF Next

THEOREM IInvHolds == Spec => []IInv
<1>1. IInv /\ [Next]_vars => IInv'
  <2>1. ASSUME IInv, UNCHANGED vars PROVE IInv' BY <2>1 DEF vars, IInv, Good, LineUp, Caused
  <2> QED BY <2>1, NextOK DEF StepOK
<1> QED BY <1>1, InitOK, PTL DEF Spec

\* Every register of the VIA keeps its type and timer 2 its range, whatever is
\* written to the latches.
THEOREM TypeCorrect == Spec => []TypeOK
<1>1. IInv => TypeOK BY DEF IInv, Good, TypeOK
<1> QED BY <1>1, IInvHolds, PTL

\* viaCheckIrq and its callers: an enabled flag holds the line, and but for a
\* read of SR and a write of bit 7 of IFR the line falls with the last of them.
THEOREM LineIsRight == Spec => LineFollowsFlags
<1> DEFINE Rises == ~via'.aborted /\ Enabled' # {} => via'.line = 1 /\ "IRQ" \in via'.ifr
<1>1. ASSUME IInv, IInv', [Next]_vars PROVE [Rises /\ Dropped]_vars
  <2>1. ASSUME Next PROVE Rises /\ Dropped
    BY <1>1, <2>1, NextOK DEF StepOK, IInv, LineUp, Enabled
  <2> QED BY <1>1, <2>1
<1>2. [Rises /\ Dropped]_vars <=>
        [/\ ~via'.aborted /\ Enabled' # {} => via'.line = 1 /\ "IRQ" \in via'.ifr
         /\ Enabled # {} /\ Enabled' = {} /\ via'.line = 1 => LateDrop]_vars
  BY DEF Dropped
<1> QED BY <1>1, <1>2, IInvHolds, PTL DEF Spec, LineFollowsFlags

\* A vertical blank is flagged on its edge only, and its flag is taken back by a port
\* A access or a write of IFR that names it and by nothing else.
THEOREM VblankIsKept == Spec => VblankKept
<1>1. ASSUME IInv, [Next]_vars PROVE [Edge /\ Kept]_vars
  BY <1>1, NextOK DEF StepOK
<1>2. [Edge /\ Kept]_vars <=>
        [/\ "CA1" \notin via.ifr /\ "CA1" \in via'.ifr =>
              via.controlin["CA1"] /\ ~via'.controlin["CA1"]
         /\ "CA1" \in via.ifr /\ "CA1" \notin via'.ifr => VblankTaken]_vars
  BY DEF Edge, Kept
<1> QED BY <1>1, <1>2, IInvHolds, PTL DEF Spec, VblankKept

=============================================================================
