---------------------------- MODULE DisplayProofs ---------------------------
(***************************************************************************)
(* Proofs about Display, for every size of the screen, the buffer and the  *)
(* display, and about Mipi under it: that the range of lines covers the    *)
(* range of rows; that the task keeps to what the DMA engine is made for   *)
(* and the engine sends each packet once; how the task can crash; and      *)
(* which lines of the display can stay stale.                              *)
(***************************************************************************)
EXTENDS Display, TLAPS

ST == INSTANCE SequenceTheorems

\* The highest row a line looks at, and the lowest.
LEMMA RowsOfLine ==
  ASSUME NEW j \in Nat, NEW r \in Uses(j)
  PROVE  r \in Nat /\ Scale * j < 32 * (r + 1) /\ 32 * r < Scale * j + Scale + 32
<1>1. PICK d \in {0, 10, 25, Scale} :
        LET y == Scale * j + d IN r = y \div 32 \/ (y % 32 # 0 /\ r = y \div 32 + 1)
  BY DEF Uses, Heights
<1>2. r \in Nat BY DEF Uses, RowSet
<1> QED BY <1>1, <1>2 DEF Scale

\* displayTask: whatever rows have changed, every line that is made from one of
\* them is in the range that is sent.
THEOREM RangeCovers ==
  ASSUME NEW first \in RowSet, NEW last \in RowSet,
         NEW r \in first .. last, NEW j \in Nat, r \in Uses(j)
  PROVE  From(first) <= j /\ j < To(last)
<1>1. Scale * j < 32 * (r + 1) /\ 32 * r < Scale * j + Scale + 32 BY RowsOfLine
<1>2. first \in Nat /\ last \in Nat /\ r \in Nat /\ first <= r /\ r <= last BY DisplayAssumption DEF RowSet
<1>3. From(first) <= j BY <1>1, <1>2 DEF From, Scale
<1>4. j < To(last) BY <1>1, <1>2 DEF To, Scale
<1> QED BY <1>3, <1>4

-----------------------------------------------------------------------------
(* The task gives the engine packets that fit.                             *)

\* A range of lines to be sent, never empty and never behind the display.
Range == ystart \in Nat /\ yend \in Nat /\ ystart < yend /\ yend <= FirstLines

TInv ==
  /\ fb \in [RowSet -> {0, 1}] /\ old \in [RowSet -> {0, 1}] /\ row \in Nat
  /\ pc = "up" => ystart \in 0 .. Rows /\ yend = Rows - 1
  /\ pc = "down" => ystart \in 0 .. Rows /\ yend \in Int /\ yend < Rows
  /\ pc = "copy" => Range \/ (ystart = Rows /\ yend = Rows)
  /\ pc = "window" => Range /\ row = ystart
  /\ pc = "lines" => Range /\ row \in ystart .. yend - 1

LEMMA PacketFits ==
  ASSUME NEW data \in Seq(Units), Len(data) + 2 <= DescCnt
  PROVE  <<Other>> \o data \o <<Other>> \in M!Packets
<1>1. Other \in Units BY DEF Units
<1>2. <<Other>> \in Seq(Units) /\ Len(<<Other>>) = 1 BY <1>1
<1> DEFINE p == <<Other>> \o data
<1>3. p \in Seq(Units) /\ Len(p) = Len(data) + 1 BY <1>2
<1>4. p \o <<Other>> \in Seq(Units) /\ Len(p \o <<Other>>) = Len(data) + 2
  <2> HIDE DEF p
  <2> QED BY <1>2, <1>3
<1> QED BY <1>4, DisplayAssumption DEF M!Packets

LEMMA SmallPackets ==
  ASSUME NEW u \in Units
  PROVE  <<Other>> \o <<u>> \o <<Other>> \in M!Packets /\ <<Other>> \in M!Packets
<1>1. <<u>> \in Seq(Units) /\ Len(<<u>>) = 1 OBVIOUS
<1>2. Len(<<u>>) + 2 <= DescCnt BY <1>1, DisplayAssumption
<1>3. Other \in Units BY DEF Units
<1>4. <<Other>> \in Seq(Units) /\ Len(<<Other>>) = 1 BY <1>3
<1>5. <<Other>> \in M!Packets BY <1>4, DisplayAssumption DEF M!Packets
<1> QED BY <1>1, <1>2, <1>5, PacketFits

LEMMA LineType ==
  ASSUME TInv, NEW fresh \in BOOLEAN, NEW j \in 0 .. FirstLines
  PROVE  Line(fresh, j) \in Units
<1>1. Uses(j) \subseteq RowSet BY DEF Uses
<1>2. Image(old, j) \in [Uses(j) -> {0, 1}] BY <1>1 DEF TInv, Image
<1>3. Image(old, j) \in UNION {[Uses(k) -> {0, 1}] : k \in 0 .. FirstLines} BY <1>2
<1> QED BY <1>3 DEF Line, Units

\* SendLines: the lines of a buffer.
LEMMA LinesFit ==
  ASSUME TInv, pc = "lines"
  PROVE  /\ BufferEnd \in row .. yend - 1 /\ (BufferEnd = yend - 1 \/ BufferEnd + 1 \in ystart .. yend - 1)
         /\ <<Other>> \o [i \in 1 .. BufferEnd - row + 1 |->
                           Line(i = 1 /\ row = ystart, row + i - 1)] \o <<Other>> \in M!Packets
<1>1. Range /\ row \in ystart .. yend - 1 BY DEF TInv
<1>2. BufferEnd \in row .. yend - 1 /\ BufferEnd - row + 1 \in 1 .. LinesPerBuf
      /\ (BufferEnd = yend - 1 \/ BufferEnd + 1 \in ystart .. yend - 1)
  BY <1>1, DisplayAssumption DEF Range, BufferEnd
<1> DEFINE n == BufferEnd - row + 1
           data == [i \in 1 .. n |-> Line(i = 1 /\ row = ystart, row + i - 1)]
<1>3. \A i \in 1 .. n : Line(i = 1 /\ row = ystart, row + i - 1) \in Units
  <2> TAKE i \in 1 .. n
  <2>1. row + i - 1 \in 0 .. FirstLines BY <1>1, <1>2, DisplayAssumption DEF Range
  <2>2. (i = 1 /\ row = ystart) \in BOOLEAN OBVIOUS
  <2> QED BY <2>1, <2>2, LineType
<1>4. n \in 1 .. LinesPerBuf BY <1>2
<1> HIDE DEF n
<1>5. data \in Seq(Units) /\ Len(data) = n BY <1>3, <1>4, DisplayAssumption
<1>6. Len(data) + 2 <= DescCnt BY <1>4, <1>5, DisplayAssumption
<1> HIDE DEF data
<1>7. <<Other>> \o data \o <<Other>> \in M!Packets BY <1>5, <1>6, PacketFits
<1> USE DEF data, n
<1> QED BY <1>2, <1>7

\* From and To make a range of lines from a range of rows.
LEMMA ScaledRange ==
  ASSUME NEW a \in Nat, NEW b \in Nat, a <= b, b < Rows
  PROVE  From(a) \in Nat /\ To(b) \in Nat /\ From(a) < To(b) /\ To(b) <= FirstLines
<1>1. Rows \in Nat /\ FirstLines \in Nat /\ ((Rows - 1) * 32) \div 51 + 2 <= FirstLines
  BY DisplayAssumption
<1>2. (b * 32) \div 51 <= ((Rows - 1) * 32) \div 51 BY <1>1
<1>3. (a * 32) \div 51 <= (b * 32) \div 51 /\ (a * 32) \div 51 \in Nat OBVIOUS
<1>4. From(a) \in Nat /\ From(a) <= (a * 32) \div 51 BY <1>3 DEF From, Scale
<1>5. To(b) = (b * 32) \div 51 + 2 BY DEF To, Scale
<1> QED BY <1>1, <1>2, <1>3, <1>4, <1>5

LEMMA InitTInv == Init => TInv
BY DEF Init, TInv

LEMMA BootTInv ==
  ASSUME TInv, Boot \/ Packet \/ setColRange \/ Resync \/ setRowRange
  PROVE  TInv' /\ M!Next
<1>1. Other \in Units BY DEF Units
<1>2. <<Other>> \o <<Other>> \o <<Other>> \in M!Packets /\ <<Other>> \in M!Packets
  BY <1>1, SmallPackets
<1>3. CASE Boot
  <2>1. TInv' BY <1>3 DEF Boot, TInv, Goto, Keep, screen, Range
  <2>2. M!Next BY <1>2, <1>3 DEF Boot, mipiDsiSendLong, M!Next
  <2> QED BY <2>1, <2>2
<1>4. CASE Packet
  <2>1. TInv' BY <1>4 DEF Packet, TInv, Goto, Keep, screen, Range
  <2>2. M!Next BY <1>2, <1>4 DEF Packet, mipiDsiSendLong, mipiDsiSendShort, M!Next
  <2> QED BY <2>1, <2>2
<1>5. CASE setColRange
  <2>1. TInv' BY <1>5 DEF setColRange, TInv, Goto, Keep, screen, Range
  <2>2. M!Next BY <1>2, <1>5 DEF setColRange, mipiDsiSendLong, M!Next
  <2> QED BY <2>1, <2>2
<1>6. CASE Resync
  <2>1. TInv' BY <1>6 DEF Resync, TInv, Goto, Keep, screen, Range
  <2> QED BY <1>6, <2>1 DEF Resync, M!Next
<1>7. CASE setRowRange
  <2>1. Range /\ row = ystart BY <1>7 DEF setRowRange, TInv
  <2>2. pc' = "lines" /\ UNCHANGED <<fb, old, ystart, yend, row>>
    BY <1>7 DEF setRowRange, Goto, Keep, screen
  <2>3. Range' /\ row' \in ystart' .. yend' - 1 BY <2>1, <2>2 DEF Range
  <2>4. TInv' BY <2>2, <2>3 DEF TInv
  <2>5. SetWindow(ystart) \in Units
    <3>1. ystart \in 0 .. FirstLines BY <2>1, DisplayAssumption DEF Range
    <3> QED BY <3>1 DEF SetWindow, Units
  <2>6. M!Next BY <1>7, <2>5, SmallPackets DEF setRowRange, mipiDsiSendLong, M!Next
  <2> QED BY <2>4, <2>6
<1> QED BY <1>3, <1>4, <1>5, <1>6, <1>7

LEMMA CompareTInv ==
  ASSUME TInv, Take \/ ScanUp \/ ScanDown \/ NoUpdate \/ Overrun \/ Update \/ Copy
  PROVE  TInv' /\ UNCHANGED dma
<1>1. Rows \in Nat \ {0} /\ FirstLines \in 1 .. Rows BY DisplayAssumption
<1>2. CASE Take
  <2>1. UNCHANGED <<fb, old, dma>> /\ row' = 0 /\ ystart' = 0 BY <1>2 DEF Take, screen
  <2>2. CASE firstrun
    <3>1. pc' = "copy" /\ yend' = FirstLines BY <1>2, <2>2 DEF Take, Goto
    <3>2. Range' BY <1>1, <2>1, <3>1 DEF Range
    <3> QED BY <2>1, <3>1, <3>2 DEF TInv
  <2>3. CASE ~firstrun
    <3>1. pc' = "up" /\ yend' = Rows - 1 BY <1>2, <2>3 DEF Take, Goto
    <3> QED BY <1>1, <2>1, <3>1 DEF TInv
  <2> QED BY <2>2, <2>3
<1>3. CASE ScanUp
  <2>1. UNCHANGED <<fb, old, row, yend, dma>> /\ ystart \in 0 .. Rows /\ yend = Rows - 1
    BY <1>3 DEF ScanUp, Keep, screen, TInv
  <2>2. \/ pc' = "up" /\ ystart' \in 0 .. Rows
        \/ pc' = "down" /\ ystart' \in 0 .. Rows
    BY <1>1, <1>3, <2>1 DEF ScanUp, Goto
  <2> QED BY <1>1, <2>1, <2>2 DEF TInv
<1>4. CASE ScanDown
  <2>1. UNCHANGED <<fb, old, row, ystart, pc, dma>> /\ pc = "down" /\ yend' = yend - 1
    BY <1>4 DEF ScanDown, Keep, screen
  <2> QED BY <1>1, <2>1 DEF TInv
<1>5. CASE NoUpdate \/ Overrun
  <2>1. UNCHANGED <<fb, old, row, dma>> BY <1>5 DEF NoUpdate, Overrun, Compared, screen
  <2>2. (pc' = "copy" /\ ystart' = Rows /\ yend' = Rows) \/ pc' = "crashed"
    BY <1>5 DEF NoUpdate, Overrun, Goto
  <2> QED BY <2>1, <2>2 DEF TInv
<1>6. CASE Update
  <2>1. UNCHANGED <<fb, old, row, dma>> /\ pc = "down" /\ pc' = "copy"
    BY <1>6 DEF Update, Compared, Goto, screen
  <2>2. ystart \in Nat /\ yend \in Nat /\ ystart <= yend /\ yend < Rows
    BY <1>1, <1>6, <2>1 DEF Update, TInv
  <2>3. ystart' = From(ystart) /\ yend' = To(yend) BY <1>6 DEF Update
  <2>4. Range' BY <2>2, <2>3, ScaledRange DEF Range
  <2> QED BY <2>1, <2>4 DEF TInv
<1>7. CASE Copy
  <2>1. UNCHANGED <<fb, ystart, yend, dma>> /\ pc = "copy" BY <1>7 DEF Copy, Keep, screen
  <2>2. CASE row < Rows
    <3>1. pc' = pc /\ row' = row + 1 /\ old' = [old EXCEPT ![row] = fb[row]]
      BY <1>7, <2>2 DEF Copy
    <3>2. row \in RowSet BY <1>1, <2>2 DEF TInv, RowSet
    <3>3. old' \in [RowSet -> {0, 1}] BY <3>1, <3>2 DEF TInv
    <3> QED BY <2>1, <3>1, <3>3 DEF TInv, Range
  <2>3. CASE ~(row < Rows)
    <3>1. row' = ystart /\ old' = old /\ pc' = (IF ystart # yend THEN "window" ELSE "top")
      BY <1>7, <2>3 DEF Copy, Goto
    <3>2. Range \/ (ystart = Rows /\ yend = Rows) BY <2>1 DEF TInv
    <3>3. row' \in Nat BY <1>1, <3>1, <3>2 DEF Range
    <3> QED BY <2>1, <3>1, <3>2, <3>3 DEF TInv, Range
  <2> QED BY <2>2, <2>3
<1> QED BY <1>2, <1>3, <1>4, <1>5, <1>6, <1>7

LEMMA SendTInv ==
  ASSUME TInv, SendLines \/ Sending \/ DmaEngine \/ Interrupt
  PROVE  TInv' /\ M!Next
<1>1. CASE SendLines
  <2>1. pc = "lines" /\ UNCHANGED <<fb, old, ystart, yend>> /\ row' = BufferEnd + 1
        /\ pc' = (IF Ends THEN "top" ELSE "lines")
    BY <1>1 DEF SendLines, Keep, screen, Goto
  <2>2. BufferEnd \in row .. yend - 1 /\ (BufferEnd = yend - 1 \/ BufferEnd + 1 \in ystart .. yend - 1)
    BY <2>1, LinesFit
  <2>3. ~Ends => BufferEnd + 1 \in ystart .. yend - 1 BY <2>2 DEF Ends
  <2>4. Range /\ row \in Nat BY <2>1 DEF TInv
  <2>5. row' \in Nat BY <2>1, <2>2, <2>4 DEF Range
  <2>6. Range' BY <2>1, <2>4 DEF Range
  <2>7. TInv' BY <2>1, <2>3, <2>5, <2>6 DEF TInv
  <2>8. M!Next BY <1>1, <2>1, LinesFit DEF SendLines, mipiDsiSendLong, M!Next
  <2> QED BY <2>7, <2>8
<1>2. CASE Sending
  <2>1. TInv' BY <1>2 DEF Sending, Keep, screen, task, TInv, Range
  <2> QED BY <1>2, <2>1 DEF Sending, M!Next
<1>3. CASE DmaEngine
  <2>1. TInv' BY <1>3 DEF DmaEngine, screen, task, TInv, Range
  <2> QED BY <1>3, <2>1 DEF DmaEngine, M!Next
<1>4. CASE Interrupt
  <2>1. TInv' BY <1>4 DEF Interrupt, screen, task, TInv, Range
  <2> QED BY <1>4, <2>1 DEF Interrupt, M!Next
<1> QED BY <1>1, <1>2, <1>3, <1>4

LEMMA OutsideTInv ==
  ASSUME TInv, (\E r \in RowSet : Draw(r)) \/ dispDraw \/ UNCHANGED vars
  PROVE  TInv' /\ UNCHANGED dma
<1>1. CASE \E r \in RowSet : Draw(r)
  <2>1. PICK r \in RowSet : Draw(r) BY <1>1
  <2>2. fb' = [fb EXCEPT ![r] = 1 - @] BY <2>1 DEF Draw
  <2>3. fb' \in [RowSet -> {0, 1}] BY <2>2 DEF TInv
  <2>4. UNCHANGED <<task, dma>> BY <2>1 DEF Draw
  <2> QED BY <2>3, <2>4 DEF task, TInv, Range
<1>2. CASE dispDraw \/ UNCHANGED vars
  <2>1. UNCHANGED <<fb, old, row, ystart, yend, pc, dma>>
    BY <1>2 DEF dispDraw, vars, screen, task
  <2> QED BY <2>1 DEF TInv, Range
<1> QED BY <1>1, <1>2

LEMMA NextDma == TInv /\ [Next]_vars => TInv' /\ [M!Next]_(M!vars)
<1> SUFFICES ASSUME TInv, [Next]_vars PROVE TInv' /\ [M!Next]_(M!vars) OBVIOUS
<1>1. UNCHANGED dma => UNCHANGED M!vars BY DEF dma, M!vars
<1> QED BY <1>1, BootTInv, CompareTInv, SendTInv, OutsideTInv DEF Next, displayTask

\* The display task, the emulator, the interrupt and the engine together do nothing
\* to the DMA descriptors that the model of mipi.c does not: every packet fits.
THEOREM DrivesDma == Spec => M!Spec
<1>1. Init => TInv /\ M!Init BY InitTInv DEF Init
<1> QED BY <1>1, NextDma, PTL DEF Spec, M!Spec

-----------------------------------------------------------------------------
(* The DMA engine, for every number of descriptors, every packet and every *)
(* choice the engine has when it reads a link.  The invariant follows a    *)
(* packet along the chain: where the engine is determines how much of the  *)
(* packet is on the wire, and the interrupt and the semaphore are only set *)
(* when it has come to the idle descriptor behind the run-out.             *)

DmaTypes ==
  /\ next \in [M!Descs -> M!Descs] /\ cur \in {0, 1} /\ chain \in Seq(Units)
  /\ Len(chain) \in 0 .. DescCnt
  /\ at \in M!Descs /\ ahead \in M!Descs /\ wire \in Seq(Units)
  /\ irq \in BOOLEAN /\ sem \in BOOLEAN /\ tx \in {"none", "ready", "await"}

\* The chain of a packet that is prepared or on its way.
Chained(to) ==
  /\ Len(chain) > 0
  /\ \A i \in 1 .. Len(chain) : next[M!Data(i)] = M!Linked(Len(chain), M!Data(i))
  /\ next[M!Runout] = to /\ next[to] = to

Prepared == tx = "ready" => Chained(M!Idle(1 - cur)) /\ wire = <<>>

Before == at = M!Idle(1 - cur) /\ ahead \in {at, M!Data(1)} /\ wire = <<>>
Within == \E i \in 1 .. Len(chain) :
            at = M!Data(i) /\ ahead = next[at] /\ Len(wire) = i - 1
Behind == at = M!Runout /\ ahead = next[at] /\ Len(wire) = Len(chain)
Past == at = M!Idle(cur) /\ ahead = at /\ Len(wire) = Len(chain)

OnItsWay ==
  tx = "await" =>
    /\ Chained(M!Idle(cur)) /\ next[M!Idle(1 - cur)] = M!Data(1)
    /\ \/ (Before \/ Within \/ Behind) /\ ~irq /\ ~sem
       \/ Past /\ (irq \/ sem) /\ ~(irq /\ sem)
    /\ Len(wire) <= Len(chain)
    /\ \A k \in 1 .. Len(wire) : wire[k] = chain[k]

DmaInv == DmaTypes /\ M!Spins /\ Prepared /\ OnItsWay

-----------------------------------------------------------------------------
(* Descriptors are told apart.                                             *)

LEMMA DescsApart ==
  /\ M!Idle(0) # M!Idle(1) /\ M!Idle(0) # M!Runout /\ M!Idle(1) # M!Runout
  /\ \A i \in Nat : M!Data(i) # M!Idle(0) /\ M!Data(i) # M!Idle(1) /\ M!Data(i) # M!Runout
  /\ \A i, j \in Nat : M!Data(i) = M!Data(j) => i = j
BY DEF M!Idle, M!Runout, M!Data

LEMMA DescsIn ==
  /\ M!Idle(0) \in M!Descs /\ M!Idle(1) \in M!Descs /\ M!Runout \in M!Descs
  /\ \A i \in 1 .. DescCnt : M!Data(i) \in M!Descs
BY DEF M!Descs

LEMMA LinkedIn ==
  ASSUME NEW n \in 1 .. DescCnt, NEW i \in 1 .. n
  PROVE  M!Linked(n, M!Data(i)) = IF i < n THEN M!Data(i + 1) ELSE M!Runout
BY DEF M!Linked, M!Data

-----------------------------------------------------------------------------
(* The steps.                                                              *)

LEMMA InitDma ==
  ASSUME M!DescAssumption
  PROVE  M!Init => DmaInv
<1> SUFFICES ASSUME M!Init PROVE DmaInv OBVIOUS
<1>1. DmaTypes
  <2>1. next \in [M!Descs -> M!Descs] BY DEF M!Init
  <2>2. chain \in Seq(Units) /\ wire \in Seq(Units) /\ Len(chain) = 0 BY DEF M!Init
  <2>3. Len(chain) \in 0 .. DescCnt BY <2>2 DEF M!DescAssumption
  <2>4. cur \in {0, 1} /\ at \in M!Descs /\ ahead \in M!Descs BY DescsIn DEF M!Init
  <2>5. irq \in BOOLEAN /\ sem \in BOOLEAN /\ tx \in {"none", "ready", "await"} BY DEF M!Init
  <2> QED BY <2>1, <2>2, <2>3, <2>4, <2>5 DEF DmaTypes
<1>2. M!Spins BY DescsIn DEF M!Init, M!Spins
<1> QED BY <1>1, <1>2 DEF M!Init, DmaInv, Prepared, OnItsWay

LEMMA ResyncDma == DmaInv /\ M!mipiResync => DmaInv'
<1> SUFFICES ASSUME DmaInv, M!mipiResync PROVE DmaInv' OBVIOUS
<1> USE DEF M!mipiResync
<1>1. DmaTypes' BY DescsIn DEF DmaInv, DmaTypes
<1>2. M!Spins' BY DescsIn DEF DmaInv, M!Spins, DmaTypes
<1> QED BY <1>1, <1>2 DEF DmaInv, Prepared, OnItsWay

LEMMA PrepareDma ==
  ASSUME M!DescAssumption
  PROVE  DmaInv /\ (\E p \in M!Packets : M!Prepare(p)) => DmaInv'
<1> SUFFICES ASSUME DmaInv, NEW p \in M!Packets, M!Prepare(p) PROVE DmaInv' OBVIOUS
<1>1. cur \in {0, 1} /\ 1 - cur \in {0, 1} /\ cur # 1 - cur BY DEF DmaInv, DmaTypes
<1>2. M!Idle(cur) # M!Idle(1 - cur) /\ M!Idle(cur) # M!Runout /\ M!Idle(1 - cur) # M!Runout
      /\ M!Idle(cur) \in M!Descs /\ M!Idle(1 - cur) \in M!Descs
  BY <1>1, DescsApart, DescsIn
<1>3. Len(p) \in 1 .. DescCnt /\ p \in Seq(Units) BY DEF M!Packets
<1>4. \A i \in 1 .. Len(p) : M!Data(i) \in M!Used(Len(p)) /\ M!Linked(Len(p), M!Data(i)) \in M!Descs
  <2> TAKE i \in 1 .. Len(p)
  <2>1. M!Data(i) \in M!Used(Len(p)) BY DEF M!Used
  <2>2. i + 1 \in 1 .. DescCnt \/ ~(i < Len(p)) BY <1>3 DEF M!DescAssumption
  <2> QED BY <1>3, <2>1, <2>2, LinkedIn, DescsIn
<1>5. M!Idle(cur) \notin M!Used(Len(p)) /\ M!Idle(1 - cur) \notin M!Used(Len(p)) /\ M!Runout \notin M!Used(Len(p))
  BY <1>1, DescsApart DEF M!Used
<1>6. next' \in [M!Descs -> M!Descs]
  <2>1. \A d \in M!Used(Len(p)) : M!Linked(Len(p), d) \in M!Descs BY <1>4 DEF M!Used
  <2> QED BY <1>2, <2>1 DEF M!Prepare, DmaInv, DmaTypes
<1>7. DmaTypes' BY <1>3, <1>6 DEF M!Prepare, DmaInv, DmaTypes
<1>8. next'[M!Idle(cur)] = next[M!Idle(cur)] BY <1>2, <1>5 DEF M!Prepare
<1>9. M!Spins' BY <1>8 DEF M!Prepare, DmaInv, M!Spins
<1>10. \A i \in 1 .. Len(p) : next'[M!Data(i)] = M!Linked(Len(p), M!Data(i))
  <2> TAKE i \in 1 .. Len(p)
  <2>1. i \in 1 .. DescCnt BY <1>3 DEF M!DescAssumption
  <2>2. M!Data(i) \in M!Descs /\ M!Data(i) \in M!Used(Len(p)) BY <1>4, <2>1, DescsIn
  <2> QED BY <2>2 DEF M!Prepare
<1>11. next'[M!Runout] = M!Idle(1 - cur) /\ next'[M!Idle(1 - cur)] = M!Idle(1 - cur)
  BY <1>2, <1>5, DescsIn DEF M!Prepare
<1>12. Prepared' BY <1>3, <1>10, <1>11 DEF M!Prepare, Prepared, Chained
<1> QED BY <1>7, <1>9, <1>12 DEF DmaInv, M!Prepare, OnItsWay

LEMMA BreakDma ==
  ASSUME M!DescAssumption
  PROVE  DmaInv /\ M!Break => DmaInv'
<1> SUFFICES ASSUME DmaInv, M!Break PROVE DmaInv' OBVIOUS
<1>1. cur \in {0, 1} /\ 1 - cur \in {0, 1} /\ cur # 1 - cur /\ 1 - (1 - cur) = cur
  BY DEF DmaInv, DmaTypes
<1>2. M!Idle(cur) # M!Idle(1 - cur) /\ M!Idle(cur) # M!Runout /\ M!Idle(1 - cur) # M!Runout
      /\ M!Idle(cur) \in M!Descs /\ M!Idle(1 - cur) \in M!Descs
  BY <1>1, DescsApart, DescsIn
<1>3. Len(chain) \in 1 .. DescCnt BY DEF DmaInv, DmaTypes, M!Break, Prepared, Chained
<1>4. M!Data(1) \in M!Descs BY <1>3, DescsIn DEF M!DescAssumption
<1>5. DmaTypes' BY <1>1, <1>4 DEF M!Break, DmaInv, DmaTypes
<1>6. Chained(M!Idle(1 - cur)) /\ wire = <<>> BY DEF DmaInv, M!Break, Prepared
<1>7. \A i \in 1 .. Len(chain) : M!Data(i) # M!Idle(cur) /\ M!Data(i) \in M!Descs
  <2> TAKE i \in 1 .. Len(chain)
  <2>1. i \in 1 .. DescCnt /\ i \in Nat BY <1>3 DEF M!DescAssumption
  <2> QED BY <1>1, <2>1, DescsApart, DescsIn
<1>8. next \in [M!Descs -> M!Descs] /\ next' = [next EXCEPT ![M!Idle(cur)] = M!Data(1)]
  BY DEF M!Break, DmaInv, DmaTypes
<1>9. Chained(M!Idle(cur))'
  <2>1. \A i \in 1 .. Len(chain) : next'[M!Data(i)] = next[M!Data(i)] BY <1>7, <1>8
  <2>2. next'[M!Runout] = next[M!Runout] /\ next'[M!Idle(1 - cur)] = next[M!Idle(1 - cur)]
    BY <1>2, <1>8, DescsIn
  <2> QED BY <1>6, <2>1, <2>2 DEF Chained, M!Break
<1>10. OnItsWay'
  <2>1. next'[M!Idle(1 - cur')] = M!Data(1) BY <1>1, <1>2, <1>8 DEF M!Break
  <2>2. Before'
    <3>1. at = M!Idle(cur) /\ ahead = at BY DEF DmaInv, M!Spins, M!Break
    <3> QED BY <1>1, <1>6, <3>1 DEF Before, M!Break
  <2>3. ~irq' /\ ~sem' BY DEF DmaInv, M!Spins, M!Break
  <2>4. Len(wire') = 0 /\ Len(chain') = Len(chain) BY <1>6 DEF M!Break
  <2> QED BY <1>3, <1>9, <2>1, <2>2, <2>3, <2>4 DEF OnItsWay
<1> QED BY <1>5, <1>10 DEF DmaInv, M!Break, M!Spins, Prepared

LEMMA InterruptDma == DmaInv /\ M!spidma_intr => DmaInv'
<1> SUFFICES ASSUME DmaInv, M!spidma_intr PROVE DmaInv' OBVIOUS
<1>1. tx = "await" BY DEF DmaInv, DmaTypes, M!Spins, M!spidma_intr
<1>2. DmaTypes' BY DEF DmaInv, DmaTypes, M!spidma_intr
<1>3. Past /\ ~sem BY <1>1 DEF DmaInv, OnItsWay, M!spidma_intr
<1>4. OnItsWay'
  <2>1. Past' BY <1>3 DEF Past, M!spidma_intr
  <2>2. Chained(M!Idle(cur))' BY <1>1 DEF DmaInv, OnItsWay, Chained, M!spidma_intr
  <2> QED BY <1>1, <1>3, <2>1, <2>2 DEF DmaInv, OnItsWay, M!spidma_intr
<1> QED BY <1>1, <1>2, <1>4 DEF DmaInv, M!Spins, Prepared, M!spidma_intr

LEMMA DoneDma == DmaInv /\ M!Done => DmaInv'
<1> SUFFICES ASSUME DmaInv, M!Done PROVE DmaInv' OBVIOUS
<1>1. DmaTypes' BY DEF DmaInv, DmaTypes, M!Done
<1>2. Past /\ ~irq /\ next[M!Idle(cur)] = M!Idle(cur)
  BY DEF DmaInv, OnItsWay, Chained, M!Done
<1>3. M!Spins' BY <1>2 DEF Past, M!Spins, M!Done
<1> QED BY <1>1, <1>3 DEF DmaInv, M!Done, Prepared, OnItsWay

\* Between packets a step of the engine changes nothing.
LEMMA EngineSpinning ==
  ASSUME DmaInv, M!Engine, tx # "await"
  PROVE  UNCHANGED M!vars
<1>1. at = M!Idle(cur) /\ ahead = at /\ next[at] = at BY DEF DmaInv, M!Spins
<1>2. at' = at /\ ahead' = at BY <1>1 DEF M!Engine
<1>3. at[1] = "idle" /\ at # M!Runout
  <2>1. cur \in {0, 1} BY DEF DmaInv, DmaTypes
  <2> QED BY <1>1, <2>1, DescsApart DEF M!Idle
<1>4. wire' = wire /\ irq' = irq BY <1>3 DEF M!Engine, DmaInv, DmaTypes
<1> QED BY <1>1, <1>2, <1>4 DEF M!Engine, M!vars

\* In the idle descriptor that leads to the data.
LEMMA EngineBefore ==
  ASSUME M!DescAssumption, DmaInv, M!Engine, tx = "await", Before, ~irq, ~sem
  PROVE  (Before' \/ Within') /\ ~irq' /\ wire' = wire /\ at' \in M!Descs /\ ahead' \in M!Descs
<1>1. cur \in {0, 1} /\ 1 - cur \in {0, 1} BY DEF DmaInv, DmaTypes
<1>2. at = M!Idle(1 - cur) /\ next[at] = M!Data(1) /\ ahead \in {at, M!Data(1)} /\ wire = <<>>
  BY DEF DmaInv, OnItsWay, Before
<1>3. at[1] = "idle" /\ at # M!Runout BY <1>1, <1>2, DescsApart DEF M!Idle
<1>4. wire' = wire /\ ~irq' BY <1>3 DEF M!Engine
<1>5. Len(chain) \in 1 .. DescCnt BY DEF DmaInv, DmaTypes, OnItsWay, Chained
<1>6. at \in M!Descs /\ M!Data(1) \in M!Descs /\ \A d \in M!Descs : next[d] \in M!Descs
  BY <1>5, DescsIn DEF M!DescAssumption, DmaInv, DmaTypes
<1>7. CASE at' = at /\ ahead' = next[at]
  BY <1>2, <1>4, <1>6, <1>7 DEF Before, M!Engine
<1>8. CASE at' = M!Data(1) /\ ahead' = next[M!Data(1)]
  <2>1. 1 \in 1 .. Len(chain) /\ Len(wire) = 0 BY <1>2, <1>5
  <2>2. Within' BY <1>4, <1>8, <2>1 DEF Within, M!Engine
  <2> QED BY <1>4, <1>6, <1>8, <2>2
<1> QED BY <1>2, <1>7, <1>8 DEF M!Engine

\* In the data: the part it was in is on the wire.
LEMMA EngineWithin ==
  ASSUME M!DescAssumption, DmaInv, M!Engine, tx = "await", Within, ~irq, ~sem
  PROVE  /\ (Within' \/ Behind') /\ ~irq' /\ at' \in M!Descs /\ ahead' \in M!Descs
         /\ wire' \in Seq(Units) /\ Len(wire') <= Len(chain)
         /\ \A k \in 1 .. Len(wire') : wire'[k] = chain[k]
<1>1. PICK i \in 1 .. Len(chain) : at = M!Data(i) /\ ahead = next[at] /\ Len(wire) = i - 1
  BY DEF Within
<1>2. Len(chain) \in 1 .. DescCnt /\ chain \in Seq(Units) /\ wire \in Seq(Units)
  BY DEF DmaInv, DmaTypes, OnItsWay, Chained
<1>3. i \in Nat /\ i \in 1 .. DescCnt BY <1>2 DEF M!DescAssumption
<1>4. at[1] = "data" /\ at[2] = i /\ at # M!Runout BY <1>1, <1>3, DescsApart DEF M!Data
<1>5. ~irq' BY <1>4 DEF M!Engine
<1>6. wire' = Append(wire, chain[i]) BY <1>4 DEF M!Engine
<1>7. chain[i] \in Units BY <1>2
<1>8. wire' \in Seq(Units) /\ Len(wire') = i BY <1>1, <1>2, <1>6, <1>7
<1>9. \A k \in 1 .. Len(wire) : wire[k] = chain[k] BY DEF DmaInv, OnItsWay
<1>10. \A k \in 1 .. Len(wire') : wire'[k] = chain[k]
  <2> TAKE k \in 1 .. Len(wire')
  <2>1. CASE k = i BY <1>1, <1>2, <1>6, <1>7, <1>8, <2>1
  <2>2. CASE k # i BY <1>1, <1>2, <1>3, <1>6, <1>7, <1>8, <1>9, <2>2
  <2> QED BY <2>1, <2>2
<1>11. at' = M!Linked(Len(chain), M!Data(i)) /\ ahead' = next[at']
  BY <1>1 DEF M!Engine, DmaInv, OnItsWay, Chained
<1>12. at' = IF i < Len(chain) THEN M!Data(i + 1) ELSE M!Runout BY <1>2, <1>11, LinkedIn
<1>13. at' \in M!Descs /\ ahead' \in M!Descs
  <2>1. i < Len(chain) => i + 1 \in 1 .. DescCnt BY <1>2, <1>3 DEF M!DescAssumption
  <2>2. at' \in M!Descs BY <1>12, <2>1, DescsIn
  <2> QED BY <1>11, <2>2 DEF DmaInv, DmaTypes
<1>14. CASE i < Len(chain)
  <2>1. i + 1 \in 1 .. Len(chain) /\ Len(wire') = (i + 1) - 1 BY <1>2, <1>3, <1>8, <1>14
  <2>2. at' = M!Data(i + 1) BY <1>12, <1>14
  <2>3. Within' BY <1>11, <2>1, <2>2 DEF Within, M!Engine
  <2> QED BY <1>2, <1>5, <1>8, <1>10, <1>13, <1>14, <2>3
<1>15. CASE ~(i < Len(chain))
  <2>1. i = Len(chain) BY <1>2, <1>15
  <2>2. at' = M!Runout BY <1>12, <1>15
  <2>3. Behind' BY <1>8, <1>11, <2>1, <2>2 DEF Behind, M!Engine
  <2> QED BY <1>2, <1>5, <1>8, <1>10, <1>13, <2>1, <2>3
<1> QED BY <1>14, <1>15

\* In the run-out, and in the idle descriptor behind it.
LEMMA EngineAfter ==
  ASSUME DmaInv, M!Engine, tx = "await", Behind \/ Past
  PROVE  Past' /\ wire' = wire /\ irq' = (irq \/ Behind) /\ at' \in M!Descs /\ ahead' \in M!Descs
<1>1. cur \in {0, 1} /\ M!Idle(cur) \in M!Descs /\ M!Idle(cur) # M!Runout
  BY DescsIn, DescsApart DEF DmaInv, DmaTypes
<1>2. next[M!Runout] = M!Idle(cur) /\ next[M!Idle(cur)] = M!Idle(cur) BY DEF DmaInv, OnItsWay, Chained
<1>3. at[1] = "idle" BY <1>1 DEF Behind, Past, M!Idle, M!Runout
<1>4. at' = M!Idle(cur) /\ ahead' = M!Idle(cur) BY <1>2 DEF M!Engine, Behind, Past
<1>5. wire' = wire BY <1>3 DEF M!Engine
<1>6. irq' = (irq \/ Behind)
  <2>1. CASE at = M!Runout
    <3>1. Behind BY <1>1, <2>1 DEF Behind, Past
    <3> QED BY <2>1, <3>1 DEF M!Engine
  <2>2. CASE at # M!Runout
    <3>1. ~Behind BY <2>2 DEF Behind
    <3> QED BY <2>2, <3>1 DEF M!Engine
  <2> QED BY <2>1, <2>2
<1>7. Past' BY <1>4, <1>5 DEF Past, Behind, M!Engine
<1> QED BY <1>1, <1>4, <1>5, <1>6, <1>7

LEMMA StutterDma == DmaInv /\ UNCHANGED M!vars => DmaInv'
<1> SUFFICES ASSUME DmaInv, UNCHANGED M!vars PROVE DmaInv' OBVIOUS
<1> USE DEF M!vars
<1>1. DmaTypes' BY DEF DmaInv, DmaTypes
<1>2. M!Spins' BY DEF DmaInv, M!Spins
<1>3. Prepared' BY DEF DmaInv, Prepared, Chained
<1>4. Before' = Before /\ Within' = Within /\ Behind' = Behind /\ Past' = Past
  BY DEF Before, Within, Behind, Past
<1>5. Chained(M!Idle(cur))' = Chained(M!Idle(cur)) BY DEF Chained
<1>6. OnItsWay' BY <1>4, <1>5 DEF DmaInv, OnItsWay
<1> QED BY <1>1, <1>2, <1>3, <1>6 DEF DmaInv

LEMMA EngineDma ==
  ASSUME M!DescAssumption
  PROVE  DmaInv /\ M!Engine => DmaInv'
<1> SUFFICES ASSUME DmaInv, M!Engine PROVE DmaInv' OBVIOUS
<1>1. CASE tx # "await" BY <1>1, EngineSpinning, StutterDma
<1>2. CASE tx = "await"
  <2>1. UNCHANGED <<next, cur, chain, sem, tx>> BY DEF M!Engine
  <2>2. Chained(M!Idle(cur))' /\ next'[M!Idle(1 - cur')] = M!Data(1)
    BY <1>2, <2>1 DEF DmaInv, OnItsWay, Chained
  <2>3. M!Spins' /\ Prepared' BY <1>2, <2>1 DEF M!Spins, Prepared
  <2>4. Len(wire) <= Len(chain) /\ \A k \in 1 .. Len(wire) : wire[k] = chain[k]
    BY <1>2 DEF DmaInv, OnItsWay
  <2>5. irq' \in BOOLEAN BY DEF M!Engine
  <2>6. CASE Before /\ ~irq /\ ~sem
    <3>1. (Before' \/ Within') /\ ~irq' /\ wire' = wire /\ at' \in M!Descs /\ ahead' \in M!Descs
      BY <1>2, <2>6, EngineBefore
    <3>2. DmaTypes' BY <2>1, <2>5, <3>1 DEF DmaInv, DmaTypes
    <3>3. OnItsWay' BY <2>1, <2>2, <2>4, <2>6, <3>1 DEF OnItsWay
    <3> QED BY <2>3, <3>2, <3>3 DEF DmaInv
  <2>7. CASE Within /\ ~irq /\ ~sem
    <3>1. /\ (Within' \/ Behind') /\ ~irq' /\ at' \in M!Descs /\ ahead' \in M!Descs
          /\ wire' \in Seq(Units) /\ Len(wire') <= Len(chain)
          /\ \A k \in 1 .. Len(wire') : wire'[k] = chain[k]
      BY <1>2, <2>7, EngineWithin
    <3>2. DmaTypes' BY <2>1, <2>5, <3>1 DEF DmaInv, DmaTypes
    <3>3. OnItsWay' BY <2>1, <2>2, <2>7, <3>1 DEF OnItsWay
    <3> QED BY <2>3, <3>2, <3>3 DEF DmaInv
  <2>8. CASE (Behind /\ ~irq /\ ~sem) \/ (Past /\ (irq \/ sem) /\ ~(irq /\ sem))
    <3>1. Past' /\ wire' = wire /\ irq' = (irq \/ Behind) /\ at' \in M!Descs /\ ahead' \in M!Descs
      BY <1>2, <2>8, EngineAfter
    <3>2. Behind => ~Past
      <4>1. cur \in {0, 1} BY DEF DmaInv, DmaTypes
      <4> QED BY <4>1, DescsApart DEF Behind, Past
    <3>3. (irq' \/ sem') /\ ~(irq' /\ sem') BY <2>1, <2>8, <3>1, <3>2
    <3>4. DmaTypes' BY <2>1, <2>5, <3>1 DEF DmaInv, DmaTypes
    <3>5. OnItsWay' BY <2>1, <2>2, <2>4, <3>1, <3>3 DEF OnItsWay
    <3> QED BY <2>3, <3>4, <3>5 DEF DmaInv
  <2> QED BY <1>2, <2>6, <2>7, <2>8 DEF DmaInv, OnItsWay
<1> QED BY <1>1, <1>2

\* mipi.c: whatever packets a user of the DMA engine sends and whenever it resyncs,
\* the engine follows the chain as the invariant says, or spins.
THEOREM DmaInvHolds ==
  ASSUME M!DescAssumption
  PROVE  M!Spec => []DmaInv
<1>1. M!Init => DmaInv BY InitDma
<1>2. DmaInv /\ [M!Next]_(M!vars) => DmaInv'
  BY ResyncDma, PrepareDma, BreakDma, EngineDma, InterruptDma, DoneDma, StutterDma DEF M!Next
<1> QED BY <1>1, <1>2, PTL DEF M!Spec

LEMMA Prefix ==
  ASSUME NEW s \in Seq(Units), NEW t \in Seq(Units), Len(s) <= Len(t),
         \A k \in 1 .. Len(s) : s[k] = t[k]
  PROVE  s = SubSeq(t, 1, Len(s))
OBVIOUS

LEMMA DescsFit == M!DescAssumption
BY DisplayAssumption DEF M!DescAssumption

\* The invariant of the engine under the display task.
LEMMA DisplayDma == Spec => []DmaInv
BY DescsFit, DmaInvHolds, DrivesDma, PTL

\* mipi.c under the display task: between packets the engine spins on the current
\* idle descriptor, and no interrupt is left over.
THEOREM DisplaySpins == Spec => []EngineSpins
<1>1. DmaInv => EngineSpins BY DEF DmaInv, EngineSpins
<1> QED BY <1>1, DisplayDma, PTL

\* mipiSendMultiple under the display task: the wire holds a prefix of the packet,
\* and all of it, each part once and in order, when the semaphore lets it return.
THEOREM DisplaySendsOnce == Spec => []PacketsOnce
<1>1. DmaInv => PacketsOnce
  <2> SUFFICES ASSUME DmaInv PROVE PacketsOnce OBVIOUS
  <2>1. chain \in Seq(Units) /\ wire \in Seq(Units) BY DEF DmaInv, DmaTypes
  <2>2. tx = "await" => wire = SubSeq(chain, 1, Len(wire)) BY <2>1, Prefix DEF DmaInv, OnItsWay
  <2>3. tx = "await" /\ sem => Len(wire) = Len(chain) BY DEF DmaInv, OnItsWay, Past
  <2> QED BY <2>2, <2>3 DEF PacketsOnce, M!SentOnce
<1> QED BY <1>1, DisplayDma, PTL

-----------------------------------------------------------------------------
(* How the task can crash.                                                 *)

Noticed(r) == Same(r) \/ r \in raced
Scan ==
  /\ yend >= ystart - 1
  /\ ystart < Rows => ~Same(ystart) \/ ystart \in raced
  /\ \A r \in yend + 1 .. Rows - 1 : Noticed(r)
CInv ==
  /\ TInv /\ CrashedByRace
  /\ pc \in {"up", "down"} => ~firstrun
  /\ pc = "down" => Scan

LEMMA ScanCInv ==
  ASSUME CInv, Take \/ ScanUp \/ ScanDown \/ Overrun
  PROVE  CInv'
<1>1. TInv' BY CompareTInv DEF CInv
<1>2. Rows \in Nat \ {0} BY DisplayAssumption
<1>3. CASE Take
  <2>1. pc' \in {"copy", "up"} /\ (pc' = "up" => ~firstrun') BY <1>3 DEF Take, Goto
  <2> QED BY <1>1, <2>1 DEF CInv, CrashedByRace
<1>4. CASE ScanUp
  <2>1. UNCHANGED <<fb, old, raced, yend, firstrun>> /\ pc = "up" /\ ~firstrun
        /\ ystart \in 0 .. Rows /\ yend = Rows - 1
    BY <1>4 DEF ScanUp, Keep, screen, CInv, TInv
  <2>2. CASE ystart < Rows /\ Same(ystart)
    <3>1. pc' = pc BY <1>4, <2>2 DEF ScanUp
    <3> QED BY <1>1, <2>1, <3>1 DEF CInv, CrashedByRace
  <2>3. CASE ~(ystart < Rows /\ Same(ystart))
    <3>1. pc' = "down" /\ ystart' = ystart BY <1>4, <2>3 DEF ScanUp, Goto
    <3>2. Scan' BY <1>2, <2>1, <2>3, <3>1 DEF Scan, Same
    <3> QED BY <1>1, <2>1, <3>1, <3>2 DEF CInv, CrashedByRace
  <2> QED BY <2>2, <2>3
<1>5. CASE ScanDown
  <2>1. UNCHANGED <<fb, old, raced, ystart, pc, firstrun>> /\ pc = "down" /\ yend' = yend - 1
        /\ yend >= ystart /\ Same(yend)
    BY <1>5 DEF ScanDown, Keep, screen, SameBelow
  <2>2. Scan /\ yend \in Int /\ ystart \in 0 .. Rows BY <2>1 DEF CInv, TInv
  <2>3. yend' >= ystart' - 1 BY <2>1, <2>2
  <2>4. \A r \in yend' + 1 .. Rows - 1 : Same(r) \/ r \in raced
    <3> TAKE r \in yend' + 1 .. Rows - 1
    <3>1. r = yend \/ r \in yend + 1 .. Rows - 1 BY <1>2, <2>1, <2>2
    <3> QED BY <2>1, <2>2, <3>1 DEF Scan, Noticed
  <2>5. Scan' BY <2>1, <2>2, <2>3, <2>4 DEF Scan, Noticed, Same
  <2> QED BY <1>1, <2>1, <2>5 DEF CInv, CrashedByRace
<1>6. CASE Overrun
  <2>1. UNCHANGED <<fb, old, raced, ystart, yend, firstrun>> /\ pc = "down" /\ pc' = "crashed"
        /\ ystart < Rows /\ yend < ystart
    BY <1>6 DEF Overrun, Compared, Goto, screen
  <2>2. Scan /\ yend \in Int /\ ystart \in 0 .. Rows BY <2>1 DEF CInv, TInv
  <2>3. yend + 1 = ystart BY <2>1, <2>2 DEF Scan
  <2>4. \A r \in ystart .. Rows - 1 : Same(r) \/ r \in raced BY <2>2, <2>3 DEF Scan, Noticed
  <2>5. ystart \in raced BY <1>2, <2>1, <2>2, <2>4 DEF Scan
  <2>6. CrashedByRace' BY <2>1, <2>4, <2>5 DEF CrashedByRace, Same
  <2> QED BY <1>1, <2>1, <2>6 DEF CInv
<1> QED BY <1>3, <1>4, <1>5, <1>6

\* A draw while the rows are compared leaves its row noticed.
LEMMA DrawCInv ==
  ASSUME CInv, NEW x \in RowSet, Draw(x)
  PROVE  CInv'
<1>1. TInv' BY OutsideTInv DEF CInv
<1>2. UNCHANGED <<old, ystart, yend, pc, firstrun>> /\ pc # "crashed"
  BY DEF Draw, Running, task
<1>3. fb' = [fb EXCEPT ![x] = 1 - @] /\ raced \subseteq raced' BY DEF Draw
<1>4. CASE pc = "down"
  <2>1. x \in raced' BY <1>4 DEF Draw, Races, CInv
  <2>2. \A r : r # x => fb'[r] = fb[r] BY <1>3 DEF CInv, TInv
  <2>3. Scan BY <1>4 DEF CInv
  <2>4. ystart < Rows => ~Same(ystart)' \/ ystart \in raced'
    BY <1>2, <1>3, <2>1, <2>2, <2>3 DEF Scan, Same
  <2>5. \A r \in yend + 1 .. Rows - 1 : Noticed(r)'
    BY <1>2, <1>3, <2>1, <2>2, <2>3 DEF Scan, Noticed, Same
  <2>6. Scan' BY <1>2, <2>3, <2>4, <2>5 DEF Scan
  <2> QED BY <1>1, <1>2, <2>6 DEF CInv, CrashedByRace
<1>5. CASE pc # "down" BY <1>1, <1>2, <1>5 DEF CInv, CrashedByRace
<1> QED BY <1>4, <1>5

LEMMA QuietCInv ==
  ASSUME CInv, TInv', UNCHANGED <<fb, old, raced, ystart, yend, pc, firstrun>>
  PROVE  CInv'
BY DEF CInv, CrashedByRace, Scan, Noticed, Same

LEMMA ElsewhereCInv ==
  ASSUME CInv, TInv', pc' \notin {"up", "down", "crashed"}
  PROVE  CInv'
BY DEF CInv, CrashedByRace

LEMMA InitCInv == Init => CInv
BY InitTInv DEF Init, CInv, CrashedByRace

LEMMA NextCInv == CInv /\ [Next]_vars => CInv'
<1> SUFFICES ASSUME CInv, [Next]_vars PROVE CInv' OBVIOUS
<1>1. TInv' BY BootTInv, CompareTInv, SendTInv, OutsideTInv DEF CInv, Next, displayTask
<1>2. CASE Take \/ ScanUp \/ ScanDown \/ Overrun BY <1>2, ScanCInv
<1>3. CASE \E r \in RowSet : Draw(r) BY <1>3, DrawCInv
<1>4. CASE Sending \/ DmaEngine \/ Interrupt \/ dispDraw \/ UNCHANGED vars
  <2>1. UNCHANGED <<fb, old, raced, ystart, yend, pc, firstrun>>
    BY <1>4 DEF Sending, DmaEngine, Interrupt, dispDraw, vars, Keep, screen, task
  <2> QED BY <1>1, <2>1, QuietCInv
<1>5. CASE Packet \/ setColRange \/ Resync \/ NoUpdate \/ Update \/ setRowRange \/ SendLines
  <2>1. pc' \notin {"up", "down", "crashed"}
    BY <1>5 DEF Packet, setColRange, Resync, NoUpdate, Update, setRowRange, SendLines, Goto
  <2> QED BY <1>1, <2>1, ElsewhereCInv
<1>6. CASE Boot \/ Copy
  <2>1. pc' \notin {"up", "down", "crashed"} BY <1>6 DEF Boot, Copy, Goto
  <2> QED BY <1>1, <2>1, ElsewhereCInv
<1> QED BY <1>2, <1>3, <1>4, <1>5, <1>6 DEF Next, displayTask

\* mipi_lcd.c:246: for any screen and any drawing, the length of the copy is negative
\* only if the first row found changed was drawn again during the compare, with every
\* row behind it unchanged or drawn as well.
THEOREM CrashNeedsRace == Spec => []CrashedByRace
<1>1. CInv => CrashedByRace BY DEF CInv
<1> QED BY <1>1, InitCInv, NextCInv, PTL DEF Spec

-----------------------------------------------------------------------------
(* Which lines of the display can stay stale.                              *)
(*                                                                         *)
(* A line is good when LinesFollowCopy lets it be as it is, and due when   *)
(* the task will still send it, or has sent it in the packet that the      *)
(* engine is working on and not come to yet.  Every line is one of the two *)
(* from the moment the first copy is made.                                 *)

\* What the packet holds that was prepared last, and with it what the display does
\* next: nothing, a window that starts at ystart, or the lines from First to row - 1.
First == row - (Len(chain) - 2)
NothingOut == \A i \in 1 .. Len(chain) : chain[i] = Other
WindowOut ==
  /\ row = ystart /\ Len(chain) = 3
  /\ chain[1] = Other /\ chain[2] = SetWindow(ystart) /\ chain[3] = Other
  /\ Len(wire) >= 2 => window = ystart
Place ==
  IF Len(wire) <= 1 THEN IF First = ystart THEN window = ystart ELSE pos = First
  ELSE pos = IF Len(wire) < Len(chain) THEN First + Len(wire) - 1 ELSE row
LinesOut ==
  /\ Len(chain) >= 3 /\ ystart <= First /\ chain[1] = Other /\ chain[Len(chain)] = Other
  /\ \A i \in 2 .. Len(chain) - 1 : chain[i] = Line(i = 2 /\ First = ystart, First + i - 2)
  /\ Place

\* The task waits for a packet before it looks at the screen again.
Waits == {"packet", "take", "up", "down", "copy", "window", "crashed"}
OnTheWay ==
  /\ pc \in Waits \cup {"boot", "top", "lines"}
  /\ tx = "none" => Len(wire) = Len(chain)
  /\ pc \in Waits => tx = "none"
  /\ pc = "boot" => tx = "none" \/ NothingOut
  /\ pc = "top" => tx = "none" \/ (firstrun /\ NothingOut) \/ (LinesOut /\ row <= FirstLines)
  /\ pc = "lines" => WindowOut \/ LinesOut

Pending(j) == tx # "none" /\ j \in First .. row - 1 /\ Len(wire) < j - First + 2
Due(j) ==
  \/ pc \in {"copy", "window"} /\ j \in ystart .. yend - 1
  \/ pc = "lines" /\ j \in row .. yend - 1
  \/ pc \in {"lines", "top"} /\ LinesOut /\ Pending(j)
Good(j) == panel[j] = Image(old, j) \/ j > BarFrom \/ Uses(j) \cap raced # {}
Owes == IF firstrun THEN pc \in {"copy", "window", "lines"} ELSE pc # "crashed"
Owed == Owes => \A j \in Visible : Good(j) \/ Due(j)

\* Rows that were compared and are not in the range, and those that are not copied
\* yet and only seen in lines that will not be sent, are noticed.
Checked ==
  /\ pc \in {"up", "down"} => \A r \in 0 .. ystart - 1 : Noticed(r)
  /\ pc = "copy" => \A j \in Visible : j \notin ystart .. yend - 1 =>
                      \A r \in Uses(j) : r >= row => Noticed(r)

FirstRun ==
  /\ pc \in {"boot", "packet"} => firstrun
  /\ firstrun /\ pc \in {"copy", "window", "lines"} => ystart = 0 /\ yend = FirstLines

Bounds ==
  /\ row \in 0 .. (IF pc \in {"boot", "packet"} THEN Boots + Clears ELSE Rows)
  /\ ystart \in 0 .. Rows /\ yend \in -1 .. Rows /\ dispSem \in BOOLEAN
  /\ window \in 0 .. FirstLines /\ pos \in 0 .. FirstLines /\ raced \subseteq RowSet
  /\ panel = [j \in Visible |-> panel[j]]
  /\ pc = "packet" => row < Boots

LInv == OnTheWay /\ Owed /\ Checked /\ FirstRun /\ Bounds
IInv == CInv /\ DmaInv /\ LInv


LEMMA OtherDo == Other.do = "other" /\ \A y : SetWindow(y).do = "window" /\ SetWindow(y).at = y
BY DEF Other, SetWindow

LEMMA LineDo ==
  \A fresh, j : Line(fresh, j).do = "line" /\ Line(fresh, j).fresh = fresh
                  /\ Line(fresh, j).image = Image(old, j)
BY DEF Line

LEMMA Parcel ==
  ASSUME NEW u
  PROVE  LET p == <<Other>> \o <<u>> \o <<Other>>
         IN  Len(p) = 3 /\ p[1] = Other /\ p[2] = u /\ p[3] = Other
OBVIOUS

\* A step of the engine shows nothing, or the part of the packet that is next.
LEMMA EngineShows ==
  ASSUME DmaInv, M!Engine
  PROVE  \/ wire' = wire /\ at[1] # "data"
         \/ /\ tx = "await" /\ at[1] = "data" /\ at[2] = Len(wire) + 1
            /\ Len(wire) + 1 \in 1 .. Len(chain) /\ Len(wire') = Len(wire) + 1
<1>1. cur \in {0, 1} /\ 1 - cur \in {0, 1} BY DEF DmaInv, DmaTypes
<1>2. CASE at[1] # "data" BY <1>2 DEF M!Engine
<1>3. CASE at[1] = "data"
  <2>1. at # M!Idle(0) /\ at # M!Idle(1) /\ at # M!Runout BY <1>3 DEF M!Idle, M!Runout
  <2>2. tx = "await" BY <1>1, <2>1 DEF DmaInv, M!Spins
  <2>3. Within BY <1>1, <2>1, <2>2 DEF DmaInv, OnItsWay, Before, Behind, Past
  <2>4. PICK i \in 1 .. Len(chain) : at = M!Data(i) /\ Len(wire) = i - 1 BY <2>3 DEF Within
  <2>5. Len(chain) \in Nat /\ wire \in Seq(Units) BY DEF DmaInv, DmaTypes
  <2>6. at[2] = i /\ Len(wire) + 1 = i BY <2>4, <2>5 DEF M!Data
  <2>7. wire' = Append(wire, chain[i]) BY <1>3, <2>6 DEF M!Engine
  <2>8. chain[i] \in Units BY <2>4, <2>5 DEF DmaInv, DmaTypes
  <2>9. Len(wire') = Len(wire) + 1 BY <2>5, <2>7, <2>8
  <2> QED BY <1>3, <2>2, <2>4, <2>6, <2>9
<1> QED BY <1>2, <1>3

\* Where the task waits for packets nothing is on its way.
LEMMA IdleWay ==
  ASSUME OnTheWay, UNCHANGED <<chain, wire, tx>>, tx = "none", pc' \in Waits \cup {"top"}
  PROVE  OnTheWay'
BY DEF OnTheWay, Waits

LEMMA GoodKept ==
  ASSUME UNCHANGED <<panel, old>>, raced \subseteq raced'
  PROVE  \A j : Good(j) => Good(j)'
BY DEF Good, Image

LEMMA SameLines ==
  ASSUME UNCHANGED <<old, row, ystart, chain, wire, window, pos>>
  PROVE  /\ LinesOut' = LinesOut /\ WindowOut' = WindowOut /\ NothingOut' = NothingOut
         /\ First' = First
BY DEF LinesOut, WindowOut, NothingOut, Place, First, Line, Image

LEMMA LinesSeen == Visible \subseteq 0 .. FirstLines - 1 /\ \A j \in Visible : Uses(j) \subseteq RowSet
BY DEF Visible, Uses

\* Before anything is compared or sent every line is good.
LEMMA AllGood ==
  ASSUME OnTheWay, Owed, ~firstrun, pc \in {"top", "take", "up", "down"}, tx = "none"
  PROVE  \A j \in Visible : Good(j)
BY DEF Owed, Owes, Due, Pending

\* Boot: packets the display does not tell apart, before anything is owed.
LEMMA BootLInv ==
  ASSUME IInv, Boot \/ Packet \/ setColRange
  PROVE  LInv'
<1>1. pc \in {"boot", "packet"} /\ firstrun /\ firstrun' /\ pc' \in {"boot", "packet", "top"}
      /\ row \in 0 .. Boots + Clears
      /\ UNCHANGED <<dispSem, panel, pos, window, raced, old, ystart, yend>>
  BY DEF IInv, LInv, FirstRun, Bounds, Boot, Packet, setColRange, Goto, Keep, lcd
<1>2. Owed' BY <1>1 DEF Owed, Owes
<1>3. Checked' /\ FirstRun' BY <1>1 DEF Checked, FirstRun
<1>4. Boots \in Nat /\ Clears \in Nat /\ Rows \in Nat BY DisplayAssumption
<1>5. \/ pc' = "packet" /\ row' = row /\ row < Boots
      \/ pc' = "boot" /\ row' = row + 1 /\ row < Boots + Clears
      \/ pc' = "top" /\ row' = 0
  BY <1>4 DEF Boot, Packet, setColRange, Goto, IInv, LInv, Bounds
<1>6. Bounds' BY <1>1, <1>4, <1>5 DEF IInv, LInv, Bounds
<1>7. OnTheWay'
  <2>1. CASE M!mipiResync /\ pc' = "packet"
    <3>1. UNCHANGED <<chain, wire, tx>> /\ tx = "none" BY <2>1 DEF M!mipiResync
    <3> QED BY <2>1, <3>1, IdleWay DEF IInv, LInv, Waits
  <2>2. CASE (M!Prepare(<<Other>>) \/ M!Prepare(<<Other>> \o <<Other>> \o <<Other>>))
             /\ pc' \in {"boot", "top"}
    <3>1. NothingOut' /\ tx' = "ready"
      <4>1. CASE chain' = <<Other>> /\ tx' = "ready" BY <4>1 DEF NothingOut
      <4>2. CASE chain' = <<Other>> \o <<Other>> \o <<Other>> /\ tx' = "ready"
        BY <4>2, Parcel DEF NothingOut
      <4> QED BY <2>2, <4>1, <4>2 DEF M!Prepare
    <3> QED BY <1>1, <2>2, <3>1 DEF OnTheWay, Waits
  <2> QED BY <2>1, <2>2 DEF Boot, Packet, setColRange, Goto, mipiDsiSendLong, mipiDsiSendShort
<1> QED BY <1>2, <1>3, <1>6, <1>7 DEF LInv

LEMMA ResyncLInv ==
  ASSUME IInv, Resync
  PROVE  LInv'
<1>1. pc = "top" /\ pc' = "take" /\ tx = "none" /\ UNCHANGED <<chain, wire, tx>>
      /\ UNCHANGED <<dispSem, panel, pos, window, raced, old, row, ystart, yend, firstrun>>
  BY DEF Resync, M!mipiResync, Goto, Keep, lcd
<1>2. OnTheWay' BY <1>1, IdleWay DEF IInv, LInv, Waits
<1>3. Owed'
  <2>1. ~firstrun => \A j \in Visible : Good(j) BY <1>1, AllGood DEF IInv, LInv
  <2> QED BY <1>1, <2>1, GoodKept DEF Owed, Owes
<1>4. Checked' /\ FirstRun' /\ Bounds' BY <1>1 DEF IInv, LInv, Checked, FirstRun, Bounds
<1> QED BY <1>2, <1>3, <1>4 DEF LInv

LEMMA TakeLInv ==
  ASSUME IInv, Take
  PROVE  LInv'
<1>1. pc = "take" /\ UNCHANGED <<panel, pos, window, raced, old, firstrun, chain, wire, tx>>
      /\ row' = 0 /\ ystart' = 0 /\ dispSem' = FALSE
      /\ yend' = (IF firstrun THEN FirstLines ELSE Rows - 1)
      /\ pc' = (IF firstrun THEN "copy" ELSE "up")
  BY DEF Take, Goto, lcd, dma
<1>2. tx = "none" BY <1>1 DEF IInv, LInv, OnTheWay, Waits
<1>3. OnTheWay' BY <1>1, <1>2, IdleWay DEF IInv, LInv, Waits
<1>4. Rows \in Nat \ {0} /\ FirstLines \in 1 .. Rows BY DisplayAssumption
<1>5. Bounds'
  <2>1. 0 \in 0 .. Rows /\ yend' \in -1 .. Rows BY <1>1, <1>4
  <2>2. pc' \notin {"boot", "packet"} BY <1>1
  <2>3. ystart' \in 0 .. Rows /\ row' \in 0 .. Rows BY <1>1, <2>1
  <2> QED BY <1>1, <2>1, <2>2, <2>3 DEF IInv, LInv, Bounds
<1>6. FirstRun' BY <1>1 DEF FirstRun
<1>7. CASE firstrun
  <2>1. \A j \in Visible : j \in ystart' .. yend' - 1 BY <1>1, <1>7, LinesSeen
  <2>2. Owed' BY <1>1, <1>7, <2>1 DEF Owed, Due
  <2>3. Checked' BY <1>1, <1>7, <2>1 DEF Checked
  <2> QED BY <1>3, <1>5, <1>6, <2>2, <2>3 DEF LInv
<1>8. CASE ~firstrun
  <2>1. \A j \in Visible : Good(j) BY <1>1, <1>2, <1>8, AllGood DEF IInv, LInv
  <2>2. Owed' BY <1>1, <2>1, GoodKept DEF Owed
  <2>3. Checked' BY <1>1, <1>8 DEF Checked
  <2> QED BY <1>3, <1>5, <1>6, <2>2, <2>3 DEF LInv
<1> QED BY <1>7, <1>8

LEMMA ScanLInv ==
  ASSUME IInv, ScanUp \/ ScanDown \/ Overrun
  PROVE  LInv'
<1>1. pc \in {"up", "down"} /\ pc' \in {"up", "down", "crashed"} /\ ~firstrun
      /\ UNCHANGED <<fb, dispSem, panel, pos, window, raced, old, row, firstrun, chain, wire, tx>>
  BY DEF ScanUp, ScanDown, Overrun, Compared, Goto, Keep, lcd, dma, screen, IInv, CInv
<1>2. tx = "none" BY <1>1 DEF IInv, LInv, OnTheWay, Waits
<1>3. OnTheWay' BY <1>1, <1>2, IdleWay DEF IInv, LInv, Waits
<1>4. \A j \in Visible : Good(j) BY <1>1, <1>2, AllGood DEF IInv, LInv
<1>5. Owed' BY <1>1, <1>4, GoodKept DEF Owed
<1>6. FirstRun' BY <1>1 DEF FirstRun
<1>7. Rows \in Nat \ {0} /\ ystart \in 0 .. Rows /\ yend \in -1 .. Rows
  BY DisplayAssumption DEF IInv, LInv, Bounds
<1>8. CASE ScanUp
  <2>1. pc = "up" /\ pc' \in {"up", "down"} /\ yend' = yend
        /\ (ystart' = ystart \/ (ystart < Rows /\ Same(ystart) /\ ystart' = ystart + 1))
    BY <1>8 DEF ScanUp, Goto
  <2>2. \A r \in 0 .. ystart' - 1 : Noticed(r)
    BY <1>7, <2>1 DEF Noticed, IInv, LInv, Checked
  <2>3. Checked' BY <1>1, <2>1, <2>2 DEF Checked, Noticed, Same
  <2>4. Bounds' BY <1>1, <1>7, <2>1 DEF IInv, LInv, Bounds
  <2> QED BY <1>3, <1>5, <1>6, <2>3, <2>4 DEF LInv
<1>9. CASE ScanDown \/ Overrun
  <2>1. pc = "down" /\ pc' \in {"down", "crashed"} /\ ystart' = ystart
        /\ (yend' = yend \/ (yend' = yend - 1 /\ yend >= ystart))
    BY <1>9 DEF ScanDown, Overrun, Compared, SameBelow, Goto
  <2>2. Checked' BY <1>1, <2>1 DEF IInv, LInv, Checked, Noticed, Same
  <2>3. Bounds' BY <1>1, <1>7, <2>1 DEF IInv, LInv, Bounds
  <2> QED BY <1>3, <1>5, <1>6, <2>2, <2>3 DEF LInv
<1> QED BY <1>8, <1>9

\* NoUpdate and Update: the rows outside of what is sent were compared.
LEMMA ComparedLInv ==
  ASSUME IInv, NoUpdate \/ Update
  PROVE  LInv'
<1>1. pc = "down" /\ pc' = "copy" /\ ~firstrun /\ TInv' /\ TInv /\ Scan
      /\ UNCHANGED <<fb, dispSem, panel, pos, window, old, row, firstrun, chain, wire, tx>>
  BY CompareTInv DEF NoUpdate, Update, Compared, Goto, lcd, dma, screen, IInv, CInv
<1>2. tx = "none" BY <1>1 DEF IInv, LInv, OnTheWay, Waits
<1>3. OnTheWay' BY <1>1, <1>2, IdleWay DEF IInv, LInv, Waits
<1>4. \A j \in Visible : Good(j) BY <1>1, <1>2, AllGood DEF IInv, LInv
<1>5. FirstRun' BY <1>1 DEF FirstRun
<1>6. Rows \in Nat \ {0} /\ FirstLines \in 1 .. Rows /\ ystart \in 0 .. Rows /\ yend \in -1 .. Rows
  BY DisplayAssumption DEF IInv, LInv, Bounds
<1>7. \A r \in RowSet : r \in ystart .. yend \/ Noticed(r)
  <2> TAKE r \in RowSet
  <2>1. r \in 0 .. ystart - 1 \/ r \in ystart .. yend \/ r \in yend + 1 .. Rows - 1
    BY <1>6 DEF RowSet
  <2> QED BY <1>1, <2>1 DEF Scan, IInv, LInv, Checked
<1>8. CASE NoUpdate
  <2>1. ystart = Rows /\ ystart' = ystart /\ yend' = Rows /\ raced' = raced BY <1>8 DEF NoUpdate
  <2>2. Bounds' BY <1>1, <1>6, <2>1 DEF IInv, LInv, Bounds
  <2>3. Owed' BY <1>1, <1>4, <2>1, GoodKept DEF Owed
  <2>4. yend \in -1 .. Rows - 1 BY <1>1, <1>6 DEF TInv
  <2>5. \A r \in RowSet : Noticed(r) BY <1>6, <1>7, <2>1, <2>4 DEF RowSet
  <2>6. Checked' BY <1>1, <2>1, <2>5, LinesSeen DEF Checked, Noticed, Same
  <2> QED BY <1>3, <1>5, <2>2, <2>3, <2>6 DEF LInv
<1>9. CASE Update
  <2>1. ystart < Rows /\ yend >= ystart /\ ystart' = From(ystart) /\ yend' = To(yend)
        /\ raced' = raced \ (ystart .. yend)
    BY <1>9 DEF Update
  <2>2. yend < Rows /\ ystart \in RowSet /\ yend \in RowSet BY <1>1, <1>6, <2>1 DEF TInv, RowSet
  <2>3. From(ystart) \in Nat /\ To(yend) \in Nat /\ From(ystart) < To(yend) /\ To(yend) <= FirstLines
    BY <1>6, <2>1, <2>2, ScaledRange
  <2>4. Bounds' BY <1>1, <1>6, <2>1, <2>3 DEF IInv, LInv, Bounds
  <2>5. ASSUME NEW j \in Visible, j \notin ystart' .. yend' - 1
        PROVE  Uses(j) \cap (ystart .. yend) = {}
    <3>1. SUFFICES ASSUME NEW r \in Uses(j), r \in ystart .. yend PROVE FALSE OBVIOUS
    <3>2. j \in Nat BY LinesSeen, <1>6
    <3>3. From(ystart) <= j /\ j < To(yend) BY <2>2, <3>1, <3>2, RangeCovers
    <3> QED BY <2>1, <2>3, <2>5, <3>2, <3>3
  <2>6. ASSUME NEW j \in Visible, j \notin ystart' .. yend' - 1
        PROVE  Good(j)'
    <3>1. Uses(j) \cap raced' = Uses(j) \cap raced BY <2>1, <2>5, <2>6
    <3> QED BY <1>1, <1>4, <3>1 DEF Good, Image
  <2>7. Owed' BY <1>1, <2>6 DEF Owed, Due
  <2>8. ASSUME NEW j \in Visible, j \notin ystart' .. yend' - 1, NEW r \in Uses(j)
        PROVE  Noticed(r)'
    <3>1. r \in RowSet /\ r \notin ystart .. yend BY <2>5, <2>8, LinesSeen
    <3>2. Noticed(r) BY <1>7, <3>1
    <3> QED BY <1>1, <2>1, <3>1, <3>2 DEF Noticed, Same
  <2>9. Checked' BY <1>1, <2>8 DEF Checked
  <2> QED BY <1>3, <1>5, <2>4, <2>7, <2>9 DEF LInv
<1> QED BY <1>8, <1>9

LEMMA CopyLInv ==
  ASSUME IInv, Copy
  PROVE  LInv'
<1>1. pc = "copy" /\ TInv /\ TInv'
      /\ UNCHANGED <<fb, dispSem, panel, pos, window, raced, ystart, yend, firstrun, chain, wire, tx>>
  BY CompareTInv DEF Copy, Keep, lcd, dma, screen, IInv, CInv
<1>2. tx = "none" BY <1>1 DEF IInv, LInv, OnTheWay, Waits
<1>3. Rows \in Nat \ {0} /\ FirstLines \in 1 .. Rows /\ row \in 0 .. Rows /\ ystart \in 0 .. Rows
  BY <1>1, DisplayAssumption DEF IInv, LInv, Bounds
<1>4. \A j \in Visible : Good(j) \/ j \in ystart .. yend - 1
  BY <1>1, <1>2 DEF IInv, LInv, Owed, Owes, Due, Pending
<1>5. CASE row < Rows
  <2>1. pc' = pc /\ row' = row + 1 /\ old' = [old EXCEPT ![row] = fb[row]] BY <1>5 DEF Copy
  <2>2. OnTheWay' BY <1>1, <1>2, <2>1, IdleWay DEF IInv, LInv, Waits
  <2>3. \A r \in RowSet : r # row => old'[r] = old[r] BY <1>1, <2>1 DEF TInv
  <2>4. ASSUME NEW j \in Visible, j \notin ystart .. yend - 1
        PROVE  Good(j)'
    <3>1. Uses(j) \subseteq RowSet BY LinesSeen
    <3>2. CASE row \notin Uses(j)
      <4>1. Image(old', j) = Image(old, j) BY <2>3, <3>1, <3>2 DEF Image
      <4> QED BY <1>1, <1>4, <2>4, <4>1 DEF Good
    <3>3. CASE row \in Uses(j) /\ row \in raced BY <1>1, <3>3 DEF Good
    <3>4. CASE row \in Uses(j) /\ row \notin raced
      <4>1. Noticed(row) BY <1>1, <1>3, <2>4, <3>4 DEF IInv, LInv, Checked
      <4>2. old[row] = fb[row] BY <3>4, <4>1 DEF Noticed, Same
      <4>3. old' = old BY <1>1, <2>1, <4>2 DEF TInv
      <4> QED BY <1>1, <1>4, <2>4, <4>3 DEF Good
    <3> QED BY <3>2, <3>3, <3>4
  <2>5. Owed' BY <1>1, <2>1, <2>4 DEF Owed, Due
  <2>6. ASSUME NEW j \in Visible, j \notin ystart .. yend - 1, NEW r \in Uses(j), r >= row'
        PROVE  Noticed(r)'
    <3>1. r \in RowSet /\ r \in Nat /\ r >= row /\ r # row BY <1>3, <2>1, <2>6, LinesSeen DEF RowSet
    <3>2. Noticed(r) BY <1>1, <2>6, <3>1 DEF IInv, LInv, Checked
    <3> QED BY <1>1, <2>3, <3>1, <3>2 DEF Noticed, Same
  <2>7. Checked' BY <1>1, <2>1, <2>6 DEF Checked
  <2>8. FirstRun' /\ Bounds' BY <1>1, <1>3, <1>5, <2>1 DEF IInv, LInv, FirstRun, Bounds
  <2> QED BY <2>2, <2>5, <2>7, <2>8 DEF LInv
<1>6. CASE ~(row < Rows)
  <2>1. row' = ystart /\ old' = old /\ pc' = (IF ystart # yend THEN "window" ELSE "top")
    BY <1>6 DEF Copy, Goto
  <2>2. OnTheWay' BY <1>1, <1>2, <2>1, IdleWay DEF IInv, LInv, Waits
  <2>3. Bounds' BY <1>1, <1>3, <2>1 DEF IInv, LInv, Bounds
  <2>4. Checked' BY <2>1 DEF Checked
  <2>5. firstrun => ystart = 0 /\ yend = FirstLines BY <1>1 DEF IInv, LInv, FirstRun
  <2>6. FirstRun' BY <1>1, <2>1, <2>5 DEF FirstRun
  <2>7. CASE ystart # yend
    <3>1. Owed' BY <1>1, <1>4, <2>1, <2>7, GoodKept DEF Owed, Due
    <3> QED BY <2>2, <2>3, <2>4, <2>6, <3>1 DEF LInv
  <2>8. CASE ystart = yend
    <3>1. \A j \in Visible : j \notin ystart .. yend - 1 BY <1>3, <2>8
    <3>2. Owed' BY <1>1, <1>4, <2>1, <3>1, GoodKept DEF Owed
    <3> QED BY <2>2, <2>3, <2>4, <2>6, <3>2 DEF LInv
  <2> QED BY <2>7, <2>8
<1> QED BY <1>5, <1>6

LEMMA WindowLInv ==
  ASSUME IInv, setRowRange
  PROVE  LInv'
<1>1. pc = "window" /\ pc' = "lines" /\ TInv
      /\ UNCHANGED <<dispSem, panel, pos, window, raced, old, row, ystart, yend, firstrun>>
  BY DEF setRowRange, Goto, Keep, lcd, IInv, CInv
<1>2. Range /\ row = ystart BY <1>1 DEF TInv
<1>3. chain' = <<Other>> \o <<SetWindow(ystart)>> \o <<Other>> /\ wire' = <<>> /\ tx' = "ready" /\ tx = "none"
  BY DEF setRowRange, mipiDsiSendLong, M!Prepare
<1>4. Len(wire') = 0 BY <1>3
<1>5. WindowOut'
  <2> DEFINE u == SetWindow(ystart)
             p == <<Other>> \o <<u>> \o <<Other>>
  <2>1. Len(p) = 3 /\ p[1] = Other /\ p[2] = u /\ p[3] = Other BY Parcel
  <2>2. SetWindow(ystart)' = u BY <1>1 DEF SetWindow
  <2>3. Other' = Other BY DEF Other
  <2> QED BY <1>1, <1>2, <1>3, <1>4, <2>1, <2>2, <2>3 DEF WindowOut
<1>6. OnTheWay' BY <1>1, <1>3, <1>5 DEF OnTheWay, Waits
<1>7. \A j \in Visible : Good(j) \/ j \in ystart .. yend - 1
  BY <1>1 DEF IInv, LInv, Owed, Owes, Due
<1>8. Owed' BY <1>1, <1>2, <1>7, GoodKept DEF Owed, Due
<1>9. Checked' /\ FirstRun' /\ Bounds' BY <1>1 DEF IInv, LInv, Checked, FirstRun, Bounds
<1> QED BY <1>6, <1>8, <1>9 DEF LInv

LEMMA ConcatParts ==
  ASSUME NEW T
  PROVE  \A s, t \in Seq(T) :
           /\ s \o t \in Seq(T) /\ Len(s \o t) = Len(s) + Len(t)
           /\ \A i \in 1 .. Len(s) : (s \o t)[i] = s[i]
           /\ \A i \in 1 .. Len(t) : (s \o t)[Len(s) + i] = t[i]
<1> TAKE s, t \in Seq(T)
<1>1. s \o t \in Seq(T) OBVIOUS
<1>2. Len(s \o t) = Len(s) + Len(t) OBVIOUS
<1> DEFINE p == s \o t
<1>3. \A i \in 1 .. Len(s) + Len(t) : p[i] = IF i <= Len(s) THEN s[i] ELSE t[i - Len(s)]
  BY ST!ConcatProperties
<1> HIDE DEF p
<1>4. Len(s) \in Nat /\ Len(t) \in Nat OBVIOUS
<1>5. \A i \in 1 .. Len(s) : p[i] = s[i]
  <2> TAKE i \in 1 .. Len(s)
  <2>1. i \in 1 .. Len(s) + Len(t) /\ i <= Len(s) BY <1>4
  <2> QED BY <1>3, <2>1
<1>6. \A i \in 1 .. Len(t) : p[Len(s) + i] = t[i]
  <2> TAKE i \in 1 .. Len(t)
  <2>1. Len(s) + i \in 1 .. Len(s) + Len(t) /\ ~(Len(s) + i <= Len(s)) /\ Len(s) + i - Len(s) = i BY <1>4
  <2> QED BY <1>3, <2>1
<1> QED BY <1>1, <1>2, <1>5, <1>6 DEF p

LEMMA BufferParts ==
  ASSUME NEW T, NEW data \in Seq(T), Other \in T
  PROVE  LET p == <<Other>> \o data \o <<Other>>
         IN  /\ Len(p) = Len(data) + 2 /\ p[1] = Other /\ p[Len(data) + 2] = Other
             /\ \A i \in 1 .. Len(data) : p[i + 1] = data[i]
<1> DEFINE o == <<Other>>
<1>1. o \in Seq(T) /\ Len(o) = 1 /\ o[1] = Other OBVIOUS
<1> HIDE DEF o
<1> DEFINE q == o \o data
<1>2. q \in Seq(T) /\ Len(q) = Len(o) + Len(data)
      /\ (\A i \in 1 .. Len(o) : q[i] = o[i]) /\ \A i \in 1 .. Len(data) : q[Len(o) + i] = data[i]
  <2>1. \A s, t \in Seq(T) :
          /\ s \o t \in Seq(T) /\ Len(s \o t) = Len(s) + Len(t)
          /\ \A i \in 1 .. Len(s) : (s \o t)[i] = s[i]
          /\ \A i \in 1 .. Len(t) : (s \o t)[Len(s) + i] = t[i]
    BY ConcatParts
  <2>2. o \in Seq(T) /\ data \in Seq(T) BY <1>1, Zenon
  <2> QED BY <2>1, <2>2, Zenon
<1> HIDE DEF q
<1> DEFINE p == q \o o
<1>3. Len(p) = Len(q) + Len(o)
      /\ (\A i \in 1 .. Len(q) : p[i] = q[i]) /\ \A i \in 1 .. Len(o) : p[Len(q) + i] = o[i]
  <2>1. q \in Seq(T) BY <1>2
  <2>2. o \in Seq(T) BY <1>1
  <2>3. \A s, t \in Seq(T) :
           /\ Len(s \o t) = Len(s) + Len(t)
           /\ \A i \in 1 .. Len(s) : (s \o t)[i] = s[i]
           /\ \A i \in 1 .. Len(t) : (s \o t)[Len(s) + i] = t[i]
    BY ConcatParts
  <2> QED BY <2>1, <2>2, <2>3, Zenon
<1> HIDE DEF p
<1>4. Len(data) \in Nat /\ Len(q) = Len(data) + 1 BY <1>1, <1>2
<1>5. Len(p) = Len(data) + 2 BY <1>1, <1>3, <1>4
<1>6. p[1] = Other
  <2>1. 1 \in 1 .. Len(q) /\ 1 \in 1 .. Len(o) BY <1>1, <1>4
  <2> QED BY <1>1, <1>2, <1>3, <2>1
<1>7. p[Len(data) + 2] = Other
  <2>1. Len(data) + 2 = Len(q) + 1 /\ 1 \in 1 .. Len(o) BY <1>1, <1>4
  <2> QED BY <1>1, <1>3, <2>1
<1>8. \A i \in 1 .. Len(data) : p[i + 1] = data[i]
  <2> TAKE i \in 1 .. Len(data)
  <2>1. i + 1 \in 1 .. Len(q) /\ i + 1 = Len(o) + i BY <1>1, <1>4
  <2> QED BY <1>2, <1>3, <2>1
<1> QED BY <1>5, <1>6, <1>7, <1>8 DEF p, q, o

\* SendLines: the packet holds the lines that follow the last ones.
LEMMA SendLInv ==
  ASSUME IInv, SendLines
  PROVE  LInv'
<1>1. pc = "lines" /\ TInv /\ TInv' /\ row' = BufferEnd + 1
      /\ UNCHANGED <<dispSem, panel, pos, window, raced, old, ystart, yend>>
      /\ pc' = (IF Ends THEN "top" ELSE "lines") /\ firstrun' = (firstrun /\ ~Ends)
  BY SendTInv DEF SendLines, Goto, Keep, lcd, IInv, CInv
<1>2. Range /\ row \in ystart .. yend - 1 BY <1>1 DEF TInv
<1>3. BufferEnd \in row .. yend - 1 BY <1>1, LinesFit
<1> DEFINE n == BufferEnd - row + 1
           data == [i \in 1 .. n |-> Line(i = 1 /\ row = ystart, row + i - 1)]
<1>4. chain' = <<Other>> \o data \o <<Other>> /\ wire' = <<>> /\ tx' = "ready" /\ tx = "none"
  BY DEF SendLines, mipiDsiSendLong, M!Prepare
<1>5. ystart \in Nat /\ yend \in Nat /\ yend <= FirstLines /\ row \in Nat /\ FirstLines \in Nat
      /\ Rows \in Nat /\ FirstLines <= Rows
  BY <1>2, DisplayAssumption DEF Range
<1>6. n \in Nat \ {0} /\ row' = row + n /\ row' <= yend BY <1>1, <1>3, <1>5
<1> HIDE DEF n
<1>7. /\ Len(chain') = n + 2 /\ chain'[1] = Other /\ chain'[n + 2] = Other
      /\ \A i \in 2 .. n + 1 : chain'[i] = Line(i = 2 /\ row = ystart, row + i - 2)
  <2> DEFINE p == <<Other>> \o data \o <<Other>>
             T == {data[i] : i \in 1 .. n} \cup {Other}
  <2>1. \A i \in 1 .. n : data[i] = Line(i = 1 /\ row = ystart, row + i - 1) OBVIOUS
  <2>2. data \in Seq(T) /\ Len(data) = n
    <3>1. \A i \in 1 .. n : Line(i = 1 /\ row = ystart, row + i - 1) \in T BY <2>1
    <3> HIDE DEF T
    <3> QED BY <1>6, <3>1
  <2>3. Other \in T OBVIOUS
  <2> HIDE DEF data, T
  <2>4. Len(p) = n + 2 /\ p[1] = Other /\ p[n + 2] = Other /\ \A i \in 1 .. n : p[i + 1] = data[i]
    BY <2>2, <2>3, BufferParts
  <2> HIDE DEF p
  <2>5. \A i \in 2 .. n + 1 : p[i] = Line(i = 2 /\ row = ystart, row + i - 2)
    <3> TAKE i \in 2 .. n + 1
    <3>1. i - 1 \in 1 .. n /\ row + (i - 1) - 1 = row + i - 2 /\ (i - 1) + 1 = i BY <1>5, <1>6
    <3>2. (i - 1 = 1) = (i = 2) BY <1>6
    <3> QED BY <2>1, <2>4, <3>1, <3>2
  <2>6. chain' = p BY <1>4 DEF p, data
  <2> QED BY <2>4, <2>5, <2>6
<1>8. First' = row /\ Len(wire') = 0 BY <1>4, <1>5, <1>6, <1>7 DEF First
<1>9. Place'
  <2>1. CASE row = ystart
    <3>1. WindowOut
      <4>1. LinesOut => ystart <= First /\ Len(chain) >= 3 BY DEF LinesOut
      <4>2. Len(chain) \in Nat BY DEF IInv, DmaInv, DmaTypes
      <4>3. ~LinesOut BY <1>5, <2>1, <4>1, <4>2 DEF First
      <4> QED BY <1>1, <4>3 DEF IInv, LInv, OnTheWay
    <3>2. Len(wire) = 3 BY <1>4, <3>1 DEF IInv, LInv, OnTheWay, WindowOut
    <3>3. window = ystart BY <3>1, <3>2 DEF WindowOut
    <3> QED BY <1>1, <1>8, <2>1, <3>3 DEF Place
  <2>2. CASE row # ystart
    <3>1. LinesOut BY <1>1, <2>2 DEF IInv, LInv, OnTheWay, WindowOut
    <3>2. Len(wire) = Len(chain) /\ Len(chain) >= 3 /\ Len(chain) \in Nat
      BY <1>4, <3>1 DEF IInv, LInv, OnTheWay, LinesOut, DmaInv, DmaTypes
    <3>3. pos = row BY <3>1, <3>2 DEF LinesOut, Place
    <3> QED BY <1>1, <1>8, <2>2, <3>3 DEF Place
  <2> QED BY <2>1, <2>2
<1>10. LinesOut'
  <2>1. \A i \in 2 .. Len(chain') - 1 : chain'[i] = Line(i = 2 /\ First' = ystart', First' + i - 2)
    <3>1. Len(chain') - 1 = n + 1 BY <1>6, <1>7
    <3> QED BY <1>1, <1>7, <1>8, <3>1
  <2>2. Len(chain') >= 3 /\ ystart' <= First' BY <1>1, <1>2, <1>5, <1>6, <1>7, <1>8
  <2>3. Other' = Other BY DEF Other
  <2>4. chain'[Len(chain')] = Other BY <1>7
  <2> QED BY <1>1, <1>7, <1>9, <2>1, <2>2, <2>3, <2>4 DEF LinesOut, Line, Image
<1>11. OnTheWay'
  <2>1. row' <= FirstLines BY <1>5, <1>6
  <2> QED BY <1>1, <1>4, <1>10, <2>1 DEF OnTheWay, Waits
<1>12. ASSUME NEW j \in Visible
       PROVE  (Good(j) \/ Due(j))'
  <2>1. j \in Nat BY LinesSeen, <1>5
  <2>2. Good(j) \/ j \in row .. yend - 1
    BY <1>1, <1>4 DEF IInv, LInv, Owed, Owes, Due, Pending
  <2>3. Good(j) => Good(j)' BY <1>1, GoodKept
  <2>4. CASE j \in row .. row' - 1
    <3>1. Pending(j)' BY <1>4, <1>5, <1>6, <1>8, <2>1, <2>4 DEF Pending
    <3> QED BY <1>1, <1>10, <3>1 DEF Due
  <2>5. CASE j \in row' .. yend - 1 /\ ~Ends BY <1>1, <2>5 DEF Due
  <2>6. CASE j \in row' .. yend - 1 /\ Ends
    <3>1. BufferEnd >= BarFrom /\ j > BufferEnd BY <1>1, <1>3, <1>5, <2>1, <2>6 DEF Ends
    <3>2. j > BarFrom BY <1>3, <1>5, <2>1, <3>1, DisplayAssumption
    <3> QED BY <3>2 DEF Good
  <2> QED BY <1>5, <1>6, <2>1, <2>2, <2>3, <2>4, <2>5, <2>6
<1>13. Owed' BY <1>12 DEF Owed
<1>14. Checked' BY <1>1 DEF Checked
<1>15. FirstRun' BY <1>1 DEF IInv, LInv, FirstRun
<1>16. Bounds' BY <1>1, <1>5, <1>6 DEF IInv, LInv, Bounds
<1> QED BY <1>11, <1>13, <1>14, <1>15, <1>16 DEF LInv

\* Break and Done: the packet is on its way, or all of it was shown.
LEMMA SendingLInv ==
  ASSUME IInv, Sending
  PROVE  LInv'
<1>1. UNCHANGED <<fb, dispSem, panel, pos, window, raced, old, pc, row, ystart, yend, firstrun>>
      /\ UNCHANGED <<chain, wire>>
  BY DEF Sending, Keep, task, lcd, screen, M!Break, M!Done
<1>2. \/ tx = "ready" /\ tx' = "await"
      \/ tx = "await" /\ tx' = "none" /\ Len(wire) = Len(chain)
  BY DEF Sending, M!Break, M!Done, IInv, DmaInv, OnItsWay, Past
<1>3. LinesOut' = LinesOut /\ WindowOut' = WindowOut /\ NothingOut' = NothingOut /\ First' = First
  BY <1>1, SameLines
<1>4. OnTheWay' BY <1>1, <1>2, <1>3 DEF IInv, LInv, OnTheWay
<1>5. \A j \in Visible : Due(j) => Due(j)'
  <2> TAKE j \in Visible
  <2>1. SUFFICES ASSUME Pending(j) PROVE Pending(j)' BY <1>1, <1>3 DEF Due
  <2>2. CASE tx' # "none" BY <1>1, <1>3, <2>1, <2>2 DEF Pending
  <2>3. CASE Len(wire) = Len(chain)
    <3>1. Len(chain) \in Nat /\ row \in Nat BY DEF IInv, CInv, TInv, DmaInv, DmaTypes
    <3>2. j < row /\ Len(chain) < j - (row - (Len(chain) - 2)) + 2 /\ j \in Int
      BY <2>1, <2>3, <3>1 DEF Pending, First
    <3> QED BY <3>1, <3>2
  <2> QED BY <1>2, <2>2, <2>3
<1>6. Owed' BY <1>1, <1>5, GoodKept DEF IInv, LInv, Owed, Owes
<1>7. Checked' /\ FirstRun' /\ Bounds'
  BY <1>1 DEF IInv, LInv, Checked, Noticed, Same, FirstRun, Bounds
<1> QED BY <1>4, <1>6, <1>7 DEF LInv

LEMMA ElsewhereLInv ==
  ASSUME IInv, Interrupt \/ dispDraw \/ UNCHANGED vars
  PROVE  LInv'
<1>1. UNCHANGED <<fb, panel, pos, window, raced, old, pc, row, ystart, yend, firstrun>>
      /\ UNCHANGED <<chain, wire, tx>> /\ dispSem' \in {dispSem, TRUE}
  BY DEF Interrupt, dispDraw, vars, task, lcd, screen, dma, M!spidma_intr
<1>2. LinesOut' = LinesOut /\ WindowOut' = WindowOut /\ NothingOut' = NothingOut /\ First' = First
  BY <1>1, SameLines
<1>3. OnTheWay' BY <1>1, <1>2 DEF IInv, LInv, OnTheWay
<1>4. \A j \in Visible : Due(j) => Due(j)' BY <1>1, <1>2 DEF Due, Pending
<1>5. Owed' BY <1>1, <1>4, GoodKept DEF IInv, LInv, Owed, Owes
<1>6. Checked' /\ FirstRun' BY <1>1 DEF IInv, LInv, Checked, Noticed, Same, FirstRun
<1>7. dispSem' \in BOOLEAN BY <1>1 DEF IInv, LInv, Bounds
<1>8. Bounds' BY <1>1, <1>7 DEF IInv, LInv, Bounds
<1> QED BY <1>3, <1>5, <1>6, <1>8 DEF LInv

\* Draw: a row that the task may take for shown is noticed.
LEMMA DrawLInv ==
  ASSUME IInv, NEW x \in RowSet, Draw(x)
  PROVE  LInv'
<1>1. UNCHANGED <<dispSem, panel, pos, window, old, pc, row, ystart, yend, firstrun>>
      /\ UNCHANGED <<chain, wire, tx>> /\ fb' = [fb EXCEPT ![x] = 1 - @]
      /\ raced' = (IF Races(x) THEN raced \cup {x} ELSE raced)
  BY DEF Draw, task, lcd, dma
<1>2. raced \subseteq raced' /\ raced' \subseteq RowSet BY <1>1 DEF IInv, LInv, Bounds
<1>3. LinesOut' = LinesOut /\ WindowOut' = WindowOut /\ NothingOut' = NothingOut /\ First' = First
  BY <1>1, SameLines
<1>4. OnTheWay' BY <1>1, <1>3 DEF IInv, LInv, OnTheWay
<1>5. \A j \in Visible : Due(j) => Due(j)' BY <1>1, <1>3 DEF Due, Pending
<1>6. Owed' BY <1>1, <1>2, <1>5, GoodKept DEF IInv, LInv, Owed, Owes
<1>7. FirstRun' /\ Bounds' BY <1>1, <1>2 DEF IInv, LInv, FirstRun, Bounds
<1>8. \A r \in RowSet : r # x /\ Noticed(r) => Noticed(r)'
  <2>1. \A r \in RowSet : r # x => fb'[r] = fb[r] BY <1>1 DEF IInv, CInv, TInv
  <2> QED BY <1>1, <1>2, <2>1 DEF Noticed, Same
<1>9. Rows \in Nat \ {0} /\ FirstLines \in 1 .. Rows /\ ystart \in 0 .. Rows /\ row \in Nat
  BY DisplayAssumption DEF IInv, LInv, Bounds, CInv, TInv
<1>10. CASE pc \in {"up", "down"}
  <2>1. x \in raced' BY <1>1, <1>10 DEF Races, IInv, CInv
  <2>2. \A r \in 0 .. ystart' - 1 : Noticed(r)'
    <3> TAKE r \in 0 .. ystart' - 1
    <3>1. r \in RowSet /\ r \in 0 .. ystart - 1 BY <1>1, <1>9 DEF RowSet
    <3>2. Noticed(r) BY <1>10, <3>1 DEF IInv, LInv, Checked
    <3> QED BY <1>8, <2>1, <3>1, <3>2 DEF Noticed
  <2>3. Checked' BY <1>1, <1>10, <2>2 DEF Checked
  <2> QED BY <1>4, <1>6, <1>7, <2>3 DEF LInv
<1>11. CASE pc = "copy"
  <2>1. ASSUME NEW j \in Visible, j \notin ystart .. yend - 1, NEW r \in Uses(j), r >= row
        PROVE  Noticed(r)'
    <3>1. r \in RowSet BY LinesSeen
    <3>2. Noticed(r) BY <1>11, <2>1 DEF IInv, LInv, Checked
    <3>3. CASE r # x BY <1>8, <3>1, <3>2, <3>3
    <3>4. CASE r = x
      <4>1. ~Sent(x) BY <2>1, <3>4 DEF Sent
      <4>2. ~firstrun
        <5>1. firstrun => ystart = 0 /\ yend = FirstLines BY <1>11 DEF IInv, LInv, FirstRun
        <5> QED BY <1>9, <2>1, <5>1, LinesSeen
      <4>3. x \in raced' BY <1>1, <1>11, <2>1, <3>4, <4>1, <4>2 DEF Races
      <4> QED BY <3>4, <4>3 DEF Noticed
    <3> QED BY <3>3, <3>4
  <2>2. Checked' BY <1>1, <1>11, <2>1 DEF Checked
  <2> QED BY <1>4, <1>6, <1>7, <2>2 DEF LInv
<1>12. CASE pc \notin {"up", "down", "copy"}
  <2>1. Checked' BY <1>1, <1>12 DEF Checked
  <2> QED BY <1>4, <1>6, <1>7, <2>1 DEF LInv
<1> QED BY <1>10, <1>11, <1>12

\* A step of the engine that shows nothing.
LEMMA SilentLInv ==
  ASSUME IInv, UNCHANGED <<fb, dispSem, panel, pos, window, raced, old, pc, row, ystart, yend, firstrun>>,
         UNCHANGED <<chain, wire, tx>>
  PROVE  LInv'
<1>1. LinesOut' = LinesOut /\ WindowOut' = WindowOut /\ NothingOut' = NothingOut /\ First' = First
  BY SameLines
<1>2. OnTheWay' BY <1>1 DEF IInv, LInv, OnTheWay
<1>3. \A j \in Visible : Due(j) => Due(j)' BY <1>1 DEF Due, Pending
<1>4. Owed' BY <1>3, GoodKept DEF IInv, LInv, Owed, Owes
<1>5. Checked' /\ FirstRun' /\ Bounds' BY DEF IInv, LInv, Checked, Noticed, Same, FirstRun, Bounds
<1> QED BY <1>2, <1>4, <1>5 DEF LInv

\* A line of the packet goes to the place it is for.
LEMMA LineLInv ==
  ASSUME IInv, LinesOut, pc \in {"lines", "top"}, row <= FirstLines, tx = "await",
         Len(wire) + 1 \in 1 .. Len(chain), Len(wire') = Len(wire) + 1,
         Show(chain[Len(wire) + 1]),
         UNCHANGED <<fb, dispSem, raced, old, pc, row, ystart, yend, firstrun, chain, tx>>
  PROVE  LInv'
<1> DEFINE k == Len(wire) + 1
           j == First + k - 2
<1>1. Len(chain) \in Nat /\ row \in Nat /\ ystart \in Nat /\ FirstLines \in Nat /\ Len(wire) \in Nat
  <2>1. ystart \in 0 .. Rows /\ Rows \in Nat /\ FirstLines \in 1 .. Rows
    BY DisplayAssumption DEF IInv, LInv, Bounds
  <2>2. row \in Nat BY DEF IInv, CInv, TInv
  <2>3. Len(chain) \in Nat /\ Len(wire) \in Nat BY DEF IInv, DmaInv, DmaTypes
  <2> QED BY <2>1, <2>2, <2>3
<1>2. k \in 1 .. Len(chain) /\ Len(chain) >= 3 /\ ystart <= First /\ First \in Nat
      /\ First = row - (Len(chain) - 2) /\ First < row
  BY <1>1 DEF LinesOut, First
<1>3. First' = First BY DEF First
<1>4. CASE k = 1 \/ k = Len(chain)
  <2>1. UNCHANGED <<panel, pos, window>>
    <3>1. chain[k] = Other BY <1>4 DEF LinesOut
    <3>2. Show(Other) BY <3>1
    <3> QED BY <3>2, OtherDo DEF Show, lcd
  <2>2. Place'
    <3>1. CASE k = 1
      <4>1. Len(wire) <= 1 /\ Len(wire') <= 1 BY <1>1, <3>1
      <4> QED BY <1>3, <2>1, <4>1 DEF LinesOut, Place
    <3>2. CASE k = Len(chain)
      <4>1. ~(Len(wire) <= 1) /\ Len(wire) < Len(chain) /\ First + Len(wire) - 1 = row
            /\ ~(Len(wire') <= 1) /\ ~(Len(wire') < Len(chain))
        BY <1>1, <1>2, <3>2
      <4>2. pos = row BY <4>1 DEF LinesOut, Place
      <4> QED BY <2>1, <4>1, <4>2 DEF Place
    <3> QED BY <1>4, <3>1, <3>2
  <2>3. LinesOut' BY <1>3, <2>2 DEF LinesOut, Line, Image
  <2>4. \A i \in Visible : Due(i) => Due(i)'
    <3> TAKE i \in Visible
    <3>1. SUFFICES ASSUME Pending(i), ~Pending(i)' PROVE FALSE BY <2>3 DEF Due
    <3>2. i \in First .. row - 1 /\ Len(wire) < i - First + 2 /\ ~(Len(wire) + 1 < i - First + 2)
      BY <1>3, <3>1 DEF Pending
    <3> QED BY <1>1, <1>2, <1>4, <3>2
  <2>5. Owed' BY <2>1, <2>4, GoodKept DEF IInv, LInv, Owed, Owes
  <2>6. OnTheWay' BY <2>3 DEF OnTheWay, Waits
  <2>7. Checked' /\ FirstRun' /\ Bounds' BY <2>1 DEF IInv, LInv, Checked, FirstRun, Bounds
  <2> QED BY <2>5, <2>6, <2>7 DEF LInv
<1>5. CASE k \in 2 .. Len(chain) - 1
  <2>1. j \in First .. row - 1 /\ j \in 0 .. FirstLines - 1 BY <1>1, <1>2, <1>5
  <2>2. chain[k] = Line(k = 2 /\ First = ystart, j) BY <1>5 DEF LinesOut
  <2>3. Put(j, Image(old, j))
    <3>1. \/ (k = 2 /\ First = ystart) /\ Put(window, Image(old, j))
          \/ ~(k = 2 /\ First = ystart) /\ Put(pos, Image(old, j))
      <4> DEFINE u == chain[k]
      <4>1. u.do = "line" /\ u.fresh = (k = 2 /\ First = ystart) /\ u.image = Image(old, j)
        BY <2>2, LineDo
      <4> HIDE DEF u
      <4>2. Show(u) BY DEF u
      <4>3. (u.fresh /\ Put(window, u.image)) \/ (~u.fresh /\ Put(pos, u.image)) BY <4>1, <4>2 DEF Show
      <4> QED BY <4>1, <4>3
    <3>2. CASE k = 2 /\ First = ystart
      <4>1. Len(wire) <= 1 /\ j = First BY <1>1, <1>2, <3>2
      <4>2. window = j BY <3>2, <4>1 DEF LinesOut, Place
      <4> QED BY <3>1, <3>2, <4>2
    <3>3. CASE ~(k = 2 /\ First = ystart)
      <4>1. pos = j
        <5>1. CASE k = 2
          <6>1. Len(wire) <= 1 /\ j = First BY <1>1, <1>2, <5>1
          <6> QED BY <3>3, <5>1, <6>1 DEF LinesOut, Place
        <5>2. CASE k # 2
          <6>1. ~(Len(wire) <= 1) /\ Len(wire) < Len(chain) /\ j = First + Len(wire) - 1
            BY <1>1, <1>2, <1>5, <5>2
          <6> QED BY <6>1 DEF LinesOut, Place
        <5> QED BY <5>1, <5>2
      <4> QED BY <3>1, <3>3, <4>1
    <3> QED BY <3>2, <3>3
  <2> HIDE DEF j
  <2>4. pos' = j + 1 /\ window' = window BY <2>3 DEF Put
  <2>5. panel' = [i \in Visible |-> IF i = j THEN Image(old, j) ELSE panel[i]]
    <3>1. panel = [i \in Visible |-> panel[i]] BY DEF IInv, LInv, Bounds
    <3>2. CASE j \in Visible
      <4>1. panel' = [panel EXCEPT ![j] = Image(old, j)] BY <2>3, <3>2 DEF Put
      <4> QED BY <3>1, <3>2, <4>1
    <3>3. CASE j \notin Visible
      <4>1. panel' = panel BY <2>3, <3>3 DEF Put
      <4> QED BY <3>1, <3>3, <4>1
    <3> QED BY <3>2, <3>3
  <2>6. Place'
    <3>1. ~(Len(wire') <= 1) /\ Len(wire') < Len(chain) /\ j + 1 = First + Len(wire') - 1
      BY <1>1, <1>2, <1>5 DEF j
    <3> QED BY <1>3, <2>4, <3>1 DEF Place
  <2>7. LinesOut' BY <1>3, <2>6 DEF LinesOut, Line, Image
  <2>8. \A i \in Visible : Good(i) \/ Due(i) => (Good(i) \/ Due(i))'
    <3> TAKE i \in Visible
    <3>1. CASE i = j
      <4>1. panel'[i] = Image(old, i) BY <2>5, <3>1
      <4> QED BY <4>1 DEF Good, Image
    <3>2. CASE i # j
      <4>1. panel'[i] = panel[i] BY <2>5, <3>2
      <4>2. Good(i) => Good(i)' BY <4>1 DEF Good, Image
      <4>3. Pending(i) => Pending(i)'
        <5>1. SUFFICES ASSUME Pending(i), ~Pending(i)' PROVE FALSE OBVIOUS
        <5>2. i \in First .. row - 1 /\ Len(wire) < i - First + 2 /\ ~(Len(wire) + 1 < i - First + 2)
          BY <1>3, <5>1 DEF Pending
        <5> QED BY <1>1, <1>2, <3>2, <5>2 DEF j
      <4> QED BY <2>7, <4>2, <4>3 DEF Due
    <3> QED BY <3>1, <3>2
  <2>9. Owed' BY <2>8 DEF IInv, LInv, Owed, Owes
  <2>10. OnTheWay' BY <2>7 DEF OnTheWay, Waits
  <2>11. Checked' /\ FirstRun' BY DEF IInv, LInv, Checked, Noticed, Same, FirstRun
  <2>12. pos' \in 0 .. FirstLines BY <1>1, <2>1, <2>4
  <2>13. panel' = [i \in Visible |-> panel'[i]] BY <2>5
  <2>14. Bounds' BY <2>4, <2>12, <2>13 DEF IInv, LInv, Bounds
  <2> QED BY <2>9, <2>10, <2>11, <2>14 DEF LInv
<1> QED BY <1>1, <1>2, <1>4, <1>5

LEMMA EngineLInv ==
  ASSUME IInv, DmaEngine
  PROVE  LInv'
<1>1. UNCHANGED <<fb, dispSem, raced, old, pc, row, ystart, yend, firstrun, chain, tx>> /\ M!Engine
      /\ Show(IF at[1] = "data" THEN chain[at[2]] ELSE Other)
  BY DEF DmaEngine, screen, task, M!Engine
<1>2. CASE wire' = wire /\ at[1] # "data"
  <2>1. UNCHANGED <<panel, pos, window>> BY <1>1, <1>2, OtherDo DEF Show, lcd
  <2> QED BY <1>1, <1>2, <2>1, SilentLInv
<1>3. CASE /\ tx = "await" /\ at[1] = "data" /\ at[2] = Len(wire) + 1
           /\ Len(wire) + 1 \in 1 .. Len(chain) /\ Len(wire') = Len(wire) + 1
  <2> DEFINE k == Len(wire) + 1
  <2>1. Show(chain[k]) BY <1>1, <1>3
  <2>2. Len(chain) \in Nat /\ Len(wire) \in Nat /\ row \in Nat /\ yend \in Int
    BY DEF IInv, DmaInv, DmaTypes, LInv, Bounds, CInv, TInv
  <2>3. pc \notin Waits BY <1>3 DEF IInv, LInv, OnTheWay
  <2>4. CASE firstrun /\ NothingOut /\ pc \in {"boot", "top"}
    <3>1. Show(Other) BY <1>3, <2>1, <2>4 DEF NothingOut
    <3>2. UNCHANGED <<panel, pos, window>> BY <3>1, OtherDo DEF Show, lcd
    <3>3. NothingOut' BY <1>1, <2>4 DEF NothingOut, Other
    <3>4. OnTheWay' BY <1>1, <1>3, <2>4, <3>3 DEF OnTheWay, Waits
    <3>5. Owed' BY <1>1, <2>4 DEF Owed, Owes
    <3>6. Checked' /\ FirstRun' /\ Bounds' BY <1>1, <2>4, <3>2 DEF IInv, LInv, Checked, FirstRun, Bounds
    <3> QED BY <3>4, <3>5, <3>6 DEF LInv
  <2>5. CASE pc = "lines" /\ WindowOut
    <3>1. ystart \in Nat /\ ystart \in 0 .. FirstLines
      BY <2>5, DisplayAssumption DEF IInv, CInv, TInv, Range
    <3>2. ~LinesOut BY <2>2, <2>5, <3>1 DEF WindowOut, LinesOut, First
    <3>3. k \in 1 .. 3 BY <1>3, <2>5 DEF WindowOut
    <3>4. UNCHANGED <<panel, pos>> /\ window' = (IF k = 2 THEN ystart ELSE window)
      <4>1. CASE k = 2
        <5>1. Show(SetWindow(ystart)) BY <2>1, <2>5, <4>1 DEF WindowOut
        <5> QED BY <4>1, <5>1, OtherDo DEF Show
      <4>2. CASE k # 2
        <5>1. k = 1 \/ k = 3 BY <3>3, <4>2
        <5>2. Show(Other) BY <2>1, <2>5, <5>1 DEF WindowOut
        <5> QED BY <4>2, <5>2, OtherDo DEF Show, lcd
      <4> QED BY <4>1, <4>2
    <3>5. Len(wire') >= 2 => window' = ystart
      <4>1. k = 3 => Len(wire) >= 2 BY <2>2
      <4>2. Len(wire') >= 2 => k = 2 \/ k = 3 BY <1>3, <2>2, <3>3
      <4> QED BY <2>5, <3>4, <4>1, <4>2 DEF WindowOut
    <3>6. WindowOut' BY <1>1, <2>5, <3>5 DEF WindowOut, Other, SetWindow
    <3>7. OnTheWay' BY <1>1, <1>3, <2>5, <3>6 DEF OnTheWay, Waits
    <3>8. Owed' BY <1>1, <2>5, <3>2, <3>4, GoodKept DEF IInv, LInv, Owed, Owes, Due
    <3>9. window' \in 0 .. FirstLines BY <3>1, <3>4 DEF IInv, LInv, Bounds
    <3>10. Checked' /\ FirstRun' /\ Bounds' BY <1>1, <2>5, <3>4, <3>9 DEF IInv, LInv, Checked, FirstRun, Bounds
    <3> QED BY <3>7, <3>8, <3>10 DEF LInv
  <2>6. CASE LinesOut /\ pc \in {"lines", "top"} /\ row <= FirstLines
    BY <1>1, <1>3, <2>1, <2>6, LineLInv
  <2>7. pc = "lines" => row <= FirstLines
    BY <2>2, DisplayAssumption DEF IInv, CInv, TInv, Range
  <2>8. pc = "boot" => firstrun BY DEF IInv, LInv, FirstRun
  <2> QED BY <1>3, <2>3, <2>4, <2>5, <2>6, <2>7, <2>8 DEF IInv, LInv, OnTheWay
<1> QED BY <1>1, <1>2, <1>3, EngineShows DEF IInv

-----------------------------------------------------------------------------
(* The invariant of the display, and what follows from it.                 *)

LEMMA InitLInv == Init => LInv
<1> SUFFICES ASSUME Init PROVE LInv OBVIOUS
<1>1. pc = "boot" /\ firstrun /\ row = 0 /\ ystart = 0 /\ yend = 0 /\ pos = 0 /\ window = 0
      /\ raced = {} /\ dispSem = FALSE /\ panel = [j \in Visible |-> <<>>]
      /\ tx = "none" /\ wire = chain
  BY DEF Init, M!Init
<1>2. Rows \in Nat /\ FirstLines \in Nat /\ Boots \in Nat /\ Clears \in Nat BY DisplayAssumption
<1>3. OnTheWay BY <1>1 DEF OnTheWay, Waits
<1>4. Owed /\ Checked /\ FirstRun BY <1>1 DEF Owed, Owes, Checked, FirstRun
<1>5. Bounds
  <2>1. 0 \in 0 .. Boots + Clears /\ 0 \in 0 .. Rows /\ 0 \in -1 .. Rows /\ 0 \in 0 .. FirstLines
    BY <1>2
  <2> QED BY <1>1, <2>1 DEF Bounds
<1> QED BY <1>3, <1>4, <1>5 DEF LInv

LEMMA NextLInv == IInv /\ [Next]_vars => LInv'
<1> SUFFICES ASSUME IInv, [Next]_vars PROVE LInv' OBVIOUS
<1>1. CASE Boot \/ Packet \/ setColRange BY <1>1, BootLInv
<1>2. CASE Resync BY <1>2, ResyncLInv
<1>3. CASE Take BY <1>3, TakeLInv
<1>4. CASE ScanUp \/ ScanDown \/ Overrun BY <1>4, ScanLInv
<1>5. CASE NoUpdate \/ Update BY <1>5, ComparedLInv
<1>6. CASE Copy BY <1>6, CopyLInv
<1>7. CASE setRowRange BY <1>7, WindowLInv
<1>8. CASE SendLines BY <1>8, SendLInv
<1>9. CASE Sending BY <1>9, SendingLInv
<1>10. CASE DmaEngine BY <1>10, EngineLInv
<1>11. CASE Interrupt \/ dispDraw \/ UNCHANGED vars BY <1>11, ElsewhereLInv
<1>12. CASE \E r \in RowSet : Draw(r) BY <1>12, DrawLInv
<1> QED BY <1>1, <1>2, <1>3, <1>4, <1>5, <1>6, <1>7, <1>8, <1>9, <1>10, <1>11, <1>12
     DEF Next, displayTask

LEMMA Invariant == Spec => []IInv
<1>1. M!DescAssumption BY DescsFit
<1>2. Init => IInv
  <2>1. Init => DmaInv BY <1>1, InitDma DEF Init
  <2> QED BY <2>1, InitCInv, InitLInv DEF IInv
<1>3. DmaInv /\ [M!Next]_(M!vars) => DmaInv'
  BY <1>1, ResyncDma, PrepareDma, BreakDma, EngineDma, InterruptDma, DoneDma, StutterDma DEF M!Next
<1>4. IInv /\ [Next]_vars => IInv'
  <2>1. CInv => TInv BY DEF CInv
  <2> QED BY <1>3, <2>1, NextDma, NextCInv, NextLInv DEF IInv
<1> QED BY <1>2, <1>4, PTL DEF Spec

\* displayTask: for every size of screen, display and buffer the range, the window and
\* the place of the next line stay where there is a row or a line, through every
\* interleaving of the drawing, the packets and the engine.
THEOREM TypeCorrect == Spec => []TypeOK
<1>1. IInv => TypeOK
  <2> SUFFICES ASSUME IInv PROVE TypeOK OBVIOUS
  <2>1. chain \in M!Packets \cup {<<>>}
    <3>1. chain \in Seq(Units) /\ Len(chain) \in 0 .. DescCnt BY DEF IInv, DmaInv, DmaTypes
    <3>2. Len(chain) = 0 => chain = <<>> BY <3>1
    <3>3. Len(chain) # 0 => Len(chain) \in 1 .. DescCnt BY <3>1
    <3> QED BY <3>1, <3>2, <3>3 DEF M!Packets
  <2>2. M!TypeOK BY <2>1 DEF IInv, DmaInv, DmaTypes, M!TypeOK
  <2> QED BY <2>2 DEF TypeOK, IInv, CInv, TInv, LInv, Bounds
<1> QED BY <1>1, Invariant, PTL

\* displayTask, between frames: whatever was drawn, at whatever moment, each line of
\* the display is what the copy says, or one of its rows was drawn between a compare
\* and the copy, or it is behind the place where the sending may end early.
THEOREM PanelFollowsCopy == Spec => []LinesFollowCopy
<1>1. IInv => LinesFollowCopy
  <2> SUFFICES ASSUME IInv, pc = "take", ~firstrun, NEW j \in Visible PROVE Good(j)
    BY DEF LinesFollowCopy, Good
  <2>1. tx = "none" BY DEF IInv, LInv, OnTheWay, Waits
  <2> QED BY <2>1, AllGood DEF IInv, LInv
<1> QED BY <1>1, Invariant, PTL
=============================================================================
