------------------------------ MODULE Display -------------------------------
(***************************************************************************)
(* mipi_lcd.c: the task that brings the Mac's screen to the display.  It   *)
(* waits for a frame, looks from both ends for the first and the last row  *)
(* that differs from its copy, copies the screen, and sends the lines of   *)
(* the display which those rows are scaled to, a buffer at a time, over    *)
(* the DMA engine of Mipi.  The emulator draws all the while.              *)
(*                                                                         *)
(* A row of the screen has one of two contents; a draw toggles it.  What a *)
(* line of the display shows is the contents of the rows it is made from.  *)
(* The display (external) stores lines from the start of its window on.    *)
(***************************************************************************)
EXTENDS Integers, Sequences

CONSTANTS
  Rows,        (* rows of the Mac's screen: 342                            *)
  FirstLines,  (* lines sent the first time: 320                           *)
  LinesPerBuf, (* LINESPERBUF: 32                                          *)
  BarFrom,     (* no buffer after one that ends here or behind: 200        *)
  DescCnt,     (* see Mipi                                                 *)
  Boots, Clears, (* packets of initLcd, with and without a resync before   *)
  MaxDraws     (* bound: draws of the emulator                             *)

\* A buffer of lines takes as many descriptors as there are, with header and footer:
\* 20481 bytes are 6 of up to 4092, and DESCCNT is 8.  All rows are seen in the lines
\* that are sent the first time.
ASSUME DisplayAssumption ==
  /\ Rows \in Nat \ {0} /\ FirstLines \in 1 .. Rows /\ ((Rows - 1) * 32) \div 51 + 2 <= FirstLines
  /\ LinesPerBuf \in Nat \ {0} /\ DescCnt \in Nat /\ LinesPerBuf + 2 <= DescCnt /\ BarFrom \in Nat
  /\ Boots \in Nat /\ Clears \in Nat

VARIABLES
  fb, draws,   (* the screen; draws so far                                 *)
  dispSem,     (* a frame is there to be looked at                         *)
  pc, old,     (* where the task is; its copy, oldImg                      *)
  row,         (* the packet, row or line it has come to                   *)
  ystart, yend, firstrun,
  panel, pos,  (* lines of the display; where the next one goes            *)
  window,      (* where it starts                                          *)
  raced,       (* rows drawn between a compare and the copy, and not sent  *)
               (* since: history                                           *)
  next, cur, chain, at, ahead, wire, irq, sem, tx   (* see Mipi            *)
screen == <<fb, draws>>
task == <<pc, old, row, ystart, yend, firstrun>>
lcd == <<panel, pos, window>>
dma == <<next, cur, chain, at, ahead, wire, irq, sem, tx>>
vars == <<screen, dispSem, task, lcd, raced, dma>>

-----------------------------------------------------------------------------
(* Rows and lines.                                                         *)

Scale == 51     \* SCALE_FACT: 51 / 32 rows a line
RowSet == 0 .. Rows - 1

\* findPixelVal looks at four heights of a line, findMacVal at the two rows
\* around each; between them the weight of the second is 0 at a row's own height.
Heights(j) == {Scale * j + d : d \in {0, 10, 25, Scale}}
Uses(j) == {r \in RowSet : \E y \in Heights(j) :
              r = y \div 32 \/ (y % 32 # 0 /\ r = y \div 32 + 1)}
Visible == {j \in 0 .. FirstLines - 1 : Uses(j) # {}}
Image(img, j) == [r \in Uses(j) |-> img[r]]

\* Bug variant: the line before is not included.
FromExact(y) == (y * 32) \div Scale
From(y) == IF (y * 32) \div Scale = 0 THEN 0 ELSE (y * 32) \div Scale - 1
To(y) == (y * 32) \div Scale + 2

\* What a descriptor points to; header and footer do nothing to the display.
Other == [do |-> "other"]
SetWindow(y) == [do |-> "window", at |-> y]
Line(fresh, j) == [do |-> "line", fresh |-> fresh, image |-> Image(old, j)]
Units == {Other} \cup {SetWindow(y) : y \in 0 .. FirstLines}
           \cup [do : {"line"}, fresh : BOOLEAN,
                 image : UNION {[Uses(j) -> {0, 1}] : j \in 0 .. FirstLines}]
M == INSTANCE Mipi WITH Unit <- Units

mipiDsiSendLong(data) == M!Prepare(<<Other>> \o data \o <<Other>>)
mipiDsiSendShort == M!Prepare(<<Other>>)

-----------------------------------------------------------------------------
(* The task.                                                               *)

Goto(to) == pc' = to
Keep == UNCHANGED <<screen, dispSem, lcd, raced>>

\* initLcd: packets with a resync before each, then clearing without; displayTask
\* sets the columns.  The display does not tell these packets from one another.
Boot ==
  /\ pc = "boot" /\ Keep /\ UNCHANGED <<old, ystart, yend, firstrun>>
  /\ \/ row < Boots /\ M!mipiResync /\ Goto("packet") /\ UNCHANGED row
     \/ /\ row \in Boots .. Boots + Clears - 1
        /\ mipiDsiSendLong(<<Other>>) /\ row' = row + 1 /\ UNCHANGED pc
Packet ==
  /\ pc = "packet" /\ (mipiDsiSendShort \/ mipiDsiSendLong(<<Other>>))
  /\ Goto("boot") /\ row' = row + 1 /\ Keep /\ UNCHANGED <<old, ystart, yend, firstrun>>
setColRange ==
  /\ pc = "boot" /\ row = Boots + Clears /\ mipiDsiSendLong(<<Other>>) /\ Goto("top")
  /\ row' = 0 /\ Keep /\ UNCHANGED <<old, ystart, yend, firstrun>>

Resync == pc = "top" /\ M!mipiResync /\ Goto("take") /\ Keep
          /\ UNCHANGED <<old, row, ystart, yend, firstrun>>

\* Bug variant: the last row is left out of the compare.
TakeShort ==
  /\ pc = "take" /\ dispSem /\ dispSem' = FALSE
  /\ row' = 0 /\ ystart' = 0 /\ yend' = (IF firstrun THEN FirstLines ELSE Rows - 2)
  /\ Goto(IF firstrun THEN "copy" ELSE "up")
  /\ UNCHANGED <<screen, old, firstrun, lcd, raced, dma>>

\* The first time all lines are sent, without a compare.
Take ==
  /\ pc = "take" /\ dispSem /\ dispSem' = FALSE
  /\ row' = 0 /\ ystart' = 0 /\ yend' = (IF firstrun THEN FirstLines ELSE Rows - 1)
  /\ Goto(IF firstrun THEN "copy" ELSE "up")
  /\ UNCHANGED <<screen, old, firstrun, lcd, raced, dma>>

Same(r) == old[r] = fb[r]
SameBelow == yend >= ystart /\ Same(yend)

ScanUp ==
  /\ pc = "up" /\ Keep /\ UNCHANGED <<old, row, yend, firstrun, dma>>
  /\ IF ystart < Rows /\ Same(ystart) THEN ystart' = ystart + 1 /\ UNCHANGED pc
     ELSE Goto("down") /\ UNCHANGED ystart

ScanDown ==
  /\ pc = "down" /\ SameBelow /\ yend' = yend - 1
  /\ Keep /\ UNCHANGED <<pc, old, row, ystart, firstrun, dma>>

Compared ==
  pc = "down" /\ ~SameBelow /\ UNCHANGED <<screen, dispSem, lcd, old, row, firstrun, dma>>

NoUpdate ==
  /\ Compared /\ ystart = Rows /\ yend' = Rows /\ Goto("copy") /\ UNCHANGED <<ystart, raced>>

\* The range is copied first, and again with the whole; its length is negative if
\* the scan from below has found nothing: the copy then runs over all memory.
Overrun ==
  /\ Compared /\ ystart < Rows /\ yend < ystart /\ Goto("crashed")
  /\ UNCHANGED <<ystart, yend, raced>>

Update ==
  /\ Compared /\ ystart < Rows /\ yend >= ystart /\ Goto("copy")
  /\ ystart' = From(ystart) /\ yend' = To(yend) /\ raced' = raced \ (ystart .. yend)

\* Bug variant: the last row is not copied.
CopyShort ==
  /\ pc = "copy" /\ Keep /\ UNCHANGED <<ystart, yend, firstrun, dma>>
  /\ IF row < Rows - 1
     THEN /\ old' = [old EXCEPT ![row] = fb[row]] /\ row' = row + 1 /\ UNCHANGED pc
     ELSE /\ row' = ystart /\ UNCHANGED old
          /\ Goto(IF ystart # yend THEN "window" ELSE "top")

\* Row by row, whatever the scans have found.
Copy ==
  /\ pc = "copy" /\ Keep /\ UNCHANGED <<ystart, yend, firstrun, dma>>
  /\ IF row < Rows THEN /\ old' = [old EXCEPT ![row] = fb[row]] /\ row' = row + 1 /\ UNCHANGED pc
     ELSE /\ row' = ystart /\ UNCHANGED old
          /\ Goto(IF ystart # yend THEN "window" ELSE "top")

setRowRange ==
  /\ pc = "window" /\ mipiDsiSendLong(<<SetWindow(ystart)>>) /\ Goto("lines")
  /\ Keep /\ UNCHANGED <<old, row, ystart, yend, firstrun>>

\* Bug variant: the buffer is full a line too late.
BufferEndLong == IF row + LinesPerBuf + 1 < yend THEN row + LinesPerBuf ELSE yend - 1
BufferEnd == IF row + LinesPerBuf < yend THEN row + LinesPerBuf - 1 ELSE yend - 1

\* A buffer of lines; the sending ends with the range or, but for the first time,
\* with a buffer that gets to the bar.
Ends == BufferEnd = yend - 1 \/ (~firstrun /\ BufferEnd >= BarFrom)
SendLines ==
  /\ pc = "lines" /\ Keep /\ UNCHANGED <<old, ystart, yend>>
  /\ mipiDsiSendLong([i \in 1 .. BufferEnd - row + 1 |->
                        Line(i = 1 /\ row = ystart, row + i - 1)])
  /\ row' = BufferEnd + 1
  /\ Goto(IF Ends THEN "top" ELSE "lines") /\ firstrun' = (firstrun /\ ~Ends)

Sending == Keep /\ UNCHANGED task /\ (M!Break \/ M!Done)
displayTask ==
  \/ Boot \/ Packet \/ setColRange \/ Resync \/ Take
  \/ ScanUp \/ ScanDown \/ NoUpdate \/ Overrun \/ Update \/ Copy
  \/ setRowRange \/ SendLines \/ Sending

-----------------------------------------------------------------------------
(* The display, the interrupt and the emulator.                            *)

Put(p, image) == /\ pos' = p + 1 /\ UNCHANGED window
                 /\ panel' = IF p \in Visible THEN [panel EXCEPT ![p] = image] ELSE panel
Show(u) ==
  \/ u.do = "other" /\ UNCHANGED lcd
  \/ u.do = "window" /\ window' = u.at /\ UNCHANGED <<panel, pos>>
  \/ u.do = "line" /\ u.fresh /\ Put(window, u.image)
  \/ u.do = "line" /\ ~u.fresh /\ Put(pos, u.image)

DmaEngine ==
  /\ M!Engine /\ Show(IF at[1] = "data" THEN chain[at[2]] ELSE Other)
  /\ UNCHANGED <<screen, dispSem, task, raced>>
Interrupt == M!spidma_intr /\ UNCHANGED <<screen, dispSem, task, lcd, raced>>

Running == pc \notin {"boot", "packet", "crashed"}

\* A draw the task may take for shown: after the row was compared, or before it is
\* copied although none of its lines is sent.
Sent(r) == \A j \in Visible : r \in Uses(j) => j \in ystart .. yend - 1
Races(r) == ~firstrun /\ (pc \in {"up", "down"} \/ (pc = "copy" /\ r >= row /\ ~Sent(r)))

Draw(r) ==
  /\ Running /\ draws < MaxDraws /\ draws' = draws + 1
  /\ fb' = [fb EXCEPT ![r] = 1 - @]
  /\ raced' = IF Races(r) THEN raced \cup {r} ELSE raced
  /\ UNCHANGED <<dispSem, task, lcd, dma>>

dispDraw == Running /\ ~dispSem /\ dispSem' = TRUE /\ UNCHANGED <<screen, task, lcd, raced, dma>>

Init ==
  /\ fb = [r \in RowSet |-> 0] /\ draws = 0 /\ dispSem = FALSE
  /\ pc = "boot" /\ old = fb /\ row = 0 /\ ystart = 0 /\ yend = 0 /\ firstrun = TRUE
  /\ panel = [j \in Visible |-> <<>>] /\ pos = 0 /\ window = 0 /\ raced = {}
  /\ M!Init
Next == displayTask \/ DmaEngine \/ Interrupt \/ (\E r \in RowSet : Draw(r)) \/ dispDraw

\* Each runs on its own: a task of the scheduler, the hardware, the emulator's loop,
\* which comes to dispDraw once a frame.
Fairness == WF_vars(displayTask) /\ WF_vars(DmaEngine) /\ WF_vars(Interrupt) /\ WF_vars(dispDraw)
Spec == Init /\ [][Next]_vars /\ Fairness

-----------------------------------------------------------------------------
(* Properties.                                                             *)

\* The copy, the range and the window stay within the screen and the display, and
\* a packet has no more parts than there are descriptors.
TypeOK ==
  /\ fb \in [RowSet -> {0, 1}] /\ old \in [RowSet -> {0, 1}] /\ dispSem \in BOOLEAN
  /\ row \in 0 .. (IF pc \in {"boot", "packet"} THEN Boots + Clears ELSE Rows)
  /\ ystart \in 0 .. Rows /\ yend \in -1 .. Rows
  /\ window \in 0 .. FirstLines /\ pos \in 0 .. FirstLines /\ raced \subseteq RowSet
  /\ M!TypeOK

\* Between frames a line of the display is what the copy says, unless one of its
\* rows was drawn while the screen was compared and copied, or it lies behind the
\* place where the sending may have been cut off.
LinesFollowCopy ==
  pc = "take" /\ ~firstrun =>
    \A j \in Visible :
      panel[j] = Image(old, j) \/ j > BarFrom \/ Uses(j) \cap raced # {}

\* The task runs over memory only when the first row it has found changed was
\* drawn again before the scan from below came to it.
CrashedByRace ==
  pc = "crashed" => ystart \in raced /\ \A r \in ystart .. Rows - 1 : Same(r) \/ r \in raced

\* The engine between packets, and packets on the wire: see Mipi.
EngineSpins == M!Spins
PacketsOnce == M!SentOnce

\* When the drawing is over the copy becomes the screen, through all the waiting on
\* semaphores, engine and interrupt, unless the task has crashed.
CopyFollows == draws = MaxDraws ~> (old = fb \/ pc = "crashed")
=============================================================================
