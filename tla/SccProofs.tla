----------------------------- MODULE SccProofs -----------------------------
(***************************************************************************)
(* Proofs about Scc, for every number of buffers, tick length, frame set   *)
(* and driver.  Each part has a lemma per C function and one that walks    *)
(* over the entry points:                                                  *)
(*   StateOK  the inductive invariant: types, and ChanOK of every channel; *)
(*   Tells    what becomes pending is signalled, EXT is never taken back;  *)
(*   Hears    a byte that comes up for reading has its interrupt pending;  *)
(*   Moved    a ring grows at its end or gives up its readable head.       *)
(***************************************************************************)
EXTENDS Scc, FiniteSetTheorems, TLAPS

RingOK(ch) ==
  /\ ch \in SccChan
  /\ RingContiguous(ch) /\ InFrame(ch)
  /\ EomInFrame(ch)

ChanOK(ch) == RingOK(ch) /\ TxCovered(ch)

StateOK(s) == s \in SccState /\ \A n \in Chan : ChanOK(s.chan[n])

-----------------------------------------------------------------------------
(* The ring.                                                               *)

LEMMA ChanFields ==
  ASSUME NEW ch \in SccChan
  PROVE  /\ ch.rx \in [Buf -> RxBuf] /\ ch.rxBufCur \in Buf
         /\ \A b \in Buf : /\ ch.rx[b].delay \in Int
                          /\ ch.rx[b].len \in Nat /\ ch.rx[b].dest \in Nat
         /\ ch.rxPos \in Nat /\ ch.rxEom \in BOOLEAN
         /\ ch.txPos \in 0 .. MaxTx /\ ch.txTimer \in Nat
BY DEF SccChan, RxBuf

LEMMA SlotInBuf ==
  ASSUME NEW ch \in SccChan, NEW k \in Buf
  PROVE  /\ Slot(ch, k) \in Buf
         /\ \A j \in Buf : Slot(ch, j) = Slot(ch, k) => j = k
BY ChanFields, RingAssumption DEF Slot, Buf

LEMMA HeadSlot ==
  ASSUME NEW ch \in SccChan
  PROVE  0 \in Buf /\ Slot(ch, 0) = ch.rxBufCur
BY ChanFields, RingAssumption DEF Slot, Buf

LEMMA NextInBuf ==
  ASSUME NEW b \in Buf
  PROVE  NextBuf(b) \in Buf
BY RingAssumption DEF NextBuf, Buf

\* Moving the head one buffer on moves every slot one buffer on.
LEMMA SlotAfterHead ==
  ASSUME NEW ch \in SccChan, NEW new \in SccChan,
         new.rxBufCur = NextBuf(ch.rxBufCur), NEW i \in Buf
  PROVE  /\ i + 1 \in Buf => Slot(new, i) = Slot(ch, i + 1) /\ Slot(new, i) # ch.rxBufCur
         /\ i + 1 \notin Buf => Slot(new, i) = ch.rxBufCur
<1> DEFINE c == ch.rxBufCur
           d == new.rxBufCur
<1>1. c \in 0 .. NoRxBuf - 1 /\ NoRxBuf \in Nat \ {0} /\ i \in 0 .. NoRxBuf - 1
  BY ChanFields, RingAssumption DEF Buf
<1>2. d = IF c + 1 >= NoRxBuf THEN 0 ELSE c + 1
  BY DEF NextBuf
<1>3. /\ Slot(new, i) = IF d + i < NoRxBuf THEN d + i ELSE d + i - NoRxBuf
      /\ Slot(ch, i + 1) = IF c + (i + 1) < NoRxBuf THEN c + (i + 1) ELSE c + (i + 1) - NoRxBuf
  BY DEF Slot
<1> HIDE DEF c, d
<1>4. (IF d + i < NoRxBuf THEN d + i ELSE d + i - NoRxBuf)
        = (IF c + (i + 1) < NoRxBuf THEN c + (i + 1) ELSE c + (i + 1) - NoRxBuf)
        \/ i + 1 = NoRxBuf
  BY <1>1, <1>2
<1>5. i + 1 < NoRxBuf => (IF d + i < NoRxBuf THEN d + i ELSE d + i - NoRxBuf) # c
  BY <1>1, <1>2
<1>6. i + 1 = NoRxBuf => (IF d + i < NoRxBuf THEN d + i ELSE d + i - NoRxBuf) = c
  BY <1>1, <1>2
<1>7. i + 1 \in Buf <=> i + 1 < NoRxBuf
  BY <1>1 DEF Buf
<1>8. i + 1 < NoRxBuf \/ i + 1 = NoRxBuf
  BY <1>1
<1> QED BY <1>3, <1>4, <1>5, <1>6, <1>7, <1>8, <1>1 DEF c

\* Giving up the head of the ring leaves a ring, one frame shorter, with the
\* cursor at its start.
LEMMA GiveUpHead ==
  ASSUME NEW ch \in SccChan, RingContiguous(ch), RxHasByte(ch),
         NEW new \in SccChan,
         new.rx = [ch.rx EXCEPT ![ch.rxBufCur] = [@ EXCEPT !.delay = Free]],
         new.rxBufCur = NextBuf(ch.rxBufCur)
  PROVE  RingContiguous(new)
<1>1. PICK k \in 0 .. NoRxBuf : \A i \in Buf :
        /\ i < k => ch.rx[Slot(ch, i)].delay >= 0 /\ ch.rx[Slot(ch, i)].len >= 3
        /\ i >= k => ch.rx[Slot(ch, i)].delay = Free
        /\ 0 < i /\ i < k => ch.rx[Slot(ch, i)].delay > 0
  BY DEF RingContiguous
<1>2. k > 0
  BY <1>1, HeadSlot, RingAssumption DEF RxHasByte, Free
<1>3. \A i \in Buf : i + 1 \in Buf => Slot(new, i) = Slot(ch, i + 1)
                                       /\ Slot(new, i) # ch.rxBufCur
  BY SlotAfterHead
<1>4. \A i \in Buf : i + 1 \notin Buf => Slot(new, i) = ch.rxBufCur
  BY SlotAfterHead
<1>5. ch.rx \in [Buf -> RxBuf] /\ ch.rxBufCur \in Buf
  BY ChanFields
<1>6. new.rx[ch.rxBufCur].delay = Free
  BY <1>5 DEF RxBuf
<1>7. \A b \in Buf : b # ch.rxBufCur => new.rx[b] = ch.rx[b]
  BY <1>5
<1>8. k - 1 \in 0 .. NoRxBuf
  BY <1>2, RingAssumption
<1>9. ASSUME NEW i \in Buf
      PROVE  /\ i < k - 1 => new.rx[Slot(new, i)].delay >= 0 /\ new.rx[Slot(new, i)].len >= 3
             /\ i >= k - 1 => new.rx[Slot(new, i)].delay = Free
             /\ 0 < i /\ i < k - 1 => new.rx[Slot(new, i)].delay > 0
  <2>1. CASE i + 1 \in Buf
    <3>1. new.rx[Slot(new, i)] = ch.rx[Slot(ch, i + 1)]
      BY <2>1, <1>3, <1>7, SlotInBuf
    <3>2. i \in Int /\ k \in Int /\ (i + 1 < k <=> i < k - 1) /\ (i + 1 >= k <=> i >= k - 1)
          /\ 0 < i + 1
      BY <1>8 DEF Buf
    <3> HIDE DEF Buf
    <3> QED
      BY <3>1, <3>2, <2>1, <1>1
  <2>2. CASE i + 1 \notin Buf
    BY <2>2, <1>4, <1>6, <1>8, RingAssumption DEF Buf
  <2> QED BY <2>1, <2>2
<1> QED BY <1>8, <1>9 DEF RingContiguous

-----------------------------------------------------------------------------
(* The operations of one channel.                                          *)

\* Nothing the channel invariant speaks about has changed.
SameRing(new, old) ==
  /\ new.rx = old.rx /\ new.rxBufCur = old.rxBufCur
  /\ new.rxPos = old.rxPos /\ new.rxEom = old.rxEom
SameTx(new, old) == new.txPos = old.txPos /\ new.txTimer = old.txTimer

LEMMA SameRingOK ==
  ASSUME NEW old, ChanOK(old), NEW new \in SccChan, SameRing(new, old)
  PROVE  RingContiguous(new) /\ InFrame(new) /\ EomInFrame(new)
<1>1. RingContiguous(new)
  BY DEF ChanOK, RingOK, RingContiguous, SameRing, Slot
<1>2. InFrame(new) /\ EomInFrame(new)
  BY DEF ChanOK, RingOK, InFrame, EomInFrame, RxHasByte, SameRing
<1> QED BY <1>1, <1>2

LEMMA SameChanOK ==
  ASSUME NEW old, ChanOK(old), NEW new \in SccChan, SameRing(new, old), SameTx(new, old)
  PROVE  ChanOK(new)
BY SameRingOK DEF ChanOK, RingOK, SameTx, TxCovered

LEMMA IgnoreRestOK ==
  ASSUME NEW ch, ChanOK(ch)
  PROVE  ChanOK(RxBufIgnoreRest(ch))
<1> DEFINE new == [ch EXCEPT !.rx[ch.rxBufCur].delay = Free, !.rxBufCur = NextBuf(@), !.rxPos = 0]
<1>1. CASE ch.rxPos = 0
  BY <1>1 DEF RxBufIgnoreRest
<1>2. CASE ch.rxPos # 0
  <2>1. ch \in SccChan /\ RxBufIgnoreRest(ch) = new
    BY <1>2 DEF RxBufIgnoreRest, ChanOK, RingOK
  <2>2. RxHasByte(ch)
    BY <1>2, <2>1, ChanFields DEF ChanOK, RingOK, InFrame
  <2>3. NextBuf(ch.rxBufCur) \in Buf
    BY <2>1, ChanFields, NextInBuf
  <2>4. [ch.rx EXCEPT ![ch.rxBufCur] = [@ EXCEPT !.delay = Free]] \in [Buf -> RxBuf]
    BY <2>1, ChanFields DEF RxBuf, Free
  <2>5. /\ new \in SccChan
        /\ new.rx = [ch.rx EXCEPT ![ch.rxBufCur] = [@ EXCEPT !.delay = Free]]
        /\ new.rxBufCur = NextBuf(ch.rxBufCur) /\ new.rxPos = 0
        /\ new.txPos = ch.txPos /\ new.txTimer = ch.txTimer
    BY <2>1, <2>3, <2>4 DEF SccChan
  <2>6. RingContiguous(new)
    BY <2>1, <2>2, <2>5, GiveUpHead DEF ChanOK, RingOK
  <2>7. InFrame(new) /\ EomInFrame(new) /\ TxCovered(new)
    BY <2>5 DEF InFrame, EomInFrame, TxCovered, ChanOK, RingOK
  <2> QED BY <2>1, <2>5, <2>6, <2>7 DEF ChanOK, RingOK
<1> QED BY <1>1, <1>2

LEMMA RxBufTickOK ==
  ASSUME NEW ch, ChanOK(ch)
  PROVE  ChanOK(RxBufTick(ch))
<1> DEFINE d == ch.rx[ch.rxBufCur].delay
           e == IF d > TickLen THEN d - TickLen ELSE 0
           new == [ch EXCEPT !.rx[ch.rxBufCur].delay = e]
<1>1. CASE d <= 0
  BY <1>1, ChanFields DEF RxBufTick, ChanOK, RingOK
<1>2. CASE d > 0
  <2>1. ch \in SccChan /\ RxBufTick(ch) = new
    BY <1>2 DEF RxBufTick, ChanOK, RingOK
  <2>2. d \in Nat /\ e \in Nat
    BY <1>2, <2>1, ChanFields, RingAssumption
  <2> HIDE DEF e
  <2>3. [ch.rx EXCEPT ![ch.rxBufCur] = [@ EXCEPT !.delay = e]] \in [Buf -> RxBuf]
    BY <2>1, <2>2, ChanFields DEF RxBuf
  <2>4. /\ new \in SccChan
        /\ new.rx = [ch.rx EXCEPT ![ch.rxBufCur] = [@ EXCEPT !.delay = e]]
        /\ new.rxBufCur = ch.rxBufCur /\ new.rxPos = ch.rxPos /\ new.rxEom = ch.rxEom
        /\ new.txPos = ch.txPos /\ new.txTimer = ch.txTimer
    BY <2>1, <2>3 DEF SccChan
  <2>5. ch.rxPos = 0
    BY <1>2, <2>1, ChanFields DEF ChanOK, RingOK, InFrame, RxHasByte
  <2>6. \A b \in Buf : b # ch.rxBufCur => new.rx[b] = ch.rx[b]
    BY <2>1, <2>4, ChanFields
  <2>7. /\ new.rx[ch.rxBufCur].delay = e
        /\ new.rx[ch.rxBufCur].len = ch.rx[ch.rxBufCur].len
    BY <2>1, <2>4, ChanFields DEF RxBuf
  <2>8. RingContiguous(new)
    <3>1. PICK k \in 0 .. NoRxBuf : \A i \in Buf :
            /\ i < k => ch.rx[Slot(ch, i)].delay >= 0 /\ ch.rx[Slot(ch, i)].len >= 3
            /\ i >= k => ch.rx[Slot(ch, i)].delay = Free
            /\ 0 < i /\ i < k => ch.rx[Slot(ch, i)].delay > 0
      BY DEF ChanOK, RingOK, RingContiguous
    <3>2. \A i \in Buf : Slot(new, i) = Slot(ch, i)
      BY <2>4 DEF Slot
    <3>3. 0 < k
      BY <1>2, <3>1, <2>1, HeadSlot, RingAssumption DEF Free
    <3>4. ASSUME NEW i \in Buf
          PROVE  /\ i < k => new.rx[Slot(new, i)].delay >= 0 /\ new.rx[Slot(new, i)].len >= 3
                 /\ i >= k => new.rx[Slot(new, i)].delay = Free
                 /\ 0 < i /\ i < k => new.rx[Slot(new, i)].delay > 0
      <4>1. CASE i = 0
        BY <4>1, <3>1, <3>2, <3>3, <2>1, <2>2, <2>7, HeadSlot
      <4>2. CASE i # 0
        <5>1. Slot(ch, i) # ch.rxBufCur /\ Slot(ch, i) \in Buf
          BY <4>2, <2>1, SlotInBuf, HeadSlot
        <5> QED BY <5>1, <3>1, <3>2, <2>6
      <4> QED BY <4>1, <4>2
    <3> QED BY <3>4 DEF RingContiguous
  <2>9. InFrame(new) /\ EomInFrame(new) /\ TxCovered(new)
    BY <2>4, <2>5 DEF InFrame, EomInFrame, TxCovered, ChanOK, RingOK
  <2> QED BY <2>1, <2>4, <2>8, <2>9 DEF ChanOK, RingOK
<1>3. d \in Int
  BY ChanFields DEF ChanOK, RingOK
<1> QED BY <1>1, <1>2, <1>3

\* sccRecv appends behind the last frame, or drops the frame on a full ring.
LEMMA RecvOK ==
  ASSUME NEW ch, RingOK(ch), NEW frame \in [dest : Nat, len : Nat \ {0}],
         NEW delay \in Nat \ {0}
  PROVE  RingOK(SccRecv(ch, frame, delay)) /\ SameTx(SccRecv(ch, frame, delay), ch)
<1> DEFINE free == {j \in Buf : ch.rx[Slot(ch, j)].delay = Free}
           first == CHOOSE j \in free : \A i \in free : j <= i
           r == [delay |-> delay, len |-> frame.len + 2, dest |-> frame.dest]
           new == [ch EXCEPT !.rx[Slot(ch, first)] = r]
<1>1. PICK k \in 0 .. NoRxBuf : \A i \in Buf :
        /\ i < k => ch.rx[Slot(ch, i)].delay >= 0 /\ ch.rx[Slot(ch, i)].len >= 3
        /\ i >= k => ch.rx[Slot(ch, i)].delay = Free
        /\ 0 < i /\ i < k => ch.rx[Slot(ch, i)].delay > 0
  BY DEF RingOK, RingContiguous
<1>2. CASE free = {}
  BY <1>2 DEF SccRecv, SameTx
<1>3. CASE free # {}
  <2>1. ch \in SccChan /\ SccRecv(ch, frame, delay) = new
    BY <1>3 DEF SccRecv, RingOK
  <2>2. \A i \in Buf : i \in free <=> i >= k
    BY <1>1, RingAssumption DEF Free, Buf
  <2>3. k \in Buf
    BY <1>3, <2>2, RingAssumption DEF Buf
  <2>4. k \in free /\ \A i \in free : k <= i
    BY <2>2, <2>3 DEF Buf
  <2>5. first \in free /\ \A i \in free : first <= i
    <3> HIDE DEF free
    <3> QED BY <2>4
  <2>6. first = k
    BY <2>4, <2>5, <2>3 DEF Buf
  <2> HIDE DEF first, free
  <2>7. r \in RxBuf /\ r.delay > 0 /\ r.len >= 3
    BY DEF RxBuf
  <2> HIDE DEF r
  <2>8. Slot(ch, k) \in Buf
    BY <2>1, <2>3, SlotInBuf
  <2>9. /\ new \in SccChan
        /\ new.rx = [ch.rx EXCEPT ![Slot(ch, k)] = r]
        /\ new.rxBufCur = ch.rxBufCur /\ new.rxPos = ch.rxPos /\ new.rxEom = ch.rxEom
        /\ new.txPos = ch.txPos /\ new.txTimer = ch.txTimer
    BY <2>1, <2>6, <2>7, <2>8 DEF SccChan
  <2>10. /\ new.rx[Slot(ch, k)] = r
         /\ \A b \in Buf : b # Slot(ch, k) => new.rx[b] = ch.rx[b]
    BY <2>1, <2>8, <2>9, ChanFields
  <2>11. RingContiguous(new)
    <3>1. \A i \in Buf : Slot(new, i) = Slot(ch, i)
      BY <2>9 DEF Slot
    <3>2. k + 1 \in 0 .. NoRxBuf
      BY <2>3, RingAssumption DEF Buf
    <3>3. ASSUME NEW i \in Buf
          PROVE  /\ i < k + 1 => new.rx[Slot(new, i)].delay >= 0 /\ new.rx[Slot(new, i)].len >= 3
                 /\ i >= k + 1 => new.rx[Slot(new, i)].delay = Free
                 /\ 0 < i /\ i < k + 1 => new.rx[Slot(new, i)].delay > 0
      <4>1. CASE i = k
        BY <4>1, <3>1, <2>3, <2>7, <2>10 DEF Buf, RxBuf
      <4>2. CASE i # k
        <5>1. Slot(ch, i) # Slot(ch, k) /\ Slot(ch, i) \in Buf
          BY <4>2, <2>1, <2>3, SlotInBuf
        <5>2. new.rx[Slot(new, i)] = ch.rx[Slot(ch, i)]
          BY <5>1, <3>1, <2>10
        <5>3. (i < k + 1 <=> i < k) /\ (i >= k + 1 <=> i >= k)
          BY <4>2, <2>3 DEF Buf
        <5> QED BY <5>2, <5>3, <1>1
      <4> QED BY <4>1, <4>2
    <3> QED BY <3>2, <3>3 DEF RingContiguous
  <2>12. InFrame(new) /\ EomInFrame(new)
    <3>1. CASE ch.rxPos = 0
      BY <3>1, <2>9 DEF InFrame, EomInFrame
    <3>2. CASE ch.rxPos > 0
      <4>1. RxHasByte(ch)
        BY <3>2 DEF RingOK, InFrame
      <4>2. ch.rxBufCur # Slot(ch, k)
        BY <4>1, <2>3, <2>4, <1>1 DEF RxHasByte, Free, Buf
      <4>3. new.rx[ch.rxBufCur] = ch.rx[ch.rxBufCur]
        BY <4>2, <2>10, <2>1, ChanFields
      <4> QED BY <4>3, <2>9 DEF InFrame, EomInFrame, RxHasByte, RingOK
    <3> QED BY <3>1, <3>2, <2>1, ChanFields
  <2> QED BY <2>1, <2>9, <2>11, <2>12 DEF RingOK, SameTx
<1> QED BY <1>2, <1>3

-----------------------------------------------------------------------------
(* The operations that only touch flags and interrupts: they leave the     *)
(* ring and the transmit buffer of every channel as they are.              *)

Quiet(t, s) == /\ t \in SccState
               /\ \A m \in Chan : SameRing(t.chan[m], s.chan[m]) /\ SameTx(t.chan[m], s.chan[m])

LEMMA QuietOK ==
  ASSUME NEW s, StateOK(s), NEW t, Quiet(t, s)
  PROVE  StateOK(t)
<1>1. \A m \in Chan : t.chan[m] \in SccChan
  BY DEF Quiet, SccState
<1> QED BY <1>1, SameChanOK DEF Quiet, StateOK

LEMMA QuietTrans ==
  ASSUME NEW s, NEW t, NEW u, Quiet(t, s), Quiet(u, t)
  PROVE  Quiet(u, s)
BY DEF Quiet, SameRing, SameTx

LEMMA StateFields ==
  ASSUME NEW s \in SccState, NEW n \in Chan
  PROVE  /\ s.chan[n] \in SccChan /\ s.chan \in [Chan -> SccChan]
         /\ s.intpending \subseteq Chan \X {"EXT", "RX"}
         /\ s.irqs \in Nat /\ s.exited \in BOOLEAN /\ s.regptr \in 0 .. 15
BY DEF SccState

LEMMA SetChan ==
  ASSUME NEW s \in SccState, NEW n \in Chan, NEW ch \in SccChan
  PROVE  /\ [s EXCEPT !.chan[n] = ch] \in SccState
         /\ [s EXCEPT !.chan[n] = ch].chan[n] = ch
         /\ \A m \in Chan : m # n => [s EXCEPT !.chan[n] = ch].chan[m] = s.chan[m]
<1>1. [s.chan EXCEPT ![n] = ch] \in [Chan -> SccChan]
  BY StateFields
<1>2. [s EXCEPT !.chan[n] = ch] \in SccState
  BY <1>1 DEF SccState
<1>3. [s EXCEPT !.chan[n] = ch].chan = [s.chan EXCEPT ![n] = ch]
  BY DEF SccState
<1> QED BY <1>2, <1>3, StateFields

LEMMA SetChanOK ==
  ASSUME NEW s, StateOK(s), NEW n \in Chan, NEW ch, ChanOK(ch)
  PROVE  StateOK([s EXCEPT !.chan[n] = ch])
BY SetChan DEF StateOK, ChanOK, RingOK

LEMMA RaiseIntQuiet ==
  ASSUME NEW s \in SccState, NEW n \in Chan
  PROVE  Quiet(RaiseInt(s, n), s) /\ RaiseInt(s, n).chan = s.chan
<1>1. s.chan[n].wr1.ena \in BOOLEAN
  BY StateFields DEF SccChan
<1>2. s.irqs + (IF s.chan[n].wr1.ena THEN 1 ELSE 0) \in Nat
  BY StateFields
<1>3. RaiseInt(s, n) \in SccState
  BY <1>2 DEF RaiseInt, SccState
<1>4. RaiseInt(s, n).chan = s.chan
  BY DEF RaiseInt, SccState
<1> QED BY <1>3, <1>4 DEF Quiet, SameRing, SameTx

LEMMA CalcRr0Type ==
  ASSUME NEW ch
  PROVE  CalcRr0(ch) \subseteq Rr0Flags
BY DEF CalcRr0, Rr0Flags, ExtFlags

LEMMA SetPending ==
  ASSUME NEW s \in SccState, NEW p \in SUBSET (Chan \X {"EXT", "RX"})
  PROVE  Quiet([s EXCEPT !.intpending = p], s)
<1>1. [s EXCEPT !.intpending = p] \in SccState
  BY DEF SccState
<1> QED BY <1>1 DEF Quiet, SameRing, SameTx, SccState

\* A channel update that only touches flags.
LEMMA SetFlags ==
  ASSUME NEW s \in SccState, NEW n \in Chan, NEW ch \in SccChan,
         SameRing(ch, s.chan[n]), SameTx(ch, s.chan[n])
  PROVE  Quiet([s EXCEPT !.chan[n] = ch], s)
BY SetChan DEF Quiet, SameRing, SameTx

LEMMA CheckExtIntQuiet ==
  ASSUME NEW s \in SccState, NEW n \in Chan
  PROVE  Quiet(CheckExtInt(s, n), s)
<1> DEFINE ch == s.chan[n]
           rr0 == CalcRr0(ch)
           seen == [s EXCEPT !.chan[n].rr0Prev = rr0]
           p == s.intpending \cup {<<n, "EXT">>}
           mid == [seen EXCEPT !.chan[n].rr0Latched = rr0]
           last == [mid EXCEPT !.intpending = p]
<1>1. ch \in SccChan /\ rr0 \in SUBSET Rr0Flags
  BY StateFields, CalcRr0Type
<1> HIDE DEF rr0
<1>2. [ch EXCEPT !.rr0Prev = rr0] \in SccChan
      /\ SameRing([ch EXCEPT !.rr0Prev = rr0], ch) /\ SameTx([ch EXCEPT !.rr0Prev = rr0], ch)
  BY <1>1 DEF SccChan, SameRing, SameTx
<1>3. Quiet(seen, s)
  BY <1>2, SetFlags
<1>4. seen \in SccState /\ seen.chan[n] \in SccChan /\ seen.intpending = s.intpending
  BY <1>3, StateFields DEF Quiet, SccState
<1>5. LET new == [seen.chan[n] EXCEPT !.rr0Latched = rr0]
      IN  new \in SccChan /\ SameRing(new, seen.chan[n]) /\ SameTx(new, seen.chan[n])
  BY <1>1, <1>4 DEF SccChan, SameRing, SameTx
<1> HIDE DEF seen
<1>6. Quiet(mid, seen)
  BY <1>4, <1>5, SetFlags
<1>7. mid \in SccState /\ p \in SUBSET (Chan \X {"EXT", "RX"})
  BY <1>6, StateFields DEF Quiet
<1>8. Quiet(last, mid)
  BY <1>7, SetPending
<1>9. Quiet(RaiseInt(last, n), last)
  BY <1>8, RaiseIntQuiet DEF Quiet
<1>10. Quiet(RaiseInt(last, n), s)
  BY <1>3, <1>6, <1>8, <1>9, QuietTrans
<1>11. last = [seen EXCEPT !.chan[n].rr0Latched = rr0, !.intpending = @ \cup {<<n, "EXT">>}]
  BY <1>4
<1>12. CheckExtInt(s, n) \in {RaiseInt(last, n), seen}
  BY <1>11 DEF CheckExtInt, seen, rr0
<1> QED BY <1>3, <1>10, <1>12

LEMMA CheckRxQuiet ==
  ASSUME NEW s \in SccState, NEW n \in Chan
  PROVE  Quiet(CheckRxIntPending(s, n), s)
<1> DEFINE ch == s.chan[n]
           b == ch.intOnNextRxChar /\ ~RxHasByte(ch)
           pend == IF WantsRxInt(ch) THEN s.intpending \cup {<<n, "RX">>}
                                     ELSE s.intpending \ {<<n, "RX">>}
           mid == [s EXCEPT !.intpending = pend]
           last == [mid EXCEPT !.chan[n].intOnNextRxChar = b]
<1>1. ch \in SccChan /\ pend \in SUBSET (Chan \X {"EXT", "RX"})
  BY StateFields
<1>2. b \in BOOLEAN
  BY Zenon
<1>3. CheckRxIntPending(s, n)
        = RaiseInt([s EXCEPT !.intpending = pend,
                             !.chan[n].intOnNextRxChar = @ /\ ~RxHasByte(ch)], n)
  BY DEF CheckRxIntPending
<1> HIDE DEF pend
<1>4. Quiet(mid, s)
  BY <1>1, SetPending
<1>5. mid \in SccState /\ mid.chan = s.chan
  BY <1>4 DEF Quiet, SccState
<1>6. last = [s EXCEPT !.intpending = pend, !.chan[n].intOnNextRxChar = @ /\ ~RxHasByte(ch)]
  BY <1>5
<1> HIDE DEF b
<1>7. LET new == [ch EXCEPT !.intOnNextRxChar = b]
      IN  new \in SccChan /\ SameRing(new, ch) /\ SameTx(new, ch)
  BY <1>1, <1>2 DEF SccChan, SameRing, SameTx
<1> HIDE DEF mid
<1>8. Quiet(last, mid)
  BY <1>5, <1>7, SetFlags
<1>9. Quiet(RaiseInt(last, n), last)
  BY <1>8, RaiseIntQuiet DEF Quiet
<1> QED BY <1>3, <1>4, <1>6, <1>8, <1>9, QuietTrans

-----------------------------------------------------------------------------
(* sccTick.                                                                *)

LEMMA TriggerRxOK ==
  ASSUME NEW s, StateOK(s), NEW n \in Chan
  PROVE  StateOK(TriggerRx(s, n))
<1> DEFINE ch == s.chan[n]
           buf == ch.rx[ch.rxBufCur]
           atStart == [s EXCEPT !.chan[n].rxPos = 0]
           p == s.intpending \cup {<<n, "EXT">>}
           marked == [atStart EXCEPT !.intpending = @ \cup {<<n, "EXT">>}]
           sync == IF "SYNC" \in ch.wr15 THEN RaiseInt(marked, n) ELSE atStart
           c == CheckRxIntPending(sync, n)
           heard == [c EXCEPT !.chan[n].hunting = FALSE]
           last == [heard EXCEPT !.chan[n].eofDelay = buf.len * 3]
<1>1. s \in SccState /\ ch \in SccChan /\ ChanOK(ch)
  BY StateFields DEF StateOK
<1>2. CASE buf.dest \in {Broadcast, ch.sdlcaddr}
  <2>1. LET new == [ch EXCEPT !.rxPos = 0]
        IN  /\ new \in SccChan /\ new.rx = ch.rx /\ new.rxBufCur = ch.rxBufCur
            /\ new.rxPos = 0 /\ SameTx(new, ch)
    BY <1>1 DEF SccChan, SameTx
  <2>2. RingContiguous([ch EXCEPT !.rxPos = 0])
    BY <2>1, <1>1 DEF ChanOK, RingOK, RingContiguous, Slot
  <2>3. ChanOK([ch EXCEPT !.rxPos = 0])
    BY <2>1, <2>2, <1>1 DEF ChanOK, RingOK, InFrame, EomInFrame, TxCovered, SameTx
  <2>4. StateOK(atStart)
    BY <2>3, SetChanOK
  <2>5. atStart \in SccState /\ atStart.intpending = s.intpending
    BY <2>4, <1>1 DEF StateOK, SccState
  <2>9. marked = [atStart EXCEPT !.intpending = p]
    BY <2>5
  <2>10. TriggerRx(s, n) = [c EXCEPT !.chan[n].hunting = FALSE, !.chan[n].eofDelay = buf.len * 3]
    BY <1>2 DEF TriggerRx
  <2> HIDE DEF atStart
  <2>6a. p \in SUBSET (Chan \X {"EXT", "RX"})
    BY <1>1, StateFields
  <2> HIDE DEF p
  <2>6. Quiet(marked, atStart)
    BY <2>5, <2>9, <2>6a, SetPending
  <2>7. Quiet(RaiseInt(marked, n), marked)
    BY <2>6, RaiseIntQuiet DEF Quiet
  <2>8. StateOK(sync)
    BY <2>4, <2>6, <2>7, QuietOK
  <2> HIDE DEF sync
  <2>11. StateOK(c)
    BY <2>8, CheckRxQuiet, QuietOK DEF StateOK
  <2> HIDE DEF c
  <2>12. c \in SccState /\ c.chan[n] \in SccChan
    BY <2>11, StateFields DEF StateOK
  <2>13. LET new == [c.chan[n] EXCEPT !.hunting = FALSE]
         IN  new \in SccChan /\ SameRing(new, c.chan[n]) /\ SameTx(new, c.chan[n])
    BY <2>12 DEF SccChan, SameRing, SameTx
  <2>14. Quiet(heard, c)
    BY <2>12, <2>13, SetFlags
  <2>15. heard \in SccState /\ heard.chan[n] \in SccChan
    BY <2>14, StateFields DEF Quiet
  <2>16. last = [c EXCEPT !.chan[n].hunting = FALSE, !.chan[n].eofDelay = buf.len * 3]
    BY <2>12
  <2> HIDE DEF heard
  <2>17. buf.len * 3 \in Nat
    BY <1>1, ChanFields
  <2>18. LET new == [heard.chan[n] EXCEPT !.eofDelay = buf.len * 3]
         IN  new \in SccChan /\ SameRing(new, heard.chan[n]) /\ SameTx(new, heard.chan[n])
    BY <2>15, <2>17 DEF SccChan, SameRing, SameTx
  <2>19. Quiet(last, heard)
    BY <2>15, <2>18, SetFlags
  <2> QED BY <2>10, <2>11, <2>14, <2>16, <2>19, QuietOK
<1>3. CASE buf.dest \notin {Broadcast, ch.sdlcaddr}
  BY <1>1, <1>3, IgnoreRestOK, SetChanOK DEF TriggerRx
<1> QED BY <1>2, <1>3

\* The state in which the transmit timer has run out and the bytes are still
\* there is the one moment at which TxCovered does not hold.
RingsOK(s, n) ==
  /\ s \in SccState
  /\ \A m \in Chan : RingOK(s.chan[m])
  /\ \A m \in Chan \ {n} : TxCovered(s.chan[m])

LEMMA DataFields ==
  ASSUME NEW s \in SccState, NEW n \in Chan
  PROVE  s.chan[n].txData[1] \in Nat
<1>1. s.chan[n].txData \in [0 .. MaxTx - 1 -> Nat]
  BY StateFields DEF SccChan
<1>2. 1 \in 0 .. MaxTx - 1
  BY DriverAssumption
<1> QED BY <1>1, <1>2

LEMMA TxFinishedOK ==
  ASSUME NEW s, NEW n \in Chan, RingsOK(s, n)
  PROVE  StateOK(SccTxFinished(s, n))
<1> DEFINE data == s.chan[n].txData
           sent == LocaltalkSend(s, data)
           cts == [dest |-> data[1], len |-> 3]
           chB == SccRecv(s.chan[SCC_CHANB], cts, 3)
           replied == [s EXCEPT !.chan[SCC_CHANB] = chB]
           new == [sent.chan[n] EXCEPT !.txPos = 0]
<1>1. s \in SccState /\ SCC_CHANB \in Chan /\ s.chan[SCC_CHANB] \in SccChan
  BY StateFields DEF RingsOK, Chan
<1>2. cts \in [dest : Nat, len : Nat \ {0}]
  BY <1>1, DataFields
<1>3. RingOK(chB) /\ SameTx(chB, s.chan[SCC_CHANB])
  BY <1>1, <1>2, RecvOK DEF RingsOK
<1>4. RingsOK(replied, n)
  <2>1. chB \in SccChan
    BY <1>3 DEF RingOK
  <2> HIDE DEF chB
  <2> QED BY <1>1, <1>3, <2>1, SetChan DEF RingsOK, TxCovered, SameTx
<1>5. sent \in {replied, s}
  BY DEF LocaltalkSend
<1>6. RingsOK(sent, n)
  BY <1>4, <1>5
<1> HIDE DEF sent
<1>7. sent \in SccState /\ sent.chan[n] \in SccChan /\ RingOK(sent.chan[n])
  BY <1>6, StateFields DEF RingsOK
<1>8. new \in SccChan /\ SameRing(new, sent.chan[n]) /\ new.txPos = 0
  <2>1. 0 \in 0 .. MaxTx
    BY DriverAssumption
  <2> QED BY <1>7, <2>1 DEF SccChan, SameRing
<1>9. RingOK(new) /\ TxCovered(new)
  <2>1. RingContiguous(new)
    BY <1>7, <1>8 DEF RingOK, RingContiguous, SameRing, Slot
  <2>2. InFrame(new) /\ EomInFrame(new)
    BY <1>7, <1>8 DEF RingOK, InFrame, EomInFrame, RxHasByte, SameRing
  <2> QED BY <1>8, <2>1, <2>2 DEF RingOK, TxCovered
<1> HIDE DEF new
<1>10. StateOK([sent EXCEPT !.chan[n] = new])
  BY <1>6, <1>7, <1>8, <1>9, SetChan DEF RingsOK, StateOK, ChanOK
<1>11. SccTxFinished(s, n) = [sent EXCEPT !.chan[n] = new]
  BY DEF SccTxFinished, sent, new
<1> QED BY <1>10, <1>11

LEMMA ElapseType ==
  ASSUME NEW t \in Nat
  PROVE  /\ Elapse(t) \in Nat
         /\ t \notin 1 .. TickLen => (Elapse(t) = 0 <=> t = 0)
BY RingAssumption DEF Elapse

LEMMA TxTickOK ==
  ASSUME NEW s, StateOK(s), NEW n \in Chan
  PROVE  StateOK(TxTick(s, n))
<1> DEFINE ch == s.chan[n]
           t == Elapse(ch.txTimer)
           new == [ch EXCEPT !.txTimer = t]
           later == [s EXCEPT !.chan[n] = new]
<1>1. s \in SccState /\ ch \in SccChan /\ ChanOK(ch)
  BY StateFields DEF StateOK
<1>2. t \in Nat /\ (ch.txTimer \notin 1 .. TickLen => (t = 0 <=> ch.txTimer = 0))
  BY <1>1, ChanFields, ElapseType
<1>3. later = [s EXCEPT !.chan[n].txTimer = Elapse(@)]
  BY <1>1
<1> HIDE DEF t
<1>4. new \in SccChan /\ SameRing(new, ch) /\ new.txPos = ch.txPos /\ new.txTimer = t
  BY <1>1, <1>2 DEF SccChan, SameRing
<1>5. RingOK(new)
  BY <1>1, <1>4, SameRingOK DEF RingOK
<1> HIDE DEF new
<1>6. RingsOK(later, n)
  BY <1>1, <1>4, <1>5, SetChan DEF RingsOK, StateOK, ChanOK
<1>7. CASE ch.txTimer \in 1 .. TickLen
  BY <1>3, <1>6, <1>7, TxFinishedOK DEF TxTick
<1>8. CASE ch.txTimer \notin 1 .. TickLen
  <2>1. TxCovered(new)
    BY <1>1, <1>2, <1>4, <1>8, ChanFields DEF ChanOK, TxCovered
  <2>2. StateOK(later)
    BY <1>5, <2>1, SetChanOK DEF ChanOK
  <2> QED BY <1>3, <1>8, <2>2 DEF TxTick
<1> QED BY <1>7, <1>8

LEMMA RxTickOK ==
  ASSUME NEW s, StateOK(s), NEW n \in Chan
  PROVE  StateOK(RxTick(s, n))
<1> DEFINE later == [s EXCEPT !.chan[n] = RxBufTick(@)]
<1>1. StateOK(later)
  BY RxBufTickOK, SetChanOK DEF StateOK
<1> QED BY <1>1, TriggerRxOK DEF RxTick

LEMMA EofTickQuiet ==
  ASSUME NEW s, StateOK(s), NEW n \in Chan
  PROVE  Quiet(EofTick(s, n), s)
<1> DEFINE ch == s.chan[n]
           t == Elapse(ch.eofDelay)
           later == [s EXCEPT !.chan[n].eofDelay = t]
           p == s.intpending \cup {<<n, "RX">>}
           marked == [later EXCEPT !.intpending = p]
<1>1. s \in SccState /\ ch \in SccChan
  BY StateFields DEF StateOK
<1>2. t \in Nat
  BY <1>1, ElapseType DEF SccChan
<1>3. later = [s EXCEPT !.chan[n].eofDelay = Elapse(@)]
  BY <1>1
<1> HIDE DEF t
<1>4. LET new == [ch EXCEPT !.eofDelay = t]
      IN  new \in SccChan /\ SameRing(new, ch) /\ SameTx(new, ch)
  BY <1>1, <1>2 DEF SccChan, SameRing, SameTx
<1>5. Quiet(later, s)
  BY <1>1, <1>4, SetFlags
<1>6. later \in SccState /\ later.intpending = s.intpending
  BY <1>1, <1>5 DEF Quiet, SccState
<1> HIDE DEF later
<1>7. p \in SUBSET (Chan \X {"EXT", "RX"})
  BY <1>1, StateFields
<1>8. Quiet(marked, later)
  BY <1>6, <1>7, SetPending
<1>9. Quiet(RaiseInt(marked, n), marked)
  BY <1>8, RaiseIntQuiet DEF Quiet
<1>10. EofTick(s, n) \in {RaiseInt(marked, n), later}
  BY <1>3, <1>6 DEF EofTick
<1> QED BY <1>5, <1>8, <1>9, <1>10, QuietTrans

LEMMA EofTickOK ==
  ASSUME NEW s, StateOK(s), NEW n \in Chan
  PROVE  StateOK(EofTick(s, n))
BY EofTickQuiet, QuietOK

LEMMA AbortTickQuiet ==
  ASSUME NEW s, StateOK(s), NEW n \in Chan
  PROVE  Quiet(AbortTick(s, n), s)
<1> DEFINE ch == s.chan[n]
           t == Elapse(ch.rxAbrtTimer)
<1>1. s \in SccState /\ ch \in SccChan
  BY StateFields DEF StateOK
<1>2. t \in Nat
  BY <1>1, ElapseType DEF SccChan
<1>3. AbortTick(s, n) = [s EXCEPT !.chan[n].rxAbrtTimer = t]
  BY <1>1 DEF AbortTick
<1> HIDE DEF t
<1>4. LET new == [ch EXCEPT !.rxAbrtTimer = t]
      IN  new \in SccChan /\ SameRing(new, ch) /\ SameTx(new, ch)
  BY <1>1, <1>2 DEF SccChan, SameRing, SameTx
<1> QED BY <1>1, <1>3, <1>4, SetFlags

LEMMA AbortTickOK ==
  ASSUME NEW s, StateOK(s), NEW n \in Chan
  PROVE  StateOK(AbortTick(s, n))
BY AbortTickQuiet, QuietOK

LEMMA TickChanOK ==
  ASSUME NEW s, StateOK(s), NEW n \in Chan
  PROVE  StateOK(TickChan(s, n))
<1> DEFINE end == AbortTick(EofTick(RxTick(TxTick(s, n), n), n), n)
<1>1. StateOK(end)
  BY TxTickOK, RxTickOK, EofTickOK, AbortTickOK
<1>2. StateOK(CheckExtInt(end, n))
  BY <1>1, CheckExtIntQuiet, QuietOK DEF StateOK
<1>3. TickChan(s, n) \in {CheckExtInt(end, n), end}
  BY DEF TickChan
<1> QED BY <1>1, <1>2, <1>3

-----------------------------------------------------------------------------
(* The register accesses.                                                  *)

\* A step that writes one flag field of one channel and nothing else.
LEMMA FlagOK ==
  ASSUME NEW s, StateOK(s), NEW n \in Chan, NEW ch \in SccChan,
         SameRing(ch, s.chan[n]), SameTx(ch, s.chan[n])
  PROVE  StateOK([s EXCEPT !.chan[n] = ch])
BY SetFlags, QuietOK DEF StateOK

LEMMA CallOK ==
  ASSUME StateOK(scc)
  PROVE  StateOK(Call) /\ Call.chan = scc.chan
<1>1. Call \in SccState /\ Call.chan = scc.chan
  BY DEF StateOK, SccState, Call
<1> QED BY <1>1 DEF StateOK

LEMMA AccessOK ==
  ASSUME StateOK(scc), NEW reg, NEW s \in Access(reg)
  PROVE  StateOK(s) /\ s.chan = scc.chan
<1> DEFINE reset == [Call EXCEPT !.regptr = 0]
<1>1. StateOK(Call) /\ Call.chan = scc.chan
  BY CallOK
<1>2. reset \in SccState /\ reset.chan = Call.chan
  BY <1>1 DEF StateOK, SccState
<1>3. StateOK(reset)
  BY <1>1, <1>2 DEF StateOK
<1>4. s \in {[Call EXCEPT !.regptr = 0], Call}
  BY Zenon DEF Access
<1> QED BY <1>1, <1>2, <1>3, <1>4

LEMMA DoneOK ==
  ASSUME NEW s, StateOK(s), NEW n \in Chan, Done(s, n)
  PROVE  StateOK(scc)'
<1>1. StateOK(CheckExtInt(s, n))
  BY CheckExtIntQuiet, QuietOK DEF StateOK
<1>2. scc' = CheckExtInt(s, n)
  BY DEF Done
<1>3. StateOK(scc') <=> StateOK(scc)'
  BY DEF StateOK
<1> QED BY <1>1, <1>2, <1>3

LEMMA Wr0OK ==
  ASSUME NEW s, StateOK(s), NEW n \in Chan, NEW ptr \in 0 .. 7, NEW low, NEW high
  PROVE  StateOK(Wr0(s, n, ptr, low, high))
<1> DEFINE r == IF low = "point_high" THEN ptr + 8 ELSE ptr
           sel == [s EXCEPT !.regptr = r]
           mid == Wr0Low(sel, n, low)
<1>1. sel \in SccState /\ sel.chan = s.chan
  BY DEF StateOK, SccState
<1>2. StateOK(sel)
  BY <1>1 DEF StateOK
<1>3. Wr0(s, n, ptr, low, high) = Wr0High(mid, n, high)
  BY DEF Wr0
<1> HIDE DEF sel
<1>4. sel.chan[n] \in SccChan /\ sel \in SccState
  BY <1>2, StateFields DEF StateOK
<1>5. StateOK([sel EXCEPT !.chan[n].rr0Latched = NotLatched])
  <2>1. LET new == [sel.chan[n] EXCEPT !.rr0Latched = NotLatched]
        IN  new \in SccChan /\ SameRing(new, sel.chan[n]) /\ SameTx(new, sel.chan[n])
    BY <1>4 DEF SccChan, SameRing, SameTx, NotLatched
  <2> QED BY <2>1, <1>2, FlagOK
<1>6. StateOK(CheckRxIntPending(SccTxFinished(sel, n), n))
  <2>1. RingsOK(sel, n)
    BY <1>2 DEF StateOK, RingsOK, ChanOK
  <2> QED BY <2>1, TxFinishedOK, CheckRxQuiet, QuietOK DEF StateOK
<1>7. StateOK(CheckRxIntPending([sel EXCEPT !.chan[n].intOnNextRxChar = TRUE], n))
  <2>1. LET new == [sel.chan[n] EXCEPT !.intOnNextRxChar = TRUE]
        IN  new \in SccChan /\ SameRing(new, sel.chan[n]) /\ SameTx(new, sel.chan[n])
    BY <1>4 DEF SccChan, SameRing, SameTx
  <2>2. StateOK([sel EXCEPT !.chan[n].intOnNextRxChar = TRUE])
    BY <2>1, <1>2, FlagOK
  <2> QED BY <2>2, CheckRxQuiet, QuietOK DEF StateOK
<1>8. StateOK(CheckRxIntPending([sel EXCEPT !.chan[n] = RxBufIgnoreRest(@)], n))
  <2>1. StateOK([sel EXCEPT !.chan[n] = RxBufIgnoreRest(@)])
    BY <1>2, IgnoreRestOK, SetChanOK DEF StateOK
  <2> QED BY <2>1, CheckRxQuiet, QuietOK DEF StateOK
<1>9. StateOK(mid)
  BY <1>2, <1>5, <1>6, <1>7, <1>8 DEF Wr0Low
<1> HIDE DEF mid
<1>10. StateOK([mid EXCEPT !.chan[n].txTimer = 10])
  <2>1. mid.chan[n] \in SccChan /\ ChanOK(mid.chan[n])
    BY <1>9, StateFields DEF StateOK
  <2>2. LET new == [mid.chan[n] EXCEPT !.txTimer = 10]
        IN  new \in SccChan /\ SameRing(new, mid.chan[n]) /\ new.txTimer = 10
    BY <2>1 DEF SccChan, SameRing
  <2>3. ChanOK([mid.chan[n] EXCEPT !.txTimer = 10])
    BY <2>1, <2>2, SameRingOK DEF ChanOK, RingOK, TxCovered
  <2> QED BY <2>3, <1>9, SetChanOK
<1> QED BY <1>3, <1>9, <1>10 DEF Wr0High

LEMMA ReadByteOK ==
  ASSUME NEW s, StateOK(s), NEW n \in Chan
  PROVE  StateOK(ReadByte(s, n))
<1> DEFINE ch == s.chan[n]
           last == RxHasByte(ch) /\ RxBytesLeft(ch) = 1
           read == IF RxHasByte(ch) THEN RxByte(ch) ELSE ch
           abrt == IF last THEN 40 ELSE read.rxAbrtTimer
           new == [read EXCEPT !.rxEom = last, !.rxAbrtTimer = abrt]
<1>1. s \in SccState /\ ch \in SccChan /\ ChanOK(ch)
  BY StateFields DEF StateOK
<1>2. ReadByte(s, n) = [s EXCEPT !.chan[n] = new]
  BY DEF ReadByte
<1>3. last \in BOOLEAN
  BY Zenon
<1>4. /\ read \in SccChan /\ RingContiguous(read) /\ InFrame(read) /\ TxCovered(read)
      /\ read.rxPos > 0 => (last <=> read.rxPos = read.rx[read.rxBufCur].len - 1)
  <2>1. CASE ~RxHasByte(ch)
    BY <2>1, <1>1 DEF ChanOK, RingOK, InFrame
  <2>2. CASE RxHasByte(ch)
    <3> DEFINE next == [ch EXCEPT !.rxPos = @ + 1]
               len == ch.rx[ch.rxBufCur].len
    <3>1. read = IF next.rxPos = len THEN RxBufIgnoreRest(next) ELSE next
      BY <2>2 DEF RxByte
    <3>2. /\ next \in SccChan /\ next.rx = ch.rx /\ next.rxBufCur = ch.rxBufCur
          /\ next.rxPos = ch.rxPos + 1 /\ SameTx(next, ch)
      <4>1. ch.rxPos + 1 \in Nat
        BY <1>1, ChanFields
      <4> QED BY <1>1, <4>1 DEF SccChan, SameTx
    <3> HIDE DEF next
    <3>3. RingContiguous(next) /\ TxCovered(next) /\ RxHasByte(next)
      <4>1. RingContiguous(next) BY <1>1, <3>2 DEF ChanOK, RingOK, RingContiguous, Slot
      <4>2. TxCovered(next) BY <1>1, <3>2 DEF ChanOK, RingOK, TxCovered, SameTx
      <4>3. RxHasByte(next) BY <2>2, <3>2 DEF RxHasByte
      <4> QED BY <4>1, <4>2, <4>3
    <3>4. len \in Nat /\ ch.rxPos \in Nat /\ ch.rxPos < len
      <4>1. len >= 3
        <5>1. PICK k \in 0 .. NoRxBuf : \A i \in Buf :
                /\ i < k => ch.rx[Slot(ch, i)].delay >= 0 /\ ch.rx[Slot(ch, i)].len >= 3
                /\ i >= k => ch.rx[Slot(ch, i)].delay = Free
                /\ 0 < i /\ i < k => ch.rx[Slot(ch, i)].delay > 0
          BY <1>1 DEF ChanOK, RingOK, RingContiguous
        <5> QED BY <5>1, <2>2, <1>1, HeadSlot, RingAssumption DEF RxHasByte, Free
      <4> QED BY <4>1, <1>1, ChanFields DEF ChanOK, RingOK, InFrame
    <3>5. last <=> len - ch.rxPos - 1 = 1
      <4>1. RxBytesLeft(ch) = len - ch.rxPos - 1
        BY DEF RxBytesLeft
      <4> HIDE DEF len
      <4> QED BY <4>1, <2>2, Zenon
    <3> HIDE DEF last, len
    <3>6. CASE next.rxPos = len
      <4> DEFINE skipped == [next EXCEPT !.rx[next.rxBufCur].delay = Free,
                                         !.rxBufCur = NextBuf(@), !.rxPos = 0]
      <4>1. read = skipped
        BY <3>1, <3>2, <3>4, <3>6 DEF RxBufIgnoreRest
      <4>2. NextBuf(next.rxBufCur) \in Buf
        BY <3>2, ChanFields, NextInBuf
      <4>3. [next.rx EXCEPT ![next.rxBufCur] = [@ EXCEPT !.delay = Free]] \in [Buf -> RxBuf]
        BY <3>2, ChanFields DEF RxBuf, Free
      <4>4. /\ skipped \in SccChan
            /\ skipped.rx = [next.rx EXCEPT ![next.rxBufCur] = [@ EXCEPT !.delay = Free]]
            /\ skipped.rxBufCur = NextBuf(next.rxBufCur) /\ skipped.rxPos = 0
            /\ SameTx(skipped, next)
        BY <3>2, <4>2, <4>3 DEF SccChan, SameTx
      <4> HIDE DEF skipped
      <4>5. RingContiguous(skipped)
        BY <3>2, <3>3, <4>4, GiveUpHead
      <4> QED BY <4>1, <4>4, <4>5, <3>3 DEF InFrame, TxCovered, SameTx
    <3>7. CASE next.rxPos # len
      <4>1. read = next
        BY <3>1, <3>7
      <4>2. InFrame(next) /\ next.rx[next.rxBufCur].len = len
        BY <3>2, <3>3, <3>4, <3>7 DEF InFrame, len
      <4>3. last <=> next.rxPos = len - 1
        BY <3>2, <3>4, <3>5
      <4> QED BY <4>1, <4>2, <4>3, <3>2, <3>3
    <3> QED BY <3>6, <3>7
  <2> QED BY <2>1, <2>2
<1> HIDE DEF read, last
<1>5. abrt \in Nat
  BY <1>4 DEF SccChan
<1> HIDE DEF abrt
<1>6. /\ new \in SccChan /\ new.rx = read.rx /\ new.rxBufCur = read.rxBufCur
      /\ new.rxPos = read.rxPos /\ new.rxEom = last /\ SameTx(new, read)
  BY <1>3, <1>4, <1>5 DEF SccChan, SameTx
<1> HIDE DEF new
<1>7. RingContiguous(new) /\ InFrame(new) /\ TxCovered(new)
  BY <1>4, <1>6 DEF RingContiguous, Slot, InFrame, RxHasByte, TxCovered, SameTx
<1>8. EomInFrame(new)
  BY <1>4, <1>6 DEF EomInFrame
<1>9. ChanOK(new)
  BY <1>6, <1>7, <1>8 DEF ChanOK, RingOK
<1> QED BY <1>2, <1>9, SetChanOK

LEMMA SccPendingType ==
  ASSUME NEW s \in SccState
  PROVE  s.intpending \in SUBSET (Chan \X {"EXT", "RX"})
BY DEF SccState

LEMMA TakenReason ==
  ASSUME NEW s \in SccState
  PROVE  \/ TakeReason(s) = s
         \/ \E n \in Chan : TakeReason(s) = CheckRxIntPending(s, n)
         \/ \E p : TakeReason(s) = [s EXCEPT !.intpending = @ \ {p}]
<1> DEFINE i == CHOOSE k \in 1 .. 4 : /\ IntReasons[k] \in s.intpending
                                      /\ \A j \in 1 .. k - 1 : IntReasons[j] \notin s.intpending
           rsn == IntReasons[i]
<1>1. CASE s.intpending = {}
  BY <1>1 DEF TakeReason
<1>2. CASE s.intpending # {}
  <2>1. \E k \in 1 .. 4 : /\ IntReasons[k] \in s.intpending
                          /\ \A j \in 1 .. k - 1 : IntReasons[j] \notin s.intpending
    <3>1. \A p \in s.intpending : \E k \in 1 .. 4 : p = IntReasons[k]
      <4>1. \A p \in Chan \X {"EXT", "RX"} :
              p \in {<<SCC_CHANB, "EXT">>, <<SCC_CHANA, "EXT">>,
                     <<SCC_CHANA, "RX">>, <<SCC_CHANB, "RX">>}
        BY DEF Chan
      <4>2. /\ IntReasons[1] = <<SCC_CHANB, "EXT">> /\ IntReasons[2] = <<SCC_CHANA, "EXT">>
            /\ IntReasons[3] = <<SCC_CHANA, "RX">> /\ IntReasons[4] = <<SCC_CHANB, "RX">>
        BY DEF IntReasons
      <4> QED BY <4>1, <4>2, SccPendingType
    <3>2. \E k \in 1 .. 4 : IntReasons[k] \in s.intpending
      BY <3>1, <1>2
    <3> QED
      <4>1. CASE IntReasons[1] \in s.intpending
        BY <4>1
      <4>2. CASE IntReasons[1] \notin s.intpending /\ IntReasons[2] \in s.intpending
        BY <4>2
      <4>3. CASE /\ IntReasons[1] \notin s.intpending /\ IntReasons[2] \notin s.intpending
                 /\ IntReasons[3] \in s.intpending
        BY <4>3
      <4>4. CASE /\ IntReasons[1] \notin s.intpending /\ IntReasons[2] \notin s.intpending
                 /\ IntReasons[3] \notin s.intpending /\ IntReasons[4] \in s.intpending
        BY <4>4
      <4> QED BY <3>2, <4>1, <4>2, <4>3, <4>4
  <2>2. i \in 1 .. 4
    BY <2>1
  <2> HIDE DEF i
  <2>3. rsn[1] \in Chan
    BY <2>2 DEF IntReasons, Chan
  <2>4. TakeReason(s) \in {[s EXCEPT !.intpending = @ \ {rsn}], CheckRxIntPending(s, rsn[1])}
    BY <1>2 DEF TakeReason, i
  <2> QED BY <2>3, <2>4
<1> QED BY <1>1, <1>2

LEMMA TakeReasonQuiet ==
  ASSUME NEW s \in SccState
  PROVE  Quiet(TakeReason(s), s)
<1>1. Quiet(s, s)
  BY DEF Quiet, SameRing, SameTx
<1>2. ASSUME NEW p
      PROVE  Quiet([s EXCEPT !.intpending = @ \ {p}], s)
  <2>1. s.intpending \ {p} \in SUBSET (Chan \X {"EXT", "RX"})
    BY SccPendingType
  <2>2. Quiet([s EXCEPT !.intpending = s.intpending \ {p}], s)
    BY <2>1, SetPending
  <2> QED BY <2>2
<1> QED BY <1>1, <1>2, TakenReason, CheckRxQuiet

LEMMA IntAckOK ==
  ASSUME NEW s, StateOK(s)
  PROVE  StateOK(RaiseRemaining(RaiseRemaining(TakeReason(s), SCC_CHANA), SCC_CHANB))
<1>1. StateOK(TakeReason(s))
  BY TakeReasonQuiet, QuietOK DEF StateOK
<1>2. ASSUME NEW t, StateOK(t), NEW n \in Chan
      PROVE  StateOK(RaiseRemaining(t, n))
  BY <1>2, RaiseIntQuiet, QuietOK DEF RaiseRemaining, StateOK
<1>3. SCC_CHANA \in Chan /\ SCC_CHANB \in Chan
  BY DEF Chan
<1> QED BY <1>1, <1>2, <1>3

LEMMA WriteDataOK ==
  ASSUME StateOK(scc), NEW n \in Chan, NEW byte \in TxBytes, WriteData(n, byte)
  PROVE  StateOK(scc)'
<1>1. PICK s \in Access(8) :
        /\ scc.chan[n].txPos < MaxTx
        /\ Done([s EXCEPT !.chan[n].txData[s.chan[n].txPos] = byte,
                          !.chan[n].txPos = @ + 1, !.chan[n].txTimer = @ + 30], n)
  BY DEF WriteData
<1> DEFINE ch == s.chan[n]
           data == [ch.txData EXCEPT ![ch.txPos] = byte]
           new == [ch EXCEPT !.txData = data, !.txPos = @ + 1, !.txTimer = @ + 30]
<1>2. StateOK(s) /\ s.chan = scc.chan
  BY <1>1, AccessOK
<1>3. s \in SccState /\ ch \in SccChan /\ ChanOK(ch) /\ ch.txPos < MaxTx
  BY <1>1, <1>2, StateFields DEF StateOK
<1>4. /\ ch.txPos \in 0 .. MaxTx - 1 /\ ch.txPos + 1 \in 0 .. MaxTx
      /\ ch.txTimer + 30 \in Nat /\ ch.txTimer + 30 > 0
  BY <1>3, ChanFields, DriverAssumption
<1>5. data \in [0 .. MaxTx - 1 -> Nat]
  BY <1>3, <1>4, DriverAssumption DEF SccChan
<1> HIDE DEF data
<1>6. /\ new \in SccChan /\ SameRing(new, ch) /\ new.txTimer = ch.txTimer + 30
  BY <1>3, <1>4, <1>5 DEF SccChan, SameRing
<1>7. ChanOK(new)
  BY <1>3, <1>4, <1>6, SameRingOK DEF ChanOK, RingOK, TxCovered
<1>8. StateOK([s EXCEPT !.chan[n] = new])
  BY <1>2, <1>7, SetChanOK
<1>9. [s EXCEPT !.chan[n] = new]
        = [s EXCEPT !.chan[n].txData[s.chan[n].txPos] = byte,
                    !.chan[n].txPos = @ + 1, !.chan[n].txTimer = @ + 30]
  BY <1>3, <1>4 DEF SccState, SccChan, data
<1> QED BY <1>1, <1>8, <1>9, DoneOK

LEMMA WriteOK ==
  ASSUME StateOK(scc), NEW n \in Chan, Write(n)
  PROVE  StateOK(scc)'
<1>1. CASE \E ptr \in Pointers, low \in LowCmds, high \in HighCmds : WriteWR0(n, ptr, low, high)
  <2>1. PICK ptr \in Pointers, low \in LowCmds, high \in HighCmds, s \in Access(0) :
          Done(Wr0(s, n, ptr, low, high), n)
    BY <1>1 DEF WriteWR0
  <2>2. ptr \in 0 .. 7
    BY DriverAssumption
  <2> QED BY <2>1, <2>2, AccessOK, Wr0OK, DoneOK
<1>2. CASE \E val \in Wr1Values : WriteWR1(n, val)
  <2>1. PICK val \in Wr1Values, s \in Access(1) : Done([s EXCEPT !.chan[n].wr1 = val], n)
    BY <1>2 DEF WriteWR1
  <2>2. StateOK(s) /\ s.chan[n] \in SccChan /\ val \in [ena : BOOLEAN, mode : 0 .. 3]
    BY AccessOK, StateFields, DriverAssumption DEF StateOK
  <2>3. LET new == [s.chan[n] EXCEPT !.wr1 = val]
        IN  new \in SccChan /\ SameRing(new, s.chan[n]) /\ SameTx(new, s.chan[n])
    BY <2>2 DEF SccChan, SameRing, SameTx
  <2> QED BY <2>1, <2>2, <2>3, FlagOK, DoneOK
<1>3. CASE EnterHunt(n)
  <2>1. PICK s \in Access(3) : Done([s EXCEPT !.chan[n].hunting = TRUE], n)
    BY <1>3 DEF EnterHunt
  <2>2. StateOK(s) /\ s.chan[n] \in SccChan
    BY AccessOK, StateFields DEF StateOK
  <2>3. LET new == [s.chan[n] EXCEPT !.hunting = TRUE]
        IN  new \in SccChan /\ SameRing(new, s.chan[n]) /\ SameTx(new, s.chan[n])
    BY <2>2 DEF SccChan, SameRing, SameTx
  <2> QED BY <2>1, <2>2, <2>3, FlagOK, DoneOK
<1>4. CASE \E addr \in Addrs : WriteWR6(n, addr)
  <2>1. PICK addr \in Addrs, s \in Access(6) : Done([s EXCEPT !.chan[n].sdlcaddr = addr], n)
    BY <1>4 DEF WriteWR6
  <2>2. StateOK(s) /\ s.chan[n] \in SccChan /\ addr \in Nat
    BY AccessOK, StateFields, DriverAssumption DEF StateOK
  <2>3. LET new == [s.chan[n] EXCEPT !.sdlcaddr = addr]
        IN  new \in SccChan /\ SameRing(new, s.chan[n]) /\ SameTx(new, s.chan[n])
    BY <2>2 DEF SccChan, SameRing, SameTx
  <2> QED BY <2>1, <2>2, <2>3, FlagOK, DoneOK
<1>5. CASE \E val \in Wr15Values : WriteWR15(n, val)
  <2>1. PICK val \in Wr15Values, s \in Access(15) :
          Done(RaiseInt([s EXCEPT !.chan[n].wr15 = val], n), n)
    BY <1>5 DEF WriteWR15
  <2>2. StateOK(s) /\ s.chan[n] \in SccChan /\ val \in SUBSET ExtFlags
    BY AccessOK, StateFields, DriverAssumption DEF StateOK
  <2>3. LET new == [s.chan[n] EXCEPT !.wr15 = val]
        IN  new \in SccChan /\ SameRing(new, s.chan[n]) /\ SameTx(new, s.chan[n])
    BY <2>2 DEF SccChan, SameRing, SameTx
  <2>4. StateOK([s EXCEPT !.chan[n].wr15 = val])
    BY <2>2, <2>3, FlagOK
  <2>5. StateOK(RaiseInt([s EXCEPT !.chan[n].wr15 = val], n))
    BY <2>4, RaiseIntQuiet, QuietOK DEF StateOK
  <2> QED BY <2>1, <2>5, DoneOK
<1>6. CASE \E byte \in TxBytes : WriteData(n, byte)
  BY <1>6, WriteDataOK
<1>7. CASE WriteInert(n)
  BY <1>7, AccessOK, DoneOK DEF WriteInert
<1> QED BY <1>1, <1>2, <1>3, <1>4, <1>5, <1>6, <1>7 DEF Write

LEMMA ReadOK ==
  ASSUME StateOK(scc), NEW n \in Chan, Read(n)
  PROVE  StateOK(scc)'
<1>1. CASE ReadRR0(n)
  <2>1. PICK s \in Access(0) : Done([s EXCEPT !.chan[n].rr0Latched = NotLatched], n)
    BY <1>1 DEF ReadRR0
  <2>2. StateOK(s) /\ s.chan[n] \in SccChan
    BY AccessOK, StateFields DEF StateOK
  <2>3. LET new == [s.chan[n] EXCEPT !.rr0Latched = NotLatched]
        IN  new \in SccChan /\ SameRing(new, s.chan[n]) /\ SameTx(new, s.chan[n])
    BY <2>2 DEF SccChan, SameRing, SameTx, NotLatched
  <2> QED BY <2>1, <2>2, <2>3, FlagOK, DoneOK
<1>2. CASE ReadStatus(n)
  BY <1>2, AccessOK, DoneOK DEF ReadStatus
<1>3. CASE ReadData(n)
  <2>1. PICK s \in Access(8) : Done(CheckRxIntPending(ReadByte(s, n), n), n)
    BY <1>3 DEF ReadData
  <2>2. StateOK(ReadByte(s, n))
    BY AccessOK, ReadByteOK
  <2>3. StateOK(CheckRxIntPending(ReadByte(s, n), n))
    BY <2>2, CheckRxQuiet, QuietOK DEF StateOK
  <2> QED BY <2>1, <2>3, DoneOK
<1> QED BY <1>1, <1>2, <1>3 DEF Read

-----------------------------------------------------------------------------
(* Interrupts: what becomes pending is signalled, an EXT reason is only    *)
(* taken back by the acknowledge, and rr0Prev knows the line of the mouse. *)

Seen(ch) == ch.dcd <=> "DCD" \in ch.rr0Prev

\* An operation keeps the enables and the line, and rr0Prev right if it was.
Line(ch, new) == new.wr1 = ch.wr1 /\ new.dcd = ch.dcd /\ (Seen(ch) => Seen(new))

Tells(s, t) ==
  /\ t.irqs >= s.irqs
  /\ \A m \in Chan : Line(s.chan[m], t.chan[m])
  /\ \A p \in t.intpending \ s.intpending : t.chan[p[1]].wr1.ena => t.irqs > s.irqs
  /\ \A p \in s.intpending \ t.intpending : p[2] # "EXT"

SameLine(ch, new) == new.wr1 = ch.wr1 /\ new.dcd = ch.dcd /\ new.rr0Prev = ch.rr0Prev

LEMMA SameLineIs == ASSUME NEW ch, NEW new, SameLine(ch, new) PROVE Line(ch, new)
BY DEF SameLine, Line, Seen

LEMMA TellsSelf == ASSUME NEW s \in SccState PROVE Tells(s, s)
<1>1. s.irqs >= s.irqs
  <2>1. s.irqs \in Nat BY DEF SccState
  <2> QED BY <2>1
<1>2. \A m \in Chan : Line(s.chan[m], s.chan[m]) BY DEF Line
<1> QED BY <1>1, <1>2 DEF Tells

LEMMA TellsTrans ==
  ASSUME NEW s \in SccState, NEW t \in SccState, NEW u \in SccState, Tells(s, t), Tells(t, u)
  PROVE  Tells(s, u)
<1>1. s.irqs \in Nat /\ t.irqs \in Nat /\ u.irqs \in Nat BY DEF SccState
<1>2. u.irqs >= s.irqs BY <1>1 DEF Tells
<1>3. \A m \in Chan : Line(s.chan[m], u.chan[m]) BY DEF Tells, Line
<1>4. ASSUME NEW p \in u.intpending \ s.intpending, u.chan[p[1]].wr1.ena
      PROVE  u.irqs > s.irqs
  <2>1. p[1] \in Chan BY DEF SccState
  <2>2. u.chan[p[1]].wr1 = t.chan[p[1]].wr1 BY <2>1 DEF Tells, Line
  <2>3. CASE p \notin t.intpending
    <3>1. u.irqs > t.irqs BY <1>4, <2>3 DEF Tells
    <3> QED BY <1>1, <3>1 DEF Tells
  <2>4. CASE p \in t.intpending
    <3>1. t.irqs > s.irqs BY <1>4, <2>2, <2>4 DEF Tells
    <3> QED BY <1>1, <3>1 DEF Tells
  <2> QED BY <2>3, <2>4
<1>5. \A p \in s.intpending \ u.intpending : p[2] # "EXT" BY DEF Tells
<1> QED BY <1>2, <1>3, <1>4, <1>5 DEF Tells

LEMMA SetChanTells ==
  ASSUME NEW s \in SccState, NEW n \in Chan, NEW ch \in SccChan, SameLine(s.chan[n], ch)
  PROVE  /\ [s EXCEPT !.chan[n] = ch] \in SccState
         /\ Tells(s, [s EXCEPT !.chan[n] = ch])
<1> DEFINE t == [s EXCEPT !.chan[n] = ch]
<1>1. t \in SccState /\ t.chan[n] = ch /\ \A m \in Chan : m # n => t.chan[m] = s.chan[m]
  BY SetChan
<1>2. t.irqs = s.irqs /\ t.intpending = s.intpending /\ s.irqs \in Nat BY DEF SccState
<1> HIDE DEF t
<1>3. \A m \in Chan : Line(s.chan[m], t.chan[m]) BY <1>1, SameLineIs DEF Line
<1>4. t.irqs >= s.irqs BY <1>2
<1>5. Tells(s, t) BY <1>2, <1>3, <1>4 DEF Tells
<1> QED BY <1>1, <1>5 DEF t

\* RaiseInt after the pending reasons have got p, which may be another of this channel.
LEMMA RaiseTells ==
  ASSUME NEW s \in SccState, NEW n \in Chan, NEW p \in SUBSET (Chan \X {"EXT", "RX"}),
         \A r \in p \ s.intpending : r[1] = n,
         \A r \in s.intpending \ p : r[2] # "EXT"
  PROVE  /\ [s EXCEPT !.intpending = p] \in SccState
         /\ RaiseInt([s EXCEPT !.intpending = p], n) \in SccState
         /\ Tells(s, RaiseInt([s EXCEPT !.intpending = p], n))
<1> DEFINE mid == [s EXCEPT !.intpending = p]
           t == RaiseInt(mid, n)
<1>1. mid \in SccState /\ mid.intpending = p /\ mid.chan = s.chan /\ mid.irqs = s.irqs
  BY DEF SccState
<1>2. s.irqs \in Nat /\ s.chan[n].wr1.ena \in BOOLEAN
  BY StateFields DEF SccChan
<1> HIDE DEF mid
<1>3. t \in SccState /\ t.chan = s.chan BY <1>1, RaiseIntQuiet DEF Quiet
<1>4. t.intpending = p /\ t.irqs = s.irqs + (IF s.chan[n].wr1.ena THEN 1 ELSE 0)
  BY <1>1 DEF RaiseInt, SccState
<1> HIDE DEF t
<1>5. t.irqs >= s.irqs /\ (s.chan[n].wr1.ena => t.irqs > s.irqs)
  <2>1. CASE s.chan[n].wr1.ena
    <3>1. t.irqs = s.irqs + 1 BY <1>4, <2>1
    <3> QED BY <1>2, <3>1
  <2>2. CASE ~s.chan[n].wr1.ena
    <3>1. t.irqs = s.irqs + 0 BY <1>4, <2>2
    <3>2. t.irqs >= s.irqs BY <1>2, <3>1
    <3> QED BY <2>2, <3>2
  <2> QED BY <2>1, <2>2
<1>6. \A m \in Chan : Line(s.chan[m], t.chan[m]) BY <1>3 DEF Line
<1>7. Tells(s, t) BY <1>3, <1>4, <1>5, <1>6 DEF Tells
<1> QED BY <1>1, <1>3, <1>7 DEF mid, t

LEMMA OnlyRaiseTells ==
  ASSUME NEW s \in SccState, NEW n \in Chan
  PROVE  RaiseInt(s, n) \in SccState /\ Tells(s, RaiseInt(s, n))
<1>1. s.intpending \in SUBSET (Chan \X {"EXT", "RX"}) BY SccPendingType
<1>2. [s EXCEPT !.intpending = s.intpending] = s BY DEF SccState
<1>3. Tells(s, RaiseInt([s EXCEPT !.intpending = s.intpending], n)) BY <1>1, RaiseTells
<1> QED BY <1>2, <1>3, RaiseIntQuiet DEF Quiet

LEMMA CheckExtTells ==
  ASSUME NEW s \in SccState, NEW n \in Chan
  PROVE  /\ CheckExtInt(s, n) \in SccState /\ Tells(s, CheckExtInt(s, n))
         /\ Seen(CheckExtInt(s, n).chan[n])
<1> DEFINE ch == s.chan[n]
           rr0 == CalcRr0(ch)
           one == [ch EXCEPT !.rr0Prev = rr0]
           two == [one EXCEPT !.rr0Latched = rr0]
           seen == [s EXCEPT !.chan[n] = one]
           mid == [s EXCEPT !.chan[n] = two]
           p == s.intpending \cup {<<n, "EXT">>}
           last == [mid EXCEPT !.intpending = p]
<1>1. ch \in SccChan /\ rr0 \in SUBSET Rr0Flags
  BY StateFields, CalcRr0Type
<1>2. ch.dcd <=> "DCD" \in rr0 BY Zenon DEF CalcRr0
<1> HIDE DEF rr0
<1>3. one \in SccChan /\ one.rr0Prev = rr0 /\ one.wr1 = ch.wr1 /\ one.dcd = ch.dcd
  BY <1>1 DEF SccChan
<1>4. two \in SccChan /\ two.rr0Prev = rr0 /\ two.wr1 = ch.wr1 /\ two.dcd = ch.dcd
  BY <1>1 DEF SccChan
<1>5. Seen(one) /\ Seen(two) BY <1>2, <1>3, <1>4 DEF Seen
<1> HIDE DEF one, two
<1>6. ASSUME NEW new \in SccChan, Seen(new), new.wr1 = ch.wr1, new.dcd = ch.dcd
      PROVE  LET t == [s EXCEPT !.chan[n] = new] IN
             t \in SccState /\ Tells(s, t) /\ Seen(t.chan[n]) /\ t.intpending = s.intpending
  <2> DEFINE t == [s EXCEPT !.chan[n] = new]
  <2>1. t \in SccState /\ t.chan[n] = new /\ \A m \in Chan : m # n => t.chan[m] = s.chan[m]
    BY SetChan
  <2>2. t.irqs = s.irqs /\ t.intpending = s.intpending /\ s.irqs \in Nat BY DEF SccState
  <2> HIDE DEF t
  <2>3. \A m \in Chan : Line(s.chan[m], t.chan[m]) BY <1>6, <2>1 DEF Line
  <2>4. t.irqs >= s.irqs BY <2>2
  <2>5. Tells(s, t) BY <2>2, <2>3, <2>4 DEF Tells
  <2> QED BY <1>6, <2>1, <2>2, <2>5 DEF t
<1>7. seen \in SccState /\ Tells(s, seen) /\ Seen(seen.chan[n]) BY <1>3, <1>5, <1>6
<1>8. /\ mid \in SccState /\ Tells(s, mid) /\ Seen(mid.chan[n])
      /\ mid.intpending = s.intpending
  BY <1>4, <1>5, <1>6
<1> HIDE DEF seen, mid
<1>9. /\ RaiseInt(last, n) \in SccState /\ Tells(mid, RaiseInt(last, n))
      /\ RaiseInt(last, n).chan = mid.chan
  <2>1. p \in SUBSET (Chan \X {"EXT", "RX"}) BY StateFields
  <2>2. \A r \in p \ mid.intpending : r[1] = n BY <1>8
  <2>3. \A r \in mid.intpending \ p : r[2] # "EXT" BY <1>8
  <2> HIDE DEF p
  <2>4. last \in SccState /\ RaiseInt(last, n) \in SccState /\ Tells(mid, RaiseInt(last, n))
    BY <1>8, <2>1, <2>2, <2>3, RaiseTells
  <2>5. last.chan = mid.chan BY <1>8 DEF SccState
  <2> HIDE DEF last
  <2> QED BY <2>4, <2>5, RaiseIntQuiet
<1>10. Tells(s, RaiseInt(last, n)) BY <1>8, <1>9, TellsTrans
<1>11. CheckExtInt(s, n) \in {RaiseInt(last, n), seen}
  <2>1. [s EXCEPT !.chan[n].rr0Prev = rr0] = seen BY DEF seen, one
  <2>2. last = [seen EXCEPT !.chan[n].rr0Latched = rr0,
                            !.intpending = @ \cup {<<n, "EXT">>}]
    BY <1>1, <1>8 DEF last, mid, seen, one, two, SccState
  <2> QED BY <2>1, <2>2 DEF CheckExtInt, rr0
<1> QED BY <1>7, <1>8, <1>9, <1>10, <1>11

LEMMA CheckExtMarks ==
  ASSUME NEW s \in SccState, NEW n \in Chan,
         Changed(s.chan[n]) \cap s.chan[n].wr15 # {}
  PROVE  <<n, "EXT">> \in CheckExtInt(s, n).intpending
<1> DEFINE rr0 == CalcRr0(s.chan[n])
           seen == [s EXCEPT !.chan[n].rr0Prev = rr0]
           last == [seen EXCEPT !.chan[n].rr0Latched = rr0,
                                !.intpending = @ \cup {<<n, "EXT">>}]
<1>1. CASE <<n, "EXT">> \in s.intpending
  <2>1. CheckExtInt(s, n) = seen BY <1>1 DEF CheckExtInt
  <2>2. seen.intpending = s.intpending BY DEF SccState
  <2> QED BY <1>1, <2>1, <2>2
<1>2. CASE <<n, "EXT">> \notin s.intpending
  <2>1. CheckExtInt(s, n) = RaiseInt(last, n) BY <1>2 DEF CheckExtInt
  <2>2. last.intpending = s.intpending \cup {<<n, "EXT">>} BY DEF SccState
  <2> HIDE DEF last
  <2>3. RaiseInt(last, n).intpending = last.intpending BY DEF RaiseInt
  <2> QED BY <2>1, <2>2, <2>3
<1> QED BY <1>1, <1>2

LEMMA CheckRxTells ==
  ASSUME NEW s \in SccState, NEW n \in Chan
  PROVE  CheckRxIntPending(s, n) \in SccState /\ Tells(s, CheckRxIntPending(s, n))
<1> DEFINE ch == s.chan[n]
           b == ch.intOnNextRxChar /\ ~RxHasByte(ch)
           new == [ch EXCEPT !.intOnNextRxChar = b]
           pend == IF WantsRxInt(ch) THEN s.intpending \cup {<<n, "RX">>}
                                     ELSE s.intpending \ {<<n, "RX">>}
           mid == [s EXCEPT !.chan[n] = new]
           last == [mid EXCEPT !.intpending = pend]
<1>1. ch \in SccChan /\ s.intpending \in SUBSET (Chan \X {"EXT", "RX"}) BY StateFields
<1>2. b \in BOOLEAN BY Zenon
<1>3. /\ pend \in SUBSET (Chan \X {"EXT", "RX"})
      /\ \A r \in pend \ s.intpending : r[1] = n
      /\ \A r \in s.intpending \ pend : r[2] # "EXT"
  BY <1>1
<1>4. CheckRxIntPending(s, n)
        = RaiseInt([s EXCEPT !.intpending = pend,
                             !.chan[n].intOnNextRxChar = @ /\ ~RxHasByte(ch)], n)
  BY DEF CheckRxIntPending
<1> HIDE DEF pend
<1>5. last = [s EXCEPT !.intpending = pend, !.chan[n].intOnNextRxChar = @ /\ ~RxHasByte(ch)]
  BY DEF SccState
<1> HIDE DEF b
<1>6. new \in SccChan /\ SameLine(ch, new) BY <1>1, <1>2 DEF SccChan, SameLine
<1> HIDE DEF new
<1>7. mid \in SccState /\ Tells(s, mid) BY <1>6, SetChanTells
<1>8. mid.intpending = s.intpending BY DEF SccState
<1> HIDE DEF mid
<1>9. RaiseInt(last, n) \in SccState /\ Tells(mid, RaiseInt(last, n))
  BY <1>3, <1>7, <1>8, RaiseTells
<1> HIDE DEF last
<1> QED BY <1>4, <1>5, <1>7, <1>9, TellsTrans DEF last

LEMMA RingLine ==
  ASSUME NEW ch \in SccChan
  PROVE  /\ SameLine(ch, RxBufIgnoreRest(ch)) /\ SameLine(ch, RxBufTick(ch))
         /\ SameLine(ch, RxByte(ch))
         /\ \A frame, delay : SameLine(ch, SccRecv(ch, frame, delay))
<1>1. SameLine(ch, RxBufIgnoreRest(ch))
  BY DEF SameLine, RxBufIgnoreRest, SccChan
<1>2. SameLine(ch, RxBufTick(ch))
  BY DEF SameLine, RxBufTick, SccChan
<1>3. SameLine(ch, RxByte(ch))
  BY DEF SameLine, RxByte, RxBufIgnoreRest, SccChan
<1>4. ASSUME NEW frame, NEW delay PROVE SameLine(ch, SccRecv(ch, frame, delay))
  <2> DEFINE free == {k \in Buf : ch.rx[Slot(ch, k)].delay = Free}
             first == CHOOSE k \in free : \A j \in free : k <= j
             slot == Slot(ch, first)
             r == [delay |-> delay, len |-> frame.len + 2, dest |-> frame.dest]
  <2>1. SccRecv(ch, frame, delay) \in {ch, [ch EXCEPT !.rx[slot] = r]}
    BY DEF SccRecv
  <2> HIDE DEF slot, r
  <2>2. SameLine(ch, ch) /\ SameLine(ch, [ch EXCEPT !.rx[slot] = r])
    BY DEF SameLine, SccChan
  <2> QED BY <2>1, <2>2
<1> QED BY <1>1, <1>2, <1>3, <1>4

LEMMA TriggerRxTells ==
  ASSUME NEW s, StateOK(s), NEW n \in Chan
  PROVE  Tells(s, TriggerRx(s, n))
<1> DEFINE ch == s.chan[n]
           buf == ch.rx[ch.rxBufCur]
           one == [ch EXCEPT !.rxPos = 0]
           atStart == [s EXCEPT !.chan[n].rxPos = 0]
           p == s.intpending \cup {<<n, "EXT">>}
           marked == [atStart EXCEPT !.intpending = @ \cup {<<n, "EXT">>}]
           sync == IF "SYNC" \in ch.wr15 THEN RaiseInt(marked, n) ELSE atStart
           c == CheckRxIntPending(sync, n)
           two == [c.chan[n] EXCEPT !.hunting = FALSE]
           heard == [c EXCEPT !.chan[n] = two]
           three == [heard.chan[n] EXCEPT !.eofDelay = buf.len * 3]
           last == [heard EXCEPT !.chan[n] = three]
<1>1. s \in SccState /\ ch \in SccChan /\ ChanOK(ch)
  BY StateFields DEF StateOK
<1>2. CASE buf.dest \in {Broadcast, ch.sdlcaddr}
  <2>1. one \in SccChan /\ SameLine(ch, one) BY <1>1 DEF SccChan, SameLine
  <2>2. atStart \in SccState /\ Tells(s, atStart)
    <3>1. atStart = [s EXCEPT !.chan[n] = one] BY DEF one
    <3> HIDE DEF one, atStart
    <3> QED BY <1>1, <2>1, <3>1, SetChanTells
  <2>3. atStart.intpending = s.intpending /\ p \in SUBSET (Chan \X {"EXT", "RX"})
    BY <1>1, StateFields DEF SccState
  <2>4. TriggerRx(s, n) = [c EXCEPT !.chan[n].hunting = FALSE, !.chan[n].eofDelay = buf.len * 3]
    BY <1>2 DEF TriggerRx
  <2>4a. marked = [atStart EXCEPT !.intpending = p] BY <2>3
  <2> HIDE DEF atStart, one
  <2>5. \A r \in p \ atStart.intpending : r[1] = n BY <2>3
  <2>6. \A r \in atStart.intpending \ p : r[2] # "EXT" BY <2>3
  <2> HIDE DEF p
  <2>7. RaiseInt(marked, n) \in SccState /\ Tells(atStart, RaiseInt(marked, n))
    BY <2>2, <2>3, <2>4a, <2>5, <2>6, RaiseTells
  <2> HIDE DEF marked
  <2>8. Tells(s, RaiseInt(marked, n)) BY <1>1, <2>2, <2>7, TellsTrans
  <2>9. sync \in SccState /\ Tells(s, sync) BY <2>2, <2>7, <2>8
  <2> HIDE DEF sync
  <2>10. c \in SccState /\ Tells(sync, c) BY <2>9, CheckRxTells
  <2> HIDE DEF c
  <2>11. c.chan[n] \in SccChan /\ buf.len * 3 \in Nat
    BY <1>1, <2>10, StateFields, ChanFields
  <2>12. two \in SccChan /\ SameLine(c.chan[n], two) BY <2>11 DEF SccChan, SameLine
  <2>13. last = [c EXCEPT !.chan[n].hunting = FALSE, !.chan[n].eofDelay = buf.len * 3]
    BY <2>10
  <2> HIDE DEF two
  <2>14. heard \in SccState /\ Tells(c, heard) BY <2>10, <2>12, SetChanTells
  <2> HIDE DEF heard
  <2>15. heard.chan[n] \in SccChan BY <2>14, StateFields
  <2>16. three \in SccChan /\ SameLine(heard.chan[n], three)
    BY <2>11, <2>15 DEF SccChan, SameLine
  <2> HIDE DEF three
  <2>17. last \in SccState /\ Tells(heard, last) BY <2>14, <2>16, SetChanTells
  <2>18. TriggerRx(s, n) = last BY <2>4, <2>13
  <2> HIDE DEF last
  <2>19. Tells(s, c) BY <1>1, <2>9, <2>10, TellsTrans
  <2>20. Tells(s, heard) BY <1>1, <2>10, <2>14, <2>19, TellsTrans
  <2> QED BY <1>1, <2>14, <2>17, <2>18, <2>20, TellsTrans
<1>3. CASE buf.dest \notin {Broadcast, ch.sdlcaddr}
  <2>1. RxBufIgnoreRest(ch) \in SccChan BY <1>1, IgnoreRestOK DEF ChanOK, RingOK
  <2>2. TriggerRx(s, n) = [s EXCEPT !.chan[n] = RxBufIgnoreRest(ch)] BY <1>3 DEF TriggerRx
  <2> QED BY <1>1, <2>1, <2>2, RingLine, SetChanTells
<1> QED BY <1>2, <1>3

LEMMA TxFinishedTells ==
  ASSUME NEW s, NEW n \in Chan, RingsOK(s, n)
  PROVE  Tells(s, SccTxFinished(s, n))
<1> DEFINE data == s.chan[n].txData
           sent == LocaltalkSend(s, data)
           cts == [dest |-> data[1], len |-> 3]
           chB == SccRecv(s.chan[SCC_CHANB], cts, 3)
           replied == [s EXCEPT !.chan[SCC_CHANB] = chB]
           new == [sent.chan[n] EXCEPT !.txPos = 0]
<1>1. s \in SccState /\ SCC_CHANB \in Chan /\ s.chan[SCC_CHANB] \in SccChan
  BY StateFields DEF RingsOK, Chan
<1>2. cts \in [dest : Nat, len : Nat \ {0}]
  BY <1>1, DataFields
<1>3. chB \in SccChan /\ SameLine(s.chan[SCC_CHANB], chB)
  BY <1>1, <1>2, RecvOK, RingLine DEF RingsOK, RingOK
<1>4. sent \in {replied, s}
  BY DEF LocaltalkSend
<1> HIDE DEF chB
<1>5. replied \in SccState /\ Tells(s, replied) BY <1>1, <1>3, SetChanTells
<1>6. Tells(s, s) BY <1>1, TellsSelf
<1> HIDE DEF replied
<1>7. sent \in SccState /\ Tells(s, sent) BY <1>1, <1>4, <1>5, <1>6
<1> HIDE DEF sent
<1>8. new \in SccChan /\ SameLine(sent.chan[n], new)
  <2>1. 0 \in 0 .. MaxTx BY DriverAssumption
  <2>2. sent.chan[n] \in SccChan BY <1>7, StateFields
  <2> QED BY <2>1, <2>2 DEF SccChan, SameLine
<1>9. SccTxFinished(s, n) = [sent EXCEPT !.chan[n] = new] BY DEF SccTxFinished, sent, new
<1> HIDE DEF new
<1>10. [sent EXCEPT !.chan[n] = new] \in SccState /\ Tells(sent, [sent EXCEPT !.chan[n] = new])
  BY <1>7, <1>8, SetChanTells
<1> QED BY <1>1, <1>7, <1>9, <1>10, TellsTrans

LEMMA TxTickTells ==
  ASSUME NEW s, StateOK(s), NEW n \in Chan
  PROVE  Tells(s, TxTick(s, n))
<1> DEFINE ch == s.chan[n]
           t == Elapse(ch.txTimer)
           new == [ch EXCEPT !.txTimer = t]
           later == [s EXCEPT !.chan[n] = new]
<1>1. s \in SccState /\ ch \in SccChan /\ ChanOK(ch)
  BY StateFields DEF StateOK
<1>2. t \in Nat
  BY <1>1, ChanFields, ElapseType
<1>3. later = [s EXCEPT !.chan[n].txTimer = Elapse(@)]
  BY <1>1
<1> HIDE DEF t
<1>4. new \in SccChan /\ SameRing(new, ch) /\ SameLine(ch, new)
  BY <1>1, <1>2 DEF SccChan, SameRing, SameLine
<1>5. RingOK(new)
  BY <1>1, <1>4, SameRingOK DEF RingOK
<1> HIDE DEF new
<1>6. later \in SccState /\ Tells(s, later) BY <1>1, <1>4, SetChanTells
<1>7. RingsOK(later, n)
  BY <1>1, <1>4, <1>5, SetChan DEF RingsOK, StateOK, ChanOK
<1>8. TxTick(s, n) \in {SccTxFinished(later, n), later}
  BY <1>3 DEF TxTick
<1> HIDE DEF later
<1>9. SccTxFinished(later, n) \in SccState /\ Tells(later, SccTxFinished(later, n))
  BY <1>7, TxFinishedOK, TxFinishedTells DEF StateOK
<1> QED BY <1>1, <1>6, <1>8, <1>9, TellsTrans

LEMMA RxTickTells ==
  ASSUME NEW s, StateOK(s), NEW n \in Chan
  PROVE  Tells(s, RxTick(s, n))
<1> DEFINE later == [s EXCEPT !.chan[n] = RxBufTick(@)]
<1>1. s \in SccState /\ s.chan[n] \in SccChan /\ ChanOK(s.chan[n])
  BY StateFields DEF StateOK
<1>2. RxBufTick(s.chan[n]) \in SccChan BY <1>1, RxBufTickOK DEF ChanOK, RingOK
<1>3. later \in SccState /\ Tells(s, later) BY <1>1, <1>2, RingLine, SetChanTells
<1>4. StateOK(later)
  BY RxBufTickOK, SetChanOK DEF StateOK
<1>5. RxTick(s, n) \in {TriggerRx(later, n), later} BY DEF RxTick
<1> HIDE DEF later
<1>6. TriggerRx(later, n) \in SccState /\ Tells(later, TriggerRx(later, n))
  BY <1>4, TriggerRxOK, TriggerRxTells DEF StateOK
<1> QED BY <1>1, <1>3, <1>5, <1>6, TellsTrans

LEMMA EofTickTells ==
  ASSUME NEW s, StateOK(s), NEW n \in Chan
  PROVE  Tells(s, EofTick(s, n))
<1> DEFINE ch == s.chan[n]
           t == Elapse(ch.eofDelay)
           new == [ch EXCEPT !.eofDelay = t]
           later == [s EXCEPT !.chan[n] = new]
           p == s.intpending \cup {<<n, "RX">>}
           marked == [later EXCEPT !.intpending = p]
<1>1. s \in SccState /\ ch \in SccChan
  BY StateFields DEF StateOK
<1>2. t \in Nat
  BY <1>1, ElapseType DEF SccChan
<1>3. later = [s EXCEPT !.chan[n].eofDelay = Elapse(@)]
  BY <1>1
<1> HIDE DEF t
<1>4. new \in SccChan /\ SameLine(ch, new) BY <1>1, <1>2 DEF SccChan, SameLine
<1> HIDE DEF new
<1>5. later \in SccState /\ Tells(s, later) BY <1>1, <1>4, SetChanTells
<1>6. later.intpending = s.intpending BY <1>1 DEF SccState
<1>7. EofTick(s, n) \in {RaiseInt(marked, n), later}
  BY <1>3, <1>6 DEF EofTick
<1> HIDE DEF later
<1>8. /\ p \in SUBSET (Chan \X {"EXT", "RX"})
      /\ \A r \in p \ later.intpending : r[1] = n
      /\ \A r \in later.intpending \ p : r[2] # "EXT"
  BY <1>1, <1>6, StateFields
<1> HIDE DEF p
<1>9. RaiseInt(marked, n) \in SccState /\ Tells(later, RaiseInt(marked, n))
  BY <1>5, <1>8, RaiseTells
<1> QED BY <1>1, <1>5, <1>7, <1>9, TellsTrans

LEMMA AbortTickTells ==
  ASSUME NEW s, StateOK(s), NEW n \in Chan
  PROVE  Tells(s, AbortTick(s, n))
<1> DEFINE ch == s.chan[n]
           t == Elapse(ch.rxAbrtTimer)
           new == [ch EXCEPT !.rxAbrtTimer = t]
<1>1. s \in SccState /\ ch \in SccChan
  BY StateFields DEF StateOK
<1>2. t \in Nat
  BY <1>1, ElapseType DEF SccChan
<1>3. AbortTick(s, n) = [s EXCEPT !.chan[n] = new]
  BY <1>1 DEF AbortTick
<1> HIDE DEF t
<1>4. new \in SccChan /\ SameLine(ch, new) BY <1>1, <1>2 DEF SccChan, SameLine
<1> HIDE DEF new
<1> QED BY <1>1, <1>3, <1>4, SetChanTells

LEMMA TickChanTells ==
  ASSUME NEW s, StateOK(s), NEW n \in Chan
  PROVE  Tells(s, TickChan(s, n))
<1> DEFINE tx == TxTick(s, n)
           rx == RxTick(tx, n)
           eof == EofTick(rx, n)
           end == AbortTick(eof, n)
<1>1. TickChan(s, n) \in {CheckExtInt(end, n), end}
  BY DEF TickChan
<1>2. StateOK(tx) /\ Tells(s, tx) BY TxTickOK, TxTickTells
<1> HIDE DEF tx
<1>3. StateOK(rx) /\ Tells(tx, rx) BY <1>2, RxTickOK, RxTickTells
<1> HIDE DEF rx
<1>4. StateOK(eof) /\ Tells(rx, eof) BY <1>3, EofTickOK, EofTickTells
<1> HIDE DEF eof
<1>5. StateOK(end) /\ Tells(eof, end) BY <1>4, AbortTickOK, AbortTickTells
<1> HIDE DEF end
<1>6. CheckExtInt(end, n) \in SccState /\ Tells(end, CheckExtInt(end, n))
  BY <1>5, CheckExtTells DEF StateOK
<1>7. /\ s \in SccState /\ tx \in SccState /\ rx \in SccState /\ eof \in SccState
      /\ end \in SccState
  BY <1>2, <1>3, <1>4, <1>5 DEF StateOK
<1>8. Tells(s, rx) BY <1>2, <1>3, <1>7, TellsTrans
<1>9. Tells(s, eof) BY <1>4, <1>7, <1>8, TellsTrans
<1>10. Tells(s, end) BY <1>5, <1>7, <1>9, TellsTrans
<1>11. Tells(s, CheckExtInt(end, n)) BY <1>6, <1>7, <1>10, TellsTrans
<1> QED BY <1>1, <1>10, <1>11

LEMMA Wr0Tells ==
  ASSUME NEW s, StateOK(s), NEW n \in Chan, NEW ptr \in 0 .. 7, NEW low, NEW high
  PROVE  Tells(s, Wr0(s, n, ptr, low, high))
<1> DEFINE r == IF low = "point_high" THEN ptr + 8 ELSE ptr
           sel == [s EXCEPT !.regptr = r]
           mid == Wr0Low(sel, n, low)
           fin == SccTxFinished(sel, n)
           one == [sel.chan[n] EXCEPT !.rr0Latched = NotLatched]
           two == [sel.chan[n] EXCEPT !.intOnNextRxChar = TRUE]
           three == RxBufIgnoreRest(sel.chan[n])
           last == [mid.chan[n] EXCEPT !.txTimer = 10]
           Check(new) == CheckRxIntPending([sel EXCEPT !.chan[n] = new], n)
<1>1. sel \in SccState /\ sel.chan = s.chan /\ sel.intpending = s.intpending
      /\ sel.irqs = s.irqs
  BY DEF StateOK, SccState
<1>2. StateOK(sel)
  BY <1>1 DEF StateOK
<1>3. Tells(s, sel)
  <2>1. s.irqs \in Nat BY DEF StateOK, SccState
  <2>2. s.irqs >= s.irqs BY <2>1
  <2> HIDE DEF sel
  <2> QED BY <1>1, <2>2 DEF Tells, Line
<1>4. Wr0(s, n, ptr, low, high) = Wr0High(mid, n, high)
  BY DEF Wr0
<1> HIDE DEF sel
<1>5. sel.chan[n] \in SccChan /\ ChanOK(sel.chan[n])
  BY <1>2, StateFields DEF StateOK
<1>6. ASSUME NEW new \in SccChan, SameLine(sel.chan[n], new)
      PROVE  Check(new) \in SccState /\ Tells(sel, Check(new))
  <2> DEFINE t == [sel EXCEPT !.chan[n] = new]
  <2>1. t \in SccState /\ Tells(sel, t) BY <1>1, <1>6, SetChanTells
  <2> HIDE DEF t
  <2>2. CheckRxIntPending(t, n) \in SccState /\ Tells(t, CheckRxIntPending(t, n))
    BY <2>1, CheckRxTells
  <2> QED BY <1>1, <2>1, <2>2, TellsTrans DEF t
<1>7. one \in SccChan /\ SameLine(sel.chan[n], one) /\ two \in SccChan /\ SameLine(sel.chan[n], two)
  BY <1>5 DEF SccChan, SameLine, NotLatched
<1>8. three \in SccChan /\ SameLine(sel.chan[n], three)
  BY <1>5, RingLine, IgnoreRestOK DEF ChanOK, RingOK
<1>9. fin \in SccState /\ Tells(sel, fin)
  <2>1. RingsOK(sel, n)
    BY <1>2 DEF StateOK, RingsOK, ChanOK
  <2> QED BY <2>1, TxFinishedOK, TxFinishedTells DEF StateOK
<1>10. mid \in {[sel EXCEPT !.chan[n] = one], CheckRxIntPending(fin, n), Check(two), Check(three), sel}
  BY DEF Wr0Low
<1> HIDE DEF one, two, three, fin, mid
<1>11. [sel EXCEPT !.chan[n] = one] \in SccState /\ Tells(sel, [sel EXCEPT !.chan[n] = one])
  BY <1>1, <1>7, SetChanTells
<1>12. CheckRxIntPending(fin, n) \in SccState /\ Tells(sel, CheckRxIntPending(fin, n))
  BY <1>1, <1>9, CheckRxTells, TellsTrans
<1>13. Check(two) \in SccState /\ Tells(sel, Check(two)) BY <1>6, <1>7
<1>14. Check(three) \in SccState /\ Tells(sel, Check(three)) BY <1>6, <1>8
<1>15. mid \in SccState /\ Tells(sel, mid)
  <2>1. Tells(sel, sel) BY <1>1, TellsSelf
  <2> HIDE DEF Check
  <2> QED BY <1>1, <1>10, <1>11, <1>12, <1>13, <1>14, <2>1
<1>16. s \in SccState BY DEF StateOK
<1>17. Tells(s, mid) BY <1>1, <1>3, <1>15, <1>16, TellsTrans
<1>18. mid.chan[n] \in SccChan BY <1>15, StateFields
<1>19. last \in SccChan /\ SameLine(mid.chan[n], last) BY <1>18 DEF SccChan, SameLine
<1>20. Wr0High(mid, n, high) \in {[mid EXCEPT !.chan[n] = last], mid} BY DEF Wr0High
<1> HIDE DEF last
<1>21. [mid EXCEPT !.chan[n] = last] \in SccState /\ Tells(mid, [mid EXCEPT !.chan[n] = last])
  BY <1>15, <1>19, SetChanTells
<1>22. Tells(s, [mid EXCEPT !.chan[n] = last]) BY <1>15, <1>16, <1>17, <1>21, TellsTrans
<1> QED BY <1>4, <1>17, <1>20, <1>22

LEMMA ReadByteTells ==
  ASSUME NEW s, StateOK(s), NEW n \in Chan
  PROVE  Tells(s, ReadByte(s, n))
<1> DEFINE ch == s.chan[n]
           last == RxHasByte(ch) /\ RxBytesLeft(ch) = 1
           read == IF RxHasByte(ch) THEN RxByte(ch) ELSE ch
           abrt == IF last THEN 40 ELSE read.rxAbrtTimer
           new == [read EXCEPT !.rxEom = last, !.rxAbrtTimer = abrt]
<1>1. s \in SccState /\ ch \in SccChan
  BY StateFields DEF StateOK
<1>2. ReadByte(s, n) = [s EXCEPT !.chan[n] = new]
  BY DEF ReadByte
<1>3. StateOK([s EXCEPT !.chan[n] = new]) BY <1>2, ReadByteOK
<1>4. SameLine(ch, read)
  <2>1. SameLine(ch, ch) BY DEF SameLine
  <2> QED BY <1>1, <2>1, RingLine
<1> HIDE DEF last, abrt
<1>5. /\ new.wr1 = read.wr1 /\ new.dcd = read.dcd /\ new.rr0Prev = read.rr0Prev
  <2> HIDE DEF read
  <2> QED OBVIOUS
<1>6. SameLine(ch, new) BY <1>4, <1>5 DEF SameLine
<1> HIDE DEF new
<1>7. [s EXCEPT !.chan[n] = new] \in SccState BY <1>3 DEF StateOK
<1>8. new \in SccChan
  <2>1. [s EXCEPT !.chan[n] = new].chan[n] = new BY <1>1 DEF SccState
  <2> QED BY <1>7, <2>1, StateFields
<1> QED BY <1>1, <1>2, <1>6, <1>8, SetChanTells

\* The state an entry point works from, before it tells of anything.
Base(t) ==
  /\ t \in SccState /\ t.irqs = 0 /\ t.intpending = scc.intpending
  /\ \A m \in Chan : /\ t.chan[m].dcd = scc.chan[m].dcd
                     /\ t.chan[m].rr0Prev = scc.chan[m].rr0Prev

LEMMA CallBase == ASSUME StateOK(scc) PROVE Base(Call)
<1>1. /\ Call \in SccState /\ Call.irqs = 0 /\ Call.intpending = scc.intpending
      /\ Call.chan = scc.chan
  BY DEF StateOK, SccState, Call
<1> QED BY <1>1 DEF Base

LEMMA AccessBase == ASSUME StateOK(scc), NEW reg, NEW s \in Access(reg) PROVE Base(s)
<1> DEFINE reset == [Call EXCEPT !.regptr = 0]
<1>1. Base(Call) BY CallBase
<1>2. /\ reset \in SccState /\ reset.irqs = Call.irqs /\ reset.intpending = Call.intpending
      /\ reset.chan = Call.chan
  BY <1>1 DEF Base, SccState
<1>3. Base(reset) BY <1>1, <1>2 DEF Base
<1>4. s \in {reset, Call} BY Zenon DEF Access
<1> QED BY <1>1, <1>3, <1>4

LEMMA SetBase ==
  ASSUME NEW s, Base(s), NEW n \in Chan, NEW ch \in SccChan,
         ch.dcd = s.chan[n].dcd, ch.rr0Prev = s.chan[n].rr0Prev
  PROVE  Base([s EXCEPT !.chan[n] = ch])
<1> DEFINE t == [s EXCEPT !.chan[n] = ch]
<1>1. s \in SccState BY DEF Base
<1>2. t \in SccState /\ t.chan[n] = ch /\ \A m \in Chan : m # n => t.chan[m] = s.chan[m]
  BY <1>1, SetChan
<1>3. t.irqs = s.irqs /\ t.intpending = s.intpending BY <1>1 DEF SccState
<1> HIDE DEF t
<1>4. Base(t) BY <1>2, <1>3 DEF Base
<1> QED BY <1>4 DEF t

\* An access that starts at a base state and ends with checkExtInt.
LEMMA DoneTells ==
  ASSUME NEW t, Base(t), NEW u \in SccState, Tells(t, u), NEW n \in Chan, Done(u, n)
  PROVE  \E b : Base(b) /\ Tells(b, scc')
<1>1. CheckExtInt(u, n) \in SccState /\ Tells(u, CheckExtInt(u, n)) BY CheckExtTells
<1>2. Tells(t, CheckExtInt(u, n)) BY <1>1, TellsTrans DEF Base
<1> QED BY <1>2 DEF Done

LEMMA WriteTells ==
  ASSUME StateOK(scc), NEW n \in Chan, Write(n)
  PROVE  \E b : Base(b) /\ Tells(b, scc')
<1>1. ASSUME NEW reg, NEW s \in Access(reg), NEW ch \in SccChan,
             ch.dcd = s.chan[n].dcd, ch.rr0Prev = s.chan[n].rr0Prev
      PROVE  Base([s EXCEPT !.chan[n] = ch])
  BY <1>1, AccessBase, SetBase
<1>2. ASSUME NEW t, Base(t), Done(t, n)
      PROVE  \E b : Base(b) /\ Tells(b, scc')
  <2>1. t \in SccState BY <1>2 DEF Base
  <2> QED BY <1>2, <2>1, TellsSelf, DoneTells
<1>3. ASSUME NEW reg, NEW s \in Access(reg) PROVE s.chan[n] \in SccChan
  BY <1>3, AccessOK, StateFields DEF StateOK
<1>4. CASE \E ptr \in Pointers, low \in LowCmds, high \in HighCmds : WriteWR0(n, ptr, low, high)
  <2>1. PICK ptr \in Pointers, low \in LowCmds, high \in HighCmds, s \in Access(0) :
          Done(Wr0(s, n, ptr, low, high), n)
    BY <1>4 DEF WriteWR0
  <2>2. ptr \in 0 .. 7 BY DriverAssumption
  <2>3. StateOK(s) /\ Base(s) BY AccessOK, AccessBase
  <2>4. Wr0(s, n, ptr, low, high) \in SccState /\ Tells(s, Wr0(s, n, ptr, low, high))
    BY <2>2, <2>3, Wr0OK, Wr0Tells DEF StateOK
  <2> QED BY <2>1, <2>3, <2>4, DoneTells
<1>5. CASE \E val \in Wr1Values : WriteWR1(n, val)
  <2>1. PICK val \in Wr1Values, s \in Access(1) : Done([s EXCEPT !.chan[n].wr1 = val], n)
    BY <1>5 DEF WriteWR1
  <2> DEFINE ch == [s.chan[n] EXCEPT !.wr1 = val]
  <2>2. val \in [ena : BOOLEAN, mode : 0 .. 3] BY DriverAssumption
  <2>2a. s.chan[n] \in SccChan BY <1>3
  <2>3. ch \in SccChan /\ ch.dcd = s.chan[n].dcd /\ ch.rr0Prev = s.chan[n].rr0Prev
    BY <2>2, <2>2a DEF SccChan
  <2>4. Base([s EXCEPT !.chan[n] = ch]) BY <1>1, <2>3
  <2> QED BY <1>2, <2>1, <2>4
<1>6. CASE EnterHunt(n)
  <2>1. PICK s \in Access(3) : Done([s EXCEPT !.chan[n].hunting = TRUE], n)
    BY <1>6 DEF EnterHunt
  <2> DEFINE ch == [s.chan[n] EXCEPT !.hunting = TRUE]
  <2>1a. s.chan[n] \in SccChan BY <1>3
  <2>2. ch \in SccChan /\ ch.dcd = s.chan[n].dcd /\ ch.rr0Prev = s.chan[n].rr0Prev
    BY <2>1a DEF SccChan
  <2>3. Base([s EXCEPT !.chan[n] = ch]) BY <1>1, <2>2
  <2> QED BY <1>2, <2>1, <2>3
<1>7. CASE \E addr \in Addrs : WriteWR6(n, addr)
  <2>1. PICK addr \in Addrs, s \in Access(6) : Done([s EXCEPT !.chan[n].sdlcaddr = addr], n)
    BY <1>7 DEF WriteWR6
  <2> DEFINE ch == [s.chan[n] EXCEPT !.sdlcaddr = addr]
  <2>2. addr \in Nat BY DriverAssumption
  <2>2a. s.chan[n] \in SccChan BY <1>3
  <2>3. ch \in SccChan /\ ch.dcd = s.chan[n].dcd /\ ch.rr0Prev = s.chan[n].rr0Prev
    BY <2>2, <2>2a DEF SccChan
  <2>4. Base([s EXCEPT !.chan[n] = ch]) BY <1>1, <2>3
  <2> QED BY <1>2, <2>1, <2>4
<1>8. CASE \E val \in Wr15Values : WriteWR15(n, val)
  <2>1. PICK val \in Wr15Values, s \in Access(15) :
          Done(RaiseInt([s EXCEPT !.chan[n].wr15 = val], n), n)
    BY <1>8 DEF WriteWR15
  <2> DEFINE ch == [s.chan[n] EXCEPT !.wr15 = val]
             t == [s EXCEPT !.chan[n] = ch]
  <2>2. val \in SUBSET ExtFlags BY DriverAssumption
  <2>2a. s.chan[n] \in SccChan BY <1>3
  <2>3. ch \in SccChan /\ ch.dcd = s.chan[n].dcd /\ ch.rr0Prev = s.chan[n].rr0Prev
    BY <2>2, <2>2a DEF SccChan
  <2>4. Base(t) BY <1>1, <2>3
  <2>5. Done(RaiseInt(t, n), n) BY <2>1
  <2> HIDE DEF t
  <2>6. RaiseInt(t, n) \in SccState /\ Tells(t, RaiseInt(t, n))
    BY <2>4, OnlyRaiseTells DEF Base
  <2> QED BY <2>4, <2>5, <2>6, DoneTells
<1>9. CASE \E byte \in TxBytes : WriteData(n, byte)
  <2>1. PICK byte \in TxBytes, s \in Access(8) :
          Done([s EXCEPT !.chan[n].txData[s.chan[n].txPos] = byte,
                         !.chan[n].txPos = @ + 1, !.chan[n].txTimer = @ + 30], n)
    BY <1>9 DEF WriteData
  <2> DEFINE ch == [s.chan[n] EXCEPT !.txData[s.chan[n].txPos] = byte,
                                     !.txPos = @ + 1, !.txTimer = @ + 30]
  <2>2. ch.dcd = s.chan[n].dcd /\ ch.rr0Prev = s.chan[n].rr0Prev
    BY <1>3 DEF SccChan
  <2>3. ch \in SccChan
    <3>1. s.chan = scc.chan /\ scc.chan[n].txPos < MaxTx BY <1>9, AccessOK DEF WriteData
    <3>2. s.chan[n] \in SccChan BY <1>3
    <3>3. s.chan[n].txPos + 1 \in 0 .. MaxTx /\ s.chan[n].txTimer + 30 \in Nat
      BY <3>1, <3>2, ChanFields, DriverAssumption
    <3>4. [s.chan[n].txData EXCEPT ![s.chan[n].txPos] = byte] \in [0 .. MaxTx - 1 -> Nat]
      <4>1. byte \in Nat BY DriverAssumption
      <4>2. s.chan[n].txData \in [0 .. MaxTx - 1 -> Nat] BY <3>2 DEF SccChan
      <4> QED BY <4>1, <4>2
    <3> QED BY <3>2, <3>3, <3>4 DEF SccChan
  <2>4. Base([s EXCEPT !.chan[n] = ch]) BY <1>1, <2>2, <2>3
  <2>5. s \in SccState BY AccessBase DEF Base
  <2>6. [s EXCEPT !.chan[n] = ch]
          = [s EXCEPT !.chan[n].txData[s.chan[n].txPos] = byte,
                      !.chan[n].txPos = @ + 1, !.chan[n].txTimer = @ + 30]
    BY <2>5 DEF SccState
  <2> QED BY <1>2, <2>1, <2>4, <2>6
<1>10. CASE WriteInert(n)
  BY <1>2, <1>10, AccessBase DEF WriteInert
<1> QED BY <1>4, <1>5, <1>6, <1>7, <1>8, <1>9, <1>10 DEF Write

LEMMA ReadTells ==
  ASSUME StateOK(scc), NEW n \in Chan, Read(n)
  PROVE  \E b : Base(b) /\ Tells(b, scc')
<1>1. ASSUME NEW t, Base(t), Done(t, n)
      PROVE  \E b : Base(b) /\ Tells(b, scc')
  <2>1. t \in SccState BY <1>1 DEF Base
  <2> QED BY <1>1, <2>1, TellsSelf, DoneTells
<1>2. CASE ReadRR0(n)
  <2>1. PICK s \in Access(0) : Done([s EXCEPT !.chan[n].rr0Latched = NotLatched], n)
    BY <1>2 DEF ReadRR0
  <2> DEFINE ch == [s.chan[n] EXCEPT !.rr0Latched = NotLatched]
  <2>2. s.chan[n] \in SccChan BY AccessOK, StateFields DEF StateOK
  <2>3. ch \in SccChan /\ ch.dcd = s.chan[n].dcd /\ ch.rr0Prev = s.chan[n].rr0Prev
    BY <2>2 DEF SccChan, NotLatched
  <2>4. Base([s EXCEPT !.chan[n] = ch]) BY <2>3, AccessBase, SetBase
  <2> QED BY <1>1, <2>1, <2>4
<1>3. CASE ReadStatus(n)
  BY <1>1, <1>3, AccessBase DEF ReadStatus
<1>4. CASE ReadData(n)
  <2>1. PICK s \in Access(8) : Done(CheckRxIntPending(ReadByte(s, n), n), n)
    BY <1>4 DEF ReadData
  <2>2. Base(s) /\ StateOK(s) BY AccessOK, AccessBase
  <2>3. ReadByte(s, n) \in SccState /\ Tells(s, ReadByte(s, n))
    BY <2>2, ReadByteOK, ReadByteTells DEF StateOK
  <2>4. LET u == CheckRxIntPending(ReadByte(s, n), n) IN u \in SccState /\ Tells(ReadByte(s, n), u)
    BY <2>3, CheckRxTells
  <2>5. Tells(s, CheckRxIntPending(ReadByte(s, n), n))
    BY <2>2, <2>3, <2>4, TellsTrans DEF Base
  <2> QED BY <2>1, <2>2, <2>4, <2>5, DoneTells
<1> QED BY <1>2, <1>3, <1>4 DEF Read

\* Every entry point but the mouse's and the acknowledge.
LEMMA StepTells ==
  ASSUME StateOK(scc),
         SccTick \/ Link \/ \E n \in DriverChans : Write(n) \/ Read(n) \/ Exit(n)
  PROVE  \E b : Base(b) /\ Tells(b, scc')
<1>1. CASE SccTick
  <2> DEFINE a == TickChan(Call, SCC_CHANA)
  <2>1. SCC_CHANA \in Chan /\ SCC_CHANB \in Chan BY DEF Chan
  <2>2. StateOK(Call) /\ Base(Call) BY CallOK, CallBase
  <2>3. StateOK(a) /\ Tells(Call, a) BY <2>1, <2>2, TickChanOK, TickChanTells
  <2>4. scc' = TickChan(a, SCC_CHANB) BY <1>1 DEF SccTick
  <2> HIDE DEF a
  <2>5. StateOK(TickChan(a, SCC_CHANB)) /\ Tells(a, TickChan(a, SCC_CHANB))
    BY <2>1, <2>3, TickChanOK, TickChanTells
  <2>6. Tells(Call, TickChan(a, SCC_CHANB)) BY <2>2, <2>3, <2>5, TellsTrans DEF StateOK
  <2> QED BY <2>2, <2>4, <2>6
<1>2. CASE Link
  <2>1. PICK n \in LinkChans, frame \in LinkFrames, delay \in LinkDelays :
          scc' = [Call EXCEPT !.chan[n] = SccRecv(@, frame, delay)]
    BY <1>2 DEF Link, LinkRecv
  <2> DEFINE ch == SccRecv(Call.chan[n], frame, delay)
  <2>2. n \in Chan /\ frame \in [dest : Nat, len : Nat \ {0}] /\ delay \in Nat \ {0}
    BY LinkAssumption
  <2>3. ChanOK(Call.chan[n]) /\ Call.chan[n] \in SccChan
    BY <2>2, CallOK, StateFields DEF StateOK
  <2>4. ch \in SccChan /\ SameLine(Call.chan[n], ch)
    BY <2>2, <2>3, RecvOK, RingLine DEF ChanOK, RingOK
  <2> HIDE DEF ch
  <2>5. Base([Call EXCEPT !.chan[n] = ch])
    BY <2>2, <2>4, CallBase, SetBase DEF SameLine
  <2>6. scc' = [Call EXCEPT !.chan[n] = ch] BY <2>1 DEF ch
  <2>7. Base(scc') BY <2>5, <2>6
  <2>8. Tells(scc', scc') BY <2>7, TellsSelf DEF Base
  <2> QED BY <2>7, <2>8
<1>3. ASSUME NEW n \in DriverChans, Exit(n)
      PROVE  \E b : Base(b) /\ Tells(b, scc')
  <2>1. scc' = [scc EXCEPT !.exited = TRUE, !.irqs = 0]
    BY <1>3 DEF Exit
  <2>2. /\ scc' \in SccState /\ scc'.chan = scc.chan /\ scc'.irqs = 0
        /\ scc'.intpending = scc.intpending
    BY <2>1 DEF StateOK, SccState
  <2>3. Base(scc') BY <2>2 DEF Base
  <2>4. Tells(scc', scc') BY <2>2, TellsSelf
  <2> QED BY <2>3, <2>4
<1>4. \A n \in DriverChans : n \in Chan BY DriverAssumption
<1> QED BY <1>1, <1>2, <1>3, <1>4, WriteTells, ReadTells

LEMMA RaiseRemainingTells ==
  ASSUME NEW u \in SccState, NEW n \in Chan
  PROVE  LET a == RaiseRemaining(u, n)
         IN  /\ a \in SccState /\ Tells(u, a)
             /\ a.intpending = u.intpending /\ a.chan = u.chan
             /\ (\E q \in u.intpending : q[1] = n) /\ u.chan[n].wr1.ena => a.irqs > u.irqs
<1> DEFINE r == RaiseInt(u, n)
<1>1. r \in SccState /\ Tells(u, r) /\ r.chan = u.chan BY OnlyRaiseTells, RaiseIntQuiet
<1>2. r.intpending = u.intpending /\ r.irqs = u.irqs + (IF u.chan[n].wr1.ena THEN 1 ELSE 0)
  BY DEF RaiseInt, SccState
<1>3. u.irqs \in Nat /\ Tells(u, u) BY TellsSelf DEF SccState
<1> HIDE DEF r
<1>4. u.chan[n].wr1.ena => r.irqs > u.irqs
  <2> SUFFICES ASSUME u.chan[n].wr1.ena PROVE r.irqs > u.irqs OBVIOUS
  <2>1. r.irqs = u.irqs + 1 BY <1>2
  <2> QED BY <1>3, <2>1
<1>5. CASE \E q \in u.intpending : q[1] = n
  <2>1. RaiseRemaining(u, n) = r BY <1>5 DEF RaiseRemaining, r
  <2> QED BY <1>1, <1>2, <1>4, <2>1
<1>6. CASE ~\E q \in u.intpending : q[1] = n
  <2>1. RaiseRemaining(u, n) = u BY <1>6 DEF RaiseRemaining
  <2> QED BY <1>3, <1>6, <2>1
<1> QED BY <1>5, <1>6

\* The acknowledge takes back one reason at most and raises for all the others.
LEMMA AckTells ==
  ASSUME StateOK(scc), IntAck
  PROVE  /\ \E t \in SccState : \E p :
              /\ t.irqs = 0 /\ t.chan = scc.chan
              /\ t.intpending \subseteq scc.intpending
              /\ scc.intpending \ {p} \subseteq t.intpending
              /\ Tells(t, scc')
         /\ (\E q \in scc'.intpending : scc'.chan[q[1]].wr1.ena) => scc'.irqs > 0
<1>1. PICK s \in Access(2) :
        Done(RaiseRemaining(RaiseRemaining(TakeReason(s), SCC_CHANA), SCC_CHANB), SCC_CHANB)
  BY DEF IntAck
<1> DEFINE u == TakeReason(s)
           a == RaiseRemaining(u, SCC_CHANA)
           b == RaiseRemaining(a, SCC_CHANB)
           Taken == \E t \in SccState : \E p :
                      /\ t.irqs = 0 /\ t.chan = scc.chan
                      /\ t.intpending \subseteq scc.intpending
                      /\ scc.intpending \ {p} \subseteq t.intpending
                      /\ Tells(t, u) /\ u \in SccState
<1>2. /\ s \in SccState /\ s.irqs = 0 /\ s.intpending = scc.intpending
      /\ s.chan = scc.chan /\ SCC_CHANA \in Chan /\ SCC_CHANB \in Chan
  BY AccessOK, AccessBase DEF Base, Chan
<1>3. Taken
  <2>1. CASE u = s
    <3>1. Tells(s, u) /\ u \in SccState BY <1>2, <2>1, TellsSelf
    <3> QED BY <1>2, <3>1
  <2>2. ASSUME NEW n \in Chan, u = CheckRxIntPending(s, n) PROVE Taken
    <3>1. Tells(s, u) /\ u \in SccState BY <1>2, <2>2, CheckRxTells
    <3> QED BY <1>2, <3>1
  <2>3. ASSUME NEW p, u = [s EXCEPT !.intpending = @ \ {p}] PROVE Taken
    <3>1. u \in SccState /\ u.irqs = 0 /\ u.chan = s.chan /\ u.intpending = s.intpending \ {p}
      BY <1>2, <2>3 DEF SccState
    <3> HIDE DEF u
    <3>2. Tells(u, u) BY <3>1, TellsSelf
    <3> QED BY <1>2, <3>1, <3>2
  <2> QED BY <1>2, <2>1, <2>2, <2>3, TakenReason
<1>4. scc' = CheckExtInt(b, SCC_CHANB) BY <1>1 DEF Done
<1> HIDE DEF u
<1>5. u \in SccState BY <1>3
<1>6. /\ a \in SccState /\ Tells(u, a) /\ a.intpending = u.intpending /\ a.chan = u.chan
      /\ (\E q \in u.intpending : q[1] = SCC_CHANA) /\ u.chan[SCC_CHANA].wr1.ena
           => a.irqs > u.irqs
  BY <1>2, <1>5, RaiseRemainingTells
<1> HIDE DEF a
<1>7. /\ b \in SccState /\ Tells(a, b) /\ b.intpending = a.intpending /\ b.chan = a.chan
      /\ (\E q \in a.intpending : q[1] = SCC_CHANB) /\ a.chan[SCC_CHANB].wr1.ena
           => b.irqs > a.irqs
  BY <1>2, <1>6, RaiseRemainingTells
<1> HIDE DEF b
<1>8. scc' \in SccState /\ Tells(b, scc') BY <1>2, <1>4, <1>7, CheckExtTells
<1>9. Tells(u, b) /\ Tells(u, scc')
  <2>1. Tells(u, b) BY <1>5, <1>6, <1>7, TellsTrans
  <2> QED BY <2>1, <1>5, <1>7, <1>8, TellsTrans
<1>10. \E t \in SccState : \E p :
         /\ t.irqs = 0 /\ t.chan = scc.chan
         /\ t.intpending \subseteq scc.intpending
         /\ scc.intpending \ {p} \subseteq t.intpending
         /\ Tells(t, scc')
  BY <1>3, <1>5, <1>8, <1>9, TellsTrans
<1>11. ASSUME NEW q \in scc'.intpending, scc'.chan[q[1]].wr1.ena
       PROVE  scc'.irqs > 0
  <2>1. q[1] \in Chan /\ u.irqs \in Nat /\ a.irqs \in Nat /\ b.irqs \in Nat /\ scc'.irqs \in Nat
    BY <1>5, <1>6, <1>7, <1>8 DEF SccState
  <2>2. b.chan[q[1]].wr1 = scc'.chan[q[1]].wr1 BY <1>8, <2>1 DEF Tells, Line
  <2>3. scc'.irqs >= b.irqs /\ b.irqs >= a.irqs /\ a.irqs >= u.irqs
    BY <1>6, <1>7, <1>8 DEF Tells
  <2>4. CASE q \notin b.intpending
    <3>1. scc'.irqs > b.irqs BY <1>8, <1>11, <2>4 DEF Tells
    <3> QED BY <2>1, <3>1
  <2>5. CASE q \in b.intpending /\ q[1] = SCC_CHANA
    <3>1. a.irqs > u.irqs BY <1>6, <1>7, <1>11, <2>2, <2>5
    <3> QED BY <2>1, <2>3, <3>1
  <2>6. CASE q \in b.intpending /\ q[1] = SCC_CHANB
    <3>1. b.irqs > a.irqs BY <1>7, <1>11, <2>2, <2>6
    <3> QED BY <2>1, <2>3, <3>1
  <2> QED BY <2>1, <2>4, <2>5, <2>6 DEF Chan
<1> QED BY <1>10, <1>11

\* sccSetDcd: a moved line is a changed condition.
LEMMA MouseTells ==
  ASSUME StateOK(scc), \A m \in Chan : Seen(scc.chan[m]), Mouse
  PROVE  /\ \E t \in SccState :
              /\ t.irqs = 0 /\ t.intpending = scc.intpending
              /\ Tells(t, scc')
         /\ \A m \in Chan : /\ Seen(scc'.chan[m])
                            /\ scc'.chan[m].dcd # scc.chan[m].dcd /\ "DCD" \in scc.chan[m].wr15
                                 => <<m, "EXT">> \in scc'.intpending
<1>1. PICK n \in DcdChans, val \in BOOLEAN :
        scc' = CheckExtInt([Call EXCEPT !.chan[n].dcd = val], n)
  BY DEF Mouse, SccSetDcd
<1> DEFINE old == Call.chan[n]
           ch == [old EXCEPT !.dcd = val]
           t == [Call EXCEPT !.chan[n] = ch]
<1>2. n \in Chan BY DriverAssumption
<1>3. /\ Call \in SccState /\ Call.irqs = 0 /\ Call.intpending = scc.intpending
      /\ Call.chan = scc.chan /\ old \in SccChan
  BY <1>2, CallOK, CallBase, StateFields DEF Base
<1>4. /\ ch \in SccChan /\ ch.dcd = val /\ ch.rr0Prev = old.rr0Prev /\ ch.wr15 = old.wr15
  <2> HIDE DEF old
  <2> QED BY <1>3 DEF SccChan
<1>5. scc' = CheckExtInt(t, n) BY <1>1
<1> HIDE DEF ch
<1>6. /\ t \in SccState /\ t.chan[n] = ch
      /\ \A m \in Chan : m # n => t.chan[m] = Call.chan[m]
  BY <1>2, <1>3, <1>4, SetChan
<1>7. t.irqs = 0 /\ t.intpending = scc.intpending BY <1>3 DEF SccState
<1> HIDE DEF t
<1>8. scc' \in SccState /\ Tells(t, scc') /\ Seen(scc'.chan[n])
  BY <1>2, <1>5, <1>6, CheckExtTells
<1>9. ASSUME NEW m \in Chan, m # n
      PROVE  Seen(scc'.chan[m]) /\ scc'.chan[m].dcd = scc.chan[m].dcd
  <2>1. t.chan[m] = scc.chan[m] BY <1>3, <1>6, <1>9
  <2> QED BY <1>8, <2>1 DEF Tells, Line
<1>10. ASSUME scc'.chan[n].dcd # scc.chan[n].dcd, "DCD" \in scc.chan[n].wr15
       PROVE  <<n, "EXT">> \in scc'.intpending
  <2>1. scc'.chan[n].dcd = val BY <1>2, <1>4, <1>6, <1>8 DEF Tells, Line
  <2>2. old = scc.chan[n] /\ Seen(old) BY <1>2, <1>3
  <2>3. "DCD" \in CalcRr0(ch) <=> ch.dcd BY Zenon DEF CalcRr0
  <2>4. "DCD" \in old.rr0Prev <=> old.dcd BY <2>2 DEF Seen
  <2>5. val # old.dcd /\ val \in BOOLEAN /\ old.dcd \in BOOLEAN
    BY <1>3, <1>10, <2>1, <2>2 DEF SccChan
  <2>6. "DCD" \in Changed(ch)
    <3>1. ("DCD" \in CalcRr0(ch)) <=> val BY <1>4, <2>3
    <3>2. ("DCD" \in ch.rr0Prev) <=> old.dcd BY <1>4, <2>4
    <3>3. val <=> ~old.dcd BY <2>5
    <3> QED BY <3>1, <3>2, <3>3, Zenon DEF Changed
  <2>7. "DCD" \in Changed(t.chan[n]) \cap t.chan[n].wr15
    BY <1>4, <1>6, <1>10, <2>2, <2>6
  <2> QED BY <1>2, <1>5, <1>6, <2>7, CheckExtMarks
<1> QED BY <1>6, <1>7, <1>8, <1>9, <1>10

-----------------------------------------------------------------------------
(* Reception: a byte that comes up for reading has its RX interrupt.       *)

\* A byte for this node waits, and every byte is to interrupt.
Waits(ch) ==
  /\ RxHasByte(ch) /\ ch.wr1.mode = 2
  /\ ch.rx[ch.rxBufCur].dest \in {Broadcast, ch.sdlcaddr}

\* A byte waits in t with its interrupt pending, or waited in s already.
Hears(s, t) ==
  \A m \in Chan : Waits(t.chan[m]) =>
    \/ <<m, "RX">> \in t.intpending
    \/ /\ Waits(s.chan[m]) /\ t.chan[m].rxPos = s.chan[m].rxPos
       /\ <<m, "RX">> \notin s.intpending

LEMMA HearsTrans ==
  ASSUME NEW s, NEW t, NEW u, Hears(s, t), Hears(t, u) PROVE Hears(s, u)
BY DEF Hears

SameHead(ch, new) ==
  /\ new.rx = ch.rx /\ new.rxBufCur = ch.rxBufCur /\ new.rxPos = ch.rxPos
  /\ new.wr1 = ch.wr1 /\ new.sdlcaddr = ch.sdlcaddr

LEMMA SameHeadWaits ==
  ASSUME NEW ch, NEW new, SameHead(ch, new) PROVE Waits(new) <=> Waits(ch)
BY DEF SameHead, Waits, RxHasByte

\* No byte for this node comes up between ch and new.
HeadStays(ch, new) == Waits(new) => Waits(ch) /\ new.rxPos = ch.rxPos

LEMMA SameHeadStays ==
  ASSUME NEW ch, NEW new, SameHead(ch, new) PROVE HeadStays(ch, new)
BY SameHeadWaits DEF SameHead, HeadStays

LEMMA SameHeadHears ==
  ASSUME NEW s, NEW t, \A m \in Chan : SameHead(s.chan[m], t.chan[m]),
         s.intpending \subseteq t.intpending
  PROVE  Hears(s, t)
BY SameHeadWaits DEF Hears, SameHead

LEMMA SetChanHears ==
  ASSUME NEW s \in SccState, NEW n \in Chan, NEW ch \in SccChan,
         HeadStays(s.chan[n], ch)
  PROVE  /\ [s EXCEPT !.chan[n] = ch] \in SccState
         /\ Hears(s, [s EXCEPT !.chan[n] = ch])
<1> DEFINE t == [s EXCEPT !.chan[n] = ch]
<1>1. t \in SccState /\ t.chan[n] = ch /\ \A m \in Chan : m # n => t.chan[m] = s.chan[m]
  BY SetChan
<1>2. t.intpending = s.intpending BY DEF SccState
<1> HIDE DEF t
<1>3. ASSUME NEW m \in Chan, Waits(t.chan[m]), <<m, "RX">> \notin t.intpending
      PROVE  /\ Waits(s.chan[m]) /\ t.chan[m].rxPos = s.chan[m].rxPos
             /\ <<m, "RX">> \notin s.intpending
  <2>1. CASE m = n BY <1>1, <1>2, <1>3, <2>1 DEF HeadStays
  <2>2. CASE m # n BY <1>1, <1>2, <1>3, <2>2
  <2> QED BY <2>1, <2>2
<1>4. Hears(s, t) BY <1>3 DEF Hears
<1> QED BY <1>1, <1>4 DEF t

LEMMA RaiseHears ==
  ASSUME NEW s \in SccState, NEW n \in Chan, NEW p \in SUBSET (Chan \X {"EXT", "RX"}),
         s.intpending \subseteq p
  PROVE  LET t == RaiseInt([s EXCEPT !.intpending = p], n)
         IN  t \in SccState /\ Hears(s, t) /\ t.chan = s.chan
<1> DEFINE mid == [s EXCEPT !.intpending = p]
           t == RaiseInt(mid, n)
<1>1. mid \in SccState /\ mid.intpending = p /\ mid.chan = s.chan
  BY DEF SccState
<1> HIDE DEF mid
<1>2. t \in SccState /\ t.chan = s.chan BY <1>1, RaiseIntQuiet DEF Quiet
<1>3. t.intpending = p BY <1>1 DEF RaiseInt, SccState
<1> HIDE DEF t
<1>4. Hears(s, t) BY <1>2, <1>3, SameHeadHears DEF SameHead
<1> QED BY <1>2, <1>4 DEF t, mid

\* Whatever was done to channel n, checkRxIntPending makes up for it.
LEMMA CheckRxHears ==
  ASSUME NEW s \in SccState, NEW u \in SccState, NEW n \in Chan,
         \A m \in Chan \ {n} : HeadStays(s.chan[m], u.chan[m]),
         \A m \in Chan \ {n} : <<m, "RX">> \in s.intpending => <<m, "RX">> \in u.intpending
  PROVE  CheckRxIntPending(u, n) \in SccState /\ Hears(s, CheckRxIntPending(u, n))
<1> DEFINE ch == u.chan[n]
           b == ch.intOnNextRxChar /\ ~RxHasByte(ch)
           new == [ch EXCEPT !.intOnNextRxChar = b]
           pend == IF WantsRxInt(ch) THEN u.intpending \cup {<<n, "RX">>}
                                     ELSE u.intpending \ {<<n, "RX">>}
           mid == [u EXCEPT !.chan[n] = new]
           last == [mid EXCEPT !.intpending = pend]
           t == CheckRxIntPending(u, n)
<1>1. ch \in SccChan /\ u.intpending \in SUBSET (Chan \X {"EXT", "RX"}) BY StateFields
<1>2. b \in BOOLEAN BY Zenon
<1>3. /\ pend \in SUBSET (Chan \X {"EXT", "RX"})
      /\ \A m \in Chan \ {n} : <<m, "RX">> \in u.intpending => <<m, "RX">> \in pend
  BY <1>1
<1>4. Waits(ch) => <<n, "RX">> \in pend
  <2>1. Waits(ch) => WantsRxInt(ch) BY DEF Waits, WantsRxInt
  <2> QED BY <2>1
<1>5. t = RaiseInt([u EXCEPT !.intpending = pend,
                             !.chan[n].intOnNextRxChar = @ /\ ~RxHasByte(ch)], n)
  BY DEF CheckRxIntPending
<1> HIDE DEF pend
<1>6. last = [u EXCEPT !.intpending = pend, !.chan[n].intOnNextRxChar = @ /\ ~RxHasByte(ch)]
  BY DEF SccState
<1> HIDE DEF b
<1>7. new \in SccChan /\ SameHead(ch, new) BY <1>1, <1>2 DEF SccChan, SameHead
<1> HIDE DEF new
<1>8. mid \in SccState /\ mid.chan[n] = new /\ \A m \in Chan : m # n => mid.chan[m] = u.chan[m]
  BY <1>7, SetChan
<1> HIDE DEF mid
<1>9. last \in SccState /\ last.chan = mid.chan /\ last.intpending = pend
  BY <1>3, <1>8 DEF SccState
<1> HIDE DEF last
<1>10. t \in SccState /\ t.chan = mid.chan /\ t.intpending = pend
  <2>1. t = RaiseInt(last, n) BY <1>5, <1>6
  <2>2. t \in SccState /\ t.chan = last.chan BY <1>9, <2>1, RaiseIntQuiet DEF Quiet
  <2>3. t.intpending = last.intpending BY <1>9, <2>1 DEF RaiseInt, SccState
  <2> QED BY <1>9, <2>2, <2>3
<1> HIDE DEF t
<1>11. ASSUME NEW m \in Chan, Waits(t.chan[m]), <<m, "RX">> \notin t.intpending
       PROVE  /\ Waits(s.chan[m]) /\ t.chan[m].rxPos = s.chan[m].rxPos
              /\ <<m, "RX">> \notin s.intpending
  <2>1. CASE m = n BY <1>4, <1>7, <1>8, <1>10, <1>11, <2>1, SameHeadWaits
  <2>2. CASE m # n
    <3>1. t.chan[m] = u.chan[m] /\ HeadStays(s.chan[m], u.chan[m]) BY <1>8, <1>10, <2>2
    <3>2. <<m, "RX">> \notin s.intpending BY <1>3, <1>10, <1>11, <2>2
    <3> QED BY <1>11, <3>1, <3>2 DEF HeadStays
  <2> QED BY <2>1, <2>2
<1>12. Hears(s, t) BY <1>11 DEF Hears
<1> QED BY <1>10, <1>12 DEF t

LEMMA CheckExtHears ==
  ASSUME NEW s \in SccState, NEW n \in Chan
  PROVE  CheckExtInt(s, n) \in SccState /\ Hears(s, CheckExtInt(s, n))
<1> DEFINE ch == s.chan[n]
           rr0 == CalcRr0(ch)
           one == [ch EXCEPT !.rr0Prev = rr0]
           two == [one EXCEPT !.rr0Latched = rr0]
           seen == [s EXCEPT !.chan[n] = one]
           mid == [s EXCEPT !.chan[n] = two]
           p == s.intpending \cup {<<n, "EXT">>}
           last == [mid EXCEPT !.intpending = p]
<1>1. ch \in SccChan /\ rr0 \in SUBSET Rr0Flags /\ p \in SUBSET (Chan \X {"EXT", "RX"})
  BY StateFields, CalcRr0Type
<1>2. CheckExtInt(s, n) \in {RaiseInt(last, n), seen}
  <2>1. [s EXCEPT !.chan[n].rr0Prev = rr0] = seen BY DEF seen, one
  <2>2. last = [seen EXCEPT !.chan[n].rr0Latched = rr0,
                            !.intpending = @ \cup {<<n, "EXT">>}]
    BY <1>1 DEF last, mid, seen, one, two, SccState
  <2> QED BY <2>1, <2>2 DEF CheckExtInt, rr0
<1> HIDE DEF rr0
<1>3. one \in SccChan /\ SameHead(ch, one) BY <1>1 DEF SccChan, SameHead
<1>4. two \in SccChan /\ SameHead(ch, two) BY <1>1 DEF SccChan, SameHead
<1> HIDE DEF one, two
<1>5. seen \in SccState /\ Hears(s, seen) BY <1>3, SameHeadStays, SetChanHears
<1>6. mid \in SccState /\ Hears(s, mid) BY <1>4, SameHeadStays, SetChanHears
<1>7. mid.intpending = s.intpending BY DEF SccState
<1> HIDE DEF seen, mid
<1>8. s.intpending \subseteq p OBVIOUS
<1> HIDE DEF p
<1>9. RaiseInt(last, n) \in SccState /\ Hears(mid, RaiseInt(last, n))
  BY <1>1, <1>6, <1>7, <1>8, RaiseHears
<1> QED BY <1>2, <1>5, <1>6, <1>9, HearsTrans

\* Behind the head nothing is readable yet.
LEMMA NextNotReady ==
  ASSUME NEW ch \in SccChan, RingContiguous(ch), RxHasByte(ch), NEW new,
         new.rx = [ch.rx EXCEPT ![ch.rxBufCur] = [@ EXCEPT !.delay = Free]],
         new.rxBufCur = NextBuf(ch.rxBufCur)
  PROVE  ~RxHasByte(new)
<1>1. PICK k \in 0 .. NoRxBuf : \A i \in Buf :
        /\ i < k => ch.rx[Slot(ch, i)].delay >= 0 /\ ch.rx[Slot(ch, i)].len >= 3
        /\ i >= k => ch.rx[Slot(ch, i)].delay = Free
        /\ 0 < i /\ i < k => ch.rx[Slot(ch, i)].delay > 0
  BY DEF RingContiguous
<1> DEFINE c == ch.rxBufCur
           d == NextBuf(c)
<1>2. c \in Buf /\ d \in Buf /\ ch.rx \in [Buf -> RxBuf] BY ChanFields, NextInBuf
<1>3. CASE d = c
  <2>1. new.rx[d].delay = Free BY <1>2, <1>3 DEF RxBuf
  <2> QED BY <2>1 DEF RxHasByte, Free
<1>4. CASE d # c
  <2>1. 1 \in Buf /\ d = Slot(ch, 1)
    BY <1>2, <1>4, RingAssumption DEF NextBuf, Slot, Buf
  <2>2. new.rx[d] = ch.rx[d] BY <1>2, <1>4
  <2>3. ch.rx[d].delay # 0 BY <1>1, <2>1 DEF Free
  <2> QED BY <2>2, <2>3 DEF RxHasByte
<1> QED BY <1>3, <1>4

LEMMA IgnoreRestStays ==
  ASSUME NEW ch, ChanOK(ch)
  PROVE  HeadStays(ch, RxBufIgnoreRest(ch))
<1> DEFINE new == [ch EXCEPT !.rx[ch.rxBufCur].delay = Free, !.rxBufCur = NextBuf(@), !.rxPos = 0]
<1>1. CASE ch.rxPos = 0
  BY <1>1 DEF RxBufIgnoreRest, HeadStays
<1>2. CASE ch.rxPos # 0
  <2>1. ch \in SccChan /\ RxBufIgnoreRest(ch) = new
    BY <1>2 DEF RxBufIgnoreRest, ChanOK, RingOK
  <2>2. RxHasByte(ch)
    BY <1>2, <2>1, ChanFields DEF ChanOK, RingOK, InFrame
  <2>3. /\ new.rx = [ch.rx EXCEPT ![ch.rxBufCur] = [@ EXCEPT !.delay = Free]]
        /\ new.rxBufCur = NextBuf(ch.rxBufCur)
    BY <2>1 DEF SccChan
  <2> HIDE DEF new
  <2>4. ~RxHasByte(new) BY <2>1, <2>2, <2>3, NextNotReady DEF ChanOK, RingOK
  <2> QED BY <2>1, <2>4 DEF HeadStays, Waits
<1> QED BY <1>1, <1>2

LEMMA RecvStays ==
  ASSUME NEW ch \in SccChan, NEW frame, NEW delay \in Nat \ {0}
  PROVE  HeadStays(ch, SccRecv(ch, frame, delay))
<1> DEFINE free == {k \in Buf : ch.rx[Slot(ch, k)].delay = Free}
           first == CHOOSE k \in free : \A j \in free : k <= j
           slot == Slot(ch, first)
           r == [delay |-> delay, len |-> frame.len + 2, dest |-> frame.dest]
           new == [ch EXCEPT !.rx[slot] = r]
<1>1. SccRecv(ch, frame, delay) \in {ch, new}
  BY DEF SccRecv
<1>2. r.delay # 0 OBVIOUS
<1> HIDE DEF slot, r
<1>3. /\ new.rx = [ch.rx EXCEPT ![slot] = r] /\ new.rxBufCur = ch.rxBufCur
      /\ new.rxPos = ch.rxPos /\ new.wr1 = ch.wr1 /\ new.sdlcaddr = ch.sdlcaddr
  BY DEF SccChan
<1> HIDE DEF new
<1>4. ch.rx \in [Buf -> RxBuf] /\ ch.rxBufCur \in Buf BY ChanFields
<1>5. CASE slot = ch.rxBufCur
  <2>1. new.rx[new.rxBufCur] = r BY <1>3, <1>4, <1>5
  <2>2. ~Waits(new) BY <1>2, <2>1 DEF Waits, RxHasByte
  <2> QED BY <1>1, <2>2 DEF HeadStays
<1>6. CASE slot # ch.rxBufCur
  <2>1. new.rx[new.rxBufCur] = ch.rx[ch.rxBufCur] BY <1>3, <1>4, <1>6
  <2>2. Waits(new) <=> Waits(ch) BY <1>3, <2>1 DEF Waits, RxHasByte
  <2> QED BY <1>1, <1>3, <2>2 DEF HeadStays
<1> QED BY <1>5, <1>6

LEMMA RxTickHears ==
  ASSUME NEW s, StateOK(s), NEW n \in Chan
  PROVE  Hears(s, RxTick(s, n))
<1> DEFINE ch == s.chan[n]
           ticked == RxBufTick(ch)
           later == [s EXCEPT !.chan[n] = ticked]
           cur == later.chan[n]
           buf == cur.rx[cur.rxBufCur]
           atStart == [later EXCEPT !.chan[n].rxPos = 0]
           p == later.intpending \cup {<<n, "EXT">>}
           marked == [atStart EXCEPT !.intpending = @ \cup {<<n, "EXT">>}]
           sync == IF "SYNC" \in cur.wr15 THEN RaiseInt(marked, n) ELSE atStart
           c == CheckRxIntPending(sync, n)
           two == [c.chan[n] EXCEPT !.hunting = FALSE]
           heard == [c EXCEPT !.chan[n] = two]
           three == [heard.chan[n] EXCEPT !.eofDelay = buf.len * 3]
           last == [heard EXCEPT !.chan[n] = three]
<1>1. s \in SccState /\ ch \in SccChan /\ ChanOK(ch)
  BY StateFields DEF StateOK
<1>2. ChanOK(ticked) /\ ticked \in SccChan BY <1>1, RxBufTickOK DEF ChanOK, RingOK
<1>3. RxTick(s, n) = IF RxBufExpires(ch) THEN TriggerRx(later, n) ELSE later
  BY DEF RxTick
<1>4. ~RxBufExpires(ch) => HeadStays(ch, ticked)
  <2> DEFINE d == ch.rx[ch.rxBufCur].delay
             e == IF d > TickLen THEN d - TickLen ELSE 0
  <2>1. d \in Int /\ TickLen \in Nat \ {0} BY <1>1, ChanFields, RingAssumption
  <2>2. CASE d > 0 /\ ~RxBufExpires(ch)
    <3>1. e # 0 BY <2>1, <2>2 DEF RxBufExpires
    <3>2. ticked = [ch EXCEPT !.rx[ch.rxBufCur].delay = e] BY <2>2 DEF RxBufTick
    <3> HIDE DEF d, e
    <3>3. ch.rx \in [Buf -> RxBuf] /\ ch.rxBufCur \in Buf BY <1>1, ChanFields
    <3>4. ticked.rx = [ch.rx EXCEPT ![ch.rxBufCur] = [@ EXCEPT !.delay = e]]
          /\ ticked.rxBufCur = ch.rxBufCur
      BY <1>1, <3>2 DEF SccChan
    <3>5. ticked.rx[ticked.rxBufCur].delay = e BY <3>3, <3>4 DEF RxBuf
    <3> QED BY <3>1, <3>5 DEF HeadStays, Waits, RxHasByte
  <2>3. CASE ~(d > 0)
    BY <2>3 DEF RxBufTick, HeadStays
  <2> QED BY <2>2, <2>3
<1> HIDE DEF ticked
<1>5. later \in SccState /\ later.chan[n] = ticked
      /\ \A m \in Chan : m # n => later.chan[m] = s.chan[m]
  BY <1>1, <1>2, SetChan
<1>6. later.intpending = s.intpending BY <1>1 DEF SccState
<1>7. CASE ~RxBufExpires(ch)
  BY <1>1, <1>2, <1>3, <1>4, <1>7, SetChanHears
<1>8. CASE RxBufExpires(ch) /\ buf.dest \in {Broadcast, cur.sdlcaddr}
  <2>1. TriggerRx(later, n) = [c EXCEPT !.chan[n].hunting = FALSE, !.chan[n].eofDelay = buf.len * 3]
    BY <1>8 DEF TriggerRx
  <2> HIDE DEF later
  <2>2. [cur EXCEPT !.rxPos = 0] \in SccChan BY <1>2, <1>5 DEF SccChan
  <2>3. /\ atStart \in SccState /\ atStart.intpending = later.intpending
        /\ \A m \in Chan : m # n => atStart.chan[m] = later.chan[m]
    <3>1. atStart = [later EXCEPT !.chan[n] = [cur EXCEPT !.rxPos = 0]] OBVIOUS
    <3>2. atStart.intpending = later.intpending BY <1>5 DEF SccState
    <3> HIDE DEF atStart
    <3> QED BY <1>5, <2>2, <3>1, <3>2, SetChan
  <2>4. marked = [atStart EXCEPT !.intpending = p] BY <2>3
  <2> HIDE DEF atStart
  <2>5. p \in SUBSET (Chan \X {"EXT", "RX"}) /\ later.intpending \subseteq p
    BY <1>5, StateFields
  <2> HIDE DEF p
  <2>6. marked \in SccState /\ marked.chan = atStart.chan /\ marked.intpending = p
    BY <2>3, <2>4, <2>5 DEF SccState
  <2> HIDE DEF marked
  <2>7. LET r == RaiseInt(marked, n) IN
        r \in SccState /\ r.chan = marked.chan /\ r.intpending = marked.intpending
    BY <2>6, RaiseIntQuiet DEF Quiet, RaiseInt, SccState
  <2>8. /\ sync \in SccState /\ s.intpending \subseteq sync.intpending
        /\ \A m \in Chan : m # n => sync.chan[m] = s.chan[m]
    BY <1>5, <1>6, <2>3, <2>5, <2>6, <2>7
  <2> HIDE DEF sync
  <2>9. \A m \in Chan \ {n} : HeadStays(s.chan[m], sync.chan[m]) BY <2>8 DEF HeadStays
  <2>10. c \in SccState /\ Hears(s, c) BY <1>1, <2>8, <2>9, CheckRxHears
  <2> HIDE DEF c
  <2>11. c.chan[n] \in SccChan /\ buf.len * 3 \in Nat
    <3>1. cur \in SccChan BY <1>2, <1>5
    <3> QED BY <2>10, <3>1, StateFields, ChanFields
  <2>12. last = [c EXCEPT !.chan[n].hunting = FALSE, !.chan[n].eofDelay = buf.len * 3]
    BY <2>10
  <2> HIDE DEF cur, buf
  <2>13. two \in SccChan /\ HeadStays(c.chan[n], two)
    <3>1. two \in SccChan /\ SameHead(c.chan[n], two) BY <2>11 DEF SccChan, SameHead
    <3> QED BY <3>1, SameHeadStays
  <2> HIDE DEF two
  <2>14. heard \in SccState /\ Hears(c, heard) BY <2>10, <2>13, SetChanHears
  <2> HIDE DEF heard
  <2>15. three \in SccChan /\ HeadStays(heard.chan[n], three)
    <3>1. heard.chan[n] \in SccChan BY <2>14, StateFields
    <3>2. three \in SccChan /\ SameHead(heard.chan[n], three) BY <2>11, <3>1 DEF SccChan, SameHead
    <3> QED BY <3>2, SameHeadStays
  <2> HIDE DEF three
  <2>16. Hears(heard, last) BY <2>14, <2>15, SetChanHears
  <2>17. TriggerRx(later, n) = last BY <2>1, <2>12
  <2> HIDE DEF last
  <2> QED BY <1>3, <1>8, <2>10, <2>14, <2>16, <2>17, HearsTrans
<1>9. CASE RxBufExpires(ch) /\ buf.dest \notin {Broadcast, cur.sdlcaddr}
  <2> DEFINE new == RxBufIgnoreRest(ticked)
  <2>1. TriggerRx(later, n) = [later EXCEPT !.chan[n] = RxBufIgnoreRest(cur)]
    BY <1>9 DEF TriggerRx
  <2>2. ~Waits(ticked) BY <1>5, <1>9 DEF Waits
  <2>3. ChanOK(new) /\ HeadStays(ticked, new) BY <1>2, IgnoreRestOK, IgnoreRestStays
  <2>4. new \in SccChan /\ HeadStays(ch, new)
    BY <2>2, <2>3 DEF HeadStays, ChanOK, RingOK
  <2>5. [later EXCEPT !.chan[n] = new] = [s EXCEPT !.chan[n] = new]
    BY <1>1 DEF SccState
  <2> HIDE DEF new
  <2>6. Hears(s, [s EXCEPT !.chan[n] = new]) BY <1>1, <2>4, SetChanHears
  <2>7. RxBufIgnoreRest(cur) = new BY <1>5 DEF new
  <2>8. RxTick(s, n) = TriggerRx(later, n) BY <1>3, <1>9
  <2> HIDE DEF later
  <2>9. TriggerRx(later, n) = [s EXCEPT !.chan[n] = new] BY <2>1, <2>5, <2>7
  <2> QED BY <2>6, <2>8, <2>9
<1> QED BY <1>7, <1>8, <1>9

LEMMA TxFinishedHears ==
  ASSUME NEW s, NEW n \in Chan, RingsOK(s, n)
  PROVE  Hears(s, SccTxFinished(s, n))
<1> DEFINE data == s.chan[n].txData
           sent == LocaltalkSend(s, data)
           cts == [dest |-> data[1], len |-> 3]
           chB == SccRecv(s.chan[SCC_CHANB], cts, 3)
           replied == [s EXCEPT !.chan[SCC_CHANB] = chB]
           new == [sent.chan[n] EXCEPT !.txPos = 0]
<1>1. s \in SccState /\ SCC_CHANB \in Chan /\ s.chan[SCC_CHANB] \in SccChan
  BY StateFields DEF RingsOK, Chan
<1>2. cts \in [dest : Nat, len : Nat \ {0}]
  BY <1>1, DataFields
<1>3. chB \in SccChan /\ HeadStays(s.chan[SCC_CHANB], chB)
  BY <1>1, <1>2, RecvOK, RecvStays DEF RingsOK, RingOK
<1>4. sent \in {replied, s}
  BY DEF LocaltalkSend
<1> HIDE DEF chB
<1>5. replied \in SccState /\ Hears(s, replied) BY <1>1, <1>3, SetChanHears
<1>6. Hears(s, s) BY SameHeadHears DEF SameHead
<1> HIDE DEF replied
<1>7. sent \in SccState /\ Hears(s, sent) BY <1>1, <1>4, <1>5, <1>6
<1> HIDE DEF sent
<1>8. new \in SccChan /\ HeadStays(sent.chan[n], new)
  <2>1. 0 \in 0 .. MaxTx BY DriverAssumption
  <2>2. sent.chan[n] \in SccChan BY <1>7, StateFields
  <2>3. new \in SccChan /\ SameHead(sent.chan[n], new) BY <2>1, <2>2 DEF SccChan, SameHead
  <2> QED BY <2>3, SameHeadStays
<1>9. SccTxFinished(s, n) = [sent EXCEPT !.chan[n] = new] BY DEF SccTxFinished, sent, new
<1> HIDE DEF new
<1>10. Hears(sent, [sent EXCEPT !.chan[n] = new]) BY <1>7, <1>8, SetChanHears
<1> QED BY <1>7, <1>9, <1>10, HearsTrans

LEMMA TxTickHears ==
  ASSUME NEW s, StateOK(s), NEW n \in Chan
  PROVE  Hears(s, TxTick(s, n))
<1> DEFINE ch == s.chan[n]
           t == Elapse(ch.txTimer)
           new == [ch EXCEPT !.txTimer = t]
           later == [s EXCEPT !.chan[n] = new]
<1>1. s \in SccState /\ ch \in SccChan /\ ChanOK(ch)
  BY StateFields DEF StateOK
<1>2. t \in Nat
  BY <1>1, ChanFields, ElapseType
<1>3. later = [s EXCEPT !.chan[n].txTimer = Elapse(@)]
  BY <1>1
<1> HIDE DEF t
<1>4. new \in SccChan /\ SameRing(new, ch) /\ SameHead(ch, new)
  BY <1>1, <1>2 DEF SccChan, SameRing, SameHead
<1>5. RingOK(new)
  BY <1>1, <1>4, SameRingOK DEF RingOK
<1> HIDE DEF new
<1>6. Hears(s, later) BY <1>1, <1>4, SameHeadStays, SetChanHears
<1>7. RingsOK(later, n)
  BY <1>1, <1>4, <1>5, SetChan DEF RingsOK, StateOK, ChanOK
<1>8. TxTick(s, n) \in {SccTxFinished(later, n), later}
  BY <1>3 DEF TxTick
<1> HIDE DEF later
<1>9. Hears(later, SccTxFinished(later, n)) BY <1>7, TxFinishedHears
<1> QED BY <1>6, <1>8, <1>9, HearsTrans

LEMMA EofTickHears ==
  ASSUME NEW s, StateOK(s), NEW n \in Chan
  PROVE  Hears(s, EofTick(s, n))
<1> DEFINE ch == s.chan[n]
           t == Elapse(ch.eofDelay)
           new == [ch EXCEPT !.eofDelay = t]
           later == [s EXCEPT !.chan[n] = new]
           p == s.intpending \cup {<<n, "RX">>}
           marked == [later EXCEPT !.intpending = p]
<1>1. s \in SccState /\ ch \in SccChan
  BY StateFields DEF StateOK
<1>2. t \in Nat
  BY <1>1, ElapseType DEF SccChan
<1>3. later = [s EXCEPT !.chan[n].eofDelay = Elapse(@)]
  BY <1>1
<1> HIDE DEF t
<1>4. new \in SccChan /\ SameHead(ch, new) BY <1>1, <1>2 DEF SccChan, SameHead
<1> HIDE DEF new
<1>5. later \in SccState /\ Hears(s, later) BY <1>1, <1>4, SameHeadStays, SetChanHears
<1>6. later.intpending = s.intpending BY <1>1 DEF SccState
<1>7. EofTick(s, n) \in {RaiseInt(marked, n), later}
  BY <1>3, <1>6 DEF EofTick
<1> HIDE DEF later
<1>8. p \in SUBSET (Chan \X {"EXT", "RX"}) /\ later.intpending \subseteq p
  BY <1>1, <1>6, StateFields
<1> HIDE DEF p
<1>9. Hears(later, RaiseInt(marked, n)) BY <1>5, <1>8, RaiseHears
<1> QED BY <1>5, <1>7, <1>9, HearsTrans

LEMMA AbortTickHears ==
  ASSUME NEW s, StateOK(s), NEW n \in Chan
  PROVE  Hears(s, AbortTick(s, n))
<1> DEFINE ch == s.chan[n]
           t == Elapse(ch.rxAbrtTimer)
           new == [ch EXCEPT !.rxAbrtTimer = t]
<1>1. s \in SccState /\ ch \in SccChan
  BY StateFields DEF StateOK
<1>2. t \in Nat
  BY <1>1, ElapseType DEF SccChan
<1>3. AbortTick(s, n) = [s EXCEPT !.chan[n] = new]
  BY <1>1 DEF AbortTick
<1> HIDE DEF t
<1>4. new \in SccChan /\ SameHead(ch, new) BY <1>1, <1>2 DEF SccChan, SameHead
<1> HIDE DEF new
<1> QED BY <1>1, <1>3, <1>4, SameHeadStays, SetChanHears

LEMMA TickChanHears ==
  ASSUME NEW s, StateOK(s), NEW n \in Chan
  PROVE  Hears(s, TickChan(s, n))
<1> DEFINE tx == TxTick(s, n)
           rx == RxTick(tx, n)
           eof == EofTick(rx, n)
           end == AbortTick(eof, n)
<1>1. TickChan(s, n) \in {CheckExtInt(end, n), end}
  BY DEF TickChan
<1>2. StateOK(tx) /\ Hears(s, tx) BY TxTickOK, TxTickHears
<1> HIDE DEF tx
<1>3. StateOK(rx) /\ Hears(tx, rx) BY <1>2, RxTickOK, RxTickHears
<1> HIDE DEF rx
<1>4. StateOK(eof) /\ Hears(rx, eof) BY <1>3, EofTickOK, EofTickHears
<1> HIDE DEF eof
<1>5. StateOK(end) /\ Hears(eof, end) BY <1>4, AbortTickOK, AbortTickHears
<1> HIDE DEF end
<1>6. Hears(end, CheckExtInt(end, n)) BY <1>5, CheckExtHears DEF StateOK
<1>7. Hears(s, end) BY <1>2, <1>3, <1>4, <1>5, HearsTrans
<1>8. Hears(s, CheckExtInt(end, n)) BY <1>6, <1>7, HearsTrans
<1> QED BY <1>1, <1>7, <1>8

LEMMA Wr0Hears ==
  ASSUME NEW s, StateOK(s), NEW n \in Chan, NEW ptr \in 0 .. 7, NEW low, NEW high
  PROVE  Hears(s, Wr0(s, n, ptr, low, high))
<1> DEFINE r == IF low = "point_high" THEN ptr + 8 ELSE ptr
           sel == [s EXCEPT !.regptr = r]
           mid == Wr0Low(sel, n, low)
           fin == SccTxFinished(sel, n)
           one == [sel.chan[n] EXCEPT !.rr0Latched = NotLatched]
           two == [sel.chan[n] EXCEPT !.intOnNextRxChar = TRUE]
           three == RxBufIgnoreRest(sel.chan[n])
           last == [mid.chan[n] EXCEPT !.txTimer = 10]
           Check(new) == CheckRxIntPending([sel EXCEPT !.chan[n] = new], n)
<1>1. sel \in SccState /\ sel.chan = s.chan /\ sel.intpending = s.intpending
  BY DEF StateOK, SccState
<1>2. StateOK(sel)
  BY <1>1 DEF StateOK
<1>3. Hears(s, sel) BY <1>1, SameHeadHears DEF SameHead
<1>4. Wr0(s, n, ptr, low, high) = Wr0High(mid, n, high)
  BY DEF Wr0
<1> HIDE DEF sel
<1>5. sel.chan[n] \in SccChan /\ ChanOK(sel.chan[n])
  BY <1>2, StateFields DEF StateOK
<1>6. ASSUME NEW new \in SccChan
      PROVE  Check(new) \in SccState /\ Hears(sel, Check(new))
  <2> DEFINE t == [sel EXCEPT !.chan[n] = new]
  <2>1. t \in SccState /\ \A m \in Chan : m # n => t.chan[m] = sel.chan[m]
    BY <1>1, SetChan
  <2>2. t.intpending = sel.intpending BY <1>1 DEF SccState
  <2> HIDE DEF t
  <2>3. \A m \in Chan \ {n} : HeadStays(sel.chan[m], t.chan[m]) BY <2>1 DEF HeadStays
  <2>4. CheckRxIntPending(t, n) \in SccState /\ Hears(sel, CheckRxIntPending(t, n))
    BY <1>1, <2>1, <2>2, <2>3, CheckRxHears
  <2> QED BY <2>4 DEF t
<1>7. /\ one \in SccChan /\ SameHead(sel.chan[n], one)
      /\ two \in SccChan /\ three \in SccChan
  <2>1. three \in SccChan BY <1>5, IgnoreRestOK DEF ChanOK, RingOK
  <2> QED BY <1>5, <2>1 DEF SccChan, SameHead, NotLatched
<1>8. fin \in SccState /\ Hears(sel, CheckRxIntPending(fin, n))
      /\ CheckRxIntPending(fin, n) \in SccState
  <2>1. RingsOK(sel, n)
    BY <1>2 DEF StateOK, RingsOK, ChanOK
  <2>2. fin \in SccState /\ Hears(sel, fin) BY <2>1, TxFinishedOK, TxFinishedHears DEF StateOK
  <2> HIDE DEF fin
  <2>3. \A m \in Chan : HeadStays(fin.chan[m], fin.chan[m]) BY DEF HeadStays
  <2>4. CheckRxIntPending(fin, n) \in SccState /\ Hears(fin, CheckRxIntPending(fin, n))
    BY <2>2, <2>3, CheckRxHears
  <2> QED BY <2>2, <2>4, HearsTrans
<1>9. mid \in {[sel EXCEPT !.chan[n] = one], CheckRxIntPending(fin, n), Check(two), Check(three), sel}
  BY DEF Wr0Low
<1> HIDE DEF one, two, three, fin, mid
<1>10. [sel EXCEPT !.chan[n] = one] \in SccState /\ Hears(sel, [sel EXCEPT !.chan[n] = one])
  BY <1>1, <1>7, SameHeadStays, SetChanHears
<1>11. Check(two) \in SccState /\ Hears(sel, Check(two)) BY <1>6, <1>7
<1>12. Check(three) \in SccState /\ Hears(sel, Check(three)) BY <1>6, <1>7
<1>13. mid \in SccState /\ Hears(sel, mid)
  <2>1. Hears(sel, sel) BY SameHeadHears DEF SameHead
  <2> HIDE DEF Check
  <2> QED BY <1>1, <1>8, <1>9, <1>10, <1>11, <1>12, <2>1
<1>14. Hears(s, mid) BY <1>3, <1>13, HearsTrans
<1>15. mid.chan[n] \in SccChan BY <1>13, StateFields
<1>16. last \in SccChan /\ SameHead(mid.chan[n], last) BY <1>15 DEF SccChan, SameHead
<1>17. Wr0High(mid, n, high) \in {[mid EXCEPT !.chan[n] = last], mid} BY DEF Wr0High
<1> HIDE DEF last
<1>18. Hears(mid, [mid EXCEPT !.chan[n] = last]) BY <1>13, <1>16, SameHeadStays, SetChanHears
<1>19. Hears(s, [mid EXCEPT !.chan[n] = last]) BY <1>14, <1>18, HearsTrans
<1> QED BY <1>4, <1>14, <1>17, <1>19

\* The state an entry point works from has the rings of scc.
SameRings(t) == t \in SccState /\ \A m \in Chan : SameRing(t.chan[m], scc.chan[m])

LEMMA AccessRings == ASSUME StateOK(scc), NEW reg, NEW s \in Access(reg) PROVE SameRings(s)
<1>1. StateOK(s) /\ s.chan = scc.chan BY AccessOK
<1> QED BY <1>1 DEF SameRings, SameRing, StateOK

LEMMA SetRings ==
  ASSUME StateOK(scc), NEW reg, NEW s \in Access(reg), NEW n \in Chan,
         NEW ch \in SccChan, SameRing(ch, s.chan[n])
  PROVE  SameRings([s EXCEPT !.chan[n] = ch])
<1>1. s \in SccState /\ s.chan = scc.chan BY AccessOK DEF StateOK
<1> DEFINE t == [s EXCEPT !.chan[n] = ch]
<1>2. t \in SccState /\ t.chan[n] = ch /\ \A m \in Chan : m # n => t.chan[m] = s.chan[m]
  BY <1>1, SetChan
<1> HIDE DEF t
<1>3. SameRings(t) BY <1>1, <1>2 DEF SameRings, SameRing
<1> QED BY <1>3 DEF t

LEMMA DoneHears ==
  ASSUME NEW t, SameRings(t), NEW u \in SccState, Hears(t, u), NEW n \in Chan, Done(u, n)
  PROVE  \E b : SameRings(b) /\ Hears(b, scc')
<1>1. Hears(t, CheckExtInt(u, n)) BY CheckExtHears, HearsTrans
<1> QED BY <1>1 DEF Done

LEMMA PlainHears ==
  ASSUME NEW t, SameRings(t), NEW n \in Chan, Done(t, n)
  PROVE  \E b : SameRings(b) /\ Hears(b, scc')
<1>1. Hears(t, t) BY SameHeadHears DEF SameHead
<1> QED BY <1>1, DoneHears DEF SameRings

\* Every write but WR0's leaves the rings alone before checkExtInt.
LEMMA WriteRings ==
  ASSUME StateOK(scc), NEW n \in Chan, Write(n)
  PROVE  \/ \E ptr \in Pointers, low \in LowCmds, high \in HighCmds, s \in Access(0) :
              Done(Wr0(s, n, ptr, low, high), n)
         \/ \E t : SameRings(t) /\ Done(t, n)
<1>1. ASSUME NEW reg, NEW s \in Access(reg) PROVE s.chan[n] \in SccChan
  BY <1>1, AccessOK, StateFields DEF StateOK
<1>2. CASE \E ptr \in Pointers, low \in LowCmds, high \in HighCmds : WriteWR0(n, ptr, low, high)
  BY <1>2 DEF WriteWR0
<1>3. CASE \E val \in Wr1Values : WriteWR1(n, val)
  <2>1. PICK val \in Wr1Values, s \in Access(1) : Done([s EXCEPT !.chan[n].wr1 = val], n)
    BY <1>3 DEF WriteWR1
  <2> DEFINE ch == [s.chan[n] EXCEPT !.wr1 = val]
  <2>2. val \in [ena : BOOLEAN, mode : 0 .. 3] BY DriverAssumption
  <2>3. s.chan[n] \in SccChan BY <1>1
  <2>4. ch \in SccChan /\ SameRing(ch, s.chan[n]) BY <2>2, <2>3 DEF SccChan, SameRing
  <2>5. SameRings([s EXCEPT !.chan[n] = ch]) BY <2>4, SetRings
  <2> QED BY <2>1, <2>5
<1>4. CASE EnterHunt(n)
  <2>1. PICK s \in Access(3) : Done([s EXCEPT !.chan[n].hunting = TRUE], n)
    BY <1>4 DEF EnterHunt
  <2> DEFINE ch == [s.chan[n] EXCEPT !.hunting = TRUE]
  <2>2. s.chan[n] \in SccChan BY <1>1
  <2>3. ch \in SccChan /\ SameRing(ch, s.chan[n]) BY <2>2 DEF SccChan, SameRing
  <2>4. SameRings([s EXCEPT !.chan[n] = ch]) BY <2>3, SetRings
  <2> QED BY <2>1, <2>4
<1>5. CASE \E addr \in Addrs : WriteWR6(n, addr)
  <2>1. PICK addr \in Addrs, s \in Access(6) : Done([s EXCEPT !.chan[n].sdlcaddr = addr], n)
    BY <1>5 DEF WriteWR6
  <2> DEFINE ch == [s.chan[n] EXCEPT !.sdlcaddr = addr]
  <2>2. s.chan[n] \in SccChan /\ addr \in Nat BY <1>1, DriverAssumption
  <2>3. ch \in SccChan /\ SameRing(ch, s.chan[n]) BY <2>2 DEF SccChan, SameRing
  <2>4. SameRings([s EXCEPT !.chan[n] = ch]) BY <2>3, SetRings
  <2> QED BY <2>1, <2>4
<1>6. CASE \E val \in Wr15Values : WriteWR15(n, val)
  <2>1. PICK val \in Wr15Values, s \in Access(15) :
          Done(RaiseInt([s EXCEPT !.chan[n].wr15 = val], n), n)
    BY <1>6 DEF WriteWR15
  <2> DEFINE ch == [s.chan[n] EXCEPT !.wr15 = val]
             t == [s EXCEPT !.chan[n] = ch]
  <2>2. s.chan[n] \in SccChan /\ val \in SUBSET ExtFlags BY <1>1, DriverAssumption
  <2>3. ch \in SccChan /\ SameRing(ch, s.chan[n]) BY <2>2 DEF SccChan, SameRing
  <2>4. SameRings(t) BY <2>3, SetRings
  <2>5. Done(RaiseInt(t, n), n) BY <2>1
  <2> HIDE DEF t
  <2>6. SameRings(RaiseInt(t, n))
    <3>1. t \in SccState BY <2>4 DEF SameRings
    <3>2. RaiseInt(t, n) \in SccState /\ RaiseInt(t, n).chan = t.chan
      BY <3>1, RaiseIntQuiet DEF Quiet
    <3> QED BY <2>4, <3>2 DEF SameRings
  <2> QED BY <2>5, <2>6
<1>7. CASE \E byte \in TxBytes : WriteData(n, byte)
  <2>1. PICK byte \in TxBytes, s \in Access(8) :
          Done([s EXCEPT !.chan[n].txData[s.chan[n].txPos] = byte,
                         !.chan[n].txPos = @ + 1, !.chan[n].txTimer = @ + 30], n)
    BY <1>7 DEF WriteData
  <2> DEFINE ch == [s.chan[n] EXCEPT !.txData[s.chan[n].txPos] = byte,
                                     !.txPos = @ + 1, !.txTimer = @ + 30]
  <2>2. s.chan[n] \in SccChan BY <1>1
  <2>3. SameRing(ch, s.chan[n]) BY <2>2 DEF SccChan, SameRing
  <2>4. ch \in SccChan
    <3>1. s.chan = scc.chan /\ scc.chan[n].txPos < MaxTx BY <1>7, AccessOK DEF WriteData
    <3>2. s.chan[n].txPos + 1 \in 0 .. MaxTx /\ s.chan[n].txTimer + 30 \in Nat
      BY <2>2, <3>1, ChanFields, DriverAssumption
    <3>3. [s.chan[n].txData EXCEPT ![s.chan[n].txPos] = byte] \in [0 .. MaxTx - 1 -> Nat]
      <4>1. byte \in Nat BY DriverAssumption
      <4>2. s.chan[n].txData \in [0 .. MaxTx - 1 -> Nat] BY <2>2 DEF SccChan
      <4> QED BY <4>1, <4>2
    <3> QED BY <2>2, <3>2, <3>3 DEF SccChan
  <2>5. SameRings([s EXCEPT !.chan[n] = ch]) BY <2>3, <2>4, SetRings
  <2>6. s \in SccState BY AccessBase DEF Base
  <2>7. [s EXCEPT !.chan[n] = ch]
          = [s EXCEPT !.chan[n].txData[s.chan[n].txPos] = byte,
                      !.chan[n].txPos = @ + 1, !.chan[n].txTimer = @ + 30]
    BY <2>6 DEF SccState
  <2> QED BY <2>1, <2>5, <2>7
<1>8. CASE WriteInert(n)
  BY <1>8, AccessRings DEF WriteInert
<1> QED BY <1>2, <1>3, <1>4, <1>5, <1>6, <1>7, <1>8 DEF Write

LEMMA WriteHears ==
  ASSUME StateOK(scc), NEW n \in Chan, Write(n)
  PROVE  \E b : SameRings(b) /\ Hears(b, scc')
<1>1. CASE \E ptr \in Pointers, low \in LowCmds, high \in HighCmds, s \in Access(0) :
             Done(Wr0(s, n, ptr, low, high), n)
  <2>1. PICK ptr \in Pointers, low \in LowCmds, high \in HighCmds, s \in Access(0) :
          Done(Wr0(s, n, ptr, low, high), n)
    BY <1>1
  <2>2. ptr \in 0 .. 7 BY DriverAssumption
  <2>3. StateOK(s) /\ SameRings(s) BY AccessOK, AccessRings
  <2>4. Wr0(s, n, ptr, low, high) \in SccState /\ Hears(s, Wr0(s, n, ptr, low, high))
    BY <2>2, <2>3, Wr0OK, Wr0Hears DEF StateOK
  <2> QED BY <2>1, <2>3, <2>4, DoneHears
<1>2. CASE \E t : SameRings(t) /\ Done(t, n)
  BY <1>2, PlainHears
<1> QED BY <1>1, <1>2, WriteRings

LEMMA ReadRings ==
  ASSUME StateOK(scc), NEW n \in Chan, Read(n), ~ReadData(n)
  PROVE  \E t : SameRings(t) /\ Done(t, n)
<1>1. CASE ReadRR0(n)
  <2>1. PICK s \in Access(0) : Done([s EXCEPT !.chan[n].rr0Latched = NotLatched], n)
    BY <1>1 DEF ReadRR0
  <2> DEFINE ch == [s.chan[n] EXCEPT !.rr0Latched = NotLatched]
  <2>2. s.chan[n] \in SccChan BY AccessOK, StateFields DEF StateOK
  <2>3. ch \in SccChan /\ SameRing(ch, s.chan[n]) BY <2>2 DEF SccChan, SameRing, NotLatched
  <2>4. SameRings([s EXCEPT !.chan[n] = ch]) BY <2>3, SetRings
  <2> QED BY <2>1, <2>4
<1>2. CASE ReadStatus(n)
  BY <1>2, AccessRings DEF ReadStatus
<1> QED BY <1>1, <1>2 DEF Read

LEMMA ReadHears ==
  ASSUME StateOK(scc), NEW n \in Chan, Read(n)
  PROVE  \E b : SameRings(b) /\ Hears(b, scc')
<1>1. CASE \E t : SameRings(t) /\ Done(t, n)
  BY <1>1, PlainHears
<1>2. CASE ReadData(n)
  <2>1. PICK s \in Access(8) : Done(CheckRxIntPending(ReadByte(s, n), n), n)
    BY <1>2 DEF ReadData
  <2> DEFINE ch == s.chan[n]
             last == RxHasByte(ch) /\ RxBytesLeft(ch) = 1
             read == IF RxHasByte(ch) THEN RxByte(ch) ELSE ch
             abrt == IF last THEN 40 ELSE read.rxAbrtTimer
             new == [read EXCEPT !.rxEom = last, !.rxAbrtTimer = abrt]
             u == ReadByte(s, n)
  <2>2. SameRings(s) /\ StateOK(s) /\ s \in SccState BY AccessOK, AccessRings DEF StateOK
  <2>3. u \in SccState BY <2>2, ReadByteOK DEF StateOK
  <2>4. u.intpending = s.intpending /\ \A m \in Chan : m # n => u.chan[m] = s.chan[m]
    <3>1. u = [s EXCEPT !.chan[n] = new] BY DEF ReadByte
    <3> HIDE DEF new, u
    <3> QED BY <2>2, <3>1 DEF SccState
  <2> HIDE DEF u
  <2>5. \A m \in Chan \ {n} : HeadStays(s.chan[m], u.chan[m]) BY <2>4 DEF HeadStays
  <2>6. CheckRxIntPending(u, n) \in SccState /\ Hears(s, CheckRxIntPending(u, n))
    BY <2>2, <2>3, <2>4, <2>5, CheckRxHears
  <2> QED BY <2>1, <2>2, <2>6, DoneHears DEF u
<1> QED BY <1>1, <1>2, ReadRings

LEMMA AckRings ==
  ASSUME StateOK(scc), IntAck
  PROVE  \E t : SameRings(t) /\ Done(t, SCC_CHANB)
<1>1. PICK s \in Access(2) :
        Done(RaiseRemaining(RaiseRemaining(TakeReason(s), SCC_CHANA), SCC_CHANB), SCC_CHANB)
  BY DEF IntAck
<1> DEFINE u == TakeReason(s)
           a == RaiseRemaining(u, SCC_CHANA)
           b == RaiseRemaining(a, SCC_CHANB)
<1>2. s \in SccState /\ SameRings(s) /\ SCC_CHANA \in Chan /\ SCC_CHANB \in Chan
  BY AccessRings DEF SameRings, Chan
<1>3. Quiet(u, s) BY <1>2, TakeReasonQuiet
<1> HIDE DEF u
<1>4. SameRings(u) BY <1>2, <1>3 DEF Quiet, SameRings, SameRing
<1>5. u \in SccState BY <1>4 DEF SameRings
<1>6. a \in SccState /\ a.intpending = u.intpending /\ a.chan = u.chan
  BY <1>2, <1>5, RaiseRemainingTells
<1> HIDE DEF a
<1>7. b \in SccState /\ b.intpending = a.intpending /\ b.chan = a.chan
  BY <1>2, <1>6, RaiseRemainingTells
<1>8. Done(b, SCC_CHANB) BY <1>1 DEF u, a
<1> HIDE DEF b
<1>9. SameRings(b) BY <1>4, <1>6, <1>7 DEF SameRings
<1> QED BY <1>8, <1>9

LEMMA StepHears ==
  ASSUME StateOK(scc), Next
  PROVE  \E b : SameRings(b) /\ Hears(b, scc')
<1>1. StateOK(Call) /\ SameRings(Call) /\ Call \in SccState
  BY CallOK DEF SameRings, SameRing, StateOK
<1>2. CASE SccTick
  <2> DEFINE a == TickChan(Call, SCC_CHANA)
  <2>1. SCC_CHANA \in Chan /\ SCC_CHANB \in Chan BY DEF Chan
  <2>2. StateOK(a) /\ Hears(Call, a) BY <1>1, <2>1, TickChanOK, TickChanHears
  <2>3. scc' = TickChan(a, SCC_CHANB) BY <1>2 DEF SccTick
  <2> HIDE DEF a
  <2>4. Hears(a, TickChan(a, SCC_CHANB)) BY <2>1, <2>2, TickChanHears
  <2>5. Hears(Call, TickChan(a, SCC_CHANB)) BY <2>2, <2>4, HearsTrans
  <2> QED BY <1>1, <2>3, <2>5
<1>3. CASE Mouse
  <2>1. PICK n \in DcdChans, val \in BOOLEAN :
          scc' = CheckExtInt([Call EXCEPT !.chan[n].dcd = val], n)
    BY <1>3 DEF Mouse, SccSetDcd
  <2> DEFINE ch == [Call.chan[n] EXCEPT !.dcd = val]
             t == [Call EXCEPT !.chan[n] = ch]
  <2>2. n \in Chan BY DriverAssumption
  <2>3. Call.chan[n] \in SccChan BY <1>1, <2>2, StateFields
  <2>4. ch \in SccChan /\ SameHead(Call.chan[n], ch) BY <2>3 DEF SccChan, SameHead
  <2>5. scc' = CheckExtInt(t, n) BY <2>1
  <2> HIDE DEF ch
  <2>6. t \in SccState /\ Hears(Call, t) BY <1>1, <2>2, <2>4, SameHeadStays, SetChanHears
  <2> HIDE DEF t
  <2>7. Hears(t, CheckExtInt(t, n)) BY <2>2, <2>6, CheckExtHears
  <2> QED BY <1>1, <2>5, <2>6, <2>7, HearsTrans
<1>4. CASE Link
  <2>1. PICK n \in LinkChans, frame \in LinkFrames, delay \in LinkDelays :
          scc' = [Call EXCEPT !.chan[n] = SccRecv(@, frame, delay)]
    BY <1>4 DEF Link, LinkRecv
  <2> DEFINE ch == SccRecv(Call.chan[n], frame, delay)
  <2>2. n \in Chan /\ frame \in [dest : Nat, len : Nat \ {0}] /\ delay \in Nat \ {0}
    BY LinkAssumption
  <2>3. ChanOK(Call.chan[n]) /\ Call.chan[n] \in SccChan
    BY <2>2, CallOK, StateFields DEF StateOK
  <2>4. ch \in SccChan /\ HeadStays(Call.chan[n], ch)
    BY <2>2, <2>3, RecvOK, RecvStays DEF ChanOK, RingOK
  <2>5. scc' = [Call EXCEPT !.chan[n] = ch] BY <2>1
  <2> HIDE DEF ch
  <2>6. Hears(Call, [Call EXCEPT !.chan[n] = ch]) BY <1>1, <2>2, <2>4, SetChanHears
  <2> QED BY <1>1, <2>5, <2>6
<1>5. CASE IntAck
  <2>1. SCC_CHANB \in Chan BY DEF Chan
  <2> QED BY <1>5, <2>1, AckRings, PlainHears
<1>6. ASSUME NEW n \in DriverChans, Exit(n)
      PROVE  \E b : SameRings(b) /\ Hears(b, scc')
  <2>1. scc' = [scc EXCEPT !.exited = TRUE, !.irqs = 0]
    BY <1>6 DEF Exit
  <2>2. scc' \in SccState /\ scc'.chan = scc.chan /\ scc'.intpending = scc.intpending
    BY <2>1 DEF StateOK, SccState
  <2>3. SameRings(scc') BY <2>2 DEF SameRings, SameRing
  <2>4. Hears(scc', scc') BY SameHeadHears DEF SameHead
  <2> QED BY <2>3, <2>4
<1>7. \A n \in DriverChans : n \in Chan BY DriverAssumption
<1> QED BY <1>2, <1>3, <1>4, <1>5, <1>6, <1>7, WriteHears, ReadHears DEF Next, Bus

-----------------------------------------------------------------------------
(* The ring as a queue: what a call may do to the frames of a channel.     *)

\* Frames join behind those held, and the head may become readable.
Grows(ch, new) ==
  /\ new.rxBufCur = ch.rxBufCur
  /\ RxHasByte(ch) => RxHasByte(new)
  /\ \A b \in Buf : ch.rx[b].delay # Free =>
       /\ new.rx[b].delay # Free
       /\ new.rx[b].len = ch.rx[b].len /\ new.rx[b].dest = ch.rx[b].dest

\* The readable head is given up.
GivesUp(ch, new) ==
  /\ RxHasByte(ch)
  /\ new.rx = [ch.rx EXCEPT ![ch.rxBufCur] = [@ EXCEPT !.delay = Free]]
  /\ new.rxBufCur = NextBuf(ch.rxBufCur)

Grown(s, t) == \A m \in Chan : Grows(s.chan[m], t.chan[m])
Moved(s, t) == \A m \in Chan : Grows(s.chan[m], t.chan[m]) \/ GivesUp(s.chan[m], t.chan[m])

SameRx(ch, new) == new.rx = ch.rx /\ new.rxBufCur = ch.rxBufCur

LEMMA SameRxGrows == ASSUME NEW ch, NEW new, SameRx(ch, new) PROVE Grows(ch, new)
BY DEF SameRx, Grows, RxHasByte

LEMMA GrowsTrans ==
  ASSUME NEW ch, NEW mid, NEW new, Grows(ch, mid), Grows(mid, new) PROVE Grows(ch, new)
BY DEF Grows

LEMMA GrownTrans ==
  ASSUME NEW s, NEW t, NEW u, Grown(s, t), Grown(t, u) PROVE Grown(s, u)
BY GrowsTrans DEF Grown

LEMMA QuietGrown == ASSUME NEW s, NEW t, Quiet(t, s) PROVE Grown(s, t)
BY SameRxGrows DEF Quiet, SameRing, SameRx, Grown

LEMMA GrownMoved == ASSUME NEW s, NEW t, Grown(s, t) PROVE Moved(s, t)
BY DEF Grown, Moved

LEMMA MovedQuiet ==
  ASSUME NEW s, NEW t, NEW u, Moved(s, t), Quiet(u, t) PROVE Moved(s, u)
<1>1. ASSUME NEW m \in Chan, Grows(s.chan[m], t.chan[m]) PROVE Grows(s.chan[m], u.chan[m])
  BY <1>1, QuietGrown, GrowsTrans DEF Grown
<1>2. ASSUME NEW m \in Chan, GivesUp(s.chan[m], t.chan[m]) PROVE GivesUp(s.chan[m], u.chan[m])
  BY <1>2 DEF GivesUp, Quiet, SameRing
<1> QED BY <1>1, <1>2 DEF Moved

LEMMA SetChanGrown ==
  ASSUME NEW s \in SccState, NEW n \in Chan, NEW ch \in SccChan, Grows(s.chan[n], ch)
  PROVE  /\ [s EXCEPT !.chan[n] = ch] \in SccState
         /\ Grown(s, [s EXCEPT !.chan[n] = ch])
<1> DEFINE t == [s EXCEPT !.chan[n] = ch]
<1>1. t \in SccState /\ t.chan[n] = ch /\ \A m \in Chan : m # n => t.chan[m] = s.chan[m]
  BY SetChan
<1> HIDE DEF t
<1>2. Grown(s, t) BY <1>1, SameRxGrows DEF Grown, SameRx
<1> QED BY <1>1, <1>2 DEF t

LEMMA SetChanMoved ==
  ASSUME NEW s \in SccState, NEW n \in Chan, NEW ch \in SccChan,
         Grows(s.chan[n], ch) \/ GivesUp(s.chan[n], ch)
  PROVE  /\ [s EXCEPT !.chan[n] = ch] \in SccState
         /\ Moved(s, [s EXCEPT !.chan[n] = ch])
<1> DEFINE t == [s EXCEPT !.chan[n] = ch]
<1>1. t \in SccState /\ t.chan[n] = ch /\ \A m \in Chan : m # n => t.chan[m] = s.chan[m]
  BY SetChan
<1> HIDE DEF t
<1>2. Moved(s, t) BY <1>1, SameRxGrows DEF Moved, SameRx
<1> QED BY <1>1, <1>2 DEF t

\* A full ring drops the frame; otherwise the search of sccRecv finds a free buffer.
LEMMA RecvGrows ==
  ASSUME NEW ch, RingOK(ch), NEW frame, NEW delay \in Nat \ {0}
  PROVE  Grows(ch, SccRecv(ch, frame, delay))
<1> DEFINE free == {j \in Buf : ch.rx[Slot(ch, j)].delay = Free}
           first == CHOOSE j \in free : \A i \in free : j <= i
           slot == Slot(ch, first)
           r == [delay |-> delay, len |-> frame.len + 2, dest |-> frame.dest]
           new == [ch EXCEPT !.rx[slot] = r]
<1>1. PICK k \in 0 .. NoRxBuf : \A i \in Buf :
        /\ i < k => ch.rx[Slot(ch, i)].delay >= 0 /\ ch.rx[Slot(ch, i)].len >= 3
        /\ i >= k => ch.rx[Slot(ch, i)].delay = Free
        /\ 0 < i /\ i < k => ch.rx[Slot(ch, i)].delay > 0
  BY DEF RingOK, RingContiguous
<1>2. CASE free = {}
  <2>1. SccRecv(ch, frame, delay) = ch BY <1>2 DEF SccRecv
  <2> QED BY <2>1, SameRxGrows DEF SameRx
<1>3. CASE free # {}
  <2>1. ch \in SccChan /\ SccRecv(ch, frame, delay) = new
    BY <1>3 DEF SccRecv, RingOK
  <2>2. \A i \in Buf : i \in free <=> i >= k
    BY <1>1, RingAssumption DEF Free, Buf
  <2>3. k \in Buf
    BY <1>3, <2>2, RingAssumption DEF Buf
  <2>4. k \in free /\ \A i \in free : k <= i
    BY <2>2, <2>3 DEF Buf
  <2>5. first \in free
    <3> HIDE DEF free
    <3> QED BY <2>4
  <2>6. ch.rx[slot].delay = Free BY <2>5
  <2>7. r.delay # 0 /\ r.delay # Free BY DEF Free
  <2> HIDE DEF slot, r
  <2>8. new.rx = [ch.rx EXCEPT ![slot] = r] /\ new.rxBufCur = ch.rxBufCur
    BY <2>1 DEF SccChan
  <2> HIDE DEF new
  <2>9. \A b \in Buf : b # slot => new.rx[b] = ch.rx[b] BY <2>1, <2>8, ChanFields
  <2>10. RxHasByte(ch) => RxHasByte(new)
    <3>1. RxHasByte(ch) => ch.rxBufCur # slot BY <2>6 DEF RxHasByte, Free
    <3> QED BY <2>1, <2>8, <2>9, <3>1, ChanFields DEF RxHasByte
  <2>11. Grows(ch, new) BY <2>6, <2>8, <2>9, <2>10 DEF Grows
  <2> QED BY <2>1, <2>11
<1> QED BY <1>2, <1>3

LEMMA RxBufTickGrows ==
  ASSUME NEW ch \in SccChan PROVE Grows(ch, RxBufTick(ch))
<1> DEFINE d == ch.rx[ch.rxBufCur].delay
           e == IF d > TickLen THEN d - TickLen ELSE 0
           new == [ch EXCEPT !.rx[ch.rxBufCur].delay = e]
<1>1. d \in Int /\ TickLen \in Nat \ {0} BY ChanFields, RingAssumption
<1>2. CASE d > 0
  <2>1. RxBufTick(ch) = new BY <1>2 DEF RxBufTick
  <2>2. e # Free /\ d # 0 BY <1>1, <1>2 DEF Free
  <2>3. ~RxHasByte(ch) BY <2>2 DEF RxHasByte
  <2> HIDE DEF e, d
  <2>4. ch.rx \in [Buf -> RxBuf] /\ ch.rxBufCur \in Buf BY ChanFields
  <2>5. new.rx = [ch.rx EXCEPT ![ch.rxBufCur] = [@ EXCEPT !.delay = e]]
        /\ new.rxBufCur = ch.rxBufCur
    BY DEF SccChan
  <2> HIDE DEF new
  <2>6. ASSUME NEW b \in Buf, ch.rx[b].delay # Free
        PROVE  /\ new.rx[b].delay # Free
               /\ new.rx[b].len = ch.rx[b].len /\ new.rx[b].dest = ch.rx[b].dest
    <3>1. CASE b = ch.rxBufCur BY <2>2, <2>4, <2>5, <3>1 DEF RxBuf
    <3>2. CASE b # ch.rxBufCur BY <2>4, <2>5, <2>6, <3>2
    <3> QED BY <3>1, <3>2
  <2> QED BY <2>1, <2>3, <2>5, <2>6 DEF Grows
<1>3. CASE ~(d > 0)
  <2>1. RxBufTick(ch) = ch BY <1>3 DEF RxBufTick
  <2> QED BY <2>1, SameRxGrows DEF SameRx
<1> QED BY <1>2, <1>3

\* Giving up the rest of the current frame.
LEMMA IgnoreRestMoves ==
  ASSUME NEW ch, ChanOK(ch)
  PROVE  /\ Grows(ch, RxBufIgnoreRest(ch)) \/ GivesUp(ch, RxBufIgnoreRest(ch))
         /\ ch.rxPos = 0 => RxBufIgnoreRest(ch) = ch
<1> DEFINE new == [ch EXCEPT !.rx[ch.rxBufCur].delay = Free, !.rxBufCur = NextBuf(@), !.rxPos = 0]
<1>1. CASE ch.rxPos = 0
  BY <1>1, SameRxGrows DEF RxBufIgnoreRest, SameRx
<1>2. CASE ch.rxPos # 0
  <2>1. ch \in SccChan /\ RxBufIgnoreRest(ch) = new
    BY <1>2 DEF RxBufIgnoreRest, ChanOK, RingOK
  <2>2. RxHasByte(ch)
    BY <1>2, <2>1, ChanFields DEF ChanOK, RingOK, InFrame
  <2>3. /\ new.rx = [ch.rx EXCEPT ![ch.rxBufCur] = [@ EXCEPT !.delay = Free]]
        /\ new.rxBufCur = NextBuf(ch.rxBufCur)
    BY <2>1 DEF SccChan
  <2> QED BY <1>2, <2>1, <2>2, <2>3 DEF GivesUp
<1> QED BY <1>1, <1>2

LEMMA ReadByteMoves ==
  ASSUME NEW s, StateOK(s), NEW n \in Chan
  PROVE  Moved(s, ReadByte(s, n))
<1> DEFINE ch == s.chan[n]
           last == RxHasByte(ch) /\ RxBytesLeft(ch) = 1
           read == IF RxHasByte(ch) THEN RxByte(ch) ELSE ch
           abrt == IF last THEN 40 ELSE read.rxAbrtTimer
           new == [read EXCEPT !.rxEom = last, !.rxAbrtTimer = abrt]
           next == [ch EXCEPT !.rxPos = @ + 1]
           skipped == [next EXCEPT !.rx[next.rxBufCur].delay = Free,
                                   !.rxBufCur = NextBuf(@), !.rxPos = 0]
<1>1. s \in SccState /\ ch \in SccChan /\ ChanOK(ch)
  BY StateFields DEF StateOK
<1>2. ReadByte(s, n) = [s EXCEPT !.chan[n] = new]
  BY DEF ReadByte
<1>3. new \in SccChan
  <2> HIDE DEF new
  <2>1. [s EXCEPT !.chan[n] = new] \in SccState BY <1>2, ReadByteOK DEF StateOK
  <2>2. [s EXCEPT !.chan[n] = new].chan[n] = new BY <1>1 DEF SccState
  <2> QED BY <2>1, <2>2, StateFields
<1>4. new.rx = read.rx /\ new.rxBufCur = read.rxBufCur
  <2> HIDE DEF last, abrt, read
  <2> QED OBVIOUS
<1> HIDE DEF new
<1>5. CASE ~RxHasByte(ch)
  <2>1. SameRx(ch, new) BY <1>4, <1>5 DEF SameRx
  <2> QED BY <1>1, <1>2, <1>3, <2>1, SameRxGrows, SetChanMoved
<1>6. CASE RxHasByte(ch)
  <2>1. read \in {RxBufIgnoreRest(next), next} BY <1>6 DEF RxByte
  <2> HIDE DEF read
  <2>2. RxBufIgnoreRest(next) \in {skipped, next} BY DEF RxBufIgnoreRest
  <2>3. SameRx(ch, next) BY <1>1 DEF SccChan, SameRx
  <2>4. /\ skipped.rx = [next.rx EXCEPT ![next.rxBufCur] = [@ EXCEPT !.delay = Free]]
        /\ skipped.rxBufCur = NextBuf(next.rxBufCur)
    BY <1>1 DEF SccChan
  <2> HIDE DEF skipped, next
  <2>5. CASE read = next
    <3>1. SameRx(ch, new) BY <1>4, <2>3, <2>5 DEF SameRx
    <3> QED BY <1>1, <1>2, <1>3, <3>1, SameRxGrows, SetChanMoved
  <2>6. CASE read = skipped
    <3>1. GivesUp(ch, new) BY <1>4, <1>6, <2>3, <2>4, <2>6 DEF GivesUp, SameRx
    <3> QED BY <1>1, <1>2, <1>3, <3>1, SetChanMoved
  <2> QED BY <2>1, <2>2, <2>5, <2>6
<1> QED BY <1>5, <1>6

LEMMA RxTickGrown ==
  ASSUME NEW s, StateOK(s), NEW n \in Chan
  PROVE  Grown(s, RxTick(s, n))
<1> DEFINE ch == s.chan[n]
           ticked == RxBufTick(ch)
           later == [s EXCEPT !.chan[n] = ticked]
           cur == later.chan[n]
           buf == cur.rx[cur.rxBufCur]
           atStart == [later EXCEPT !.chan[n].rxPos = 0]
           p == later.intpending \cup {<<n, "EXT">>}
           marked == [atStart EXCEPT !.intpending = @ \cup {<<n, "EXT">>}]
           sync == IF "SYNC" \in cur.wr15 THEN RaiseInt(marked, n) ELSE atStart
           c == CheckRxIntPending(sync, n)
           two == [c.chan[n] EXCEPT !.hunting = FALSE]
           heard == [c EXCEPT !.chan[n] = two]
           three == [heard.chan[n] EXCEPT !.eofDelay = buf.len * 3]
           last == [heard EXCEPT !.chan[n] = three]
<1>1. s \in SccState /\ ch \in SccChan /\ ChanOK(ch)
  BY StateFields DEF StateOK
<1>2. ChanOK(ticked) /\ ticked \in SccChan /\ Grows(ch, ticked)
  BY <1>1, RxBufTickOK, RxBufTickGrows DEF ChanOK, RingOK
<1>3. RxTick(s, n) = IF RxBufExpires(ch) THEN TriggerRx(later, n) ELSE later
  BY DEF RxTick
<1>4. RxBufExpires(ch) => ticked.rxPos = 0
  <2>1. RxBufExpires(ch) => ~RxHasByte(ch) BY RingAssumption DEF RxBufExpires, RxHasByte
  <2>2. RxBufExpires(ch) => ch.rxPos = 0
    BY <1>1, <2>1, ChanFields DEF ChanOK, RingOK, InFrame
  <2>3. ticked.rxPos = ch.rxPos BY <1>1 DEF RxBufTick, SccChan
  <2> HIDE DEF ticked
  <2> QED BY <2>2, <2>3
<1> HIDE DEF ticked
<1>5. later \in SccState /\ Grown(s, later) BY <1>1, <1>2, SetChanGrown
<1>6. later \in SccState /\ later.chan[n] = ticked BY <1>1, <1>2, SetChan
<1>7. CASE ~RxBufExpires(ch)
  BY <1>3, <1>5, <1>7
<1>8. CASE RxBufExpires(ch) /\ buf.dest \in {Broadcast, cur.sdlcaddr}
  <2>1. TriggerRx(later, n) = [c EXCEPT !.chan[n].hunting = FALSE, !.chan[n].eofDelay = buf.len * 3]
    BY <1>8 DEF TriggerRx
  <2> HIDE DEF later
  <2>2. [cur EXCEPT !.rxPos = 0] \in SccChan /\ Grows(cur, [cur EXCEPT !.rxPos = 0])
    <3>1. /\ [cur EXCEPT !.rxPos = 0] \in SccChan
          /\ SameRx(cur, [cur EXCEPT !.rxPos = 0])
      BY <1>2, <1>6 DEF SccChan, SameRx
    <3> QED BY <3>1, SameRxGrows
  <2>3. atStart \in SccState /\ Grown(later, atStart) /\ atStart.intpending = later.intpending
    <3>1. atStart = [later EXCEPT !.chan[n] = [cur EXCEPT !.rxPos = 0]] OBVIOUS
    <3>2. atStart.intpending = later.intpending BY <1>5 DEF SccState
    <3> HIDE DEF atStart
    <3> QED BY <1>5, <2>2, <3>1, <3>2, SetChanGrown
  <2>4. marked = [atStart EXCEPT !.intpending = p] BY <2>3
  <2> HIDE DEF atStart
  <2>5. p \in SUBSET (Chan \X {"EXT", "RX"})
    BY <1>5, StateFields
  <2> HIDE DEF p
  <2>6. Quiet(marked, atStart) BY <2>3, <2>4, <2>5, SetPending
  <2>7. Quiet(RaiseInt(marked, n), marked) BY <2>6, RaiseIntQuiet DEF Quiet
  <2> HIDE DEF marked
  <2>8. sync \in SccState /\ Grown(atStart, sync)
    <3> DEFINE r == RaiseInt(marked, n)
    <3> HIDE DEF r
    <3>0. Quiet(r, atStart) BY <2>6, <2>7, QuietTrans DEF r
    <3>1. r \in SccState /\ Grown(atStart, r) BY <3>0, QuietGrown DEF Quiet
    <3>2. Grown(atStart, atStart) BY SameRxGrows DEF Grown, SameRx
    <3> QED BY <2>3, <3>1, <3>2 DEF r
  <2> HIDE DEF sync
  <2>9. c \in SccState /\ Grown(sync, c) BY <2>8, CheckRxQuiet, QuietGrown DEF Quiet
  <2> HIDE DEF c
  <2>10. c.chan[n] \in SccChan /\ buf.len * 3 \in Nat
    <3>1. cur \in SccChan BY <1>2, <1>6
    <3> QED BY <2>9, <3>1, StateFields, ChanFields
  <2>11. last = [c EXCEPT !.chan[n].hunting = FALSE, !.chan[n].eofDelay = buf.len * 3]
    BY <2>9
  <2> HIDE DEF cur, buf
  <2>12. two \in SccChan /\ SameRx(c.chan[n], two) BY <2>10 DEF SccChan, SameRx
  <2> HIDE DEF two
  <2>13. heard \in SccState /\ Grown(c, heard) BY <2>9, <2>12, SameRxGrows, SetChanGrown
  <2> HIDE DEF heard
  <2>14. three \in SccChan /\ SameRx(heard.chan[n], three)
    <3>1. heard.chan[n] \in SccChan BY <2>13, StateFields
    <3> QED BY <2>10, <3>1 DEF SccChan, SameRx
  <2> HIDE DEF three
  <2>15. Grown(heard, last) BY <2>13, <2>14, SameRxGrows, SetChanGrown
  <2>16. TriggerRx(later, n) = last BY <2>1, <2>11
  <2> HIDE DEF last
  <2>17. Grown(s, sync) BY <1>5, <2>3, <2>8, GrownTrans
  <2>18. Grown(c, last) BY <2>13, <2>15, GrownTrans
  <2>19. Grown(s, last) BY <2>9, <2>17, <2>18, GrownTrans
  <2> QED BY <1>3, <1>8, <2>16, <2>19
<1>9. CASE RxBufExpires(ch) /\ buf.dest \notin {Broadcast, cur.sdlcaddr}
  <2>1. TriggerRx(later, n) = [later EXCEPT !.chan[n] = RxBufIgnoreRest(cur)]
    BY <1>9 DEF TriggerRx
  <2>2. RxBufIgnoreRest(cur) = ticked BY <1>2, <1>4, <1>6, <1>9, IgnoreRestMoves
  <2>3. [later EXCEPT !.chan[n] = ticked] = later BY <1>1 DEF SccState
  <2> HIDE DEF later
  <2>4. TriggerRx(later, n) = later BY <2>1, <2>2, <2>3
  <2> QED BY <1>3, <1>5, <1>9, <2>4
<1> QED BY <1>7, <1>8, <1>9

LEMMA TxFinishedGrown ==
  ASSUME NEW s, NEW n \in Chan, RingsOK(s, n)
  PROVE  Grown(s, SccTxFinished(s, n))
<1> DEFINE data == s.chan[n].txData
           sent == LocaltalkSend(s, data)
           cts == [dest |-> data[1], len |-> 3]
           chB == SccRecv(s.chan[SCC_CHANB], cts, 3)
           replied == [s EXCEPT !.chan[SCC_CHANB] = chB]
           new == [sent.chan[n] EXCEPT !.txPos = 0]
<1>1. s \in SccState /\ SCC_CHANB \in Chan /\ s.chan[SCC_CHANB] \in SccChan
  BY StateFields DEF RingsOK, Chan
<1>2. cts \in [dest : Nat, len : Nat \ {0}]
  BY <1>1, DataFields
<1>3. chB \in SccChan /\ Grows(s.chan[SCC_CHANB], chB)
  BY <1>1, <1>2, RecvOK, RecvGrows DEF RingsOK, RingOK
<1>4. sent \in {replied, s}
  BY DEF LocaltalkSend
<1> HIDE DEF chB
<1>5. replied \in SccState /\ Grown(s, replied) BY <1>1, <1>3, SetChanGrown
<1>6. Grown(s, s) BY SameRxGrows DEF SameRx, Grown
<1> HIDE DEF replied
<1>7. sent \in SccState /\ Grown(s, sent) BY <1>1, <1>4, <1>5, <1>6
<1> HIDE DEF sent
<1>8. new \in SccChan /\ SameRx(sent.chan[n], new)
  <2>1. 0 \in 0 .. MaxTx BY DriverAssumption
  <2>2. sent.chan[n] \in SccChan BY <1>7, StateFields
  <2> QED BY <2>1, <2>2 DEF SccChan, SameRx
<1>9. SccTxFinished(s, n) = [sent EXCEPT !.chan[n] = new] BY DEF SccTxFinished, sent, new
<1> HIDE DEF new
<1>10. Grown(sent, [sent EXCEPT !.chan[n] = new]) BY <1>7, <1>8, SameRxGrows, SetChanGrown
<1> QED BY <1>7, <1>9, <1>10, GrownTrans

LEMMA TxTickGrown ==
  ASSUME NEW s, StateOK(s), NEW n \in Chan
  PROVE  Grown(s, TxTick(s, n))
<1> DEFINE ch == s.chan[n]
           t == Elapse(ch.txTimer)
           new == [ch EXCEPT !.txTimer = t]
           later == [s EXCEPT !.chan[n] = new]
<1>1. s \in SccState /\ ch \in SccChan /\ ChanOK(ch)
  BY StateFields DEF StateOK
<1>2. t \in Nat
  BY <1>1, ChanFields, ElapseType
<1>3. later = [s EXCEPT !.chan[n].txTimer = Elapse(@)]
  BY <1>1
<1> HIDE DEF t
<1>4. new \in SccChan /\ SameRing(new, ch) /\ SameRx(ch, new)
  BY <1>1, <1>2 DEF SccChan, SameRing, SameRx
<1>5. RingOK(new)
  BY <1>1, <1>4, SameRingOK DEF RingOK
<1> HIDE DEF new
<1>6. Grown(s, later) BY <1>1, <1>4, SameRxGrows, SetChanGrown
<1>7. RingsOK(later, n)
  BY <1>1, <1>4, <1>5, SetChan DEF RingsOK, StateOK, ChanOK
<1>8. TxTick(s, n) \in {SccTxFinished(later, n), later}
  BY <1>3 DEF TxTick
<1> HIDE DEF later
<1>9. Grown(later, SccTxFinished(later, n)) BY <1>7, TxFinishedGrown
<1> QED BY <1>6, <1>8, <1>9, GrownTrans

LEMMA TickChanGrown ==
  ASSUME NEW s, StateOK(s), NEW n \in Chan
  PROVE  Grown(s, TickChan(s, n))
<1> DEFINE tx == TxTick(s, n)
           rx == RxTick(tx, n)
           eof == EofTick(rx, n)
           end == AbortTick(eof, n)
<1>1. TickChan(s, n) \in {CheckExtInt(end, n), end}
  BY DEF TickChan
<1>2. StateOK(tx) /\ Grown(s, tx) BY TxTickOK, TxTickGrown
<1> HIDE DEF tx
<1>3. StateOK(rx) /\ Grown(tx, rx) BY <1>2, RxTickOK, RxTickGrown
<1> HIDE DEF rx
<1>4. StateOK(eof) /\ Grown(rx, eof) BY <1>3, EofTickOK, EofTickQuiet, QuietGrown
<1> HIDE DEF eof
<1>5. StateOK(end) /\ Grown(eof, end) BY <1>4, AbortTickOK, AbortTickQuiet, QuietGrown
<1> HIDE DEF end
<1>6. Grown(end, CheckExtInt(end, n)) BY <1>5, CheckExtIntQuiet, QuietGrown DEF StateOK
<1>7. Grown(s, end) BY <1>2, <1>3, <1>4, <1>5, GrownTrans
<1>8. Grown(s, CheckExtInt(end, n)) BY <1>6, <1>7, GrownTrans
<1> QED BY <1>1, <1>7, <1>8

LEMMA MovedSame ==
  ASSUME NEW s, NEW t, NEW u, Moved(s, t), \A m \in Chan : SameRx(t.chan[m], u.chan[m])
  PROVE  Moved(s, u)
<1>1. ASSUME NEW m \in Chan, Grows(s.chan[m], t.chan[m]) PROVE Grows(s.chan[m], u.chan[m])
  BY <1>1, SameRxGrows, GrowsTrans
<1>2. ASSUME NEW m \in Chan, GivesUp(s.chan[m], t.chan[m]) PROVE GivesUp(s.chan[m], u.chan[m])
  BY <1>2 DEF GivesUp, SameRx
<1> QED BY <1>1, <1>2 DEF Moved

LEMMA SetSameMoved ==
  ASSUME NEW s, NEW t \in SccState, Moved(s, t), NEW n \in Chan,
         NEW new \in SccChan, SameRx(t.chan[n], new)
  PROVE  Moved(s, [t EXCEPT !.chan[n] = new])
<1> DEFINE u == [t EXCEPT !.chan[n] = new]
<1>1. u \in SccState /\ u.chan[n] = new /\ \A m \in Chan : m # n => u.chan[m] = t.chan[m]
  BY SetChan
<1> HIDE DEF u
<1>2. \A m \in Chan : SameRx(t.chan[m], u.chan[m]) BY <1>1 DEF SameRx
<1>3. Moved(s, u) BY <1>2, MovedSame
<1> QED BY <1>3 DEF u

LEMMA HighMoved ==
  ASSUME NEW s, NEW t \in SccState, Moved(s, t), NEW n \in Chan, NEW high
  PROVE  Moved(s, Wr0High(t, n, high))
<1> DEFINE last == [t.chan[n] EXCEPT !.txTimer = 10]
<1>1. t.chan[n] \in SccChan BY StateFields
<1>2. last \in SccChan /\ SameRx(t.chan[n], last) BY <1>1 DEF SccChan, SameRx
<1>3. Wr0High(t, n, high) \in {[t EXCEPT !.chan[n] = last], t} BY DEF Wr0High
<1> HIDE DEF last
<1>4. Moved(s, [t EXCEPT !.chan[n] = last]) BY <1>2, SetSameMoved
<1> QED BY <1>3, <1>4

LEMMA Wr0Moved ==
  ASSUME NEW s, StateOK(s), NEW n \in Chan, NEW ptr \in 0 .. 7, NEW low, NEW high
  PROVE  Moved(s, Wr0(s, n, ptr, low, high))
<1> DEFINE r == IF low = "point_high" THEN ptr + 8 ELSE ptr
           sel == [s EXCEPT !.regptr = r]
           mid == Wr0Low(sel, n, low)
           fin == SccTxFinished(sel, n)
           one == [sel.chan[n] EXCEPT !.rr0Latched = NotLatched]
           two == [sel.chan[n] EXCEPT !.intOnNextRxChar = TRUE]
           three == RxBufIgnoreRest(sel.chan[n])
           Set(new) == [sel EXCEPT !.chan[n] = new]
<1>1. sel \in SccState /\ sel.chan = s.chan
  BY DEF StateOK, SccState
<1>2. StateOK(sel)
  BY <1>1 DEF StateOK
<1>3. Wr0(s, n, ptr, low, high) = Wr0High(mid, n, high)
  BY DEF Wr0
<1> HIDE DEF sel
<1>4. sel.chan[n] \in SccChan /\ ChanOK(sel.chan[n])
  BY <1>2, StateFields DEF StateOK
<1>5. /\ one \in SccChan /\ SameRx(sel.chan[n], one)
      /\ two \in SccChan /\ SameRx(sel.chan[n], two)
  BY <1>4 DEF SccChan, SameRx, NotLatched
<1>6. three \in SccChan /\ (Grows(sel.chan[n], three) \/ GivesUp(sel.chan[n], three))
  BY <1>4, IgnoreRestOK, IgnoreRestMoves DEF ChanOK, RingOK
<1>7. fin \in SccState /\ Moved(sel, fin)
  <2>1. RingsOK(sel, n)
    BY <1>2 DEF StateOK, RingsOK, ChanOK
  <2> QED BY <2>1, TxFinishedOK, TxFinishedGrown, GrownMoved DEF StateOK
<1>8. mid \in {Set(one), CheckRxIntPending(fin, n), CheckRxIntPending(Set(two), n),
               CheckRxIntPending(Set(three), n), sel}
  BY DEF Wr0Low
<1> HIDE DEF one, two, three, fin, mid
<1>9. ASSUME NEW new \in SccChan, Grows(sel.chan[n], new) \/ GivesUp(sel.chan[n], new)
      PROVE  Set(new) \in SccState /\ Moved(sel, Set(new))
  BY <1>1, <1>9, SetChanMoved
<1>10. /\ Set(one) \in SccState /\ Moved(sel, Set(one))
       /\ Set(two) \in SccState /\ Moved(sel, Set(two))
       /\ Set(three) \in SccState /\ Moved(sel, Set(three))
  BY <1>5, <1>6, <1>9, SameRxGrows
<1> HIDE DEF Set
<1>11. ASSUME NEW u \in SccState, Moved(sel, u)
       PROVE  CheckRxIntPending(u, n) \in SccState /\ Moved(sel, CheckRxIntPending(u, n))
  BY <1>11, CheckRxQuiet, MovedQuiet DEF Quiet
<1>12. mid \in SccState /\ Moved(sel, mid)
  <2>1. Moved(sel, sel) BY SameRxGrows DEF SameRx, Moved
  <2> QED BY <1>1, <1>7, <1>8, <1>10, <1>11, <2>1
<1>13. Moved(s, mid) BY <1>1, <1>12 DEF Moved
<1> QED BY <1>3, <1>12, <1>13, HighMoved

LEMMA DoneMoved ==
  ASSUME NEW t \in SccState, Moved(scc, t), NEW n \in Chan, Done(t, n)
  PROVE  Moved(scc, scc')
BY CheckExtIntQuiet, MovedQuiet DEF Done

LEMMA PlainMoved ==
  ASSUME NEW t, SameRings(t), NEW n \in Chan, Done(t, n)
  PROVE  Moved(scc, scc')
<1>1. t \in SccState /\ Moved(scc, t)
  BY SameRxGrows DEF SameRings, SameRing, SameRx, Moved
<1> QED BY <1>1, DoneMoved

LEMMA StepMoved ==
  ASSUME StateOK(scc), Next
  PROVE  Moved(scc, scc')
<1>1. StateOK(Call) /\ Call.chan = scc.chan /\ Call \in SccState
  BY CallOK DEF StateOK
<1>2. ASSUME NEW t, Moved(Call, t) PROVE Moved(scc, t)
  BY <1>1, <1>2 DEF Moved
<1>3. CASE SccTick
  <2> DEFINE a == TickChan(Call, SCC_CHANA)
  <2>1. SCC_CHANA \in Chan /\ SCC_CHANB \in Chan BY DEF Chan
  <2>2. StateOK(a) /\ Grown(Call, a) BY <1>1, <2>1, TickChanOK, TickChanGrown
  <2>3. scc' = TickChan(a, SCC_CHANB) BY <1>3 DEF SccTick
  <2> HIDE DEF a
  <2>4. Grown(a, scc') BY <2>1, <2>2, <2>3, TickChanGrown
  <2>5. Moved(Call, scc') BY <2>2, <2>4, GrownTrans, GrownMoved
  <2> QED BY <1>2, <2>5
<1>4. CASE Mouse
  <2>1. PICK n \in DcdChans, val \in BOOLEAN :
          scc' = CheckExtInt([Call EXCEPT !.chan[n].dcd = val], n)
    BY <1>4 DEF Mouse, SccSetDcd
  <2> DEFINE ch == [Call.chan[n] EXCEPT !.dcd = val]
             t == [Call EXCEPT !.chan[n] = ch]
  <2>2. n \in Chan BY DriverAssumption
  <2>3. Call.chan[n] \in SccChan BY <1>1, <2>2, StateFields
  <2>4. ch \in SccChan /\ SameRx(Call.chan[n], ch) BY <2>3 DEF SccChan, SameRx
  <2>5. scc' = CheckExtInt(t, n) BY <2>1
  <2> HIDE DEF ch
  <2>6. t \in SccState /\ Moved(Call, t) BY <1>1, <2>2, <2>4, SameRxGrows, SetChanMoved
  <2> HIDE DEF t
  <2>7. Moved(scc, t) BY <1>2, <2>6
  <2> QED BY <2>2, <2>5, <2>6, <2>7, DoneMoved DEF Done
<1>5. CASE Link
  <2>1. PICK n \in LinkChans, frame \in LinkFrames, delay \in LinkDelays :
          scc' = [Call EXCEPT !.chan[n] = SccRecv(@, frame, delay)]
    BY <1>5 DEF Link, LinkRecv
  <2> DEFINE ch == SccRecv(Call.chan[n], frame, delay)
  <2>2. n \in Chan /\ frame \in [dest : Nat, len : Nat \ {0}] /\ delay \in Nat \ {0}
    BY LinkAssumption
  <2>3. ChanOK(Call.chan[n]) BY <1>1, <2>2 DEF StateOK
  <2>4. ch \in SccChan /\ Grows(Call.chan[n], ch)
    BY <2>2, <2>3, RecvOK, RecvGrows DEF ChanOK, RingOK
  <2>5. scc' = [Call EXCEPT !.chan[n] = ch] BY <2>1
  <2> HIDE DEF ch
  <2> QED BY <1>1, <1>2, <2>2, <2>4, <2>5, SetChanMoved
<1>6. CASE IntAck
  <2>1. SCC_CHANB \in Chan BY DEF Chan
  <2> QED BY <1>6, <2>1, AckRings, PlainMoved
<1>7. ASSUME NEW n \in Chan, Write(n) PROVE Moved(scc, scc')
  <2>1. CASE \E ptr \in Pointers, low \in LowCmds, high \in HighCmds, s \in Access(0) :
               Done(Wr0(s, n, ptr, low, high), n)
    <3>1. PICK ptr \in Pointers, low \in LowCmds, high \in HighCmds, s \in Access(0) :
            Done(Wr0(s, n, ptr, low, high), n)
      BY <2>1
    <3>2. ptr \in 0 .. 7 /\ StateOK(s) /\ s.chan = scc.chan BY AccessOK, DriverAssumption
    <3>3. Wr0(s, n, ptr, low, high) \in SccState /\ Moved(s, Wr0(s, n, ptr, low, high))
      BY <3>2, Wr0OK, Wr0Moved DEF StateOK
    <3>4. Moved(scc, Wr0(s, n, ptr, low, high)) BY <3>2, <3>3 DEF Moved
    <3> QED BY <3>1, <3>3, <3>4, DoneMoved
  <2>2. CASE \E t : SameRings(t) /\ Done(t, n)
    BY <2>2, PlainMoved
  <2> QED BY <1>7, <2>1, <2>2, WriteRings
<1>8. ASSUME NEW n \in Chan, Read(n) PROVE Moved(scc, scc')
  <2>1. CASE ReadData(n)
    <3>1. PICK s \in Access(8) : Done(CheckRxIntPending(ReadByte(s, n), n), n)
      BY <2>1 DEF ReadData
    <3>2. StateOK(s) /\ s.chan = scc.chan BY AccessOK
    <3>3. ReadByte(s, n) \in SccState /\ Moved(s, ReadByte(s, n))
      BY <3>2, ReadByteOK, ReadByteMoves DEF StateOK
    <3> DEFINE t == CheckRxIntPending(ReadByte(s, n), n)
    <3>4. t \in SccState /\ Moved(s, t) BY <3>3, CheckRxQuiet, MovedQuiet DEF Quiet
    <3> HIDE DEF t
    <3>5. Moved(scc, t) BY <3>2, <3>4 DEF Moved
    <3> QED BY <3>1, <3>4, <3>5, DoneMoved DEF t
  <2> QED BY <1>8, <2>1, ReadRings, PlainMoved
<1>9. ASSUME NEW n \in DriverChans, Exit(n) PROVE Moved(scc, scc')
  <2>1. scc' = [scc EXCEPT !.exited = TRUE, !.irqs = 0]
    BY <1>9 DEF Exit
  <2>2. scc'.chan = scc.chan
    BY <2>1 DEF StateOK, SccState
  <2> QED BY <2>2, SameRxGrows DEF Moved, SameRx
<1>10. \A n \in DriverChans : n \in Chan BY DriverAssumption
<1> QED BY <1>3, <1>4, <1>5, <1>6, <1>7, <1>8, <1>9, <1>10 DEF Next, Bus

\* The frames are the first k buffers from rxBufCur on.
Filled(ch, k) == \A i \in Buf : i < k <=> ch.rx[Slot(ch, i)].delay # Free

LEMMA QueueIs ==
  ASSUME NEW ch \in SccChan, NEW k \in 0 .. NoRxBuf, Filled(ch, k)
  PROVE  QueueLen(ch) = k
<1> DEFINE T == {b \in Buf : ch.rx[b].delay # Free}
           f == [i \in 1 .. k |-> Slot(ch, i - 1)]
<1>1. NoRxBuf \in Nat /\ \A i \in 1 .. k : i - 1 \in Buf /\ i - 1 < k
  BY RingAssumption DEF Buf
<1>2. f \in [1 .. k -> T]
  <2>1. \A i \in 1 .. k : Slot(ch, i - 1) \in T BY <1>1, SlotInBuf DEF Filled
  <2> QED BY <2>1
<1>3. \A i, j \in 1 .. k : f[i] = f[j] => i = j
  <2>1. \A i, j \in 1 .. k : Slot(ch, i - 1) = Slot(ch, j - 1) => i - 1 = j - 1
    BY <1>1, SlotInBuf
  <2> QED BY <2>1
<1>4. \A b \in T : \E i \in 1 .. k : f[i] = b
  <2> SUFFICES ASSUME NEW b \in T PROVE \E i \in 1 .. k : f[i] = b OBVIOUS
  <2> DEFINE j == IF b >= ch.rxBufCur THEN b - ch.rxBufCur ELSE b - ch.rxBufCur + NoRxBuf
  <2>1. j \in Buf /\ Slot(ch, j) = b BY ChanFields, RingAssumption DEF Slot, Buf
  <2>2. j < k BY <2>1 DEF Filled
  <2>3. j + 1 \in 1 .. k /\ (j + 1) - 1 = j BY <2>1, <2>2 DEF Buf
  <2> HIDE DEF j
  <2>4. f[j + 1] = b BY <2>1, <2>3
  <2> QED BY <2>3, <2>4
<1>5. ExistsBijection(1 .. k, T)
  <2> HIDE DEF f, T
  <2> QED BY <1>2, <1>3, <1>4 DEF ExistsBijection, Bijection, Injection, Surjection, IsInjective
<1>6. IsFiniteSet(1 .. k) /\ Cardinality(1 .. k) = k
  <2>1. 1 \in Int /\ k \in Int /\ (1 > k => k = 0) /\ k - 1 + 1 = k BY <1>1
  <2> QED BY <2>1, FS_Interval
<1>7. Cardinality(T) = k BY <1>5, <1>6, FS_Bijection
<1> QED BY <1>7 DEF QueueLen

LEMMA RingFilled ==
  ASSUME NEW ch, RingOK(ch)
  PROVE  QueueLen(ch) \in 0 .. NoRxBuf /\ Filled(ch, QueueLen(ch))
<1>1. PICK k \in 0 .. NoRxBuf : \A i \in Buf :
        /\ i < k => ch.rx[Slot(ch, i)].delay >= 0 /\ ch.rx[Slot(ch, i)].len >= 3
        /\ i >= k => ch.rx[Slot(ch, i)].delay = Free
        /\ 0 < i /\ i < k => ch.rx[Slot(ch, i)].delay > 0
  BY DEF RingOK, RingContiguous
<1>2. Filled(ch, k) BY <1>1, RingAssumption DEF Filled, Free, Buf
<1>3. QueueLen(ch) = k BY <1>2, QueueIs DEF RingOK
<1> QED BY <1>2, <1>3

\* A channel whose ring only grows: frames join behind those already there.
LEMMA ArriveStep ==
  ASSUME NEW ch, RingOK(ch), NEW new, RingOK(new), Grows(ch, new)
  PROVE  /\ Len(Queue(new)) \in Len(Queue(ch)) .. NoRxBuf
         /\ SubSeq(Queue(new), 1, Len(Queue(ch))) = Queue(ch)
         /\ RxHasByte(ch) => RxHasByte(new)
         /\ RxHasByte(new) => Queue(new) # << >>
<1> DEFINE k == QueueLen(ch)
           l == QueueLen(new)
<1>1. /\ k \in 0 .. NoRxBuf /\ Filled(ch, k)
      /\ l \in 0 .. NoRxBuf /\ Filled(new, l)
      /\ ch \in SccChan /\ new \in SccChan
  BY RingFilled DEF RingOK
<1>2. NoRxBuf \in Nat \ {0} /\ Buf = 0 .. NoRxBuf - 1
  BY RingAssumption DEF Buf
<1> HIDE DEF k, l
<1>3. \A i \in Buf : Slot(new, i) = Slot(ch, i) /\ Slot(ch, i) \in Buf
  <2>1. \A i \in Buf : Slot(ch, i) \in Buf BY <1>1, SlotInBuf
  <2> QED BY <2>1 DEF Grows, Slot
<1>4. k <= l
  <2> SUFFICES ASSUME k > l PROVE FALSE BY <1>1, <1>2
  <2>1. l \in Buf /\ l < k /\ ~(l < l) BY <1>1, <1>2
  <2>2. ch.rx[Slot(ch, l)].delay # Free BY <1>1, <2>1 DEF Filled
  <2>3. new.rx[Slot(ch, l)].delay # Free BY <1>3, <2>1, <2>2 DEF Grows
  <2> QED BY <1>1, <1>3, <2>1, <2>3 DEF Filled
<1>5. \A i \in 1 .. k : Queue(new)[i] = Queue(ch)[i]
  <2> SUFFICES ASSUME NEW i \in 1 .. k PROVE Queue(new)[i] = Queue(ch)[i] OBVIOUS
  <2>1. i - 1 \in Buf /\ i - 1 < k /\ i \in 1 .. l BY <1>1, <1>2, <1>4
  <2> DEFINE b == Slot(ch, i - 1)
  <2>2. b \in Buf /\ Slot(new, i - 1) = b /\ ch.rx[b].delay # Free
    BY <1>1, <1>3, <2>1 DEF Filled
  <2>3. new.rx[b].len = ch.rx[b].len /\ new.rx[b].dest = ch.rx[b].dest
    BY <2>2 DEF Grows
  <2>4. Queue(ch)[i] = [dest |-> ch.rx[b].dest, len |-> ch.rx[b].len]
    BY DEF Queue, k
  <2>5. Queue(new)[i] = [dest |-> new.rx[Slot(new, i - 1)].dest, len |-> new.rx[Slot(new, i - 1)].len]
    BY <2>1 DEF Queue, l
  <2> QED BY <2>2, <2>3, <2>4, <2>5
<1>6. /\ Len(Queue(ch)) = k /\ Queue(ch) = [i \in 1 .. k |-> Queue(ch)[i]]
      /\ Len(Queue(new)) = l /\ Queue(new) = [i \in 1 .. l |-> Queue(new)[i]]
  BY <1>1 DEF Queue, k, l
<1>7. SubSeq(Queue(new), 1, k) = Queue(ch)
  <2> DEFINE p == Queue(ch)
             q == Queue(new)
  <2>1. SubSeq(q, 1, k) = [i \in 1 .. k |-> q[i]]
    BY <1>1, <1>4, <1>6
  <2> QED BY <1>5, <1>6, <2>1
<1>8. RxHasByte(new) => l # 0
  <2> SUFFICES ASSUME RxHasByte(new), l = 0 PROVE FALSE OBVIOUS
  <2>1. 0 \in Buf /\ Slot(new, 0) = new.rxBufCur BY <1>1, HeadSlot
  <2>2. new.rx[new.rxBufCur].delay = Free BY <1>1, <2>1 DEF Filled
  <2> QED BY <2>2 DEF RxHasByte, Free
<1>9. RxHasByte(ch) => RxHasByte(new) BY DEF Grows
<1> QED
  <2>1. Queue(new) = << >> => l = 0 BY <1>6
  <2> QED BY <1>1, <1>4, <1>6, <1>7, <1>8, <1>9, <2>1

\* A channel that gives up its head: the others move up.
LEMMA RetireStep ==
  ASSUME NEW ch, RingOK(ch), NEW new, RingOK(new), GivesUp(ch, new)
  PROVE  RxHasByte(ch) /\ Queue(new) = Tail(Queue(ch)) /\ ~RxHasByte(new)
<1> DEFINE k == QueueLen(ch)
           c == ch.rxBufCur
<1>1. /\ k \in 0 .. NoRxBuf /\ Filled(ch, k)
      /\ ch \in SccChan /\ new \in SccChan /\ RingContiguous(ch)
  BY RingFilled DEF RingOK
<1>2. NoRxBuf \in Nat \ {0} /\ Buf = 0 .. NoRxBuf - 1
  BY RingAssumption DEF Buf
<1>3. RxHasByte(ch) /\ ~RxHasByte(new)
  BY <1>1, NextNotReady DEF GivesUp
<1> HIDE DEF k
<1>4. k # 0
  <2> SUFFICES ASSUME k = 0 PROVE FALSE OBVIOUS
  <2>1. 0 \in Buf /\ Slot(ch, 0) = c BY <1>1, HeadSlot
  <2>2. ch.rx[c].delay = Free BY <1>1, <2>1 DEF Filled
  <2> QED BY <1>3, <2>2 DEF RxHasByte, Free
<1>5. c \in Buf /\ DOMAIN ch.rx = Buf
  BY <1>1, ChanFields
<1>6. /\ new.rx[c].delay = Free
      /\ \A b \in Buf : b # c => new.rx[b] = ch.rx[b]
  <2>1. ch.rx[c] \in RxBuf BY <1>1, <1>5, ChanFields
  <2> QED BY <1>5, <2>1 DEF GivesUp, RxBuf
<1>7. \A i \in Buf : /\ i + 1 \in Buf => Slot(new, i) = Slot(ch, i + 1) /\ Slot(new, i) # c
                     /\ i + 1 \notin Buf => Slot(new, i) = c
  <2>1. new.rxBufCur = NextBuf(ch.rxBufCur) BY DEF GivesUp
  <2> QED BY <1>1, <2>1, SlotAfterHead
<1>8. \A i \in Buf : i + 1 \in Buf => /\ Slot(ch, i + 1) \in Buf
                                      /\ new.rx[Slot(new, i)] = ch.rx[Slot(ch, i + 1)]
  <2>1. \A i \in Buf : Slot(ch, i) \in Buf BY <1>1, SlotInBuf
  <2> QED BY <1>6, <1>7, <2>1
<1>9. Filled(new, k - 1)
  <2> SUFFICES ASSUME NEW i \in Buf
               PROVE  i < k - 1 <=> new.rx[Slot(new, i)].delay # Free
    BY DEF Filled
  <2>1. CASE i + 1 \in Buf
    <3>1. i + 1 < k <=> ch.rx[Slot(ch, i + 1)].delay # Free BY <1>1, <2>1 DEF Filled
    <3>2. i + 1 < k <=> i < k - 1 BY <1>1, <1>2
    <3> QED BY <1>8, <2>1, <3>1, <3>2
  <2>2. CASE i + 1 \notin Buf
    <3>1. ~(i < k - 1) BY <1>1, <1>2, <2>2
    <3> QED BY <1>6, <1>7, <2>2, <3>1
  <2> QED BY <2>1, <2>2
<1>10. QueueLen(new) = k - 1
  <2>1. k - 1 \in 0 .. NoRxBuf BY <1>1, <1>2, <1>4
  <2> QED BY <1>1, <1>9, <2>1, QueueIs
<1>11. \A i \in 1 .. k - 1 : Queue(new)[i] = Queue(ch)[i + 1]
  <2> SUFFICES ASSUME NEW i \in 1 .. k - 1 PROVE Queue(new)[i] = Queue(ch)[i + 1] OBVIOUS
  <2>1. i - 1 \in Buf /\ (i - 1) + 1 \in Buf /\ (i - 1) + 1 = i /\ i + 1 \in 1 .. k /\ (i + 1) - 1 = i
    BY <1>1, <1>2
  <2>2. new.rx[Slot(new, i - 1)] = ch.rx[Slot(ch, i)] BY <1>8, <2>1
  <2>3. Queue(ch)[i + 1] = [dest |-> ch.rx[Slot(ch, i)].dest, len |-> ch.rx[Slot(ch, i)].len]
    BY <2>1 DEF Queue, k
  <2>4. Queue(new)[i] = [dest |-> new.rx[Slot(new, i - 1)].dest, len |-> new.rx[Slot(new, i - 1)].len]
    BY <1>10, <2>1 DEF Queue
  <2> QED BY <2>2, <2>3, <2>4
<1>12. /\ Len(Queue(ch)) = k /\ Queue(ch) = [i \in 1 .. k |-> Queue(ch)[i]]
       /\ Queue(new) = [i \in 1 .. k - 1 |-> Queue(new)[i]]
  <2>1. k - 1 \in Nat BY <1>1, <1>4
  <2> QED BY <1>1, <1>10, <2>1 DEF Queue, k
<1>13. Tail(Queue(ch)) = [i \in 1 .. k - 1 |-> Queue(ch)[i + 1]]
  BY <1>1, <1>4, <1>12
<1>14. Queue(new) = Tail(Queue(ch))
  BY <1>11, <1>12, <1>13
<1> QED BY <1>3, <1>14

LEMMA FifoStep == StateOK(scc) /\ StateOK(scc)' /\ [Next]_vars =>
                    [Fifo!Next]_<<Queue(scc.chan[SCC_CHANB]), RxHasByte(scc.chan[SCC_CHANB])>>
<1> SUFFICES ASSUME StateOK(scc), StateOK(scc'), Next
             PROVE  Fifo!Next
  BY DEF StateOK, vars
<1> DEFINE ch == scc.chan[SCC_CHANB]
           new == scc'.chan[SCC_CHANB]
<1>1. SCC_CHANB \in Chan BY DEF Chan
<1>2. RingOK(ch) /\ RingOK(new) BY <1>1 DEF StateOK, ChanOK
<1>3. Grows(ch, new) \/ GivesUp(ch, new) BY <1>1, StepMoved DEF Moved
<1>4. CASE Grows(ch, new)
  <2>1. Fifo!Arrive
    <3> HIDE DEF ch, new
    <3>1. /\ Len(Queue(new)) \in Len(Queue(ch)) .. NoRxBuf
          /\ SubSeq(Queue(new), 1, Len(Queue(ch))) = Queue(ch)
          /\ RxHasByte(ch) => RxHasByte(new)
          /\ RxHasByte(new) => Queue(new) # << >>
      BY <1>2, <1>4, ArriveStep
    <3> QED BY <3>1 DEF Fifo!Arrive, ch, new
  <2> QED BY <2>1 DEF Fifo!Next
<1>5. CASE GivesUp(ch, new)
  <2> HIDE DEF ch, new
  <2>1. RxHasByte(ch) /\ Queue(new) = Tail(Queue(ch)) /\ ~RxHasByte(new)
    BY <1>2, <1>5, RetireStep
  <2>2. RxHasByte(new) \in BOOLEAN BY DEF RxHasByte
  <2>3. Fifo!Retire BY <2>1, <2>2 DEF Fifo!Retire, ch, new
  <2> QED BY <2>3 DEF Fifo!Next
<1> QED BY <1>3, <1>4, <1>5

-----------------------------------------------------------------------------
(* The theorems.                                                           *)

LEMMA InitOK == Init => StateOK(scc)
<1> SUFFICES ASSUME Init PROVE StateOK(scc)
  OBVIOUS
<1>1. 0 \in Buf /\ 0 \in 0 .. MaxTx
  BY RingAssumption, DriverAssumption DEF Buf
<1>2. /\ [b \in Buf |-> [delay |-> Free, len |-> 0, dest |-> 0]] \in [Buf -> RxBuf]
      /\ [i \in 0 .. MaxTx - 1 |-> 0] \in [0 .. MaxTx - 1 -> Nat]
  BY DEF RxBuf, Free
<1>3. {"RX", "TXE", "CTS", "DCD", "EOM"} \subseteq Rr0Flags
  BY DEF Rr0Flags, ExtFlags
<1>4. /\ InitChan \in SccChan /\ InitChan.rxPos = 0 /\ InitChan.txPos = 0
      /\ InitChan.rx = [b \in Buf |-> [delay |-> Free, len |-> 0, dest |-> 0]]
  BY <1>1, <1>2, <1>3 DEF InitChan, SccChan, NotLatched
<1>5. RingContiguous(InitChan)
  <2>1. \A i \in Buf : InitChan.rx[Slot(InitChan, i)].delay = Free
    BY <1>4, SlotInBuf
  <2>2. 0 \in 0 .. NoRxBuf /\ \A i \in Buf : ~(i < 0)
    BY RingAssumption DEF Buf
  <2> QED BY <2>1, <2>2 DEF RingContiguous
<1>6. ChanOK(InitChan)
  BY <1>4, <1>5 DEF ChanOK, RingOK, InFrame, EomInFrame, TxCovered
<1>7. scc \in SccState /\ \A n \in Chan : scc.chan[n] = InitChan
  BY <1>4 DEF Init, SccState
<1> QED BY <1>6, <1>7 DEF StateOK

LEMMA NextOK == StateOK(scc) /\ [Next]_vars => StateOK(scc)'
<1> SUFFICES ASSUME StateOK(scc), [Next]_vars PROVE StateOK(scc)'
  OBVIOUS
<1>1. StateOK(Call) /\ Call.chan = scc.chan
  BY CallOK
<1>2. CASE SccTick
  <2>1. SCC_CHANA \in Chan /\ SCC_CHANB \in Chan
    BY DEF Chan
  <2>2. StateOK(scc')
    BY <1>1, <1>2, <2>1, TickChanOK DEF SccTick
  <2> QED BY <2>2 DEF StateOK
<1>3. CASE Mouse
  <2>1. PICK n \in DcdChans, val \in BOOLEAN :
          scc' = CheckExtInt([Call EXCEPT !.chan[n].dcd = val], n)
    BY <1>3 DEF Mouse, SccSetDcd
  <2>2. n \in Chan
    BY DriverAssumption
  <2>3. Call.chan[n] \in SccChan
    BY <1>1, <2>2, StateFields DEF StateOK
  <2>4. LET new == [Call.chan[n] EXCEPT !.dcd = val]
        IN  new \in SccChan /\ SameRing(new, Call.chan[n]) /\ SameTx(new, Call.chan[n])
    BY <2>3 DEF SccChan, SameRing, SameTx
  <2>5. StateOK([Call EXCEPT !.chan[n].dcd = val])
    BY <1>1, <2>2, <2>4, FlagOK
  <2> QED BY <2>1, <2>2, <2>5, DoneOK DEF Done
<1>4. CASE Link
  <2>1. PICK n \in LinkChans, frame \in LinkFrames, delay \in LinkDelays :
          scc' = [Call EXCEPT !.chan[n] = SccRecv(@, frame, delay)]
    BY <1>4 DEF Link, LinkRecv
  <2>2. n \in Chan /\ frame \in [dest : Nat, len : Nat \ {0}] /\ delay \in Nat \ {0}
    BY LinkAssumption
  <2>3. ChanOK(Call.chan[n])
    BY <1>1, <2>2 DEF StateOK
  <2>4. ChanOK(SccRecv(Call.chan[n], frame, delay))
    BY <2>2, <2>3, RecvOK DEF ChanOK, SameTx, TxCovered
  <2>5. StateOK(scc')
    BY <1>1, <2>1, <2>2, <2>4, SetChanOK
  <2> QED BY <2>5 DEF StateOK
<1>5. CASE IntAck
  <2>1. SCC_CHANB \in Chan
    BY DEF Chan
  <2> QED BY <1>5, <2>1, AccessOK, IntAckOK, DoneOK DEF IntAck
<1>6. ASSUME NEW n \in DriverChans, Write(n) \/ Read(n) \/ Exit(n)
      PROVE  StateOK(scc)'
  <2>1. n \in Chan
    BY DriverAssumption
  <2>2. CASE Exit(n)
    <3>1. scc' = [scc EXCEPT !.exited = TRUE, !.irqs = 0]
      BY <2>2 DEF Exit
    <3>2. scc' \in SccState /\ scc'.chan = scc.chan
      BY <3>1 DEF StateOK, SccState
    <3> QED BY <3>2 DEF StateOK
  <2> QED BY <1>6, <2>1, <2>2, WriteOK, ReadOK
<1>7. CASE UNCHANGED vars
  BY <1>7 DEF vars, StateOK
<1> QED BY <1>2, <1>3, <1>4, <1>5, <1>6, <1>7 DEF Next, Bus

LEMMA Invariance == Spec => []StateOK(scc)
BY InitOK, NextOK, PTL DEF Spec

SeenAll == \A m \in Chan : Seen(scc.chan[m])

\* Only sccSetDcd moves a line.
LEMMA LineKept ==
  ASSUME StateOK(scc),
         IntAck \/ SccTick \/ Link \/ \E n \in DriverChans : Write(n) \/ Read(n) \/ Exit(n)
  PROVE  \A m \in Chan : /\ scc'.chan[m].dcd = scc.chan[m].dcd
                         /\ Seen(scc.chan[m]) => Seen(scc'.chan[m])
<1>1. ASSUME NEW t, Tells(t, scc'),
             \A m \in Chan : /\ t.chan[m].dcd = scc.chan[m].dcd
                             /\ t.chan[m].rr0Prev = scc.chan[m].rr0Prev
      PROVE  \A m \in Chan : /\ scc'.chan[m].dcd = scc.chan[m].dcd
                             /\ Seen(scc.chan[m]) => Seen(scc'.chan[m])
  BY <1>1 DEF Tells, Line, Seen
<1>2. CASE IntAck
  <2>1. PICK t \in SccState : t.chan = scc.chan /\ Tells(t, scc') BY <1>2, AckTells
  <2> QED BY <1>1, <2>1
<1>3. CASE SccTick \/ Link \/ \E n \in DriverChans : Write(n) \/ Read(n) \/ Exit(n)
  <2>1. PICK t : Base(t) /\ Tells(t, scc') BY <1>3, StepTells
  <2> QED BY <1>1, <2>1 DEF Base
<1> QED BY <1>2, <1>3

LEMMA SeenAlways == Spec => []SeenAll
<1>1. Init => SeenAll
  <2>1. Seen(InitChan) BY DEF Seen, InitChan
  <2> QED BY <2>1 DEF Init, SeenAll
<1>2. StateOK(scc) /\ SeenAll /\ [Next]_vars => SeenAll'
  <2> SUFFICES ASSUME StateOK(scc), SeenAll, [Next]_vars
               PROVE  \A m \in Chan : Seen(scc'.chan[m])
    BY DEF SeenAll, Seen
  <2>1. CASE Mouse BY <2>1, MouseTells DEF SeenAll
  <2>2. CASE IntAck \/ SccTick \/ Link \/ \E n \in DriverChans : Write(n) \/ Read(n) \/ Exit(n)
    BY <2>2, LineKept DEF SeenAll
  <2>3. CASE UNCHANGED vars BY <2>3 DEF vars, SeenAll
  <2> QED BY <2>1, <2>2, <2>3 DEF Next, Bus
<1> QED BY <1>1, <1>2, Invariance, PTL DEF Spec

\* Every field keeps its range, for every ring size, frame set and driver.
THEOREM TypeCorrect == Spec => []TypeOK
<1>1. StateOK(scc) => TypeOK
  BY DEF StateOK, TypeOK
<1> QED BY <1>1, Invariance, PTL

\* The receive ring stays gap-free from rxBufCur on, and only its head is
\* ever readable: sccRecv's search, rxBufIgnoreRest and rxBufTick keep order.
THEOREM RingInOrder == Spec => []RxRing
<1>1. StateOK(scc) => RxRing
  BY DEF StateOK, ChanOK, RingOK, RxRing
<1> QED BY <1>1, Invariance, PTL

\* The read cursor never leaves a readable frame, and within it the end-of-frame
\* status is up exactly before the last byte.
THEOREM CursorSafe == Spec => []CursorExact
<1>1. StateOK(scc) => CursorExact
  BY DEF StateOK, ChanOK, RingOK, CursorExact
<1> QED BY <1>1, Invariance, PTL

\* Written bytes never wait without the transmit timer.
THEOREM TxTimed == Spec => []TxTimerCovers
<1>1. StateOK(scc) => TxTimerCovers
  BY DEF StateOK, ChanOK, TxTimerCovers
<1> QED BY <1>1, Invariance, PTL

\* Whatever a call of the controller makes pending on an enabled channel, the
\* same call signals: no path of scc.c sets intpending and forgets raiseInt.
THEOREM PendingIsSignalled == Spec => PendingSignalled
<1> DEFINE A == \A p \in scc'.intpending \ scc.intpending : scc'.chan[p[1]].wr1.ena => scc'.irqs > 0
<1>1. ASSUME NEW t \in SccState, t.irqs = 0, t.intpending \subseteq scc.intpending, Tells(t, scc')
      PROVE  A
  BY <1>1 DEF Tells
<1>2. ASSUME StateOK(scc), SeenAll, [Next]_vars PROVE [A]_vars
  <2>1. CASE IntAck BY <1>2, <2>1, <1>1, AckTells
  <2>2. CASE Mouse BY <1>2, <2>2, <1>1, MouseTells DEF SeenAll
  <2>3. CASE SccTick \/ Link \/ \E n \in DriverChans : Write(n) \/ Read(n) \/ Exit(n)
    BY <1>2, <2>3, <1>1, StepTells DEF Base
  <2> HIDE DEF A
  <2>4. CASE UNCHANGED vars BY <2>4
  <2> QED BY <1>2, <2>1, <2>2, <2>3, <2>4 DEF Next, Bus
<1> QED BY <1>2, Invariance, SeenAlways, PTL DEF Spec, PendingSignalled

\* A step gives up one external condition at most, the acknowledged one, and
\* then raises the line again for every condition that is still pending.
THEOREM AckKeepsOthers == Spec => AckKeepsRest
<1> DEFINE gone == {p \in scc.intpending \ scc'.intpending : p[2] = "EXT"}
           A == gone # {} => /\ Cardinality(gone) = 1
                             /\ (\E p \in scc'.intpending : scc'.chan[p[1]].wr1.ena) => scc'.irqs > 0
<1>1. ASSUME NEW t \in SccState, NEW q, scc.intpending \ {q} \subseteq t.intpending, Tells(t, scc')
      PROVE  gone \subseteq {q}
  BY <1>1 DEF Tells
<1>2. ASSUME NEW t \in SccState, t.intpending = scc.intpending, Tells(t, scc')
      PROVE  A
  <2>1. gone = {} BY <1>2 DEF Tells
  <2> QED BY <2>1
<1>3. ASSUME StateOK(scc), SeenAll, [Next]_vars PROVE [A]_vars
  <2>1. CASE IntAck
    <3>1. /\ \E q : gone \subseteq {q}
          /\ (\E p \in scc'.intpending : scc'.chan[p[1]].wr1.ena) => scc'.irqs > 0
      BY <1>1, <1>3, <2>1, AckTells
    <3> HIDE DEF gone
    <3>2. gone # {} => Cardinality(gone) = 1
      <4>1. PICK q : gone \subseteq {q} BY <3>1
      <4>2. gone # {} => gone = {q} BY <4>1
      <4>3. Cardinality({q}) = 1 BY FS_Singleton
      <4> QED BY <4>2, <4>3
    <3> QED BY <3>1, <3>2
  <2>2. CASE Mouse
    <3>1. A BY <1>2, <1>3, <2>2, MouseTells DEF SeenAll
    <3> QED BY <3>1
  <2>3. CASE SccTick \/ Link \/ \E n \in DriverChans : Write(n) \/ Read(n) \/ Exit(n)
    <3>1. A BY <1>2, <1>3, <2>3, StepTells DEF Base
    <3> QED BY <3>1
  <2> HIDE DEF A
  <2>4. CASE UNCHANGED vars BY <2>4
  <2> QED BY <1>3, <2>1, <2>2, <2>3, <2>4 DEF Next, Bus
<1> QED BY <1>3, Invariance, SeenAlways, PTL DEF Spec, AckKeepsRest

\* No edge of a mouse line is lost: rr0Prev always knows the line's level, so
\* sccSetDcd finds every edge, and it stays pending until it is acknowledged.
THEOREM EdgeIsPending == Spec => DcdEdgePending
<1> DEFINE A == \A n \in Chan : /\ scc'.chan[n].dcd # scc.chan[n].dcd
                                /\ "DCD" \in scc.chan[n].wr15
                                => <<n, "EXT">> \in scc'.intpending
<1>1. ASSUME StateOK(scc), SeenAll, [Next]_vars PROVE [A]_vars
  <2>1. CASE Mouse BY <1>1, <2>1, MouseTells DEF SeenAll
  <2>2. CASE IntAck \/ SccTick \/ Link \/ \E n \in DriverChans : Write(n) \/ Read(n) \/ Exit(n)
    <3>1. \A n \in Chan : scc'.chan[n].dcd = scc.chan[n].dcd BY <1>1, <2>2, LineKept
    <3> QED BY <3>1
  <2> HIDE DEF A
  <2>3. CASE UNCHANGED vars BY <2>3
  <2> QED BY <1>1, <2>1, <2>2, <2>3 DEF Next, Bus
<1> QED BY <1>1, Invariance, SeenAlways, PTL DEF Spec, DcdEdgePending

\* In the mode "interrupt on all characters" no byte for this node comes up
\* for reading without its RX interrupt pending: triggerRx, the data register
\* and the WR0 commands all look at the ring after they have moved it.
THEOREM BytesInterrupt == Spec => EveryByteInterrupts
<1> DEFINE Bytes(n) ==
             LET old == scc.chan[n]
                 new == scc'.chan[n]
             IN  /\ NewByte(old, new) /\ old.wr1.mode = 2 /\ new.wr1.mode = 2
                 /\ new.rx[new.rxBufCur].dest \in {Broadcast, new.sdlcaddr}
                 => <<n, "RX">> \in scc'.intpending
           A == \A n \in Chan : Bytes(n)
<1>1. ASSUME StateOK(scc), Next PROVE A
  <2>1. PICK b : SameRings(b) /\ Hears(b, scc') BY <1>1, StepHears
  <2>2. ASSUME NEW n \in Chan, NewByte(scc.chan[n], scc'.chan[n]), scc'.chan[n].wr1.mode = 2,
               scc'.chan[n].rx[scc'.chan[n].rxBufCur].dest \in {Broadcast, scc'.chan[n].sdlcaddr}
        PROVE  <<n, "RX">> \in scc'.intpending
    <3>1. Waits(scc'.chan[n]) BY <2>2 DEF NewByte, Waits
    <3>2. ~(Waits(b.chan[n]) /\ scc'.chan[n].rxPos = b.chan[n].rxPos)
      BY <2>1, <2>2 DEF NewByte, Waits, SameRings, SameRing, RxHasByte
    <3> QED BY <2>1, <3>1, <3>2 DEF Hears
  <2> QED BY <2>2
<1>2. StateOK(scc) /\ [Next]_vars => [A]_vars
  <2> HIDE DEF A
  <2> QED BY <1>1
<1> QED BY <1>2, Invariance, PTL DEF Spec, EveryByteInterrupts

\* The receive ring of channel B is a bounded queue of frames: sccRecv appends,
\* the tick makes the first frame readable, and the data register and the
\* commands give up nothing but the readable frame at the head (RingIsFifo).
THEOREM RefinesFifo == Spec => RingIsFifo
<1> DEFINE ch == scc.chan[SCC_CHANB]
<1>1. Init => Fifo!Init
  <2> SUFFICES ASSUME Init PROVE Queue(ch) = << >> /\ RxHasByte(ch) = FALSE
    BY DEF Fifo!Init
  <2>1. SCC_CHANB \in Chan BY DEF Chan
  <2>2. RingOK(ch) BY <2>1, InitOK DEF StateOK, ChanOK
  <2>3. ch = InitChan BY <2>1 DEF Init
  <2>4. ch.rx = [b \in Buf |-> [delay |-> Free, len |-> 0, dest |-> 0]]
    BY <2>3 DEF InitChan
  <2>5. \A b \in Buf : ch.rx[b].delay = Free BY <2>4
  <2>6. ch.rxBufCur \in Buf BY <2>2, ChanFields DEF RingOK
  <2> HIDE DEF ch
  <2>7. QueueLen(ch) = 0 BY <2>5, FS_EmptySet DEF QueueLen
  <2>8. ~RxHasByte(ch) BY <2>5, <2>6 DEF RxHasByte, Free
  <2>9. RxHasByte(ch) \in BOOLEAN BY DEF RxHasByte
  <2>10. Queue(ch) = << >> BY <2>7 DEF Queue
  <2> QED BY <2>8, <2>9, <2>10
<1> QED BY <1>1, FifoStep, Invariance, PTL DEF Spec, RingIsFifo, Fifo!Spec
=============================================================================
