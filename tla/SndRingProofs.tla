--------------------------- MODULE SndRingProofs ----------------------------
(***************************************************************************)
(* Proofs about SndRing, for every size of ring, frame and chunk and every *)
(* interleaving of the two cores.                                          *)
(*                                                                         *)
(* While rp has not run past wp, what is fresh lies between the two, and   *)
(* the slots between them and those still to be pushed are fewer than the  *)
(* ring: sndDone has left that much room, and rp only gives more.  When rp *)
(* has run past wp nothing is fresh, and what is pushed does not become so *)
(* until wp has caught up, when the frame has the whole ring before it.    *)
(*                                                                         *)
(* While the time-out of the amplifier runs, every sample of a frame with  *)
(* a volume is as far behind wp as the muted frames since: when it runs    *)
(* out that would be more than the ring.                                   *)
(***************************************************************************)
EXTENDS SndRing, TLAPS

Pushing == emu \in {"store", "bump", "wrap"}
Fill == FillOf(wp, rp)
ToPush == IF emu = "wrap" THEN left - 1 ELSE left

Counts == (Pushing => left > 0) /\ (task # "i2s" => chunk > 0)
BehindEmpty == behind => fresh = {}
Room == ~behind /\ Pushing => Fill + ToPush < BufLen
Between ==
  ~behind => \A s \in fresh : FillOf(s, rp) < Fill \/ (emu = "bump" /\ s = wp)

IInv == TypeOK /\ Counts /\ BehindEmpty /\ Room /\ Between

-----------------------------------------------------------------------------
(* The distance of two indices of the ring.                                *)

LEMMA ModRange ==
  ASSUME NEW n \in Nat \ {0}, NEW x \in -n .. n
  PROVE  x % n = IF x = n \/ x = -n THEN 0 ELSE IF x < 0 THEN x + n ELSE x
<1>1. x % n \in 0 .. n - 1 OBVIOUS
<1>2. x = n * (x \div n) + (x % n) /\ x \div n \in Int OBVIOUS
<1>3. CASE x = n BY <1>3
<1>4. CASE x = -n BY <1>4
<1>5. CASE 0 < x /\ x < n BY <1>5
<1>6. CASE x = 0 BY <1>6
<1>7. CASE x < 0 /\ -n < x
  <2>1. PICK q \in Int : x = n * q + (x % n) BY <1>2
  <2>2. n * q < 0 /\ -2 * n < n * q BY <1>1, <1>7, <2>1
  <2>3. q < 0 /\ -2 < q BY <2>2
  <2>4. q = -1 BY <2>3
  <2> QED BY <1>7, <2>1, <2>4
<1> QED BY <1>3, <1>4, <1>5, <1>6, <1>7

LEMMA FillValue ==
  ASSUME NEW w \in 0 .. BufLen, NEW r \in 0 .. BufLen
  PROVE  FillOf(w, r) = IF w - r = BufLen \/ r - w = BufLen THEN 0
                        ELSE IF w < r THEN w - r + BufLen ELSE w - r
<1> DEFINE n == BufLen
           x == w - r
<1>1. n \in Nat \ {0} /\ x \in -n .. n BY RingAssumption
<1>2. FillOf(w, r) = x % n BY DEF FillOf
<1> HIDE DEF n, x
<1>3. x % n = IF x = n \/ x = -n THEN 0 ELSE IF x < 0 THEN x + n ELSE x BY <1>1, ModRange
<1> USE DEF n, x
<1>4. /\ w - r = -BufLen <=> r - w = BufLen
      /\ w - r < 0 <=> w < r
  BY RingAssumption
<1> QED BY <1>2, <1>3, <1>4

LEMMA FillRange ==
  ASSUME NEW w \in 0 .. BufLen, NEW r \in 0 .. BufLen
  PROVE  FillOf(w, r) \in 0 .. BufLen - 1
BY FillValue, RingAssumption

LEMMA FillUp ==
  ASSUME NEW w \in 0 .. BufLen - 1, NEW r \in 0 .. BufLen
  PROVE  FillOf(w + 1, r) = IF FillOf(w, r) = BufLen - 1 THEN 0 ELSE FillOf(w, r) + 1
<1>1. w \in 0 .. BufLen /\ w + 1 \in 0 .. BufLen /\ BufLen \in Nat \ {0} BY RingAssumption
<1> QED BY <1>1, FillValue

LEMMA FillDown ==
  ASSUME NEW w \in 0 .. BufLen, NEW r \in 0 .. BufLen - 1
  PROVE  FillOf(w, r + 1) = IF FillOf(w, r) = 0 THEN BufLen - 1 ELSE FillOf(w, r) - 1
<1>1. r \in 0 .. BufLen /\ r + 1 \in 0 .. BufLen /\ BufLen \in Nat \ {0} BY RingAssumption
<1> QED BY <1>1, FillValue

LEMMA FillWraps ==
  ASSUME NEW i \in 0 .. BufLen
  PROVE  FillOf(0, i) = FillOf(BufLen, i) /\ FillOf(i, 0) = FillOf(i, BufLen)
<1>1. 0 \in 0 .. BufLen /\ BufLen \in 0 .. BufLen /\ BufLen \in Nat \ {0} BY RingAssumption
<1> QED BY <1>1, FillValue

LEMMA FillZero ==
  ASSUME NEW s \in 0 .. BufLen - 1, NEW r \in 0 .. BufLen - 1, FillOf(s, r) = 0
  PROVE  s = r
<1>1. s \in 0 .. BufLen /\ r \in 0 .. BufLen /\ BufLen \in Nat \ {0} BY RingAssumption
<1> QED BY <1>1, FillValue

-----------------------------------------------------------------------------
(* The steps.                                                              *)

LEMMA InitIInv == Init => IInv
<1> SUFFICES ASSUME Init PROVE IInv OBVIOUS
<1>1. BufLen \in Nat \ {0} /\ Lead \in 0 .. BufLen /\ Lead # BufLen /\ 0 # BufLen
      /\ Push \in Nat /\ Chunk \in Nat
  BY RingAssumption
<1>2. wp \in 0 .. BufLen /\ rp \in 0 .. BufLen /\ wp # BufLen /\ rp # BufLen
  BY <1>1 DEF Init
<1>3. left \in 0 .. Push /\ chunk \in 0 .. Chunk BY <1>1 DEF Init
<1>5. ampPowerTimeout \in -1 .. AmpFrames BY RingAssumption DEF Init
<1>4. TypeOK BY <1>2, <1>3, <1>5 DEF Init, TypeOK
<1> QED BY <1>4 DEF Init, IInv, Counts, BehindEmpty, Room, Between, Pushing

LEMMA StartKeeps == IInv /\ StartPush => IInv'
BY DEF StartPush, ring, core0, core1, IInv, TypeOK, Counts, BehindEmpty, Room, Between, Pushing, Fill

LEMMA WaitKeeps == IInv /\ Wait => IInv'
<1> SUFFICES ASSUME IInv, Wait PROVE IInv' OBVIOUS
<1>1. CASE SndDone(wp, rp)
  <2>1. emu' = "store" /\ left' = Push /\ ~behind' /\ UNCHANGED <<wp, rp, fresh, task, chunk>>
    BY <1>1 DEF Wait, ring, core0, core1
  <2>2. Fill < BufLen - Slack /\ Fill \in Int
    BY <1>1, FillRange DEF SndDone, Fill, IInv, TypeOK
  <2>3. TypeOK'
    <3>1. left' \in 0 .. Push BY <2>1, RingAssumption
    <3> QED BY <2>1, <3>1 DEF IInv, TypeOK, Wait
  <2>6. Counts'
    <3>1. left' > 0 BY <2>1, RingAssumption
    <3> QED BY <2>1, <3>1 DEF IInv, Counts
  <2>4. Room' BY <2>1, <2>2, RingAssumption DEF Room, Fill, ToPush
  <2>5. Between' BY <2>1 DEF IInv, Between, BehindEmpty, Fill, Wait
  <2> QED BY <2>1, <2>3, <2>4, <2>5, <2>6 DEF IInv, BehindEmpty
<1>2. CASE ~SndDone(wp, rp)
  BY <1>2 DEF Wait, ring, core0, core1, IInv, TypeOK, Counts, BehindEmpty, Room, Between, Pushing, Fill, ToPush
<1> QED BY <1>1, <1>2

LEMMA SwitchKeeps == IInv /\ SwitchAmp => IInv'
<1> SUFFICES ASSUME IInv, SwitchAmp PROVE IInv' OBVIOUS
<1>1. UNCHANGED <<wp, rp, fresh, behind, loud, left, task, chunk, volume>> /\ emu' = "frame"
  BY DEF SwitchAmp, ring, core1
<1>2. ampPowerTimeout' \in -1 .. AmpFrames /\ ampDis' \in BOOLEAN
  BY RingAssumption DEF SwitchAmp, IInv, TypeOK
<1>3. TypeOK' BY <1>1, <1>2 DEF SwitchAmp, IInv, TypeOK
<1> QED BY <1>1, <1>3 DEF IInv, Counts, BehindEmpty, Room, Between, Pushing, Fill, SwitchAmp

LEMMA StoreKeeps == IInv /\ Store => IInv'
<1> SUFFICES ASSUME IInv, Store PROVE IInv' OBVIOUS
<1>1. TypeOK' BY RingAssumption DEF Store, ring, core0, core1, IInv, TypeOK
<1>2. Counts' /\ BehindEmpty' BY DEF Store, ring, core0, core1, IInv, Counts, BehindEmpty, Pushing
<1>3. Room' BY DEF Store, ring, core0, core1, IInv, Room, Pushing, Fill, ToPush
<1>4. Between' BY DEF Store, ring, core0, core1, IInv, Between, Fill
<1> QED BY <1>1, <1>2, <1>3, <1>4 DEF IInv

LEMMA BumpKeeps == IInv /\ Bump => IInv'
<1> SUFFICES ASSUME IInv, Bump PROVE IInv' OBVIOUS
<1>1. wp \in 0 .. BufLen - 1 /\ wp \in 0 .. BufLen /\ rp \in 0 .. BufLen /\ left \in 1 .. Push
  BY RingAssumption DEF Bump, ring, core0, core1, IInv, TypeOK, Counts, Pushing
<1>2. /\ Fill' = FillOf(wp + 1, rp) /\ Fill \in 0 .. BufLen - 1
      /\ Fill' = IF Fill = BufLen - 1 THEN 0 ELSE Fill + 1
  BY <1>1, FillUp, FillRange DEF Bump, ring, core0, core1, Fill
<1>3. TypeOK' BY <1>1, RingAssumption DEF Bump, ring, core0, core1, IInv, TypeOK
<1>4. Counts' /\ BehindEmpty' BY DEF Bump, ring, core0, core1, IInv, Counts, BehindEmpty, Pushing
<1>5. ~behind => Fill + left < BufLen /\ Fill' = Fill + 1
  BY <1>1, <1>2, RingAssumption DEF Bump, ring, core0, core1, IInv, Room, Pushing, ToPush
<1>6. Room'
  <2> SUFFICES ASSUME ~behind' PROVE Fill' + (left - 1) < BufLen BY DEF Bump, ring, core0, core1, Room, ToPush
  <2>1. CASE ~behind BY <1>1, <1>2, <1>5, <2>1, RingAssumption
  <2>2. CASE behind
    <3>1. Fill' = 0 BY <1>2, <2>2 DEF Bump, ring, core0, core1
    <3> QED BY <1>1, <3>1, RingAssumption
  <2> QED BY <2>1, <2>2
<1>7. Between'
  <2>1. CASE behind BY <2>1 DEF Bump, ring, core0, core1, IInv, BehindEmpty, Between
  <2>2. ASSUME ~behind, NEW s \in fresh PROVE FillOf(s, rp) < Fill'
    <3>1. FillOf(s, rp) < Fill \/ s = wp BY <2>2 DEF IInv, Between
    <3>2. s \in 0 .. BufLen BY RingAssumption DEF IInv, TypeOK
    <3>3. FillOf(s, rp) \in Int BY <1>1, <3>2, FillRange
    <3> QED BY <1>2, <1>5, <2>2, <3>1, <3>3 DEF Fill
  <2> QED BY <2>1, <2>2 DEF Bump, ring, core0, core1, Between
<1> QED BY <1>3, <1>4, <1>6, <1>7 DEF IInv

LEMMA WrapWpKeeps == IInv /\ WrapWp => IInv'
<1> SUFFICES ASSUME IInv, WrapWp PROVE IInv' OBVIOUS
<1>1. BufLen \in Nat \ {0} /\ wp \in 0 .. BufLen /\ rp \in 0 .. BufLen /\ left \in 1 .. Push
  BY RingAssumption DEF WrapWp, ring, core0, core1, IInv, TypeOK, Counts, Pushing
<1>2. Fill' = Fill BY <1>1, FillWraps DEF WrapWp, ring, core0, core1, Fill
<1>3. TypeOK' BY <1>1, RingAssumption DEF WrapWp, ring, core0, core1, IInv, TypeOK
<1>4. Counts' /\ BehindEmpty'
  BY <1>1, RingAssumption DEF WrapWp, ring, core0, core1, IInv, Counts, BehindEmpty, Pushing
<1>5. Room' BY <1>1, <1>2 DEF WrapWp, ring, core0, core1, IInv, Room, Pushing, ToPush
<1>6. Between' BY <1>2 DEF WrapWp, ring, core0, core1, IInv, Between
<1> QED BY <1>3, <1>4, <1>5, <1>6 DEF IInv

LEMMA ChunkKeeps == IInv /\ (NextChunk \/ Take) => IInv'
<1> SUFFICES ASSUME IInv, NextChunk \/ Take PROVE IInv' OBVIOUS
<1>1. UNCHANGED <<wp, rp, fresh, behind, loud, emu, left, volume, ampDis, ampPowerTimeout>>
  BY DEF NextChunk, Take, ring, core0
<1>2. chunk' \in 0 .. Chunk /\ chunk' > 0
  <2>1. CASE NextChunk
    <3>1. chunk' = Chunk BY <2>1 DEF NextChunk
    <3> QED BY <3>1, RingAssumption
  <2>2. CASE Take BY <2>2 DEF Take, IInv, TypeOK, Counts
  <2> QED BY <2>1, <2>2
<1>3. task' \in {"take", "bump"} /\ task \in {"i2s", "take"} BY DEF NextChunk, Take
<1>4. TypeOK' BY <1>1, <1>2, <1>3 DEF IInv, TypeOK
<1>5. Counts' BY <1>1, <1>2 DEF IInv, Counts, Pushing
<1> QED BY <1>1, <1>4, <1>5 DEF IInv, BehindEmpty, Room, Between, Pushing, Fill, ToPush

LEMMA BumpRpKeeps == IInv /\ BumpRp => IInv'
<1> SUFFICES ASSUME IInv, BumpRp PROVE IInv' OBVIOUS
<1>1. BufLen \in Nat \ {0} /\ wp \in 0 .. BufLen /\ rp \in 0 .. BufLen - 1 /\ rp \in 0 .. BufLen
  BY RingAssumption DEF BumpRp, ring, core0, core1, IInv, TypeOK
<1>2. /\ Fill \in 0 .. BufLen - 1
      /\ Fill' = IF Fill = 0 THEN BufLen - 1 ELSE Fill - 1
  BY <1>1, FillDown, FillRange DEF BumpRp, ring, core0, core1, Fill
<1>3. TypeOK' BY <1>1, RingAssumption DEF BumpRp, ring, core0, core1, IInv, TypeOK
<1>4. Counts'
  <2>1. chunk > 0 /\ UNCHANGED <<emu, left, chunk>> BY DEF BumpRp, ring, core0, core1, IInv, Counts
  <2> QED BY <2>1 DEF IInv, Counts, Pushing
<1>5. ASSUME ~behind, Fill = 0 PROVE fresh' = {}
  <2> SUFFICES ASSUME NEW s \in fresh PROVE s = rp BY DEF BumpRp, ring, core0, core1
  <2>1. s \in 0 .. BufLen - 1 /\ s \in 0 .. BufLen BY <1>1 DEF IInv, TypeOK
  <2>2. FillOf(s, rp) \in 0 .. BufLen - 1 BY <1>1, <2>1, FillRange
  <2>3. ~(FillOf(s, rp) < 0) BY <1>1, <2>2
  <2>4. emu = "bump" /\ s = wp BY <1>5, <2>3 DEF IInv, Between
  <2> QED BY <1>1, <1>5, <2>1, <2>4, FillZero DEF Fill
<1>6. BehindEmpty' BY <1>5 DEF BumpRp, ring, core0, core1, IInv, BehindEmpty, Fill
<1>7. ~behind' => ~behind /\ Fill # 0 /\ Fill' = Fill - 1 BY <1>2 DEF BumpRp, ring, core0, core1, Fill, IInv, TypeOK
<1>8. Room'
  <2> SUFFICES ASSUME ~behind', Pushing PROVE Fill' + ToPush < BufLen
    BY DEF BumpRp, ring, core0, core1, Room, Pushing, ToPush
  <2>1. Fill + ToPush < BufLen BY <1>7 DEF IInv, Room
  <2>2. left \in Int BY RingAssumption DEF IInv, TypeOK
  <2>3. ToPush \in Int
    <3>1. CASE emu = "wrap" BY <2>2, <3>1 DEF ToPush
    <3>2. CASE emu # "wrap" BY <2>2, <3>2 DEF ToPush
    <3> QED BY <3>1, <3>2
  <2> QED BY <1>1, <1>2, <1>7, <2>1, <2>3
<1>9. Between'
  <2> SUFFICES ASSUME ~behind', NEW s \in fresh, s # rp
               PROVE  FillOf(s, rp + 1) < Fill' \/ (emu = "bump" /\ s = wp)
    BY DEF BumpRp, ring, core0, core1, Between
  <2>1. s \in 0 .. BufLen - 1 /\ s \in 0 .. BufLen BY <1>1 DEF IInv, TypeOK
  <2>2. FillOf(s, rp) # 0 BY <1>1, <2>1, FillZero
  <2>5. FillOf(s, rp) \in 0 .. BufLen - 1 BY <1>1, <2>1, FillRange
  <2>6. FillOf(s, rp) \in Int BY <1>1, <2>5
  <2>3. FillOf(s, rp + 1) = FillOf(s, rp) - 1 BY <1>1, <2>1, <2>2, FillDown
  <2>4. FillOf(s, rp) < Fill \/ (emu = "bump" /\ s = wp) BY <1>7 DEF IInv, Between
  <2> QED BY <1>2, <1>7, <2>3, <2>4, <2>6
<1> QED BY <1>3, <1>4, <1>6, <1>8, <1>9 DEF IInv

LEMMA WrapRpKeeps == IInv /\ WrapRp => IInv'
<1> SUFFICES ASSUME IInv, WrapRp PROVE IInv' OBVIOUS
<1>1. BufLen \in Nat \ {0} /\ wp \in 0 .. BufLen /\ rp \in 0 .. BufLen /\ chunk \in 1 .. Chunk
  BY RingAssumption DEF WrapRp, ring, core0, core1, IInv, TypeOK, Counts
<1>2. \A i \in 0 .. BufLen : FillOf(i, rp') = FillOf(i, rp) BY <1>1, FillWraps DEF WrapRp, ring, core0, core1
<1>3. Fill' = Fill BY <1>1, <1>2 DEF WrapRp, ring, core0, core1, Fill
<1>4. TypeOK' BY <1>1, RingAssumption DEF WrapRp, ring, core0, core1, IInv, TypeOK
<1>5. Counts' BY <1>1, RingAssumption DEF WrapRp, ring, core0, core1, IInv, Counts, Pushing
<1>6. BehindEmpty' /\ Room' BY <1>3 DEF WrapRp, ring, core0, core1, IInv, BehindEmpty, Room, Pushing, ToPush
<1>7. Between'
  <2>1. \A s \in fresh : s \in 0 .. BufLen BY <1>1 DEF IInv, TypeOK
  <2> QED BY <1>2, <1>3, <2>1 DEF WrapRp, ring, core0, core1, IInv, Between
<1> QED BY <1>4, <1>5, <1>6, <1>7 DEF IInv

-----------------------------------------------------------------------------
(* The amplifier.                                                          *)

Done ==
  IF emu \in {"store", "bump"} THEN Push - left
  ELSE IF emu = "wrap" THEN Push - left + 1
  ELSE IF emu = "amp" THEN Push ELSE 0
Owed == (AmpFrames - ampPowerTimeout) * Push
Loudly == volume /\ emu # "frame"
Far(s) == ~ampDis /\ ampPowerTimeout > 0 /\ FillOf(s, rp) + Owed + Done <= Fill
PushedOut == ~Loudly => \A s \in loud : Far(s)

LEMMA Numbers ==
  ASSUME IInv
  PROVE  /\ Push \in Nat /\ left \in Int /\ ampPowerTimeout \in Int /\ AmpFrames \in Nat
         /\ Fill \in 0 .. BufLen - 1 /\ Owed \in Int /\ Done \in Int
         /\ wp \in 0 .. BufLen /\ rp \in 0 .. BufLen
         /\ \A s \in loud : s \in 0 .. BufLen - 1 /\ s \in 0 .. BufLen /\ s \in fresh /\ ~behind
         /\ \A s \in loud : FillOf(s, rp) \in 0 .. BufLen - 1
<1>1. Push \in Nat /\ AmpFrames \in Nat /\ BufLen \in Nat BY RingAssumption
<1>2. left \in Int /\ ampPowerTimeout \in Int BY <1>1 DEF IInv, TypeOK
<1>3. wp \in 0 .. BufLen /\ rp \in 0 .. BufLen BY DEF IInv, TypeOK
<1>4. Fill \in 0 .. BufLen - 1 BY <1>3, FillRange DEF Fill
<1>5. Owed \in Int BY <1>1, <1>2 DEF Owed
<1>6. Done \in Int
  <2>1. Push - left \in Int /\ Push - left + 1 \in Int /\ Push \in Int BY <1>1, <1>2
  <2> QED BY <2>1 DEF Done
<1>7. ASSUME NEW s \in loud
      PROVE  s \in 0 .. BufLen - 1 /\ s \in 0 .. BufLen /\ s \in fresh /\ ~behind
  <2>1. s \in fresh BY DEF IInv, TypeOK
  <2>2. s \in 0 .. BufLen - 1 BY <2>1 DEF IInv, TypeOK
  <2> QED BY <1>1, <2>1, <2>2 DEF IInv, BehindEmpty
<1>8. \A s \in loud : FillOf(s, rp) \in 0 .. BufLen - 1 BY <1>3, <1>7, FillRange
<1> QED BY <1>1, <1>2, <1>3, <1>4, <1>5, <1>6, <1>7, <1>8

LEMMA StartFar == IInv /\ PushedOut /\ StartPush => PushedOut'
<1> SUFFICES ASSUME IInv, PushedOut, StartPush PROVE PushedOut' OBVIOUS
<1>1. /\ UNCHANGED <<wp, rp, loud, left, ampDis, ampPowerTimeout>>
      /\ emu = "frame" /\ emu' = "wait"
  BY DEF StartPush, ring
<1>2. Done = 0 /\ Done' = 0 /\ ~Loudly BY <1>1 DEF Done, Loudly
<1> QED BY <1>1, <1>2 DEF PushedOut, Far, Fill, Owed

LEMMA WaitFar == IInv /\ PushedOut /\ Wait => PushedOut'
<1> SUFFICES ASSUME IInv, PushedOut, Wait PROVE PushedOut' OBVIOUS
<1>1. UNCHANGED <<wp, rp, loud, volume, ampDis, ampPowerTimeout>> /\ emu = "wait"
  BY DEF Wait
<1>2. Done' = Done /\ Loudly' = Loudly
  <2>1. Push - Push = 0 BY Numbers
  <2> QED BY <1>1, <2>1 DEF Done, Loudly, Wait
<1> QED BY <1>1, <1>2 DEF PushedOut, Far, Fill, Owed

\* The time-out runs out behind AmpFrames muted frames: what was stored before them
\* would be a ring behind wp.
LEMMA SwitchFar ==
  ASSUME AmpFrames * Push >= BufLen, IInv, PushedOut, SwitchAmp
  PROVE  PushedOut'
<1>1. UNCHANGED <<wp, rp, loud, left, volume>> /\ emu = "amp" /\ emu' = "frame"
  BY DEF SwitchAmp, ring
<1>2. Done = Push /\ Done' = 0 /\ Fill' = Fill BY <1>1 DEF Done, Fill
<1> SUFFICES ASSUME NEW s \in loud PROVE Far(s)' BY <1>1 DEF PushedOut
<1>3. CASE volume
  <2>1. ampPowerTimeout' = AmpFrames /\ ~ampDis' BY <1>3 DEF SwitchAmp
  <2>2. Owed' = 0 BY <2>1, RingAssumption DEF Owed
  <2>3. FillOf(s, rp) < Fill BY <1>1, Numbers DEF IInv, Between
  <2> QED BY <1>1, <1>2, <2>1, <2>2, <2>3, Numbers, RingAssumption DEF Far
<1>4. CASE ~volume
  <2>1. ~ampDis /\ ampPowerTimeout > 0 /\ FillOf(s, rp) + Owed + Push <= Fill
    BY <1>2, <1>4 DEF PushedOut, Loudly, Far
  <2>2. ampPowerTimeout' = ampPowerTimeout - 1 /\ (ampDis' <=> ampPowerTimeout = 1)
    <3>1. ~(ampPowerTimeout < 0) BY <2>1, Numbers
    <3>2. ampPowerTimeout' = ampPowerTimeout - 1 BY <1>4, <3>1 DEF SwitchAmp
    <3>3. ampDis' <=> ampPowerTimeout = 1 BY <1>4, <2>1, Zenon DEF SwitchAmp
    <3> QED BY <3>2, <3>3
  <2>3. Owed' = Owed + Push
    <3> DEFINE a == AmpFrames - ampPowerTimeout
    <3>1. a \in Int /\ AmpFrames - ampPowerTimeout' = a + 1 BY <2>2, Numbers
    <3> HIDE DEF a
    <3>2. (a + 1) * Push = a * Push + Push BY <3>1, Numbers
    <3> USE DEF a
    <3> QED BY <3>1, <3>2 DEF Owed
  <2>4. ampPowerTimeout # 1
    <3> SUFFICES ASSUME ampPowerTimeout = 1 PROVE FALSE OBVIOUS
    <3>1. Owed' = AmpFrames * Push BY <2>2, Numbers DEF Owed
    <3>2. AmpFrames * Push \in Int /\ BufLen \in Int BY Numbers, RingAssumption
    <3> QED BY <2>1, <2>3, <3>1, <3>2, Numbers
  <2>5. ampPowerTimeout' > 0 /\ ~ampDis' BY <2>1, <2>2, <2>4, Numbers
  <2>6. FillOf(s, rp) + (Owed + Push) + 0 <= Fill BY <2>1, Numbers
  <2> QED BY <1>1, <1>2, <2>3, <2>5, <2>6 DEF Far
<1> QED BY <1>3, <1>4

LEMMA StoreFar == IInv /\ PushedOut /\ Store => PushedOut'
<1> SUFFICES ASSUME IInv, PushedOut, Store PROVE PushedOut' OBVIOUS
<1>1. UNCHANGED <<wp, rp, left, volume, ampDis, ampPowerTimeout>> /\ emu = "store" /\ emu' = "bump"
  BY DEF Store
<1>2. Done' = Done /\ Loudly' = Loudly BY <1>1 DEF Done, Loudly
<1>3. ~Loudly => loud' \subseteq loud BY <1>1 DEF Loudly, Store
<1> QED BY <1>1, <1>2, <1>3 DEF PushedOut, Far, Fill, Owed

LEMMA BumpFar == IInv /\ PushedOut /\ Bump => PushedOut'
<1> SUFFICES ASSUME IInv, PushedOut, Bump PROVE PushedOut' OBVIOUS
<1>1. /\ UNCHANGED <<rp, left, volume, loud, ampDis, ampPowerTimeout>>
      /\ emu = "bump" /\ emu' = "wrap" /\ wp' = wp + 1
  BY DEF Bump
<1>2. Loudly' = Loudly /\ Owed' = Owed BY <1>1 DEF Loudly, Owed
<1>3. Done' = Done + 1 BY <1>1, Numbers DEF Done
<1>4. ASSUME ~Loudly, NEW s \in loud PROVE Far(s)'
  <2>1. Far(s) BY <1>4 DEF PushedOut
  <2>2. ~behind BY Numbers
  <2>3. Fill + left < BufLen /\ left > 0
    BY <1>1, <2>2 DEF IInv, Room, Counts, Pushing, ToPush
  <2>4. wp \in 0 .. BufLen - 1 BY <1>1, RingAssumption DEF IInv, TypeOK
  <2>5. Fill # BufLen - 1 BY <2>3, Numbers, RingAssumption
  <2>6. Fill' = Fill + 1 BY <1>1, <2>4, <2>5, FillUp, Numbers DEF Fill
  <2>7. FillOf(s, rp) + Owed + (Done + 1) <= Fill + 1 BY <2>1, Numbers DEF Far
  <2> QED BY <1>1, <1>2, <1>3, <2>1, <2>6, <2>7 DEF Far
<1> QED BY <1>1, <1>2, <1>4 DEF PushedOut

LEMMA WrapFar == IInv /\ PushedOut /\ WrapWp => PushedOut'
<1> SUFFICES ASSUME IInv, PushedOut, WrapWp PROVE PushedOut' OBVIOUS
<1>1. /\ UNCHANGED <<rp, volume, loud, ampDis, ampPowerTimeout>> /\ emu = "wrap"
      /\ left' = left - 1 /\ emu' = IF left = 1 THEN "amp" ELSE "store"
  BY DEF WrapWp
<1>2. Loudly' = Loudly /\ Owed' = Owed BY <1>1 DEF Loudly, Owed
<1>3. Done' = Done
  <2>1. Done = Push - left + 1 BY <1>1 DEF Done
  <2>2. Done' = IF left = 1 THEN Push ELSE Push - (left - 1) BY <1>1 DEF Done
  <2> QED BY <2>1, <2>2, Numbers
<1>4. Fill' = Fill BY FillWraps, Numbers, RingAssumption DEF WrapWp, Fill
<1> QED BY <1>1, <1>2, <1>3, <1>4 DEF PushedOut, Far

LEMMA TaskFar == IInv /\ PushedOut /\ (NextChunk \/ Take) => PushedOut'
<1> SUFFICES ASSUME IInv, PushedOut, NextChunk \/ Take PROVE PushedOut' OBVIOUS
<1>1. UNCHANGED <<wp, rp, loud, emu, left, volume, ampDis, ampPowerTimeout>>
  BY DEF NextChunk, Take, ring, core0
<1> QED BY <1>1 DEF PushedOut, Far, Fill, Owed, Done, Loudly

\* rp comes nearer to a sample and to wp.
LEMMA BumpRpFar == IInv /\ PushedOut /\ BumpRp => PushedOut'
<1> SUFFICES ASSUME IInv, PushedOut, BumpRp PROVE PushedOut' OBVIOUS
<1>1. /\ UNCHANGED <<wp, emu, left, volume, ampDis, ampPowerTimeout>>
      /\ rp' = rp + 1 /\ loud' = loud \ {rp}
  BY DEF BumpRp, core0
<1>2. Loudly' = Loudly /\ Owed' = Owed /\ Done' = Done BY <1>1 DEF Loudly, Owed, Done
<1>3. rp \in 0 .. BufLen - 1 BY RingAssumption DEF BumpRp, IInv, TypeOK
<1>4. ASSUME ~Loudly, NEW s \in loud, s # rp PROVE Far(s)'
  <2>1. Far(s) BY <1>4 DEF PushedOut
  <2>2. FillOf(s, rp) # 0 BY <1>3, <1>4, FillZero, Numbers
  <2>3. FillOf(s, rp') = FillOf(s, rp) - 1 BY <1>1, <1>3, <2>2, FillDown, Numbers
  <2>4. FillOf(s, rp) < Fill \/ s = wp BY Numbers DEF IInv, Between
  <2>5. Fill # 0
    <3>1. FillOf(s, rp) > 0 BY <2>2, Numbers, RingAssumption
    <3> QED BY <2>2, <2>4, <3>1, Numbers DEF Fill
  <2>6. Fill' = Fill - 1 BY <1>1, <1>3, <2>5, FillDown, Numbers DEF Fill
  <2>7. (FillOf(s, rp) - 1) + Owed + Done <= Fill - 1 BY <2>1, Numbers DEF Far
  <2> QED BY <1>1, <1>2, <2>1, <2>3, <2>6, <2>7 DEF Far
<1> QED BY <1>1, <1>2, <1>4 DEF PushedOut

LEMMA WrapRpFar == IInv /\ PushedOut /\ WrapRp => PushedOut'
<1> SUFFICES ASSUME IInv, PushedOut, WrapRp PROVE PushedOut' OBVIOUS
<1>1. UNCHANGED <<wp, loud, emu, left, volume, ampDis, ampPowerTimeout>>
  BY DEF WrapRp, core0
<1>2. \A i \in 0 .. BufLen : FillOf(i, rp') = FillOf(i, rp)
  BY FillWraps, Numbers, RingAssumption DEF WrapRp
<1>3. Fill' = Fill BY <1>1, <1>2, Numbers DEF Fill
<1>4. Loudly' = Loudly /\ Owed' = Owed /\ Done' = Done BY <1>1 DEF Loudly, Owed, Done
<1>5. \A s \in loud : FillOf(s, rp') = FillOf(s, rp) BY <1>2, Numbers
<1> QED BY <1>1, <1>3, <1>4, <1>5 DEF PushedOut, Far

-----------------------------------------------------------------------------

\* The inductive invariant holds of every run.
THEOREM IInvHolds == Spec => []IInv
<1>1. IInv /\ UNCHANGED vars => IInv'
  BY DEF vars, ring, core0, core1, IInv, TypeOK, Counts, BehindEmpty, Room, Between, Pushing, Fill, ToPush
<1>2. IInv /\ [Next]_vars => IInv'
  BY <1>1, StartKeeps, WaitKeeps, SwitchKeeps, StoreKeeps, BumpKeeps, WrapWpKeeps, ChunkKeeps, BumpRpKeeps,
     WrapRpKeeps DEF Next, Core0, Core1
<1> QED BY <1>2, InitIInv, PTL DEF Spec

\* snd.c: the indices stay in the ring but for the moment between the increment and
\* the comparison.
THEOREM IndicesInRing == Spec => []TypeOK
<1>1. IInv => TypeOK BY DEF IInv
<1> QED BY <1>1, IInvHolds, PTL

\* sndPush: no sample stored ahead of rp is overwritten before rp has left it, in any
\* interleaving with sndTask and after any underrun.
THEOREM NothingOverwritten == Spec => NoOverwrite
<1> DEFINE Step == emu = "store" /\ emu' = "bump" => wp \notin fresh
<1>1. IInv => (emu = "store" => wp \notin fresh)
  <2> SUFFICES ASSUME IInv, emu = "store" PROVE wp \notin fresh OBVIOUS
  <2>1. CASE behind BY <2>1 DEF IInv, BehindEmpty
  <2>2. CASE ~behind
    <3>1. Fill \in Int BY FillRange DEF Fill, IInv, TypeOK
    <3> QED BY <2>2, <3>1 DEF IInv, Between, Fill
  <2> QED BY <2>1, <2>2
<1>2. IInv => [Step]_vars BY <1>1
<1> QED BY <1>2, IInvHolds, PTL DEF NoOverwrite

\* sndPush: if the muted frames of the time-out fill the ring, the amplifier is never
\* off while samples of an earlier frame with a volume wait to be played, whatever the
\* two cores do.
THEOREM AmplifierWaits == ASSUME AmpFrames * Push >= BufLen PROVE Spec => []AmpOutlastsSound
<1>1. Init => PushedOut BY DEF Init, PushedOut
<1>2. IInv /\ PushedOut /\ UNCHANGED vars => PushedOut'
  BY DEF vars, ring, core0, core1, PushedOut, Far, Fill, Owed, Done, Loudly
<1>3. IInv /\ PushedOut /\ [Next]_vars => PushedOut'
  BY <1>2, StartFar, WaitFar, SwitchFar, StoreFar, BumpFar, WrapFar, TaskFar, BumpRpFar,
     WrapRpFar DEF Next, Core0, Core1
<1>4. IInv /\ PushedOut => AmpOutlastsSound
  BY DEF PushedOut, Far, Loudly, AmpOutlastsSound
<1> QED BY <1>1, <1>3, <1>4, IInvHolds, PTL DEF Spec
=============================================================================
