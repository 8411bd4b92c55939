---------------------------- MODULE PortBProofs -----------------------------
(***************************************************************************)
(* Proofs about PortB, for every limit, movement and command.              *)
(*                                                                         *)
(* Chip and Mac only share three lines, yet they stay in step: the chip    *)
(* has the prefix of the word that the Mac has sent, then, if it is to     *)
(* read, the byte as it was with the ninth clock.                          *)
(*                                                                         *)
(* The Mac cannot see the position, only edges of QxA with the level of    *)
(* QxB.  An edge tells the direction because the two lines are a Gray code *)
(* and the position moves by one at most between two rounds.               *)
(***************************************************************************)
EXTENDS PortB, TLAPS

Integral == [Axes -> Int]

MouseTypes ==
  /\ left \in Integral /\ rp \in Integral /\ count \in Integral
  /\ hist \in [since : Int, unsaved : BOOLEAN, asked : Integral, clipped : [Axes -> BOOLEAN]]

IInv == MouseTypes /\ MouseFollows

LEMMA QuadValues ==
  ASSUME NEW n \in Int
  PROVE  /\ n % 4 = 0 => Mo!Quad(n) = <<0, 0>>
         /\ n % 4 = 1 => Mo!Quad(n) = <<1, 0>>
         /\ n % 4 = 2 => Mo!Quad(n) = <<1, 1>>
         /\ n % 4 = 3 => Mo!Quad(n) = <<0, 1>>
<1>1. n % 4 = 0 => Mo!Quad(n) = <<0, 0>> BY Z3 DEF Mo!Quad
<1>2. n % 4 = 1 => Mo!Quad(n) = <<1, 0>> BY Z3 DEF Mo!Quad
<1>3. n % 4 = 2 => Mo!Quad(n) = <<1, 1>> BY Z3 DEF Mo!Quad
<1>4. n % 4 = 3 => Mo!Quad(n) = <<0, 1>> BY Z3 DEF Mo!Quad
<1> QED BY <1>1, <1>2, <1>3, <1>4

\* What the Mac adds to its count for an edge is what half the position gains.
LEMMA EdgeIsHalf ==
  ASSUME NEW p \in Int, NEW q \in {p - 1, p, p + 1}
  PROVE  (IF Mo!Quad(p)[1] = Mo!Quad(q)[1] THEN 0
          ELSE IF Mo!Quad(q)[1] = Mo!Quad(q)[2] THEN -1 ELSE 1)
           = (q + 1) \div 2 - (p + 1) \div 2
<1>1. p % 4 \in 0 .. 3 OBVIOUS
<1>2. PICK k \in Int : p = 4 * k + (p % 4)
  <2>1. p = 4 * (p \div 4) + (p % 4) /\ p \div 4 \in Int OBVIOUS
  <2> QED BY <2>1
<1>3. CASE p % 4 = 0
  <2>1. p = 4 * k /\ (p + 1) \div 2 = 2 * k BY <1>2, <1>3
  <2>2. Mo!Quad(p) = <<0, 0>> BY <1>3, QuadValues
  <2>3. CASE q = p - 1
    <3>1. q % 4 = 3 /\ (q + 1) \div 2 = 2 * k BY <2>1, <2>3
    <3>2. Mo!Quad(q) = <<0, 1>> BY <3>1, QuadValues
    <3> QED BY <2>1, <2>2, <3>1, <3>2
  <2>4. CASE q = p BY <2>4
  <2>5. CASE q = p + 1
    <3>1. q % 4 = 1 /\ (q + 1) \div 2 = 2 * k + 1 BY <2>1, <2>5
    <3>2. Mo!Quad(q) = <<1, 0>> BY <3>1, QuadValues
    <3> QED BY <2>1, <2>2, <3>1, <3>2
  <2> QED BY <2>3, <2>4, <2>5
<1>4. CASE p % 4 = 1 BY <1>2, <1>4 DEF Mo!Quad
<1>5. CASE p % 4 = 2 BY <1>2, <1>5 DEF Mo!Quad
<1>6. CASE p % 4 = 3 BY <1>2, <1>6 DEF Mo!Quad
<1> QED BY <1>1, <1>3, <1>4, <1>5, <1>6

-----------------------------------------------------------------------------
(* The steps.                                                              *)

LEMMA InitIInv == Init => IInv
<1> SUFFICES ASSUME Init PROVE IInv OBVIOUS
<1> USE DEF Init, Mo!Init, Integral, Axes
<1>1. MouseTypes BY DEF MouseTypes, Fresh
<1>2. (0 + 1) \div 2 = 0 OBVIOUS
<1>3. MouseFollows
  <2> SUFFICES ASSUME NEW a \in Axes
               PROVE  /\ count[a] = (rp[a] + 1) \div 2
                      /\ left[a] + Mo!Turn(a) * rp[a] = hist.asked[a]
    BY DEF MouseFollows
  <2>1. count[a] = 0 /\ rp[a] = 0 /\ left[a] = 0 /\ hist.asked[a] = 0 BY DEF Fresh
  <2>2. Mo!Turn(a) \in Int BY DEF Mo!Turn
  <2> QED BY <1>2, <2>1, <2>2
<1> QED BY <1>1, <1>3 DEF IInv

\* The clock and the port leave the mouse alone.
LEMMA OthersKeep ==
  ASSUME IInv, UNCHANGED mouse, hist'.asked = hist.asked, hist'.clipped = hist.clipped,
         hist' \in [since : Int, unsaved : BOOLEAN, asked : Integral, clipped : [Axes -> BOOLEAN]]
  PROVE  IInv'
BY DEF IInv, MouseTypes, MouseFollows, mouse

LEMMA PortKeeps ==
  ASSUME IInv, NEW en, NEW dat, NEW clk, PortWrite(en, dat, clk)
  PROVE  /\ hist'.asked = hist.asked /\ hist'.clipped = hist.clipped
         /\ hist' \in [since : Int, unsaved : BOOLEAN, asked : Integral,
                       clipped : [Axes -> BOOLEAN]]
<1>1. hist \in [since : Int, unsaved : BOOLEAN, asked : Integral, clipped : [Axes -> BOOLEAN]]
  BY DEF IInv, MouseTypes
<1>2. CASE hist' = hist BY <1>1, <1>2
<1>3. CASE hist' = [hist EXCEPT !.since = 0, !.unsaved = FALSE]
  <2>1. hist' = [since |-> 0, unsaved |-> FALSE, asked |-> hist.asked, clipped |-> hist.clipped]
    BY <1>1, <1>3
  <2> QED BY <1>1, <2>1
<1>4. CASE hist' = [hist EXCEPT !.unsaved = TRUE]
  <2>1. hist' = [since |-> hist.since, unsaved |-> TRUE, asked |-> hist.asked,
                 clipped |-> hist.clipped]
    BY <1>1, <1>4
  <2> QED BY <1>1, <2>1
<1> QED BY <1>2, <1>3, <1>4 DEF PortWrite, saveRtcMem

LEMMA MacKeeps == IInv /\ Mac => IInv'
<1> SUFFICES ASSUME IInv, Mac PROVE IInv' OBVIOUS
<1>1. CASE hist' = hist BY <1>1, OthersKeep DEF Mac, IInv, MouseTypes
<1>2. ASSUME NEW en, NEW dat, NEW clk, PortWrite(en, dat, clk) PROVE IInv'
  BY <1>2, PortKeeps, OthersKeep DEF Mac
<1>3. ASSUME NEW op \in Ops, Begin(op) PROVE IInv' BY <1>2, <1>3 DEF Begin
<1>4. CASE Output \/ Input \/ Sample \/ Rest BY <1>1, <1>4 DEF Output, Input, Sample, Rest
<1>5. CASE Lower \/ Raise \/ Disturb \/ Finish \/ Abort
  BY <1>2, <1>5 DEF Lower, Raise, Disturb, Finish, Abort
<1> QED BY <1>3, <1>4, <1>5 DEF Mac

LEMMA TickKeeps == IInv /\ Tick => IInv'
<1> SUFFICES ASSUME IInv, Tick PROVE IInv' OBVIOUS
<1>1. hist' = [hist EXCEPT !.since = @ + 1] /\ UNCHANGED mouse BY DEF Tick
<1>2. hist.since + 1 \in Int BY DEF IInv, MouseTypes
<1> QED BY <1>1, <1>2, OthersKeep DEF IInv, MouseTypes

LEMMA MoveKeeps ==
  ASSUME IInv, NEW d \in [Axes -> Deltas], NEW b \in {0, 1}, Move(d, b)
  PROVE  IInv'
<1>1. d \in Integral BY PortBAssumption DEF Integral
<1>2. left \in Integral /\ rp \in Integral /\ count \in Integral /\ hist.asked \in Integral
      /\ hist.clipped \in [Axes -> BOOLEAN]
  BY DEF IInv, MouseTypes
<1>3. \A n \in Int : Mo!Clamp(n) \in Int BY PortBAssumption DEF Mo!Clamp
<1>4. left' = [a \in Axes |-> Mo!Clamp(left[a] + d[a])] /\ rp' = rp /\ count' = count
  BY DEF Move, Mo!mouseMove, Axes
<1>5. left' \in Integral BY <1>1, <1>2, <1>3, <1>4 DEF Integral
<1> DEFINE asked == [a \in Axes |-> hist.asked[a] + d[a]]
           clipped == [a \in Axes |-> hist.clipped[a] \/ left'[a] # left[a] + d[a]]
<1>6. asked \in Integral /\ clipped \in [Axes -> BOOLEAN] BY <1>1, <1>2 DEF Integral
<1>7. hist' = [hist EXCEPT !.asked = asked, !.clipped = clipped]
  BY DEF Move, IInv, MouseTypes
<1>8. \A a \in Axes : asked[a] = hist.asked[a] + d[a]
                       /\ (clipped[a] <=> hist.clipped[a] \/ left'[a] # left[a] + d[a])
  OBVIOUS
<1> HIDE DEF asked, clipped
<1>9. MouseTypes' BY <1>2, <1>4, <1>5, <1>6, <1>7 DEF IInv, MouseTypes
<1>10. hist'.asked = asked /\ hist'.clipped = clipped BY <1>7 DEF IInv, MouseTypes
<1>11. MouseFollows'
  <2> SUFFICES ASSUME NEW a \in Axes
               PROVE  /\ count'[a] = (rp'[a] + 1) \div 2
                      /\ ~hist'.clipped[a] => left'[a] + Mo!Turn(a) * rp'[a] = hist'.asked[a]
    BY DEF MouseFollows
  <2>1. count'[a] = (rp'[a] + 1) \div 2 BY <1>4 DEF IInv, MouseFollows
  <2>2. ASSUME ~hist'.clipped[a] PROVE left'[a] + Mo!Turn(a) * rp'[a] = hist'.asked[a]
    <3>1. ~hist.clipped[a] /\ left'[a] = left[a] + d[a] BY <1>8, <1>10, <2>2
    <3>2. left[a] + Mo!Turn(a) * rp[a] = hist.asked[a] BY <3>1 DEF IInv, MouseFollows
    <3>3. Mo!Turn(a) * rp[a] \in Int BY <1>2 DEF Mo!Turn, Integral
    <3>4. left[a] \in Int /\ d[a] \in Int /\ hist.asked[a] \in Int BY <1>1, <1>2 DEF Integral
    <3> QED BY <1>4, <1>8, <1>10, <3>1, <3>2, <3>3, <3>4
  <2> QED BY <2>1, <2>2
<1> QED BY <1>9, <1>11 DEF IInv

LEMMA RoundKeeps == IInv /\ MouseRound => IInv'
<1> SUFFICES ASSUME IInv, MouseRound PROVE IInv' OBVIOUS
<1>1. left \in Integral /\ rp \in Integral /\ count \in Integral
  BY DEF IInv, MouseTypes
<1>2. /\ left' = [a \in Axes |-> left[a] - Mo!Step(a)]
      /\ rp' = [a \in Axes |-> rp[a] + Mo!Turn(a) * Mo!Step(a)]
      /\ count' = [a \in Axes |-> count[a] + Edge(a)] /\ hist' = hist
  BY DEF MouseRound, Mo!mouseTick, Axes
<1>3. \A a \in Axes : Mo!Step(a) \in {-1, 0, 1} /\ Mo!Turn(a) \in {-1, 1}
  BY DEF Mo!Step, Mo!Turn
<1>4. ASSUME NEW a \in Axes
      PROVE  /\ left'[a] = left[a] - Mo!Step(a) /\ rp'[a] = rp[a] + Mo!Turn(a) * Mo!Step(a)
             /\ rp'[a] \in {rp[a] - 1, rp[a], rp[a] + 1} /\ rp[a] \in Int /\ left[a] \in Int
             /\ count'[a] = count[a] + Edge(a)
  <2>1. rp[a] \in Int /\ left[a] \in Int BY <1>1 DEF Integral
  <2>2. Mo!Turn(a) * Mo!Step(a) \in {-1, 0, 1} BY <1>3
  <2> QED BY <1>2, <2>1, <2>2
<1>5. \A a \in Axes : Edge(a) = ((rp'[a] + 1) \div 2) - ((rp[a] + 1) \div 2)
  BY <1>4, EdgeIsHalf DEF Edge
<1>6. MouseTypes'
  <2>1. \A a \in Axes : left[a] - Mo!Step(a) \in Int /\ rp[a] + Mo!Turn(a) * Mo!Step(a) \in Int
                         /\ count[a] + Edge(a) \in Int
    <3> TAKE a \in Axes
    <3>1. left'[a] \in Int /\ rp'[a] \in Int BY <1>3, <1>4
    <3>2. count[a] \in Int BY <1>1 DEF Integral
    <3>3. Edge(a) \in Int BY <1>4, <1>5, <3>1
    <3> QED BY <1>4, <3>1, <3>2, <3>3
  <2> QED BY <1>2, <2>1 DEF IInv, MouseTypes, Integral
<1>7. MouseFollows'
  <2> SUFFICES ASSUME NEW a \in Axes
               PROVE  /\ count'[a] = (rp'[a] + 1) \div 2
                      /\ ~hist.clipped[a] => left'[a] + Mo!Turn(a) * rp'[a] = hist.asked[a]
    BY <1>2 DEF MouseFollows
  <2>1. count[a] = (rp[a] + 1) \div 2 BY DEF IInv, MouseFollows
  <2>2. count'[a] = (rp'[a] + 1) \div 2 BY <1>3, <1>4, <1>5, <2>1
  <2>3. left'[a] + Mo!Turn(a) * rp'[a] = left[a] + Mo!Turn(a) * rp[a]
    <3>1. CASE Mo!Turn(a) = 1 BY <1>3, <1>4, <3>1
    <3>2. CASE Mo!Turn(a) = -1 BY <1>3, <1>4, <3>2
    <3> QED BY <1>3, <3>1, <3>2
  <2> QED BY <2>2, <2>3 DEF IInv, MouseFollows
<1> QED BY <1>6, <1>7 DEF IInv

LEMMA PowerOnKeeps == IInv /\ PowerOn => IInv'
<1> SUFFICES ASSUME IInv, PowerOn PROVE IInv' OBVIOUS
<1> USE DEF PowerOn, Integral, Axes
<1>1. MouseTypes' BY DEF MouseTypes, Fresh
<1>2. (0 + 1) \div 2 = 0 OBVIOUS
<1>3. MouseFollows'
  <2> SUFFICES ASSUME NEW a \in Axes
               PROVE  /\ count'[a] = (rp'[a] + 1) \div 2
                      /\ left'[a] + Mo!Turn(a) * rp'[a] = hist'.asked[a]
    BY DEF MouseFollows
  <2>1. count'[a] = 0 /\ rp'[a] = 0 /\ left'[a] = 0 /\ hist'.asked[a] = 0 BY DEF Fresh
  <2>2. Mo!Turn(a) \in Int BY DEF Mo!Turn
  <2> QED BY <1>2, <2>1, <2>2
<1> QED BY <1>1, <1>3 DEF IInv


-----------------------------------------------------------------------------
(* The clock.                                                              *)

Talks == mac.at \in {"low", "high", "sampled"}

\* The word of the command, the first n bits of it, and a bit of a command.
W == Word(mac.op)
Prefix(w, n) == IF n = 0 THEN 0 ELSE w - (w % C!Bit(n - 1))
BitOf(c, n) == (c \div C!Bit(n)) % 2
Words == C!Words
Behind == Talks /\ mac.op.read /\ mac.k > 8

ClockTypes ==
  /\ pos \in 0 .. MaxClocks /\ cmd \in Words /\ lastClkVal \in {0, 1} /\ ret \in {0, 1}
  /\ mem \in [Regs -> C!Bytes] /\ nvs \in [Regs -> C!Bytes]
  /\ inb0 \in {0, 1} /\ ddrb0 \in {0, 1}
MacTypes ==
  mac \in [at : {"off", "idle", "low", "high", "sampled", "done"}, op : Ops, k : 0 .. MaxClocks,
           got : Seq({0, 1}), seen : SUBSET C!Bytes, disturbed : BOOLEAN]

\* Chip and Mac count the same bits.
InStep ==
  /\ mac.at \in {"idle", "done"} => pos = 0 /\ cmd = 0
  /\ Talks => pos = mac.k /\ lastClkVal = (IF mac.at = "low" \/ mac.k = 0 THEN 0 ELSE 1)
  /\ mac.at = "low" => mac.k < MaxClocks
  /\ mac.at = "sampled" => Answers

\* The chip has the bits sent so far, and behind a read command the byte.
CommandIs ==
  Talks => IF Behind THEN \E b \in mac.seen : cmd = (W - (W % 256)) + b
           ELSE cmd = IF mac.k < 16 THEN Prefix(W, mac.k) ELSE W

\* The bits the Mac has looked at.
Looked == LET n == IF mac.at = "high" THEN mac.k - 9 ELSE mac.k - 8 IN IF n > 8 THEN 8 ELSE n
Reading ==
  Talks /\ mac.op.read =>
    /\ mem[mac.op.a] \in mac.seen
    /\ mac.k > 8 \/ (mac.k = 8 /\ mac.at = "low") => ddrb0 = 0
    /\ IF mac.k > 8 THEN Len(mac.got) = Looked ELSE mac.got = <<>>
    /\ ~mac.disturbed => \A i \in 1 .. Len(mac.got) : mac.got[i] = BitOf(cmd, 7 + i)
    /\ ~mac.disturbed /\ mac.at = "high" /\ mac.k \in 9 .. 16 => inb0 = BitOf(cmd, mac.k - 1)

ClockInv ==
  /\ ClockTypes /\ MacTypes /\ InStep /\ CommandIs /\ Reading
  /\ ReadWhole /\ SavedAsWritten

-----------------------------------------------------------------------------
(* Bits of a word.                                                         *)

Powers == {1, 2, 4, 8, 16, 32, 64, 128, 256, 512, 1024, 2048, 4096, 8192, 16384, 32768}

LEMMA WordsAre == \A c : c \in Words <=> c \in Nat /\ c < 65536
<1> DEFINE top == 65535
<1>1. top \in Int /\ top + 1 = 65536 BY SMT
<1>2. Words = 0 .. top BY DEF Words, C!Words
<1> HIDE DEF top
<1>3. \A c : c \in 0 .. top <=> c \in Nat /\ c < top + 1 BY <1>1, SMT
<1> QED BY <1>1, <1>2, <1>3, SMT

LEMMA BitValues ==
  /\ C!Bit(0) = 32768 /\ C!Bit(1) = 16384 /\ C!Bit(2) = 8192 /\ C!Bit(3) = 4096
  /\ C!Bit(4) = 2048 /\ C!Bit(5) = 1024 /\ C!Bit(6) = 512 /\ C!Bit(7) = 256
  /\ C!Bit(8) = 128 /\ C!Bit(9) = 64 /\ C!Bit(10) = 32 /\ C!Bit(11) = 16
  /\ C!Bit(12) = 8 /\ C!Bit(13) = 4 /\ C!Bit(14) = 2 /\ C!Bit(15) = 1
BY DEF C!Bit

\* A bit is half the one before.
LEMMA BitHalves == \A n \in 1 .. 15 : C!Bit(n) \in Powers /\ C!Bit(n - 1) = 2 * C!Bit(n)
<1> DEFINE P(n) == C!Bit(n) \in Powers /\ C!Bit(n - 1) = 2 * C!Bit(n)
<1>1. P(1) /\ P(2) /\ P(3) /\ P(4) /\ P(5) /\ P(6) /\ P(7) BY BitValues DEF Powers
<1>2. P(8) /\ P(9) /\ P(10) /\ P(11) /\ P(12) /\ P(13) /\ P(14) /\ P(15) BY BitValues DEF Powers
<1> HIDE DEF P
<1>3. \A n \in 1 .. 15 : P(n) BY <1>1, <1>2
<1> QED BY <1>3 DEF P

\* What is above a bit, and the bit, are what is not below the bit.
LEMMA Halves ==
  ASSUME NEW w \in Nat, NEW d \in Powers
  PROVE (w - (w % (2 * d))) + ((w \div d) % 2) * d = w - (w % d)
<1> DEFINE q == w \div d  r == w % d
<1>1. q \in Nat /\ r \in 0 .. d - 1 /\ w = d * q + r BY DEF Powers
<1>2. PICK p \in Nat, b \in {0, 1} : q = 2 * p + b /\ q % 2 = b
  <2>1. q = 2 * (q \div 2) + (q % 2) /\ q \div 2 \in Nat /\ q % 2 \in {0, 1} BY <1>1
  <2> QED BY <2>1
<1> HIDE DEF q, r
<1>3. w % (2 * d) = b * d + r BY <1>1, <1>2 DEF Powers
<1> QED BY <1>1, <1>2, <1>3 DEF q, r, Powers

LEMMA Grows == \A w \in Nat : \A d \in Powers : w - (w % (2 * d)) <= w - (w % d)
<1> SUFFICES ASSUME NEW w \in Nat, NEW d \in Powers
             PROVE  w - (w % (2 * d)) <= w - (w % d)
  BY SMT
<1>1. (w - (w % (2 * d))) + ((w \div d) % 2) * d = w - (w % d) BY Halves
<1>2. w \div d \in Nat /\ d \in Nat /\ w % d \in Nat /\ w % (2 * d) \in Nat BY SMT DEF Powers
<1>3. (w \div d) % 2 \in {0, 1} BY <1>2, SMT
<1> QED BY <1>1, <1>2, <1>3, SMT

\* No bit below is more than the highest.
LEMMA Highest == ASSUME NEW w \in Nat, w < 65536, w >= 32768
  PROVE  \A d \in Powers : w - (w % d) >= 32768
<1> DEFINE F(d) == w - (w % d)
<1>0. \A d \in Powers : F(d) \in Int /\ F(2 * d) <= F(d) 
  <2>1. \A d \in Powers : F(d) \in Int BY SMT DEF Powers
  <2> QED BY <2>1, Grows
<1>1. F(32768) >= 32768 BY SMT
<1> HIDE DEF F
<1>2. /\ 2 * 1 = 2 /\ 2 * 2 = 4 /\ 2 * 4 = 8 /\ 2 * 8 = 16 /\ 2 * 16 = 32 /\ 2 * 32 = 64
      /\ 2 * 64 = 128 /\ 2 * 128 = 256 /\ 2 * 256 = 512 /\ 2 * 512 = 1024 /\ 2 * 1024 = 2048
      /\ 2 * 2048 = 4096 /\ 2 * 4096 = 8192 /\ 2 * 8192 = 16384 /\ 2 * 16384 = 32768
  BY SMT
<1>3. F(16384) >= 32768 /\ F(8192) >= 32768 /\ F(4096) >= 32768 /\ F(2048) >= 32768 BY <1>0, <1>1, SMT DEF Powers
<1>4. F(1024) >= 32768 /\ F(512) >= 32768 /\ F(256) >= 32768 /\ F(128) >= 32768 BY <1>0, <1>3, SMT DEF Powers
<1>5. F(64) >= 32768 /\ F(32) >= 32768 /\ F(16) >= 32768 /\ F(8) >= 32768 BY <1>0, <1>4, SMT DEF Powers
<1>6. F(4) >= 32768 /\ F(2) >= 32768 /\ F(1) >= 32768 BY <1>0, <1>5, SMT DEF Powers
<1> HIDE DEF F
<1>7. \A d \in Powers : F(d) >= 32768 BY <1>1, <1>3, <1>4, <1>5, <1>6, SMT DEF Powers
<1> QED BY <1>7 DEF F

\* The next bit sent makes the next prefix.
LEMMA PrefixStep ==
  ASSUME NEW w \in Words, NEW k \in 0 .. 15
  PROVE  Prefix(w, k) + BitOf(w, k) * C!Bit(k) = Prefix(w, k + 1)
<1>0. w \in Nat /\ w < 65536 BY WordsAre
<1>1. CASE k = 0
  <2>1. ((w \div 32768) % 2) * 32768 = w - (w % 32768)
    <3>1. w \div 32768 \in {0, 1} /\ w = 32768 * (w \div 32768) + (w % 32768)
      BY <1>0, SMT
    <3> QED BY <1>0, <3>1, SMT
  <2>2. BitOf(w, 0) * C!Bit(0) = w - (w % 32768) BY <2>1, BitValues DEF BitOf
  <2>3. Prefix(w, 1) = w - (w % 32768) BY BitValues DEF Prefix
  <2>4. Prefix(w, 0) = 0 BY DEF Prefix
  <2>5. w - (w % 32768) \in Int /\ 0 + 1 = 1 BY <1>0, SMT
  <2> QED BY <1>1, <2>2, <2>3, <2>4, <2>5, SMT
<1>2. CASE k \in 1 .. 15
  <2>1. C!Bit(k) \in Powers /\ C!Bit(k - 1) = 2 * C!Bit(k) BY <1>2, BitHalves
  <2>2. (w - (w % (2 * C!Bit(k)))) + BitOf(w, k) * C!Bit(k) = w - (w % C!Bit(k))
    BY <1>0, <2>1, Halves DEF BitOf
  <2>3. k # 0 /\ (k + 1) # 0 /\ (k + 1) - 1 = k BY <1>2
  <2> QED BY <2>1, <2>2, <2>3 DEF Prefix
<1> QED BY <1>1, <1>2

\* The first bit tells a command to read, as of then.
LEMMA PrefixRead ==
  \A w \in Words : \A k \in 1 .. 16 :
    Prefix(w, k) \in Words /\ (C!IsRead(Prefix(w, k)) <=> C!IsRead(w))
<1> SUFFICES ASSUME NEW w \in Words, NEW k \in 1 .. 16
             PROVE  Prefix(w, k) \in Words /\ (C!IsRead(Prefix(w, k)) <=> C!IsRead(w))
  OBVIOUS
<1>0. w \in Nat /\ w < 65536 BY WordsAre
<1> DEFINE d == C!Bit(k - 1)
<1>1. d \in Powers /\ k # 0
  <2>1. k = 1 \/ k - 1 \in 1 .. 15 BY SMT
  <2>2. CASE k = 1
    <3>1. k - 1 = 0 BY <2>2, SMT
    <3> QED BY <2>2, <3>1, BitValues, SMT DEF Powers
  <2>3. CASE k - 1 \in 1 .. 15 BY <2>3, BitHalves, SMT
  <2> QED BY <2>1, <2>2, <2>3
<1>2. Prefix(w, k) = w - (w % d) BY <1>1, SMT DEF Prefix
<1> HIDE DEF d
<1>3. w - (w % d) \in Nat /\ w - (w % d) <= w BY <1>0, <1>1, SMT DEF Powers
<1>4. w >= 32768 => w - (w % d) >= 32768 BY <1>0, <1>1, Highest, SMT
<1>5. C!IsRead(w - (w % d)) <=> C!IsRead(w) BY <1>0, <1>3, <1>4, SMT DEF C!IsRead
<1>6. w - (w % d) \in Words BY <1>0, <1>3, WordsAre, SMT
<1> QED BY <1>2, <1>5, <1>6


LEMMA PrefixEnds ==
  ASSUME NEW w \in Words
  PROVE  Prefix(w, 0) = 0 /\ Prefix(w, 8) = w - (w % 256) /\ Prefix(w, 16) = w
<1>0. w \in Nat BY WordsAre
<1>1. 8 - 1 = 7 /\ 16 - 1 = 15 BY SMT
<1>2. w % 1 = 0 /\ w - 0 = w BY <1>0, SMT
<1> QED BY <1>0, <1>1, <1>2, BitValues, SMT DEF Prefix

\* The chip reads from the word what the Mac put into it.
LEMMA WordIs ==
  ASSUME NEW op \in Ops
  PROVE /\ Word(op) \in Words
        /\ C!IsRead(Word(op)) <=> op.read
        /\ Word(op) % 256 = op.v
        /\ C!Addr(Word(op)) = op.a
        /\ C!Addr(Word(op) - (Word(op) % 256)) = op.a
<1>1. op.read \in BOOLEAN /\ op.a \in 0 .. 31 /\ op.v \in 0 .. 255
  <2> DEFINE top == 31  V == 0 .. 255
  <2>1. Regs \subseteq 0 .. top /\ Ops \subseteq [read : BOOLEAN, a : Regs, v : V]
    BY PortBAssumption
  <2> HIDE DEF top, V
  <2>2. op.read \in BOOLEAN /\ op.a \in 0 .. top /\ op.v \in V BY <2>1
  <2> QED BY <2>2 DEF top, V
<1> DEFINE a == op.a  v == op.v
<1>2. PICK n \in {0, 128} : n = (IF op.read THEN 128 ELSE 0) BY SMT
<1>3. Word(op) = (n + 4 * a + 1) * 256 + v BY <1>2 DEF Word
<1>8. (n = 128 <=> op.read) /\ a \in 0 .. 31 /\ v \in 0 .. 255 BY <1>1, <1>2
<1> HIDE DEF a, v
<1>4. Word(op) % 256 = v /\ Word(op) \in Nat /\ Word(op) < 65536 BY <1>8, <1>2, <1>3, SMT
<1>10. Word(op) \in Words BY <1>4, WordsAre
<1>5. Word(op) >= 32768 <=> op.read BY <1>8, <1>2, <1>3, SMT
<1>6. Word(op) \div 1024 = (n \div 4) + a BY <1>8, <1>2, <1>3, SMT
<1>7. (Word(op) - (Word(op) % 256)) \div 1024 = (n \div 4) + a BY <1>8, <1>2, <1>3, <1>4, SMT
<1>9. ((n \div 4) + a) % 32 = a BY <1>8, <1>2, SMT
<1> QED BY <1>4, <1>10, <1>5, <1>6, <1>7, <1>9, SMT DEF C!Addr, C!IsRead, a, v

\* A byte is the sum of the bits the Mac looks at.
LEMMA ByteBits ==
  ASSUME NEW h \in Nat, NEW b \in 0 .. 255, NEW f,
         \A i \in 1 .. 8 : f[i] = BitOf(256 * h + b, 7 + i)
  PROVE  Value(f) = b
<1> DEFINE c == 256 * h + b
<1>0. c \in Nat /\ c % 256 = b BY SMT
<1>1. /\ f[1] = BitOf(c, 8) /\ f[2] = BitOf(c, 9) /\ f[3] = BitOf(c, 10) /\ f[4] = BitOf(c, 11)
      /\ f[5] = BitOf(c, 12) /\ f[6] = BitOf(c, 13) /\ f[7] = BitOf(c, 14) /\ f[8] = BitOf(c, 15)
  BY SMT
<1> HIDE DEF c
<1>2. /\ f[1] = (c \div 128) % 2 /\ f[2] = (c \div 64) % 2 /\ f[3] = (c \div 32) % 2
      /\ f[4] = (c \div 16) % 2 /\ f[5] = (c \div 8) % 2 /\ f[6] = (c \div 4) % 2
      /\ f[7] = (c \div 2) % 2 /\ f[8] = (c \div 1) % 2
  BY <1>1, BitValues, SMT DEF BitOf
<1> DEFINE H(d) == (c - (c % (2 * d))) + ((c \div d) % 2) * d = c - (c % d)
<1>3. \A d \in Powers : H(d) BY <1>0, Halves
<1> HIDE DEF H
<1>6. H(128) /\ H(64) /\ H(32) /\ H(16) /\ H(8) /\ H(4) /\ H(2) /\ H(1)
  BY <1>3, SMT DEF Powers
<1>4. c % 1 = 0 BY <1>0, SMT
<1> QED BY <1>0, <1>2, <1>4, <1>6, SMT DEF Value, H

LEMMA Count24 ==
  ASSUME NEW s \in Int, NEW n \in Int
  PROVE  (((s + n) % 2 ^ 24) + 1) % 2 ^ 24 = (s + (n + 1)) % 2 ^ 24
<1>1. 2 ^ 24 = 16777216 BY SMT
<1> QED BY <1>1, SMT

-----------------------------------------------------------------------------
(* What the chip does with a write to the port.                            *)

\* A write without a rising clock only sets the data line.
LEMMA HoldIs ==
  ASSUME ClockTypes, NEW dat, NEW clk, clk = lastClkVal \/ clk = 0, PortWrite(0, dat, clk)
  PROVE  /\ UNCHANGED <<pos, cmd, mem, nvs, hist, ddrb0>> /\ lastClkVal' = clk /\ ret' = 0
         /\ inb0' = (IF ddrb0 = 1 THEN dat ELSE 0)
<1>1. C!Hold(clk) BY DEF PortWrite, C!rtcCom
<1>2. pos' = pos /\ pos \in Int BY <1>1 DEF C!Hold, ClockTypes
<1>3. ~C!Writes BY <1>2 DEF C!Writes
<1> QED BY <1>1, <1>3 DEF PortWrite, C!Hold

\* The chip is given up.
LEMMA DisableIs ==
  ASSUME ClockTypes, NEW clk, PortWrite(1, 0, clk)
  PROVE  /\ UNCHANGED <<mem, nvs, hist, ddrb0>> /\ pos' = 0 /\ cmd' = 0 /\ lastClkVal' = clk
         /\ ret' = 0 /\ inb0' = 0
<1>1. C!Disable(clk) BY DEF PortWrite, C!rtcCom
<1>2. ~C!Writes BY <1>1 DEF C!Disable, C!Writes
<1>3. inb0' = 0 BY <1>1 DEF PortWrite, C!Disable
<1> QED BY <1>1, <1>2, <1>3 DEF PortWrite, C!Disable

\* With a clock the chip has the next bit, and knows whether to read.
LEMMA TakenIs ==
  ASSUME ClockTypes, MacTypes, InStep, CommandIs, mac.at = "low"
  PROVE  /\ W \in Words /\ (C!IsRead(W) <=> mac.op.read)
         /\ C!Taken(Sends(mac.k)) \in Words
         /\ C!IsRead(C!Taken(Sends(mac.k))) <=> mac.op.read
         /\ mac.k < 8 \/ ~mac.op.read =>
              C!Taken(Sends(mac.k)) = IF mac.k < 16 THEN Prefix(W, mac.k + 1) ELSE W
         /\ mac.k >= 8 /\ mac.op.read => C!Taken(Sends(mac.k)) = cmd
<1> DEFINE k == mac.k
           taken == C!Taken(Sends(k))
<1>1. k \in Nat /\ mac.op \in Ops /\ mac.op.read \in BOOLEAN
  BY PortBAssumption DEF MacTypes
<1>2. Talks /\ pos = k BY DEF Talks, InStep
<1>3. /\ W \in Words /\ (C!IsRead(W) <=> mac.op.read)
  BY <1>1, WordIs DEF W
<1>4. cmd \in Words BY DEF ClockTypes
<1>5. k < 16 => Sends(k) = BitOf(W, k) BY DEF Sends, BitOf, W
<1> HIDE DEF k
<1>6. CASE k < 8 \/ ~mac.op.read
  <2>1. cmd = IF k < 16 THEN Prefix(W, k) ELSE W BY <1>1, <1>2, <1>6 DEF CommandIs, Behind, k
  <2>2. CASE k < 16
    <3>1. k \in 0 .. 15 /\ k + 1 \in 1 .. 16 BY <1>1, <2>2
    <3>2. C!IsRead(cmd) => k < 8
      <4>1. ~C!IsRead(0) BY DEF C!IsRead
      <4>2. CASE k = 0 BY <4>2
      <4>3. CASE k # 0
        <5>1. k \in 1 .. 16 BY <3>1, <4>3
        <5>2. C!IsRead(Prefix(W, k)) <=> C!IsRead(W) BY <1>3, <5>1, PrefixRead
        <5> QED BY <1>3, <1>6, <2>1, <2>2, <5>2
      <4> QED BY <4>2, <4>3
    <3>3. taken = cmd + Sends(k) * C!Bit(k)
      <4>1. pos < 8 \/ (pos < 16 /\ ~C!IsRead(cmd)) BY <1>2, <2>2, <3>2
      <4> QED BY <1>2, <4>1 DEF C!Taken
    <3>4. taken = Prefix(W, k + 1) BY <1>3, <1>5, <2>1, <2>2, <3>1, <3>3, PrefixStep
    <3>5. C!IsRead(taken) <=> C!IsRead(W) BY <1>3, <3>1, <3>4, PrefixRead
    <3>6. taken \in Words BY <1>3, <3>1, <3>4, PrefixRead
    <3> QED BY <1>1, <1>3, <1>6, <2>2, <3>4, <3>5, <3>6, SMT DEF k
  <2>3. CASE ~(k < 16)
    <3>1. taken = cmd /\ cmd = W BY <1>1, <1>2, <2>1, <2>3 DEF C!Taken
    <3>2. ~mac.op.read BY <1>1, <1>6, <2>3
    <3> QED BY <1>3, <1>4, <2>3, <3>1, <3>2 DEF k
  <2> QED BY <2>2, <2>3
<1>7. CASE k >= 8 /\ mac.op.read
  <2>1. C!IsRead(cmd)
    <3>1. CASE k = 8
      <4>1. cmd = Prefix(W, k) BY <1>2, <3>1 DEF CommandIs, Behind, k
      <4>2. k \in 1 .. 16 BY <3>1
      <4> QED BY <1>3, <1>7, <4>1, <4>2, PrefixRead
    <3>2. CASE k # 8
      <4>1. k > 8 BY <1>1, <1>7, <3>2
      <4>2. PICK b \in mac.seen : cmd = (W - (W % 256)) + b
        BY <1>2, <1>7, <4>1 DEF CommandIs, Behind, k
      <4>3. b \in 0 .. 255 BY DEF MacTypes, C!Bytes
      <4>4. W >= 32768 BY <1>3, <1>7 DEF C!IsRead
      <4>5. W - (W % 256) >= 32768
        <5>1. 256 \in Powers BY SMT DEF Powers
        <5> QED BY <1>3, <4>4, <5>1, Highest, WordsAre
      <4>6. W - (W % 256) \in Nat BY <1>3, WordsAre, SMT
      <4> QED BY <4>2, <4>3, <4>5, <4>6, SMT DEF C!IsRead
    <3> QED BY <3>1, <3>2
  <2>2. taken = cmd
    <3>1. ~(pos < 8) BY <1>1, <1>2, <1>7
    <3> QED BY <2>1, <3>1 DEF C!Taken
  <2> QED BY <1>1, <1>3, <1>4, <1>7, <2>1, <2>2 DEF k
<1> QED BY <1>1, <1>6, <1>7

LEMMA RaiseIs ==
  ASSUME ClockTypes, MacTypes, InStep, CommandIs, Raise
  PROVE  /\ pos' = mac.k + 1 /\ lastClkVal' = 1 /\ ddrb0' = ddrb0
         /\ mac.k + 1 \in 0 .. MaxClocks
         /\ inb0' = (IF ddrb0 = 1 THEN Sends(mac.k) ELSE ret')
         /\ mac.op.read =>
              /\ mem' = mem
              /\ cmd' = C!Taken(Sends(mac.k)) + (IF mac.k = 8 THEN mem[mac.op.a] ELSE 0)
              /\ ret' \in IF mac.k < 16 THEN {BitOf(cmd', mac.k)} ELSE {0, 1}
         /\ ~mac.op.read =>
              /\ mem' = IF mac.k = 15 THEN [mem EXCEPT ![mac.op.a] = mac.op.v] ELSE mem
              /\ cmd' = C!Taken(Sends(mac.k)) /\ ret' = 0
         /\ C!Writes <=> mac.k = 15 /\ ~mac.op.read
         /\ IF C!Writes THEN saveRtcMem ELSE UNCHANGED <<nvs, hist>>
<1> DEFINE k == mac.k
           taken == C!Taken(Sends(k))
<1>1. k \in Nat /\ k < MaxClocks /\ mac.op \in Ops /\ mac.op.read \in BOOLEAN /\ MaxClocks \in Nat
  BY PortBAssumption DEF MacTypes, InStep, Raise
<1>2. pos = k /\ lastClkVal = 0 /\ mac.at = "low" BY DEF Talks, InStep, Raise
<1>3. PortWrite(0, Sends(k), 1) BY DEF Raise
<1>4. C!ClockRead(Sends(k)) \/ C!ClockWrite(Sends(k)) BY <1>2, <1>3 DEF PortWrite, C!rtcCom
<1>5. /\ W \in Words /\ (C!IsRead(taken) <=> mac.op.read)
      /\ k < 8 \/ ~mac.op.read => taken = IF k < 16 THEN Prefix(W, k + 1) ELSE W
      /\ k >= 8 /\ mac.op.read => taken = cmd
  BY <1>2, TakenIs
<1>6. pos' = k + 1 /\ lastClkVal' = 1 BY <1>2, <1>4 DEF C!ClockRead, C!ClockWrite
<1>7. /\ C!Addr(W) = mac.op.a /\ C!Addr(W - (W % 256)) = mac.op.a /\ W % 256 = mac.op.v
  BY <1>1, WordIs DEF W
<1>8. Prefix(W, 8) = W - (W % 256) /\ Prefix(W, 16) = W BY <1>5, PrefixEnds
<1> HIDE DEF k, taken
<1>9. ASSUME mac.op.read
      PROVE  /\ mem' = mem /\ cmd' = taken + (IF k = 8 THEN mem[mac.op.a] ELSE 0)
             /\ ret' \in IF k < 16 THEN {BitOf(cmd', k)} ELSE {0, 1}
             /\ ~C!Writes
  <2>1. C!ClockRead(Sends(k)) BY <1>4, <1>5, <1>9 DEF C!ClockWrite, taken
  <2>2. k = 8 => C!Addr(taken) = mac.op.a
    <3> SUFFICES ASSUME k = 8 PROVE C!Addr(taken) = mac.op.a OBVIOUS
    <3>1. taken = cmd BY <1>5, <1>9
    <3>2. Talks /\ ~Behind BY <1>2 DEF Talks, Behind, k
    <3>3. cmd = Prefix(W, 8) BY <3>2 DEF CommandIs, k
    <3> QED BY <1>7, <1>8, <3>1, <3>3
  <2>3. cmd' = taken + (IF k = 8 THEN mem[mac.op.a] ELSE 0)
    BY <1>2, <2>1, <2>2 DEF C!ClockRead, taken
  <2>4. ret' \in IF k < 16 THEN {BitOf(cmd', k)} ELSE {0, 1}
    BY <1>2, <2>1 DEF C!ClockRead, BitOf
  <2>5. ~C!Writes
    <3> SUFFICES ASSUME k = 15 PROVE C!IsRead(cmd') BY <1>2 DEF C!Writes
    <3>1. cmd' = taken + 0 BY <2>3
    <3>2. taken \in Words BY <1>2, TakenIs DEF taken, k
    <3>3. cmd' = taken BY <3>1, <3>2, WordsAre, SMT
    <3> QED BY <1>5, <1>9, <3>3
  <2> QED BY <2>1, <2>3, <2>4, <2>5 DEF C!ClockRead
<1>10. ASSUME ~mac.op.read
       PROVE  /\ mem' = IF k = 15 THEN [mem EXCEPT ![mac.op.a] = mac.op.v] ELSE mem
              /\ cmd' = taken /\ ret' = 0 /\ (C!Writes <=> k = 15)
  <2>1. C!ClockWrite(Sends(k)) BY <1>4, <1>5, <1>10 DEF C!ClockRead, taken
  <2>2. cmd' = taken /\ ret' = 0 BY <2>1 DEF C!ClockWrite, taken
  <2>3. k = 15 => taken = W
    <3> SUFFICES ASSUME k = 15 PROVE taken = W OBVIOUS
    <3>1. k < 16 /\ k + 1 = 16 OBVIOUS
    <3> QED BY <1>5, <1>8, <1>10, <3>1
  <2>4. mem' = IF k = 15 THEN [mem EXCEPT ![C!Addr(cmd')] = cmd' % 256] ELSE mem
    BY <1>2, <2>1 DEF C!ClockWrite
  <2>5. k = 15 => C!Addr(cmd') = mac.op.a /\ cmd' % 256 = mac.op.v BY <1>7, <2>2, <2>3
  <2>6. mem' = IF k = 15 THEN [mem EXCEPT ![mac.op.a] = mac.op.v] ELSE mem BY <2>4, <2>5
  <2>7. C!Writes <=> k = 15
    <3>1. ~C!IsRead(cmd') BY <1>5, <1>10, <2>2
    <3>2. pos = k /\ pos' = k + 1 BY <1>2, <1>6 DEF k
    <3> QED BY <1>1, <3>1, <3>2 DEF C!Writes, k
  <2> QED BY <2>2, <2>6, <2>7
<1>11. IF C!Writes THEN saveRtcMem ELSE UNCHANGED <<nvs, hist>> BY <1>3 DEF PortWrite
<1>12. inb0' = (IF ddrb0 = 1 THEN Sends(k) ELSE ret') /\ ddrb0' = ddrb0 BY <1>3 DEF PortWrite
<1>13. k + 1 \in 0 .. MaxClocks BY <1>1 DEF k
<1> QED BY <1>1, <1>6, <1>9, <1>10, <1>11, <1>12, <1>13 DEF k, taken

-----------------------------------------------------------------------------
(* The steps of the clock.                                                 *)

Saves ==
  hist \in [since : Int, unsaved : BOOLEAN, asked : Integral, clipped : [Axes -> BOOLEAN]]

LEMMA MacFields ==
  ASSUME MacTypes
  PROVE  /\ mac.at \in {"off", "idle", "low", "high", "sampled", "done"} /\ mac.op \in Ops
         /\ mac.k \in Nat /\ mac.k <= MaxClocks /\ mac.got \in Seq({0, 1})
         /\ mac.seen \in SUBSET C!Bytes /\ mac.disturbed \in BOOLEAN
         /\ mac.op.read \in BOOLEAN /\ mac.op.a \in Regs /\ mac.op.v \in C!Bytes
<1>1. mac.op \in Ops /\ mac.k \in 0 .. MaxClocks BY DEF MacTypes
<1>2. mac.op.read \in BOOLEAN /\ mac.op.a \in Regs /\ mac.op.v \in C!Bytes
  BY <1>1, PortBAssumption DEF C!Bytes
<1>3. mac.k \in Nat /\ mac.k <= MaxClocks BY <1>1, PortBAssumption
<1>4. /\ mac.at \in {"off", "idle", "low", "high", "sampled", "done"}
      /\ mac.got \in Seq({0, 1}) /\ mac.seen \in SUBSET C!Bytes /\ mac.disturbed \in BOOLEAN
  BY DEF MacTypes
<1> QED BY <1>1, <1>2, <1>3, <1>4

LEMMA BitIs == \A w \in Words : \A k \in 0 .. 15 : BitOf(w, k) \in {0, 1}
<1> SUFFICES ASSUME NEW w \in Words, NEW k \in 0 .. 15 PROVE BitOf(w, k) \in {0, 1}
  OBVIOUS
<1>1. w \in Nat BY WordsAre
<1>2. k = 0 \/ k \in 1 .. 15 OBVIOUS
<1>3. C!Bit(k) \in Nat \ {0} BY <1>2, BitValues, BitHalves, SMT DEF Powers
<1>4. w \div C!Bit(k) \in Nat BY <1>1, <1>3, SMT
<1> QED BY <1>4, SMT DEF BitOf

LEMMA SendsBit ==
  ASSUME MacTypes
  PROVE  Sends(mac.k) \in {0, 1}
<1>1. mac.k \in Nat /\ W \in Words BY MacFields, WordIs DEF W
<1>2. mac.k < 16 => Sends(mac.k) = BitOf(W, mac.k) BY DEF Sends, BitOf, W
<1>3. mac.k < 16 => mac.k \in 0 .. 15 BY <1>1
<1>4. ~(mac.k < 16) => Sends(mac.k) = 0 BY DEF Sends
<1> QED BY <1>1, <1>2, <1>3, <1>4, BitIs

LEMMA SinceSet ==
  ASSUME Saves
  PROVE  /\ hist' = [hist EXCEPT !.since = 0, !.unsaved = FALSE] => hist'.since = 0
         /\ hist' = [hist EXCEPT !.unsaved = TRUE] => hist'.unsaved
BY DEF Saves

LEMMA IdleIs ==
  /\ Idle = [at |-> "idle", op |-> Idle.op, k |-> 0, got |-> <<>>, seen |-> {}, disturbed |-> FALSE]
  /\ Idle.op \in Ops
<1>1. Ops # {} BY PortBAssumption
<1>2. (CHOOSE op \in Ops : TRUE) \in Ops BY <1>1
<1> QED BY <1>2 DEF Idle

LEMMA SecondsAre == \A m \in [Regs -> C!Bytes] : Seconds(m) \in Nat /\ Seconds(m) < 16777216
<1> SUFFICES ASSUME NEW m \in [Regs -> C!Bytes]
             PROVE  Seconds(m) \in Nat /\ Seconds(m) < 16777216
  OBVIOUS
<1>1. m[0] \in 0 .. 255 /\ m[1] \in 0 .. 255 /\ m[2] \in 0 .. 255
  BY PortBAssumption DEF C!Bytes
<1> DEFINE x == m[0]  y == m[1]  z == m[2]
<1>2. Seconds(m) = x + 256 * y + 65536 * z BY DEF Seconds
<1>3. x \in 0 .. 255 /\ y \in 0 .. 255 /\ z \in 0 .. 255 BY <1>1
<1> HIDE DEF x, y, z
<1>4. /\ x \in Nat /\ x < 256 /\ y \in Nat /\ y < 256 /\ z \in Nat /\ z < 256 BY <1>3, SMT
<1> QED BY <1>2, <1>4, SMT

\* A memory never counted since it was saved is the one saved.
LEMMA Saved24 == \A m \in [Regs -> C!Bytes] : Seconds(m) = (Seconds(m) + 0) % 2 ^ 24
<1>1. 2 ^ 24 = 16777216 BY SMT
<1> QED BY <1>1, SecondsAre, SMT

LEMMA SavedNow ==
  ASSUME mem' \in [Regs -> C!Bytes], nvs' = mem', hist'.since = 0
  PROVE  SavedAsWritten'
BY Saved24, SMT DEF SavedAsWritten

LEMMA SavedStays ==
  ASSUME SavedAsWritten, UNCHANGED <<mem, nvs>>, hist'.since = hist.since,
         hist'.unsaved = hist.unsaved
  PROVE  SavedAsWritten'
BY Zenon DEF SavedAsWritten

\* Nothing of the clock moves with the mouse.
LEMMA ClockStays ==
  ASSUME ClockInv, UNCHANGED <<rtc, port, nvs, mac>>, hist'.since = hist.since,
         hist'.unsaved = hist.unsaved
  PROVE  ClockInv'
<1>1. UNCHANGED <<pos, cmd, lastClkVal, mem, ret, inb0, ddrb0, nvs, mac>> BY DEF rtc, port
<1>2. SavedAsWritten' BY <1>1, SavedStays DEF ClockInv
<1>3. ClockTypes' /\ MacTypes' BY <1>1 DEF ClockInv, ClockTypes, MacTypes
<1>4. InStep' BY <1>1 DEF ClockInv, InStep, Talks, Answers
<1>5. CommandIs' BY <1>1, Zenon DEF ClockInv, CommandIs, Talks, Behind, W
<1>6. Reading' BY <1>1, Zenon DEF ClockInv, Reading, Talks, Looked
<1>7. ReadWhole' BY <1>1, Zenon DEF ClockInv, ReadWhole
<1> QED BY <1>2, <1>3, <1>4, <1>5, <1>6, <1>7 DEF ClockInv

LEMMA ClockStarts == Init => ClockInv
<1> SUFFICES ASSUME Init PROVE ClockInv OBVIOUS
<1>1. /\ pos = 0 /\ cmd = 0 /\ lastClkVal = 0 /\ ret = 0 /\ mem = nvs /\ inb0 = 0 /\ ddrb0 = 0
      /\ mac = Idle /\ hist.since = 0
  BY DEF Init, C!Init, Fresh
<1>2. nvs \in [Regs -> C!Bytes] BY PortBAssumption DEF Init, C!Bytes
<1>3. 0 \in Words BY WordsAre, SMT
<1>4. ClockTypes BY PortBAssumption, <1>1, <1>2, <1>3 DEF ClockTypes
<1>5. MacTypes
  <2> DEFINE op == Idle.op
  <2>1. mac = [at |-> "idle", op |-> op, k |-> 0, got |-> <<>>, seen |-> {}, disturbed |-> FALSE]
    BY <1>1, IdleIs
  <2>2. op \in Ops BY IdleIs
  <2> HIDE DEF op
  <2> QED BY PortBAssumption, <2>1, <2>2 DEF MacTypes
<1>6. mac.at = "idle" BY <1>1, IdleIs
<1>7. InStep BY <1>1, <1>6 DEF InStep, Talks
<1>8. CommandIs /\ Reading /\ ReadWhole BY <1>6 DEF CommandIs, Reading, ReadWhole, Talks
<1>9. SavedAsWritten BY <1>1, <1>2, Saved24, SMT DEF SavedAsWritten
<1> QED BY <1>4, <1>5, <1>7, <1>8, <1>9 DEF ClockInv

LEMMA BeginClock ==
  ASSUME ClockInv, NEW op \in Ops, Begin(op)
  PROVE  ClockInv'
<1> USE DEF ClockInv
<1>1. mac.at = "idle" /\ pos = 0 /\ cmd = 0 BY DEF Begin, InStep
<1>2. PortWrite(0, 0, 0) BY DEF Begin
<1>3. /\ UNCHANGED <<pos, cmd, mem, nvs, hist, ddrb0>> /\ lastClkVal' = 0 /\ ret' = 0
      /\ inb0' = 0
  BY <1>2, HoldIs
<1>4. op.a \in Regs /\ mem[op.a] \in C!Bytes BY PortBAssumption DEF ClockTypes
<1>5. mac' = [at |-> "high", op |-> op, k |-> 0, got |-> <<>>, seen |-> {mem[op.a]},
              disturbed |-> FALSE]
  <2> DEFINE first == Idle.op
  <2>1. Idle = [at |-> "idle", op |-> first, k |-> 0, got |-> <<>>, seen |-> {},
                disturbed |-> FALSE]
    BY IdleIs
  <2> HIDE DEF first
  <2>2. mac' = [Idle EXCEPT !.at = "high", !.op = op, !.seen = {mem[op.a]}] BY DEF Begin
  <2> QED BY <2>1, <2>2
<1>6. ClockTypes' BY <1>3 DEF ClockTypes
<1>7. MacTypes' BY PortBAssumption, <1>4, <1>5 DEF MacTypes
<1>8. mac'.at = "high" /\ mac'.k = 0 /\ mac'.op = op BY <1>5
<1>9. InStep' BY <1>1, <1>3, <1>8 DEF InStep, Talks
<1>10. Prefix(W', 0) = 0 BY DEF Prefix
<1>11. CommandIs' BY <1>1, <1>3, <1>8, <1>10 DEF CommandIs, Behind
<1>12. Reading' BY <1>3, <1>5 DEF Reading
<1>13. ReadWhole' BY <1>8 DEF ReadWhole
<1>14. SavedAsWritten' BY <1>3, SavedStays
<1> QED BY <1>6, <1>7, <1>9, <1>11, <1>12, <1>13, <1>14

LEMMA DirectionClock ==
  ASSUME ClockInv, Output \/ Input
  PROVE  ClockInv'
<1> USE DEF ClockInv
<1>1. /\ UNCHANGED <<pos, cmd, lastClkVal, mem, ret, inb0, nvs, mac, hist>> /\ ddrb0' \in {0, 1}
      /\ mac.at = "high" /\ (mac.k > 8 => ddrb0' = ddrb0)
  BY DEF Output, Input, rtc
<1>2. SavedAsWritten' BY <1>1, SavedStays
<1>3. ClockTypes' /\ MacTypes' BY <1>1 DEF ClockTypes, MacTypes
<1>4. InStep' BY <1>1 DEF InStep, Talks, Answers
<1>5. CommandIs' BY <1>1, Zenon DEF CommandIs, Talks, Behind, W
<1>6. Reading' BY <1>1 DEF Reading, Talks, Looked
<1>7. ReadWhole' BY <1>1 DEF ReadWhole
<1> QED BY <1>2, <1>3, <1>4, <1>5, <1>6, <1>7

LEMMA LowerClock ==
  ASSUME ClockInv, Lower
  PROVE  ClockInv'
<1> USE DEF ClockInv
<1>1. /\ UNCHANGED <<pos, cmd, mem, nvs, hist, ddrb0>> /\ lastClkVal' = 0 /\ ret' = 0
      /\ inb0' = (IF ddrb0 = 1 THEN Sends(mac.k) ELSE 0)
  BY HoldIs DEF Lower
<1>2. mac' = [mac EXCEPT !.at = "low"] /\ Talks /\ mac.k < MaxClocks /\ mac.at # "low"
  BY DEF Lower, Talks
<1>3. /\ mac'.at = "low" /\ mac'.op = mac.op /\ mac'.k = mac.k /\ mac'.got = mac.got
      /\ mac'.seen = mac.seen /\ mac'.disturbed = mac.disturbed /\ MacTypes'
  BY <1>2 DEF MacTypes
<1>4. mac.k \in Nat /\ mac.op \in Ops /\ mac.op.read \in BOOLEAN BY MacFields
<1>5. Sends(mac.k) \in {0, 1} BY SendsBit
<1>6. ClockTypes' BY <1>1, <1>5 DEF ClockTypes
<1>7. InStep' BY <1>1, <1>2, <1>3 DEF InStep, Talks
<1>8. Behind' <=> Behind BY <1>2, <1>3 DEF Behind, Talks
<1>9. CommandIs' BY <1>1, <1>2, <1>3, <1>8, Zenon DEF CommandIs, W
<1>10. Reading'
  <2> SUFFICES ASSUME mac.op.read
               PROVE  /\ mem[mac.op.a] \in mac.seen
                      /\ mac.k > 8 \/ mac.k = 8 => ddrb0 = 0
                      /\ IF mac.k > 8 THEN Len(mac.got) = Looked' ELSE mac.got = <<>>
                      /\ ~mac.disturbed =>
                           \A i \in 1 .. Len(mac.got) : mac.got[i] = BitOf(cmd, 7 + i)
    BY <1>1, <1>3 DEF Reading
  <2>1. mac.at = "sampled" \/ (mac.at = "high" /\ mac.k < 8)
        \/ (mac.at = "high" /\ mac.k = 8 /\ ddrb0 = 0)
    BY DEF Lower
  <2>2. Looked' = Looked \/ ~(mac.k > 8) BY <1>2, <1>3, <1>4, <2>1 DEF Looked
  <2>3. mac.k = 8 => ddrb0 = 0 BY <1>4, <2>1 DEF InStep, Answers
  <2> QED BY <1>2, <1>4, <2>2, <2>3 DEF Reading
<1>11. ReadWhole' BY <1>3 DEF ReadWhole
<1>12. SavedAsWritten' BY <1>1, SavedStays
<1> QED BY <1>3, <1>6, <1>7, <1>9, <1>10, <1>11, <1>12

\* What the chip holds after a clock.
LEMMA RaiseCmd ==
  ASSUME ClockInv, Raise
  PROVE  /\ cmd' \in Words
         /\ mac.k < 8 \/ ~mac.op.read => cmd' = IF mac.k < 15 THEN Prefix(W, mac.k + 1) ELSE W
         /\ mac.k = 8 /\ mac.op.read => cmd' = (W - (W % 256)) + mem[mac.op.a]
         /\ mac.k > 8 /\ mac.op.read => cmd' = cmd
<1> DEFINE taken == C!Taken(Sends(mac.k))
<1>1. mac.at = "low" /\ ClockTypes /\ MacTypes /\ InStep /\ CommandIs BY DEF Raise, ClockInv
<1>2. /\ W \in Words /\ taken \in Words
      /\ mac.k < 8 \/ ~mac.op.read => taken = IF mac.k < 16 THEN Prefix(W, mac.k + 1) ELSE W
      /\ mac.k >= 8 /\ mac.op.read => taken = cmd
  BY <1>1, TakenIs
<1>3. /\ mac.op.read => cmd' = taken + (IF mac.k = 8 THEN mem[mac.op.a] ELSE 0)
      /\ ~mac.op.read => cmd' = taken
  BY <1>1, RaiseIs
<1> HIDE DEF taken
<1>4. mac.k \in Nat /\ mac.op.a \in Regs /\ mac.op.read \in BOOLEAN BY <1>1, MacFields
<1>5. mem[mac.op.a] \in 0 .. 255 BY <1>1, <1>4 DEF ClockTypes, C!Bytes
<1>6. taken \in Nat /\ taken + 0 = taken BY <1>2, WordsAre, SMT
<1>7. mac.k # 8 \/ ~mac.op.read => cmd' = taken BY <1>3, <1>4, <1>6
<1>8. mac.k = 15 => Prefix(W, mac.k + 1) = W
  <2>1. mac.k = 15 => mac.k + 1 = 16 OBVIOUS
  <2> QED BY <1>2, <2>1, PrefixEnds
<1>9. CASE mac.k = 8 /\ mac.op.read
  <2>1. cmd = Prefix(W, 8) BY <1>1, <1>9 DEF CommandIs, Talks, Behind
  <2>2. cmd' = (W - (W % 256)) + mem[mac.op.a] BY <1>2, <1>3, <1>9, <2>1, PrefixEnds
  <2>3. W \in Nat /\ W < 65536 BY <1>2, WordsAre
  <2>4. cmd' \in Nat /\ cmd' < 65536 BY <1>5, <2>2, <2>3, SMT
  <2> QED BY <1>9, <2>2, <2>4, WordsAre
<1>10. CASE ~(mac.k = 8 /\ mac.op.read)
  <2>1. cmd' = taken BY <1>7, <1>10
  <2>2. mac.k < 8 \/ ~mac.op.read => cmd' = IF mac.k < 15 THEN Prefix(W, mac.k + 1) ELSE W
    <3>1. mac.k < 15 \/ mac.k = 15 \/ mac.k >= 16 BY <1>4
    <3>2. CASE mac.k < 15 BY <1>2, <1>4, <2>1, <3>2
    <3>3. CASE mac.k = 15 BY <1>2, <1>8, <2>1, <3>3
    <3>4. CASE mac.k >= 16 BY <1>2, <1>4, <2>1, <3>4
    <3> QED BY <3>1, <3>2, <3>3, <3>4
  <2> QED BY <1>2, <1>4, <1>10, <2>1, <2>2
<1> QED BY <1>9, <1>10

LEMMA RaiseClock ==
  ASSUME ClockInv, Saves, Raise
  PROVE  ClockInv'
<1> USE DEF ClockInv
<1>1. mac' = [mac EXCEPT !.at = "high", !.k = @ + 1] /\ mac.at = "low" /\ Talks
  BY DEF Raise, Talks
<1>2. /\ pos' = mac.k + 1 /\ lastClkVal' = 1 /\ ddrb0' = ddrb0 /\ mac.k + 1 \in 0 .. MaxClocks
      /\ inb0' = (IF ddrb0 = 1 THEN Sends(mac.k) ELSE ret')
      /\ mac.op.read =>
           mem' = mem /\ ret' \in IF mac.k < 16 THEN {BitOf(cmd', mac.k)} ELSE {0, 1}
      /\ ~mac.op.read =>
           /\ mem' = IF mac.k = 15 THEN [mem EXCEPT ![mac.op.a] = mac.op.v] ELSE mem
           /\ ret' = 0
      /\ C!Writes <=> mac.k = 15 /\ ~mac.op.read
      /\ IF C!Writes THEN saveRtcMem ELSE UNCHANGED <<nvs, hist>>
  BY RaiseIs
<1>3. /\ mac.k \in Nat /\ mac.op \in Ops /\ mac.op.read \in BOOLEAN /\ mac.op.a \in Regs
      /\ mac.op.v \in C!Bytes
  BY MacFields
<1>4. /\ cmd' \in Words
      /\ mac.k < 8 \/ ~mac.op.read => cmd' = IF mac.k < 15 THEN Prefix(W, mac.k + 1) ELSE W
      /\ mac.k = 8 /\ mac.op.read => cmd' = (W - (W % 256)) + mem[mac.op.a]
      /\ mac.k > 8 /\ mac.op.read => cmd' = cmd
  BY RaiseCmd
<1>5. /\ mac'.at = "high" /\ mac'.op = mac.op /\ mac'.k = mac.k + 1 /\ mac'.got = mac.got
      /\ mac'.seen = mac.seen /\ mac'.disturbed = mac.disturbed /\ MacTypes'
  BY <1>1, <1>2 DEF MacTypes
<1>6. mem' \in [Regs -> C!Bytes] BY <1>2, <1>3 DEF ClockTypes
<1>7. nvs' \in [Regs -> C!Bytes] BY <1>2, <1>6 DEF ClockTypes, saveRtcMem
<1>8. ret' \in {0, 1} BY <1>2, <1>3, <1>4, BitIs
<1>9. ClockTypes'
  <2>1. inb0' \in {0, 1} BY <1>2, <1>8, SendsBit
  <2>2. pos' \in 0 .. MaxClocks /\ ddrb0' \in {0, 1} /\ lastClkVal' \in {0, 1}
    BY <1>2 DEF ClockTypes
  <2> QED BY <1>4, <1>6, <1>7, <1>8, <2>1, <2>2 DEF ClockTypes
<1>10. InStep' BY <1>2, <1>3, <1>5 DEF InStep, Talks
<1>11. W' = W /\ Talks' /\ (Behind' <=> mac.op.read /\ mac.k + 1 > 8)
  BY <1>5 DEF W, Talks, Behind
<1>12. mac.op.read => mem[mac.op.a] \in mac.seen BY <1>1 DEF Reading
<1>13. CommandIs'
  <2>1. CASE mac.op.read /\ mac.k = 8 BY <1>3, <1>4, <1>5, <1>11, <1>12, <2>1 DEF CommandIs
  <2>2. CASE mac.op.read /\ mac.k > 8
    <3>1. Behind' /\ Behind BY <1>1, <1>3, <1>11, <2>2 DEF Behind
    <3>2. \E b \in mac.seen : cmd = (W - (W % 256)) + b BY <1>1, <3>1 DEF CommandIs
    <3> QED BY <1>4, <1>5, <1>11, <2>2, <3>1, <3>2 DEF CommandIs
  <2>3. CASE mac.k < 8 \/ ~mac.op.read
    <3>1. ~Behind' /\ (mac.k < 15 <=> mac.k + 1 < 16) BY <1>3, <1>11, <2>3
    <3> QED BY <1>4, <1>5, <1>11, <2>3, <3>1 DEF CommandIs
  <2> QED BY <1>3, <2>1, <2>2, <2>3
<1>14. Reading'
  <2> SUFFICES ASSUME mac.op.read
               PROVE  /\ mem[mac.op.a] \in mac.seen
                      /\ mac.k + 1 > 8 => ddrb0 = 0
                      /\ IF mac.k + 1 > 8 THEN Len(mac.got) = Looked' ELSE mac.got = <<>>
                      /\ ~mac.disturbed =>
                           \A i \in 1 .. Len(mac.got) : mac.got[i] = BitOf(cmd', 7 + i)
                      /\ mac.k + 1 \in 9 .. 16 => inb0' = BitOf(cmd', (mac.k + 1) - 1)
    BY <1>2, <1>5 DEF Reading
  <2>1. mac.k >= 8 => ddrb0 = 0 BY <1>1, <1>3 DEF Reading
  <2>2. Looked' = LET n == (mac.k + 1) - 9 IN IF n > 8 THEN 8 ELSE n BY <1>5 DEF Looked
  <2>3. Looked = LET n == mac.k - 8 IN IF n > 8 THEN 8 ELSE n BY <1>1 DEF Looked
  <2>4. CASE mac.k > 8
    <3>1. Len(mac.got) = Looked' BY <1>1, <1>3, <2>2, <2>3, <2>4 DEF Reading
    <3>2. ~mac.disturbed => \A i \in 1 .. Len(mac.got) : mac.got[i] = BitOf(cmd, 7 + i)
      BY <1>1 DEF Reading
    <3>3. mac.k + 1 \in 9 .. 16 => inb0' = BitOf(cmd', (mac.k + 1) - 1)
      <4> SUFFICES ASSUME mac.k + 1 \in 9 .. 16 PROVE inb0' = BitOf(cmd', (mac.k + 1) - 1)
        OBVIOUS
      <4>1. mac.k < 16 /\ (mac.k + 1) - 1 = mac.k BY <1>3
      <4> QED BY <1>2, <2>1, <2>4, <4>1
    <3> QED BY <1>3, <1>4, <1>12, <2>1, <2>4, <3>1, <3>2, <3>3
  <2>5. CASE mac.k <= 8
    <3>1. mac.got = <<>> /\ Len(mac.got) = 0 BY <1>1, <1>3, <2>5 DEF Reading
    <3>2. mac.k + 1 > 8 => mac.k = 8 /\ Looked' = 0 BY <1>3, <2>2, <2>5
    <3>3. mac.k = 8 => inb0' = BitOf(cmd', (mac.k + 1) - 1)
      <4> SUFFICES ASSUME mac.k = 8 PROVE inb0' = BitOf(cmd', (mac.k + 1) - 1) OBVIOUS
      <4>1. (mac.k + 1) - 1 = mac.k BY <1>3
      <4> QED BY <1>2, <2>1, <4>1
    <3>4. mac.k + 1 \in 9 .. 16 => mac.k = 8 BY <1>3, <2>5
    <3> QED BY <1>12, <2>1, <3>1, <3>2, <3>3, <3>4
  <2> QED BY <1>3, <2>4, <2>5
<1>15. ReadWhole' BY <1>5 DEF ReadWhole
<1>16. SavedAsWritten'
  <2>1. CASE C!Writes
    <3>1. CASE nvs' = mem' /\ hist' = [hist EXCEPT !.since = 0, !.unsaved = FALSE]
      <4>1. hist'.since = 0 BY <3>1, SinceSet
      <4> QED BY <1>6, <3>1, <4>1, SavedNow
    <3>2. CASE nvs' = nvs /\ hist' = [hist EXCEPT !.unsaved = TRUE]
      <4>1. hist'.unsaved BY <3>2, SinceSet
      <4> QED BY <4>1 DEF SavedAsWritten
    <3> QED BY <1>2, <2>1, <3>1, <3>2 DEF saveRtcMem
  <2>2. CASE ~C!Writes
    <3>1. mem' = mem /\ nvs' = nvs /\ hist' = hist BY <1>2, <1>3, <2>2
    <3> QED BY <3>1, SavedStays
  <2> QED BY <2>1, <2>2
<1> QED BY <1>5, <1>9, <1>10, <1>13, <1>14, <1>15, <1>16

LEMMA SampleClock ==
  ASSUME ClockInv, Sample
  PROVE  ClockInv'
<1> USE DEF ClockInv
<1>1. /\ UNCHANGED <<pos, cmd, lastClkVal, mem, ret, inb0, ddrb0, nvs, hist>> /\ mac.at = "high"
      /\ Answers /\ Talks
      /\ mac' = [mac EXCEPT !.at = "sampled",
                            !.got = IF mac.k <= 16 THEN Append(mac.got, inb0) ELSE mac.got]
  BY DEF Sample, rtc, port, Talks
<1>2. mac.k \in Nat /\ mac.op.read /\ mac.k > 8 /\ mac.got \in Seq({0, 1}) /\ inb0 \in {0, 1}
  BY <1>1, MacFields DEF Answers, ClockTypes
<1> DEFINE g == IF mac.k <= 16 THEN Append(mac.got, inb0) ELSE mac.got
<1>3. /\ g \in Seq({0, 1}) /\ Len(g) = Len(mac.got) + (IF mac.k <= 16 THEN 1 ELSE 0)
      /\ \A i \in 1 .. Len(mac.got) : g[i] = mac.got[i]
      /\ mac.k <= 16 => g[Len(mac.got) + 1] = inb0
      /\ Len(mac.got) \in Nat /\ Len(g) \in Nat
  <2>1. Len(mac.got) \in Nat BY <1>2
  <2>2. CASE mac.k <= 16
    <3>1. g = Append(mac.got, inb0) BY <2>2
    <3> HIDE DEF g
    <3> QED BY <1>2, <2>1, <2>2, <3>1
  <2>3. CASE ~(mac.k <= 16)
    <3>1. g = mac.got BY <2>3
    <3> HIDE DEF g
    <3> QED BY <1>2, <2>1, <2>3, <3>1
  <2> QED BY <2>2, <2>3
<1>4. mac' = [mac EXCEPT !.at = "sampled", !.got = g] BY <1>1
<1> HIDE DEF g
<1>5. /\ mac'.at = "sampled" /\ mac'.op = mac.op /\ mac'.k = mac.k /\ mac'.got = g
      /\ mac'.seen = mac.seen /\ mac'.disturbed = mac.disturbed /\ MacTypes'
  BY <1>3, <1>4 DEF MacTypes
<1>6. ClockTypes' BY <1>1 DEF ClockTypes
<1>7. InStep' BY <1>1, <1>2, <1>5 DEF InStep, Talks, Answers
<1>8. (Behind' <=> Behind) /\ Talks' /\ W' = W BY <1>1, <1>5 DEF Behind, Talks, W
<1>9. CommandIs' BY <1>1, <1>5, <1>8, Zenon DEF CommandIs
<1>10. Reading'
  <2>1. Looked' = LET n == mac.k - 8 IN IF n > 8 THEN 8 ELSE n BY <1>5 DEF Looked
  <2>2. Looked = LET n == mac.k - 9 IN IF n > 8 THEN 8 ELSE n BY <1>1 DEF Looked
  <2>3. Len(mac.got) = Looked BY <1>1, <1>2 DEF Reading
  <2>4. Len(g) = Looked' BY <1>2, <1>3, <2>1, <2>2, <2>3
  <2>5. ASSUME ~mac.disturbed, NEW i \in 1 .. Len(g) PROVE g[i] = BitOf(cmd, 7 + i)
    <3>1. CASE i \in 1 .. Len(mac.got) BY <1>1, <1>2, <1>3, <2>5, <3>1 DEF Reading
    <3>2. CASE ~(i \in 1 .. Len(mac.got))
      <4>5. i \in Nat /\ i >= 1 /\ i <= Len(g) /\ Len(g) \in Nat /\ Len(mac.got) \in Nat
        <5>1. Len(g) \in Nat /\ Len(mac.got) \in Nat BY <1>3, Zenon
        <5> QED BY <5>1, SMT
      <4>6. i > Len(mac.got) BY <3>2, <4>5
      <4>1. mac.k <= 16 /\ i = Len(mac.got) + 1
        <5>1. CASE mac.k <= 16
          <6>1. Len(g) = Len(mac.got) + 1 BY <1>3, <5>1
          <6> QED BY <4>5, <4>6, <5>1, <6>1
        <5>2. CASE ~(mac.k <= 16)
          <6>1. Len(g) = Len(mac.got) + 0 BY <1>3, <5>2
          <6> QED BY <4>5, <4>6, <6>1
        <5> QED BY <5>1, <5>2
      <4>2. i = mac.k - 8 BY <1>2, <2>2, <2>3, <4>1
      <4>3. 7 + i = mac.k - 1 /\ mac.k \in 9 .. 16
        <5>1. mac.k \in Nat /\ mac.k > 8 BY <1>2
        <5>2. mac.k <= 16 BY <4>1
        <5> QED BY <4>2, <5>1, <5>2
      <4>4. inb0 = BitOf(cmd, mac.k - 1) BY <1>1, <1>2, <2>5, <4>3 DEF Reading
      <4> QED BY <1>3, <4>1, <4>3, <4>4
    <3> QED BY <3>1, <3>2
  <2>6. mem[mac.op.a] \in mac.seen /\ ddrb0 = 0 BY <1>1, <1>2 DEF Reading
  <2> QED BY <1>1, <1>2, <1>5, <2>4, <2>5, <2>6 DEF Reading
<1>11. ReadWhole' BY <1>5 DEF ReadWhole
<1>12. SavedAsWritten' BY <1>1, SavedStays
<1> QED BY <1>5, <1>6, <1>7, <1>9, <1>10, <1>11, <1>12

LEMMA DisturbClock ==
  ASSUME ClockInv, Disturb
  PROVE  ClockInv'
<1> USE DEF ClockInv
<1>1. /\ UNCHANGED <<pos, cmd, mem, nvs, hist, ddrb0>> /\ lastClkVal' = lastClkVal /\ ret' = 0
      /\ inb0' = (IF ddrb0 = 1 THEN Sends(mac.k) ELSE 0)
  BY HoldIs DEF Disturb
<1> DEFINE dis == mac.disturbed \/ (mac.at = "high" /\ Answers)
<1>2. mac' = [mac EXCEPT !.disturbed = dis] /\ Talks BY DEF Disturb, Talks
<1>3. mac.k \in Nat /\ mac.op.read \in BOOLEAN /\ mac.disturbed \in BOOLEAN BY MacFields
<1>4. dis \in BOOLEAN BY <1>3 DEF Answers
<1>5. dis <=> mac.disturbed \/ (mac.at = "high" /\ mac.op.read /\ mac.k > 8) BY DEF Answers
<1> HIDE DEF dis
<1>6. /\ mac'.at = mac.at /\ mac'.op = mac.op /\ mac'.k = mac.k /\ mac'.got = mac.got
      /\ mac'.seen = mac.seen /\ mac'.disturbed = dis /\ MacTypes'
  BY <1>2, <1>4 DEF MacTypes
<1>7. ClockTypes' BY <1>1, SendsBit DEF ClockTypes
<1>8. InStep' BY <1>1, <1>6 DEF InStep, Talks, Answers
<1>9. (Behind' <=> Behind) /\ Talks' /\ W' = W BY <1>2, <1>6 DEF Behind, Talks, W
<1>10. CommandIs' BY <1>1, <1>2, <1>6, <1>9, Zenon DEF CommandIs
<1>11. Looked' = Looked BY <1>6 DEF Looked
<1>12. Reading'
  <2> SUFFICES ASSUME mac.op.read
               PROVE  /\ mem[mac.op.a] \in mac.seen
                      /\ mac.k > 8 \/ (mac.k = 8 /\ mac.at = "low") => ddrb0 = 0
                      /\ IF mac.k > 8 THEN Len(mac.got) = Looked ELSE mac.got = <<>>
                      /\ ~dis => \A i \in 1 .. Len(mac.got) : mac.got[i] = BitOf(cmd, 7 + i)
                      /\ ~dis /\ mac.at = "high" => ~(mac.k \in 9 .. 16)
    BY <1>1, <1>6, <1>11 DEF Reading
  <2> QED BY <1>2, <1>3, <1>5 DEF Reading
<1>13. ReadWhole' BY <1>2, <1>6 DEF ReadWhole, Talks
<1>14. SavedAsWritten' BY <1>1, SavedStays
<1> QED BY <1>6, <1>7, <1>8, <1>10, <1>12, <1>13, <1>14

\* The byte the Mac has read is one the register had.
LEMMA ReadIsSeen ==
  ASSUME ClockInv, Talks, mac.op.read, mac.at = "sampled", mac.k >= 16, ~mac.disturbed
  PROVE  Value(mac.got) \in mac.seen
<1> USE DEF ClockInv
<1>1. mac.k \in Nat /\ mac.seen \in SUBSET C!Bytes /\ W \in Words BY MacFields, WordIs DEF W
<1>2. Behind BY <1>1 DEF Behind
<1>3. PICK b \in mac.seen : cmd = (W - (W % 256)) + b BY <1>2 DEF CommandIs
<1>4. Looked = 8
  <2>1. Looked = LET n == mac.k - 8 IN IF n > 8 THEN 8 ELSE n BY DEF Looked
  <2> QED BY <1>1, <2>1
<1>5. Len(mac.got) = 8 /\ \A i \in 1 .. 8 : mac.got[i] = BitOf(cmd, 7 + i)
  <2>1. mac.k > 8 BY <1>1
  <2>2. Len(mac.got) = 8 BY <1>4, <2>1 DEF Reading
  <2> QED BY <2>2 DEF Reading
<1>6. PICK h \in Nat : W - (W % 256) = 256 * h
  <2>1. W \in Nat BY <1>1, WordsAre
  <2>2. W - (W % 256) = 256 * (W \div 256) /\ W \div 256 \in Nat BY <2>1, SMT
  <2> QED BY <2>2
<1>7. b \in 0 .. 255 BY <1>1 DEF C!Bytes
<1>8. cmd = 256 * h + b BY <1>3, <1>6
<1>9. \A i \in 1 .. 8 : mac.got[i] = BitOf(256 * h + b, 7 + i) BY <1>5, <1>8
<1>10. Value(mac.got) = b
  <2>1. \A f : (\A i \in 1 .. 8 : f[i] = BitOf(256 * h + b, 7 + i)) => Value(f) = b
    BY <1>7, ByteBits, Zenon
  <2> QED BY <1>9, <2>1
<1> QED BY <1>10

LEMMA FinishClock ==
  ASSUME ClockInv, Finish
  PROVE  ClockInv'
<1> USE DEF ClockInv
<1>1. /\ UNCHANGED <<mem, nvs, hist, ddrb0>> /\ pos' = 0 /\ cmd' = 0 /\ lastClkVal' = 0
      /\ ret' = 0 /\ inb0' = 0
  BY DisableIs DEF Finish
<1>2. mac' = [mac EXCEPT !.at = "done"] /\ mac.k >= 16 BY DEF Finish
<1>3. /\ mac'.at = "done" /\ mac'.op = mac.op /\ mac'.got = mac.got /\ mac'.seen = mac.seen
      /\ mac'.disturbed = mac.disturbed /\ MacTypes'
  BY <1>2 DEF MacTypes
<1>4. 0 \in Words /\ 0 \in 0 .. MaxClocks BY PortBAssumption, WordsAre
<1>5. ClockTypes' BY <1>1, <1>4 DEF ClockTypes
<1>6. InStep' BY <1>1, <1>3 DEF InStep, Talks
<1>7. CommandIs' /\ Reading' BY <1>3 DEF CommandIs, Reading, Talks
<1>8. ReadWhole'
  <2>1. mac.op.read => mac.at = "sampled" /\ Talks BY DEF Finish, Talks
  <2> QED BY <1>2, <1>3, <2>1, ReadIsSeen DEF ReadWhole
<1>9. SavedAsWritten' BY <1>1, SavedStays
<1> QED BY <1>3, <1>5, <1>6, <1>7, <1>8, <1>9

\* With the Mac at rest only the memory counts.
LEMMA RestingClock ==
  ASSUME ClockTypes', SavedAsWritten', (pos' = 0 /\ cmd' = 0) \/ mac'.at = "off",
         mac'.at \in {"idle", "off"}, MacTypes'
  PROVE  ClockInv'
<1>1. InStep' BY DEF InStep, Talks
<1>2. CommandIs' /\ Reading' /\ ReadWhole' BY DEF CommandIs, Reading, ReadWhole, Talks
<1> QED BY <1>1, <1>2 DEF ClockInv

LEMMA IdleTypes ==
  /\ mac' = Idle => MacTypes' /\ mac'.at = "idle"
  /\ mac' = [Idle EXCEPT !.at = "off"] => MacTypes' /\ mac'.at = "off"
<1> DEFINE op == Idle.op
<1>1. op \in Ops BY IdleIs
<1>2. Idle = [at |-> "idle", op |-> op, k |-> 0, got |-> <<>>, seen |-> {}, disturbed |-> FALSE]
  BY IdleIs
<1> HIDE DEF op
<1>3. 0 \in 0 .. MaxClocks BY PortBAssumption
<1>4. ASSUME mac' = Idle PROVE MacTypes' /\ mac'.at = "idle" BY <1>1, <1>2, <1>3, <1>4 DEF MacTypes
<1>5. ASSUME mac' = [Idle EXCEPT !.at = "off"] PROVE MacTypes' /\ mac'.at = "off"
  <2>1. mac' = [at |-> "off", op |-> op, k |-> 0, got |-> <<>>, seen |-> {}, disturbed |-> FALSE]
    BY <1>2, <1>5
  <2> QED BY <1>1, <1>3, <2>1 DEF MacTypes
<1> QED BY <1>4, <1>5

LEMMA AbortClock ==
  ASSUME ClockInv, Abort \/ Rest
  PROVE  ClockInv'
<1> USE DEF ClockInv
<1>1. /\ UNCHANGED <<mem, nvs, hist, ddrb0>> /\ pos' = 0 /\ cmd' = 0
      /\ lastClkVal' \in {0, 1} /\ ret' \in {0, 1} /\ inb0' \in {0, 1} /\ mac' = Idle
  <2>1. CASE Abort
    <3>1. /\ UNCHANGED <<mem, nvs, hist, ddrb0>> /\ pos' = 0 /\ cmd' = 0
          /\ lastClkVal' = lastClkVal /\ ret' = 0 /\ inb0' = 0
      BY <2>1, DisableIs DEF Abort
    <3> QED BY <2>1, <3>1 DEF Abort, ClockTypes
  <2>2. CASE Rest BY <2>2 DEF Rest, rtc, port, ClockTypes, InStep
  <2> QED BY <2>1, <2>2
<1>2. 0 \in Words /\ 0 \in 0 .. MaxClocks BY PortBAssumption, WordsAre
<1>3. ClockTypes' BY <1>1, <1>2 DEF ClockTypes
<1>4. SavedAsWritten' BY <1>1, SavedStays
<1> QED BY <1>1, <1>3, <1>4, IdleTypes, RestingClock

LEMMA PowerClock ==
  ASSUME ClockInv, PowerLoss \/ PowerOn
  PROVE  ClockInv'
<1> USE DEF ClockInv
<1>1. CASE PowerLoss
  <2>1. /\ UNCHANGED <<pos, cmd, lastClkVal, mem, ret, inb0, ddrb0, nvs, hist>>
        /\ mac' = [Idle EXCEPT !.at = "off"]
    BY <1>1 DEF PowerLoss, rtc, port
  <2>2. ClockTypes' BY <2>1 DEF ClockTypes
  <2>3. SavedAsWritten' BY <2>1, SavedStays
  <2> QED BY <2>1, <2>2, <2>3, IdleTypes, RestingClock
<1>2. CASE PowerOn
  <2>1. /\ pos' = 0 /\ cmd' = 0 /\ lastClkVal' = 0 /\ mem' = nvs /\ nvs' = nvs /\ ret' = 0
        /\ inb0' = 0 /\ ddrb0' = 0 /\ mac' = Idle /\ hist' = Fresh
    BY <1>2 DEF PowerOn
  <2>2. 0 \in Words /\ 0 \in 0 .. MaxClocks BY PortBAssumption, WordsAre
  <2>3. ClockTypes' BY <2>1, <2>2 DEF ClockTypes
  <2>4. hist'.since = 0 BY <2>1 DEF Fresh
  <2>5. SavedAsWritten' BY <2>1, <2>3, <2>4, SavedNow DEF ClockTypes
  <2> QED BY <2>1, <2>3, <2>5, IdleTypes, RestingClock
<1> QED BY <1>1, <1>2

-----------------------------------------------------------------------------
(* A second.                                                               *)

LEMMA TickIs ==
  ASSUME ClockTypes, C!rtcTick
  PROVE  /\ mem' \in [Regs -> C!Bytes] /\ mem'[3] = mem[3]
         /\ Seconds(mem') = (Seconds(mem) + 1) % 2 ^ 24
         /\ \A r \in Regs \ (0 .. 7) : mem'[r] = mem[r]
<1> DEFINE T(x) == C!Ticked(x)
<1>1. mem \in [Regs -> 0 .. 255] /\ 0 .. 7 \subseteq Regs /\ Regs \subseteq 0 .. 31
  BY PortBAssumption DEF ClockTypes, C!Bytes
<1>2. mem' = [r \in Regs |-> IF r < 4 THEN T(r) ELSE IF r < 8 THEN T(r - 4) ELSE mem[r]]
  BY DEF C!rtcTick
<1>3. mem[0] \in 0 .. 255 /\ mem[1] \in 0 .. 255 /\ mem[2] \in 0 .. 255 /\ mem[3] \in 0 .. 255
  BY <1>1
<1>4. T(0) = (mem[0] + 1) % 256
  <2>1. C!Carry(0) BY DEF C!Carry
  <2> QED BY <2>1 DEF C!Ticked
<1>5. T(1) = IF mem[0] = 255 THEN (mem[1] + 1) % 256 ELSE mem[1]
  <2>1. C!Carry(1) <=> mem[0] = 255 BY DEF C!Carry
  <2> QED BY <2>1 DEF C!Ticked
<1>6. T(2) = IF mem[0] = 255 /\ mem[1] = 255 THEN (mem[2] + 1) % 256 ELSE mem[2]
  <2>1. C!Carry(2) <=> mem[0] = 255 /\ mem[1] = 255 BY DEF C!Carry
  <2> QED BY <2>1 DEF C!Ticked
<1>7. T(3) = mem[3] BY DEF C!Ticked
<1> HIDE DEF T
<1>8. mem'[0] = T(0) /\ mem'[1] = T(1) /\ mem'[2] = T(2) /\ mem'[3] = T(3) BY <1>1, <1>2
<1>9. /\ T(0) \in 0 .. 255 /\ T(1) \in 0 .. 255 /\ T(2) \in 0 .. 255
      /\ T(0) + 256 * T(1) + 65536 * T(2)
           = ((mem[0] + 256 * mem[1] + 65536 * mem[2]) + 1) % 16777216
  <2> DEFINE x == mem[0]  y == mem[1]  z == mem[2]
  <2>1. x \in 0 .. 255 /\ y \in 0 .. 255 /\ z \in 0 .. 255 BY <1>3
  <2>2. T(0) = (x + 1) % 256 /\ T(1) = (IF x = 255 THEN (y + 1) % 256 ELSE y)
        /\ T(2) = (IF x = 255 /\ y = 255 THEN (z + 1) % 256 ELSE z)
    BY <1>4, <1>5, <1>6
  <2> DEFINE x1 == T(0)  y1 == T(1)  z1 == T(2)
             Counted == /\ x1 \in 0 .. 255 /\ y1 \in 0 .. 255 /\ z1 \in 0 .. 255
                        /\ x1 + 256 * y1 + 65536 * z1
                             = ((x + 256 * y + 65536 * z) + 1) % 16777216
  <2>3. /\ x1 = (x + 1) % 256 /\ y1 = (IF x = 255 THEN (y + 1) % 256 ELSE y)
        /\ z1 = (IF x = 255 /\ y = 255 THEN (z + 1) % 256 ELSE z)
    BY <2>2
  <2> HIDE DEF x, y, z, x1, y1, z1
  <2>4. \A n \in 0 .. 255 : (n + 1) % 256 = IF n = 255 THEN 0 ELSE n + 1 BY SMT
  <2>5. ASSUME x # 255 PROVE Counted
    <3>1. x1 = x + 1 /\ y1 = y /\ z1 = z BY <2>1, <2>3, <2>4, <2>5, SMT
    <3>2. x + 256 * y + 65536 * z + 1 < 16777216 BY <2>1, <2>5, SMT
    <3> QED BY <2>1, <2>5, <3>1, <3>2, SMT
  <2>6. ASSUME x = 255 /\ y # 255 PROVE Counted
    <3>1. x1 = 0 /\ y1 = y + 1 /\ z1 = z BY <2>1, <2>3, <2>4, <2>6, SMT
    <3>2. x + 256 * y + 65536 * z + 1 < 16777216 BY <2>1, <2>6, SMT
    <3> QED BY <2>1, <2>6, <3>1, <3>2, SMT
  <2>7. ASSUME x = 255 /\ y = 255 PROVE Counted
    <3>1. x1 = 0 /\ y1 = 0 /\ z1 = IF z = 255 THEN 0 ELSE z + 1
      BY <2>1, <2>3, <2>4, <2>7, SMT
    <3> QED BY <2>1, <2>7, <3>1, SMT
  <2>8. Counted BY <2>1, <2>5, <2>6, <2>7
  <2> QED BY <2>8 DEF x, y, z, x1, y1, z1
<1>10. T(3) \in 0 .. 255 BY <1>3, <1>7
<1>11. \A n \in 0 .. 3 : T(n) \in 0 .. 255 BY <1>9, <1>10
<1>12. mem' \in [Regs -> C!Bytes]
  <2>1. ASSUME NEW r \in Regs
        PROVE  (IF r < 4 THEN T(r) ELSE IF r < 8 THEN T(r - 4) ELSE mem[r]) \in 0 .. 255
    <3>1. CASE r < 4 BY <1>1, <1>11, <3>1
    <3>2. CASE ~(r < 4) /\ r < 8
      <4>1. r - 4 \in 0 .. 3 BY <1>1, <3>2
      <4> QED BY <1>11, <3>2, <4>1
    <3>3. CASE ~(r < 4) /\ ~(r < 8) BY <1>1, <3>3
    <3> QED BY <3>1, <3>2, <3>3
  <2> QED BY <1>2, <2>1 DEF C!Bytes
<1>13. \A r \in Regs \ (0 .. 7) : mem'[r] = mem[r] BY <1>1, <1>2
<1>14. Seconds(mem') = (Seconds(mem) + 1) % 2 ^ 24
  <2>1. 2 ^ 24 = 16777216 BY SMT
  <2> QED BY <1>8, <1>9, <2>1, SMT DEF Seconds
<1> QED BY <1>7, <1>8, <1>12, <1>13, <1>14

LEMMA TickClock ==
  ASSUME ClockInv, Saves, Tick
  PROVE  ClockInv'
<1> USE DEF ClockInv
<1>1. /\ UNCHANGED <<pos, cmd, lastClkVal, ret, inb0, ddrb0, nvs>> /\ C!rtcTick
      /\ mac' = [mac EXCEPT !.seen = @ \cup {mem'[mac.op.a]}]
      /\ hist' = [hist EXCEPT !.since = @ + 1]
  BY DEF Tick, port, C!rtcTick
<1>2. /\ mem' \in [Regs -> C!Bytes] /\ mem'[3] = mem[3]
      /\ Seconds(mem') = (Seconds(mem) + 1) % 2 ^ 24
      /\ \A r \in Regs \ (0 .. 7) : mem'[r] = mem[r]
  BY <1>1, TickIs
<1>3. mac.op.a \in Regs /\ mac.seen \in SUBSET C!Bytes BY MacFields
<1> DEFINE sn == mac.seen \cup {mem'[mac.op.a]}
<1>4. sn \in SUBSET C!Bytes /\ mem'[mac.op.a] \in sn /\ mac.seen \subseteq sn BY <1>2, <1>3
<1>5. mac' = [mac EXCEPT !.seen = sn] BY <1>1
<1> HIDE DEF sn
<1>6. /\ mac'.at = mac.at /\ mac'.op = mac.op /\ mac'.k = mac.k /\ mac'.got = mac.got
      /\ mac'.seen = sn /\ mac'.disturbed = mac.disturbed /\ MacTypes'
  BY <1>4, <1>5 DEF MacTypes
<1>7. ClockTypes' BY <1>1, <1>2 DEF ClockTypes
<1>8. InStep' BY <1>1, <1>6 DEF InStep, Talks, Answers
<1>9. (Behind' <=> Behind) /\ (Talks' <=> Talks) /\ W' = W /\ Looked' = Looked
  BY <1>6 DEF Behind, Talks, W, Looked
<1>10. CommandIs' BY <1>1, <1>4, <1>6, <1>9 DEF CommandIs
<1>11. Reading' BY <1>1, <1>4, <1>6, <1>9 DEF Reading
<1>12. ReadWhole' BY <1>4, <1>6 DEF ReadWhole
<1>13. hist.since \in Int /\ hist'.since = hist.since + 1 /\ hist'.unsaved = hist.unsaved
  BY <1>1 DEF Saves
<1>14. SavedAsWritten'
  <2> SUFFICES ASSUME ~hist.unsaved
               PROVE  /\ Seconds(mem') = (Seconds(nvs) + (hist.since + 1)) % 2 ^ 24
                      /\ mem'[3] = nvs[3]
                      /\ \A r \in Regs \ (0 .. 7) : mem'[r] = nvs[r]
    BY <1>1, <1>13 DEF SavedAsWritten
  <2>1. Seconds(mem) = (Seconds(nvs) + hist.since) % 2 ^ 24 BY DEF SavedAsWritten
  <2>2. mem[3] = nvs[3] /\ \A r \in Regs \ (0 .. 7) : mem[r] = nvs[r] BY DEF SavedAsWritten
  <2>3. Seconds(nvs) \in Int BY SecondsAre, SMT DEF ClockTypes
  <2>4. Seconds(mem') = (Seconds(nvs) + (hist.since + 1)) % 2 ^ 24
    BY <1>2, <1>13, <2>1, <2>3, Count24
  <2> QED BY <1>2, <2>2, <2>4
<1> QED BY <1>6, <1>7, <1>8, <1>10, <1>11, <1>12, <1>14

-----------------------------------------------------------------------------
(* Every step.                                                             *)

LEMMA ClockKeeps ==
  ASSUME IInv, ClockInv, [Next]_vars
  PROVE  ClockInv'
<1>1. Saves BY DEF IInv, MouseTypes, Saves
<1>2. CASE UNCHANGED vars BY <1>2, ClockStays DEF vars, port, rtc
<1>3. CASE Mac
  <2>1. ASSUME NEW op \in Ops, Begin(op) PROVE ClockInv' BY <2>1, BeginClock
  <2>2. CASE Output \/ Input BY <2>2, DirectionClock
  <2>3. CASE Abort \/ Rest BY <2>3, AbortClock
  <2> QED BY <1>1, <1>3, <2>1, <2>2, <2>3, LowerClock, RaiseClock, SampleClock, DisturbClock,
             FinishClock
          DEF Mac
<1>4. CASE Tick BY <1>1, <1>4, TickClock
<1>5. CASE MouseRound BY <1>5, ClockStays DEF MouseRound
<1>6. CASE PowerLoss \/ PowerOn BY <1>6, PowerClock
<1>7. ASSUME NEW d \in [Axes -> Deltas], NEW b \in {0, 1}, Move(d, b) PROVE ClockInv'
  <2>1. UNCHANGED <<rtc, port, nvs, mac>> BY <1>7 DEF Move
  <2>2. \E x, y : hist' = [hist EXCEPT !.asked = x, !.clipped = y] BY <1>7 DEF Move
  <2>3. hist'.since = hist.since /\ hist'.unsaved = hist.unsaved BY <1>1, <2>2 DEF Saves
  <2> QED BY <2>1, <2>3, ClockStays
<1> QED BY <1>2, <1>3, <1>4, <1>5, <1>6, <1>7 DEF Next

Limits == left \in [Axes -> -MAXCDX .. MAXCDX] /\ btn \in {0, 1} /\ ticks \in Nat

LEMMA LimitsKeep ==
  ASSUME Limits, [Next]_vars
  PROVE  Limits'
<1>1. MAXCDX \in Nat \ {0} BY PortBAssumption
<1>2. CASE UNCHANGED <<left, btn>> /\ ticks' \in {ticks, ticks + 1} BY <1>2 DEF Limits
<1>3. ASSUME NEW d \in [Axes -> Deltas], NEW b \in {0, 1}, Move(d, b) PROVE Limits'
  <2>1. left' = [a \in Axes |-> Mo!Clamp(left[a] + d[a])] /\ btn' = b
    BY <1>3 DEF Move, Mo!mouseMove, Axes
  <2>2. \A n \in Int : Mo!Clamp(n) \in -MAXCDX .. MAXCDX BY <1>1 DEF Mo!Clamp
  <2>3. \A a \in Axes : left[a] + d[a] \in Int
    <3> SUFFICES ASSUME NEW a \in Axes PROVE left[a] + d[a] \in Int OBVIOUS
    <3>1. left[a] \in Int BY <1>1 DEF Limits
    <3>2. d[a] \in Int BY <1>3, PortBAssumption
    <3> QED BY <3>1, <3>2
  <2>4. ticks' = ticks BY <1>3 DEF Move
  <2> QED BY <2>1, <2>2, <2>3, <2>4 DEF Limits
<1>4. CASE MouseRound
  <2>1. left' = [a \in Axes |-> left[a] - Mo!Step(a)] /\ btn' = btn /\ ticks' = ticks
    BY <1>4 DEF MouseRound, Mo!mouseTick, Axes
  <2>2. \A a \in Axes : left[a] - Mo!Step(a) \in -MAXCDX .. MAXCDX
    BY <1>1 DEF Limits, Mo!Step
  <2> QED BY <2>1, <2>2 DEF Limits
<1>5. CASE PowerOn
  <2>1. 0 \in -MAXCDX .. MAXCDX BY <1>1
  <2> QED BY <1>5, <2>1 DEF PowerOn, Limits
<1> QED BY <1>2, <1>3, <1>4, <1>5 DEF Next, Mac, Tick, PowerLoss, mouse, vars

TInv == IInv /\ ClockInv /\ Limits

LEMMA InitTInv == Init => TInv
<1> SUFFICES ASSUME Init PROVE TInv OBVIOUS
<1>1. 0 \in -MAXCDX .. MAXCDX BY PortBAssumption
<1>2. Limits BY <1>1 DEF Init, Mo!Init, Limits, Axes
<1> QED BY <1>2, InitIInv, ClockStarts DEF TInv

LEMMA StepTInv ==
  ASSUME TInv, [Next]_vars
  PROVE  TInv'
<1>1. ASSUME UNCHANGED vars PROVE IInv'
  BY <1>1, OthersKeep DEF vars, TInv, IInv, MouseTypes
<1>2. ASSUME PowerLoss PROVE IInv'
  BY <1>2, OthersKeep DEF PowerLoss, TInv, IInv, MouseTypes
<1>3. IInv' BY <1>1, <1>2, MacKeeps, TickKeeps, MoveKeeps, RoundKeeps, PowerOnKeeps DEF Next, TInv
<1> QED BY <1>3, ClockKeeps, LimitsKeep DEF TInv

-----------------------------------------------------------------------------

\* mouse.c with the Mac's interrupt: whatever is clocked, saved or lost meanwhile, the
\* Mac has the mouse where the program has played it to, and no movement is lost but
\* what the limit cuts off.
THEOREM MouseIsFollowed == Spec => []MouseFollows
<1>1. Init => IInv BY InitIInv
<1>2. IInv /\ [Next]_vars => IInv'
  <2> SUFFICES ASSUME IInv, [Next]_vars PROVE IInv' OBVIOUS
  <2>1. CASE UNCHANGED vars BY <2>1, OthersKeep DEF vars, IInv, MouseTypes
  <2>2. CASE PowerLoss BY <2>2, OthersKeep DEF PowerLoss, IInv, MouseTypes
  <2> QED BY <2>1, <2>2, MacKeeps, TickKeeps, MoveKeeps, RoundKeeps, PowerOnKeeps DEF Next
<1>3. IInv => MouseFollows BY DEF IInv
<1> QED BY <1>1, <1>2, <1>3, PTL DEF Spec

\* Chip, mouse and port stay within their types, so the position never leaves the word
\* of the command, and the byte an address in the memory.
THEOREM TypeCorrect == Spec => []TypeOK
<1>1. TInv => TypeOK
  <2> SUFFICES ASSUME TInv PROVE TypeOK OBVIOUS
  <2>1. C!TypeOK BY DEF TInv, ClockInv, ClockTypes, C!TypeOK, Words
  <2>2. Mo!TypeOK BY DEF TInv, IInv, MouseTypes, Limits, Mo!TypeOK, Axes, Integral
  <2>3. mac.at \in {"off", "idle", "low", "high", "sampled", "done"}
    BY MacFields DEF TInv, ClockInv
  <2> QED BY <2>1, <2>2, <2>3 DEF TInv, ClockInv, ClockTypes, TypeOK
<1> QED BY <1>1, InitTInv, StepTInv, PTL DEF Spec

\* rtcCom with rtcTick: whatever seconds, broken commands and other writes to the port
\* come between the clocks, the Mac never reads a byte mixed from two.
THEOREM ByteIsWhole == Spec => []ReadWhole
<1>1. TInv => ReadWhole BY DEF TInv, ClockInv
<1> QED BY <1>1, InitTInv, StepTInv, PTL DEF Spec

\* saveRtcMem: what a loss of power takes is at most the seconds since the last save.
THEOREM SavedIsKept == Spec => []SavedAsWritten
<1>1. TInv => SavedAsWritten BY DEF TInv, ClockInv
<1> QED BY <1>1, InitTInv, StepTInv, PTL DEF Spec

\* rtcCom: a write command writes its byte, with its sixteenth clock, and nothing else
\* of what the Mac does on the port changes the memory.
THEOREM WriteIsExact == Spec => WriteExact
<1> DEFINE Exact == On /\ ticks' = ticks =>
                      mem' = IF Stores THEN [mem EXCEPT ![mac.op.a] = mac.op.v] ELSE mem
<1>1. ASSUME TInv, [Next]_vars PROVE [Exact]_vars
  <2> USE DEF TInv, ClockInv
  <2> SUFFICES ASSUME Next, On, ticks' = ticks PROVE Exact BY <1>1
  <2>1. mac.k \in Nat /\ mac.op \in Ops /\ mac.op.read \in BOOLEAN BY <1>1, MacFields
  <2>2. ASSUME mac'.k = mac.k \/ mac'.k = 0, mem' = mem PROVE Exact
    BY <2>1, <2>2 DEF Stores
  <2>3. /\ mac' = Idle => mac'.k = 0
        /\ mac' = [Idle EXCEPT !.at = "off"] => mac'.k = 0
        /\ \A op : mac' = [Idle EXCEPT !.at = "high", !.op = op, !.seen = {mem[op.a]}] => mac'.k = 0
    <3> DEFINE first == Idle.op
    <3>1. Idle = [at |-> "idle", op |-> first, k |-> 0, got |-> <<>>, seen |-> {},
                  disturbed |-> FALSE]
      BY IdleIs
    <3> HIDE DEF first
    <3>2. mac' = Idle => mac'.k = 0 BY <3>1
    <3>3. mac' = [Idle EXCEPT !.at = "off"] => mac'.k = 0 BY <3>1
    <3>4. ASSUME NEW op, NEW seen,
                 mac' = [Idle EXCEPT !.at = "high", !.op = op, !.seen = seen]
          PROVE  mac'.k = 0
      BY <3>1, <3>4
    <3> QED BY <3>2, <3>3, <3>4
  <2>4. CASE Tick
    <3>1. ticks' = ticks + 1 /\ ticks \in Nat BY <1>1, <2>4 DEF Tick, Limits
    <3> QED BY <3>1
  <2>5. CASE MouseRound BY <2>2, <2>5 DEF MouseRound, rtc
  <2>6. CASE PowerLoss BY <2>2, <2>3, <2>6 DEF PowerLoss, rtc
  <2>7. CASE PowerOn BY <2>7 DEF PowerOn, On
  <2>8. ASSUME NEW d \in [Axes -> Deltas], NEW b \in {0, 1}, Move(d, b) PROVE Exact
    BY <2>2, <2>8 DEF Move, rtc
  <2>9. ASSUME NEW op \in Ops, Begin(op) PROVE Exact
    <3>1. mem' = mem BY <1>1, <2>9, HoldIs DEF Begin, InStep
    <3>2. mac'.k = 0 BY <2>3, <2>9 DEF Begin
    <3> QED BY <2>2, <3>1, <3>2
  <2>10. CASE Output \/ Input \/ Rest BY <2>2, <2>3, <2>10 DEF Output, Input, Rest, rtc
  <2>11. CASE Lower \/ Disturb
    <3>1. mem' = mem BY <1>1, <2>11, HoldIs DEF Lower, Disturb
    <3>2. mac'.k = mac.k BY <1>1, <2>11 DEF Lower, Disturb, MacTypes
    <3> QED BY <2>2, <3>1, <3>2
  <2>12. CASE Sample
    <3>1. mac'.k = mac.k BY <1>1, <2>12 DEF Sample, MacTypes
    <3> QED BY <2>2, <2>12, <3>1 DEF Sample, rtc
  <2>13. CASE Finish
    <3>1. mem' = mem BY <1>1, <2>13, DisableIs DEF Finish
    <3>2. mac'.k = mac.k BY <1>1, <2>13 DEF Finish, MacTypes
    <3> QED BY <2>2, <3>1, <3>2
  <2>14. CASE Abort
    <3>1. mem' = mem BY <1>1, <2>14, DisableIs DEF Abort
    <3> QED BY <2>2, <2>3, <2>14, <3>1 DEF Abort
  <2>15. CASE Raise
    <3>1. mac'.k = mac.k + 1 BY <1>1, <2>15 DEF Raise, MacTypes
    <3>2. Stores <=> ~mac.op.read /\ mac.k = 15 BY <2>1, <3>1 DEF Stores
    <3> QED BY <1>1, <2>1, <2>15, <3>2, RaiseIs
  <2> QED BY <2>4, <2>5, <2>6, <2>7, <2>8, <2>9, <2>10, <2>11, <2>12, <2>13, <2>14, <2>15
          DEF Next, Mac
<1> QED BY <1>1, InitTInv, StepTInv, PTL DEF Spec, WriteExact
=============================================================================
