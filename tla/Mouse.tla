-------------------------------- MODULE Mouse -------------------------------
(***************************************************************************)
(* mouse.c: movements of the sensor, played back to the Mac one step of    *)
(* the quadrature code per axis and round of the emulator.  The lines are  *)
(* a function of the position modulo 4, so the position is the state.      *)
(***************************************************************************)
EXTENDS Integers

CONSTANT MAXCDX   (* movement kept at most, 50                             *)

VARIABLES
  left,   (* dx and dy: movement to be played                              *)
  rp,     (* rpx and rpy: the position played                              *)
  btn
vars == <<left, rp, btn>>

Axes == {"x", "y"}

\* Bug variant: a binary counter.
QuadBinary(p) == <<p % 2, (p % 4) \div 2>>
\* The lines QxA and QxB.
Quad(p) == CASE p % 4 = 0 -> <<0, 0>> [] p % 4 = 1 -> <<1, 0>>
             [] p % 4 = 2 -> <<1, 1>> [] p % 4 = 3 -> <<0, 1>>

Init == left = [a \in Axes |-> 0] /\ rp = [a \in Axes |-> 0] /\ btn = 0

\* Bug variant: movement to the left or up is not limited.
ClampOneSide(n) == IF n > MAXCDX THEN MAXCDX ELSE n
Clamp(n) == IF n > MAXCDX THEN MAXCDX ELSE IF n < -MAXCDX THEN -MAXCDX ELSE n

mouseMove(d, b) ==
  left' = [a \in Axes |-> Clamp(left[a] + d[a])] /\ btn' = b /\ UNCHANGED rp

\* One step of what is left; the position of x runs the other way.
Step(a) == IF left[a] > 0 THEN 1 ELSE IF left[a] < 0 THEN -1 ELSE 0
Turn(a) == IF a = "x" THEN -1 ELSE 1

mouseTick ==
  /\ left' = [a \in Axes |-> left[a] - Step(a)]
  /\ rp' = [a \in Axes |-> rp[a] + Turn(a) * Step(a)]
  /\ UNCHANGED btn

TypeOK == /\ left \in [Axes -> -MAXCDX .. MAXCDX] /\ rp \in [Axes -> Int] /\ btn \in {0, 1}
=============================================================================
