----------------------------- MODULE SccRxFifo -----------------------------
(***************************************************************************)
(* What the receive ring of an SCC channel promises to the driver: a       *)
(* bounded queue of frames.  Frames join at the end, in the order they     *)
(* were accepted; the first one becomes readable at some moment and is     *)
(* then given up as a whole; the next one is readable only later.          *)
(***************************************************************************)
EXTENDS Naturals, Sequences

CONSTANT Capacity

VARIABLES
  q,       \* the frames accepted and not yet given up
  ready    \* the first of them is readable

Init == q = << >> /\ ready = FALSE

\* Frames may join, and the first frame may become readable.
Arrive ==
  /\ Len(q') \in Len(q) .. Capacity
  /\ SubSeq(q', 1, Len(q)) = q
  /\ ready => ready'
  /\ ready' => q' # << >>

\* The first frame is given up, read to its end or skipped.
Retire ==
  /\ ready
  /\ q' = Tail(q)
  /\ ready' = FALSE

Next == Arrive \/ Retire

Spec == Init /\ [][Next]_<<q, ready>>
=============================================================================
