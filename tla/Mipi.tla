-------------------------------- MODULE Mipi --------------------------------
(***************************************************************************)
(* mipi.c: packets for the display, sent by a DMA engine that follows a    *)
(* chain of linked descriptors and must never reach the end of one.        *)
(* Between packets it spins on an idle descriptor that links to itself.  A *)
(* packet is hooked in by breaking that link; behind the data a run-out    *)
(* descriptor raises the interrupt and leads to the other idle descriptor. *)
(*                                                                         *)
(* The engine (external) reads the link of a descriptor at some time while *)
(* it is in it, at the latest when it leaves it.                           *)
(***************************************************************************)
EXTENDS Integers, Sequences

CONSTANTS
  DescCnt,   (* data descriptors                                           *)
  Unit       (* what one of them can point to                              *)
DescAssumption == DescCnt \in Nat \ {0}   \* where it is used, Display assumes more

VARIABLES
  next,      (* the link of each descriptor                                *)
  cur,       (* cur_idle_desc                                              *)
  chain,     (* what the data descriptors point to                         *)
  at,        (* the descriptor the engine is in                            *)
  ahead,     (* the link it may have read already                          *)
  wire,      (* what it has sent of the packet                             *)
  irq, sem,  (* interrupt pending; the semaphore of spidma_intr            *)
  tx         (* where mipiSendMultiple is                                  *)
vars == <<next, cur, chain, at, ahead, wire, irq, sem, tx>>

Idle(i) == <<"idle", i>>
Runout == <<"idle", 2>>
Data(i) == <<"data", i>>
Descs == {Idle(0), Idle(1), Runout} \cup {Data(i) : i \in 1 .. DescCnt}
Packets == {p \in Seq(Unit) : Len(p) \in 1 .. DescCnt}

Init ==
  /\ next = [d \in Descs |-> d]
  /\ cur = 0 /\ chain = <<>> /\ at = Idle(0) /\ ahead = Idle(0) /\ wire = <<>>
  /\ irq = FALSE /\ sem = FALSE /\ tx = "none"

\* Bug variant: the link of the idle descriptor is left as the last packet broke it.
ResyncKeepsLink ==
  /\ tx = "none"
  /\ cur' = 0 /\ at' = Idle(0) /\ ahead' = next[Idle(0)]
  /\ UNCHANGED <<next, chain, wire, irq, sem, tx>>

\* The engine is stopped, and started again on the first idle descriptor.
mipiResync ==
  /\ tx = "none"
  /\ cur' = 0 /\ next' = [next EXCEPT ![Idle(0)] = Idle(0)]
  /\ at' = Idle(0) /\ ahead' = Idle(0)
  /\ UNCHANGED <<chain, wire, irq, sem, tx>>

\* The data descriptors link to one another, the last to the run-out.
Linked(n, d) == IF d[2] < n THEN Data(d[2] + 1) ELSE Runout
Used(n) == {Data(i) : i \in 1 .. n}

\* Bug variant: the idle descriptor a packet ends on is taken to spin already.
PrepareNoSpin(p) ==
  /\ tx = "none"
  /\ next' = [d \in Descs |-> IF d \in Used(Len(p)) THEN Linked(Len(p), d)
                              ELSE IF d = Runout THEN Idle(1 - cur) ELSE next[d]]
  /\ chain' = p /\ wire' = <<>> /\ tx' = "ready"
  /\ UNCHANGED <<cur, at, ahead, irq, sem>>

\* The engine does not get to these while it spins.
Prepare(p) ==
  /\ tx = "none"
  /\ next' = [d \in Descs |-> IF d \in Used(Len(p)) THEN Linked(Len(p), d)
                              ELSE IF d \in {Runout, Idle(1 - cur)} THEN Idle(1 - cur)
                              ELSE next[d]]
  /\ chain' = p /\ wire' = <<>> /\ tx' = "ready"
  /\ UNCHANGED <<cur, at, ahead, irq, sem>>

Break ==
  /\ tx = "ready"
  /\ next' = [next EXCEPT ![Idle(cur)] = Data(1)]
  /\ cur' = 1 - cur /\ tx' = "await"
  /\ UNCHANGED <<chain, at, ahead, wire, irq, sem>>

\* A descriptor is done: what it points to is on the wire, and the run-out, the
\* only one with its eof set, has raised the interrupt.
Engine ==
  /\ \E d \in {next[at], ahead} : at' = d /\ ahead' = next[d]
  /\ wire' = IF at[1] = "data" THEN Append(wire, chain[at[2]]) ELSE wire
  /\ irq' = (irq \/ at = Runout)
  /\ UNCHANGED <<next, cur, chain, sem, tx>>

spidma_intr == irq /\ irq' = FALSE /\ sem' = TRUE /\ UNCHANGED <<next, cur, chain, at, ahead, wire, tx>>

\* The wait for the semaphore is over.
Done == tx = "await" /\ sem /\ sem' = FALSE /\ tx' = "none"
        /\ UNCHANGED <<next, cur, chain, at, ahead, wire, irq>>

Next == mipiResync \/ (\E p \in Packets : Prepare(p)) \/ Break \/ Engine \/ spidma_intr \/ Done
Spec == Init /\ [][Next]_vars

-----------------------------------------------------------------------------
(* Properties.                                                             *)

TypeOK ==
  /\ next \in [Descs -> Descs] /\ cur \in {0, 1} /\ chain \in Packets \cup {<<>>}
  /\ at \in Descs /\ ahead \in Descs /\ wire \in Seq(Unit)
  /\ irq \in BOOLEAN /\ sem \in BOOLEAN /\ tx \in {"none", "ready", "await"}

\* Outside of a packet the engine spins on the current idle descriptor, which
\* links to itself, and no interrupt or semaphore is left over for the next one.
Spins ==
  tx # "await" => at = Idle(cur) /\ ahead = at /\ next[at] = at /\ ~irq /\ ~sem

\* A packet goes out in order and each part once: what is on the wire is a
\* prefix of it, and all of it when the call may return.
SentOnce ==
  /\ tx = "await" => wire = SubSeq(chain, 1, Len(wire))
  /\ tx = "await" /\ sem => Len(wire) = Len(chain)
=============================================================================
