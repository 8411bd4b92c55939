------------------------------ MODULE MCPortB -------------------------------
(* Inputs for the instance of PortB that TLC checks.                       *)
EXTENDS PortB

MCRegs == 0 .. 9
\* Never saved, and saved a second before three bytes of the clock run over.
MCPrams == {[r \in MCRegs |-> 0], [r \in MCRegs |-> IF r < 3 THEN 255 ELSE r]}
Read(a) == [read |-> TRUE, a |-> a, v |-> 0]
Write(a, v) == [read |-> FALSE, a |-> a, v |-> v]
MCOps == {Read(0), Read(9), Write(1, 255), Write(9, 170)}
MCDeltas == {-2, 3}
\* The mouse moves in behaviours of their own: neither chip nor mouse reads the other.
MCNext == Next /\ (moves' # 0 => mac'.at \in {"idle", "off"} /\ ticks' = 0)
MCSpec == Init /\ [][MCNext]_vars
=============================================================================
