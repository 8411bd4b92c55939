------------------------------- MODULE MCScc -------------------------------
(* Inputs for the instances of Scc that TLC checks.                        *)
EXTENDS Scc

None == {}
Both == Chan
Frame(dest, len) == [dest |-> dest, len |-> len]
Wr1(ena, mode) == [ena |-> ena, mode |-> mode]

\* Receive: a frame for this node (WR6 is 0 until written) and one for another.
RxChans == {SCC_CHANB}
RxFrames == {Frame(0, 2), Frame(9, 1)}
LiveFrames == {Frame(0, 1), Frame(9, 2)}
IntrWr1 == {Wr1(TRUE, 2)}
SyncWr15 == {{"SYNC"}}

\* External/status: the mouse on both channels, enabled on one or both.
ExtWr1 == {Wr1(TRUE, 0)}
ExtWr15 == {{"DCD"}, {"DCD", "SYNC"}}

\* Transmit.
OneByte == {5}
=============================================================================
