------------------------------- MODULE MCVia -------------------------------
(* Inputs for the instances of Via that TLC checks.                        *)
EXTENDS Via

\* Enables: timer 1, vertical blank and shift register, or an unsupported one.
SomeIer == {{"T1", "CA1", "SR"}, {"CB1"}}
\* Flags taken back through IFR, with and without bit 7.
SomeIfr == {{"CA2"}, {"CA1", "SR"}, Flags \cup {"IRQ"}}
SomeBytes == {{}}
=============================================================================
