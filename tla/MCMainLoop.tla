----------------------------- MODULE MCMainLoop -----------------------------
(* Inputs for the instances of MainLoop that TLC checks.                   *)
EXTENDS MainLoop

None == {}
Vbl == {"CA1"}
DcdOnly == {"DCD"}
=============================================================================
