--------------------------- MODULE MCPulseWorkflow ---------------------------
(* Instances of PulseWorkflow for TLC: c is a core gate, r a further required *)
(* one, x is release-required and the detectors' gate.                      *)
EXTENDS PulseWorkflow

CONSTANTS c, r, x

MCGates == {c, r, x}
MCRequired == {c, r}
=============================================================================
