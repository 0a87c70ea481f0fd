---------------------------- MODULE MCEvidenceChain ----------------------------
(* Instances of EvidenceChain for TLC.                                      *)
EXTENDS EvidenceChain

CONSTANTS p1, p2, p3, g1, g2, x1, x2

\* p2 adds a required gate to p1; p3 overlaps its two lists.
MCRequired == [p \in Policies |-> IF p = p1 THEN {g1} ELSE IF p = p2 THEN {g1, g2} ELSE {g1, x1}]
MCReleaseRequired == [p \in Policies |-> {x1, x2}]
=============================================================================
