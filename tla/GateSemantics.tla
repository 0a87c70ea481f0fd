---------------------------- MODULE GateSemantics ----------------------------
(***************************************************************************)
(* What the consumers of status.json make of its gates: check_gates.py,     *)
(* materialize_release_decision.py and build_artifact_provenance_binding_v0 *)
(* each read the same map of gate values, and each has a rule of its own.   *)
(***************************************************************************)
EXTENDS Naturals

CONSTANTS
    Gates,
    CoreRequired, Required, ReleaseRequired, \* the gate lists of the policy
    DetectorsGate                            \* detectors_materialized_ok

ASSUME GateListAssumption ==
    /\ CoreRequired # {} /\ Required # {} /\ ReleaseRequired # {}
    /\ CoreRequired \subseteq Required
    /\ Required \cap ReleaseRequired = {}
    /\ Required \cup ReleaseRequired \subseteq Gates
    /\ DetectorsGate \in ReleaseRequired

\* A gate's value in status.json; "false" stands for whatever is not literal
\* true, "absent" for no such key.
GateValues == {"true", "false", "absent"}

AllTrue(gates, ids) == \A g \in ids : gates[g] = "true"

\* Exit code of check_gates.py --require ids.
CheckGates(gates, ids) ==
    IF \E g \in ids : gates[g] = "absent" THEN 2
    ELSE IF AllTrue(gates, ids) THEN 0
    ELSE 1

\* release_level of release_decision_v0.json; blocked stands for stub and
\* scaffold flags, schema errors and unreadable inputs.
ReleaseLevel(target, gates, blocked) ==
    IF blocked THEN "FAIL"
    ELSE IF target = "stage" /\ AllTrue(gates, Required \cup {DetectorsGate})
         THEN "STAGE-PASS"
    ELSE IF target = "prod" /\ AllTrue(gates, Required \cup ReleaseRequired)
         THEN "PROD-PASS"
    ELSE "FAIL"

\* strict_ci_gate_enforcement of the provenance binding, which evaluates the
\* gates once more.
Enforcement(gates, ids) ==
    IF AllTrue(gates, ids) THEN [result |-> "allow", exit_code |-> 0]
                           ELSE [result |-> "block", exit_code |-> 1]
=============================================================================
