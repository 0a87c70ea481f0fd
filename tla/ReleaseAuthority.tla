--------------------------- MODULE ReleaseAuthority ---------------------------
(***************************************************************************)
(* What the recorded-evidence tool chain promises, without its files.       *)
(* Release authority is the fact that status.json carries the               *)
(* release-required gates of its policy.  It is granted in one step, and    *)
(* only while the evidence that lies in the workspace at that moment is     *)
(* admissible: no intermediate artifact can stand in for it.                *)
(***************************************************************************)
CONSTANTS Runs, NoKey, Policies, Detectors, Stamps, NoFile, Torn, NoAuthority

VARIABLES runKey, policy, refusal, external, evidence, authority

inputs == <<runKey, policy, refusal, external, evidence>>
vars == <<inputs, authority>>

Evidence == [run : Runs, policy : Policies, passed : BOOLEAN, stamp : Stamps]
External == [run : Runs, pass : BOOLEAN]
Refusal == [madeIn : Runs, pass : BOOLEAN]
Authority == [run : Runs, policy : Policies, evidence : Evidence]

Present == {d \in Detectors : external[d] # NoFile}

\* Every required gate passed under the policy in force and in the run the
\* tools are told they are in; the refusal summary passes; there is external
\* evidence, and all of it passes and was produced for the same run.
Admissible ==
    /\ evidence \in Evidence
    /\ evidence.passed
    /\ evidence.policy = policy
    /\ runKey \in {evidence.run, NoKey}
    /\ refusal # NoFile
    /\ refusal.pass
    /\ Present # {}
    /\ \A d \in Present : external[d].run = evidence.run /\ external[d].pass

Grant ==
    /\ authority = NoAuthority
    /\ Admissible
    /\ authority' = [run |-> evidence.run, policy |-> policy, evidence |-> evidence]
    /\ UNCHANGED inputs

Withdraw ==
    /\ authority # NoAuthority
    /\ authority' = NoAuthority
    /\ UNCHANGED inputs

\* Evidence comes, goes and is replaced; authority that was granted stays with
\* the evidence it was granted on.
ChangeInputs ==
    /\ runKey' \in Runs \cup {NoKey}
    /\ policy' \in Policies
    /\ refusal' \in Refusal \cup {NoFile}
    /\ external' \in [Detectors -> External \cup {NoFile}]
    /\ evidence' \in Evidence \cup {NoFile, Torn}
    /\ UNCHANGED authority

Init ==
    /\ runKey \in Runs \cup {NoKey}
    /\ policy \in Policies
    /\ refusal \in Refusal \cup {NoFile}
    /\ external \in [Detectors -> External \cup {NoFile}]
    /\ evidence = NoFile
    /\ authority = NoAuthority

Next == Grant \/ Withdraw \/ ChangeInputs

Spec == Init /\ [][Next]_vars
=============================================================================
