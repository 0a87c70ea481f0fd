------------------------ MODULE MCLlamaGuardEvidence ------------------------
(***************************************************************************)
(* Two attempts of one commit, and a second commit with laxer thresholds    *)
(* that the workspace may have checked out.                                 *)
(***************************************************************************)
EXTENDS LlamaGuardEvidence, TLC

CONSTANTS first, second

MCRuns == {first, second}
MCCommits == {"here", "laxer"}
MCCommit == [r \in MCRuns |-> "here"]
MCCaseSet == [c \in MCCommits |-> "cases"]
MCTolerated == [c \in MCCommits |-> IF c = "here" THEN 0 ELSE 1]

Attempts == Permutations(MCRuns)
=============================================================================
