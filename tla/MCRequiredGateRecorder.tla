------------------------ MODULE MCRequiredGateRecorder ------------------------
(* Instances of RequiredGateRecorder for TLC.  The runs are interchangeable. *)
EXTENDS RequiredGateRecorder, TLC

MCSymmetry == Permutations(Runs)
=============================================================================
