------------------------- MODULE EvidenceChainProofs -------------------------
(***************************************************************************)
(* Proofs about EvidenceChain for every set of runs, policies, detectors    *)
(* and stamps and for every bound.                                          *)
(***************************************************************************)
EXTENDS EvidenceChain, TLAPS

-----------------------------------------------------------------------------
(* What the tools write has its type.                                       *)

\* A usable status and the evidence for it make a well-typed candidate status.
LEMMA CandidateStatusType ==
    ASSUME TypeOK, StatusBuildable
    PROVE  CandidateStatus \in Status
  <1>1. evidence \in Evidence /\ policy \in Policies
    BY DEF TypeOK, StatusBuildable
  <1>2. evidence.run \in Runs
    BY <1>1 DEF Evidence
  <1>3. Required[policy] \in SUBSET Gates
    BY <1>1, PolicyAssumption
  <1> QED
    BY <1>1, <1>2, <1>3 DEF CandidateStatus, Status

\* The canonical replay yields well-typed envelopes.
LEMMA CanonicalEnvelopesType ==
    ASSUME TypeOK, CandidatesBuildable
    PROVE  CanonicalEnvelopes \in Envelopes
  <1>1. evidence \in Evidence /\ policy \in Policies /\ refusal \in Refusal
    BY DEF TypeOK, CandidatesBuildable, BaseValid, EvidencePassed, RefusalValid
  <1>2. evidence.run \in Runs
    BY <1>1 DEF Evidence
  <1>3. external \in ExternalDir
    BY DEF TypeOK
  <1> QED
    BY <1>1, <1>2, <1>3 DEF CanonicalEnvelopes, Envelopes

\* Materialization only adds gates to a well-typed status.
LEMMA MaterializedStatusType ==
    ASSUME TypeOK, Materializable
    PROVE  MaterializedStatus \in Status
  <1>1. status \in Status /\ policy \in Policies
    BY DEF TypeOK, Materializable, StatusOfPolicy
  <1>2. ReleaseRequired[policy] \in SUBSET Gates
    BY <1>1, PolicyAssumption
  <1>3. /\ status.run \in Runs
        /\ status.policy \in Policies
        /\ status.evidence \in Evidence
        /\ status.gates \in SUBSET Gates
    BY <1>1 DEF Status
  <1>4. MaterializedStatus =
           [run |-> status.run, policy |-> status.policy,
            evidence |-> status.evidence,
            gates |-> status.gates \cup ReleaseRequired[policy]]
    <2>1. MaterializedStatus = [status EXCEPT !.gates = @ \cup ReleaseRequired[policy]]
      BY DEF MaterializedStatus
    <2>2. status = [run |-> status.run, policy |-> status.policy,
                    evidence |-> status.evidence, gates |-> status.gates]
      BY <1>1 DEF Status
    <2> QED
      BY <2>1, <2>2
  <1> QED
    BY <1>2, <1>3, <1>4 DEF Status

-----------------------------------------------------------------------------
(* What the tools write is admissible as a whole.                           *)

\* Whatever the replay accepts supports the gates of one run and one policy
\* (build_candidates).
LEMMA CanonicalEnvelopesSupport ==
    ASSUME CandidatesBuildable
    PROVE  Supports(CanonicalEnvelopes)
  BY DEF CandidatesBuildable, BaseValid, PolicySupported, EvidencePassed,
         StatusOfEvidence, RefusalValid, ExternalValid,
         CanonicalEnvelopes, Supports, Summaries

\* A verified manifest supports the gates of one run and one policy
\* (check_recorded_release_evidence).
LEMMA VerifiedSupports ==
    ASSUME Verified
    PROVE  manifest \in Manifest /\ Supports(manifest.candidates.envelopes)
  BY CanonicalEnvelopesSupport
     DEF Verified, ManifestOfPolicy, CandidateSetCanonical, CandidatesCanonical

-----------------------------------------------------------------------------
(* A file that is there is told from one that is not.                       *)

\* NoFile and Torn are the content of no file, and differ.
LEMMA Sentinels ==
    /\ NoFile # Torn
    /\ NoFile \notin Refusal /\ NoFile \notin External /\ NoFile \notin Evidence
    /\ NoFile \notin Status /\ NoFile \notin Candidates /\ NoFile \notin Index
    /\ NoFile \notin Manifest /\ NoFile \notin Report
    /\ Torn \notin Refusal /\ Torn \notin External /\ Torn \notin Evidence
    /\ Torn \notin Status /\ Torn \notin Candidates /\ Torn \notin Index
    /\ Torn \notin Manifest /\ Torn \notin Report
  BY FileAssumption

-----------------------------------------------------------------------------
(* The inductive invariant.  PhaseInv is what the other parts need between   *)
(* the two publication steps: without "no index while the directory is being *)
(* rebuilt" IndexDescribesDir is not kept, and without "the directory is     *)
(* complete" an index of unsupported envelopes could be written.             *)

\* A fresh checkout satisfies the invariant.
LEMMA InitIInv == Init => IInv
  BY Sentinels, BoundAssumption
  DEF Init, IInv, TypeOK, Phases, PhaseInv, IndexDescribesDir,
      StatusAllOrNothing, EnvelopesNeverMixed

\* New evidence leaves every later artifact as it was.
LEMMA RecordEvidencePreserves ==
    ASSUME IInv, NEW r \in Runs, NEW ok \in BOOLEAN, NEW s \in Stamps,
           RecordEvidence(r, ok, s)
    PROVE  IInv'
  <1> USE DEF RecordEvidence, inputs
  <1>1. TypeOK'
    BY BoundAssumption DEF IInv, TypeOK, Evidence
  <1>2. PhaseInv'
    BY DEF IInv, PhaseInv
  <1>3. IndexDescribesDir' /\ StatusAllOrNothing' /\ EnvelopesNeverMixed'
    BY DEF IInv, IndexDescribesDir, StatusAllOrNothing, EnvelopesNeverMixed
  <1> QED
    BY <1>1, <1>2, <1>3 DEF IInv

\* A built status carries exactly the required gates of passed evidence
\* (build_candidate_status); a failed build leaves none.
LEMMA BuildStatusPreserves ==
    ASSUME IInv, BuildStatus
    PROVE  IInv'
  <1> USE DEF BuildStatus, inputs
  <1>1. TypeOK'
    BY CandidateStatusType DEF IInv, TypeOK
  <1>2. PhaseInv'
    BY DEF IInv, PhaseInv
  <1>3. StatusAllOrNothing'
    <2>1. CASE StatusBuildable
      BY <2>1 DEF StatusBuildable, PolicyUsable, CandidateStatus, StatusAllOrNothing
    <2>2. CASE ~StatusBuildable
      BY <2>2, Sentinels DEF StatusAllOrNothing
    <2> QED
      BY <2>1, <2>2
  <1>4. IndexDescribesDir' /\ EnvelopesNeverMixed'
    BY DEF IInv, IndexDescribesDir, EnvelopesNeverMixed
  <1> QED
    BY <1>1, <1>2, <1>3, <1>4 DEF IInv

\* Without a directory there is nothing for the index to describe.
LEMMA ClearCandidateDirPreserves ==
    ASSUME IInv, ClearCandidateDir
    PROVE  IInv'
  <1> USE DEF ClearCandidateDir, inputs
  <1>1. TypeOK'
    BY DEF IInv, TypeOK, Phases
  <1>2. PhaseInv'
    BY DEF PhaseInv
  <1>3. IndexDescribesDir'
    BY Sentinels DEF IndexDescribesDir
  <1>4. StatusAllOrNothing'
    BY DEF IInv, StatusAllOrNothing
  <1>5. EnvelopesNeverMixed'
    BY Sentinels DEF IInv, EnvelopesNeverMixed
  <1> QED
    BY <1>1, <1>2, <1>3, <1>4, <1>5 DEF IInv

\* The index goes while the directory is already gone (clear_outputs).
LEMMA ClearCandidateIndexPreserves ==
    ASSUME IInv, ClearCandidateIndex
    PROVE  IInv'
  <1> USE DEF ClearCandidateIndex, inputs
  <1>1. TypeOK'
    BY DEF IInv, TypeOK, Phases
  <1>2. PhaseInv'
    BY DEF IInv, PhaseInv
  <1>3. IndexDescribesDir'
    BY DEF IndexDescribesDir
  <1>4. StatusAllOrNothing'
    BY DEF IInv, StatusAllOrNothing
  <1>5. EnvelopesNeverMixed'
    BY DEF IInv, EnvelopesNeverMixed
  <1> QED
    BY <1>1, <1>2, <1>3, <1>4, <1>5 DEF IInv

\* The directory is published while there is no index (write_outputs), and what
\* it holds is admissible as a whole.
LEMMA PublishCandidateDirPreserves ==
    ASSUME IInv, NEW s \in Stamps, PublishCandidateDir(s)
    PROVE  IInv'
  <1> USE DEF inputs
  <1>1. CASE CandidatesBuildable
    <2> DEFINE new == [envelopes |-> CanonicalEnvelopes, stamp |-> s]
    <2>1. /\ candidates' = new
          /\ phase = "cleared"
          /\ phase' = "dirPublished"
          /\ UNCHANGED <<inputs, evidence, status, index, manifest, report, disturbances>>
      BY <1>1 DEF PublishCandidateDir
    <2>2. CanonicalEnvelopes \in Envelopes
      BY <1>1, CanonicalEnvelopesType DEF IInv
    <2>3. new \in Candidates
      BY <2>2 DEF Candidates
    <2>4. new.envelopes = CanonicalEnvelopes
      OBVIOUS
    <2>5. Supports(new.envelopes)
      BY <1>1, <2>4, CanonicalEnvelopesSupport
    <2> HIDE DEF new
    <2>6. TypeOK'
      BY <2>1, <2>3 DEF IInv, TypeOK, Phases
    <2>7. PhaseInv'
      BY <1>1, <2>1, <2>3
         DEF IInv, PhaseInv, CandidatesBuildable, BaseValid, EvidencePassed,
             StatusOfEvidence
    <2>8. IndexDescribesDir'
      BY <2>1 DEF IInv, PhaseInv, IndexDescribesDir
    <2>9. StatusAllOrNothing'
      BY <2>1 DEF IInv, StatusAllOrNothing
    <2>10. EnvelopesNeverMixed'
      BY <2>1, <2>5 DEF IInv, EnvelopesNeverMixed, Supports, Summaries
    <2> QED
      BY <2>6, <2>7, <2>8, <2>9, <2>10 DEF IInv
  <1>2. CASE ~CandidatesBuildable
    <2>1. /\ phase' = "idle"
          /\ UNCHANGED <<inputs, products, disturbances>>
      BY <1>2 DEF PublishCandidateDir, products
    <2> QED
      BY <2>1 DEF IInv, TypeOK, Phases, PhaseInv, IndexDescribesDir,
                  StatusAllOrNothing, EnvelopesNeverMixed, products
  <1> QED
    BY <1>1, <1>2

\* The index is written for the directory this build has just published.
LEMMA PublishCandidateIndexPreserves ==
    ASSUME IInv, PublishCandidateIndex
    PROVE  IInv'
  <1> USE DEF PublishCandidateIndex, inputs
  <1> DEFINE new == [status |-> status, evidence |-> evidence, candidates |-> candidates]
  <1>1. candidates \in Candidates /\ status \in Status /\ evidence \in Evidence
    BY DEF IInv, PhaseInv
  <1>2. new \in Index /\ new.candidates = candidates
    BY <1>1 DEF Index
  <1>3. Supports(new.candidates.envelopes)
    BY <1>1, <1>2 DEF IInv, EnvelopesNeverMixed
  <1>4. index' = new
    OBVIOUS
  <1> HIDE DEF new
  <1>5. TypeOK'
    BY <1>2, <1>4 DEF IInv, TypeOK, Phases
  <1>6. PhaseInv'
    BY DEF PhaseInv
  <1>7. IndexDescribesDir'
    BY <1>2, <1>4 DEF IndexDescribesDir
  <1>8. StatusAllOrNothing'
    BY DEF IInv, StatusAllOrNothing
  <1>9. EnvelopesNeverMixed'
    BY <1>3, <1>4 DEF IInv, EnvelopesNeverMixed
  <1> QED
    BY <1>5, <1>6, <1>7, <1>8, <1>9 DEF IInv

\* A manifest repeats the envelopes of an index.
LEMMA BuildManifestPreserves ==
    ASSUME IInv, BuildManifest
    PROVE  IInv'
  <1> USE DEF BuildManifest, inputs
  <1>1. ManifestBuildable =>
            /\ [candidates |-> index.candidates] \in Manifest
            /\ Supports([candidates |-> index.candidates].candidates.envelopes)
    <2> SUFFICES ASSUME ManifestBuildable
                 PROVE  /\ [candidates |-> index.candidates] \in Manifest
                        /\ Supports([candidates |-> index.candidates].candidates.envelopes)
      OBVIOUS
    <2>1. index \in Index /\ index # NoFile
      BY Sentinels DEF ManifestBuildable
    <2>2. index.candidates \in Candidates
      BY <2>1 DEF Index
    <2>3. Supports(index.candidates.envelopes)
      BY <2>1 DEF IInv, EnvelopesNeverMixed
    <2> QED
      BY <2>2, <2>3 DEF Manifest
  <1>2. TypeOK'
    BY <1>1 DEF IInv, TypeOK
  <1>3. PhaseInv' /\ IndexDescribesDir' /\ StatusAllOrNothing'
    BY DEF IInv, PhaseInv, IndexDescribesDir, StatusAllOrNothing
  <1>4. EnvelopesNeverMixed'
    <2>1. manifest' # NoFile => Supports(manifest'.candidates.envelopes)
      BY <1>1
    <2> QED
      BY <2>1 DEF IInv, EnvelopesNeverMixed
  <1> QED
    BY <1>2, <1>3, <1>4 DEF IInv

\* A verified report repeats a manifest that the canonical replay confirmed.
LEMMA VerifyEvidencePreserves ==
    ASSUME IInv, VerifyEvidence
    PROVE  IInv'
  <1> USE DEF VerifyEvidence, inputs
  <1>1. Verified \in BOOLEAN
    BY DEF Verified, ManifestOfPolicy
  <1>2. report' \in Report
    BY <1>1 DEF IInv, TypeOK, Report
  <1>3. report'.verified => report'.manifest # NoFile /\ Supports(report'.manifest.candidates.envelopes)
    BY VerifiedSupports, Sentinels
  <1>4. TypeOK'
    BY <1>2 DEF IInv, TypeOK
  <1>5. PhaseInv' /\ IndexDescribesDir' /\ StatusAllOrNothing'
    BY DEF IInv, PhaseInv, IndexDescribesDir, StatusAllOrNothing
  <1>6. EnvelopesNeverMixed'
    BY <1>3 DEF IInv, EnvelopesNeverMixed
  <1> QED
    BY <1>4, <1>5, <1>6 DEF IInv

\* Materialization adds all release-required gates of the policy of the status.
LEMMA MaterializePreserves ==
    ASSUME IInv, MaterializeReleaseRequired
    PROVE  IInv'
  <1> USE DEF MaterializeReleaseRequired, inputs
  <1>1. TypeOK'
    BY MaterializedStatusType DEF IInv, TypeOK
  <1>2. PhaseInv' /\ IndexDescribesDir' /\ EnvelopesNeverMixed'
    BY DEF IInv, PhaseInv, IndexDescribesDir, EnvelopesNeverMixed
  <1>3. StatusAllOrNothing'
    <2>1. status \in Status /\ status.policy = policy
      BY DEF Materializable, ReportReplayed, StatusOfPolicy
    <2>2. status.gates = Required[policy]
      BY <2>1 DEF Materializable, ReportReplayed, Verified, CandidateSetCanonical,
                  CandidatesBuildable, BaseValid, StatusOfEvidence
    <2>3. /\ status'.gates = Required[policy] \cup ReleaseRequired[policy]
          /\ status'.run = status.run
          /\ status'.policy = policy
          /\ status'.evidence = status.evidence
      BY <2>1, <2>2 DEF MaterializedStatus, Status
    <2> QED
      BY <2>1, <2>3 DEF IInv, StatusAllOrNothing
  <1> QED
    BY <1>1, <1>2, <1>3 DEF IInv

\* No change of inputs and no interruption disturbs the invariant.
LEMMA EnvironmentPreserves ==
    ASSUME IInv, Environment
    PROVE  IInv'
  <1> USE DEF inputs, products, Disturb
  <1>1. ASSUME NEW k \in Runs \cup {NoKey}, StartRun(k)
        PROVE  IInv'
    BY <1>1, BoundAssumption
    DEF StartRun, IInv, TypeOK, PhaseInv, IndexDescribesDir, StatusAllOrNothing,
        EnvelopesNeverMixed
  <1>2. ASSUME NEW p \in Policies, ChangePolicy(p)
        PROVE  IInv'
    BY <1>2, BoundAssumption
    DEF ChangePolicy, IInv, TypeOK, PhaseInv, IndexDescribesDir,
        StatusAllOrNothing, EnvelopesNeverMixed
  <1>3. ASSUME NEW r \in Runs, NEW ok \in BOOLEAN, WriteRefusal(r, ok)
        PROVE  IInv'
    BY <1>3, BoundAssumption
    DEF WriteRefusal, Refusal, IInv, TypeOK, PhaseInv, IndexDescribesDir,
        StatusAllOrNothing, EnvelopesNeverMixed
  <1>4. ASSUME NEW d \in Detectors, NEW r \in Runs, NEW ok \in BOOLEAN,
               WriteExternal(d, r, ok)
        PROVE  IInv'
    BY <1>4, BoundAssumption
    DEF WriteExternal, ExternalDir, External, IInv, TypeOK, PhaseInv,
        IndexDescribesDir, StatusAllOrNothing, EnvelopesNeverMixed
  <1>5. CASE InterruptCandidates
    BY <1>5, BoundAssumption
    DEF InterruptCandidates, IInv, TypeOK, Phases, PhaseInv, IndexDescribesDir,
        StatusAllOrNothing, EnvelopesNeverMixed
  <1>6. CASE InterruptClear
    BY <1>6, Sentinels, BoundAssumption
    DEF InterruptClear, IInv, TypeOK, PhaseInv, IndexDescribesDir,
        StatusAllOrNothing, EnvelopesNeverMixed
  <1>7. CASE InterruptReplace
    BY <1>7, Sentinels, BoundAssumption
    DEF InterruptReplace, IInv, TypeOK, PhaseInv, IndexDescribesDir,
        StatusAllOrNothing, EnvelopesNeverMixed
  <1>8. CASE InterruptWrite
    BY <1>8, Sentinels, BoundAssumption
    DEF InterruptWrite, IInv, TypeOK, PhaseInv, IndexDescribesDir,
        StatusAllOrNothing, EnvelopesNeverMixed
  <1> QED
    BY <1>1, <1>2, <1>3, <1>4, <1>5, <1>6, <1>7, <1>8 DEF Environment

\* The invariant is inductive.
LEMMA NextPreserves == IInv /\ [Next]_vars => IInv'
  <1> SUFFICES ASSUME IInv, [Next]_vars
               PROVE  IInv'
    OBVIOUS
  <1>1. CASE Environment
    BY <1>1, EnvironmentPreserves
  <1>2. CASE Tool
    BY <1>2, RecordEvidencePreserves, BuildStatusPreserves,
       ClearCandidateDirPreserves, ClearCandidateIndexPreserves,
       PublishCandidateDirPreserves, PublishCandidateIndexPreserves,
       BuildManifestPreserves, VerifyEvidencePreserves, MaterializePreserves
    DEF Tool
  <1>3. CASE UNCHANGED vars
    BY <1>3
    DEF vars, inputs, products, IInv, TypeOK, PhaseInv, IndexDescribesDir,
        StatusAllOrNothing, EnvelopesNeverMixed
  <1> QED
    BY <1>1, <1>2, <1>3 DEF Next

\* The inductive invariant holds in every reachable state, for every set of
\* runs, policies, detectors and stamps.
THEOREM Invariance == Spec => []IInv
  BY InitIInv, NextPreserves, PTL DEF Spec

-----------------------------------------------------------------------------
(* What follows from it.                                                    *)

\* Every file of the chain has its type, interrupted or not.
THEOREM TypeCorrect == Spec => []TypeOK
  <1>1. IInv => TypeOK
    BY DEF IInv
  <1> QED
    BY <1>1, Invariance, PTL

\* The candidate builder's two os.replace calls never leave an index beside a
\* directory it does not describe.
THEOREM PublicationConsistent == Spec => []IndexDescribesDir
  <1>1. IInv => IndexDescribesDir
    BY DEF IInv
  <1> QED
    BY <1>1, Invariance, PTL

\* status.json has all release-required gates of its policy or none of them.
THEOREM StatusAtomic == Spec => []StatusAllOrNothing
  <1>1. IInv => StatusAllOrNothing
    BY DEF IInv
  <1> QED
    BY <1>1, Invariance, PTL

\* No artifact of the chain mixes the evidence of two runs or policies.
THEOREM NeverMixed == Spec => []EnvelopesNeverMixed
  <1>1. IInv => EnvelopesNeverMixed
    BY DEF IInv
  <1> QED
    BY <1>1, Invariance, PTL

\* Gates beyond the required ones contradict validate_base, since the two lists
\* of a usable policy are disjoint and neither is empty.
LEMMA GrantBlocksReplay == TypeOK => NoGrantOnTopOfGrant
  <1> SUFFICES ASSUME TypeOK, ReleaseGatesSet, CandidatesBuildable
               PROVE  FALSE
    BY DEF NoGrantOnTopOfGrant
  <1>1. policy \in Policies /\ ReleaseRequired[policy] # {}
    BY PolicyAssumption DEF TypeOK
  <1>2. /\ status.policy = policy
        /\ status.gates = Required[policy]
        /\ Required[policy] \cap ReleaseRequired[policy] = {}
    BY DEF CandidatesBuildable, BaseValid, PolicySupported, EvidencePassed,
           StatusOfEvidence, PolicyUsable
  <1>3. ReleaseRequired[policy] \subseteq Required[policy]
    BY <1>2 DEF ReleaseGatesSet
  <1> QED
    BY <1>1, <1>2, <1>3

\* A status that carries release authority is never verified once more.
THEOREM SecondGrantBlocked == Spec => []NoGrantOnTopOfGrant
  BY TypeCorrect, GrantBlocksReplay, PTL

-----------------------------------------------------------------------------
(* The refinement: a step that leaves the status alone changes at most the   *)
(* inputs, a rebuilt or torn status withdraws the authority, and the         *)
(* materializer grants it.                                                   *)

\* No status, no authority.
LEMMA InitRefines == Init => Authority!Init
  BY Sentinels
  DEF Init, Authority!Init, authority, ReleaseGatesSet, Refusal, External,
      ExternalDir, Authority!Refusal, Authority!External

\* A step that keeps the status changes inputs only.
LEMMA StatusKeptRefines ==
    ASSUME TypeOK', UNCHANGED status
    PROVE  Authority!ChangeInputs
  <1>1. UNCHANGED authority
    BY DEF authority, ReleaseGatesSet
  <1> QED
    BY <1>1
    DEF TypeOK, Authority!ChangeInputs, Refusal, External, ExternalDir, Evidence,
        Authority!Refusal, Authority!External, Authority!Evidence

\* A step that deletes or tears the status withdraws authority at most.
LEMMA StatusLostRefines ==
    ASSUME ~ReleaseGatesSet', UNCHANGED <<inputs, evidence>>
    PROVE  Authority!Withdraw \/ UNCHANGED Authority!vars
  <1>1. authority' = NoFile
    BY DEF authority
  <1> QED
    BY <1>1 DEF Authority!Withdraw, Authority!vars, Authority!inputs, inputs

\* A candidate status carries no authority.
LEMMA BuildStatusRefines ==
    ASSUME IInv, BuildStatus
    PROVE  ~ReleaseGatesSet'
  <1>1. CASE StatusBuildable
    <2>1. /\ status'.policy = policy
          /\ status'.gates = Required[policy]
          /\ Required[policy] \cap ReleaseRequired[policy] = {}
      BY <1>1 DEF BuildStatus, StatusBuildable, CandidateStatus, PolicyUsable
    <2>2. ReleaseRequired[policy] # {}
      BY PolicyAssumption DEF IInv, TypeOK
    <2> QED
      BY <2>1, <2>2 DEF ReleaseGatesSet
  <1>2. CASE ~StatusBuildable
    BY <1>2, Sentinels DEF BuildStatus, ReleaseGatesSet
  <1> QED
    BY <1>1, <1>2

\* The one step that grants authority: what the replay accepts is admissible.
LEMMA MaterializeRefines ==
    ASSUME IInv, MaterializeReleaseRequired
    PROVE  Authority!Grant
  <1>1. /\ status \in Status
        /\ status.policy = policy
        /\ CandidatesBuildable
        /\ UNCHANGED <<inputs, evidence>>
        /\ status' = MaterializedStatus
    BY DEF MaterializeReleaseRequired, Materializable, ReportReplayed, StatusOfPolicy,
           Verified, CandidateSetCanonical
  <1>2. authority = NoFile
    BY <1>1, GrantBlocksReplay DEF IInv, NoGrantOnTopOfGrant, authority
  <1>3. Authority!Admissible
    <2>1. refusal # NoFile /\ refusal.pass
      BY <1>1, Sentinels DEF CandidatesBuildable, RefusalValid
    <2>2. evidence \in Authority!Evidence
      BY <1>1 DEF CandidatesBuildable, BaseValid, EvidencePassed, Evidence,
                  Authority!Evidence
    <2>3. runKey \in {evidence.run, NoKey}
      BY <1>1 DEF CandidatesBuildable, BaseValid, KeyMatches
    <2> QED
      BY <1>1, <2>1, <2>2, <2>3
      DEF CandidatesBuildable, BaseValid, PolicySupported, EvidencePassed,
          StatusOfEvidence, ExternalValid, Summaries,
          Authority!Admissible, Authority!Present
  <1>4. authority' = [run |-> evidence.run, policy |-> policy, evidence |-> evidence]
    <2>1. MaterializedStatus \in Status
      BY MaterializedStatusType DEF IInv, MaterializeReleaseRequired
    <2>2. /\ MaterializedStatus.run = evidence.run
          /\ MaterializedStatus.policy = policy
          /\ MaterializedStatus.evidence = evidence
          /\ MaterializedStatus.gates = status.gates \cup ReleaseRequired[policy]
      BY <1>1 DEF MaterializedStatus, Status, CandidatesBuildable, BaseValid,
                  StatusOfEvidence
    <2> QED
      BY <1>1, <2>1, <2>2 DEF authority, ReleaseGatesSet
  <1> QED
    BY <1>1, <1>2, <1>3, <1>4 DEF Authority!Grant, Authority!inputs, inputs

\* Every step of the chain is a step of the promise, or a stutter.
LEMMA NextRefines ==
    ASSUME IInv, IInv', [Next]_vars
    PROVE  [Authority!Next]_(Authority!vars)
  <1>1. CASE UNCHANGED status
    BY <1>1, StatusKeptRefines DEF IInv, Authority!Next
  <1>2. CASE BuildStatus
    BY <1>2, BuildStatusRefines, StatusLostRefines DEF BuildStatus, inputs, Authority!Next
  <1>3. CASE MaterializeReleaseRequired
    BY <1>3, MaterializeRefines DEF Authority!Next
  <1>4. CASE InterruptReplace /\ status' = NoFile
    <2>1. ~ReleaseGatesSet'
      BY <1>4, Sentinels DEF ReleaseGatesSet
    <2> QED
      BY <1>4, <2>1, StatusLostRefines DEF InterruptReplace, inputs, Authority!Next
  <1>5. CASE InterruptWrite /\ status' = Torn /\ UNCHANGED evidence
    <2>1. ~ReleaseGatesSet'
      BY <1>5, Sentinels DEF ReleaseGatesSet
    <2> QED
      BY <1>5, <2>1, StatusLostRefines DEF InterruptWrite, inputs, Authority!Next
  <1>6. Tool => UNCHANGED status \/ BuildStatus \/ MaterializeReleaseRequired
    BY DEF Tool, RecordEvidence, ClearCandidateDir, ClearCandidateIndex,
           PublishCandidateDir, PublishCandidateIndex, BuildManifest, VerifyEvidence
  <1>7. Environment =>
            \/ UNCHANGED status
            \/ InterruptReplace /\ status' = NoFile
            \/ InterruptWrite /\ status' = Torn /\ UNCHANGED evidence
    BY DEF Environment, StartRun, ChangePolicy, WriteRefusal, WriteExternal,
           InterruptCandidates, InterruptClear, InterruptReplace, InterruptWrite,
           products
  <1>8. CASE UNCHANGED vars
    BY <1>1, <1>8 DEF vars, products
  <1> QED
    BY <1>1, <1>2, <1>3, <1>4, <1>5, <1>6, <1>7, <1>8 DEF Next

\* The tool chain implements ReleaseAuthority: whatever order the tools are
\* invoked in and whatever is interrupted or replaced between two of them,
\* status.json gains its release-required gates only in a step at which the
\* raw evidence in the workspace is admissible.
THEOREM Refinement == Spec => AuthorityRefinement
  BY InitRefines, NextRefines, Invariance, PTL
  DEF Spec, AuthorityRefinement, Authority!Spec
=============================================================================
