---------------------------- MODULE EvidenceChain ----------------------------
(***************************************************************************)
(* The recorded-release-evidence tool chain of PULSE_safe_pack_v0/tools     *)
(* over the files of one workspace.  Each tool is one command; an operator, *)
(* a runner or a re-run may invoke the tools in any order, the inputs may   *)
(* change between two invocations, and a tool may be interrupted.           *)
(*                                                                         *)
(*   run_recorded_required_gate_evaluations_v0  -> evidence                 *)
(*   build_release_grade_candidate_status_v0    -> status                   *)
(*   build_recorded_release_candidates_v0       -> candidates, index        *)
(*   build_release_evidence_input_manifest_v0   -> manifest                 *)
(*   check_recorded_release_evidence_v0         -> report                   *)
(*   materialize_release_required_from_verifier_v0 -> status                *)
(*                                                                         *)
(* A file is its content: a record, NoFile when it is absent, Torn when a   *)
(* write in place, or the removal of a directory, was interrupted.  A       *)
(* SHA-256 digest of a file is modelled by the content it was taken of, so  *)
(* "the digest matches" is equality.                                        *)
(* created_utc, which makes two builds from the same inputs differ, is the  *)
(* field stamp.                                                             *)
(***************************************************************************)
EXTENDS Naturals, FiniteSets

CONSTANTS
    Runs,            \* run keys (GITHUB_RUN_ID, GITHUB_RUN_ATTEMPT, workflow)
    NoKey,           \* PULSE_RUN_KEY is not set in the environment
    Policies,        \* versions of pulse_gate_policy_v0.yml and its registry
    Gates,           \* gate ids
    Required,        \* policy version -> gates.required
    ReleaseRequired, \* policy version -> gates.release_required
    Supported,       \* SUPPORTED_RELEASE_REQUIRED of the candidate builder
    Detectors,       \* EXTERNAL_DETECTORS of the candidate builder
    Stamps,          \* values of created_utc
    NoFile, Torn,
    MaxDisturbances  \* bound on what happens outside the chain of tools

ASSUME KeyAssumption == NoKey \notin Runs
\* The two gate lists of a policy are non-empty; a policy may still overlap
\* them or list a gate that the candidate builder does not support.
ASSUME PolicyAssumption ==
    /\ Required \in [Policies -> SUBSET Gates]
    /\ ReleaseRequired \in [Policies -> SUBSET Gates]
    /\ Supported \subseteq Gates
    /\ \A p \in Policies : Required[p] # {} /\ ReleaseRequired[p] # {}
ASSUME BoundAssumption == MaxDisturbances \in Nat

VARIABLES
    runKey,       \* PULSE_RUN_KEY of the environment the tools run in
    policy,       \* the checked-in policy and registry
    refusal,      \* refusal_delta_summary.json
    external,     \* external/<detector>_summary.json with its attestation
    evidence,     \* required_gate_evidence_v0.json
    status,       \* status.json
    candidates,   \* recorded_release_candidates/
    index,        \* recorded_release_candidate_index_v0.json
    manifest,     \* release_evidence_input_manifest_v0.json
    report,       \* recorded_release_evidence_verifier_v0.json
    phase,        \* how far the candidate builder has come
    disturbances

inputs == <<runKey, policy, refusal, external>>
products == <<evidence, status, candidates, index, manifest, report>>
vars == <<inputs, products, phase, disturbances>>

-----------------------------------------------------------------------------
(* Contents of the files.                                                   *)

\* madeIn is the run that wrote the summary: the file itself has no run key.
Refusal == [madeIn : Runs, pass : BOOLEAN]
\* pass: the summary meets its threshold and its attestation verifies.
External == [run : Runs, pass : BOOLEAN]
Evidence == [run : Runs, policy : Policies, passed : BOOLEAN, stamp : Stamps]
Status == [run : Runs, policy : Policies, evidence : Evidence, gates : SUBSET Gates]

ExternalDir == [Detectors -> External \cup {NoFile}]
Envelopes == [run : Runs, policy : Policies, evidence : Evidence,
              refusal : Refusal, external : ExternalDir]
Candidates == [envelopes : Envelopes, stamp : Stamps]
Index == [status : Status, evidence : Evidence, candidates : Candidates]
Manifest == [candidates : Candidates]
Report == [manifest : Manifest \cup {NoFile}, verified : BOOLEAN]

ASSUME FileAssumption ==
    /\ NoFile # Torn
    /\ \A f \in {NoFile, Torn} :
          f \notin Refusal \cup External \cup Evidence \cup Status \cup
                   Candidates \cup Index \cup Manifest \cup Report

Phases == {"idle", "dirCleared", "cleared", "dirPublished"}

TypeOK ==
    /\ runKey \in Runs \cup {NoKey}
    /\ policy \in Policies
    /\ refusal \in Refusal \cup {NoFile}
    /\ external \in ExternalDir
    /\ evidence \in Evidence \cup {NoFile, Torn}
    /\ status \in Status \cup {NoFile, Torn}
    /\ candidates \in Candidates \cup {NoFile, Torn}
    /\ index \in Index \cup {NoFile}
    /\ manifest \in Manifest \cup {NoFile}
    /\ report \in Report \cup {NoFile, Torn}
    /\ phase \in Phases
    /\ disturbances \in 0..MaxDisturbances

-----------------------------------------------------------------------------
(* What the tools compute.                                                  *)

\* The policies the tools accept: every tool rejects overlapping gate lists.
PolicyUsable == Required[policy] \cap ReleaseRequired[policy] = {}

\* A tool that runs under a run key rejects the evidence of another one.
KeyMatches(run) == runKey # NoKey => runKey = run

\* Mutant of StatusBuildable: failed gates are not looked at.
StatusBuildableFromFailed ==
    /\ evidence \in Evidence
    /\ evidence.policy = policy
    /\ PolicyUsable

StatusBuildable ==
    /\ evidence \in Evidence
    /\ evidence.policy = policy
    /\ evidence.passed
    /\ PolicyUsable

CandidateStatus ==
    [run |-> evidence.run, policy |-> policy, evidence |-> evidence,
     gates |-> Required[policy]]

\* The builder of the candidates serves one set of release-required gates.
PolicySupported == PolicyUsable /\ ReleaseRequired[policy] = Supported

\* The evidence is of the policy that is checked out and has no failed gate.
EvidencePassed ==
    /\ evidence \in Evidence
    /\ evidence.policy = policy
    /\ evidence.passed

\* The status was built from the evidence that is there.
StatusOfEvidence ==
    /\ status \in Status
    /\ status.run = evidence.run
    /\ status.policy = policy
    /\ status.evidence = evidence

\* Mutant of BaseValid: gates beyond the required ones are let through.
BaseValidWithMoreGates ==
    /\ PolicySupported
    /\ EvidencePassed
    /\ KeyMatches(evidence.run)
    /\ StatusOfEvidence
    /\ Required[policy] \subseteq status.gates

BaseValid ==
    /\ PolicySupported
    /\ EvidencePassed
    /\ KeyMatches(evidence.run)
    /\ StatusOfEvidence
    /\ status.gates = Required[policy]

RefusalValid == refusal \in Refusal /\ refusal.pass

Summaries(dir) == {d \in Detectors : dir[d] # NoFile}

\* Mutant of ExternalValid: the summaries' run is not compared.
ExternalValidOfAnyRun ==
    /\ Summaries(external) # {}
    /\ \A d \in Summaries(external) : external[d].pass

\* One summary at least, and every one that is there is valid for this run.
ExternalValid ==
    /\ Summaries(external) # {}
    /\ \A d \in Summaries(external) :
          external[d].run = evidence.run /\ external[d].pass

CandidatesBuildable == BaseValid /\ RefusalValid /\ ExternalValid

CanonicalEnvelopes ==
    [run |-> evidence.run, policy |-> policy, evidence |-> evidence,
     refusal |-> refusal, external |-> external]

\* The raw evidence the envelopes bind is unchanged on disk.  A summary that
\* appeared after the envelopes were built is not looked at here.
RawEvidenceUnchanged(e) ==
    /\ e.evidence = evidence
    /\ e.refusal = refusal
    /\ \A d \in Summaries(e.external) : e.external[d] = external[d]

ManifestBuildable ==
    /\ index \in Index
    /\ index.candidates = candidates
    /\ index.status = status
    /\ index.evidence = evidence
    /\ index.candidates.envelopes.policy = policy
    /\ ReleaseRequired[policy] = Supported
    /\ KeyMatches(index.candidates.envelopes.run)
    /\ RawEvidenceUnchanged(index.candidates.envelopes)

\* The manifest is of the policy that is checked out.
ManifestOfPolicy ==
    /\ manifest \in Manifest
    /\ manifest.candidates.envelopes.policy = policy

\* The candidates are built again; as many came out as the manifest names.
CandidateSetCanonical ==
    /\ CandidatesBuildable
    /\ Summaries(manifest.candidates.envelopes.external) = Summaries(external)

\* The envelopes on disk have the digests the manifest names, and the content
\* that was built again.
CandidatesCanonical ==
    /\ candidates = manifest.candidates
    /\ manifest.candidates.envelopes = CanonicalEnvelopes

\* The verdict of the verifier on the manifest that is on disk.  The relations
\* and gates of a manifest that build_manifest wrote follow its candidates.
Verified == ManifestOfPolicy /\ CandidateSetCanonical /\ CandidatesCanonical

\* The report on disk says what the verifier says when it runs again.
ReportReplayed ==
    /\ Verified
    /\ report = [manifest |-> manifest, verified |-> TRUE]

StatusOfPolicy == status \in Status /\ status.policy = policy

StatusOfVerifiedRun == status.run = manifest.candidates.envelopes.run

NothingGrantedYet == ReleaseRequired[policy] \cap status.gates = {}

\* Mutant of Materializable: the report is believed instead of replayed.
MaterializableOnReport ==
    /\ manifest \in Manifest
    /\ report = [manifest |-> manifest, verified |-> TRUE]
    /\ StatusOfPolicy
    /\ StatusOfVerifiedRun
    /\ NothingGrantedYet

Materializable ==
    /\ ReportReplayed
    /\ StatusOfPolicy
    /\ StatusOfVerifiedRun
    /\ NothingGrantedYet

MaterializedStatus ==
    [status EXCEPT !.gates = @ \cup ReleaseRequired[policy]]

-----------------------------------------------------------------------------
(* The tools.                                                               *)

\* Writes the evidence whether or not every gate passed.  A usage error writes
\* nothing, which is a stuttering step here and in the tools below.
RecordEvidence(r, ok, s) ==
    /\ phase = "idle"
    /\ disturbances < MaxDisturbances
    /\ evidence' = [run |-> r, policy |-> policy, passed |-> ok, stamp |-> s]
    /\ disturbances' = disturbances + 1
    /\ UNCHANGED <<inputs, status, candidates, index, manifest, report, phase>>

\* Deletes the old status first, so that a failed build leaves none.
BuildStatus ==
    /\ phase = "idle"
    /\ status' = IF StatusBuildable THEN CandidateStatus ELSE NoFile
    /\ UNCHANGED <<inputs, evidence, candidates, index, manifest, report,
                   phase, disturbances>>

ClearCandidateDir ==
    /\ phase = "idle"
    /\ candidates' = NoFile
    /\ phase' = "dirCleared"
    /\ UNCHANGED <<inputs, evidence, status, index, manifest, report, disturbances>>

\* Mutant of ClearCandidateIndex: the old index stays until it is replaced.
KeepCandidateIndex ==
    /\ phase = "dirCleared"
    /\ phase' = "cleared"
    /\ UNCHANGED <<inputs, products, disturbances>>

ClearCandidateIndex ==
    /\ phase = "dirCleared"
    /\ index' = NoFile
    /\ phase' = "cleared"
    /\ UNCHANGED <<inputs, evidence, status, candidates, manifest, report, disturbances>>

PublishCandidateDir(s) ==
    /\ phase = "cleared"
    /\ IF CandidatesBuildable
       THEN /\ candidates' = [envelopes |-> CanonicalEnvelopes, stamp |-> s]
            /\ phase' = "dirPublished"
       ELSE /\ phase' = "idle"
            /\ UNCHANGED candidates
    /\ UNCHANGED <<inputs, evidence, status, index, manifest, report, disturbances>>

PublishCandidateIndex ==
    /\ phase = "dirPublished"
    /\ index' = [status |-> status, evidence |-> evidence, candidates |-> candidates]
    /\ phase' = "idle"
    /\ UNCHANGED <<inputs, evidence, status, candidates, manifest, report, disturbances>>

\* Mutant of BuildManifest: a rejected manifest is left where it was written.
BuildManifestInPlace ==
    /\ phase = "idle"
    /\ manifest' = IF ManifestBuildable
                   THEN [candidates |-> index.candidates]
                   ELSE Torn
    /\ UNCHANGED <<inputs, evidence, status, candidates, index, report,
                   phase, disturbances>>

\* Deletes the old manifest first; the new one is moved into place.
BuildManifest ==
    /\ phase = "idle"
    /\ manifest' = IF ManifestBuildable
                   THEN [candidates |-> index.candidates]
                   ELSE NoFile
    /\ UNCHANGED <<inputs, evidence, status, candidates, index, report,
                   phase, disturbances>>

\* Writes a report whatever the verdict.
VerifyEvidence ==
    /\ phase = "idle"
    /\ report' = [manifest |-> manifest, verified |-> Verified]
    /\ UNCHANGED <<inputs, evidence, status, candidates, index, manifest,
                   phase, disturbances>>

\* Replays the verifier and overwrites the status in place.
MaterializeReleaseRequired ==
    /\ phase = "idle"
    /\ Materializable
    /\ status' = MaterializedStatus
    /\ UNCHANGED <<inputs, evidence, candidates, index, manifest, report,
                   phase, disturbances>>

-----------------------------------------------------------------------------
(* Outside the chain: the producers of its inputs, and interruptions.       *)

Disturb ==
    /\ disturbances < MaxDisturbances
    /\ disturbances' = disturbances + 1

StartRun(k) ==
    /\ phase = "idle"
    /\ Disturb
    /\ runKey' = k
    /\ UNCHANGED <<policy, refusal, external, products, phase>>

ChangePolicy(p) ==
    /\ phase = "idle"
    /\ Disturb
    /\ policy' = p
    /\ UNCHANGED <<runKey, refusal, external, products, phase>>

\* refusal_delta.py of run r.
WriteRefusal(r, ok) ==
    /\ phase = "idle"
    /\ Disturb
    /\ refusal' = [madeIn |-> r, pass |-> ok]
    /\ UNCHANGED <<runKey, policy, external, products, phase>>

WriteExternal(d, r, ok) ==
    /\ phase = "idle"
    /\ Disturb
    /\ external' = [external EXCEPT ![d] = [run |-> r, pass |-> ok]]
    /\ UNCHANGED <<runKey, policy, refusal, products, phase>>

\* The candidate builder stops; the temporary tree it leaves is not read.
InterruptCandidates ==
    /\ phase # "idle"
    /\ Disturb
    /\ phase' = "idle"
    /\ UNCHANGED <<inputs, products>>

\* The candidate builder stops while it removes the files of the directory.
InterruptClear ==
    /\ phase = "idle"
    /\ candidates # NoFile
    /\ Disturb
    /\ candidates' = Torn
    /\ UNCHANGED <<inputs, evidence, status, index, manifest, report, phase>>

\* A tool stops after it deleted its old output and before it moved the new
\* one into place.
InterruptReplace ==
    /\ phase = "idle"
    /\ Disturb
    /\ \/ status' = NoFile /\ UNCHANGED manifest
       \/ manifest' = NoFile /\ UNCHANGED status
    /\ UNCHANGED <<inputs, evidence, candidates, index, report, phase>>

\* Files written in place: the write is cut short.
InterruptWrite ==
    /\ phase = "idle"
    /\ Disturb
    /\ \/ evidence' = Torn /\ UNCHANGED <<status, report>>
       \/ report' = Torn /\ UNCHANGED <<evidence, status>>
       \/ Materializable /\ status' = Torn /\ UNCHANGED <<evidence, report>>
    /\ UNCHANGED <<inputs, candidates, index, manifest, phase>>

-----------------------------------------------------------------------------
\* A fresh checkout of some policy with the raw summaries of some run, or none.
Init ==
    /\ runKey \in Runs \cup {NoKey}
    /\ policy \in Policies
    /\ refusal \in Refusal \cup {NoFile}
    /\ external \in ExternalDir
    /\ evidence = NoFile
    /\ status = NoFile
    /\ candidates = NoFile
    /\ index = NoFile
    /\ manifest = NoFile
    /\ report = NoFile
    /\ phase = "idle"
    /\ disturbances = 0

Tool ==
    \/ \E r \in Runs, ok \in BOOLEAN, s \in Stamps : RecordEvidence(r, ok, s)
    \/ BuildStatus
    \/ ClearCandidateDir
    \/ ClearCandidateIndex
    \/ \E s \in Stamps : PublishCandidateDir(s)
    \/ PublishCandidateIndex
    \/ BuildManifest
    \/ VerifyEvidence
    \/ MaterializeReleaseRequired

Environment ==
    \/ \E k \in Runs \cup {NoKey} : StartRun(k)
    \/ \E p \in Policies : ChangePolicy(p)
    \/ \E r \in Runs, ok \in BOOLEAN : WriteRefusal(r, ok)
    \/ \E d \in Detectors, r \in Runs, ok \in BOOLEAN : WriteExternal(d, r, ok)
    \/ InterruptCandidates
    \/ InterruptClear
    \/ InterruptReplace
    \/ InterruptWrite

Next == Tool \/ Environment

Spec == Init /\ [][Next]_vars
-----------------------------------------------------------------------------
(* What the chain promises.                                                 *)

\* The release-required gates of its policy are in status.json.
ReleaseGatesSet ==
    status \in Status /\ ReleaseRequired[status.policy] \subseteq status.gates

\* Two-step publication of the candidate builder (clear_outputs and
\* write_outputs): whatever was interrupted, an index and a complete directory
\* that are both there were written by the same build.
IndexDescribesDir ==
    index # NoFile /\ candidates \in Candidates => index.candidates = candidates

\* status.json carries the required gates of its policy and either all of the
\* release-required ones or none; the evidence it names passed, for the same
\* run and policy (candidate status builder and materializer).
StatusAllOrNothing ==
    status \in Status =>
        /\ status.gates \in
              {Required[status.policy],
               Required[status.policy] \cup ReleaseRequired[status.policy]}
        /\ Required[status.policy] \cap ReleaseRequired[status.policy] = {}
        /\ status.evidence.passed
        /\ status.evidence.run = status.run
        /\ status.evidence.policy = status.policy

\* Envelopes that support the release-required gates of one run and policy.
Supports(e) ==
    /\ e.evidence.passed
    /\ e.evidence.run = e.run
    /\ e.evidence.policy = e.policy
    /\ e.refusal.pass
    /\ Summaries(e.external) # {}
    /\ \A d \in Summaries(e.external) :
          e.external[d].run = e.run /\ e.external[d].pass

\* However stale, every envelope set that a directory, an index, a manifest or
\* a verified report holds was admissible as a whole when it was built: no
\* artifact mixes the evidence of two runs or of two policies.
EnvelopesNeverMixed ==
    /\ candidates \in Candidates => Supports(candidates.envelopes)
    /\ index # NoFile => Supports(index.candidates.envelopes)
    /\ manifest # NoFile => Supports(manifest.candidates.envelopes)
    /\ report \in Report /\ report.verified =>
          report.manifest # NoFile /\ Supports(report.manifest.candidates.envelopes)

\* A status that has its release-required gates cannot be verified once more:
\* the replay wants the candidate status, so a second materialization on top
\* of the first fails closed and the status has to be built anew.
NoGrantOnTopOfGrant == ReleaseGatesSet => ~CandidatesBuildable

\* The evidence a verified report binds was produced in the run it is bound to.
\* Of the raw evidence, refusal_delta_summary.json is the one file whose run
\* refusal_candidate cannot compare.
VerifiedRefusalOfThisRun ==
    report \in Report /\ report.verified =>
        LET e == report.manifest.candidates.envelopes IN e.refusal.madeIn = e.run

\* Which files the candidate builder has removed or written so far.
PhaseInv ==
    /\ phase = "dirCleared" => candidates = NoFile
    /\ phase = "cleared" => candidates = NoFile /\ index = NoFile
    /\ phase = "dirPublished" =>
          /\ index = NoFile
          /\ candidates \in Candidates
          /\ status \in Status
          /\ evidence \in Evidence

\* The inductive invariant: what every tool may rely on and has to preserve.
IInv ==
    /\ TypeOK
    /\ PhaseInv
    /\ IndexDescribesDir
    /\ StatusAllOrNothing
    /\ EnvelopesNeverMixed

\* The authority that status.json carries: the refinement mapping.
authority ==
    IF ReleaseGatesSet
    THEN [run |-> status.run, policy |-> status.policy, evidence |-> status.evidence]
    ELSE NoFile

Authority == INSTANCE ReleaseAuthority WITH NoAuthority <- NoFile

\* status.json gains release authority only in a step at which the evidence in
\* the workspace itself is admissible (materialize_release_required).
AuthorityRefinement == Authority!Spec
=============================================================================
