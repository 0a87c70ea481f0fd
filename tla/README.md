# PULSE release gates: a TLA+ verification project

PULSE decides whether a release may ship from *recorded evidence*: evaluators run the gates of a
policy, tools bind what they found to one commit, run and policy, and `status.json` ends up with a
map of gates that `check_gates.py` enforces. This directory models the part of the repository on
which that decision rests, model-checks it with TLC and proves its main invariants with TLAPS.
Paths below are relative to the repository root; `T/` stands for `PULSE_safe_pack_v0/tools/` and
"the workflow" for `.github/workflows/pulse_ci.yml`.

## 1. Inventory

| Component | State it keeps | Operations | Hard parts | What makes it correct |
|---|---|---|---|---|
| Recorder `T/run_recorded_required_gate_evaluations_v0.py` and evaluator `T/evaluate_required_gate_v0.py` | evidence directory, `required_gate_evidence_v0.json` | per gate: reset, run with timeout, hash, read, verdict | a killed evaluator's child still writes; hash and read are separate opens; file written on failure too | a passing gate's digest is of the content that was judged, in this run |
| Candidate status builder `T/build_release_grade_candidate_status_v0.py` | `status.json` | delete, re-verify evidence, move into place | stale or foreign evidence, policy change | exactly the required gates, only from passed evidence of this policy |
| Candidate builder `T/build_recorded_release_candidates_v0.py` | `recorded_release_candidates/`, index | clear both, validate, publish directory, publish index | two-step publication, crashes, late external summaries, unset run key | one run and one policy per envelope set |
| Manifest builder `T/build_release_evidence_input_manifest_v0.py` | manifest | delete, re-hash what the index names, check, move | raw evidence changed since | the manifest repeats an admissible envelope set |
| Verifier `T/check_recorded_release_evidence_v0.py` | report | canonical replay of the candidates, report always written | old report beside new evidence | verified only if the replay agrees with the files |
| Materializer `T/materialize_release_required_from_verifier_v0.py` | `status.json`, in place | replay the verifier, then add the release-required gates | crash in the middle, second materialization | the only source of release authority |
| Gate consumers `T/check_gates.py`, `T/materialize_release_decision.py`, `T/build_artifact_provenance_binding_v0.py` | decision, binding | read the gates of `status.json` | three readings, three gate lists | they agree in every lane |
| Workflow | jobs, workspaces, artifacts of all attempts | ~150 steps in 7 release-relevant jobs | failing steps with `always()` after them, two decisions of the lane, re-runs, artifact names | what is published is supported, the packet is of one attempt, a healthy run completes |
| Reference package `T/assemble_release_grade_reference_package_v0.py`, `T/verify_release_grade_reference_package_v0.py`, `tools/check_release_grade_package_complete_v1.py` | package directory, inventory | collect, inventory, verify closure and bindings | parts from different artifacts | every part of the attempt it names |
| Policy and registry `pulse_gate_policy_v0.yml`, `pulse_gate_registry_v0.yml`, `tools/policy_to_require_args.py` | gate lists | parse, select | hand-written YAML reader, overlapping lists | no gate gets lost between policy and `--require` |
| LlamaGuard evidence: `T/run_llamaguard_current_evidence_v0.py`, `T/adapters/llamaguard_ingest.py`, `T/build_llamaguard_attestation_envelope_v1.py`, `T/check_external_summary_attestation_v1.py` | raw results, manifest, summary, bundle, envelope, report | produce, adapt, attest, envelope, verify, pack | six files written one by one, two attempts of one commit, each tool clears its own list of old files | what is admitted or packed for a run was attested for that run |
| Refusal-delta tool `T/refusal_delta.py` | summary | compute | no run identity in the summary | current-run binding |
| Writers of the core lane `T/run_all.py`, `T/augment_status.py` | `status.json` | compute, fold | stubs | stubs never reach a release label |
| Compute relation: `tools/build_pulsemech_compute_planned_observed_relation_v0.py`, its checker, `tools/fold_pulsemech_compute_planned_observed_relation_into_status_v0.py` | compute report, relation file, status, folded status | analyze, build, self-check, fold, promote | best-match comparison with ties, observers and partial records; two recomputations that may differ; files that move between a digest and a read; a write before the last look | candidate gates are justified by the raw records, come from one moment, and never flip |
| Publication: `publish_report_pages.yml`, `cancel_pages_deployment.yml`, `upload_sarif.yml`, `tools/check_sarif_workflow_run_binding_v0.py` | the group `github-pages`, a deployment in progress, the site, code-scanning alerts | queue, resolve, download, deploy, cancel; bind, upload | attempts complete in any order, a queue of one, deployments that outlive their workflow, metadata written by a pull request | the site shows a push that passed and does not go back; alerts are of the commit and ref they are filed under |
| Rendering of ledger, summaries, JUnit, SARIF, authority manifest; shadow layers; SLSA/VSA intake; the other compute tools; gravity protocol; experiments | reports | render, validate | none that bear on the decision | not modelled |

The components interact through files of one workspace, through artifacts between jobs, and through
environment variables (`PULSE_RUN_KEY`, `PULSE_POLICY_SET`). Nothing is locked; what holds them
together is that every consumer re-validates its inputs.

## 2. Modules

| Module | Models |
|---|---|
| `EvidenceChain` | The six tools over one workspace. A file is its content, so a digest is the content and "the digest matches" is equality; `created_utc` is the field `stamp`. The candidate builder is four actions (clear directory, clear index, publish directory, publish index), every other tool is one. The environment changes the run key, policy, refusal summary and external summaries between tools, records new evidence, and interrupts tools (`InterruptCandidates`, `InterruptClear`, `InterruptReplace`, `InterruptWrite`). Tools may be invoked in any order. Each verdict (`BaseValid`, `Verified`, `Materializable`) is a conjunction of named parts, one per block of checks in the validator. |
| `ReleaseAuthority` | The promise without files: authority is granted in one step, at which the evidence in the workspace is admissible. |
| `EvidenceChainProofs` | TLAPS proofs about `EvidenceChain`. |
| `GateSemantics` | Verdicts as operators: `CheckGates`, `ReleaseLevel`, `Enforcement`. |
| `PulseWorkflow` | One workflow run with its re-runs: jobs with `needs` and `if`, each a list of steps over a fresh workspace, artifacts that outlive an attempt. The tool chain is its step `materialize`. |
| `PulseWorkflowProofs` | TLAPS proofs about `PulseWorkflow`. |
| `RequiredGateRecorder` | How the required gates are evaluated, as processes over files: the recorder starts an evaluator per gate, the evaluator starts a builder of the gate's summary, and the candidate status builder reads what they leave. Every open, write, hash and load is a step of its own. `subprocess.run` kills only its direct child, so killed recorders and evaluators leave orphans that write into the files of a later invocation. |
| `RequiredGateRecorderProofs` | TLAPS proofs about `RequiredGateRecorder`. |
| `LlamaGuardEvidence` | The hosted LlamaGuard evidence: producer, adapter, attestation, envelope builder, attestation verifier and packing, in the fresh workspaces of two attempts of one commit and in a workspace of an operator that outlives both; kills between any two writes. |
| `LlamaGuardEvidenceProofs` | TLAPS proofs about `LlamaGuardEvidence`. |
| `ComputeRelation` | The planned-observed relation as a function of plan, report, packets and expectations: observations, the packet chain, matching, evaluation, axes, findings; the checker's recomputation; the three candidate gates. |
| `ComputeRelationProofs` | TLAPS proofs about `ComputeRelation`, and what follows from them for the files of `RelationFold`. |
| `RelationFold` | Analyzer, builder and fold over their files, extends `ComputeRelation`. A relation file is represented by the inputs it was built from. |
| `RelationFoldProofs` | TLAPS proofs about `RelationFold`. |
| `Publication` | PULSE CI runs as the other workflows see them, the two workflows that share the group `github-pages`, and the SARIF upload with its binding. |
| `PublicationProofs` | TLAPS proofs about `Publication`. |
| `MCEvidenceChain`, `MCPulseWorkflow`, `MCRequiredGateRecorder`, `MCLlamaGuardEvidence`, `MCRelationFold`, `MCPublication` | Instances for TLC. |

`EvidenceChain!AuthorityRefinement` is `ReleaseAuthority!Spec` under the mapping "authority is what
`status.json` names if it carries the release-required gates of its policy, else none". It is an
action property as much as a refinement: evidence may change at will, but authority may not appear
except in a step at which `Admissible` holds of the raw evidence itself, whatever candidates,
manifests or reports lie around.

### How actions correspond to code

`BuildStatus`, `BuildManifest` delete their old output first, as the `main` functions do, so a
rejected build leaves none. `VerifyEvidence` writes its report whatever the verdict.
`MaterializeReleaseRequired` requires the recorded report to be of the manifest on disk *and* the
replay to succeed now. `KeyMatches` is the comparison with `PULSE_RUN_KEY` that is skipped when the
variable is empty; the workflow leaves it unset in the recorded-path job.
In `RequiredGateRecorder` the steps of one gate are `StartEvaluator` (reset, start), `EvaluatorReturned`
or `EvaluatorTimesOut`, `HashResult`, `LoadResult` for the recorder; `Prepare` (reset, start),
`BuilderReturned` or `BuilderTimesOut`, `HashSummary`, `LoadSummary`, `OpenResult`, `WriteResult` for the
evaluator; `OpenSummary`, `WriteSummary`, `BuilderExits` for the builder (some builders truncate and
write, others replace the file, hence `OpenSummary` may be passed over). `write_text` is two steps with
`Torn` between them. The status builder is `ReadEvidence`, and per gate `BindResult` (the digest),
`ReadResult` (the content), `CheckInputs` (the digests of the inputs, and after the last gate the
status). `EvidenceChain` sees all this as its actions `RecordEvidence` and `BuildStatus`; that these are
atomic there is what the properties of `RequiredGateRecorder` are meant to license.
In `PulseWorkflow` a step's guard is "no earlier step failed, or the step has `if: always()`"; its
effect is on the workspace (`files`) and the artifacts (`store`). `Scoped` is the set of artifact
names that end in run id and attempt. `healthy` marks attempts in which gates pass and no step fails
by itself; otherwise evaluators may fail gates, the steps that write the status may fail after writing it,
and `FailStep` may fail any step and lose its output, except those of the manifest and of the decision, which
drop their tools' exit codes.
Cancellation (`cancel-in-progress`) is such a failure: `always()` steps run after both.

In `LlamaGuardEvidence` every tool clears its own list of stale outputs and then writes its files one by
one, each renamed into place, except the attestation verifier's report, which is written in place: a torn
report is rejected wherever it is read, so it counts as none. A kill may fall between any two writes. CI's jobs run on fresh machines and
hand files on as artifacts of an attempt; the operator's workspace keeps whatever was left. The model's
answers, `gh attestation`, Sigstore and `actions/attest` are external: an attestation is the pair of a
content and the commit it was made for, which is all the verifier learns from it. That is why run identity
has to come from the summary itself. The digest of an evaluator manifest that the package verifier compares
(`T/verify_release_grade_reference_package_v0.py:901`) never applies, because the adapter writes no such
field; a package whose envelope names a bundle that does not attest it is excluded by the packed report only.

In `ComputeRelation` one operator stands for each pure function of the builder, in its order; `Record` is
`build_relation_record` with its second pass. `CheckerAccepts` is translated from the checker, not from the
builder, so that `SelfCheckPasses` compares two texts. Four consequences of the code that the model made
plain: the analyzer's own node has a run key of its own, so the execution axis of a report it built offline is
never complete and its path gate never TRUE; every runtime packet contains the execution of its collector,
which must be planned like any other; a missing *last* packet leaves no trace in the ones before it; and a relation has one status, so a source, role
or authority mismatch hides that a required consumption is missing (only the authority gate turns FALSE).
In `RelationFold` the steps of the builder are `StartBuild` (digest), `LoadReport`, `BuildRecord` (record and
self-check), `WriteRelation`; those of the fold are `StartFold` (digest), `LoadStatus`, `LoadRelation`,
`ValidateRelation`, `DeriveGates`, `WriteFolded`, `CheckAgain`. The builder may restore an earlier relation
(A-B-A), which no digest can see. A status changes only when an operator takes over the output of a fold that
reported ok (`Promote`).

In `Publication` a run's number is its order of creation and its head commit; a merge commit is the pair of
its parents. `Begin` is a start or re-run with the cancellation it causes; `Completed` delivers the
`workflow_run` event at once, in the order of completion. `running` and `pending` are the concurrency group:
one holds it, one waits, the newest takes the place of the one that waits, whether or not its job's `if` is
true, since that is read later. A deployment that Pages is working on outlives the workflow that asked for it
(`FailPublication`, `PagesFinish`). The artifacts `pulse-report` of all attempts of a run have one name
(`uploaded`), and both workflows download by run id and name: which attempt's report they get is the choice of
the service and the action, so `Downloads` is any of them, or the newest one if the constant `NewestFirst` is
TRUE. Nothing in the repository settles it, and an attempt that passes has left its own (`LeavesReport`). The
metadata beside a pull request's SARIF may say anything (`Metadata`); `Snapshots` is what the API shows of the
pull request at the time of the check. The two workflows share nothing but the CI runs, so a behaviour follows
one of them (`followed`).

## 3. Runs

| Run | Checks | Shows |
|---|---|---|
| `evidence_chain` | `TypeOK`, `IndexDescribesDir`, `StatusAllOrNothing`, `EnvelopesNeverMixed`, `NoGrantOnTopOfGrant`, `AuthorityRefinement` | The safety of the chain under arbitrary order, input changes and interruptions. |
| `pulse_workflow` | `TypeOK`, `VerifiedInOneAttempt`, `InputsFound`, `ProdPassSupported`, `BindingAgreesOutsideTier0`, `PackageOfOneAttempt`, `AttemptConcludes`, `HealthyReleaseVerified` | The workflow under all triggers, failures and re-runs. |
| `refusal_summary` | `VerifiedRefusalOfThisRun`, violated | A refusal summary of another run is bound to this one. |
| `tier0_enforcement` | `ReleaseGradeEnforced`, violated | `docs/GATE_SETS.md:42` does not hold in the `tier0_not_required` lane. |
| `tier0_binding` | `BindingAgrees`, violated | In that lane the binding says block where `check_gates.py` allowed. |
| `package_any_attempt` | `PackageOfOneAttempt`, violated when `NewestFirst = FALSE` | The package verifier would not notice a decision of an earlier attempt. |
| `required_gate_recorder` | `TypeOK`, `StatusOfOneRun`, `JudgedWhatItBinds`, `BoundResultPasses` | A candidate status is about evaluations of its own run, each judged and bound on one content, although orphans write at any moment. |
| `recorder_concludes` | `RecorderConcludes` | An invocation of the recorder ends even if builders and evaluators hang. |
| `summary_of_this_run` | `SummaryOfThisRun`, violated | The summary behind a passing gate may be an orphan's of another run. |
| `llamaguard_evidence` | `TypeOK`, `AdmissionIsOfThatRun`, `PackageIsOfThatRun`, `NothingFailingAttested`, `FilesDescribeEachOther`, `PassingRunNeverRejected` | Evidence admitted or packed for a run was attested for it and counts what its producer classified, although another attempt of the same commit uses the same file names. |
| `relation_fold` | `TypeOK`, `PathCompleteJustified`, `AuthorityBindingJustified`, `UnboundMutationNeverHidden`, `SelfCheckPasses`, `FoldedFromOneMoment`, `UncheckedOnlyAfterKill`, `GatesNeverFlip` | The candidate gates of the fold are justified by the raw compute records and come from files that were on disk together. |
| `publication` | `TypeOK`, `SiteShowsAPassedPush`, `SiteShowsItsReport`, `AlertsOfEndedAttempts`, `AlertsOfOwnRef`, `SiteNeverGoesBack`, `LastPassIsShown` | What the site and code scanning show after any order of runs, re-runs, cancellations, queueing, failures and dispatches. |

The hash and the load of a file are separate opens in both recorder and evaluator, so a digest may be
of another content than the verdict. `JudgedWhatItBinds` and `BoundResultPasses` say that this never
gets into a status: the status builder hashes everything again, and the last writer of a file is the
one it sees. Their mutants drop these second looks.

The five violated runs are disagreements between documentation and code; PROJECT.json quotes the
sentences. None of them says that a release is authorized wrongly: the tier-0 lane claims no
authority (`README.md:198-240`), `package_any_attempt` depends on which of several artifacts of one name
the artifact service returns, and `refusal_summary` and `summary_of_this_run` take a workspace that is
used for two runs, which CI's fresh runners exclude. Run `pulse_workflow` shows that the package is of one attempt if that
is always the newest.

One operational consequence is a property and not a defect: `VerifiedInOneAttempt`. After a failed
hosted release "Re-run failed jobs" never completes the path unless the pulse job itself is among
the failed ones, because the inputs of the re-run jobs are named after the earlier attempt.

The first three properties of `relation_fold` judge the gates against the raw records: they ask for an
assignment of every record to an expectation it fulfils, in terms (`Seen`, `Fulfils`, `FulfilsExactly`) that
use neither scores nor statuses nor coverage words. `SelfCheckPasses` has two exceptions, which are
in the property: a missing consumption beside an output whose consumption is open, and an observer that is not
declared as one or that has authority, make the builder's own checker reject its record, so such inputs yield
no relation at all.

What `publication` does not promise: a publication that waits may be displaced by one that will be skipped
(of a failing run, or of a fork's branch called `main`), and nothing publishes it later; the report on the site
may be that of another attempt of the same run, even of a failing one: a later one if the run has been re-run
since, and, unless the download returns the newest artifact, an earlier one (attempt 1 fails and uploads,
attempt 2 passes and is published, the site shows the report of attempt 1). `SiteShowsItsReport` says what
remains true, `SiteShowsNoOlderReport` what `NewestFirst` adds. A
publication dispatched without a run id picks the newest passing run on a branch called `main`, a fork's
included; and the alerts of a later attempt may be replaced by a slower upload of an earlier one. No
document of the repository claims otherwise.

### Bounds

`evidence_chain`: two runs (this one and another), three policies (one, one with a further required
gate, one whose lists overlap), two detectors (one may be late or of the other run), one timestamp,
three disturbances in total, of which recording evidence takes one. Three is what the hard cases
take: record in one run, change an input, interrupt. Deadlock is checked.
`pulse_workflow`: two attempts, one gate that is core, one that is only required, one that is
release-required. Two attempts are one that leaves artifacts behind and one that meets them.
`CHECK_DEADLOCK FALSE`, since a run is over when nobody re-runs it.
`required_gate_recorder`: two run identities, one gate, two invocations. Gates share no file but the
evidence, which is written once per invocation, so one gate shows every race on summary and result; two
invocations are one that leaves an evaluator and a builder behind and one that meets them.
`JudgedWhatItBinds` and `BoundResultPasses` allow one exception: if two orphans truncate one file in turn,
two empty files, alike in their digests, may surround a complete one. With two invocations there is at most
one orphan beside the process that reads, so the run shows the two properties without the exception; the
proofs cover any number of orphans. `recorder_concludes`: one invocation,
two gates. Deadlock is off in both, as an idle workspace may stay so.
`llamaguard_evidence`: two attempts of one commit and one other commit whose evidence rules are laxer, four
tool starts in the operator's workspace: produce, adapt, envelope, and one more that meets their leftovers.
Tools of one workspace run one after another.
`relation_fold`: the bounds are the scenes of `MCRelationFold`: a good case (the node of the deciding tool, its
execution in a packet, the collector, an expectation for each) with one or two fields of one record changed,
under 8 expectation sets for reports alone and 5 for reports with packets, 16 packet lists among them with
gaps, duplicates, reordering and a broken chain; and three scenes whose report, relation and status move
under the tools. The state space of one scene is complete: builds and folds are unbounded in number.
`publication`: two runs, one re-run, one dispatch, `NewestFirst = FALSE`, which allows all that `TRUE` does. Two runs suffice for an older and a newer one, and with
the re-run and the dispatch there are enough requests to hold the group, wait for it, and be displaced.
`CHECK_DEADLOCK FALSE`: everything may have ended.

### Fairness

`PulseWorkflow` assumes `WF_vars(Runner)`: GitHub starts a queued job, runs the next step of a
running one and evaluates conditions; every job has `timeout-minutes`, so a step ends. Nothing is
assumed of people: `RerunAll` and `RerunFailed` have no fairness. `HealthyReleaseVerified` says
nothing of partial re-runs, which cannot succeed, or of attempts in which something fails.
`RequiredGateRecorder` assumes `WF_vars(RecorderStep)`: the recorder is a sequential program whose every
wait is a `subprocess.run` with a timeout, which is one of its steps. Nothing is assumed of evaluators and
builders.
`Publication` assumes `WF_vars(PublisherStep)`: the publishing workflow that holds the group takes its next
step or fails, for its jobs have time limits. Nothing is assumed of GitHub Pages, of PULSE CI or of people.
`LlamaGuardEvidence` and `RelationFold` have no fairness: their tools are started by hand.
`EvidenceChain` has no fairness, for the tools are invoked by hand or by the workflow.

## 4. Proofs

`EvidenceChainProofs` proves for all values of the constants, from
`PolicyAssumption`, `BoundAssumption` and `FileAssumption`:

* `Invariance`: `Spec => []IInv` with
  `IInv == TypeOK /\ PhaseInv /\ IndexDescribesDir /\ StatusAllOrNothing /\ EnvelopesNeverMixed`.
  The properties are not inductive alone. Between the two publication steps `IndexDescribesDir` needs
  that no index is there while the directory is rebuilt; `EnvelopesNeverMixed` needs that what is in
  the directory when the index is written is a complete build. `PhaseInv` says both. One lemma per
  action shows that it preserves `IInv`, one conjunct at a time.
* `TypeCorrect`, `PublicationConsistent`, `StatusAtomic`, `NeverMixed`: its conjuncts.
* `SecondGrantBlocked`: `Spec => []NoGrantOnTopOfGrant`, since a usable policy has disjoint,
  non-empty lists and `validate_base` wants the gates to be exactly the required ones.
* `Refinement`: `Spec => AuthorityRefinement`. Steps are sorted by what they do to `status`: keep it,
  lose it, build it, or materialize; only the last can grant, and `Verified` there implies
  `Admissible`.

`RequiredGateRecorderProofs` proves for every number of runs, gates, invocations and orphans, from
`InvocationAssumption`, `GateAssumption` and `FileAssumption`:

* `RecorderInvariance`: `Spec => []IInv` with `IInv == TypeOK /\ ProcessInv /\ ResultInv /\ ReaderInv /\
  StatusInv /\ SummaryInv /\ OutcomeInv /\ LookInv /\ StatusLook`. `StatusOfOneRun` speaks of a chain from
  the status back to a builder's exit code, each link of which is some other process's state: `ProcessInv`
  keeps a started process with the run of its invocation, and an evaluator that means to pass with a builder
  that exited 0; `ResultInv` says that every complete result on disk was written by an evaluator whose state
  still agrees with it; `ReaderInv` and `StatusInv` carry that through the status builder's partial reading.
* `RecorderTypeCorrect`, `StatusRestsOnItsRun`: `TypeOK`, `StatusOfOneRun`.
* `StatusBindsWhatWasJudged`, `StatusBindsPassingResults`: `JudgedWhatItBinds`, `BoundResultPasses`. Hash and
  load are two steps, so between them the digest in hand may be of another content than the verdict. What
  makes that harmless is that contents do not come back: a complete file names its writer, and a writer writes
  once. `Knows` (in `SummaryInv`) and `Records` (in `OutcomeInv`) say so of evaluator and recorder: if the
  content judged is not the one hashed, the one hashed is gone for good. Empty files are alike, hence the
  exception, and its count of two: one writer that left the file empty for the hash, another that empties it
  after the load. `LookInv` then turns the status builder's second look into the properties.

`RelationFoldProofs` proves for any scenes, without assumptions on them:

* `FoldTypeOK`, `FoldMoment`, `FoldUnchecked`, `FoldNeverFlips`: `Spec => []TypeOK`,
  `[]FoldedFromOneMoment`, `[]UncheckedOnlyAfterKill`, `GatesNeverFlip`, all from `FoldInductive`. The
  argument orders gate values by extension. A status only gains gates, so what a fold digested, what it loaded
  and what is on disk are in order, and a digest that still holds makes the three equal. That a status keeps
  growing needs in turn that an output some fold vouched for extends the status on disk (`OutputInv`): the
  last look at the inputs. Of the record the proofs use only that its gates are Booleans.

`ComputeRelationProofs` proves what those Booleans mean, for every plan, report, packet list and set of
expectations that satisfies `ScenesAssumption`: ids identify expectations (they are a JSON map), no id is
`None`, and no node or execution has the mutation authority "unknown" (the builder's ranking does not list it). From it:

* `PathGateIsJustified`, `AuthorityGateIsJustified`, `MutationIsNeverHidden`: `PathCompleteJustified`,
  `AuthorityBindingJustified`, `UnboundMutationNeverHidden`. The properties ask for an assignment of raw
  records to expectations; the proofs construct it. A raw record is a function of its observation; closed axes
  leave no observation open or foreign; a TRUE path gate leaves no expectation without a matched observation and
  no observation unplanned; and the selection of best matches never gives one observation to two expectations.
  None of this uses recursion: the selection is characterised by what it returns.
* `SelfCheckRejectsOnly`: `SelfCheckPasses`. The builder's two passes are compared with the checker's own
  recomputation, axis by axis and relation status by relation status; the two exceptions are where the proof
  stopped, and the second was found this way.
* The state invariant is small: a relation on disk, or read by a fold, was built from inputs that the builder
  did not refuse (`BuildInv`, `RelationInv`, `FoldInv`).

`PulseWorkflowProofs` proves for any number of attempts and any gate lists, from `AttemptAssumption`,
`GateListAssumption` and `NoneAssumption` (an absent file is none that a step writes):

* `TypeCorrect`, `VerificationInOneAttempt`, `DownloadsFind`, `ProdPassIsSupported`, `BindingIsOfTheGates`:
  `TypeOK`, `VerifiedInOneAttempt`, `InputsFound`, `ProdPassSupported`, `BindingAgreesOutsideTier0`.
* `PackageInOneAttempt`: `NewestFirst => (Spec => []PackageOfOneAttempt)`. The hypothesis is the assumption on
  the artifact service without which `package_any_attempt` refutes the property.
* `IInv == RunInv /\ RunnerInv /\ NeedsInv /\ ScopeInv /\ UploadInv /\ StoreInv /\ FilesInv`. Steps are handled
  by rank, not one by one: in every job's list all writes to the status come before everything made from it
  (`RunnerInv`), so an artifact is made from the status on disk (`FilesInv`). `NeedsInv` and `ScopeInv` say which
  attempts may meet: a job that got hold of an attempt-scoped artifact runs in its producer's attempt, even if
  only the failed jobs were run again. `UploadInv` and `StoreInv` carry that over to artifacts, which outlive
  the job that made them.

`LlamaGuardEvidenceProofs` proves for any runs, commits, case counts, thresholds and number of tool starts, from
`RunAssumption`, `ThresholdAssumption`, `BoundAssumption` and `NoneAssumption`:

* `Invariance`, `TypeCorrect`, `AdmissionIsOfTheRun`, `PackageIsOfTheRun`, `NothingFailingIsAttested`,
  `ToolsDescribeEachOther`, `PassingRunsAreNotRejected`: all safety properties of the run.
* `IInv == CIInv /\ BundlesInv /\ LocalInv`. `CIInv` gives the files of a CI job at every stage as a function of
  one classification; `BundlesInv` says that only those within the threshold were attested. `LocalInv` is about
  the operator's workspace. `FilesDescribeEachOther` is not inductive, since a tool writes files one by one and
  each write changes what the others are compared with: what is inductive is that the files describe each
  other after *every* prefix of the writes still pending (`Along`). A kill then drops a suffix, and a new tool
  starts from files of which this is known.

`PublicationProofs` proves for any number of runs, re-runs and dispatches, from `BoundAssumption` and
`NoneAssumption`:

* `Invariance`, `TypeCorrect`, `SiteShowsPassedPush`, `SiteShowsOwnReport`, `SiteMovesForward`,
  `AlertsAreOfEndedAttempts`, `AlertsAreOfTheirOwnRef`: all safety properties of the run, the action property
  `SiteNeverGoesBack` included, for both values of `NewestFirst`.
* `NewestArtifactIsNoOlder`: `SiteShowsNoOlderReport`, whose hypothesis is an assumption on the artifact
  service like that of `PackageInOneAttempt`; without it an older report may be shown. `Found` carries both facts
  through the steps of a publication: the attempt that passed has left a report, and the one downloaded is any
  of that run, under the assumption none older. No run checks this property, as the run assumes nothing.
* That the site moves forward needs `OrderInv`: what is served, deployed, published and queued is of ever newer
  pushes. It is preserved by a completion only because of `NewestPush`: as long as the first attempt of a push
  is in progress no newer run of main has begun, for it would have cancelled that attempt. `HolderInv` and
  `SiteInv` tie a publication to an attempt that passed and to what its run has uploaded, `UploaderInv` ties
  SARIF to an attempt that ended.

All actions of a component go through lemmas of their own; where many actions leave a part alone, one lemma
states the frame.

Only model-checked: liveness (`AttemptConcludes`, `HealthyReleaseVerified`, `RecorderConcludes`,
`LastPassIsShown`), for the provers at hand know neither fairness nor `ENABLED`; and the counterexamples of
the violated runs. No invariant or action property of a passing run is left without a theorem. The modules
contain no `RECURSIVE` operator; the one recursive function, `Upstream`, is defined on the seven jobs and its values are
proved (`UpstreamFacts`).

## 5. Not modelled

* Schema validation, path canonicalization, symlink and duplicate-key checks: they reject inputs, and
  a rejected input is an absent one here.
* Steps inside a tool of `EvidenceChain` other than its writes: tools are atomic between their writes, so
  a file that changes while one of these runs is not covered.
* In `RequiredGateRecorder`: logs, sources, policy, registry and plan, whose digests are bound as well but
  which no process writes; a recorder that runs beside the status builder or another recorder; `rmtree`
  of the work directory meeting an orphan's write, which raises and counts as `EvaluatorFails`.
* How summaries, metrics and attestations are computed; timestamps, signer policy texts and schema checks in
  `LlamaGuardEvidence`; the hosted-access preflight.
* How the analyzer derives a compute report, the subject-input packet and its producer, the export expectation
  and the RA1 package: mostly validation of formats, paths and git objects. A runtime packet has no producer in
  the repository, only a checker; packets are inputs of `ComputeRelation`.
* The assembly of the Pages site and its smoke test, and the contents of SARIF: steps that succeed or fail.
* The inventory closure of the reference package, and the line reader of `policy_to_require_args.py`.
* Rendering, shadow layers, SLSA/VSA intake, experiments: outside the decision.

## 6. Plan

1. `EvidenceChain`, `ReleaseAuthority`, proofs (done).
2. `GateSemantics`, `PulseWorkflow`, proofs (done).
3. `RequiredGateRecorder`, proofs (done).
4. `ComputeRelation`, `RelationFold`, proofs (done).
5. `LlamaGuardEvidence`, proofs (done).
6. `Publication`, proofs (done).

Left for whoever goes on: a formal refinement that licenses the atomic `RecordEvidence` and `BuildStatus` of
`EvidenceChain` by `RequiredGateRecorder`, of which `StatusOfOneRun`, `JudgedWhatItBinds` and
`BoundResultPasses` are the ingredients; `ReleasePipeline`, the workflow's order of tools as a driver of
`EvidenceChain` with a restart over leftovers; `ReferencePackage`, the inventory closure; `PolicyGateSet`, the
line reader against a reference definition.
