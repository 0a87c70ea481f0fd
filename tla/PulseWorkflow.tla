---------------------------- MODULE PulseWorkflow ----------------------------
(***************************************************************************)
(* One run of .github/workflows/pulse_ci.yml with its re-runs.  A run is a  *)
(* chain of jobs; a job is a list of steps over a fresh workspace; jobs     *)
(* hand files on through named artifacts that outlive the attempt.  The     *)
(* lane is decided twice: by the shell of the release_mode step, for the    *)
(* steps of the pulse job, and by the job-level `if:` of every later job.   *)
(*                                                                         *)
(* The recorded-evidence tool chain is the one step "materialize" here,     *)
(* which sets the release-required gates as ReleaseAuthority allows.        *)
(***************************************************************************)
EXTENDS GateSemantics, Sequences

CONSTANTS
    MaxAttempts,  \* bound on GITHUB_RUN_ATTEMPT
    NewestFirst,  \* does `gh run download --name` pick the newest artifact?
    None

ASSUME AttemptAssumption == MaxAttempts \in Nat \ {0} /\ NewestFirst \in BOOLEAN

\* None stands for a file that is not there, so it is the content of no file.
ASSUME NoneAssumption ==
    None \notin [made : Nat, enforcement : [result : {"allow", "block"}, exit_code : {0, 1}]]

VARIABLES
    trigger,  \* what started the run
    attempt,  \* GITHUB_RUN_ATTEMPT
    partial,  \* this attempt is a "re-run failed jobs"
    healthy,  \* in this attempt the gates pass and no step fails by itself
    result,   \* job -> needs.<job>.result, or waiting, running
    ranIn,    \* job -> attempt in which it ran last
    todo,     \* steps the running job still has
    broken,   \* a step of the running job failed
    files,    \* the workspace of the running job
    store     \* artifacts of the run

run == <<trigger, attempt, partial, healthy>>
jobs == <<result, ranIn>>
vars == <<run, jobs, todo, broken, files, store>>

-----------------------------------------------------------------------------
(* Triggers and lanes.                                                      *)

Trigger(event, tag, strict, llamaguard) ==
    [event |-> event, tag |-> tag, strict |-> strict, llamaguard |-> llamaguard]

Triggers ==
    {Trigger("push", tag, FALSE, "none") : tag \in BOOLEAN}
    \cup {Trigger("pull_request", FALSE, FALSE, "none")}
    \cup {Trigger("workflow_dispatch", tag, strict, mode) :
            tag \in BOOLEAN, strict \in BOOLEAN,
            mode \in {"tier0_not_required", "hosted_full_runtime"}}

\* The outputs of the release_mode step.
IsRelease ==
    \/ trigger.tag
    \/ trigger.event = "workflow_dispatch" /\ trigger.strict

EvidenceMode ==
    IF trigger.tag THEN "hosted_full_runtime"
    ELSE IF trigger.event = "workflow_dispatch" THEN trigger.llamaguard
    ELSE "tier0_not_required"

Lane == IF ~IsRelease THEN "core"
        ELSE IF EvidenceMode = "hosted_full_runtime" THEN "hosted" ELSE "tier0"

\* Mutant of HostedByJobIf: without strict_external_evidence.
HostedWithoutStrict ==
    /\ trigger.event # "pull_request"
    /\ \/ trigger.tag
       \/ /\ trigger.event = "workflow_dispatch"
          /\ trigger.llamaguard = "hosted_full_runtime"

\* The job-level conditions, which repeat the trigger.
HostedByJobIf ==
    /\ trigger.event # "pull_request"
    /\ \/ trigger.tag
       \/ /\ trigger.event = "workflow_dispatch"
          /\ trigger.strict
          /\ trigger.llamaguard = "hosted_full_runtime"

AuthorityByJobIf ==
    /\ trigger.event # "pull_request"
    /\ ~trigger.tag
    /\ \/ trigger.event # "workflow_dispatch"
       \/ ~trigger.strict
       \/ trigger.llamaguard # "hosted_full_runtime"

-----------------------------------------------------------------------------
(* Jobs and their steps.                                                    *)

HostedChain == {"attest_llamaguard", "recorded_path", "attest_binding", "assemble", "verify"}
Jobs == {"pulse", "attest_authority"} \cup HostedChain

Needs == [j \in Jobs |->
    CASE j = "pulse" -> {}
      [] j \in {"attest_authority", "attest_llamaguard"} -> {"pulse"}
      [] j = "recorded_path" -> {"attest_llamaguard"}
      [] j = "attest_binding" -> {"recorded_path"}
      [] j = "assemble" -> {"recorded_path", "attest_binding"}
      [] j = "verify" -> {"assemble"}]

JobIf(j) ==
    CASE j = "pulse" -> TRUE
      [] j = "attest_authority" -> AuthorityByJobIf
      [] j \in HostedChain -> HostedByJobIf

\* How both non-hosted lanes of the pulse job end.
Publishing == <<"manifest", "check_gates", "decision", "binding",
                "upload_binding", "upload_report">>

Steps(j) ==
    CASE j = "pulse" /\ Lane = "core" -> <<"run_all", "augment">> \o Publishing
      [] j = "pulse" /\ Lane = "tier0" -> <<"record", "build_status">> \o Publishing
      [] j = "pulse" /\ Lane = "hosted" ->
            <<"record", "build_status", "upload_llamaguard", "upload_pre_attestation">>
      [] j \in {"attest_authority", "attest_binding"} -> <<"attest_binding">>
      [] j = "attest_llamaguard" -> <<"attest_llamaguard">>
      [] j = "recorded_path" ->
            <<"restore", "materialize", "enforce", "final_decision", "final_binding",
              "upload_binding", "upload_report", "upload_recorded_path">>
      [] j = "assemble" -> <<"assemble">>
      [] j = "verify" -> <<"verify">>

\* `if: always()`: the step runs although an earlier one failed.  Of the steps
\* both jobs have, the recorded path uploads on success only.
Always ==
    IF result["pulse"] = "running"
    THEN {"decision", "binding", "upload_binding", "upload_report"}
    ELSE {}

NoFiles == [status |-> None, refusal |-> FALSE, llamaguard |-> None, checkRc |-> None,
            manifest |-> FALSE, decision |-> None, binding |-> None]

-----------------------------------------------------------------------------
(* Artifacts.                                                               *)

\* Names that end in -${GITHUB_RUN_ID}-${GITHUB_RUN_ATTEMPT}.
Scoped == {"llamaguard-current-run", "pulse-pre-attestation", "llamaguard-attested",
           "recorded-path", "package"}

Named(name) == {a \in store : a.name = name}

\* Mutant of Downloads: any attempt's artifact of that name.
DownloadsAny(name) ==
    IF name \in Scoped THEN {a \in Named(name) : a.attempt = attempt} ELSE Named(name)

\* Mutant of Downloads: the artifact has to be the only one of that name.
DownloadsUnique(name) == {a \in Named(name) : \A b \in Named(name) : a = b}

\* What `gh run download --name` may return.
Downloads(name) ==
    IF name \in Scoped THEN {a \in Named(name) : a.attempt = attempt}
    ELSE IF NewestFirst
         THEN {a \in Named(name) : \A b \in Named(name) : b.attempt <= a.attempt}
    ELSE Named(name)

Artifact(name, content) == [name |-> name, attempt |-> attempt, content |-> content]

\* The artifacts a step downloads before it does anything else.
Inputs(s) ==
    CASE s = "attest_binding" -> {"binding"}
      [] s = "attest_llamaguard" -> {"llamaguard-current-run"}
      [] s = "restore" -> {"pulse-pre-attestation", "llamaguard-attested"}
      [] s = "assemble" -> {"pulse-report", "recorded-path", "binding"}
      [] s = "verify" -> {"package"}
      [] OTHER -> {}

-----------------------------------------------------------------------------
(* Steps.  A healthy attempt is one in which nothing goes wrong by itself.  *)

Outcome == IF healthy THEN {TRUE} ELSE BOOLEAN

Current(s) == todo # <<>> /\ Head(todo) = s

Step(s, ok, newFiles, newStore) ==
    /\ Current(s)
    /\ ~broken \/ s \in Always
    /\ todo' = Tail(todo)
    /\ broken' = (broken \/ ~ok)
    /\ files' = newFiles
    /\ store' = newStore
    /\ UNCHANGED <<run, jobs>>

SkipStep ==
    /\ todo # <<>>
    /\ broken /\ Head(todo) \notin Always
    /\ todo' = Tail(todo)
    /\ UNCHANGED <<run, jobs, broken, files, store>>

\* The runner, the network or a tool fails; uploads and files of the step are
\* lost.  Manifest and decision drop the exit codes of their tools.
FailStep ==
    /\ ~healthy /\ todo # <<>> /\ Head(todo) \notin {"manifest", "decision"}
    /\ Step(Head(todo), FALSE, files, store)

\* Mutant of MissingInput: the recorded path waits for an artifact that is not there.
MissingInputUnlessRestore == \E s \in {"attest_binding", "attest_llamaguard", "assemble", "verify"} :
    /\ \E name \in Inputs(s) : Downloads(name) = {}
    /\ Step(s, FALSE, files, store)

MissingInput == \E s \in {"attest_binding", "attest_llamaguard", "restore", "assemble", "verify"} :
    /\ \E name \in Inputs(s) : Downloads(name) = {}
    /\ Step(s, FALSE, files, store)

\* run_all.py; blocked: it leaves stub or scaffold diagnostics.  Steps that write
\* the status may still fail after that.
RunAll == Current("run_all") /\
  \E g \in [Required -> {"true", "false"}], blocked \in BOOLEAN, ok \in Outcome :
    /\ healthy => AllTrue(g, Required) /\ ~blocked
    /\ Step("run_all", ok,
            [files EXCEPT !.status =
                [made |-> attempt, blocked |-> blocked,
                 gates |-> [x \in Gates |-> IF x \in Required THEN g[x] ELSE "absent"]]],
            store)

Augment == Current("augment") /\ \E e \in [ReleaseRequired -> GateValues], ok \in Outcome :
    /\ files.status # None
    /\ Step("augment", ok,
            [files EXCEPT !.status.gates =
                [x \in Gates |-> IF x \in ReleaseRequired THEN e[x] ELSE @[x]]],
            store)

\* The recorder exits 1 when a gate fails.
Record == \E ok \in Outcome : Step("record", ok, files, store)

BuildCandidateStatus == \E ok \in Outcome :
    Step("build_status", ok,
         [files EXCEPT !.status =
            [made |-> attempt, blocked |-> FALSE,
             gates |-> [x \in Gates |-> IF x \in Required THEN "true" ELSE "absent"]]],
         store)

\* Audit-only: the step succeeds whether or not the manifest was written.
Manifest == \E written \in Outcome :
    Step("manifest", TRUE, [files EXCEPT !.manifest = written], store)

\* Mutant of PolicySet: core runs enforce the full list.
PolicySetRequired == Required

\* PULSE_POLICY_SET.
PolicySet == IF IsRelease THEN Required ELSE CoreRequired

EnforceGates ==
    LET rc == CheckGates(files.status.gates, PolicySet)
    IN /\ files.status # None
       /\ Step("check_gates", rc = 0, [files EXCEPT !.checkRc = rc], store)

\* Mutant of Decide: no label for a status that cannot be read.
DecideReadable(target) ==
    [made |-> attempt,
     level |-> IF files.status = None THEN "UNKNOWN"
               ELSE ReleaseLevel(target, files.status.gates, files.status.blocked)]

Decide(target) ==
    [made |-> attempt,
     level |-> IF files.status = None THEN "FAIL"
               ELSE ReleaseLevel(target, files.status.gates, files.status.blocked)]

\* The exit code of the materializer is dropped.
Decision ==
    Step("decision", TRUE,
         [files EXCEPT !.decision = Decide(IF IsRelease THEN "prod" ELSE "stage")], store)

Bind(ids) == [made |-> attempt, enforcement |-> Enforcement(files.status.gates, ids)]

\* Fails when one of the files it binds is missing.
Binding ==
    LET bindable == files.status # None /\ files.decision # None /\ files.manifest
        ids == IF IsRelease THEN Required \cup ReleaseRequired ELSE CoreRequired
    IN Step("binding", bindable,
            IF bindable THEN [files EXCEPT !.binding = Bind(ids)] ELSE files, store)

\* `if-no-files-found: warn`: the pulse job uploads what there is.
UploadBinding ==
    Step("upload_binding", TRUE, files,
         store \cup (IF files.binding = None THEN {} ELSE {Artifact("binding", files.binding)}))

UploadReport ==
    Step("upload_report", TRUE, files,
         store \cup {Artifact("pulse-report",
                              [status |-> files.status, decision |-> files.decision])})

UploadLlamaguard == \E pass \in Outcome :
    Step("upload_llamaguard", TRUE, files,
         store \cup {Artifact("llamaguard-current-run", [made |-> attempt, pass |-> pass])})

UploadPreAttestation == \E pass \in Outcome :
    Step("upload_pre_attestation", TRUE, files,
         store \cup {Artifact("pulse-pre-attestation",
                              [status |-> files.status, refusal |-> pass])})

AttestLlamaguard == \E a \in Downloads("llamaguard-current-run") :
    Step("attest_llamaguard", TRUE, files,
         store \cup {Artifact("llamaguard-attested", a.content)})

AttestBinding == \E a \in Downloads("binding") :
    Step("attest_binding", TRUE, [files EXCEPT !.binding = a.content], store)

Restore == \E p \in Downloads("pulse-pre-attestation"), l \in Downloads("llamaguard-attested") :
    Step("restore", TRUE,
         [files EXCEPT !.status = p.content.status, !.refusal = p.content.refusal,
                       !.llamaguard = l.content],
         store)

\* Mutant of Admitted: the detector's verdict is not looked at.
AdmittedOnPresence == files.refusal /\ files.llamaguard.made = files.status.made

\* The tool chain: PULSE_RUN_KEY is not set in this job, and the detector's
\* summary has to be of the run of the status.
Admitted ==
    /\ files.refusal
    /\ files.llamaguard.pass
    /\ files.llamaguard.made = files.status.made

Materialize ==
    Step("materialize", Admitted,
         IF Admitted
         THEN [files EXCEPT !.status.gates =
                [x \in Gates |-> IF x \in ReleaseRequired THEN "true" ELSE @[x]]]
         ELSE files,
         store)

EnforceReleaseGates ==
    LET rc == CheckGates(files.status.gates, Required \cup ReleaseRequired)
    IN Step("enforce", rc = 0 /\ ~files.status.blocked, [files EXCEPT !.checkRc = rc], store)

FinalDecision ==
    LET decision == Decide("prod")
    IN Step("final_decision", decision.level # "FAIL",
            [files EXCEPT !.decision = decision], store)

FinalBinding ==
    Step("final_binding", TRUE,
         [files EXCEPT !.binding = Bind(Required \cup ReleaseRequired)], store)

UploadRecordedPath ==
    Step("upload_recorded_path", TRUE, files,
         store \cup {Artifact("recorded-path", [status |-> files.status])})

Assemble == \E r \in Downloads("pulse-report"), p \in Downloads("recorded-path"),
               b \in Downloads("binding") :
    Step("assemble", r.content.decision # None, files,
         IF r.content.decision = None THEN store
         ELSE store \cup {Artifact("package",
                [attempt |-> attempt, status |-> p.content.status,
                 decision |-> r.content.decision, binding |-> b.content])})

MetadataOfThisAttempt(package) == package.attempt = attempt

\* Decision, binding and manifest only have to be there.
StatusOfThisAttempt(package) ==
    /\ package.status.made = attempt
    /\ package.decision # None /\ package.binding # None

Verify == \E p \in Downloads("package") :
    Step("verify", MetadataOfThisAttempt(p.content) /\ StatusOfThisAttempt(p.content),
         files, store)

-----------------------------------------------------------------------------
(* Jobs and attempts.                                                       *)

Running == {j \in Jobs : result[j] = "running"}
Concluded(j) == result[j] \in {"success", "failure", "skipped"}

\* Mutant of NeedMet: assemble goes ahead without the attestation of the binding.
NeedMetButAttestation(j, n) == result[n] = "success" \/ n = "attest_binding"

\* needs.<n>.result in the `if:` of job j.
NeedMet(j, n) == result[n] = "success"

Skippable == {j \in Jobs :
    /\ result[j] = "waiting"
    /\ Concluded("pulse")
    /\ ~JobIf(j) \/ \E n \in Needs[j] : Concluded(n) /\ ~NeedMet(j, n)}

SkipJobs ==
    /\ Running = {}
    /\ Skippable # {}
    /\ result' = [j \in Jobs |-> IF j \in Skippable THEN "skipped" ELSE result[j]]
    /\ UNCHANGED <<run, ranIn, todo, broken, files, store>>

\* Nothing depends on whether a job starts before or after others are skipped.
StartJob(j) ==
    /\ Running = {} /\ Skippable = {}
    /\ result[j] = "waiting"
    /\ \A n \in Needs[j] : Concluded(n) /\ NeedMet(j, n)
    /\ result' = [result EXCEPT ![j] = "running"]
    /\ ranIn' = [ranIn EXCEPT ![j] = attempt]
    /\ todo' = Steps(j)
    /\ UNCHANGED <<run, broken, files, store>>

EndJob ==
    /\ Running # {} /\ todo = <<>>
    /\ result' = [j \in Jobs |-> IF j \notin Running THEN result[j]
                                 ELSE IF broken THEN "failure" ELSE "success"]
    /\ broken' = FALSE
    /\ files' = NoFiles \* the workspace goes with the runner
    /\ UNCHANGED <<run, ranIn, todo, store>>

Upstream[j \in Jobs] == Needs[j] \cup UNION {Upstream[n] : n \in Needs[j]}

NextAttempt(redo) ==
    /\ attempt < MaxAttempts
    /\ \A j \in Jobs : Concluded(j)
    /\ attempt' = attempt + 1
    /\ healthy' \in BOOLEAN
    /\ result' = [j \in Jobs |-> IF j \in redo THEN "waiting" ELSE result[j]]
    /\ UNCHANGED <<trigger, ranIn, todo, broken, files, store>>

RerunAll == partial' = FALSE /\ NextAttempt(Jobs)

\* "Re-run failed jobs": the failed ones and all that depend on them.
RerunFailed ==
    LET failed == {j \in Jobs : result[j] = "failure"}
    IN /\ failed # {}
       /\ partial' = TRUE
       /\ NextAttempt({j \in Jobs : j \in failed \/ Upstream[j] \cap failed # {}})

Init ==
    /\ trigger \in Triggers
    /\ attempt = 1
    /\ partial = FALSE
    /\ healthy \in BOOLEAN
    /\ result = [j \in Jobs |-> "waiting"]
    /\ ranIn = [j \in Jobs |-> 0]
    /\ todo = <<>>
    /\ broken = FALSE
    /\ files = NoFiles
    /\ store = {}

PulseJobStep ==
    \/ RunAll \/ Augment \/ Record \/ BuildCandidateStatus \/ Manifest
    \/ EnforceGates \/ Decision \/ Binding \/ UploadBinding \/ UploadReport
    \/ UploadLlamaguard \/ UploadPreAttestation

LaterJobStep ==
    \/ AttestLlamaguard \/ AttestBinding \/ Restore \/ Materialize
    \/ EnforceReleaseGates \/ FinalDecision \/ FinalBinding \/ UploadRecordedPath
    \/ Assemble \/ Verify

Runner ==
    \/ \E j \in Jobs : StartJob(j)
    \/ SkipJobs \/ EndJob
    \/ PulseJobStep \/ LaterJobStep \/ SkipStep \/ FailStep \/ MissingInput

Next == Runner \/ RerunAll \/ RerunFailed

\* GitHub runs what is queued; nobody has to press a re-run button.
Spec == Init /\ [][Next]_vars /\ WF_vars(Runner)

-----------------------------------------------------------------------------
(* Properties.                                                              *)

TypeOK ==
    /\ trigger \in Triggers
    /\ attempt \in 1..MaxAttempts
    /\ partial \in BOOLEAN /\ healthy \in BOOLEAN /\ broken \in BOOLEAN
    /\ result \in [Jobs -> {"waiting", "running", "success", "failure", "skipped"}]
    /\ ranIn \in [Jobs -> 0..attempt]
    /\ Len(todo) <= 8
    /\ \A a \in store : a.attempt \in 1..attempt
    /\ files.checkRc \in {None, 0, 1, 2}
    /\ files.decision # None => files.decision.level \in {"FAIL", "STAGE-PASS", "PROD-PASS"}

\* A verified package rests on jobs that all ran in its own attempt.  Re-running
\* only the failed jobs never completes the release path: the attempt-scoped
\* names make the chain fail closed (uploads and downloads of pulse_ci.yml).
VerifiedInOneAttempt ==
    result["verify"] = "success" =>
        \A j \in Upstream["verify"] :
            result[j] = "success" /\ ranIn[j] = ranIn["verify"]

\* The job that enforces the gates of the lane.
GateJob == IF Lane = "hosted" THEN "recorded_path" ELSE "pulse"

\* The job that uploads an artifact.
Producer(name) ==
    CASE name \in {"llamaguard-current-run", "pulse-pre-attestation"} -> "pulse"
      [] name = "llamaguard-attested" -> "attest_llamaguard"
      [] name = "recorded-path" -> "recorded_path"
      [] name = "package" -> "assemble"
      [] name \in {"binding", "pulse-report"} -> GateJob

\* A job that starts finds its inputs, unless a partial re-run left out the job
\* that makes them: the job-level conditions agree with the lane the shell of
\* the pulse job took, and with the list of uploads of that lane.
InputsFound ==
    \A s \in {"attest_binding", "attest_llamaguard", "restore", "assemble", "verify"} :
        Current(s) /\ ~broken =>
            \A name \in Inputs(s) :
                \/ Downloads(name) # {}
                \/ partial /\ ranIn[Producer(name)] < attempt /\ name \in Scoped

\* However the steps that run on failure publish, a PROD-PASS in a published
\* report is about a status made in that attempt, with every gate true and with
\* detector evidence that was attested in the same attempt and passes.
ProdPassSupported ==
    \A a \in Named("pulse-report") :
        a.content.decision # None /\ a.content.decision.level = "PROD-PASS" =>
            /\ a.content.decision.made = a.attempt
            /\ a.content.status.made = a.attempt
            /\ AllTrue(a.content.status.gates, Required \cup ReleaseRequired)
            /\ \E e \in Named("llamaguard-attested") :
                  e.attempt = a.attempt /\ e.content.made = a.attempt /\ e.content.pass

\* The provenance binding says what check_gates said.
BindingAgrees ==
    files.binding # None /\ files.checkRc # None =>
        (files.binding.enforcement.result = "allow" <=> files.checkRc = 0)

\* It does so in every lane but tier0, where the two evaluate different sets.
BindingAgreesOutsideTier0 == Lane # "tier0" => BindingAgrees

\* docs/GATE_SETS.md: a release-grade run enforces required + release_required.
ReleaseGradeEnforced ==
    IsRelease /\ result[GateJob] = "success" =>
        \A a \in Named("pulse-report") :
            a.attempt = ranIn[GateJob] =>
                AllTrue(a.content.status.gates, Required \cup ReleaseRequired)

\* Every part of a verified package was made in one attempt.
PackageOfOneAttempt ==
    result["verify"] = "success" =>
        \A a \in Named("package") :
            a.attempt = ranIn["verify"] =>
                {a.content.status.made, a.content.decision.made, a.content.binding.made}
                    = {a.attempt}

\* Whatever fails, an attempt ends.
AttemptConcludes == []<>(\A j \in Jobs : Concluded(j))

\* A full attempt of a hosted release in which nothing goes wrong by itself is
\* verified, whatever earlier attempts left in the artifact store.
HealthyReleaseVerified ==
    (Lane = "hosted" /\ healthy /\ ~partial) ~> (result["verify"] = "success")
=============================================================================
