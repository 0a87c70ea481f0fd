---------------------------- MODULE Publication ----------------------------
(***************************************************************************)
(* What happens after PULSE CI.  Its runs are started, cancelled by newer    *)
(* runs of their ref, re-run, and leave an artifact pulse-report.  Each      *)
(* completed attempt starts two workflows: publish_report_pages.yml, which   *)
(* queues in the concurrency group github-pages and deploys the report to    *)
(* GitHub Pages, and upload_sarif.yml, which binds the SARIF in the report   *)
(* to the run and uploads it to code scanning.  Operators publish by hand    *)
(* and cancel stuck deployments through the same group.                      *)
(*                                                                         *)
(* A run's number is its place in the order of creation and stands for its   *)
(* head commit.  A merge commit is the pair of its parents.                  *)
(***************************************************************************)
EXTENDS Integers, FiniteSets

CONSTANTS
    None,
    NewestFirst,  \* does a download by run and name return the newest artifact?
    MaxRuns,      \* bound: runs of PULSE CI
    MaxReruns,    \* bound: re-runs of PULSE CI runs
    MaxByHand     \* bound: dispatches and re-runs of the publishing workflows

ASSUME BoundAssumption ==
    /\ MaxRuns \in Nat \ {0} /\ MaxReruns \in Nat
    /\ MaxByHand \in Nat /\ NewestFirst \in BOOLEAN

Runs == 1 .. MaxRuns
Attempts == 1 .. MaxReruns + 1
Latest == 0  \* no run id is given

\* "branch" is a dispatch on a branch other than main.
Origins == {"push", "tag", "dispatch", "branch", "pull", "fork"}

Conclusions == {"success", "failure", "cancelled"}

Publications ==
    [run : Runs \cup {Latest}, attempt : {0} \cup Attempts, by : {"event", "hand"},
     wanted : BOOLEAN, cancels : BOOLEAN]

Deployments == [run : Runs, attempt : {0} \cup Attempts, by : {"event", "hand"}, report : Attempts]

Maybe(S) == S \cup {None}

\* None stands for what is not there.
ASSUME NoneAssumption == None \notin Origins \cup Conclusions /\ None \notin Publications

VARIABLES
    followed,    \* which of the two workflows that share only the runs is watched
    origin,      \* what started a run: see Origins, or None
    attempt,     \* the run's latest attempt, 0 before the first
    conclusion,  \* of the latest attempt; None while it is in progress
    uploaded,    \* the attempts of a run that have left an artifact pulse-report
    passed,      \* the attempts <<r, a>> that concluded with success
    reruns,
    running,     \* the workflow that holds the group github-pages
    pending,     \* the one that waits for it
    step,        \* how far the holder is
    report,      \* the attempt whose report the holder downloaded
    deployment,  \* the deployment that GitHub Pages is working on
    site,        \* what GitHub Pages serves
    last,        \* the last workflow that asked for the group
    lastFailed,  \* whether that one has failed
    byHand,
    uploader,    \* a run of upload_sarif.yml
    alerts       \* code scanning: the last upload for each ref

ciVars == <<followed, origin, attempt, conclusion, uploaded, passed, reruns>>
pagesVars == <<running, pending, step, report, deployment, site, last, lastFailed, byHand>>
sarifVars == <<uploader, alerts>>
vars == <<ciVars, pagesVars, sarifVars>>

-----------------------------------------------------------------------------
(* PULSE CI, as far as the other workflows see it.                          *)

Event(o) ==
    CASE o \in {"push", "tag"} -> "push"
      [] o \in {"dispatch", "branch"} -> "workflow_dispatch"
      [] o \in {"pull", "fork"} -> "pull_request"

\* A fork's branch may have any name, main too.
OnMain(o) == o \in {"push", "dispatch", "fork"}

\* github.ref
Ref(r, o) ==
    CASE o \in {"push", "dispatch"} -> <<"heads", 0>>
      [] o = "branch" -> <<"heads", r>>
      [] o = "tag" -> <<"tags", r>>
      [] o \in {"pull", "fork"} -> <<"pull", r>>

InProgress(r) == attempt[r] > 0 /\ conclusion[r] = None

\* concurrency: workflow-ref, cancel-in-progress.
\* As the code might be wrong: runs of one ref proceed side by side.
CancelsNothing(r, o) == {}

Cancels(r, o) == {q \in Runs \ {r} : InProgress(q) /\ Ref(q, origin[q]) = Ref(r, o)}

-----------------------------------------------------------------------------
(* The group github-pages: one workflow holds it, one waits, a newer one      *)
(* takes the place of the one that waits.  Its if is read once it holds it.  *)

Publish(r, by, wanted, cancels) ==
    [run |-> r, attempt |-> IF by = "event" THEN attempt[r] ELSE 0,
     by |-> by, wanted |-> wanted, cancels |-> cancels]

\* As the code might be wrong: the conclusion is not looked at.
PublishesAnyPush(r, c) == origin[r] = "push"

\* deploy.if, for a workflow_run event.
Publishes(r, c) == origin[r] = "push" /\ c = "success"

\* As the code might be wrong: the one that waits keeps its place.
FirstWaits(p) == pending' = IF pending = None THEN p ELSE pending

Waits(p) == pending' = p

Arrive(p) == Waits(p) /\ last' = p /\ lastFailed' = FALSE

Uploader(r) == [run |-> r, step |-> "start", report |-> 0, target |-> None]

\* What the completion of run r starts.
Completed(r, c) ==
    /\ IF followed = "pages" /\ OnMain(origin[r])
       THEN Arrive(Publish(r, "event", Publishes(r, c), FALSE))
       ELSE UNCHANGED <<pending, last, lastFailed>>
    /\ \/ UNCHANGED uploader
       \/ followed = "sarif" /\ uploader = None /\ uploader' = Uploader(r)

Begin(r, o) ==
    LET cancelled == Cancels(r, o)
    IN  /\ conclusion' = [q \in Runs |-> CASE q = r -> None
                                           [] q \in cancelled -> "cancelled"
                                           [] OTHER -> conclusion[q]]
        /\ IF cancelled = {}
           THEN UNCHANGED <<pending, last, lastFailed, uploader>>
           ELSE Completed(CHOOSE q \in cancelled : TRUE, "cancelled")

StartRun(r, o) ==
    /\ attempt[r] = 0 /\ \A q \in 1 .. r - 1 : attempt[q] > 0
    /\ origin' = [origin EXCEPT ![r] = o]
    /\ attempt' = [attempt EXCEPT ![r] = 1]
    /\ Begin(r, o)
    /\ UNCHANGED <<followed, uploaded, passed, reruns, running, step, report, deployment, site, byHand, alerts>>

Rerun(r) ==
    /\ attempt[r] > 0 /\ ~InProgress(r) /\ reruns < MaxReruns
    /\ reruns' = reruns + 1
    /\ attempt' = [attempt EXCEPT ![r] = @ + 1]
    /\ Begin(r, origin[r])
    /\ UNCHANGED <<followed, origin, uploaded, passed, running, step, report, deployment, site, byHand, alerts>>

\* Upload artifacts is an always() step: failing attempts upload too.
UploadReport(r) ==
    /\ InProgress(r) /\ attempt[r] \notin uploaded[r]
    /\ uploaded' = [uploaded EXCEPT ![r] = @ \cup {attempt[r]}]
    /\ UNCHANGED <<followed, origin, attempt, conclusion, passed, reruns, pagesVars, sarifVars>>

\* As the code might be wrong: an attempt passes although the upload failed.
UploadMayFail(r, c) == TRUE

\* A job does not succeed without its upload step, and when nothing failed that
\* step's if holds.
LeavesReport(r, c) == c = "success" => attempt[r] \in uploaded[r]

Complete(r, c) ==
    /\ InProgress(r)
    /\ LeavesReport(r, c)
    /\ conclusion' = [conclusion EXCEPT ![r] = c]
    /\ passed' = IF c = "success" THEN passed \cup {<<r, attempt[r]>>} ELSE passed
    /\ Completed(r, c)
    /\ UNCHANGED <<followed, origin, attempt, uploaded, reruns, running, step, report, deployment, site, byHand, alerts>>

-----------------------------------------------------------------------------
(* The artifacts of a run outlive its attempts and have one name.  Both       *)
(* publish_report_pages.yml and upload_sarif.yml name the run and the artifact *)
(* only, so which attempt's they get is up to the service and the action.     *)

Downloads(r) ==
    IF NewestFirst THEN {a \in uploaded[r] : \A b \in uploaded[r] : b <= a} ELSE uploaded[r]

-----------------------------------------------------------------------------
(* publish_report_pages.yml and cancel_pages_deployment.yml.                 *)

Enter ==
    /\ running = None /\ pending # None
    /\ running' = pending /\ pending' = None
    /\ step' = "start" /\ report' = 0
    /\ UNCHANGED <<deployment, site, last, lastFailed, byHand, ciVars, sarifVars>>

\* As the code might be wrong: the group is not given back.
KeepsGroup == step' = "done" /\ report' = 0 /\ UNCHANGED running

Leave == running' = None /\ step' = "done" /\ report' = 0

\* The job's if is false, or there is nothing to publish.
Skip ==
    /\ step = "start" /\ ~running.wanted /\ ~running.cancels
    /\ Leave
    /\ UNCHANGED <<pending, deployment, site, last, lastFailed, byHand, ciVars, sarifVars>>

\* The newest run on main whose latest attempt passed.
LatestPassed ==
    {r \in Runs : /\ origin[r] # None /\ OnMain(origin[r]) /\ conclusion[r] = "success"
                  /\ \A q \in Runs : q > r => \/ origin[q] = None \/ ~OnMain(origin[q])
                                              \/ conclusion[q] # "success"}

Resolve ==
    /\ step = "start" /\ running.wanted
    /\ IF running.run # Latest
       THEN UNCHANGED running
       ELSE \E r \in LatestPassed : running' = [running EXCEPT !.run = r]
    /\ step' = "resolved"
    /\ UNCHANGED <<pending, report, deployment, site, last, lastFailed, byHand, ciVars, sarifVars>>

\* A cancel request for the deployment in progress; the cancelling workflow has
\* nothing more to do, the publishing one goes on.
CancelDeployment ==
    /\ running # None /\ step = (IF running.wanted THEN "resolved" ELSE "start") /\ running.cancels
    /\ deployment # None /\ deployment' = None
    /\ IF running.wanted THEN /\ running' = [running EXCEPT !.cancels = FALSE]
                              /\ UNCHANGED <<step, report>>
                         ELSE Leave
    /\ UNCHANGED <<pending, site, last, lastFailed, byHand, ciVars, sarifVars>>

DownloadReport ==
    /\ step = "resolved" /\ ~running.cancels
    /\ report' \in Downloads(running.run) /\ step' = "prepared"
    /\ UNCHANGED <<running, pending, deployment, site, last, lastFailed, byHand, ciVars, sarifVars>>

\* GitHub Pages refuses a second deployment.
PagesFree == deployment = None

CreateDeployment ==
    /\ step = "prepared" /\ PagesFree
    /\ deployment' = [run |-> running.run, attempt |-> running.attempt,
                      by |-> running.by, report |-> report]
    /\ step' = "deploying"
    /\ UNCHANGED <<running, pending, report, site, last, lastFailed, byHand, ciVars, sarifVars>>

\* GitHub Pages, which does not know whether the workflow still waits.
PagesFinish ==
    /\ deployment # None
    /\ site' = deployment /\ deployment' = None
    /\ UNCHANGED <<running, pending, step, report, last, lastFailed, byHand, ciVars, sarifVars>>

\* The smoke test that follows changes nothing any more.
Deployed ==
    /\ step = "deploying" /\ deployment = None
    /\ Leave
    /\ UNCHANGED <<pending, deployment, site, last, lastFailed, byHand, ciVars, sarifVars>>

\* A step fails, times out or loses its runner.  What Pages is working on goes
\* on, unless it is what failed or the action that deploys withdraws it.
FailPublication ==
    /\ running # None /\ (running.wanted \/ running.cancels)
    /\ lastFailed' = (lastFailed \/ running = last)
    /\ deployment' \in {deployment} \cup (IF step = "deploying" THEN {None} ELSE {})
    /\ Leave
    /\ UNCHANGED <<pending, site, last, byHand, ciVars, sarifVars>>

\* Dispatches of the two workflows, which name a run or none, and no attempt.  The re-run of a publication that failed is
\* a dispatch for its run.
ByHand ==
    /\ followed = "pages" /\ byHand < MaxByHand /\ byHand' = byHand + 1
    /\ \/ \E r \in {q \in Runs : attempt[q] > 0} \cup {Latest}, cancels \in BOOLEAN :
             Arrive(Publish(r, "hand", TRUE, cancels))
       \/ Arrive(Publish(Latest, "hand", FALSE, TRUE))
    /\ UNCHANGED <<running, step, report, deployment, site, ciVars, sarifVars>>

PublisherStep ==
    \/ Enter \/ Skip \/ Resolve \/ CancelDeployment \/ DownloadReport
    \/ CreateDeployment \/ Deployed \/ FailPublication

-----------------------------------------------------------------------------
(* upload_sarif.yml.  No group, no condition: one for every attempt.  They    *)
(* do not meet before code scanning; one at a time is followed, any of them.  *)

Fork(o) == o = "fork"

\* sarif_upload.json.  The workflow of a pull request is the request's own, so
\* it may write anything.
Honest(r) ==
    [event |-> Event(origin[r]), ref |-> Ref(r, origin[r]), sha |-> <<r>>,
     pr |-> 0, fork |-> FALSE]

MainCommits == {0} \cup {q \in Runs : origin[q] = "push"}

Commits == {<<q>> : q \in Runs} \cup (MainCommits \X Runs)

Metadata(r) ==
    IF Event(origin[r]) # "pull_request" THEN {Honest(r)}
    ELSE [event : {"push", "pull_request"}, ref : {<<"heads", 0>>, <<"pull", r>>},
          sha : Commits, pr : {0, r}, fork : BOOLEAN]

\* The pull request as the run's record shows it: of the time of the run or of
\* now, absent once it is closed.
Snapshots(r) == {None} \cup [head : {r, 0}, base : MainCommits]

\* As the code might be wrong: the metadata say what was analysed.
BelievesMetadata(r, meta, snapshot) ==
    IF meta.fork THEN {None} ELSE {<<meta.ref, meta.sha>>}

\* The uploads that may follow: none if the binding is refused, None if it is
\* accepted but skipped, else the ref and the commit.
Binding(r, meta, snapshot) ==
    LET o == origin[r]
        event == Event(o)
    IN  IF meta.event # event THEN {}
        ELSE IF event = "pull_request"
        THEN IF \/ snapshot = None \/ snapshot.head # r
                \/ meta.pr # r \/ meta.ref # <<"pull", r>> \/ meta.fork # Fork(o)
             THEN {}
             ELSE IF Fork(o) THEN {None}
             ELSE {<<meta.ref, meta.sha>>} \cap {<<meta.ref, <<snapshot.base, r>>>>}
        ELSE IF meta.pr # 0 \/ meta.fork \/ meta.sha # <<r>> \/ meta.ref # Ref(r, o)
        THEN {}
        ELSE IF o = "branch" THEN {None} ELSE {<<meta.ref, meta.sha>>}

\* As the code might be wrong: the run's status is not looked at.
AnyStatus(r) == TRUE

\* workflow_run.status = completed
Settled(r) == ~InProgress(r)

EndUploader == uploader' = None

SarifDownload ==
    /\ uploader # None /\ uploader.step = "start"
    /\ \/ Downloads(uploader.run) = {} /\ EndUploader
       \/ \E a \in Downloads(uploader.run) :
             uploader' = [uploader EXCEPT !.step = "downloaded", !.report = a]
    /\ UNCHANGED <<alerts, ciVars, pagesVars>>

SarifVerify ==
    /\ uploader # None /\ uploader.step = "downloaded" /\ Settled(uploader.run)
    /\ \E meta \in Metadata(uploader.run), snapshot \in Snapshots(uploader.run) :
          \E target \in Binding(uploader.run, meta, snapshot) \ {None} :
              uploader' = [uploader EXCEPT !.step = "verified", !.target = target]
    /\ UNCHANGED <<alerts, ciVars, pagesVars>>

\* Refused, skipped, or broken.
SarifGivesUp ==
    /\ uploader # None
    /\ EndUploader
    /\ UNCHANGED <<alerts, ciVars, pagesVars>>

SarifUpload ==
    /\ uploader # None /\ uploader.step = "verified"
    /\ alerts' = {a \in alerts : a.ref # uploader.target[1]} \cup
           {[ref |-> uploader.target[1], sha |-> uploader.target[2],
             run |-> uploader.run, attempt |-> uploader.report]}
    /\ EndUploader
    /\ UNCHANGED <<ciVars, pagesVars>>

-----------------------------------------------------------------------------
Init ==
    /\ followed \in {"pages", "sarif"}
    /\ origin = [r \in Runs |-> None]
    /\ attempt = [r \in Runs |-> 0] /\ conclusion = [r \in Runs |-> None]
    /\ uploaded = [r \in Runs |-> {}] /\ passed = {} /\ reruns = 0
    /\ running = None /\ pending = None /\ step = "done" /\ report = 0
    /\ deployment = None /\ site = None /\ last = None /\ lastFailed = FALSE /\ byHand = 0
    /\ uploader = None /\ alerts = {}

CINext ==
    \E r \in Runs :
        \/ \E o \in Origins : StartRun(r, o)
        \/ Rerun(r) \/ UploadReport(r)
        \/ \E c \in {"success", "failure"} : Complete(r, c)

SarifNext == SarifDownload \/ SarifVerify \/ SarifGivesUp \/ SarifUpload

Next == CINext \/ PublisherStep \/ PagesFinish \/ ByHand \/ SarifNext

\* The jobs of the publishing workflow go on and end: their steps and the
\* action that deploys have time limits.  Nobody has to re-run, dispatch or push.
Spec == Init /\ [][Next]_vars /\ WF_vars(PublisherStep)

-----------------------------------------------------------------------------
(* Properties.                                                              *)

\* The shape of the state.
TypeOK ==
    /\ \A r \in Runs : /\ origin[r] \in Maybe(Origins) /\ attempt[r] \in {0} \cup Attempts
                       /\ conclusion[r] \in Maybe(Conclusions)
                       /\ uploaded[r] \subseteq 1 .. attempt[r]
    /\ passed \in SUBSET (Runs \X Attempts)
    /\ {running, pending, last} \subseteq Maybe(Publications)
    /\ {deployment, site} \subseteq Maybe(Deployments)
    /\ step \in {"start", "resolved", "prepared", "deploying", "done"}
    /\ (step = "done") = (running = None)
    /\ report \in {0} \cup Attempts /\ byHand \in 0 .. MaxByHand /\ lastFailed \in BOOLEAN
    /\ uploader # None => uploader.step \in {"start", "downloaded", "verified"}

\* Every end of a run on main asks for the group, and what waits there is
\* published later, by its run alone.  What is on the site without anybody's
\* doing was asked for by an attempt of a push to main, and that attempt passed.
SiteShowsAPassedPush ==
    site # None /\ site.by = "event" =>
        origin[site.run] = "push" /\ <<site.run, site.attempt>> \in passed

\* Failing attempts upload too, the artifacts of a run outlive its attempts, and a
\* download asks for the run's alone.  What the site shows without anybody's doing
\* is a report of the run that asked, and never another attempt's because the one
\* that passed had left none.
SiteShowsItsReport ==
    site # None /\ site.by = "event" => {site.attempt, site.report} \subseteq uploaded[site.run]

\* If downloads return the newest artifact, it is the report of the attempt that
\* passed, or of a later one of a run that has been re-run since.
SiteShowsNoOlderReport ==
    NewestFirst /\ site # None /\ site.by = "event" =>
        \/ site.report = site.attempt
        \/ site.report > site.attempt /\ attempt[site.run] > site.attempt

\* The queue keeps one of those that wait, a cancelled workflow may leave a
\* deployment behind that Pages completes later, and runs may end in another
\* order than they began.  Still the site never goes back to an older push,
\* unless somebody re-runs or dispatches.
ByItself(d) == d # None /\ d.by = "event" /\ d.attempt = 1

SiteNeverGoesBack ==
    [][ByItself(site) /\ ByItself(site') => site'.run >= site.run]_vars

\* SARIF is downloaded by run, possibly while a re-run is in progress that has
\* uploaded already: no alert is of an attempt that had not ended.
AlertsOfEndedAttempts ==
    \A a \in alerts : a.attempt < attempt[a.run] \/ conclusion[a.run] # None

\* Whatever the metadata in a pull request's artifact say and however the pull
\* request and main move before they are checked: alerts on main are of a run on
\* main and its commit, alerts on a pull request of a merge of its own head into
\* main; forks and other branches have none.
AlertsOfOwnRef ==
    \A a \in alerts :
        LET o == origin[a.run]
        IN  /\ o \notin {"fork", "branch"} /\ a.ref = Ref(a.run, o)
            /\ IF o = "pull" THEN a.sha \in MainCommits \X {a.run} ELSE a.sha = <<a.run>>

\* A push that passed is shown, or its publication failed, or something else has
\* asked for the group since; it is not forgotten in the queue.
LastPassIsShown ==
    \A r \in Runs, a \in Attempts :
        LET p == [run |-> r, attempt |-> a, by |-> "event", wanted |-> TRUE, cancels |-> FALSE]
        IN  last = p ~> \/ last # p \/ lastFailed
                        \/ site # None /\ site.run = r /\ site.attempt = a
=============================================================================
