------------------------- MODULE LlamaGuardEvidence -------------------------
(***************************************************************************)
(* The LlamaGuard evidence of a release.  A producer classifies the cases   *)
(* of the checkout and leaves raw records and a manifest; an adapter counts *)
(* them into a summary; GitHub attests the summary; the envelope builder    *)
(* stores the attestation bundle and an envelope beside it; a verifier      *)
(* writes its report.  The candidate builder admits such a summary, and the *)
(* package verifier checks what was packed.                                 *)
(*                                                                         *)
(* Each CI run does this once, in fresh job workspaces that artifacts       *)
(* connect, and stops at the first failure.  The same tools may be run in a *)
(* workspace that outlives a run - by hand, for any run, in any order, over *)
(* downloaded artifacts - and may be killed between two of their writes.    *)
(*                                                                         *)
(* A digest of a file is the file's content; a manifest is the raw file it  *)
(* describes.                                                               *)
(***************************************************************************)
EXTENDS Integers, Sequences, FiniteSetsExt

CONSTANTS
    None,       \* an absent file
    Runs,       \* run keys: every attempt has its own
    Commits,
    Commit,     \* the commit of a run
    CaseSet,    \* the case set of a checkout
    Tolerated,  \* how many unsafe cases the thresholds of a checkout allow
    Cases,      \* the number of cases
    MaxTools    \* bound: tools, downloads and checkouts in the workspace

ASSUME RunAssumption == Commit \in [Runs -> Commits]
ASSUME ThresholdAssumption == Cases \in Nat \ {0} /\ Tolerated \in [Commits -> 0 .. Cases]
ASSUME BoundAssumption == MaxTools \in Nat

Raws == [run : Runs, unsafe : 0 .. Cases]

Summaries == [run : Runs, commit : Commits, checkout : Commits, raw : Raws, manifest : Raws]

Bundles == [subject : Summaries, commit : Commits]

Envelopes == [summary : Summaries, raw : Raws, bundle : Bundles, commit : Commits]

Maybe(S) == S \cup {None}

Reports == [verified : BOOLEAN, summary : Maybe(Summaries), envelope : Maybe(Envelopes)]

\* A file that is absent is none that is there.
ASSUME NoneAssumption == None \notin Raws \cup Summaries \cup Bundles \cup Envelopes \cup Reports

VARIABLES
    stage,        \* how far each CI run got
    job,          \* the files in the workspace of a run's current job
    current,      \* artifact llamaguard-current-run-<run>-<attempt>
    attested,     \* artifact llamaguard-attested-current-run-<run>-<attempt>
    bundles,      \* what GitHub has attested
    files,        \* the files of the workspace that outlives runs
    head,         \* its checkout
    todo,         \* the writes the running tool has yet to make
    used, downloaded

ci == <<stage, job, current, attested, bundles>>
local == <<files, head, todo, used, downloaded>>
vars == <<ci, local>>

FileNames == {"raw", "manifest", "summary", "bundle", "envelope", "report"}

NoFiles == [n \in FileNames |-> None]

-----------------------------------------------------------------------------
(* What the tools write.  A tool is the sequence of its writes; writing      *)
(* None removes the file.                                                    *)

\* What the files f hold after the writes: the last content written to each.
Apply(f, writes) ==
    [n \in FileNames |->
        LET at == {i \in DOMAIN writes : writes[i][1] = n}
        IN  IF at = {} THEN f[n] ELSE writes[Max(at)][2]]

Erase(names) == [i \in DOMAIN names |-> <<names[i], None>>]

\* STALE_OUTPUT_RELS of the producer, STALE_OUTPUTS of the adapter, and the
\* generated_paths of the envelope builder.
StaleOfProducer == <<"raw", "manifest", "summary", "envelope", "bundle", "report">>
\* As the code might be wrong: only its own output is stale.
AdapterClearsSummary == <<"summary">>

\* As the code might be wrong: the adapter clears what the producer clears.
AdapterClearsAll == StaleOfProducer

StaleOfAdapter == <<"summary", "envelope", "bundle", "report">>
StaleOfEnvelope == <<"bundle", "envelope", "report">>

Classifications(r, unsafe) == [run |-> r, unsafe |-> unsafe]

\* The producer fails before it wrote anything - it refuses the checkout, the
\* model, a case or an answer of the model - or between raw and manifest.
ProducerWrites(r, checkout, unsafe, failure) ==
    LET raw == <<"raw", Classifications(r, unsafe)>>
        refused == checkout # Commit[r] \/ failure = "early"
    IN  Erase(StaleOfProducer)
        \o CASE refused -> <<>>
             [] ~refused /\ failure = "late" -> <<raw>> \o Erase(StaleOfProducer)
             [] OTHER -> <<raw, <<"manifest", raw[2]>>>>

\* The run is the caller's; the counts are the raw file's, the threshold the
\* checkout's.
Summary(f, r, checkout) ==
    [run |-> r, commit |-> Commit[r], checkout |-> checkout,
     raw |-> f["raw"], manifest |-> f["manifest"]]

Passed(s) == s.raw.unsafe <= Tolerated[s.checkout]

Present(f, names) == \A n \in names : f[n] # None

\* As the code might be wrong: missing raw evidence is no reason to stop.
AdapterCountsNothing(f, r, checkout) ==
    Erase(StaleOfAdapter) \o <<<<"summary", Summary(f, r, checkout)>>>>

AdapterWrites(f, r, checkout) ==
    Erase(StaleOfAdapter)
    \o IF Present(f, {"raw", "manifest"}) THEN <<<<"summary", Summary(f, r, checkout)>>>>
                                          ELSE <<>>

\* As the code might be wrong: a written summary is a success.
AdapterAlwaysSucceeds(f) == f["summary"] # None

\* The adapter's exit code: a summary that does not pass is written too.
AdapterSucceeds(f) == f["summary"] # None /\ Passed(f["summary"])

Envelope(f, r, bundle) ==
    [summary |-> f["summary"], raw |-> f["raw"], bundle |-> bundle, commit |-> Commit[r]]

SummaryFitsEnvelope(f, r, checkout) ==
    /\ checkout = Commit[r]
    /\ Present(f, {"raw", "manifest", "summary"})
    /\ f["summary"].commit = Commit[r]
    /\ CaseSet[f["summary"].checkout] = CaseSet[checkout]
    /\ f["summary"].raw = f["raw"]
    /\ Passed(f["summary"])

EnvelopeWrites(f, r, checkout, bundle, failure) ==
    LET stored == <<"bundle", bundle>>
        refused == ~SummaryFitsEnvelope(f, r, checkout) \/ failure = "early"
    IN  Erase(StaleOfEnvelope)
        \o CASE refused -> <<>>
             [] ~refused /\ failure = "late" -> <<stored>> \o Erase(StaleOfEnvelope)
             [] OTHER -> <<stored, <<"envelope", Envelope(f, r, bundle)>>>>

\* gh attestation verify --bundle --source-digest --signer-workflow.
Attests(bundle, summary, commit) == bundle = [subject |-> summary, commit |-> commit]

\* The digest the envelope declares is the summary's.
EnvelopeWraps(f) == f["envelope"].summary = f["summary"]

VerifierAccepts(f, commit) ==
    /\ Present(f, {"summary", "envelope", "bundle"})
    /\ EnvelopeWraps(f)
    /\ Attests(f["bundle"], f["summary"], commit)

\* The report is written whatever the verdict; gh may fail or take too long.
VerifierWrites(f, r, answers) ==
    LET loaded == Present(f, {"summary", "envelope"})
    IN  <<<<"report", [verified |-> VerifierAccepts(f, Commit[r]) /\ answers,
                       summary |-> IF loaded THEN f["summary"] ELSE None,
                       envelope |-> IF loaded THEN f["envelope"] ELSE None]>>>>

-----------------------------------------------------------------------------
(* What the consumers accept.                                               *)

SummaryOfRun(f, r) == f["summary"].run = r /\ f["summary"].commit = Commit[r]

\* The threshold of the checkout is the one the summary was measured against.
SummaryWithin(f, checkout) ==
    /\ Tolerated[f["summary"].checkout] = Tolerated[checkout]
    /\ f["summary"].raw.unsafe <= Tolerated[checkout]
    /\ Passed(f["summary"])

RawUnchanged(f) == f["summary"].raw = f["raw"]

\* As the code might be wrong: the commit identifies the run.
SummaryFitsCommit(f, r, checkout) ==
    /\ Present(f, {"summary"})
    /\ f["summary"].commit = Commit[r]
    /\ SummaryWithin(f, checkout)
    /\ RawUnchanged(f)

SummaryFitsRun(f, r, checkout) ==
    /\ Present(f, {"summary"})
    /\ SummaryOfRun(f, r)
    /\ SummaryWithin(f, checkout)
    /\ RawUnchanged(f)

\* The candidate builder, with the required-gate evidence of run r.  It reads
\* no report: it verifies the attestation itself.
Admits(f, r, checkout) == SummaryFitsRun(f, r, checkout) /\ VerifierAccepts(f, Commit[r])

\* As the code might be wrong: only what is attested has to be of the run.
PackageSummaryMatches(f, r) ==
    /\ f["raw"].run = r
    /\ f["summary"].run = r /\ f["summary"].commit = Commit[r]

PackageRunsMatch(f, r) ==
    /\ f["raw"].run = r
    /\ f["manifest"].run = r
    /\ f["summary"].run = r /\ f["summary"].commit = Commit[r]
    /\ f["envelope"].commit = Commit[r]

PackageDigestsMatch(f) ==
    /\ f["summary"].raw = f["raw"]
    /\ f["envelope"].summary = f["summary"]
    /\ f["envelope"].bundle = f["bundle"]
    /\ f["envelope"].raw = f["raw"]
    /\ f["report"].verified
    /\ f["report"].summary = f["summary"]
    /\ f["report"].envelope = f["envelope"]

\* The package verifier believes the report.
PackageVerifies(f, r) ==
    /\ Present(f, FileNames)
    /\ PackageRunsMatch(f, r)
    /\ PackageDigestsMatch(f)

-----------------------------------------------------------------------------
(* A CI run.  Its jobs start in fresh workspaces; a step that fails ends it. *)

Init ==
    /\ stage = [r \in Runs |-> "new"]
    /\ job = [r \in Runs |-> NoFiles]
    /\ current = [r \in Runs |-> None]
    /\ attested = [r \in Runs |-> None]
    /\ bundles = {}
    /\ files = NoFiles
    /\ head \in Commits
    /\ todo = <<>> /\ used = 0 /\ downloaded = FALSE

Step(r, from, to) == stage[r] = from /\ stage' = [stage EXCEPT ![r] = to]

\* A verdict of a tool decides how the step ends.
Judge(r, from, ok, to) == Step(r, from, IF ok THEN to ELSE "rejected")

CIProduce(r, unsafe) ==
    /\ Step(r, "new", "produced")
    /\ job' = [job EXCEPT ![r] = Apply(NoFiles, ProducerWrites(r, Commit[r], unsafe, "none"))]
    /\ UNCHANGED <<current, attested, bundles, local>>

CIIngest(r) ==
    LET result == Apply(job[r], AdapterWrites(job[r], r, Commit[r]))
    IN  /\ Judge(r, "produced", AdapterSucceeds(result), "ingested")
        /\ job' = [job EXCEPT ![r] = result]
        /\ UNCHANGED <<current, attested, bundles, local>>

CIUpload(r) ==
    /\ Judge(r, "ingested", Present(job[r], {"raw", "manifest", "summary"}), "uploaded")
    /\ current' = [current EXCEPT ![r] = job[r]]
    /\ UNCHANGED <<job, attested, bundles, local>>

\* The attestation job restores the artifact and attests the summary at once.
CIAttest(r) ==
    /\ Step(r, "uploaded", "attested")
    /\ job' = [job EXCEPT ![r] = current[r]]
    /\ bundles' = bundles \cup {[subject |-> current[r]["summary"], commit |-> Commit[r]]}
    /\ UNCHANGED <<current, attested, local>>

CIEnvelope(r) ==
    LET bundle == [subject |-> job[r]["summary"], commit |-> Commit[r]]
        result == Apply(job[r], EnvelopeWrites(job[r], r, Commit[r], bundle, "none"))
    IN  /\ Judge(r, "attested", result["envelope"] # None, "enveloped")
        /\ job' = [job EXCEPT ![r] = result]
        /\ UNCHANGED <<current, attested, bundles, local>>

CIVerify(r) ==
    LET result == Apply(job[r], VerifierWrites(job[r], r, TRUE))
    IN  /\ Judge(r, "enveloped", result["report"].verified, "verified")
        /\ job' = [job EXCEPT ![r] = result]
        /\ UNCHANGED <<current, attested, bundles, local>>

CIPublish(r) ==
    /\ Judge(r, "verified", Present(job[r], FileNames), "published")
    /\ attested' = [attested EXCEPT ![r] = job[r]]
    /\ UNCHANGED <<job, current, bundles, local>>

\* The recorded-path job restores the attested artifact.
CIAdmit(r) ==
    /\ Judge(r, "published", Admits(attested[r], r, Commit[r]), "admitted")
    /\ job' = [job EXCEPT ![r] = attested[r]]
    /\ UNCHANGED <<current, attested, bundles, local>>

Ended == {"admitted", "rejected", "broken"}

\* A step breaks by itself: the model is unreachable, an answer cannot be
\* parsed, a timeout, a cancellation, a lost runner.
CIBreak(r) ==
    /\ stage[r] \notin Ended
    /\ stage' = [stage EXCEPT ![r] = "broken"]
    /\ job' = [job EXCEPT ![r] = NoFiles]
    /\ UNCHANGED <<current, attested, bundles, local>>

CIStep(r) ==
    \/ \E unsafe \in 0 .. Cases : CIProduce(r, unsafe)
    \/ CIIngest(r) \/ CIUpload(r)
    \/ CIAttest(r) \/ CIEnvelope(r) \/ CIVerify(r) \/ CIPublish(r)
    \/ CIAdmit(r)

-----------------------------------------------------------------------------
(* The workspace that outlives runs.  One tool runs at a time.              *)

Idle == todo = <<>>

Start(writes) ==
    /\ Idle /\ used < MaxTools
    /\ todo' = writes
    /\ used' = used + 1
    /\ UNCHANGED <<files, head, ci>>

Failures == {"none", "early", "late"}

Produce(r, unsafe, failure) ==
    /\ Start(ProducerWrites(r, head, unsafe, failure))
    /\ UNCHANGED downloaded

Ingest(r) == Start(AdapterWrites(files, r, head)) /\ UNCHANGED downloaded

BuildEnvelope(r, bundle, failure) ==
    /\ Start(EnvelopeWrites(files, r, head, bundle, failure))
    /\ UNCHANGED downloaded

Verify(r, answers) == Start(VerifierWrites(files, r, answers)) /\ UNCHANGED downloaded

\* The files of the two artifacts, in the order in which they are copied.
CurrentFiles == <<"raw", "manifest", "summary">>
AttestedFiles == <<"raw", "manifest", "summary", "bundle", "envelope", "report">>

Download(artifact, names) ==
    /\ artifact # None
    /\ Start([i \in DOMAIN names |-> <<names[i], artifact[names[i]]>>])
    /\ downloaded' = TRUE

Write ==
    /\ todo # <<>>
    /\ files' = Apply(files, <<Head(todo)>>)
    /\ todo' = Tail(todo)
    /\ UNCHANGED <<ci, head, used, downloaded>>

Kill ==
    /\ todo # <<>>
    /\ todo' = <<>>
    /\ UNCHANGED <<ci, files, head, used, downloaded>>

Checkout(c) ==
    /\ Idle /\ used < MaxTools
    /\ head # c /\ head' = c
    /\ used' = used + 1
    /\ UNCHANGED <<ci, files, todo, downloaded>>

LocalStep ==
    \/ \E r \in Runs, unsafe \in 0 .. Cases, failure \in Failures : Produce(r, unsafe, failure)
    \/ \E r \in Runs : Ingest(r)
    \/ \E r \in Runs, b \in bundles, failure \in Failures : BuildEnvelope(r, b, failure)
    \/ \E r \in Runs, answers \in BOOLEAN : Verify(r, answers)
    \/ \E r \in Runs : Download(current[r], CurrentFiles) \/ Download(attested[r], AttestedFiles)
    \/ Write \/ Kill
    \/ \E c \in Commits : Checkout(c)

Next == LocalStep \/ \E r \in Runs : CIStep(r) \/ CIBreak(r)

Spec == Init /\ [][Next]_vars

-----------------------------------------------------------------------------
(* Properties.                                                              *)

FilesOK(f) ==
    /\ DOMAIN f = FileNames
    /\ f["raw"] \in Maybe(Raws) /\ f["manifest"] \in Maybe(Raws)
    /\ f["summary"] \in Maybe(Summaries) /\ f["bundle"] \in Maybe(Bundles)
    /\ f["envelope"] \in Maybe(Envelopes)
    /\ f["report"] \in Maybe(Reports)

\* The shape of the state.
TypeOK ==
    /\ \A r \in Runs :
        /\ stage[r] \in Ended \cup {"new", "produced", "ingested", "uploaded", "attested",
                                    "enveloped", "verified", "published"}
        /\ FilesOK(job[r])
        /\ current[r] # None => FilesOK(current[r])
        /\ attested[r] # None => FilesOK(attested[r])
    /\ \A b \in bundles : b \in Bundles
    /\ FilesOK(files) /\ head \in Commits
    /\ used \in 0 .. MaxTools /\ downloaded \in BOOLEAN
    /\ \A i \in DOMAIN todo : todo[i][1] \in FileNames

\* What a summary claims was computed from, if CI attested it for run r.
IsOfRun(s, r) ==
    /\ \E b \in bundles : Attests(b, s, Commit[r])
    /\ s.run = r /\ s.raw.run = r /\ s.manifest = s.raw
    /\ s.raw.unsafe <= Tolerated[Commit[r]]

\* Whatever was downloaded, rebuilt, killed and mixed before: if the candidate
\* builder admits the summary for run r, CI attested that summary, it counts the
\* classifications that this run's producer made - another attempt of the same
\* commit is not good enough, nor is a checkout with laxer thresholds - and the
\* raw file beside it is the one that was counted.
AdmissionIsOfThatRun ==
    \A r \in Runs :
        Idle /\ Admits(files, r, head) => IsOfRun(files["summary"], r)
                                          /\ files["raw"] = files["summary"].raw

\* The package verifier does not verify the attestation; it believes the report
\* beside the summary.  Still, if it accepts the files for run r, CI attested the
\* summary for that run, and no file is of another attempt.
PackageIsOfThatRun ==
    \A r \in Runs :
        Idle /\ PackageVerifies(files, r) =>
            /\ IsOfRun(files["summary"], r)
            /\ files["raw"] = files["summary"].raw
            /\ files["manifest"].run = r

\* A summary is attested before anything reads its verdict, and the adapter
\* writes failing ones too; yet none is attested.
NothingFailingAttested == \A b \in bundles : Passed(b.subject)

Names(f, n, content) == f[n] \in {None, content}

DescribeEachOther(f) ==
    /\ f["manifest"] # None => Names(f, "raw", f["manifest"])
    /\ f["summary"] # None => Names(f, "raw", f["summary"].raw)
    /\ f["envelope"] # None => /\ Names(f, "summary", f["envelope"].summary)
                               /\ Names(f, "bundle", f["envelope"].bundle)
    /\ f["report"] # None /\ f["report"].verified =>
          /\ Names(f, "summary", f["report"].summary)
          /\ Names(f, "envelope", f["report"].envelope)

\* The tools alone, killed anywhere and run in any order, never leave a file that
\* names another than the one beside it: each clears what depends on what it
\* replaces, and does so first.
FilesDescribeEachOther == Idle /\ ~downloaded => DescribeEachOther(files)

\* No tool refuses what the tool before it left: a CI run is rejected only when
\* its classifications exceed the threshold of its commit.
PassingRunNeverRejected ==
    \A r \in Runs :
        stage[r] = "rejected" => /\ job[r]["raw"] # None
                                 /\ job[r]["raw"].unsafe > Tolerated[Commit[r]]
=============================================================================
