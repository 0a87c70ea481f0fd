------------------------- MODULE PulseWorkflowProofs -------------------------
(***************************************************************************)
(* Proofs about PulseWorkflow for all lists of gates, every number of       *)
(* attempts and both readings of `gh run download`.                         *)
(***************************************************************************)
EXTENDS PulseWorkflow, SequenceTheorems, TLAPS

-----------------------------------------------------------------------------
(* The inductive invariant.                                                 *)

StepNames ==
    {"run_all", "augment", "record", "build_status", "manifest", "check_gates", "decision",
     "binding", "upload_binding", "upload_report", "upload_llamaguard",
     "upload_pre_attestation", "attest_binding", "attest_llamaguard", "restore",
     "materialize", "enforce", "final_decision", "final_binding", "upload_recorded_path",
     "assemble", "verify"}

\* Every job goes through its steps with growing rank.
Rank(s) ==
    CASE s \in {"augment", "build_status", "materialize"} -> 2
      [] s \in {"manifest", "upload_llamaguard"} -> 3
      [] s \in {"check_gates", "enforce", "upload_pre_attestation"} -> 4
      [] s \in {"decision", "final_decision"} -> 5
      [] s \in {"binding", "final_binding"} -> 6
      [] s = "upload_binding" -> 7
      [] s = "upload_report" -> 8
      [] s = "upload_recorded_path" -> 9
      [] OTHER -> 1

Ranked(q) == \A m, n \in 1..Len(q) : m < n => Rank(q[m]) < Rank(q[n])

StepsOf(j) == Range(Steps(j))
ToDo == Range(todo)

\* One job runs at a time, and it has some of its own steps to do.
RunnerInv ==
    /\ \A j, k \in Running : j = k
    /\ Running = {} => todo = <<>> /\ broken = FALSE /\ files = NoFiles
    /\ todo \in Seq(StepNames) /\ Len(todo) <= 8 /\ Ranked(todo)
    /\ \A j \in Running : ToDo \subseteq StepsOf(j)
    /\ "restore" \in ToDo => "materialize" \in ToDo

RunInv ==
    /\ trigger \in Triggers
    /\ attempt \in 1..MaxAttempts
    /\ partial \in BOOLEAN /\ healthy \in BOOLEAN /\ broken \in BOOLEAN
    /\ result \in [Jobs -> {"waiting", "running", "success", "failure", "skipped"}]
    /\ ranIn \in [Jobs -> 0..attempt]

\* A job that ran was meant to, and ran in this attempt unless only the failed
\* ones were run again; the jobs it needs succeeded before it.
NeedsInv == \A j \in Jobs :
    /\ result[j] \in {"running", "success", "failure"} =>
          JobIf(j) /\ ranIn[j] >= 1 /\ (partial \/ ranIn[j] = attempt)
    /\ result[j] = "running" => ranIn[j] = attempt
    /\ result[j] \in {"running", "success"} =>
          \A n \in Needs[j] : result[n] = "success" /\ ranIn[n] <= ranIn[j]

\* Job j has done its step s, and nothing went wrong.
Did(j, s) == result[j] = "success" \/ (result[j] = "running" /\ ~broken /\ s \notin ToDo)

\* A job that got hold of an attempt-scoped artifact runs in the attempt of the
\* job that made it.
ScopeInv ==
    /\ Did("attest_llamaguard", "attest_llamaguard") =>
          ranIn["pulse"] = ranIn["attest_llamaguard"]
    /\ Did("recorded_path", "restore") =>
          /\ ranIn["pulse"] = ranIn["recorded_path"]
          /\ ranIn["attest_llamaguard"] = ranIn["recorded_path"]
    /\ Did("assemble", "assemble") => ranIn["recorded_path"] = ranIn["assemble"]
    /\ Did("verify", "verify") => ranIn["assemble"] = ranIn["verify"]

ArtifactNames ==
    {"llamaguard-current-run", "pulse-pre-attestation", "llamaguard-attested",
     "binding", "pulse-report", "recorded-path", "package"}

\* The step that uploads an artifact.
UploadStep(name) ==
    CASE name = "llamaguard-current-run" -> "upload_llamaguard"
      [] name = "pulse-pre-attestation" -> "upload_pre_attestation"
      [] name = "llamaguard-attested" -> "attest_llamaguard"
      [] name = "binding" -> "upload_binding"
      [] name = "pulse-report" -> "upload_report"
      [] name = "recorded-path" -> "upload_recorded_path"
      [] name = "package" -> "assemble"

MadeIn(name, t) == \E a \in Named(name) : a.attempt = t

\* A job that has done an upload has left the artifact in the store.
UploadInv == \A name \in ArtifactNames :
    /\ UploadStep(name) \in StepsOf(Producer(name))
    /\ Did(Producer(name), UploadStep(name))
    => MadeIn(name, ranIn[Producer(name)])

Statuses == [made : Nat, blocked : BOOLEAN, gates : [Gates -> GateValues]]

ReleaseIds == Required \cup ReleaseRequired

\* What each artifact says of the attempt that uploaded it.
GoodContent(a) ==
    /\ a.name \in {"llamaguard-current-run", "llamaguard-attested", "binding"} =>
          a.content.made = a.attempt
    /\ a.name = "pulse-pre-attestation" =>
          a.content.status \in Statuses /\ a.content.status.made = a.attempt
    /\ a.name = "recorded-path" => a.content.status.made = a.attempt
    /\ a.name = "pulse-report" /\ a.content.decision # None =>
          /\ a.content.decision.made = a.attempt
          /\ a.content.decision.level = "PROD-PASS" =>
                /\ a.content.status.made = a.attempt
                /\ AllTrue(a.content.status.gates, ReleaseIds)
                /\ \E e \in Named("llamaguard-attested") :
                      e.attempt = a.attempt /\ e.content.made = a.attempt /\ e.content.pass
    /\ a.name = "package" =>
          /\ a.content.attempt = a.attempt
          /\ a.content.status.made = a.attempt
          /\ NewestFirst =>
                a.content.decision.made = a.attempt /\ a.content.binding.made = a.attempt

StoreInv == \A a \in store :
    /\ a.name \in ArtifactNames
    /\ a.attempt \in Nat /\ 1 <= a.attempt /\ a.attempt <= ranIn[Producer(a.name)]
    /\ GoodContent(a)

\* The gates that decide in this lane.
GateIds == IF IsRelease THEN ReleaseIds ELSE CoreRequired

\* The steps that write status.json.
StatusSteps == {"run_all", "augment", "build_status", "restore", "materialize"}

\* Everything that is made from the status is made after the last write to it.
VerdictInv ==
    /\ files.checkRc \in {None, 0, 1, 2}
    /\ files.checkRc # None =>
          /\ Running \subseteq {GateJob}
          /\ ToDo \cap StatusSteps = {}
          /\ Lane # "tier0" => files.checkRc = CheckGates(files.status.gates, GateIds)
    /\ files.decision # None =>
          /\ ToDo \cap StatusSteps = {}
          /\ files.decision.made = attempt
          /\ files.decision.level \in {"FAIL", "STAGE-PASS", "PROD-PASS"}
          /\ files.decision.level = "PROD-PASS" =>
                Running = {"recorded_path"} /\ AllTrue(files.status.gates, ReleaseIds)
    /\ files.binding # None /\ Running \subseteq {GateJob} =>
          /\ ToDo \cap StatusSteps = {}
          /\ files.binding.made = attempt
          /\ files.binding.enforcement = Enforcement(files.status.gates, GateIds)
    /\ result[GateJob] = "running" /\ ~broken /\ ToDo \cap {"binding", "final_binding"} = {} =>
          files.binding # None

\* In tier0 nothing sets a release-required gate.
Tier0Inv ==
    Lane = "tier0" /\ files.status # None =>
        \A g \in ReleaseRequired : files.status.gates[g] = "absent"

\* The hosted lane: the status is of this attempt, and the recorded path goes on
\* with detector evidence that was attested in it.
HostedInv ==
    /\ Lane = "hosted" /\ result["pulse"] = "running" /\ ~broken /\ "build_status" \notin ToDo =>
          files.status \in Statuses /\ files.status.made = attempt
    /\ result["recorded_path"] = "running" /\ ~broken /\ "restore" \notin ToDo =>
          /\ files.status \in Statuses /\ files.status.made = attempt
          /\ \E e \in Named("llamaguard-attested") :
                e.attempt = attempt /\ e.content = files.llamaguard
    /\ result["recorded_path"] = "running" /\ ~broken /\ "materialize" \notin ToDo =>
          files.llamaguard.pass

FilesInv ==
    /\ DOMAIN files = DOMAIN NoFiles
    /\ VerdictInv /\ Tier0Inv /\ HostedInv

IInv == RunInv /\ RunnerInv /\ NeedsInv /\ ScopeInv /\ UploadInv /\ StoreInv /\ FilesInv

-----------------------------------------------------------------------------
(* Lists of steps.                                                          *)

LEMMA RankType == \A s : Rank(s) \in 1..9
  BY DEF Rank

\* What is left of an ordered list of steps after the first one.
LEMMA RankedTail ==
    ASSUME NEW q \in Seq(StepNames), q # <<>>, Ranked(q)
    PROVE  /\ Tail(q) \in Seq(StepNames) /\ Len(Tail(q)) < Len(q) /\ Ranked(Tail(q))
           /\ Head(q) \in Range(q) /\ Head(q) \in StepNames
           /\ Range(Tail(q)) = Range(q) \ {Head(q)}
           /\ \A s \in Range(q) : s # Head(q) => Rank(Head(q)) < Rank(s)
  <1>1. /\ Len(q) \in Nat /\ Len(q) > 0 /\ DOMAIN q = 1..Len(q)
        /\ Head(q) = q[1]
        /\ Tail(q) \in Seq(StepNames) /\ Len(Tail(q)) = Len(q) - 1
        /\ DOMAIN Tail(q) = 1..(Len(q) - 1)
        /\ \A m \in 1..(Len(q) - 1) : Tail(q)[m] = q[m+1]
    OBVIOUS
  <1>2. Ranked(Tail(q))
    <2> SUFFICES ASSUME NEW m \in 1..(Len(q) - 1), NEW n \in 1..(Len(q) - 1), m < n
                 PROVE  Rank(Tail(q)[m]) < Rank(Tail(q)[n])
      BY <1>1 DEF Ranked
    <2>1. m + 1 \in 1..Len(q) /\ n + 1 \in 1..Len(q) /\ m + 1 < n + 1
      BY <1>1
    <2> QED
      BY <1>1, <2>1 DEF Ranked
  <1>3. Head(q) \in Range(q) /\ Head(q) \in StepNames
    BY <1>1 DEF Range
  <1>4. \A m \in 2..Len(q) : Rank(Head(q)) < Rank(q[m])
    BY <1>1 DEF Ranked
  <1>5. \A s \in Range(q) : s # Head(q) => \E m \in 2..Len(q) : s = q[m]
    BY <1>1 DEF Range
  <1>6. \A s \in Range(Tail(q)) : s \in Range(q) /\ s # Head(q)
    <2> TAKE s \in Range(Tail(q))
    <2>1. PICK m \in 1..(Len(q) - 1) : s = Tail(q)[m]
      BY <1>1 DEF Range
    <2>2. s = q[m+1] /\ m + 1 \in 2..Len(q)
      BY <1>1, <2>1
    <2>3. Rank(Head(q)) < Rank(s)
      BY <1>4, <2>2
    <2>4. s # Head(q)
      BY <2>3, RankType
    <2> QED
      BY <1>1, <2>2, <2>4 DEF Range
  <1>7. \A s \in Range(q) : s # Head(q) => s \in Range(Tail(q))
    <2> SUFFICES ASSUME NEW s \in Range(q), s # Head(q) PROVE s \in Range(Tail(q))
      OBVIOUS
    <2>1. PICK m \in 2..Len(q) : s = q[m]
      BY <1>5
    <2>2. m - 1 \in 1..(Len(q) - 1) /\ Tail(q)[m - 1] = s
      BY <1>1, <2>1
    <2> QED
      BY <1>1, <2>2 DEF Range
  <1> QED
    BY <1>1, <1>2, <1>3, <1>4, <1>5, <1>6, <1>7

\* Lists written down element by element.
LEMMA ShortLists ==
    /\ Range(<<>>) = {}
    /\ \A a : Range(<<a>>) = {a}
    /\ \A a, b : Range(<<a, b>>) = {a, b}
    /\ \A a, b, c, d : Range(<<a, b, c, d>>) = {a, b, c, d}
    /\ \A a, b, c, d, e, f : Range(<<a, b, c, d, e, f>>) = {a, b, c, d, e, f}
    /\ \A a, b, c, d, e, f, g, h :
          Range(<<a, b, c, d, e, f, g, h>>) = {a, b, c, d, e, f, g, h}
  BY DEF Range

\* The steps of the jobs, in the three lanes.
LEMMA JobSteps ==
    /\ StepsOf("pulse") = CASE Lane = "core" ->
            {"run_all", "augment", "manifest", "check_gates", "decision", "binding",
             "upload_binding", "upload_report"}
         [] Lane = "tier0" ->
            {"record", "build_status", "manifest", "check_gates", "decision", "binding",
             "upload_binding", "upload_report"}
         [] Lane = "hosted" ->
            {"record", "build_status", "upload_llamaguard", "upload_pre_attestation"}
    /\ \A j \in {"attest_authority", "attest_binding"} : StepsOf(j) = {"attest_binding"}
    /\ StepsOf("attest_llamaguard") = {"attest_llamaguard"}
    /\ StepsOf("recorded_path") =
            {"restore", "materialize", "enforce", "final_decision", "final_binding",
             "upload_binding", "upload_report", "upload_recorded_path"}
    /\ StepsOf("assemble") = {"assemble"}
    /\ StepsOf("verify") = {"verify"}
  <1>1. /\ Lane = "core" => Steps("pulse") = <<"run_all", "augment">> \o Publishing
        /\ Lane = "tier0" => Steps("pulse") = <<"record", "build_status">> \o Publishing
        /\ Lane = "hosted" => Steps("pulse") =
              <<"record", "build_status", "upload_llamaguard", "upload_pre_attestation">>
        /\ \A j \in {"attest_authority", "attest_binding"} : Steps(j) = <<"attest_binding">>
        /\ Steps("attest_llamaguard") = <<"attest_llamaguard">>
        /\ Steps("recorded_path") =
              <<"restore", "materialize", "enforce", "final_decision", "final_binding",
                "upload_binding", "upload_report", "upload_recorded_path">>
        /\ Steps("assemble") = <<"assemble">>
        /\ Steps("verify") = <<"verify">>
    BY DEF Steps
  <1>2. /\ Publishing \in Seq(StepNames)
        /\ <<"run_all", "augment">> \in Seq(StepNames)
        /\ <<"record", "build_status">> \in Seq(StepNames)
    BY DEF Publishing, StepNames
  <1>3. /\ Range(Publishing) = {"manifest", "check_gates", "decision", "binding",
                                "upload_binding", "upload_report"}
        /\ Range(<<"run_all", "augment">>) = {"run_all", "augment"}
        /\ Range(<<"record", "build_status">>) = {"record", "build_status"}
    BY ShortLists DEF Publishing
  <1>4. /\ Range(<<"run_all", "augment">> \o Publishing) =
              Range(<<"run_all", "augment">>) \cup Range(Publishing)
        /\ Range(<<"record", "build_status">> \o Publishing) =
              Range(<<"record", "build_status">>) \cup Range(Publishing)
    <2>1. ASSUME NEW s \in Seq(StepNames)
          PROVE  Range(s \o Publishing) = Range(s) \cup Range(Publishing)
      BY <1>2, RangeConcatenation
    <2> QED
      BY <1>2, <2>1
  <1>5. Lane \in {"core", "tier0", "hosted"}
    BY DEF Lane
  <1>6. Lane = "core" => StepsOf("pulse") =
            {"run_all", "augment", "manifest", "check_gates", "decision", "binding",
             "upload_binding", "upload_report"}
    BY <1>1, <1>3, <1>4 DEF StepsOf
  <1>7. Lane = "tier0" => StepsOf("pulse") =
            {"record", "build_status", "manifest", "check_gates", "decision", "binding",
             "upload_binding", "upload_report"}
    BY <1>1, <1>3, <1>4 DEF StepsOf
  <1>8. Lane = "hosted" => StepsOf("pulse") =
            {"record", "build_status", "upload_llamaguard", "upload_pre_attestation"}
    BY <1>1, ShortLists DEF StepsOf
  <1>9. /\ \A j \in {"attest_authority", "attest_binding"} : StepsOf(j) = {"attest_binding"}
        /\ StepsOf("attest_llamaguard") = {"attest_llamaguard"}
        /\ StepsOf("assemble") = {"assemble"}
        /\ StepsOf("verify") = {"verify"}
    BY <1>1, ShortLists DEF StepsOf
  <1>10. StepsOf("recorded_path") =
            {"restore", "materialize", "enforce", "final_decision", "final_binding",
             "upload_binding", "upload_report", "upload_recorded_path"}
    BY <1>1, ShortLists DEF StepsOf
  <1> QED
    BY <1>5, <1>6, <1>7, <1>8, <1>9, <1>10

\* They are ordered lists of at most eight steps.
LEMMA StepsRanked ==
    ASSUME NEW j \in Jobs
    PROVE  Steps(j) \in Seq(StepNames) /\ Len(Steps(j)) <= 8 /\ Ranked(Steps(j))
  <1>1. Lane \in {"core", "tier0", "hosted"}
    BY DEF Lane
  <1>2. CASE j = "pulse" /\ Lane = "core"
    BY <1>2 DEF Steps, Publishing, StepNames, Ranked, Rank
  <1>3. CASE j = "pulse" /\ Lane = "tier0"
    BY <1>3 DEF Steps, Publishing, StepNames, Ranked, Rank
  <1>4. CASE j = "pulse" /\ Lane = "hosted"
    BY <1>4 DEF Steps, StepNames, Ranked, Rank
  <1>5. CASE j = "recorded_path"
    BY <1>5 DEF Steps, StepNames, Ranked, Rank
  <1>6. CASE j \in {"attest_authority", "attest_binding", "attest_llamaguard", "assemble", "verify"}
    <2>1. \E s \in StepNames : Steps(j) = <<s>>
      BY <1>6 DEF Steps, StepNames
    <2> QED
      BY <2>1 DEF Ranked
  <1> QED
    BY <1>1, <1>2, <1>3, <1>4, <1>5, <1>6 DEF Jobs, HostedChain

-----------------------------------------------------------------------------
(* The run and its lane.                                                    *)

\* The lane of the shell and the conditions of the jobs agree.
LEMMA LaneFacts ==
    ASSUME trigger \in Triggers
    PROVE  /\ Lane \in {"core", "tier0", "hosted"}
           /\ Lane = "core" <=> ~IsRelease
           /\ HostedByJobIf <=> Lane = "hosted"
           /\ AuthorityByJobIf => Lane # "hosted"
  BY DEF Triggers, Trigger, Lane, IsRelease, EvidenceMode, HostedByJobIf, AuthorityByJobIf

\* The trigger of a run does not change, nor does what depends on it alone.
LEMMA SameTrigger ==
    ASSUME trigger' = trigger
    PROVE  /\ Lane' = Lane /\ IsRelease' = IsRelease /\ GateJob' = GateJob /\ GateIds' = GateIds
           /\ \A j : JobIf(j)' = JobIf(j)
           /\ \A j : StepsOf(j)' = StepsOf(j)
           /\ \A name : Producer(name)' = Producer(name)
  <1>1. IsRelease' = IsRelease /\ EvidenceMode' = EvidenceMode
    BY DEF IsRelease, EvidenceMode
  <1>2. Lane' = Lane
    BY <1>1 DEF Lane
  <1>3. GateJob' = GateJob /\ GateIds' = GateIds
    BY <1>1, <1>2 DEF GateJob, GateIds
  <1>4. HostedByJobIf' = HostedByJobIf /\ AuthorityByJobIf' = AuthorityByJobIf
    BY DEF HostedByJobIf, AuthorityByJobIf
  <1>5. \A j : JobIf(j)' = JobIf(j)
    BY <1>4 DEF JobIf
  <1>6. \A j : StepsOf(j)' = StepsOf(j)
    BY <1>2 DEF StepsOf, Steps
  <1>7. \A name : Producer(name)' = Producer(name)
    BY <1>3 DEF Producer
  <1> QED
    BY <1>1, <1>2, <1>3, <1>5, <1>6, <1>7

\* What a job needs, directly or through other jobs.
LEMMA UpstreamFacts ==
    /\ Upstream["verify"] = {"assemble", "recorded_path", "attest_binding",
                             "attest_llamaguard", "pulse"}
    /\ \A j \in Jobs : Upstream[j] \subseteq Jobs
    /\ \A j \in Jobs : \A n \in Needs[j] : n \in Upstream[j] /\ Upstream[n] \subseteq Upstream[j]
  <1> DEFINE U == [j \in Jobs |->
          CASE j = "pulse" -> {}
            [] j \in {"attest_authority", "attest_llamaguard"} -> {"pulse"}
            [] j = "recorded_path" -> {"attest_llamaguard", "pulse"}
            [] j = "attest_binding" -> {"recorded_path", "attest_llamaguard", "pulse"}
            [] j = "assemble" -> {"attest_binding", "recorded_path", "attest_llamaguard", "pulse"}
            [] j = "verify" -> {"assemble", "recorded_path", "attest_binding",
                                "attest_llamaguard", "pulse"}]
             F(f) == [j \in Jobs |-> Needs[j] \cup UNION {f[n] : n \in Needs[j]}]
  <1>1. \A j \in Jobs : U[j] = Needs[j] \cup UNION {U[n] : n \in Needs[j]}
    <2>1. \A j \in {"pulse", "attest_authority", "attest_llamaguard"} :
              U[j] = Needs[j] \cup UNION {U[n] : n \in Needs[j]}
      BY DEF Jobs, HostedChain, Needs
    <2>2. U["recorded_path"] = Needs["recorded_path"] \cup UNION {U[n] : n \in Needs["recorded_path"]}
      BY DEF Jobs, HostedChain, Needs
    <2>3. U["attest_binding"] = Needs["attest_binding"] \cup UNION {U[n] : n \in Needs["attest_binding"]}
      BY DEF Jobs, HostedChain, Needs
    <2>4. U["assemble"] = Needs["assemble"] \cup UNION {U[n] : n \in Needs["assemble"]}
      BY DEF Jobs, HostedChain, Needs
    <2>5. U["verify"] = Needs["verify"] \cup UNION {U[n] : n \in Needs["verify"]}
      BY DEF Jobs, HostedChain, Needs
    <2> QED
      BY <2>1, <2>2, <2>3, <2>4, <2>5 DEF Jobs, HostedChain
  <1>2. U = F(U)
    <2>1. U \in [Jobs -> SUBSET Jobs]
      BY DEF Jobs, HostedChain
    <2> HIDE DEF U
    <2> QED
      BY <1>1, <2>1
  <1>3. Upstream = CHOOSE f : f = F(f)
    BY DEF Upstream
  <1>4. Upstream = F(Upstream)
    <2> HIDE DEF U, F
    <2> QED
      BY <1>2, <1>3
  <1>5. \A j \in Jobs : Upstream[j] = Needs[j] \cup UNION {Upstream[n] : n \in Needs[j]}
    BY <1>4
  <1>6. \A j \in Jobs : \A n \in Needs[j] : n \in Upstream[j] /\ Upstream[n] \subseteq Upstream[j]
    BY <1>5
  <1> HIDE DEF U, F
  <1>7. Upstream["pulse"] = {}
    BY <1>5 DEF Jobs, HostedChain, Needs
  <1>8. Upstream["attest_llamaguard"] = {"pulse"} /\ Upstream["attest_authority"] = {"pulse"}
    BY <1>5, <1>7 DEF Jobs, HostedChain, Needs
  <1>9. Upstream["recorded_path"] = {"attest_llamaguard", "pulse"}
    BY <1>5, <1>8 DEF Jobs, HostedChain, Needs
  <1>10. Upstream["attest_binding"] = {"recorded_path", "attest_llamaguard", "pulse"}
    BY <1>5, <1>9 DEF Jobs, HostedChain, Needs
  <1>11. Upstream["assemble"] = {"recorded_path", "attest_binding", "attest_llamaguard", "pulse"}
    BY <1>5, <1>9, <1>10 DEF Jobs, HostedChain, Needs
  <1>12. Upstream["verify"] = {"assemble", "recorded_path", "attest_binding",
                               "attest_llamaguard", "pulse"}
    BY <1>5, <1>11 DEF Jobs, HostedChain, Needs
  <1> QED
    BY <1>6, <1>7, <1>8, <1>9, <1>10, <1>11, <1>12 DEF Jobs, HostedChain

-----------------------------------------------------------------------------
(* What any step of a job leaves as it was.                                 *)

\* The first step to do is done, whatever comes of it.
Advance ==
    /\ todo # <<>> /\ todo' = Tail(todo)
    /\ broken' \in BOOLEAN /\ (broken => broken')
    /\ store \subseteq store'
    /\ UNCHANGED <<run, jobs>>

\* The job whose step is next.
LEMMA CurrentJob ==
    ASSUME RunInv, RunnerInv, NeedsInv, todo # <<>>
    PROVE  /\ Head(todo) \in ToDo /\ Head(todo) \in StepNames
           /\ \E j \in Jobs : /\ Running = {j} /\ result[j] = "running"
                              /\ ranIn[j] = attempt /\ JobIf(j)
                              /\ Head(todo) \in StepsOf(j)
  <1>1. Head(todo) \in ToDo /\ Head(todo) \in StepNames
    BY RankedTail DEF RunnerInv, ToDo
  <1>2. PICK j \in Jobs : j \in Running
    BY DEF RunnerInv, Running
  <1>3. Running = {j} /\ result[j] = "running"
    BY <1>2 DEF RunnerInv, Running
  <1>4. Head(todo) \in StepsOf(j)
    BY <1>1, <1>2 DEF RunnerInv
  <1> QED
    BY <1>1, <1>3, <1>4 DEF NeedsInv

\* What is left to do after a step comes later in the order of the steps.
LEMMA AdvanceFrame ==
    ASSUME RunInv, RunnerInv, NeedsInv, Advance
    PROVE  /\ RunInv' /\ RunnerInv' /\ NeedsInv'
           /\ ToDo' = ToDo \ {Head(todo)}
           /\ \A s \in ToDo : s # Head(todo) => Rank(Head(todo)) < Rank(s)
           /\ Running' = Running
  <1>1. trigger' = trigger /\ attempt' = attempt /\ partial' = partial /\ healthy' = healthy
        /\ result' = result /\ ranIn' = ranIn
    BY DEF Advance, run, jobs
  <1>2. /\ todo' \in Seq(StepNames) /\ Len(todo') < Len(todo) /\ Ranked(todo')
        /\ Range(todo') = Range(todo) \ {Head(todo)}
        /\ \A s \in Range(todo) : s # Head(todo) => Rank(Head(todo)) < Rank(s)
    BY RankedTail DEF RunnerInv, Advance
  <1>3. ToDo' = ToDo \ {Head(todo)}
    BY <1>2 DEF ToDo
  <1>4. Running' = Running
    BY <1>1 DEF Running
  <1>5. RunInv'
    BY <1>1 DEF RunInv, Advance
  <1>6. NeedsInv'
    BY <1>1, SameTrigger DEF NeedsInv
  <1>7. Running # {}
    BY CurrentJob DEF Advance
  <1>8. Ranked(todo)'
    BY <1>2 DEF Ranked
  <1>9. Len(todo') \in Nat /\ Len(todo) \in Nat /\ Len(todo) <= 8
    BY <1>2 DEF RunnerInv
  <1>10. \A j \in Running : ToDo' \subseteq StepsOf(j)'
    BY <1>1, <1>3, SameTrigger DEF RunnerInv
  <1>11. "restore" \in ToDo' => "materialize" \in ToDo'
    <2>1. Rank("restore") = 1 /\ Rank("materialize") = 2
      BY DEF Rank
    <2> QED
      BY <1>2, <1>3, <2>1 DEF RunnerInv, ToDo
  <1>12. RunnerInv'
    BY <1>2, <1>4, <1>7, <1>8, <1>9, <1>10, <1>11 DEF RunnerInv
  <1> QED
    BY <1>2, <1>3, <1>4, <1>5, <1>6, <1>12 DEF ToDo

\* A job goes on past its downloads only in the attempt that made the artifacts.
LEMMA AdvanceScope ==
    ASSUME RunInv, RunnerInv, NeedsInv, ScopeInv, Advance,
           ~broken' => \A name \in Inputs(Head(todo)) \cap Scoped :
                            ranIn[Producer(name)] = attempt
    PROVE  ScopeInv'
  <1>1. PICK j \in Jobs : /\ Running = {j} /\ result[j] = "running" /\ ranIn[j] = attempt
                          /\ Head(todo) \in StepsOf(j)
    BY CurrentJob DEF Advance
  <1>2. ToDo' = ToDo \ {Head(todo)} /\ result' = result /\ ranIn' = ranIn
    BY AdvanceFrame DEF Advance, jobs
  <1>3. \A k \in Jobs : \A s : Did(k, s)' =>
            Did(k, s) \/ (k = j /\ s = Head(todo) /\ ~broken')
    BY <1>1, <1>2 DEF Did, Running, Advance
  <1>4. ASSUME ~broken', Head(todo) = "attest_llamaguard" PROVE ranIn["pulse"] = attempt
    BY <1>4 DEF Inputs, Scoped, Producer
  <1>5. ASSUME ~broken', Head(todo) = "restore"
        PROVE  ranIn["pulse"] = attempt /\ ranIn["attest_llamaguard"] = attempt
    BY <1>5 DEF Inputs, Scoped, Producer
  <1>6. ASSUME ~broken', Head(todo) = "assemble" PROVE ranIn["recorded_path"] = attempt
    BY <1>6 DEF Inputs, Scoped, Producer
  <1>7. ASSUME ~broken', Head(todo) = "verify" PROVE ranIn["assemble"] = attempt
    BY <1>7 DEF Inputs, Scoped, Producer
  <1>8. {"attest_llamaguard", "recorded_path", "assemble", "verify"} \subseteq Jobs
    BY DEF Jobs, HostedChain
  <1> QED
    BY <1>1, <1>2, <1>3, <1>4, <1>5, <1>6, <1>7, <1>8 DEF ScopeInv

\* A job goes on past an upload only when the artifact is in the store.
LEMMA AdvanceUpload ==
    ASSUME RunInv, RunnerInv, NeedsInv, UploadInv, Advance,
           \A name \in ArtifactNames :
                ~broken' /\ Head(todo) = UploadStep(name) /\ Running = {Producer(name)}
                => MadeIn(name, attempt)'
    PROVE  UploadInv'
  <1>1. PICK j \in Jobs : Running = {j} /\ result[j] = "running" /\ ranIn[j] = attempt
    BY CurrentJob DEF Advance
  <1>2. ToDo' = ToDo \ {Head(todo)} /\ result' = result /\ ranIn' = ranIn
        /\ attempt' = attempt /\ trigger' = trigger
    BY AdvanceFrame DEF Advance, jobs, run
  <1>3. SUFFICES ASSUME NEW name \in ArtifactNames,
                        UploadStep(name) \in StepsOf(Producer(name))',
                        Did(Producer(name), UploadStep(name))'
                 PROVE  MadeIn(name, ranIn[Producer(name)])'
    BY DEF UploadInv
  <1>4. Producer(name)' = Producer(name) /\ UploadStep(name) \in StepsOf(Producer(name))
    BY <1>2, <1>3, SameTrigger DEF StepsOf
  <1>5. Producer(name) \in Jobs
    BY DEF Producer, GateJob, Jobs, HostedChain, ArtifactNames
  <1>6. CASE Did(Producer(name), UploadStep(name))
    <2>1. MadeIn(name, ranIn[Producer(name)])
      BY <1>4, <1>6 DEF UploadInv
    <2> QED
      BY <2>1, <1>2, <1>4 DEF MadeIn, Named, Advance
  <1>7. CASE ~Did(Producer(name), UploadStep(name))
    <2>1. Producer(name) = j /\ UploadStep(name) = Head(todo) /\ ~broken'
      BY <1>1, <1>2, <1>3, <1>4, <1>5, <1>7 DEF Did, Running, Advance
    <2>2. MadeIn(name, attempt)'
      BY <1>1, <2>1
    <2> QED
      BY <1>1, <1>2, <1>4, <2>1, <2>2 DEF MadeIn, Named
  <1> QED
    BY <1>6, <1>7

\* An artifact that was fine stays so.
LEMMA AdvanceStore ==
    ASSUME RunInv, StoreInv, Advance,
           \A a \in store' : a \notin store =>
                /\ a.name \in ArtifactNames
                /\ a.attempt \in Nat /\ 1 <= a.attempt /\ a.attempt <= ranIn[Producer(a.name)]
                /\ GoodContent(a)
    PROVE  StoreInv'
  <1>1. ranIn' = ranIn /\ trigger' = trigger
    BY DEF Advance, jobs, run
  <1>2. ASSUME NEW a, GoodContent(a) PROVE GoodContent(a)'
    BY <1>1, <1>2 DEF GoodContent, Named, Advance
  <1> QED
    BY <1>1, <1>2, SameTrigger DEF StoreInv

\* A step that writes no file, and is not one of those whose files others rely on
\* unless it fails.
LEMMA AdvanceFiles ==
    ASSUME RunInv, RunnerInv, NeedsInv, FilesInv, Advance, files' = files,
           ~broken' => Head(todo) \notin
                {"build_status", "restore", "materialize", "binding", "final_binding"}
    PROVE  FilesInv'
  <1>1. ToDo' = ToDo \ {Head(todo)} /\ Running' = Running /\ result' = result
        /\ attempt' = attempt /\ trigger' = trigger
    BY AdvanceFrame DEF Advance, jobs, run
  <1>2. Lane' = Lane /\ GateJob' = GateJob /\ GateIds' = GateIds
    BY <1>1, SameTrigger
  <1>3. VerdictInv'
    BY <1>1, <1>2 DEF FilesInv, VerdictInv, Advance
  <1>4. Tier0Inv'
    BY <1>2 DEF FilesInv, Tier0Inv
  <1>5. HostedInv'
    BY <1>1, <1>2 DEF FilesInv, HostedInv, Advance, Named
  <1> QED
    BY <1>3, <1>4, <1>5 DEF FilesInv

-----------------------------------------------------------------------------
(* Steps of jobs.                                                           *)

\* Whose step it is.
LEMMA JobOfStep ==
    ASSUME RunInv, RunnerInv, NeedsInv, todo # <<>>
    PROVE  /\ Head(todo) \in {"run_all", "augment"} => Running = {"pulse"} /\ Lane = "core"
           /\ Head(todo) \in {"record", "build_status"} =>
                Running = {"pulse"} /\ Lane \in {"tier0", "hosted"}
           /\ Head(todo) \in {"manifest", "check_gates", "decision", "binding"} =>
                Running = {"pulse"} /\ Lane \in {"core", "tier0"}
           /\ Head(todo) \in {"upload_llamaguard", "upload_pre_attestation"} =>
                Running = {"pulse"} /\ Lane = "hosted"
           /\ Head(todo) \in {"upload_binding", "upload_report"} => Running = {GateJob}
           /\ Head(todo) \in {"restore", "materialize", "enforce", "final_decision",
                              "final_binding", "upload_recorded_path"} =>
                Running = {"recorded_path"} /\ Lane = "hosted"
           /\ Head(todo) = "attest_llamaguard" => Running = {"attest_llamaguard"}
           /\ Head(todo) = "attest_binding" =>
                Running = {"attest_authority"} \/ Running = {"attest_binding"}
           /\ Head(todo) = "assemble" => Running = {"assemble"}
           /\ Head(todo) = "verify" => Running = {"verify"}
  <1>1. PICK j \in Jobs : Running = {j} /\ JobIf(j) /\ Head(todo) \in StepsOf(j)
    BY CurrentJob
  <1>2. Lane \in {"core", "tier0", "hosted"}
    BY LaneFacts DEF RunInv
  <1>3. CASE j = "pulse"
    BY <1>1, <1>2, <1>3, JobSteps DEF GateJob
  <1>4. CASE j = "recorded_path"
    <2>1. Lane = "hosted"
      BY <1>1, <1>4, LaneFacts DEF RunInv, JobIf, HostedChain
    <2> QED
      BY <1>1, <1>4, <2>1, JobSteps DEF GateJob
  <1>5. CASE j \in {"attest_authority", "attest_binding", "attest_llamaguard", "assemble", "verify"}
    BY <1>1, <1>5, JobSteps
  <1> QED
    BY <1>1, <1>3, <1>4, <1>5 DEF Jobs, HostedChain

\* A step is done by a job that goes on, unless it runs always.
LEMMA StepAdvances ==
    ASSUME RunInv, RunnerInv, NeedsInv,
           NEW s, NEW ok, NEW newFiles, NEW newStore, Step(s, ok, newFiles, newStore),
           store \subseteq newStore
    PROVE  /\ Advance /\ Head(todo) = s /\ s \in ToDo
           /\ files' = newFiles /\ store' = newStore
           /\ ~broken' => ok /\ ~broken
           /\ broken => /\ Running = {"pulse"}
                        /\ s \in {"decision", "binding", "upload_binding", "upload_report"}
  <1>1. Advance /\ Head(todo) = s
    BY DEF Step, Current, Advance, RunInv
  <1>2. s \in ToDo
    BY <1>1, CurrentJob DEF Advance
  <1>3. ASSUME broken
        PROVE  /\ Running = {"pulse"}
               /\ s \in {"decision", "binding", "upload_binding", "upload_report"}
    <2>1. PICK j \in Jobs : Running = {j}
      BY <1>1, CurrentJob DEF Advance
    <2> QED
      BY <1>3, <2>1 DEF Step, Always, Running, Jobs
  <1> QED
    BY <1>1, <1>2, <1>3 DEF Step

\* A step that may change the workspace and hands on nothing.
LEMMA WorkspaceStep ==
    ASSUME IInv, NEW s, NEW ok, NEW newFiles, Step(s, ok, newFiles, store),
           ok /\ ~broken =>
                 /\ s \notin {UploadStep(name) : name \in ArtifactNames}
                 /\ \A name \in Inputs(s) \cap Scoped : ranIn[Producer(name)] = attempt,
           FilesInv'
    PROVE  IInv'
  <1>1. Advance /\ Head(todo) = s /\ store' = store /\ (~broken' => ok /\ ~broken)
    BY StepAdvances DEF IInv
  <1>2. RunInv' /\ RunnerInv' /\ NeedsInv'
    BY <1>1, AdvanceFrame DEF IInv
  <1>3. ScopeInv'
    BY <1>1, AdvanceScope DEF IInv
  <1>4. UploadInv'
    BY <1>1, AdvanceUpload DEF IInv
  <1>5. StoreInv'
    BY <1>1, AdvanceStore DEF IInv
  <1> QED
    BY <1>2, <1>3, <1>4, <1>5 DEF IInv

\* The steps that upload an artifact: only the attestation downloads one itself.
LEMMA UploadInputs ==
    /\ \A name \in {"llamaguard-current-run", "pulse-pre-attestation", "binding",
                     "pulse-report", "recorded-path"} :
          name \in ArtifactNames /\ Inputs(UploadStep(name)) = {}
    /\ "llamaguard-attested" \in ArtifactNames
    /\ Inputs(UploadStep("llamaguard-attested")) = {"llamaguard-current-run"}
  BY DEF ArtifactNames, Inputs, UploadStep

\* A step that hands on one artifact.
LEMMA HandOnStep ==
    ASSUME IInv, NEW name \in ArtifactNames, NEW content, NEW ok,
           Step(UploadStep(name), ok, files, store \cup {Artifact(name, content)}),
           Running = {Producer(name)} => GoodContent(Artifact(name, content)),
           \A n \in Inputs(UploadStep(name)) \cap Scoped : ranIn[Producer(n)] = attempt
    PROVE  IInv'
  <1> DEFINE s == UploadStep(name)
             a == Artifact(name, content)
  <1>1. Advance /\ Head(todo) = s /\ files' = files /\ store' = store \cup {a}
    BY StepAdvances DEF IInv
  <1>2. RunInv' /\ RunnerInv' /\ NeedsInv'
    BY <1>1, AdvanceFrame DEF IInv
  <1>3. ScopeInv'
    BY <1>1, AdvanceScope DEF IInv
  <1>4. Running = {Producer(name)}
    BY <1>1, JobOfStep DEF IInv, UploadStep, ArtifactNames, Producer, Advance
  <1>5. a.name = name /\ a.attempt = attempt /\ attempt \in Nat /\ 1 <= attempt
    BY DEF Artifact, IInv, RunInv
  <1>6. \A n \in ArtifactNames : s = UploadStep(n) => n = name
    BY DEF UploadStep, ArtifactNames
  <1>7. MadeIn(name, attempt)'
    BY <1>1, <1>5 DEF MadeIn, Named, Advance, run
  <1>8. UploadInv'
    BY <1>1, <1>6, <1>7, AdvanceUpload DEF IInv
  <1>9. ranIn[Producer(name)] = attempt
    BY <1>1, <1>4, CurrentJob DEF IInv, Advance
  <1>10. GoodContent(a)
    BY <1>4
  <1> HIDE DEF a, s
  <1>11. StoreInv'
    BY <1>1, <1>5, <1>9, <1>10, AdvanceStore DEF IInv
  <1>12. s \notin {"build_status", "restore", "materialize", "binding", "final_binding"}
    BY DEF UploadStep, ArtifactNames, s
  <1>13. FilesInv'
    BY <1>1, <1>12, AdvanceFiles DEF IInv
  <1> QED
    BY <1>2, <1>3, <1>8, <1>11, <1>13 DEF IInv

\* A step that fails and leaves everything as it was.
LEMMA FailedStep ==
    ASSUME IInv, NEW s, Step(s, FALSE, files, store)
    PROVE  IInv'
  <1>1. Advance /\ files' = files /\ broken'
    BY StepAdvances DEF IInv
  <1>2. FilesInv'
    BY <1>1, AdvanceFiles DEF IInv
  <1> QED
    BY <1>2, WorkspaceStep

\* Steps are passed over once one has failed.
LEMMA SkippedStep ==
    ASSUME IInv, SkipStep
    PROVE  IInv'
  <1>1. Advance /\ files' = files /\ store' = store /\ broken'
    BY DEF SkipStep, Advance, IInv, RunInv
  <1>2. RunInv' /\ RunnerInv' /\ NeedsInv'
    BY <1>1, AdvanceFrame DEF IInv
  <1>3. ScopeInv'
    BY <1>1, AdvanceScope DEF IInv
  <1>4. UploadInv'
    BY <1>1, AdvanceUpload DEF IInv
  <1>5. StoreInv'
    BY <1>1, AdvanceStore DEF IInv
  <1>6. FilesInv'
    BY <1>1, AdvanceFiles DEF IInv
  <1> QED
    BY <1>2, <1>3, <1>4, <1>5, <1>6 DEF IInv

\* Step s of the current job is done, with ok for its success: what the proofs
\* about single steps use of it.
Done(s, ok) ==
    /\ s = Head(todo) /\ s \in ToDo /\ todo # <<>>
    /\ ToDo' = ToDo \ {s}
    /\ Rank(s) >= 2 => ToDo' \cap StatusSteps = {}
    /\ Running' = Running /\ result' = result /\ ranIn' = ranIn
    /\ attempt' = attempt
    /\ Lane' = Lane /\ GateJob' = GateJob /\ GateIds' = GateIds
    /\ ~broken' => ok /\ ~broken
    /\ broken => /\ Running = {"pulse"}
                 /\ s \in {"decision", "binding", "upload_binding", "upload_report"}

LEMMA StepDone ==
    ASSUME IInv, NEW s, NEW ok, NEW newFiles, NEW newStore, Step(s, ok, newFiles, newStore),
           store \subseteq newStore
    PROVE  Done(s, ok) /\ files' = newFiles /\ store' = newStore
  <1>1. /\ Advance /\ Head(todo) = s /\ s \in ToDo
        /\ files' = newFiles /\ store' = newStore
        /\ ~broken' => ok /\ ~broken
        /\ broken => /\ Running = {"pulse"}
                     /\ s \in {"decision", "binding", "upload_binding", "upload_report"}
    BY StepAdvances DEF IInv
  <1>2. /\ ToDo' = ToDo \ {s}
        /\ \A t \in ToDo : t # s => Rank(s) < Rank(t)
        /\ Running' = Running
    BY <1>1, AdvanceFrame DEF IInv
  <1>3. result' = result /\ ranIn' = ranIn /\ attempt' = attempt /\ trigger' = trigger
    BY <1>1 DEF Advance, run, jobs
  <1>4. \A t \in StatusSteps : Rank(t) <= 2
    BY DEF StatusSteps, Rank
  <1>5. Rank(s) >= 2 => ToDo' \cap StatusSteps = {}
    BY <1>2, <1>4, RankType
  <1> QED
    BY <1>1, <1>2, <1>3, <1>5, SameTrigger DEF Advance, Done

\* The files of a workspace, each replaced on its own.
LEMMA WorkspaceFiles ==
    ASSUME IInv
    PROVE  DOMAIN files = {"status", "refusal", "llamaguard", "checkRc", "manifest",
                           "decision", "binding"}
  BY DEF IInv, FilesInv, NoFiles

\* Nothing is made from the status as long as it is still written.
LEMMA StatusWrite ==
    ASSUME IInv, NEW s \in StatusSteps, NEW ok, Done(s, ok),
           files'.checkRc = files.checkRc, files'.decision = files.decision,
           files'.binding = files.binding
    PROVE  VerdictInv'
  <1>1. files.checkRc = None /\ files.decision = None
    BY DEF IInv, FilesInv, VerdictInv, Done
  <1>2. Running = {GateJob} => files.binding = None
    BY DEF IInv, FilesInv, VerdictInv, Done
  <1>3. PICK j \in Jobs : Running = {j}
    BY CurrentJob DEF IInv, Done
  <1>4. ASSUME result[GateJob] = "running", ~broken',
               ToDo' \cap {"binding", "final_binding"} = {}
        PROVE  files.binding # None
    BY <1>4 DEF StatusSteps, IInv, FilesInv, VerdictInv, Done
  <1> QED
    BY <1>1, <1>2, <1>3, <1>4 DEF VerdictInv, Done

\* Steps that write neither the status nor what the verdicts are made of.
LEMMA OtherWrite ==
    ASSUME IInv, NEW s, NEW ok, Done(s, ok),
           s \notin {"build_status", "restore", "materialize", "binding", "final_binding"},
           files'.checkRc = files.checkRc, files'.decision = files.decision,
           files'.binding = files.binding, files'.status = files.status
    PROVE  VerdictInv'
  BY DEF VerdictInv, IInv, FilesInv, Done

\* The same for what the status and the detector evidence have to be.
LEMMA StatusKept ==
    ASSUME IInv, NEW s, NEW ok, Done(s, ok), store' = store,
           s \notin {"build_status", "restore", "materialize"},
           files'.status = files.status, files'.llamaguard = files.llamaguard
    PROVE  Tier0Inv' /\ HostedInv'
  BY DEF Tier0Inv, HostedInv, IInv, FilesInv, Done, Named

\* In the core lane nothing is asked of the status.
LEMMA CoreStatus ==
    ASSUME IInv, NEW s, NEW ok, Done(s, ok), Lane = "core", Running = {"pulse"}
    PROVE  Tier0Inv' /\ HostedInv'
  <1>1. Lane' = "core" /\ result'["recorded_path"] # "running"
    BY DEF Running, Jobs, HostedChain, Done
  <1> QED
    BY <1>1 DEF Tier0Inv, HostedInv

LEMMA RunAllStep ==
    ASSUME IInv, RunAll
    PROVE  IInv'
  <1>1. PICK st, ok : Step("run_all", ok, [files EXCEPT !.status = st], store)
    BY DEF RunAll
  <1>2. Done("run_all", ok) /\ files' = [files EXCEPT !.status = st]
    BY <1>1, StepDone
  <1>3. /\ files'.checkRc = files.checkRc /\ files'.decision = files.decision
        /\ files'.binding = files.binding /\ DOMAIN files' = DOMAIN files
    BY <1>2, WorkspaceFiles
  <1>4. VerdictInv'
    BY <1>2, <1>3, StatusWrite DEF StatusSteps
  <1>5. Running = {"pulse"} /\ Lane = "core"
    BY <1>2, JobOfStep DEF IInv, Done
  <1>6. FilesInv'
    BY <1>2, <1>3, <1>4, <1>5, CoreStatus DEF FilesInv, IInv, NoFiles
  <1> QED
    BY <1>1, <1>6, WorkspaceStep DEF UploadStep, ArtifactNames, Inputs

LEMMA AugmentStep ==
    ASSUME IInv, Augment
    PROVE  IInv'
  <1>1. PICK st, ok : Step("augment", ok, [files EXCEPT !.status = st], store)
    BY DEF Augment
  <1>2. Done("augment", ok) /\ files' = [files EXCEPT !.status = st]
    BY <1>1, StepDone
  <1>3. /\ files'.checkRc = files.checkRc /\ files'.decision = files.decision
        /\ files'.binding = files.binding /\ DOMAIN files' = DOMAIN files
    BY <1>2, WorkspaceFiles
  <1>4. VerdictInv'
    BY <1>2, <1>3, StatusWrite DEF StatusSteps
  <1>5. Running = {"pulse"} /\ Lane = "core"
    BY <1>2, JobOfStep DEF IInv, Done
  <1>6. FilesInv'
    BY <1>2, <1>3, <1>4, <1>5, CoreStatus DEF FilesInv, IInv, NoFiles
  <1> QED
    BY <1>1, <1>6, WorkspaceStep DEF UploadStep, ArtifactNames, Inputs

LEMMA RecordStep ==
    ASSUME IInv, Record
    PROVE  IInv'
  <1>1. PICK ok \in Outcome : Step("record", ok, files, store)
    BY DEF Record
  <1>2. Advance /\ files' = files /\ Head(todo) = "record"
    BY <1>1, StepAdvances DEF IInv
  <1>3. FilesInv'
    BY <1>2, AdvanceFiles DEF IInv
  <1> QED
    BY <1>1, <1>3, WorkspaceStep DEF UploadStep, ArtifactNames, Inputs

LEMMA BuildCandidateStatusStep ==
    ASSUME IInv, BuildCandidateStatus
    PROVE  IInv'
  <1> DEFINE st == [made |-> attempt, blocked |-> FALSE,
                    gates |-> [x \in Gates |-> IF x \in Required THEN "true" ELSE "absent"]]
  <1>1. PICK ok \in Outcome : Step("build_status", ok, [files EXCEPT !.status = st], store)
    BY DEF BuildCandidateStatus
  <1>2. Done("build_status", ok) /\ files' = [files EXCEPT !.status = st]
    BY <1>1, StepDone
  <1>3. /\ files'.checkRc = files.checkRc /\ files'.decision = files.decision
        /\ files'.binding = files.binding /\ DOMAIN files' = DOMAIN files
        /\ files'.status = st
    BY <1>2, WorkspaceFiles
  <1>4. st \in Statuses /\ st.made = attempt
    BY DEF Statuses, GateValues, IInv, RunInv
  <1>5. \A x \in ReleaseRequired : st.gates[x] = "absent"
    BY GateListAssumption
  <1> HIDE DEF st
  <1>6. VerdictInv'
    BY <1>2, <1>3, StatusWrite DEF StatusSteps
  <1>7. Running = {"pulse"}
    BY <1>2, JobOfStep DEF IInv, Done
  <1>8. Tier0Inv'
    BY <1>3, <1>5 DEF Tier0Inv
  <1>9. HostedInv'
    BY <1>2, <1>3, <1>4, <1>7 DEF HostedInv, Running, Jobs, HostedChain, Done
  <1>10. FilesInv'
    BY <1>3, <1>6, <1>8, <1>9 DEF FilesInv, IInv, NoFiles
  <1> QED
    BY <1>1, <1>10, WorkspaceStep DEF UploadStep, ArtifactNames, Inputs

LEMMA ManifestStep ==
    ASSUME IInv, Manifest
    PROVE  IInv'
  <1>1. PICK written \in Outcome :
            Step("manifest", TRUE, [files EXCEPT !.manifest = written], store)
    BY DEF Manifest
  <1>2. Done("manifest", TRUE) /\ store' = store /\ files' = [files EXCEPT !.manifest = written]
    BY <1>1, StepDone
  <1>3. /\ files'.checkRc = files.checkRc /\ files'.decision = files.decision
        /\ files'.binding = files.binding /\ files'.status = files.status
        /\ files'.llamaguard = files.llamaguard /\ DOMAIN files' = DOMAIN files
    BY <1>2, WorkspaceFiles
  <1>4. VerdictInv'
    BY <1>2, <1>3, OtherWrite
  <1>5. Tier0Inv' /\ HostedInv'
    BY <1>2, <1>3, StatusKept
  <1>6. FilesInv'
    BY <1>3, <1>4, <1>5 DEF FilesInv, IInv, NoFiles
  <1> QED
    BY <1>1, <1>6, WorkspaceStep DEF UploadStep, ArtifactNames, Inputs

\* The exit codes of check_gates.py.
LEMMA CheckGatesType ==
    ASSUME NEW gates, NEW ids
    PROVE  CheckGates(gates, ids) \in {0, 1, 2}
  BY DEF CheckGates

LEMMA EnforceGatesStep ==
    ASSUME IInv, EnforceGates
    PROVE  IInv'
  <1> DEFINE rc == CheckGates(files.status.gates, PolicySet)
  <1>1. Step("check_gates", rc = 0, [files EXCEPT !.checkRc = rc], store)
    BY DEF EnforceGates
  <1>2. Done("check_gates", rc = 0) /\ store' = store /\ files' = [files EXCEPT !.checkRc = rc]
    BY <1>1, StepDone
  <1>3. /\ files'.checkRc = rc /\ files'.decision = files.decision
        /\ files'.binding = files.binding /\ files'.status = files.status
        /\ files'.llamaguard = files.llamaguard /\ DOMAIN files' = DOMAIN files
    BY <1>2, WorkspaceFiles
  <1>4. Running = {"pulse"} /\ Lane \in {"core", "tier0"}
    BY <1>2, JobOfStep DEF IInv, Done
  <1>5. Lane # "tier0" => rc = CheckGates(files.status.gates, GateIds)
    BY <1>4, LaneFacts DEF PolicySet, GateIds, IInv, RunInv
  <1>6. rc \in {0, 1, 2}
    BY CheckGatesType
  <1>7. Rank("check_gates") >= 2
    BY DEF Rank
  <1> HIDE DEF rc
  <1>8. VerdictInv'
    BY <1>2, <1>3, <1>4, <1>5, <1>6, <1>7
    DEF VerdictInv, IInv, FilesInv, GateJob, Done
  <1>9. Tier0Inv' /\ HostedInv'
    BY <1>2, <1>3, StatusKept
  <1>10. FilesInv'
    BY <1>3, <1>8, <1>9 DEF FilesInv, IInv, NoFiles
  <1> QED
    BY <1>1, <1>10, WorkspaceStep DEF UploadStep, ArtifactNames, Inputs

\* What the decision tool can label.
LEMMA DecideLevels ==
    ASSUME NEW target \in {"stage", "prod"}
    PROVE  /\ Decide(target).made = attempt
           /\ Decide(target).level \in {"FAIL", "STAGE-PASS", "PROD-PASS"}
           /\ Decide(target).level = "PROD-PASS" =>
                /\ target = "prod" /\ files.status # None
                /\ AllTrue(files.status.gates, ReleaseIds)
  BY DEF Decide, ReleaseLevel, ReleaseIds

\* Outside the hosted lane nothing passes for production.
LEMMA NoProdPass ==
    ASSUME IInv, Running = {"pulse"}, Lane \in {"core", "tier0"}
    PROVE  Decide(IF IsRelease THEN "prod" ELSE "stage").level # "PROD-PASS"
  <1>1. CASE Lane = "core"
    BY <1>1, LaneFacts, DecideLevels DEF IInv, RunInv
  <1>2. CASE Lane = "tier0"
    <2>1. PICK g \in ReleaseRequired : TRUE
      BY GateListAssumption
    <2>2. files.status # None => files.status.gates[g] = "absent"
      BY <1>2 DEF IInv, FilesInv, Tier0Inv
    <2> QED
      BY <2>2, DecideLevels DEF AllTrue, ReleaseIds
  <1> QED
    BY <1>1, <1>2

LEMMA DecisionStep ==
    ASSUME IInv, Decision
    PROVE  IInv'
  <1> DEFINE d == Decide(IF IsRelease THEN "prod" ELSE "stage")
  <1>1. Step("decision", TRUE, [files EXCEPT !.decision = d], store)
    BY DEF Decision
  <1>2. Done("decision", TRUE) /\ store' = store /\ files' = [files EXCEPT !.decision = d]
    BY <1>1, StepDone
  <1>3. Running = {"pulse"} /\ Lane \in {"core", "tier0"}
    BY <1>2, JobOfStep DEF IInv, Done
  <1>4. /\ d.made = attempt /\ d.level \in {"FAIL", "STAGE-PASS", "PROD-PASS"}
        /\ d.level # "PROD-PASS"
    BY <1>3, DecideLevels, NoProdPass
  <1> HIDE DEF d
  <1>5. /\ files'.checkRc = files.checkRc /\ files'.decision = d
        /\ files'.binding = files.binding /\ files'.status = files.status
        /\ files'.llamaguard = files.llamaguard /\ DOMAIN files' = DOMAIN files
    BY <1>2, WorkspaceFiles
  <1>6. Rank("decision") >= 2
    BY DEF Rank
  <1>7. VerdictInv'
    BY <1>2, <1>4, <1>5, <1>6 DEF VerdictInv, IInv, FilesInv, Done
  <1>8. Tier0Inv' /\ HostedInv'
    BY <1>2, <1>5, StatusKept
  <1>9. FilesInv'
    BY <1>5, <1>7, <1>8 DEF FilesInv, IInv, NoFiles
  <1> QED
    BY <1>1, <1>9, WorkspaceStep DEF UploadStep, ArtifactNames, Inputs

\* A binding is a file.
LEMMA BindFacts ==
    ASSUME attempt \in Nat, NEW ids
    PROVE  /\ Bind(ids) # None /\ Bind(ids).made = attempt
           /\ Bind(ids).enforcement = Enforcement(files.status.gates, ids)
  <1>1. Enforcement(files.status.gates, ids) \in
            [result : {"allow", "block"}, exit_code : {0, 1}]
    BY DEF Enforcement
  <1>2. Bind(ids) \in [made : Nat, enforcement : [result : {"allow", "block"}, exit_code : {0, 1}]]
    BY <1>1 DEF Bind
  <1> QED
    BY <1>2, NoneAssumption DEF Bind

\* Once the binding is made, it is of this attempt and of the final status.
LEMMA BoundVerdict ==
    ASSUME IInv, NEW s \in {"binding", "final_binding"}, NEW ok, Done(s, ok),
           files'.checkRc = files.checkRc, files'.decision = files.decision,
           files'.status = files.status,
           files'.binding = Bind(GateIds)
    PROVE  VerdictInv'
  <1>1. Rank(s) >= 2
    BY DEF Rank
  <1>2. /\ Bind(GateIds) # None /\ Bind(GateIds).made = attempt
        /\ Bind(GateIds).enforcement = Enforcement(files.status.gates, GateIds)
    BY BindFacts DEF IInv, RunInv
  <1> QED
    BY <1>1, <1>2 DEF VerdictInv, IInv, FilesInv, Done

LEMMA BindingStep ==
    ASSUME IInv, Binding
    PROVE  IInv'
  <1> DEFINE bindable == files.status # None /\ files.decision # None /\ files.manifest
             ids == IF IsRelease THEN Required \cup ReleaseRequired ELSE CoreRequired
             nf == IF bindable THEN [files EXCEPT !.binding = Bind(ids)] ELSE files
  <1>1. Step("binding", bindable, nf, store)
    BY DEF Binding
  <1>2. ids = GateIds
    BY DEF GateIds, ReleaseIds
  <1> HIDE DEF bindable, ids
  <1>3. Done("binding", bindable) /\ store' = store /\ files' = nf
    BY <1>1, StepDone
  <1>4. CASE bindable
    <2>1. files' = [files EXCEPT !.binding = Bind(GateIds)]
      BY <1>2, <1>3, <1>4
    <2>2. /\ files'.checkRc = files.checkRc /\ files'.decision = files.decision
          /\ files'.binding = Bind(GateIds) /\ files'.status = files.status
          /\ files'.llamaguard = files.llamaguard /\ DOMAIN files' = DOMAIN files
      BY <2>1, WorkspaceFiles
    <2>3. VerdictInv'
      BY <1>3, <2>2, BoundVerdict
    <2>4. Tier0Inv' /\ HostedInv'
      BY <1>3, <2>2, StatusKept
    <2>5. FilesInv'
      BY <2>2, <2>3, <2>4 DEF FilesInv, IInv, NoFiles
    <2> HIDE DEF nf
    <2> QED
      BY <1>1, <2>5, WorkspaceStep DEF UploadStep, ArtifactNames, Inputs
  <1>5. CASE ~bindable
    <2>1. Step("binding", FALSE, files, store)
      BY <1>1, <1>5 DEF Step
    <2> QED
      BY <2>1, FailedStep
  <1> QED
    BY <1>4, <1>5

LEMMA UploadBindingStep ==
    ASSUME IInv, UploadBinding
    PROVE  IInv'
  <1>1. CASE files.binding = None
    <2>1. Step("upload_binding", TRUE, files, store)
      BY <1>1 DEF UploadBinding
    <2>2. Advance /\ Done("upload_binding", TRUE) /\ files' = files
      BY <2>1, StepDone, StepAdvances DEF IInv
    <2>3. broken
      <3>1. Running = {GateJob}
        BY <2>2, JobOfStep DEF IInv, Done
      <3>2. \A t \in ToDo : t # "upload_binding" => Rank("upload_binding") < Rank(t)
        BY <2>2, AdvanceFrame DEF IInv, Done
      <3>3. ToDo \cap {"binding", "final_binding"} = {}
        BY <3>2 DEF Rank
      <3> QED
        BY <1>1, <3>1, <3>3 DEF IInv, FilesInv, VerdictInv, Running, RunInv
    <2>4. FilesInv'
      BY <2>2, AdvanceFiles DEF IInv, Done
    <2> QED
      BY <2>1, <2>3, <2>4, WorkspaceStep
  <1>2. CASE files.binding # None
    <2>1. Step(UploadStep("binding"), TRUE, files, store \cup {Artifact("binding", files.binding)})
      BY <1>2 DEF UploadBinding, UploadStep
    <2>2. ASSUME Running = {Producer("binding")}
          PROVE  GoodContent(Artifact("binding", files.binding))
      BY <1>2, <2>2 DEF IInv, FilesInv, VerdictInv, Producer, GoodContent, Artifact
    <2> QED
      BY <2>1, <2>2, UploadInputs, HandOnStep
  <1> QED
    BY <1>1, <1>2

\* The recorded path goes on with the status and the detector evidence of its
\* own attempt.
LEMMA RestoredFiles ==
    ASSUME IInv, Running = {"recorded_path"}, ~broken, ToDo \cap StatusSteps = {}
    PROVE  /\ files.status \in Statuses /\ files.status.made = attempt
           /\ files.llamaguard.pass
           /\ \E e \in Named("llamaguard-attested") :
                 /\ e.attempt = attempt /\ e.content = files.llamaguard
                 /\ e.content.made = attempt
  <1>1. result["recorded_path"] = "running" /\ "restore" \notin ToDo /\ "materialize" \notin ToDo
    BY DEF Running, StatusSteps
  <1>2. \A e \in Named("llamaguard-attested") : e.content.made = e.attempt
    BY DEF IInv, StoreInv, GoodContent, Named
  <1> QED
    BY <1>1, <1>2 DEF IInv, FilesInv, HostedInv

LEMMA UploadReportStep ==
    ASSUME IInv, UploadReport
    PROVE  IInv'
  <1> DEFINE c == [status |-> files.status, decision |-> files.decision]
  <1>1. Step(UploadStep("pulse-report"), TRUE, files, store \cup {Artifact("pulse-report", c)})
    BY DEF UploadReport, UploadStep
  <1>2. Done("upload_report", TRUE)
    BY <1>1, StepDone DEF UploadStep
  <1>3. ASSUME files.decision # None
        PROVE  /\ files.decision.made = attempt
               /\ files.decision.level = "PROD-PASS" =>
                    /\ files.status.made = attempt
                    /\ AllTrue(files.status.gates, ReleaseIds)
                    /\ \E e \in Named("llamaguard-attested") :
                          e.attempt = attempt /\ e.content.made = attempt /\ e.content.pass
    <2>1. /\ files.decision.made = attempt
          /\ ToDo \cap StatusSteps = {}
          /\ files.decision.level = "PROD-PASS" =>
                Running = {"recorded_path"} /\ AllTrue(files.status.gates, ReleaseIds)
      BY <1>3 DEF IInv, FilesInv, VerdictInv
    <2>2. Running = {"recorded_path"} => ~broken
      BY <1>2 DEF Done
    <2> QED
      BY <2>1, <2>2, RestoredFiles
  <1>4. GoodContent(Artifact("pulse-report", c))
    BY <1>3 DEF GoodContent, Artifact
  <1> QED
    BY <1>1, <1>4, UploadInputs, HandOnStep

LEMMA UploadLlamaguardStep ==
    ASSUME IInv, UploadLlamaguard
    PROVE  IInv'
  <1>1. PICK pass \in Outcome :
            Step(UploadStep("llamaguard-current-run"), TRUE, files,
                 store \cup {Artifact("llamaguard-current-run", [made |-> attempt, pass |-> pass])})
    BY DEF UploadLlamaguard, UploadStep
  <1>2. GoodContent(Artifact("llamaguard-current-run", [made |-> attempt, pass |-> pass]))
    BY DEF GoodContent, Artifact
  <1> QED
    BY <1>1, <1>2, UploadInputs, HandOnStep

LEMMA UploadPreAttestationStep ==
    ASSUME IInv, UploadPreAttestation
    PROVE  IInv'
  <1>1. PICK pass \in Outcome :
            Step(UploadStep("pulse-pre-attestation"), TRUE, files,
                 store \cup {Artifact("pulse-pre-attestation",
                                      [status |-> files.status, refusal |-> pass])})
    BY DEF UploadPreAttestation, UploadStep
  <1>2. Done("upload_pre_attestation", TRUE)
    BY <1>1, StepDone DEF UploadStep
  <1>3. Running = {"pulse"} /\ Lane = "hosted" /\ ~broken
    BY <1>2, JobOfStep DEF IInv, Done
  <1>4. "build_status" \notin ToDo
    BY <1>2 DEF Done, Rank, StatusSteps
  <1>5. files.status \in Statuses /\ files.status.made = attempt
    BY <1>3, <1>4 DEF IInv, FilesInv, HostedInv, Running
  <1>6. GoodContent(Artifact("pulse-pre-attestation", [status |-> files.status, refusal |-> pass]))
    BY <1>5 DEF GoodContent, Artifact
  <1> QED
    BY <1>1, <1>6, UploadInputs, HandOnStep

\* An attempt-scoped artifact is of this attempt, and so is the job it is from.
LEMMA ScopedDownload ==
    ASSUME IInv, NEW name \in Scoped, NEW a \in Downloads(name)
    PROVE  /\ a \in store /\ a.name = name /\ a.attempt = attempt /\ GoodContent(a)
           /\ ranIn[Producer(name)] = attempt
  <1>1. a \in store /\ a.name = name /\ a.attempt = attempt
    BY DEF Downloads, Named
  <1>2. GoodContent(a) /\ attempt <= ranIn[Producer(name)]
    BY <1>1 DEF IInv, StoreInv
  <1>3. Producer(name) \in Jobs
    BY DEF Producer, Scoped, Jobs, HostedChain
  <1>4. ranIn[Producer(name)] \in 0..attempt /\ attempt \in Nat
    BY <1>3 DEF IInv, RunInv
  <1> QED
    BY <1>1, <1>2, <1>4

LEMMA AttestLlamaguardStep ==
    ASSUME IInv, AttestLlamaguard
    PROVE  IInv'
  <1>1. PICK a \in Downloads("llamaguard-current-run") :
            Step(UploadStep("llamaguard-attested"), TRUE, files,
                 store \cup {Artifact("llamaguard-attested", a.content)})
    BY DEF AttestLlamaguard, UploadStep
  <1>2. /\ a.content.made = attempt
        /\ ranIn[Producer("llamaguard-current-run")] = attempt
    BY ScopedDownload DEF Scoped, GoodContent
  <1>3. GoodContent(Artifact("llamaguard-attested", a.content))
    BY <1>2 DEF GoodContent, Artifact
  <1> QED
    BY <1>1, <1>2, <1>3, UploadInputs, HandOnStep

LEMMA AttestBindingStep ==
    ASSUME IInv, AttestBinding
    PROVE  IInv'
  <1>1. PICK a \in Downloads("binding") :
            Step("attest_binding", TRUE, [files EXCEPT !.binding = a.content], store)
    BY DEF AttestBinding
  <1>2. /\ Done("attest_binding", TRUE) /\ store' = store
        /\ files' = [files EXCEPT !.binding = a.content]
    BY <1>1, StepDone
  <1>3. /\ files'.checkRc = files.checkRc /\ files'.decision = files.decision
        /\ files'.status = files.status
        /\ files'.llamaguard = files.llamaguard /\ DOMAIN files' = DOMAIN files
    BY <1>2, WorkspaceFiles
  <1>4. Running = {"attest_authority"} \/ Running = {"attest_binding"}
    BY <1>2, JobOfStep DEF IInv, Done
  <1>5. GateJob \in {"pulse", "recorded_path"}
    BY DEF GateJob
  <1>6. ~(Running \subseteq {GateJob}) /\ result[GateJob] # "running"
    BY <1>4, <1>5 DEF Running, Jobs, HostedChain
  <1>7. VerdictInv'
    BY <1>2, <1>3, <1>6 DEF VerdictInv, IInv, FilesInv, Done
  <1>8. Tier0Inv' /\ HostedInv'
    BY <1>2, <1>3, StatusKept
  <1>9. FilesInv'
    BY <1>3, <1>7, <1>8 DEF FilesInv, IInv, NoFiles
  <1>10. Inputs("attest_binding") \cap Scoped = {}
    BY DEF Inputs, Scoped
  <1> QED
    BY <1>1, <1>9, <1>10, WorkspaceStep DEF UploadStep, ArtifactNames

LEMMA RestoreStep ==
    ASSUME IInv, Restore
    PROVE  IInv'
  <1>1. PICK p \in Downloads("pulse-pre-attestation"), l \in Downloads("llamaguard-attested") :
            Step("restore", TRUE,
                 [files EXCEPT !.status = p.content.status, !.refusal = p.content.refusal,
                               !.llamaguard = l.content], store)
    BY DEF Restore
  <1>2. /\ Done("restore", TRUE) /\ store' = store
        /\ files' = [files EXCEPT !.status = p.content.status, !.refusal = p.content.refusal,
                                  !.llamaguard = l.content]
    BY <1>1, StepDone
  <1>3. /\ files'.checkRc = files.checkRc /\ files'.decision = files.decision
        /\ files'.binding = files.binding /\ files'.status = p.content.status
        /\ files'.llamaguard = l.content /\ DOMAIN files' = DOMAIN files
    BY <1>2, WorkspaceFiles
  <1>4. /\ p.content.status \in Statuses /\ p.content.status.made = attempt
        /\ ranIn["pulse"] = attempt
    BY ScopedDownload DEF Scoped, GoodContent, Producer
  <1>5. /\ l \in Named("llamaguard-attested") /\ l.attempt = attempt
        /\ ranIn["attest_llamaguard"] = attempt
    BY ScopedDownload DEF Scoped, Producer, Named
  <1>6. Running = {"recorded_path"} /\ Lane = "hosted"
    BY <1>2, JobOfStep DEF IInv, Done
  <1>7. VerdictInv'
    BY <1>2, <1>3, StatusWrite DEF StatusSteps
  <1>8. Tier0Inv'
    BY <1>2, <1>6 DEF Tier0Inv, Done
  <1>9. "materialize" \in ToDo'
    BY <1>2 DEF Done, IInv, RunnerInv
  <1>10. HostedInv'
    BY <1>2, <1>3, <1>4, <1>5, <1>6, <1>9 DEF HostedInv, Done, Running, Jobs, Named
  <1>11. FilesInv'
    BY <1>3, <1>7, <1>8, <1>10 DEF FilesInv, IInv, NoFiles
  <1>12. \A name \in Inputs("restore") \cap Scoped : ranIn[Producer(name)] = attempt
    BY <1>4, <1>5 DEF Inputs, Scoped, Producer
  <1> QED
    BY <1>1, <1>11, <1>12, WorkspaceStep DEF UploadStep, ArtifactNames

LEMMA MaterializeStep ==
    ASSUME IInv, Materialize
    PROVE  IInv'
  <1> DEFINE g == [x \in Gates |-> IF x \in ReleaseRequired THEN "true" ELSE files.status.gates[x]]
             st == [files.status EXCEPT !.gates = g]
             nf == IF Admitted THEN [files EXCEPT !.status = st] ELSE files
  <1>1. Step("materialize", Admitted, nf, store)
    BY DEF Materialize
  <1>2. Done("materialize", Admitted) /\ store' = store /\ files' = nf
    BY <1>1, StepDone
  <1>3. Running = {"recorded_path"} /\ Lane = "hosted" /\ ~broken
    BY <1>2, JobOfStep DEF IInv, Done
  <1>4. result["recorded_path"] = "running" /\ "restore" \notin ToDo
    <2>1. Rank("materialize") >= 2
      BY DEF Rank
    <2> QED
      BY <1>2, <1>3, <2>1 DEF Done, Running, StatusSteps
  <1>5. files.status \in Statuses /\ files.status.made = attempt
    BY <1>3, <1>4 DEF IInv, FilesInv, HostedInv
  <1>6. st \in Statuses /\ st.made = attempt
    BY <1>5 DEF Statuses, GateValues
  <1>7. \E e \in Named("llamaguard-attested") :
            e.attempt = attempt /\ e.content = files.llamaguard
    BY <1>3, <1>4 DEF IInv, FilesInv, HostedInv
  <1> HIDE DEF st
  <1>8. /\ files'.checkRc = files.checkRc /\ files'.decision = files.decision
        /\ files'.binding = files.binding /\ files'.llamaguard = files.llamaguard
        /\ DOMAIN files' = DOMAIN files
        /\ Admitted => files'.status = st
    BY <1>2, WorkspaceFiles
  <1>9. VerdictInv'
    BY <1>2, <1>8, StatusWrite DEF StatusSteps
  <1>10. Tier0Inv'
    BY <1>2, <1>3 DEF Tier0Inv, Done
  <1>11. ~broken' => Admitted /\ files.llamaguard.pass
    BY <1>2 DEF Done, Admitted
  <1>12. result'["pulse"] # "running"
    BY <1>2, <1>3 DEF Running, Done, Jobs
  <1> HIDE DEF nf
  <1>13. HostedInv'
    BY <1>2, <1>6, <1>7, <1>8, <1>11, <1>12 DEF HostedInv, Done, Named
  <1>14. FilesInv'
    BY <1>8, <1>9, <1>10, <1>13 DEF FilesInv, IInv, NoFiles
  <1> QED
    BY <1>1, <1>14, WorkspaceStep DEF UploadStep, ArtifactNames, Inputs

LEMMA EnforceReleaseGatesStep ==
    ASSUME IInv, EnforceReleaseGates
    PROVE  IInv'
  <1> DEFINE rc == CheckGates(files.status.gates, Required \cup ReleaseRequired)
             ok == rc = 0 /\ ~files.status.blocked
  <1>1. Step("enforce", ok, [files EXCEPT !.checkRc = rc], store)
    BY DEF EnforceReleaseGates
  <1> HIDE DEF ok
  <1>2. Done("enforce", ok) /\ store' = store /\ files' = [files EXCEPT !.checkRc = rc]
    BY <1>1, StepDone
  <1>3. /\ files'.checkRc = rc /\ files'.decision = files.decision
        /\ files'.binding = files.binding /\ files'.status = files.status
        /\ files'.llamaguard = files.llamaguard /\ DOMAIN files' = DOMAIN files
    BY <1>2, WorkspaceFiles
  <1>4. Running = {"recorded_path"} /\ Lane = "hosted"
    BY <1>2, JobOfStep DEF IInv, Done
  <1>5. rc = CheckGates(files.status.gates, GateIds)
    BY <1>4, LaneFacts DEF ReleaseIds, GateIds, IInv, RunInv
  <1>6. rc \in {0, 1, 2}
    BY CheckGatesType
  <1>7. Rank("enforce") >= 2
    BY DEF Rank
  <1> HIDE DEF rc
  <1>8. VerdictInv'
    BY <1>2, <1>3, <1>4, <1>5, <1>6, <1>7
    DEF VerdictInv, IInv, FilesInv, GateJob, Done
  <1>9. Tier0Inv' /\ HostedInv'
    BY <1>2, <1>3, StatusKept
  <1>10. FilesInv'
    BY <1>3, <1>8, <1>9 DEF FilesInv, IInv, NoFiles
  <1> QED
    BY <1>1, <1>10, WorkspaceStep DEF UploadStep, ArtifactNames, Inputs

LEMMA FinalDecisionStep ==
    ASSUME IInv, FinalDecision
    PROVE  IInv'
  <1> DEFINE d == Decide("prod")
  <1>1. Step("final_decision", d.level # "FAIL", [files EXCEPT !.decision = d], store)
    BY DEF FinalDecision
  <1>2. /\ d.made = attempt /\ d.level \in {"FAIL", "STAGE-PASS", "PROD-PASS"}
        /\ d.level = "PROD-PASS" => AllTrue(files.status.gates, ReleaseIds)
    BY DecideLevels
  <1> HIDE DEF d
  <1>3. /\ Done("final_decision", d.level # "FAIL") /\ store' = store
        /\ files' = [files EXCEPT !.decision = d]
    BY <1>1, StepDone
  <1>4. Running = {"recorded_path"} /\ Lane = "hosted"
    BY <1>3, JobOfStep DEF IInv, Done
  <1>5. /\ files'.checkRc = files.checkRc /\ files'.decision = d
        /\ files'.binding = files.binding /\ files'.status = files.status
        /\ files'.llamaguard = files.llamaguard /\ DOMAIN files' = DOMAIN files
    BY <1>3, WorkspaceFiles
  <1>6. Rank("final_decision") >= 2
    BY DEF Rank
  <1>7. VerdictInv'
    BY <1>2, <1>3, <1>4, <1>5, <1>6 DEF VerdictInv, IInv, FilesInv, Done
  <1>8. Tier0Inv' /\ HostedInv'
    BY <1>3, <1>5, StatusKept
  <1>9. FilesInv'
    BY <1>5, <1>7, <1>8 DEF FilesInv, IInv, NoFiles
  <1> QED
    BY <1>1, <1>9, WorkspaceStep DEF UploadStep, ArtifactNames, Inputs

LEMMA FinalBindingStep ==
    ASSUME IInv, FinalBinding
    PROVE  IInv'
  <1> DEFINE b == Bind(Required \cup ReleaseRequired)
  <1>1. Step("final_binding", TRUE, [files EXCEPT !.binding = b], store)
    BY DEF FinalBinding
  <1>2. /\ Done("final_binding", TRUE) /\ store' = store
        /\ files' = [files EXCEPT !.binding = b]
    BY <1>1, StepDone
  <1>3. Lane = "hosted"
    BY <1>2, JobOfStep DEF IInv, Done
  <1>4. b = Bind(GateIds)
    BY <1>3, LaneFacts DEF GateIds, ReleaseIds, IInv, RunInv
  <1> HIDE DEF b
  <1>5. /\ files'.checkRc = files.checkRc /\ files'.decision = files.decision
        /\ files'.binding = b /\ files'.status = files.status
        /\ files'.llamaguard = files.llamaguard /\ DOMAIN files' = DOMAIN files
    BY <1>2, WorkspaceFiles
  <1>6. VerdictInv'
    BY <1>2, <1>4, <1>5, BoundVerdict
  <1>7. Tier0Inv' /\ HostedInv'
    BY <1>2, <1>5, StatusKept
  <1>8. FilesInv'
    BY <1>5, <1>6, <1>7 DEF FilesInv, IInv, NoFiles
  <1> QED
    BY <1>1, <1>8, WorkspaceStep DEF UploadStep, ArtifactNames, Inputs

LEMMA UploadRecordedPathStep ==
    ASSUME IInv, UploadRecordedPath
    PROVE  IInv'
  <1>1. Step(UploadStep("recorded-path"), TRUE, files,
             store \cup {Artifact("recorded-path", [status |-> files.status])})
    BY DEF UploadRecordedPath, UploadStep
  <1>2. Done("upload_recorded_path", TRUE)
    BY <1>1, StepDone DEF UploadStep
  <1>3. Running = {"recorded_path"} /\ ~broken
    BY <1>2, JobOfStep DEF IInv, Done
  <1>4. "restore" \notin ToDo
    BY <1>2 DEF Done, Rank, StatusSteps
  <1>5. files.status.made = attempt
    BY <1>3, <1>4 DEF IInv, FilesInv, HostedInv, Running
  <1>6. GoodContent(Artifact("recorded-path", [status |-> files.status]))
    BY <1>5 DEF GoodContent, Artifact
  <1> QED
    BY <1>1, <1>6, UploadInputs, HandOnStep

\* When the newest artifact of a name is taken, the package gets the one of its
\* own attempt.
LEMMA NewestDownload ==
    ASSUME IInv, NewestFirst, NEW name \in {"binding", "pulse-report"},
           result["recorded_path"] = "success", Lane = "hosted",
           ranIn["recorded_path"] = attempt, NEW a \in Downloads(name)
    PROVE  a.attempt = attempt
  <1>1. Producer(name) = "recorded_path"
    BY DEF Producer, GateJob
  <1>2. MadeIn(name, attempt)
    BY <1>1, JobSteps DEF IInv, UploadInv, UploadStep, ArtifactNames, Did
  <1>3. PICK b \in Named(name) : b.attempt = attempt
    BY <1>2 DEF MadeIn
  <1>4. a \in Named(name) /\ b.attempt <= a.attempt
    BY <1>3 DEF Downloads, Scoped
  <1>5. a.attempt \in Nat /\ a.attempt <= attempt
    BY <1>1, <1>4 DEF IInv, StoreInv, Named
  <1> QED
    BY <1>3, <1>4, <1>5 DEF IInv, RunInv

LEMMA AssembleStep ==
    ASSUME IInv, Assemble
    PROVE  IInv'
  <1>1. PICK r \in Downloads("pulse-report"), p \in Downloads("recorded-path"),
             b \in Downloads("binding") :
            Step("assemble", r.content.decision # None, files,
                 IF r.content.decision = None THEN store
                 ELSE store \cup {Artifact("package",
                        [attempt |-> attempt, status |-> p.content.status,
                         decision |-> r.content.decision, binding |-> b.content])})
    BY DEF Assemble
  <1>2. CASE r.content.decision = None
    <2>1. Step("assemble", FALSE, files, store)
      BY <1>1, <1>2 DEF Step
    <2> QED
      BY <2>1, FailedStep
  <1>3. CASE r.content.decision # None
    <2> DEFINE c == [attempt |-> attempt, status |-> p.content.status,
                     decision |-> r.content.decision, binding |-> b.content]
    <2>1. Step(UploadStep("package"), TRUE, files, store \cup {Artifact("package", c)})
      BY <1>1, <1>3 DEF Step, UploadStep
    <2>2. Done("assemble", TRUE)
      BY <2>1, StepDone DEF UploadStep
    <2>3. Running = {"assemble"}
      BY <2>2, JobOfStep DEF IInv, Done
    <2>4. result["assemble"] = "running" /\ JobIf("assemble") /\ result["recorded_path"] = "success"
      BY <2>3 DEF Running, IInv, NeedsInv, Needs, Jobs, HostedChain
    <2>5. Lane = "hosted"
      BY <2>4, LaneFacts DEF IInv, RunInv, JobIf, HostedChain
    <2>6. p.content.status.made = attempt /\ ranIn["recorded_path"] = attempt
      BY ScopedDownload DEF Scoped, GoodContent, Producer
    <2>7. NewestFirst => r.attempt = attempt /\ b.attempt = attempt
      BY <2>4, <2>5, <2>6, NewestDownload
    <2>8. r \in Named("pulse-report") /\ b \in Named("binding")
      BY DEF Downloads, Scoped
    <2>9. r.content.decision.made = r.attempt /\ b.content.made = b.attempt
      BY <1>3, <2>8 DEF IInv, StoreInv, GoodContent, Named
    <2>10. GoodContent(Artifact("package", c))
      BY <2>6, <2>7, <2>9 DEF GoodContent, Artifact
    <2>11. \A n \in Inputs(UploadStep("package")) \cap Scoped : ranIn[Producer(n)] = attempt
      BY <2>6 DEF Inputs, UploadStep, Scoped, Producer
    <2> QED
      BY <2>1, <2>10, <2>11, HandOnStep DEF ArtifactNames
  <1> QED
    BY <1>2, <1>3

LEMMA VerifyStep ==
    ASSUME IInv, Verify
    PROVE  IInv'
  <1>1. PICK p \in Downloads("package") :
            Step("verify", MetadataOfThisAttempt(p.content) /\ StatusOfThisAttempt(p.content),
                 files, store)
    BY DEF Verify
  <1> DEFINE ok == MetadataOfThisAttempt(p.content) /\ StatusOfThisAttempt(p.content)
  <1>2. Step("verify", ok, files, store)
    BY <1>1
  <1> HIDE DEF ok
  <1>3. Advance /\ files' = files /\ Head(todo) = "verify"
    BY <1>2, StepAdvances DEF IInv
  <1>4. FilesInv'
    BY <1>3, AdvanceFiles DEF IInv
  <1>5. ranIn[Producer("package")] = attempt
    BY ScopedDownload DEF Scoped
  <1>6. \A n \in Inputs("verify") \cap Scoped : ranIn[Producer(n)] = attempt
    BY <1>5 DEF Inputs
  <1> QED
    BY <1>2, <1>4, <1>6, WorkspaceStep DEF UploadStep, ArtifactNames

-----------------------------------------------------------------------------
(* Jobs and attempts.                                                       *)

LEMMA InitInv == Init => IInv
  <1> SUFFICES ASSUME Init PROVE IInv
    OBVIOUS
  <1>1. Running = {} /\ todo = <<>> /\ ToDo = {}
    <2>1. Running = {} /\ todo = <<>>
      BY DEF Init, Running
    <2>2. Range(todo) = {}
      BY <2>1, ShortLists
    <2> QED
      BY <2>1, <2>2 DEF ToDo
  <1>2. RunInv
    <2>1. attempt = 1 /\ 1 \in 1..MaxAttempts
      BY AttemptAssumption DEF Init
    <2>2. /\ result \in [Jobs -> {"waiting", "running", "success", "failure", "skipped"}]
          /\ ranIn \in [Jobs -> 0..1]
      BY DEF Init
    <2> QED
      BY <2>1, <2>2 DEF Init, RunInv
  <1>3. RunnerInv
    BY <1>1 DEF Init, RunnerInv, Ranked
  <1>4. NeedsInv
    BY DEF Init, NeedsInv
  <1>5. \A j \in Jobs : \A s : ~Did(j, s)
    BY DEF Init, Did
  <1>6. ScopeInv
    BY <1>5 DEF ScopeInv, Jobs, HostedChain
  <1>7. UploadInv
    <2>1. \A name \in ArtifactNames : Producer(name) \in Jobs
      BY DEF Producer, GateJob, Jobs, HostedChain, ArtifactNames
    <2> QED
      BY <1>5, <2>1 DEF UploadInv
  <1>8. StoreInv
    BY DEF Init, StoreInv
  <1>9. FilesInv
    <2>1. GateJob \in Jobs
      BY DEF GateJob, Jobs, HostedChain
    <2> QED
      BY <1>1, <2>1 DEF Init, FilesInv, NoFiles, VerdictInv, Tier0Inv, HostedInv, Jobs, HostedChain
  <1> QED
    BY <1>2, <1>3, <1>4, <1>6, <1>7, <1>8, <1>9 DEF IInv

\* What is true of the artifacts does not depend on the jobs that run.
LEMMA StoreKept ==
    ASSUME RunInv, StoreInv, store' = store, trigger' = trigger,
           \A j \in Jobs : ranIn'[j] \in Nat /\ ranIn[j] <= ranIn'[j]
    PROVE  StoreInv'
  <1>1. ASSUME NEW a \in store PROVE Producer(a.name)' = Producer(a.name)
    BY SameTrigger
  <1>2. ASSUME NEW a \in store PROVE Producer(a.name) \in Jobs
    BY <1>2 DEF StoreInv, Producer, GateJob, Jobs, HostedChain, ArtifactNames
  <1>3. ASSUME NEW a \in store PROVE GoodContent(a)'
    BY <1>3 DEF StoreInv, GoodContent, Named
  <1>4. \A j \in Jobs : ranIn[j] \in Nat
    BY DEF RunInv
  <1> QED
    BY <1>1, <1>2, <1>3, <1>4 DEF StoreInv

\* A job starts when it is meant to and those it needs have succeeded.
LEMMA StartedJob ==
    ASSUME IInv, NEW j \in Jobs, StartJob(j)
    PROVE  /\ JobIf(j)
           /\ \A n \in Needs[j] : result[n] = "success" /\ n # j
           /\ \A k \in Jobs : result[k] # "running"
           /\ \A k \in Jobs : result[k] = "success" => j \notin Needs[k]
  <1>1. \A n \in Needs[j] : result[n] = "success"
    BY DEF StartJob, NeedMet
  <1>2. \A n \in Jobs : \A m \in Needs[n] :
            n \in Jobs /\ result[n] = "success" => result[m] = "success"
    BY DEF IInv, NeedsInv
  <1>3. j # "pulse" => result["pulse"] = "success"
    <2>1. result["attest_llamaguard"] = "success" => result["pulse"] = "success"
      BY <1>2 DEF Needs, Jobs, HostedChain
    <2>2. result["recorded_path"] = "success" => result["attest_llamaguard"] = "success"
      BY <1>2 DEF Needs, Jobs, HostedChain
    <2>3. result["assemble"] = "success" => result["recorded_path"] = "success"
      BY <1>2 DEF Needs, Jobs, HostedChain
    <2>4. j # "pulse" => \E n \in Needs[j] :
              n \in {"pulse", "attest_llamaguard", "recorded_path", "assemble"}
      BY DEF Needs, Jobs, HostedChain
    <2> QED
      BY <1>1, <2>1, <2>2, <2>3, <2>4
  <1>4. JobIf(j)
    <2>1. CASE j = "pulse"
      BY <2>1 DEF JobIf, HostedChain
    <2>2. CASE j # "pulse"
      <3>1. Concluded("pulse") /\ result[j] = "waiting" /\ j \notin Skippable
        BY <1>3, <2>2 DEF StartJob, Concluded
      <3> QED
        BY <3>1 DEF Skippable
    <2> QED
      BY <2>1, <2>2
  <1>5. \A k \in Jobs : result[k] # "running"
    BY DEF StartJob, Running
  <1> QED
    BY <1>1, <1>2, <1>4, <1>5 DEF StartJob

LEMMA StartJobStep ==
    ASSUME IInv, NEW j \in Jobs, StartJob(j)
    PROVE  IInv'
  <1>1. /\ trigger' = trigger /\ attempt' = attempt /\ partial' = partial /\ healthy' = healthy
        /\ result' = [result EXCEPT ![j] = "running"] /\ ranIn' = [ranIn EXCEPT ![j] = attempt]
        /\ todo' = Steps(j) /\ broken' = broken /\ files' = files /\ store' = store
    BY DEF StartJob, run
  <1>2. /\ result' \in [Jobs -> {"waiting", "running", "success", "failure", "skipped"}]
        /\ ranIn' \in [Jobs -> 0..attempt]
        /\ result'[j] = "running" /\ ranIn'[j] = attempt
        /\ \A k \in Jobs : k # j => result'[k] = result[k] /\ ranIn'[k] = ranIn[k]
        /\ attempt \in Nat /\ 1 <= attempt
    BY <1>1 DEF IInv, RunInv
  <1>3. Running' = {j} /\ ToDo' = StepsOf(j) /\ broken = FALSE /\ files = NoFiles
    <2>1. Running = {}
      BY DEF StartJob
    <2>2. broken = FALSE /\ files = NoFiles
      BY <2>1 DEF IInv, RunnerInv
    <2>3. \A k \in Jobs : k # j => result'[k] # "running"
      BY <1>2, StartedJob
    <2>4. Running' = {j}
      BY <1>2, <2>3 DEF Running
    <2> QED
      BY <1>1, <2>2, <2>4 DEF ToDo, StepsOf
  <1>4. RunInv'
    BY <1>1, <1>2 DEF IInv, RunInv
  <1>5. RunnerInv'
    <2>1. todo' \in Seq(StepNames) /\ Len(todo') <= 8 /\ Ranked(todo)'
      BY <1>1, StepsRanked DEF Ranked
    <2>2. "restore" \in StepsOf(j) => "materialize" \in StepsOf(j)
      BY LaneFacts, JobSteps DEF IInv, RunInv, Jobs, HostedChain
    <2> QED
      BY <1>1, <1>3, <2>1, <2>2, SameTrigger DEF RunnerInv
  <1>6. NeedsInv'
    <2> SUFFICES ASSUME NEW k \in Jobs
                 PROVE  /\ result'[k] \in {"running", "success", "failure"} =>
                            JobIf(k)' /\ ranIn'[k] >= 1 /\ (partial' \/ ranIn'[k] = attempt')
                        /\ result'[k] = "running" => ranIn'[k] = attempt'
                        /\ result'[k] \in {"running", "success"} => \A n \in Needs[k] :
                              result'[n] = "success" /\ ranIn'[n] <= ranIn'[k]
      BY DEF NeedsInv
    <2>1. JobIf(k)' = JobIf(k)
      BY <1>1, SameTrigger
    <2>2. \A n \in Needs[k] : n \in Jobs
      BY DEF Needs, Jobs, HostedChain
    <2>3. CASE k = j
      BY <1>1, <1>2, <2>1, <2>2, <2>3, StartedJob DEF IInv, RunInv
    <2>4. CASE k # j
      BY <1>1, <1>2, <2>1, <2>2, <2>4, StartedJob DEF IInv, NeedsInv
    <2> QED
      BY <2>3, <2>4
  <1>7. \A k \in Jobs : \A s : Did(k, s)' => (k # j /\ Did(k, s)) \/ (k = j /\ s \notin StepsOf(j))
    BY <1>2, <1>3, StartedJob DEF Did
  <1>8. ScopeInv'
    <2>1. \A k \in Jobs : \A s : Did(k, s)' /\ k # j => Did(k, s) /\ j \notin Needs[k]
      BY <1>2, <1>7, StartedJob DEF Did
    <2>2. \A k \in Jobs : result[k] = "success" => \A n \in Needs[k] : result[n] = "success"
      BY DEF IInv, NeedsInv
    <2>3. result[j] = "waiting"
      BY DEF StartJob
    <2>4. /\ ~Did("attest_llamaguard", "attest_llamaguard")' \/ j # "attest_llamaguard"
          /\ ~Did("recorded_path", "restore")' \/ j # "recorded_path"
          /\ ~Did("assemble", "assemble")' \/ j # "assemble"
          /\ ~Did("verify", "verify")' \/ j # "verify"
      BY <1>7, JobSteps DEF Jobs, HostedChain
    <2>5. Did("recorded_path", "restore")' => j # "pulse"
      BY <1>2, <1>7, <2>2, <2>3, StartedJob DEF Did, Needs, Jobs, HostedChain
    <2> QED
      BY <1>2, <2>1, <2>4, <2>5 DEF IInv, ScopeInv, Needs, Jobs, HostedChain
  <1>9. UploadInv'
    <2> SUFFICES ASSUME NEW name \in ArtifactNames,
                        UploadStep(name) \in StepsOf(Producer(name))',
                        Did(Producer(name), UploadStep(name))'
                 PROVE  MadeIn(name, ranIn[Producer(name)])'
      BY DEF UploadInv
    <2>1. Producer(name)' = Producer(name) /\ UploadStep(name) \in StepsOf(Producer(name))
      BY <1>1, SameTrigger DEF StepsOf
    <2>2. Producer(name) \in Jobs
      BY DEF Producer, GateJob, Jobs, HostedChain, ArtifactNames
    <2>3. Producer(name) # j /\ Did(Producer(name), UploadStep(name))
      BY <1>7, <2>1, <2>2 DEF Did
    <2>4. MadeIn(name, ranIn[Producer(name)])
      BY <2>1, <2>3 DEF IInv, UploadInv
    <2> QED
      BY <1>1, <1>2, <2>1, <2>2, <2>3, <2>4 DEF MadeIn, Named
  <1>10. StoreInv'
    <2>1. \A k \in Jobs : ranIn'[k] \in Nat /\ ranIn[k] <= ranIn'[k]
      BY <1>2 DEF IInv, RunInv
    <2> QED
      BY <1>1, <2>1, StoreKept DEF IInv
  <1>11. FilesInv'
    <2>1. Lane' = Lane /\ GateJob' = GateJob
      BY <1>1, SameTrigger
    <2>2. Lane \in {"core", "tier0", "hosted"}
      BY LaneFacts DEF IInv, RunInv
    <2>3. result'[GateJob] = "running" => ToDo' \cap {"binding", "final_binding"} # {}
      <3>1. ASSUME GateJob = j PROVE StepsOf(j) \cap {"binding", "final_binding"} # {}
        BY <3>1, <2>2, JobSteps DEF GateJob
      <3>2. GateJob \in Jobs
        BY DEF GateJob, Jobs, HostedChain
      <3> QED
        BY <1>2, <1>3, <3>1, <3>2, StartedJob
    <2>4. Lane = "hosted" /\ result'["pulse"] = "running" => "build_status" \in ToDo'
      BY <1>2, <1>3, JobSteps, StartedJob DEF Jobs
    <2>5. result'["recorded_path"] = "running" => "restore" \in ToDo' /\ "materialize" \in ToDo'
      BY <1>2, <1>3, JobSteps, StartedJob DEF Jobs, HostedChain
    <2>6. files' = NoFiles'
      BY <1>1, <1>3 DEF NoFiles
    <2> QED
      BY <2>1, <2>3, <2>4, <2>5, <2>6 DEF FilesInv, NoFiles, VerdictInv, Tier0Inv, HostedInv
  <1> QED
    BY <1>4, <1>5, <1>6, <1>8, <1>9, <1>10, <1>11 DEF IInv

\* No job comes to have done more than before.
LEMMA NothingDone ==
    ASSUME IInv, ranIn' = ranIn, store' = store, trigger' = trigger,
           \A k \in Jobs : \A s : Did(k, s)' => Did(k, s)
    PROVE  ScopeInv' /\ UploadInv' /\ StoreInv'
  <1>1. ScopeInv'
    BY DEF IInv, ScopeInv, Jobs, HostedChain
  <1>2. UploadInv'
    <2> SUFFICES ASSUME NEW name \in ArtifactNames,
                        UploadStep(name) \in StepsOf(Producer(name))',
                        Did(Producer(name), UploadStep(name))'
                 PROVE  MadeIn(name, ranIn[Producer(name)])'
      BY DEF UploadInv
    <2>1. Producer(name)' = Producer(name) /\ UploadStep(name) \in StepsOf(Producer(name))
      BY SameTrigger DEF StepsOf
    <2>2. Producer(name) \in Jobs
      BY DEF Producer, GateJob, Jobs, HostedChain, ArtifactNames
    <2>3. Did(Producer(name), UploadStep(name))
      BY <2>1, <2>2 DEF Did
    <2>4. MadeIn(name, ranIn[Producer(name)])
      BY <2>1, <2>3 DEF IInv, UploadInv
    <2> QED
      BY <2>1, <2>4 DEF MadeIn, Named
  <1>3. StoreInv'
    BY StoreKept DEF IInv, RunInv
  <1> QED
    BY <1>1, <1>2, <1>3

\* Between two jobs there is no workspace.
LEMMA IdleRunner ==
    ASSUME Running' = {}, todo' = <<>>, broken' = FALSE, files' = NoFiles
    PROVE  RunnerInv' /\ FilesInv'
  <1>1. ToDo' = {}
    <2>1. Range(todo') = {}
      BY ShortLists
    <2> QED
      BY <2>1 DEF ToDo
  <1>2. Ranked(todo)'
    BY DEF Ranked
  <1>3. RunnerInv'
    BY <1>1, <1>2 DEF RunnerInv
  <1>4. files' = NoFiles'
    BY DEF NoFiles
  <1>5. GateJob' \in Jobs /\ {"pulse", "recorded_path"} \subseteq Jobs
    BY DEF GateJob, Jobs, HostedChain
  <1>6. \A j \in Jobs : result'[j] # "running"
    BY DEF Running
  <1>7. /\ files'.checkRc = None /\ files'.decision = None /\ files'.binding = None
        /\ files'.status = None
    BY DEF NoFiles
  <1>8. VerdictInv' /\ Tier0Inv' /\ HostedInv'
    BY <1>5, <1>6, <1>7 DEF VerdictInv, Tier0Inv, HostedInv
  <1> QED
    BY <1>3, <1>4, <1>8 DEF FilesInv

LEMMA SkipJobsStep ==
    ASSUME IInv, SkipJobs
    PROVE  IInv'
  <1>1. /\ trigger' = trigger /\ attempt' = attempt /\ partial' = partial /\ healthy' = healthy
        /\ ranIn' = ranIn /\ todo' = todo /\ broken' = broken /\ files' = files /\ store' = store
        /\ result' = [j \in Jobs |-> IF j \in Skippable THEN "skipped" ELSE result[j]]
    BY DEF SkipJobs, run
  <1>2. \A j \in Jobs : /\ result[j] = "success" => result'[j] = "success"
                        /\ result'[j] \in {"running", "success", "failure"} => result'[j] = result[j]
    BY <1>1 DEF Skippable
  <1>3. Running = {} /\ Running' = {}
    BY <1>1, <1>2 DEF SkipJobs, Running
  <1>4. RunnerInv' /\ FilesInv'
    BY <1>1, <1>3, IdleRunner DEF IInv, RunnerInv
  <1>5. RunInv'
    BY <1>1 DEF IInv, RunInv
  <1>6. NeedsInv'
    <2>1. \A j : JobIf(j)' = JobIf(j)
      BY <1>1, SameTrigger
    <2>2. \A j \in Jobs : Needs[j] \subseteq Jobs
      BY DEF Needs, Jobs, HostedChain
    <2> QED
      BY <1>1, <1>2, <2>1, <2>2 DEF IInv, NeedsInv
  <1>7. \A k \in Jobs : \A s : Did(k, s)' => Did(k, s)
    BY <1>1, <1>2, <1>3 DEF Did, Running
  <1> QED
    BY <1>1, <1>4, <1>5, <1>6, <1>7, NothingDone DEF IInv

LEMMA EndJobStep ==
    ASSUME IInv, EndJob
    PROVE  IInv'
  <1>1. /\ trigger' = trigger /\ attempt' = attempt /\ partial' = partial /\ healthy' = healthy
        /\ ranIn' = ranIn /\ todo = <<>> /\ todo' = todo /\ broken' = FALSE /\ files' = NoFiles
        /\ store' = store
        /\ result' = [j \in Jobs |-> IF j \notin Running THEN result[j]
                                     ELSE IF broken THEN "failure" ELSE "success"]
    BY DEF EndJob, run
  <1>2. PICK j \in Jobs : Running = {j} /\ result[j] = "running"
    BY DEF EndJob, IInv, RunnerInv, Running
  <1>3. /\ \A k \in Jobs : k # j => result'[k] = result[k] /\ result[k] # "running"
        /\ result'[j] = IF broken THEN "failure" ELSE "success"
    BY <1>1, <1>2 DEF Running
  <1>4. Running' = {}
    BY <1>3 DEF Running
  <1>5. RunnerInv' /\ FilesInv'
    BY <1>1, <1>4, IdleRunner
  <1>6. RunInv'
    BY <1>1 DEF IInv, RunInv
  <1>7. NeedsInv'
    <2>1. \A k : JobIf(k)' = JobIf(k)
      BY <1>1, SameTrigger
    <2>2. \A k \in Jobs : Needs[k] \subseteq Jobs
      BY DEF Needs, Jobs, HostedChain
    <2> QED
      BY <1>1, <1>2, <1>3, <2>1, <2>2 DEF IInv, NeedsInv
  <1>8. \A k \in Jobs : \A s : Did(k, s)' => Did(k, s)
    <2>1. ToDo = {}
      <3>1. Range(todo) = {}
        BY <1>1, ShortLists
      <3> QED
        BY <3>1 DEF ToDo
    <2> QED
      BY <1>2, <1>3, <2>1 DEF Did
  <1> QED
    BY <1>1, <1>5, <1>6, <1>7, <1>8, NothingDone DEF IInv

LEMMA NextAttemptStep ==
    ASSUME IInv, NEW redo, NextAttempt(redo), partial' \in BOOLEAN,
           partial' \/ Jobs \subseteq redo,
           \A j \in Jobs : j \notin redo /\ result[j] = "success" => Needs[j] \cap redo = {}
    PROVE  IInv'
  <1>1. /\ trigger' = trigger /\ attempt' = attempt + 1 /\ attempt < MaxAttempts
        /\ healthy' \in BOOLEAN /\ ranIn' = ranIn /\ todo' = todo /\ broken' = broken
        /\ files' = files /\ store' = store
        /\ result' = [j \in Jobs |-> IF j \in redo THEN "waiting" ELSE result[j]]
        /\ \A j \in Jobs : Concluded(j)
    BY DEF NextAttempt
  <1>2. Running = {} /\ Running' = {}
    BY <1>1 DEF Running, Concluded
  <1>3. RunnerInv' /\ FilesInv'
    BY <1>1, <1>2, IdleRunner DEF IInv, RunnerInv
  <1>4. attempt \in Nat /\ attempt' \in 1..MaxAttempts
    BY <1>1, AttemptAssumption DEF IInv, RunInv
  <1>5. RunInv'
    <2>1. ranIn' \in [Jobs -> 0..attempt']
      BY <1>1, <1>4 DEF IInv, RunInv
    <2>2. result' \in [Jobs -> {"waiting", "running", "success", "failure", "skipped"}]
      BY <1>1 DEF IInv, RunInv
    <2> QED
      BY <1>1, <1>4, <2>1, <2>2 DEF IInv, RunInv
  <1>6. NeedsInv'
    <2>1. \A j : JobIf(j)' = JobIf(j)
      BY <1>1, SameTrigger
    <2>2. \A j \in Jobs : Needs[j] \subseteq Jobs
      BY DEF Needs, Jobs, HostedChain
    <2>3. \A j \in Jobs : /\ result'[j] # "running"
                          /\ result'[j] \in {"success", "failure"} =>
                                result'[j] = result[j] /\ j \notin redo /\ partial'
                          /\ result[j] = "success" /\ j \notin redo => result'[j] = "success"
      BY <1>1 DEF Concluded
    <2> QED
      BY <1>1, <2>1, <2>2, <2>3 DEF IInv, NeedsInv
  <1>7. \A k \in Jobs : \A s : Did(k, s)' => Did(k, s)
    BY <1>1 DEF Did, Concluded
  <1> QED
    BY <1>1, <1>3, <1>5, <1>6, <1>7, NothingDone DEF IInv

LEMMA RerunSteps ==
    ASSUME IInv, RerunAll \/ RerunFailed
    PROVE  IInv'
  <1>1. CASE RerunAll
    BY <1>1, NextAttemptStep DEF RerunAll
  <1>2. CASE RerunFailed
    <2> DEFINE failed == {j \in Jobs : result[j] = "failure"}
               redo == {j \in Jobs : j \in failed \/ Upstream[j] \cap failed # {}}
    <2>1. partial' = TRUE /\ NextAttempt(redo)
      BY <1>2 DEF RerunFailed
    <2>2. ASSUME NEW j \in Jobs, j \notin redo, result[j] = "success", NEW n \in Needs[j]
          PROVE  n \notin redo
      <3>1. n \notin failed
        BY <2>2 DEF IInv, NeedsInv
      <3>2. Upstream[n] \cap failed = {}
        BY <2>2, UpstreamFacts
      <3> QED
        BY <3>1, <3>2
    <2> HIDE DEF redo
    <2> QED
      BY <2>1, <2>2, NextAttemptStep
  <1> QED
    BY <1>1, <1>2

-----------------------------------------------------------------------------
(* The theorems.                                                            *)

LEMMA PulseJobSteps ==
    ASSUME IInv, PulseJobStep
    PROVE  IInv'
  BY RunAllStep, AugmentStep, RecordStep, BuildCandidateStatusStep, ManifestStep,
     EnforceGatesStep, DecisionStep, BindingStep, UploadBindingStep, UploadReportStep,
     UploadLlamaguardStep, UploadPreAttestationStep
  DEF PulseJobStep

LEMMA LaterJobSteps ==
    ASSUME IInv, LaterJobStep
    PROVE  IInv'
  BY AttestLlamaguardStep, AttestBindingStep, RestoreStep, MaterializeStep,
     EnforceReleaseGatesStep, FinalDecisionStep, FinalBindingStep, UploadRecordedPathStep,
     AssembleStep, VerifyStep
  DEF LaterJobStep

LEMMA NextInv == IInv /\ [Next]_vars => IInv'
  <1> SUFFICES ASSUME IInv, [Next]_vars PROVE IInv'
    OBVIOUS
  <1>1. ASSUME NEW j \in Jobs, StartJob(j) PROVE IInv'
    BY <1>1, StartJobStep
  <1>2. ASSUME SkipJobs \/ EndJob PROVE IInv'
    BY <1>2, SkipJobsStep, EndJobStep
  <1>3. ASSUME PulseJobStep \/ LaterJobStep PROVE IInv'
    BY <1>3, PulseJobSteps, LaterJobSteps
  <1>4. ASSUME SkipStep \/ FailStep \/ MissingInput PROVE IInv'
    BY <1>4, SkippedStep, FailedStep DEF FailStep, MissingInput
  <1>5. ASSUME RerunAll \/ RerunFailed PROVE IInv'
    BY <1>5, RerunSteps
  <1>6. ASSUME UNCHANGED vars PROVE IInv'
    <2> USE <1>6 DEF vars, run, jobs
    <2>1. RunInv' /\ Running' = Running /\ ToDo' = ToDo /\ Ranked(todo)' = Ranked(todo)
      BY DEF IInv, RunInv, Running, ToDo, Ranked
    <2>2. RunnerInv' /\ NeedsInv'
      BY <2>1, SameTrigger DEF IInv, RunnerInv, NeedsInv, NoFiles
    <2>3. \A k \in Jobs : \A s : Did(k, s)' => Did(k, s)
      BY <2>1 DEF Did
    <2>4. ScopeInv' /\ UploadInv' /\ StoreInv'
      BY <2>3, NothingDone
    <2>5. FilesInv'
      BY <2>1, SameTrigger DEF IInv, FilesInv, NoFiles, VerdictInv, Tier0Inv, HostedInv, Named
    <2> QED
      BY <2>1, <2>2, <2>4, <2>5 DEF IInv
  <1> QED
    BY <1>1, <1>2, <1>3, <1>4, <1>5, <1>6 DEF Next, Runner

\* Everything below follows from the inductive invariant.
LEMMA Invariance == Spec => []IInv
  BY InitInv, NextInv, PTL DEF Spec

\* The variables of a run have their types: no artifact is of an attempt to come,
\* the exit code and the level are ones the tools can give.
THEOREM TypeCorrect == Spec => []TypeOK
  <1>1. IInv => TypeOK
    <2> SUFFICES ASSUME IInv PROVE TypeOK
      OBVIOUS
    <2>1. \A a \in store : a.attempt \in 1..attempt
      <3> TAKE a \in store
      <3>1. Producer(a.name) \in Jobs
        BY DEF IInv, StoreInv, Producer, GateJob, Jobs, HostedChain, ArtifactNames
      <3> QED
        BY <3>1 DEF IInv, StoreInv, RunInv
    <2> QED
      BY <2>1 DEF TypeOK, IInv, RunInv, RunnerInv, FilesInv, VerdictInv
  <1> QED
    BY <1>1, Invariance, PTL

\* A verified package rests on jobs that all ran in its own attempt: the
\* attempt-scoped names of the artifacts pass the attempt on from job to job, and
\* attest_binding, which takes an unscoped one, ran between two of them.
THEOREM VerificationInOneAttempt == Spec => []VerifiedInOneAttempt
  <1>1. IInv => VerifiedInOneAttempt
    <2> SUFFICES ASSUME IInv, result["verify"] = "success"
                 PROVE  \A j \in Upstream["verify"] :
                            result[j] = "success" /\ ranIn[j] = ranIn["verify"]
      BY DEF VerifiedInOneAttempt
    <2>1. \A j \in Jobs : ranIn[j] \in Nat
      BY DEF IInv, RunInv
    <2>2. result["assemble"] = "success" /\ ranIn["assemble"] = ranIn["verify"]
      BY DEF IInv, NeedsInv, ScopeInv, Did, Needs, Jobs, HostedChain
    <2>3. /\ result["recorded_path"] = "success" /\ ranIn["recorded_path"] = ranIn["assemble"]
          /\ result["attest_binding"] = "success" /\ ranIn["attest_binding"] <= ranIn["assemble"]
      BY <2>2 DEF IInv, NeedsInv, ScopeInv, Did, Needs, Jobs, HostedChain
    <2>4. ranIn["recorded_path"] <= ranIn["attest_binding"]
      BY <2>3 DEF IInv, NeedsInv, Needs, Jobs, HostedChain
    <2>5. /\ result["attest_llamaguard"] = "success"
          /\ ranIn["attest_llamaguard"] = ranIn["recorded_path"]
          /\ ranIn["pulse"] = ranIn["recorded_path"]
      BY <2>3 DEF IInv, NeedsInv, ScopeInv, Did, Needs, Jobs, HostedChain
    <2>6. result["pulse"] = "success"
      BY <2>5 DEF IInv, NeedsInv, Needs, Jobs, HostedChain
    <2> QED
      BY <2>1, <2>2, <2>3, <2>4, <2>5, <2>6, UpstreamFacts DEF Jobs, HostedChain
  <1> QED
    BY <1>1, Invariance, PTL

\* A job that starts finds every artifact it downloads, unless a partial re-run
\* left out the job that makes it: `needs`, the job-level conditions and the
\* uploads of each lane fit together.
THEOREM DownloadsFind == Spec => []InputsFound
  <1>1. IInv => InputsFound
    <2> SUFFICES ASSUME IInv,
                        NEW s \in {"attest_binding", "attest_llamaguard", "restore",
                                   "assemble", "verify"},
                        Current(s), ~broken, NEW name \in Inputs(s)
                 PROVE  \/ Downloads(name) # {}
                        \/ partial /\ ranIn[Producer(name)] < attempt /\ name \in Scoped
      BY DEF InputsFound
    <2>1. todo # <<>> /\ Head(todo) = s
      BY DEF Current
    <2>2. PICK j \in Jobs : Running = {j} /\ result[j] = "running" /\ JobIf(j)
                            /\ Head(todo) \in StepsOf(j)
      BY <2>1, CurrentJob DEF IInv
    <2>3. CASE s = "attest_binding"
      <3>1. j \in {"attest_authority", "attest_binding"} /\ name = "binding"
        BY <2>1, <2>2, <2>3, JobOfStep DEF IInv, Inputs
      <3>2. Lane = "hosted" <=> j = "attest_binding"
        BY <2>2, <3>1, LaneFacts DEF IInv, RunInv, JobIf, HostedChain
      <3>3. result[GateJob] = "success"
        BY <2>2, <3>1, <3>2 DEF IInv, NeedsInv, Needs, GateJob, Jobs, HostedChain
      <3>4. Lane \in {"core", "tier0", "hosted"}
        BY LaneFacts DEF IInv, RunInv
      <3>5. "upload_binding" \in StepsOf(GateJob)
        BY <3>4, JobSteps DEF GateJob
      <3>6. PICK a \in Named("binding") : a.attempt = ranIn[GateJob]
        BY <3>3, <3>5 DEF IInv, UploadInv, UploadStep, ArtifactNames, Producer, Did, MadeIn
      <3>7. \A b \in Named("binding") : b.attempt <= a.attempt
        BY <3>6 DEF IInv, StoreInv, Named, Producer
      <3> QED
        BY <3>1, <3>6, <3>7 DEF Downloads, Scoped
    <2>4. CASE s # "attest_binding"
      <3>1. /\ s = "attest_llamaguard" => Running = {"attest_llamaguard"}
            /\ s = "restore" => Running = {"recorded_path"}
            /\ s = "assemble" => Running = {"assemble"}
            /\ s = "verify" => Running = {"verify"}
        BY <2>1, JobOfStep DEF IInv
      <3>2. j \in {"attest_llamaguard", "recorded_path", "assemble", "verify"}
        BY <2>2, <2>4, <3>1
      <3>3. Lane = "hosted"
        BY <2>2, <3>2, LaneFacts DEF IInv, RunInv, JobIf, HostedChain
      <3>4. /\ name \in ArtifactNames /\ UploadStep(name) \in StepsOf(Producer(name))
            /\ Producer(name) \in Jobs
        BY <2>4, <3>3, JobSteps
        DEF Inputs, ArtifactNames, UploadStep, Producer, GateJob, Jobs, HostedChain
      <3>5. result[Producer(name)] = "success"
        <4>1. /\ \A n \in Needs[j] : result[n] = "success"
              /\ \A n \in Needs[j] : \A m \in Needs[n] : result[m] = "success"
          BY <2>2 DEF IInv, NeedsInv, Needs, Jobs, HostedChain
        <4>2. Producer(name) \in Needs[j] \cup UNION {Needs[n] : n \in Needs[j]}
          BY <2>2, <2>4, <3>1, <3>3
          DEF Inputs, Producer, GateJob, Needs, Jobs, HostedChain
        <4> QED
          BY <4>1, <4>2
      <3>6. PICK a \in Named(name) : a.attempt = ranIn[Producer(name)]
        BY <3>4, <3>5 DEF IInv, UploadInv, Did, MadeIn
      <3>7. \A b \in Named(name) : b.attempt <= a.attempt
        BY <3>6 DEF IInv, StoreInv, Named
      <3>8. CASE name \notin Scoped
        BY <3>6, <3>7, <3>8 DEF Downloads
      <3>9. CASE name \in Scoped
        <4>1. ranIn[Producer(name)] \in 0..attempt
          BY <3>4 DEF IInv, RunInv
        <4>2. partial \/ ranIn[Producer(name)] = attempt
          BY <3>4, <3>5 DEF IInv, NeedsInv
        <4>3. ranIn[Producer(name)] = attempt => a \in Downloads(name)
          BY <3>6, <3>9 DEF Downloads
        <4> QED
          BY <3>9, <4>1, <4>2, <4>3 DEF IInv, RunInv
      <3> QED
        BY <3>8, <3>9
    <2> QED
      BY <2>3, <2>4
  <1> QED
    BY <1>1, Invariance, PTL

\* However the steps that run on failure publish, a PROD-PASS is about a status of
\* its own attempt with every gate true, and rests on detector evidence that was
\* attested in that attempt and passes.
THEOREM ProdPassIsSupported == Spec => []ProdPassSupported
  <1>1. IInv => ProdPassSupported
    BY DEF IInv, StoreInv, GoodContent, ProdPassSupported, ReleaseIds, Named
  <1> QED
    BY <1>1, Invariance, PTL

\* In the core and the hosted lane the binding says what check_gates.py said.
THEOREM BindingIsOfTheGates == Spec => []BindingAgreesOutsideTier0
  <1>1. IInv => BindingAgreesOutsideTier0
    <2> SUFFICES ASSUME IInv, Lane # "tier0", files.binding # None, files.checkRc # None
                 PROVE  files.binding.enforcement.result = "allow" <=> files.checkRc = 0
      BY DEF BindingAgreesOutsideTier0, BindingAgrees
    <2>1. files.checkRc = CheckGates(files.status.gates, GateIds)
      BY DEF IInv, FilesInv, VerdictInv
    <2>2. files.binding.enforcement = Enforcement(files.status.gates, GateIds)
      BY DEF IInv, FilesInv, VerdictInv
    <2> QED
      BY <2>1, <2>2 DEF CheckGates, Enforcement, AllTrue
  <1> QED
    BY <1>1, Invariance, PTL

\* When `gh run download --name` takes the newest artifact, every part of a
\* verified package was made in one attempt, although the names of the report and
\* of the binding do not say in which.
THEOREM PackageInOneAttempt ==
    ASSUME NewestFirst
    PROVE  Spec => []PackageOfOneAttempt
  <1>1. IInv => PackageOfOneAttempt
    BY DEF IInv, StoreInv, GoodContent, PackageOfOneAttempt, Named
  <1> QED
    BY <1>1, Invariance, PTL

=============================================================================
