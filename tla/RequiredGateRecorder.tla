------------------------- MODULE RequiredGateRecorder -------------------------
(***************************************************************************)
(* How the required gates are evaluated and recorded, as processes over the *)
(* files of one workspace:                                                  *)
(*                                                                         *)
(*   recorder   run_recorded_required_gate_evaluations_v0.py starts, gate    *)
(*              by gate, an                                                 *)
(*   evaluator  evaluate_required_gate_v0.py, which starts the               *)
(*   builder    of the gate's summary, one of the build_*_summary tools;     *)
(*   status     build_release_grade_candidate_status_v0.py reads what is    *)
(*              left behind.                                                *)
(*                                                                         *)
(* subprocess.run kills only its direct child when the time is up: a builder *)
(* outlives the evaluator that the recorder killed, and an evaluator outlives *)
(* a recorder that was killed itself.  Such orphans write into the directories *)
(* that a later invocation has reset.                                       *)
(*                                                                         *)
(* A digest is the content it was taken of; invocation stands for created_utc, *)
(* which differs from one invocation to the next.  Torn is a file between the *)
(* truncation and the write of write_text.  Policy, registry, plan, sources *)
(* and logs, whose digests are bound too, do not change here.               *)
(***************************************************************************)
EXTENDS Naturals

CONSTANTS
    Runs,            \* run identities: git_sha and run_key
    Gates,           \* gates.required
    MaxInvocations,  \* bound on the invocations of the recorder
    NoRun, NoFile, Torn

Invocations == 1..MaxInvocations

ASSUME InvocationAssumption == MaxInvocations \in Nat
ASSUME GateAssumption == Gates # {}
ASSUME RunAssumption == NoRun \notin Runs

VARIABLES
    current,   \* the latest invocation of the recorder, 0 before the first
    run,       \* invocation -> its run identity
    rec,       \* the recorder
    eval,      \* invocation -> gate -> the evaluator
    build,     \* invocation -> gate -> the evaluator's builder
    summary,   \* required_gate_evaluator_work/<gate>/<summary>
    result,    \* required_gate_inputs/<gate>.json
    evidence,  \* required_gate_evidence_v0.json
    reader,    \* the candidate status builder
    status     \* status.json, with the results its builder accepted

processes == <<current, run, rec, eval, build, reader>>
files == <<summary, result, evidence, status>>
vars == <<processes, files>>

-----------------------------------------------------------------------------
(* Contents.                                                                *)

Summary == [run : Runs, invocation : Invocations, pass : BOOLEAN]
SummaryFile == Summary \cup {NoFile, Torn}
Result == [run : Runs, invocation : Invocations, input : SummaryFile, pass : BOOLEAN]
ResultFile == Result \cup {NoFile, Torn}
Outcome == [passed : BOOLEAN, digest : ResultFile]
Evidence == [run : Runs, invocation : Invocations, gates : [Gates -> Outcome]]
Status == [evidence : Evidence, results : [Gates -> Result]]

ASSUME FileAssumption ==
    /\ NoFile # Torn
    /\ {NoFile, Torn} \cap (Summary \cup Result \cup Evidence \cup Status) = {}

\* A process in "failed" was killed or exited with another code than 0.
Live == {"prepare", "wait", "hash", "load", "open", "write"}
Recorder == [pc : {"idle", "next", "wait", "hash", "load", "open", "write"},
             todo : SUBSET Gates, gate : Gates, exit0 : BOOLEAN,
             gates : [Gates -> Outcome]]
Evaluator == [pc : Live \cup {"off", "exit0", "failed"},
              digest : SummaryFile, loaded : SummaryFile, passed : BOOLEAN]
Builder == {"off", "run", "torn", "wrote", "exit0", "failed"}
Reader == [pc : {"idle", "hash", "load", "inputs"}, todo : SUBSET Gates,
           gate : Gates, evidence : Evidence \cup {NoFile},
           results : [Gates -> Result \cup {NoFile}]]

TypeOK ==
    /\ current \in 0..MaxInvocations
    /\ run \in [Invocations -> Runs \cup {NoRun}]
    /\ rec \in Recorder
    /\ eval \in [Invocations -> [Gates -> Evaluator]]
    /\ build \in [Invocations -> [Gates -> Builder]]
    /\ summary \in [Gates -> SummaryFile]
    /\ result \in [Gates -> ResultFile]
    /\ evidence \in Evidence \cup {NoFile, Torn}
    /\ reader \in Reader
    /\ status \in Status \cup {NoFile}

NoOutcome == [passed |-> FALSE, digest |-> NoFile]
NoOutcomes == [g \in Gates |-> NoOutcome]
Off == [pc |-> "off", digest |-> NoFile, loaded |-> NoFile, passed |-> FALSE]
Failed == [Off EXCEPT !.pc = "failed"]
AnyGate == CHOOSE g \in Gates : TRUE
NoRecorder == [pc |-> "idle", todo |-> {}, gate |-> AnyGate, exit0 |-> FALSE,
               gates |-> NoOutcomes]
NoReader == [pc |-> "idle", todo |-> {}, gate |-> AnyGate, evidence |-> NoFile,
             results |-> [g \in Gates |-> NoFile]]

Init ==
    /\ current = 0
    /\ run = [i \in Invocations |-> NoRun]
    /\ rec = NoRecorder
    /\ eval = [i \in Invocations |-> [g \in Gates |-> Off]]
    /\ build = [i \in Invocations |-> [g \in Gates |-> "off"]]
    /\ summary = [g \in Gates |-> NoFile]
    /\ result = [g \in Gates |-> NoFile]
    /\ evidence = NoFile
    /\ reader = NoReader
    /\ status = NoFile

Becomes(i, g, e) == eval' = [eval EXCEPT ![i][g] = e]

-----------------------------------------------------------------------------
(* The recorder.  One of recorder and status builder runs at a time: they   *)
(* are steps of one job, or commands of one operator.                       *)

StartRecorder(r) ==
    /\ rec.pc = "idle" /\ reader.pc = "idle"
    /\ current < MaxInvocations
    /\ current' = current + 1
    /\ run' = [run EXCEPT ![current + 1] = r]
    /\ rec' = [rec EXCEPT !.pc = "next", !.todo = Gates]
    /\ UNCHANGED <<eval, build, reader, files>>

\* The declared result is removed, then the evaluator starts.
StartEvaluator(g) ==
    /\ rec.pc = "next" /\ g \in rec.todo
    /\ result' = [result EXCEPT ![g] = NoFile]
    /\ Becomes(current, g, [Off EXCEPT !.pc = "prepare"])
    /\ rec' = [rec EXCEPT !.pc = "wait", !.gate = g]
    /\ UNCHANGED <<current, run, build, reader, summary, evidence, status>>

EvaluatorReturned ==
    LET pc == eval[current][rec.gate].pc IN
    /\ rec.pc = "wait" /\ pc \in {"exit0", "failed"}
    /\ rec' = [rec EXCEPT !.pc = "hash", !.exit0 = (pc = "exit0")]
    /\ UNCHANGED <<current, run, eval, build, reader, files>>

\* Mutant of Expires: the time is not limited while a builder runs.
ExpiresUnlessWaiting(pc) == pc \in Live \ {"wait"}

\* subprocess.run(timeout=300) ends whatever its child is doing.
Expires(pc) == pc \in Live

\* Only the evaluator is killed; its builder keeps running.
EvaluatorTimesOut ==
    /\ rec.pc = "wait" /\ Expires(eval[current][rec.gate].pc)
    /\ Becomes(current, rec.gate, Failed)
    /\ rec' = [rec EXCEPT !.pc = "hash", !.exit0 = FALSE]
    /\ UNCHANGED <<current, run, build, reader, files>>

HashResult ==
    /\ rec.pc = "hash"
    /\ rec' = [rec EXCEPT !.pc = "load",
                          !.gates[rec.gate] = [passed |-> FALSE, digest |-> result[rec.gate]]]
    /\ UNCHANGED <<current, run, eval, build, reader, files>>

\* The file is opened again for its pointer; nothing else in it is read.
LoadResult ==
    LET g == rec.gate
        loaded == result[g]
        digest == rec.gates[g].digest
        left == rec.todo \ {g}
        passed == rec.exit0 /\ digest # NoFile /\ loaded \in Result /\ loaded.pass
    IN
    /\ rec.pc = "load"
    /\ rec' = [rec EXCEPT
                !.pc = IF left = {} THEN "open" ELSE "next",
                !.todo = left,
                !.exit0 = FALSE,
                !.gates[g] = [passed |-> passed, digest |-> digest]]
    /\ UNCHANGED <<current, run, eval, build, reader, files>>

\* Written in place, and written also when a gate has failed.
OpenEvidence ==
    /\ rec.pc = "open"
    /\ evidence' = Torn
    /\ rec' = [rec EXCEPT !.pc = "write"]
    /\ UNCHANGED <<current, run, eval, build, reader, summary, result, status>>

WriteEvidence ==
    /\ rec.pc = "write"
    /\ evidence' = [run |-> run[current], invocation |-> current, gates |-> rec.gates]
    /\ rec' = NoRecorder
    /\ UNCHANGED <<current, run, eval, build, reader, summary, result, status>>

\* The recorder is killed: its evaluator and builder are orphans.
KillRecorder ==
    /\ rec.pc # "idle"
    /\ rec' = NoRecorder
    /\ UNCHANGED <<current, run, eval, build, reader, files>>

RecorderStep ==
    \/ \E g \in Gates : StartEvaluator(g)
    \/ EvaluatorReturned \/ EvaluatorTimesOut
    \/ HashResult \/ LoadResult \/ OpenEvidence \/ WriteEvidence

-----------------------------------------------------------------------------
(* The evaluator of gate g in invocation i.                                 *)

\* Its output and its work directory are cleared, then the builder starts.
Prepare(i, g) ==
    /\ eval[i][g].pc = "prepare"
    /\ result' = [result EXCEPT ![g] = NoFile]
    /\ summary' = [summary EXCEPT ![g] = NoFile]
    /\ build' = [build EXCEPT ![i][g] = "run"]
    /\ Becomes(i, g, [eval[i][g] EXCEPT !.pc = "wait"])
    /\ UNCHANGED <<current, run, rec, reader, evidence, status>>

BuilderReturned(i, g) ==
    /\ eval[i][g].pc = "wait" /\ build[i][g] \in {"exit0", "failed"}
    /\ Becomes(i, g, [eval[i][g] EXCEPT !.pc = "hash"])
    /\ UNCHANGED <<current, run, rec, build, reader, files>>

BuilderTimesOut(i, g) ==
    /\ eval[i][g].pc = "wait" /\ build[i][g] \in {"run", "torn", "wrote"}
    /\ build' = [build EXCEPT ![i][g] = "failed"]
    /\ Becomes(i, g, [eval[i][g] EXCEPT !.pc = "hash"])
    /\ UNCHANGED <<current, run, rec, reader, files>>

HashSummary(i, g) ==
    /\ eval[i][g].pc = "hash"
    /\ Becomes(i, g, [eval[i][g] EXCEPT !.pc = "load", !.digest = summary[g]])
    /\ UNCHANGED <<current, run, rec, build, reader, files>>

\* Mutant of Verdict: the value at the pointer is taken for the verdict.
VerdictUnchecked(exit0, digest, loaded) ==
    IF exit0 /\ loaded \in Summary THEN loaded.pass ELSE loaded

\* Which run the summary is of is not looked at.
Verdict(exit0, digest, loaded) ==
    /\ exit0
    /\ digest # NoFile
    /\ loaded \in Summary /\ loaded.pass

LoadSummary(i, g) ==
    /\ eval[i][g].pc = "load"
    /\ Becomes(i, g, [eval[i][g] EXCEPT
           !.pc = "open",
           !.loaded = summary[g],
           !.passed = Verdict(build[i][g] = "exit0", eval[i][g].digest, summary[g])])
    /\ UNCHANGED <<current, run, rec, build, reader, files>>

OpenResult(i, g) ==
    /\ eval[i][g].pc = "open"
    /\ result' = [result EXCEPT ![g] = Torn]
    /\ Becomes(i, g, [eval[i][g] EXCEPT !.pc = "write"])
    /\ UNCHANGED <<current, run, rec, build, reader, summary, evidence, status>>

WriteResult(i, g) ==
    LET e == eval[i][g] IN
    /\ e.pc = "write"
    /\ result' = [result EXCEPT ![g] =
                   [run |-> run[i], invocation |-> i, input |-> e.digest, pass |-> e.passed]]
    /\ Becomes(i, g, IF e.passed THEN [e EXCEPT !.pc = "exit0"] ELSE Failed)
    /\ UNCHANGED <<current, run, rec, build, reader, summary, evidence, status>>

\* An input is rejected, or the process dies; a builder it has started goes on.
EvaluatorFails(i, g) ==
    /\ eval[i][g].pc \in Live
    /\ Becomes(i, g, Failed)
    /\ UNCHANGED <<current, run, rec, build, reader, files>>

EvaluatorStep(i, g) ==
    \/ Prepare(i, g) \/ BuilderReturned(i, g) \/ BuilderTimesOut(i, g)
    \/ HashSummary(i, g) \/ LoadSummary(i, g)
    \/ OpenResult(i, g) \/ WriteResult(i, g) \/ EvaluatorFails(i, g)

-----------------------------------------------------------------------------
(* A summary builder.  Some write in place, some replace the file; all make *)
(* the directory again if it is gone.                                       *)

OpenSummary(i, g) ==
    /\ build[i][g] = "run"
    /\ summary' = [summary EXCEPT ![g] = Torn]
    /\ build' = [build EXCEPT ![i][g] = "torn"]
    /\ UNCHANGED <<current, run, rec, eval, reader, result, evidence, status>>

WriteSummary(i, g) ==
    /\ build[i][g] \in {"run", "torn"}
    /\ \E pass \in BOOLEAN :
          summary' = [summary EXCEPT ![g] = [run |-> run[i], invocation |-> i, pass |-> pass]]
    /\ build' = [build EXCEPT ![i][g] = "wrote"]
    /\ UNCHANGED <<current, run, rec, eval, reader, result, evidence, status>>

\* Exit code 0 means that the summary was written, not that it passes: the Q1
\* builder returns 0 whatever its verdict.
BuilderExits(i, g) ==
    /\ \/ build[i][g] = "wrote" /\ build' = [build EXCEPT ![i][g] = "exit0"]
       \/ /\ build[i][g] \in {"run", "torn", "wrote"}
          /\ build' = [build EXCEPT ![i][g] = "failed"]
    /\ UNCHANGED <<current, run, rec, eval, reader, files>>

BuilderStep(i, g) == OpenSummary(i, g) \/ WriteSummary(i, g) \/ BuilderExits(i, g)

-----------------------------------------------------------------------------
(* The candidate status builder.                                            *)

\* The old status is removed first.  A builder that gives up leaves none.
ReadEvidence ==
    /\ rec.pc = "idle" /\ reader.pc = "idle"
    /\ status' = NoFile
    /\ reader' = IF evidence \in Evidence /\ \A g \in Gates : evidence.gates[g].passed
                 THEN [reader EXCEPT !.pc = "hash", !.evidence = evidence,
                                     !.todo = Gates]
                 ELSE reader
    /\ UNCHANGED <<current, run, rec, eval, build, summary, result, evidence>>

\* Mutant of Bound: the digest in the evidence is not compared.
BoundAnyhow(g) == result[g] # NoFile

\* The digest the evidence binds is the digest of the result on disk.
Bound(g) ==
    /\ result[g] # NoFile
    /\ result[g] = reader.evidence.gates[g].digest

BindResult(g) ==
    /\ reader.pc = "hash" /\ g \in reader.todo
    /\ reader' = IF Bound(g) THEN [reader EXCEPT !.pc = "load", !.gate = g] ELSE NoReader
    /\ UNCHANGED <<current, run, rec, eval, build, files>>

\* Mutant of Acceptable: the result's run identity is not compared.
AcceptableOfAnyRun(res) == res \in Result /\ res.pass

\* _verify_result, of a result read again after it was hashed.
Acceptable(res) ==
    /\ res \in Result /\ res.pass
    /\ res.run = reader.evidence.run

ReadResult ==
    LET res == result[reader.gate] IN
    /\ reader.pc = "load"
    /\ reader' = IF Acceptable(res)
                 THEN [reader EXCEPT !.pc = "inputs", !.results[reader.gate] = res]
                 ELSE NoReader
    /\ UNCHANGED <<current, run, rec, eval, build, files>>

\* Mutant of InputsBound: it is enough that the input is there.
InputsPresent(g) == summary[g] # NoFile

\* input_artifacts are hashed again.
InputsBound(g) ==
    /\ summary[g] # NoFile
    /\ summary[g] = reader.results[g].input

CheckInputs ==
    LET left == reader.todo \ {reader.gate} IN
    /\ reader.pc = "inputs"
    /\ IF ~InputsBound(reader.gate)
       THEN reader' = NoReader /\ status' = status
       ELSE IF left # {}
       THEN reader' = [reader EXCEPT !.pc = "hash", !.todo = left] /\ status' = status
       ELSE /\ status' = [evidence |-> reader.evidence, results |-> reader.results]
            /\ reader' = NoReader
    /\ UNCHANGED <<current, run, rec, eval, build, summary, result, evidence>>

StatusStep == ReadEvidence \/ (\E g \in Gates : BindResult(g)) \/ ReadResult \/ CheckInputs

-----------------------------------------------------------------------------

Next ==
    \/ \E r \in Runs : StartRecorder(r)
    \/ RecorderStep
    \/ KillRecorder
    \/ \E i \in Invocations, g \in Gates : EvaluatorStep(i, g) \/ BuilderStep(i, g)
    \/ StatusStep

\* The recorder's own steps and its timer run; nothing is assumed of evaluators
\* and builders, which may hang.
Spec == Init /\ [][Next]_vars /\ WF_vars(RecorderStep)

-----------------------------------------------------------------------------
(* Properties.                                                              *)

\* A status rests, gate by gate, on an evaluation that was started in the run of
\* the status, whose own builder succeeded and which wrote that result: not on
\* what an orphan of another run left (_verify_result's comparison of the run,
\* run_recipe's of the exit code).
StatusOfOneRun ==
    status # NoFile => \A g \in Gates :
        \E i \in Invocations :
            /\ run[i] = status.evidence.run
            /\ eval[i][g].pc = "exit0" /\ build[i][g] = "exit0"
            /\ status.results[g] = [run |-> run[i], invocation |-> i,
                                    input |-> eval[i][g].digest, pass |-> TRUE]

\* The other invocations whose builder may have opened the summary of gate g,
\* and those whose evaluator may have opened its result.
SummaryWriters(i, g) == {j \in Invocations \ {i} : build[j][g] \notin {"off", "run"}}
ResultWriters(i, g) ==
    {j \in Invocations \ {i} : eval[j][g].pc \in {"write", "exit0", "failed"}}

\* In a status, the summary whose digest a result binds is the one its verdict was
\* read from, although the evaluator hashes and loads it in two steps and an
\* orphan may write between them (_verify_refs of the input artifacts).  The one
\* exception takes two orphans that truncate the file in turn, around the load:
\* empty files are alike.
JudgedWhatItBinds ==
    status # NoFile => \A g \in Gates :
        LET res == status.results[g]
            others == SummaryWriters(res.invocation, g)
        IN  \/ eval[res.invocation][g].loaded = res.input
            \/ res.input = Torn /\ \E j, k \in others : j # k

\* In a status, the result whose digest the evidence binds is itself a passing
\* result, although the recorder hashes and loads it in two steps (the status
\* builder's second look at evidence_artifacts), with the like exception.
BoundResultPasses ==
    status # NoFile => \A g \in Gates :
        LET bound == status.evidence.gates[g].digest
            others == ResultWriters(status.evidence.invocation, g)
        IN  \/ bound \in Result /\ bound.pass
            \/ bound = Torn /\ \E j, k \in others : j # k

\* An invocation of the recorder ends even if a builder never does
\* (subprocess.run's timeout, and its kill of the direct child only).
RecorderConcludes == rec.pc # "idle" ~> rec.pc = "idle"

\* What the evaluator prints of a gate that passes: it passed "with recorded
\* current-run evidence"; so the summary behind a status is of the status' run
\* (evaluate_required_gate_v0.py main).
SummaryOfThisRun ==
    status # NoFile => \A g \in Gates :
        LET input == status.results[g].input IN
        input \in Summary => input.run = status.evidence.run
=============================================================================
