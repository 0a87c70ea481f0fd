---------------------- MODULE RequiredGateRecorderProofs ----------------------
(***************************************************************************)
(* Proofs about RequiredGateRecorder for every set of runs and of gates and *)
(* for every number of invocations.                                         *)
(***************************************************************************)
EXTENDS RequiredGateRecorder, TLAPS

-----------------------------------------------------------------------------
(* The inductive invariant.                                                 *)

\* Which process can be where: invocations to come have none, a builder follows
\* its evaluator, a passing verdict follows the exit code 0 of the own builder.
ProcessInv ==
    /\ \A i \in Invocations : i <= current => run[i] \in Runs
    /\ \A i \in Invocations, g \in Gates :
          /\ eval[i][g].pc # "off" => i <= current
          /\ build[i][g] # "off" => eval[i][g].pc \notin {"off", "prepare"}
          /\ eval[i][g].pc = "exit0" => eval[i][g].passed
          /\ eval[i][g].passed => /\ eval[i][g].pc \in {"open", "write", "exit0"}
                                  /\ build[i][g] = "exit0"
    /\ rec.pc # "idle" => current \in Invocations
    /\ \A g \in rec.todo :
          \/ rec.pc \in {"wait", "hash", "load"} /\ g = rec.gate
          \/ rec.pc # "idle" /\ eval[current][g].pc = "off"

\* res is what an evaluator of gate g wrote whose builder and which itself ended
\* with exit code 0.
Origin(g, res) ==
    /\ res \in Result
    /\ eval[res.invocation][g].pc = "exit0"
    /\ build[res.invocation][g] = "exit0"
    /\ res = [run |-> run[res.invocation], invocation |-> res.invocation,
              input |-> eval[res.invocation][g].digest, pass |-> TRUE]

ResultInv == \A g \in Gates :
    result[g] \in Result /\ result[g].pass => Origin(g, result[g])

\* The gates the status builder has been through.
Accepted(g) == g \notin reader.todo \/ (reader.pc = "inputs" /\ g = reader.gate)

ReaderInv == reader.pc # "idle" =>
    /\ reader.evidence \in Evidence
    /\ \A g \in Gates : Accepted(g) =>
          Origin(g, reader.results[g]) /\ reader.results[g].run = reader.evidence.run

StatusInv == status # NoFile => \A g \in Gates :
    Origin(g, status.results[g]) /\ status.results[g].run = status.evidence.run

Two(S) == \E j, k \in S : j # k

\* s, or res, was written by a process that writes no more.
SummaryOut(g, s) == build[s.invocation][g] \in {"wrote", "exit0", "failed"}
ResultOut(g, res) == eval[res.invocation][g].pc \in {"exit0", "failed"}

\* What the evaluator of gate g knows of the summary: if the content it judges is
\* not the one it hashed, the one it hashed is gone for good, and if that was an
\* empty file there must be two others to make it so again.
Knows(i, g) ==
    LET e == eval[i][g]
        others == SummaryWriters(i, g)
    IN  /\ e.pc \in {"hash", "load"} => build[i][g] \in {"exit0", "failed"}
        /\ e.digest \in Summary => SummaryOut(g, e.digest)
        /\ e.digest = Torn /\ build[i][g] = "exit0" /\ (e.pc = "load" \/ e.passed) =>
              others # {}
        /\ e.passed /\ e.digest # e.loaded =>
              /\ e.digest \in Summary => summary[g] # e.digest
              /\ e.digest = Torn => summary[g] # Torn \/ Two(others)

SummaryInv == \A g \in Gates :
    /\ summary[g] \in Summary => SummaryOut(g, summary[g])
    /\ summary[g] = Torn => \E j \in Invocations : build[j][g] \in {"torn", "failed"}
    /\ \A i \in Invocations : Knows(i, g)

\* The same of what the recorder found of gate g in invocation i.
Records(o, i, g) ==
    LET others == ResultWriters(i, g)
    IN  /\ o.digest \in Result => ResultOut(g, o.digest)
        /\ o.passed =>
              /\ eval[i][g].pc = "exit0"
              /\ o.digest = Torn => others # {}
              /\ o.digest \in Result /\ ~o.digest.pass => result[g] # o.digest
              /\ o.digest = Torn => result[g] # Torn \/ Two(others)

OutcomeInv ==
    /\ \A g \in Gates :
          /\ result[g] \in Result => ResultOut(g, result[g])
          /\ result[g] = Torn => \E j \in Invocations : eval[j][g].pc \in {"write", "failed"}
    /\ rec.pc = "idle" => rec.gates = NoOutcomes
    /\ rec.pc # "idle" => \A g \in Gates : Records(rec.gates[g], current, g)
    /\ rec.pc \in {"hash", "load"} /\ rec.exit0 => eval[current][rec.gate].pc = "exit0"
    /\ rec.pc = "load" /\ rec.exit0 /\ rec.gates[rec.gate].digest = Torn =>
          ResultWriters(current, rec.gate) # {}
    /\ evidence \in Evidence =>
          \A g \in Gates : Records(evidence.gates[g], evidence.invocation, g)

\* What the status builder has seen to so far.
Judged(g, res) ==
    \/ eval[res.invocation][g].loaded = res.input
    \/ res.input = Torn /\ Two(SummaryWriters(res.invocation, g))

Binds(g, e) ==
    LET bound == e.gates[g].digest
    IN  \/ bound \in Result /\ bound.pass
        \/ bound = Torn /\ Two(ResultWriters(e.invocation, g))

LookInv == reader.pc # "idle" =>
  /\ reader.pc \in {"load", "inputs"} => reader.gate \in reader.todo
  /\ \A g \in Gates :
       /\ reader.evidence.gates[g].passed
       /\ Records(reader.evidence.gates[g], reader.evidence.invocation, g)
       /\ g \notin reader.todo \/ (reader.pc \in {"load", "inputs"} /\ g = reader.gate) =>
             Binds(g, reader.evidence)
       /\ g \notin reader.todo => Judged(g, reader.results[g])

StatusLook == JudgedWhatItBinds /\ BoundResultPasses

IInv == /\ TypeOK /\ ProcessInv /\ ResultInv /\ ReaderInv /\ StatusInv
        /\ SummaryInv /\ OutcomeInv /\ LookInv /\ StatusLook

-----------------------------------------------------------------------------
(* Types.                                                                   *)

USE InvocationAssumption, GateAssumption DEF Invocations

\* What a step of one evaluator does to the evaluators.
LEMMA BecomesEffect ==
    ASSUME eval \in [Invocations -> [Gates -> Evaluator]],
           NEW i \in Invocations, NEW g \in Gates, NEW e \in Evaluator, Becomes(i, g, e)
    PROVE  /\ eval' \in [Invocations -> [Gates -> Evaluator]]
           /\ eval'[i][g] = e
           /\ \A j \in Invocations, h \in Gates :
                 <<j, h>> # <<i, g>> => eval'[j][h] = eval[j][h]
  BY DEF Becomes

\* An evaluator remains one when it goes to its next step.
LEMMA EvaluatorUpdate ==
    ASSUME NEW e \in Evaluator, NEW p \in Live \cup {"off", "exit0", "failed"},
           NEW d \in SummaryFile, NEW b \in BOOLEAN
    PROVE  /\ [e EXCEPT !.pc = p] \in Evaluator
           /\ [e EXCEPT !.pc = p, !.digest = d] \in Evaluator
           /\ [e EXCEPT !.pc = p, !.loaded = d, !.passed = b] \in Evaluator
  BY DEF Evaluator

\* An evaluator that moves on keeps what it found.
LEMMA SetsPc ==
    ASSUME NEW e \in Evaluator, NEW p \in Live \cup {"off", "exit0", "failed"}
    PROVE  LET n == [e EXCEPT !.pc = p]
           IN  /\ n \in Evaluator /\ n.pc = p
               /\ n.digest = e.digest /\ n.loaded = e.loaded /\ n.passed = e.passed
  BY DEF Evaluator

\* A builder that moves keeps its type.
LEMMA BuilderUpdate ==
    ASSUME build \in [Invocations -> [Gates -> Builder]],
           NEW i \in Invocations, NEW g \in Gates, NEW p \in Builder
    PROVE  [build EXCEPT ![i][g] = p] \in [Invocations -> [Gates -> Builder]]
  OBVIOUS

\* The constant processes have their types.
LEMMA ConstantTypes ==
    /\ Off \in Evaluator /\ Failed \in Evaluator
    /\ [Off EXCEPT !.pc = "prepare"] \in Evaluator
    /\ NoRecorder \in Recorder /\ NoReader \in Reader
  <1>1. AnyGate \in Gates
    BY DEF AnyGate
  <1>2. Off \in Evaluator /\ Failed \in Evaluator /\ [Off EXCEPT !.pc = "prepare"] \in Evaluator
    BY DEF Off, Failed, Evaluator, SummaryFile, Live
  <1>3. NoOutcomes \in [Gates -> Outcome]
    BY DEF NoOutcomes, NoOutcome, Outcome, ResultFile
  <1>4. NoRecorder \in Recorder
    BY <1>1, <1>3 DEF NoRecorder, Recorder
  <1>5. NoReader \in Reader
    BY <1>1 DEF NoReader, Reader
  <1> QED
    BY <1>2, <1>4, <1>5

\* The initial state is typed.
LEMMA InitType == Init => TypeOK
  BY ConstantTypes DEF Init, TypeOK, Builder, SummaryFile, ResultFile

\* A step of the recorder keeps the types.
LEMMA RecorderType ==
    ASSUME TypeOK, ProcessInv,
           \/ \E r \in Runs : StartRecorder(r)
           \/ RecorderStep
           \/ KillRecorder
    PROVE  TypeOK'
  <1> USE DEF TypeOK
  <1>1. ASSUME NEW r \in Runs, StartRecorder(r) PROVE TypeOK'
    <2>1. rec' \in Recorder
      BY <1>1 DEF StartRecorder, Recorder
    <2>2. current' \in 0..MaxInvocations /\ run' \in [Invocations -> Runs \cup {NoRun}]
      BY <1>1 DEF StartRecorder
    <2> QED
      BY <1>1, <2>1, <2>2 DEF StartRecorder, files
  <1>2. ASSUME NEW g \in Gates, StartEvaluator(g) PROVE TypeOK'
    <2>1. current \in Invocations
      BY <1>2 DEF StartEvaluator, ProcessInv
    <2>2. eval' \in [Invocations -> [Gates -> Evaluator]]
      BY <1>2, <2>1, ConstantTypes, BecomesEffect DEF StartEvaluator
    <2>3. rec' \in Recorder
      BY <1>2 DEF StartEvaluator, Recorder
    <2> QED
      BY <1>2, <2>2, <2>3 DEF StartEvaluator, ResultFile
  <1>3. ASSUME EvaluatorReturned PROVE TypeOK'
    BY <1>3 DEF EvaluatorReturned, Recorder, files
  <1>4. ASSUME EvaluatorTimesOut PROVE TypeOK'
    <2>1. current \in Invocations /\ rec.gate \in Gates
      BY <1>4 DEF EvaluatorTimesOut, ProcessInv, Recorder
    <2>2. eval' \in [Invocations -> [Gates -> Evaluator]]
      BY <1>4, <2>1, ConstantTypes, BecomesEffect DEF EvaluatorTimesOut
    <2>3. rec' \in Recorder
      BY <1>4 DEF EvaluatorTimesOut, Recorder
    <2> QED
      BY <1>4, <2>2, <2>3 DEF EvaluatorTimesOut, files
  <1>5. ASSUME HashResult PROVE TypeOK'
    <2>1. rec.gate \in Gates
      BY DEF Recorder
    <2>2. [passed |-> FALSE, digest |-> result[rec.gate]] \in Outcome
      BY <2>1 DEF Outcome
    <2>3. rec' \in Recorder
      BY <1>5, <2>1, <2>2 DEF HashResult, Recorder
    <2> QED
      BY <1>5, <2>3 DEF HashResult, files
  <1>6. ASSUME LoadResult PROVE TypeOK'
    <2> DEFINE digest == rec.gates[rec.gate].digest
               loaded == result[rec.gate]
               passed == rec.exit0 /\ digest # NoFile /\ loaded \in Result /\ loaded.pass
    <2>1. rec.gate \in Gates /\ digest \in ResultFile /\ rec.exit0 \in BOOLEAN
      BY DEF Recorder, Outcome
    <2>2. passed \in BOOLEAN
      OBVIOUS
    <2>3. [passed |-> passed, digest |-> digest] \in Outcome
      BY <2>1, <2>2 DEF Outcome
    <2>4. rec' \in Recorder
      <3> HIDE DEF passed, digest
      <3>1. rec' = [rec EXCEPT
                     !.pc = IF rec.todo \ {rec.gate} = {} THEN "open" ELSE "next",
                     !.todo = rec.todo \ {rec.gate},
                     !.exit0 = FALSE,
                     !.gates[rec.gate] = [passed |-> passed, digest |-> digest]]
        BY <1>6 DEF LoadResult, passed, digest, loaded
      <3> QED
        BY <2>1, <2>3, <3>1 DEF Recorder
    <2> QED
      BY <1>6, <2>4 DEF LoadResult, files
  <1>7. ASSUME OpenEvidence PROVE TypeOK'
    BY <1>7 DEF OpenEvidence, Recorder
  <1>8. ASSUME WriteEvidence PROVE TypeOK'
    <2>1. current \in Invocations /\ run[current] \in Runs
      BY <1>8 DEF WriteEvidence, ProcessInv
    <2>2. evidence' \in Evidence
      BY <1>8, <2>1 DEF WriteEvidence, Evidence, Recorder
    <2> QED
      BY <1>8, <2>2, ConstantTypes DEF WriteEvidence
  <1>9. ASSUME KillRecorder PROVE TypeOK'
    BY <1>9, ConstantTypes DEF KillRecorder, files
  <1> QED
    BY <1>1, <1>2, <1>3, <1>4, <1>5, <1>6, <1>7, <1>8, <1>9 DEF RecorderStep

\* A step of an evaluator or a builder keeps the types.
LEMMA WorkerType ==
    ASSUME TypeOK, ProcessInv, NEW i \in Invocations, NEW g \in Gates,
           EvaluatorStep(i, g) \/ BuilderStep(i, g)
    PROVE  TypeOK'
  <1> USE DEF TypeOK
  <1>t. eval[i][g] \in Evaluator /\ summary[g] \in SummaryFile /\ build[i][g] \in Builder
    OBVIOUS
  <1>r. build[i][g] # "off" => run[i] \in Runs
    BY DEF ProcessInv
  <1>1. CASE Prepare(i, g)
    <2>1. [eval[i][g] EXCEPT !.pc = "wait"] \in Evaluator
      BY <1>t, EvaluatorUpdate DEF Live
    <2>2. eval' \in [Invocations -> [Gates -> Evaluator]]
      BY <1>1, <2>1, BecomesEffect DEF Prepare
    <2> QED
      BY <1>1, <2>2 DEF Prepare, ResultFile, SummaryFile, Builder
  <1>2. CASE BuilderReturned(i, g) \/ BuilderTimesOut(i, g)
    <2>1. [eval[i][g] EXCEPT !.pc = "hash"] \in Evaluator
      BY <1>t, EvaluatorUpdate DEF Live
    <2>2. eval' \in [Invocations -> [Gates -> Evaluator]]
      BY <1>2, <2>1, BecomesEffect DEF BuilderReturned, BuilderTimesOut
    <2> QED
      <3>1. build' \in [Invocations -> [Gates -> Builder]]
        <4>1. build' = build \/ build' = [build EXCEPT ![i][g] = "failed"]
          BY <1>2 DEF BuilderReturned, BuilderTimesOut
        <4>2. [build EXCEPT ![i][g] = "failed"] \in [Invocations -> [Gates -> Builder]]
          BY BuilderUpdate DEF Builder
        <4> QED
          BY <4>1, <4>2
      <3> QED
        BY <1>2, <2>2, <3>1 DEF BuilderReturned, BuilderTimesOut, files
  <1>3. CASE HashSummary(i, g)
    <2>1. [eval[i][g] EXCEPT !.pc = "load", !.digest = summary[g]] \in Evaluator
      BY <1>t, EvaluatorUpdate DEF Live
    <2>2. eval' \in [Invocations -> [Gates -> Evaluator]]
      BY <1>3, <2>1, BecomesEffect DEF HashSummary
    <2> QED
      BY <1>3, <2>2 DEF HashSummary, files
  <1>4. CASE LoadSummary(i, g)
    <2> DEFINE passed == Verdict(build[i][g] = "exit0", eval[i][g].digest, summary[g])
    <2>1. passed \in BOOLEAN
      BY DEF Verdict
    <2>2. [eval[i][g] EXCEPT !.pc = "open", !.loaded = summary[g], !.passed = passed]
             \in Evaluator
      <3> HIDE DEF passed
      <3> QED
        BY <1>t, <2>1, EvaluatorUpdate DEF Live
    <2>3. eval' \in [Invocations -> [Gates -> Evaluator]]
      BY <1>4, <2>2, BecomesEffect DEF LoadSummary
    <2> QED
      BY <1>4, <2>3 DEF LoadSummary, files
  <1>5. CASE OpenResult(i, g)
    <2>1. [eval[i][g] EXCEPT !.pc = "write"] \in Evaluator
      BY <1>t, EvaluatorUpdate DEF Live
    <2>2. eval' \in [Invocations -> [Gates -> Evaluator]]
      BY <1>5, <2>1, BecomesEffect DEF OpenResult
    <2> QED
      BY <1>5, <2>2 DEF OpenResult, ResultFile
  <1>6. CASE WriteResult(i, g)
    <2> DEFINE e == eval[i][g]
    <2>1. [e EXCEPT !.pc = "exit0"] \in Evaluator /\ Failed \in Evaluator
      BY <1>t, EvaluatorUpdate, ConstantTypes
    <2>2. (IF e.passed THEN [e EXCEPT !.pc = "exit0"] ELSE Failed) \in Evaluator
      BY <2>1
    <2>3. eval' \in [Invocations -> [Gates -> Evaluator]]
      BY <1>6, <2>2, BecomesEffect DEF WriteResult
    <2>4. run[i] \in Runs /\ e.digest \in SummaryFile /\ e.passed \in BOOLEAN
      BY <1>6, <1>t DEF WriteResult, ProcessInv, Evaluator
    <2>5. [run |-> run[i], invocation |-> i, input |-> e.digest, pass |-> e.passed] \in Result
      BY <2>4 DEF Result
    <2> QED
      BY <1>6, <2>3, <2>5 DEF WriteResult, ResultFile
  <1>7. CASE EvaluatorFails(i, g)
    <2>1. eval' \in [Invocations -> [Gates -> Evaluator]]
      BY <1>7, ConstantTypes, BecomesEffect DEF EvaluatorFails
    <2> QED
      BY <1>7, <2>1 DEF EvaluatorFails, files
  <1>8. CASE OpenSummary(i, g)
    BY <1>8 DEF OpenSummary, SummaryFile, Builder
  <1>9. CASE WriteSummary(i, g)
    <2>1. PICK pass \in BOOLEAN : summary' =
             [summary EXCEPT ![g] = [run |-> run[i], invocation |-> i, pass |-> pass]]
      BY <1>9 DEF WriteSummary
    <2>2. [run |-> run[i], invocation |-> i, pass |-> pass] \in Summary
      BY <1>9, <1>r DEF WriteSummary, Summary
    <2> QED
      BY <1>9, <2>1, <2>2 DEF WriteSummary, SummaryFile, Builder
  <1>10. CASE BuilderExits(i, g)
    <2>1. build' = [build EXCEPT ![i][g] = "exit0"] \/ build' = [build EXCEPT ![i][g] = "failed"]
      BY <1>10 DEF BuilderExits
    <2>2. build' \in [Invocations -> [Gates -> Builder]]
      <3>1. \A p \in {"exit0", "failed"} :
               [build EXCEPT ![i][g] = p] \in [Invocations -> [Gates -> Builder]]
        BY BuilderUpdate DEF Builder
      <3> QED
        BY <2>1, <3>1
    <2> QED
      <3>1. UNCHANGED <<current, run, rec, eval, reader, files>>
        BY <1>10 DEF BuilderExits
      <3> QED
        BY <2>2, <3>1 DEF files
  <1> QED
    BY <1>1, <1>2, <1>3, <1>4, <1>5, <1>6, <1>7, <1>8, <1>9, <1>10
    DEF EvaluatorStep, BuilderStep

\* A step of the status builder keeps the types.
LEMMA ReaderType ==
    ASSUME TypeOK, ReaderInv, StatusStep
    PROVE  TypeOK'
  <1> USE DEF TypeOK
  <1>1. CASE ReadEvidence
    <2>1. reader' \in Reader
      BY <1>1 DEF ReadEvidence, Reader
    <2> QED
      BY <1>1, <2>1 DEF ReadEvidence
  <1>2. ASSUME NEW g \in Gates, BindResult(g) PROVE TypeOK'
    <2>1. reader' \in Reader
      BY <1>2, ConstantTypes DEF BindResult, Reader
    <2> QED
      BY <1>2, <2>1 DEF BindResult, files
  <1>3. CASE ReadResult
    <2>1. reader.gate \in Gates
      BY DEF Reader
    <2>2. reader' \in Reader
      BY <1>3, <2>1, ConstantTypes DEF ReadResult, Acceptable, Reader
    <2> QED
      BY <1>3, <2>2 DEF ReadResult, files
  <1>4. CASE CheckInputs
    <2>1. reader' \in Reader
      <3>1. CASE reader' = NoReader
        BY <3>1, ConstantTypes
      <3>2. CASE reader' # NoReader
        <4>1. reader' = [reader EXCEPT !.pc = "hash", !.todo = reader.todo \ {reader.gate}]
          BY <1>4, <3>2 DEF CheckInputs
        <4> QED
          BY <4>1 DEF Reader
      <3> QED
        BY <3>1, <3>2
    <2>2. status' \in Status \cup {NoFile}
      <3>1. CASE status' = status
        BY <3>1
      <3>2. CASE status' # status
        <4>1. /\ reader.todo \ {reader.gate} = {}
              /\ status' = [evidence |-> reader.evidence, results |-> reader.results]
              /\ reader.pc = "inputs"
          BY <1>4, <3>2 DEF CheckInputs
        <4>2. reader.evidence \in Evidence /\ \A g \in Gates : reader.results[g] \in Result
          BY <4>1 DEF ReaderInv, Accepted, Origin
        <4>3. reader.results \in [Gates -> Result]
          BY <4>2 DEF Reader
        <4> QED
          BY <4>1, <4>2, <4>3 DEF Status
      <3> QED
        BY <3>1, <3>2
    <2> QED
      BY <1>4, <2>1, <2>2 DEF CheckInputs
  <1> QED
    BY <1>1, <1>2, <1>3, <1>4 DEF StatusStep

-----------------------------------------------------------------------------
(* Processes.                                                               *)

\* What ProcessInv asks of the evaluator e and the builder b of one gate.
Coupled(e, b) ==
    /\ b # "off" => e.pc \notin {"off", "prepare"}
    /\ e.pc = "exit0" => e.passed
    /\ e.passed => e.pc \in {"open", "write", "exit0"} /\ b = "exit0"

\* An evaluator's step moves one evaluator and its builder, within what ProcessInv
\* allows, and none that has ended with exit code 0.
LEMMA EvaluatorEffect ==
    ASSUME TypeOK, ProcessInv, NEW i \in Invocations, NEW g \in Gates, EvaluatorStep(i, g)
    PROVE  /\ UNCHANGED <<current, run, rec, reader, status>>
           /\ \A j \in Invocations, h \in Gates : <<j, h>> # <<i, g>> =>
                 eval'[j][h] = eval[j][h] /\ build'[j][h] = build[j][h]
           /\ eval[i][g].pc \notin {"off", "exit0"} /\ eval'[i][g].pc # "off"
           /\ Coupled(eval'[i][g], build'[i][g])
  <1> DEFINE e == eval[i][g]
             b == build[i][g]
  <1>t. /\ eval \in [Invocations -> [Gates -> Evaluator]]
        /\ build \in [Invocations -> [Gates -> Builder]]
        /\ e \in Evaluator /\ summary[g] \in SummaryFile
    BY DEF TypeOK
  <1>c. Coupled(e, b)
    BY DEF ProcessInv, Coupled
  <1>f. Failed \in Evaluator /\ Failed.pc = "failed" /\ ~Failed.passed
    BY ConstantTypes DEF Failed, Off
  <1>1. CASE Prepare(i, g)
    <2> DEFINE n == [e EXCEPT !.pc = "wait"]
    <2>1. n \in Evaluator /\ n.pc = "wait" /\ n.passed = e.passed
      BY <1>t, SetsPc DEF Live
    <2>2. /\ eval'[i][g] = n
          /\ \A j \in Invocations, h \in Gates : <<j, h>> # <<i, g>> => eval'[j][h] = eval[j][h]
      BY <1>1, <1>t, <2>1, BecomesEffect DEF Prepare
    <2>3. /\ build'[i][g] = "run"
          /\ \A j \in Invocations, h \in Gates : <<j, h>> # <<i, g>> => build'[j][h] = build[j][h]
      BY <1>1, <1>t DEF Prepare
    <2>4. ~e.passed /\ e.pc = "prepare"
      BY <1>1, <1>c DEF Prepare, Coupled
    <2> QED
      BY <1>1, <2>1, <2>2, <2>3, <2>4 DEF Prepare, Coupled
  <1>2. CASE BuilderReturned(i, g)
    <2> DEFINE n == [e EXCEPT !.pc = "hash"]
    <2>1. n \in Evaluator /\ n.pc = "hash" /\ n.passed = e.passed
      BY <1>t, SetsPc DEF Live
    <2>2. /\ eval'[i][g] = n
          /\ \A j \in Invocations, h \in Gates : <<j, h>> # <<i, g>> => eval'[j][h] = eval[j][h]
      BY <1>2, <1>t, <2>1, BecomesEffect DEF BuilderReturned
    <2>3. ~e.passed /\ e.pc = "wait"
      BY <1>2, <1>c DEF BuilderReturned, Coupled
    <2> QED
      BY <1>2, <2>1, <2>2, <2>3 DEF BuilderReturned, Coupled, files
  <1>3. CASE BuilderTimesOut(i, g)
    <2> DEFINE n == [e EXCEPT !.pc = "hash"]
    <2>1. n \in Evaluator /\ n.pc = "hash" /\ n.passed = e.passed
      BY <1>t, SetsPc DEF Live
    <2>2. /\ eval'[i][g] = n
          /\ \A j \in Invocations, h \in Gates : <<j, h>> # <<i, g>> => eval'[j][h] = eval[j][h]
      BY <1>3, <1>t, <2>1, BecomesEffect DEF BuilderTimesOut
    <2>3. \A j \in Invocations, h \in Gates : <<j, h>> # <<i, g>> => build'[j][h] = build[j][h]
      BY <1>3, <1>t DEF BuilderTimesOut
    <2>4. ~e.passed /\ e.pc = "wait"
      BY <1>3, <1>c DEF BuilderTimesOut, Coupled
    <2> QED
      BY <1>3, <2>1, <2>2, <2>3, <2>4 DEF BuilderTimesOut, Coupled, files
  <1>4. CASE HashSummary(i, g)
    <2> DEFINE n == [e EXCEPT !.pc = "load", !.digest = summary[g]]
    <2>1. n \in Evaluator /\ n.pc = "load" /\ n.passed = e.passed
      BY <1>t, EvaluatorUpdate DEF Live, Evaluator
    <2>2. /\ eval'[i][g] = n
          /\ \A j \in Invocations, h \in Gates : <<j, h>> # <<i, g>> => eval'[j][h] = eval[j][h]
      BY <1>4, <1>t, <2>1, BecomesEffect DEF HashSummary
    <2>3. ~e.passed /\ e.pc = "hash"
      BY <1>4, <1>c DEF HashSummary, Coupled
    <2> QED
      BY <1>4, <2>1, <2>2, <2>3 DEF HashSummary, Coupled, files
  <1>5. CASE LoadSummary(i, g)
    <2> DEFINE passed == Verdict(b = "exit0", e.digest, summary[g])
               n == [e EXCEPT !.pc = "open", !.loaded = summary[g], !.passed = passed]
    <2>1. passed \in BOOLEAN /\ (passed => b = "exit0")
      BY DEF Verdict
    <2>2. n \in Evaluator /\ n.pc = "open" /\ n.passed = passed
      <3> HIDE DEF passed
      <3> QED
        BY <1>t, <2>1, EvaluatorUpdate DEF Live, Evaluator
    <2>3. /\ eval'[i][g] = n
          /\ \A j \in Invocations, h \in Gates : <<j, h>> # <<i, g>> => eval'[j][h] = eval[j][h]
      BY <1>5, <1>t, <2>2, BecomesEffect DEF LoadSummary
    <2>4. e.pc = "load" /\ UNCHANGED <<current, run, rec, reader, status, build>>
      BY <1>5 DEF LoadSummary, files
    <2> HIDE DEF n, passed
    <2> QED
      BY <2>1, <2>2, <2>3, <2>4 DEF Coupled
  <1>6. CASE OpenResult(i, g)
    <2> DEFINE n == [e EXCEPT !.pc = "write"]
    <2>1. n \in Evaluator /\ n.pc = "write" /\ n.passed = e.passed
      BY <1>t, SetsPc DEF Live
    <2>2. /\ eval'[i][g] = n
          /\ \A j \in Invocations, h \in Gates : <<j, h>> # <<i, g>> => eval'[j][h] = eval[j][h]
      BY <1>6, <1>t, <2>1, BecomesEffect DEF OpenResult
    <2> QED
      BY <1>6, <1>c, <2>1, <2>2 DEF OpenResult, Coupled
  <1>7. CASE WriteResult(i, g)
    <2> DEFINE n == IF e.passed THEN [e EXCEPT !.pc = "exit0"] ELSE Failed
    <2>1. CASE e.passed
      <3>1. n \in Evaluator /\ n.pc = "exit0" /\ n.passed
        BY <1>t, <2>1, SetsPc DEF Live
      <3>2. /\ eval'[i][g] = n
            /\ \A j \in Invocations, h \in Gates : <<j, h>> # <<i, g>> => eval'[j][h] = eval[j][h]
        BY <1>7, <1>t, <3>1, BecomesEffect DEF WriteResult
      <3> QED
        BY <1>7, <1>c, <2>1, <3>1, <3>2 DEF WriteResult, Coupled
    <2>2. CASE ~e.passed
      <3>1. /\ eval'[i][g] = Failed
            /\ \A j \in Invocations, h \in Gates : <<j, h>> # <<i, g>> => eval'[j][h] = eval[j][h]
        BY <1>7, <1>t, <1>f, <2>2, BecomesEffect DEF WriteResult
      <3> QED
        BY <1>7, <1>c, <1>f, <3>1 DEF WriteResult, Coupled
    <2> QED
      BY <2>1, <2>2
  <1>8. CASE EvaluatorFails(i, g)
    <2>1. /\ eval'[i][g] = Failed
          /\ \A j \in Invocations, h \in Gates : <<j, h>> # <<i, g>> => eval'[j][h] = eval[j][h]
      BY <1>8, <1>t, <1>f, BecomesEffect DEF EvaluatorFails
    <2> QED
      BY <1>8, <1>c, <1>f, <2>1 DEF EvaluatorFails, Coupled, Live, files
  <1> QED
    BY <1>1, <1>2, <1>3, <1>4, <1>5, <1>6, <1>7, <1>8 DEF EvaluatorStep

\* A builder's step moves that builder only, and none that has exited.
LEMMA BuilderEffect ==
    ASSUME TypeOK, NEW i \in Invocations, NEW g \in Gates, BuilderStep(i, g)
    PROVE  /\ UNCHANGED <<current, run, rec, eval, reader, result, status>>
           /\ \A j \in Invocations, h \in Gates : <<j, h>> # <<i, g>> => build'[j][h] = build[j][h]
           /\ build[i][g] \notin {"off", "exit0"} /\ build'[i][g] # "off"
  <1>t. build \in [Invocations -> [Gates -> Builder]]
    BY DEF TypeOK
  <1>1. \/ build' = [build EXCEPT ![i][g] = "torn"]
        \/ build' = [build EXCEPT ![i][g] = "wrote"]
        \/ build' = [build EXCEPT ![i][g] = "exit0"]
        \/ build' = [build EXCEPT ![i][g] = "failed"]
    BY DEF BuilderStep, OpenSummary, WriteSummary, BuilderExits
  <1>2. \A p : build' = [build EXCEPT ![i][g] = p] =>
           /\ \A j \in Invocations, h \in Gates : <<j, h>> # <<i, g>> => build'[j][h] = build[j][h]
           /\ build'[i][g] = p
    BY <1>t
  <1>3. /\ UNCHANGED <<current, run, rec, eval, reader, result, status>>
        /\ build[i][g] \notin {"off", "exit0"}
    BY DEF BuilderStep, OpenSummary, WriteSummary, BuilderExits, files
  <1> QED
    BY <1>1, <1>2, <1>3

\* Evaluators and builders keep ProcessInv.
LEMMA WorkerProcess ==
    ASSUME TypeOK, ProcessInv, NEW i \in Invocations, NEW g \in Gates,
           EvaluatorStep(i, g) \/ BuilderStep(i, g)
    PROVE  ProcessInv'
  <1>t. rec.todo \in SUBSET Gates
    BY DEF TypeOK, Recorder
  <1>1. CASE EvaluatorStep(i, g)
    <2>1. \A j \in Invocations, h \in Gates :
             /\ eval'[j][h].pc # "off" => j <= current
             /\ Coupled(eval'[j][h], build'[j][h])
             /\ eval[j][h].pc = "off" => eval'[j][h].pc = "off"
      BY <1>1, EvaluatorEffect DEF ProcessInv, Coupled
    <2>2. UNCHANGED <<current, run, rec>>
      BY <1>1, EvaluatorEffect
    <2> QED
      BY <1>t, <2>1, <2>2 DEF ProcessInv, Coupled
  <1>2. CASE BuilderStep(i, g)
    <2>1. \A j \in Invocations, h \in Gates : Coupled(eval[j][h], build[j][h])
      BY DEF ProcessInv, Coupled
    <2>2. \A j \in Invocations, h \in Gates : Coupled(eval'[j][h], build'[j][h])
      BY <1>2, <2>1, BuilderEffect DEF Coupled
    <2>3. UNCHANGED <<current, run, rec, eval>>
      BY <1>2, BuilderEffect
    <2> QED
      BY <2>2, <2>3 DEF ProcessInv, Coupled
  <1> QED
    BY <1>1, <1>2

\* The recorder keeps ProcessInv.
LEMMA RecorderProcess ==
    ASSUME TypeOK, ProcessInv,
           \/ \E r \in Runs : StartRecorder(r)
           \/ RecorderStep
           \/ KillRecorder
    PROVE  ProcessInv'
  <1>t. /\ rec \in Recorder /\ current \in 0..MaxInvocations
        /\ run \in [Invocations -> Runs \cup {NoRun}]
        /\ eval \in [Invocations -> [Gates -> Evaluator]]
    BY DEF TypeOK
  <1>1. ASSUME NEW r \in Runs, StartRecorder(r) PROVE ProcessInv'
    <2>1. /\ current' = current + 1 /\ current' \in Invocations
          /\ run'[current'] = r
          /\ \A i \in Invocations : i # current' => run'[i] = run[i]
          /\ rec'.pc = "next" /\ rec'.todo = Gates
          /\ UNCHANGED <<eval, build>>
      BY <1>1, <1>t DEF StartRecorder, Recorder
    <2>2. \A i \in Invocations : i <= current' => i <= current \/ i = current'
      BY <1>t, <2>1
    <2>3. \A g \in Gates : eval[current'][g].pc = "off"
      BY <1>t, <2>1 DEF ProcessInv
    <2>4. \A i \in Invocations : i <= current => i <= current'
      BY <1>t, <2>1
    <2> QED
      BY <2>1, <2>2, <2>3, <2>4 DEF ProcessInv
  <1>2. ASSUME NEW g \in Gates, StartEvaluator(g) PROVE ProcessInv'
    <2> DEFINE e == [Off EXCEPT !.pc = "prepare"]
    <2>1. current \in Invocations /\ eval[current][g].pc = "off" /\ build[current][g] = "off"
      BY <1>2 DEF StartEvaluator, ProcessInv
    <2>2. e \in Evaluator /\ e.pc = "prepare" /\ ~e.passed
      BY ConstantTypes DEF Off
    <2>3. /\ eval'[current][g] = e
          /\ \A j \in Invocations, h \in Gates : <<j, h>> # <<current, g>> => eval'[j][h] = eval[j][h]
      BY <1>2, <1>t, <2>1, <2>2, BecomesEffect DEF StartEvaluator
    <2>4. /\ rec'.pc = "wait" /\ rec'.gate = g /\ rec'.todo = rec.todo
          /\ rec.pc = "next" /\ UNCHANGED <<current, run, build>>
      BY <1>2, <1>t DEF StartEvaluator, Recorder
    <2>5. \A h \in rec.todo : h \in Gates /\ eval[current][h].pc = "off"
      BY <1>t, <2>4 DEF ProcessInv, Recorder
    <2> HIDE DEF e
    <2>6. current <= current
      BY <1>t
    <2> QED
      BY <2>1, <2>2, <2>3, <2>4, <2>5, <2>6 DEF ProcessInv
  <1>3. CASE EvaluatorReturned
    <2>1. /\ rec.pc = "wait" /\ rec'.pc = "hash"
          /\ rec'.todo = rec.todo /\ rec'.gate = rec.gate
          /\ UNCHANGED <<current, run, eval, build>>
      BY <1>3, <1>t DEF EvaluatorReturned, Recorder
    <2> QED
      BY <2>1 DEF ProcessInv
  <1>4. CASE EvaluatorTimesOut
    <2> DEFINE g == rec.gate
    <2>1. /\ rec.pc = "wait" /\ rec'.pc = "hash"
          /\ rec'.todo = rec.todo /\ rec'.gate = g
          /\ UNCHANGED <<current, run, build>>
          /\ eval[current][g].pc \in Live
      BY <1>4, <1>t DEF EvaluatorTimesOut, Recorder, Expires
    <2>2. current \in Invocations /\ g \in Gates
      BY <1>t, <2>1 DEF ProcessInv, Recorder
    <2>3. Failed \in Evaluator /\ Failed.pc = "failed" /\ ~Failed.passed
      BY ConstantTypes DEF Failed, Off
    <2>4. /\ eval'[current][g] = Failed
          /\ \A j \in Invocations, h \in Gates : <<j, h>> # <<current, g>> => eval'[j][h] = eval[j][h]
      BY <1>4, <1>t, <2>2, <2>3, BecomesEffect DEF EvaluatorTimesOut
    <2>5. current <= current /\ rec.todo \subseteq Gates
      BY <1>t DEF Recorder
    <2> HIDE DEF g
    <2> QED
      BY <2>1, <2>2, <2>3, <2>4, <2>5 DEF ProcessInv, Live, g
  <1>5. CASE HashResult
    <2>1. /\ rec.pc = "hash" /\ rec'.pc = "load"
          /\ rec'.todo = rec.todo /\ rec'.gate = rec.gate
          /\ UNCHANGED <<current, run, eval, build>>
      BY <1>5, <1>t DEF HashResult, Recorder
    <2> QED
      BY <2>1 DEF ProcessInv
  <1>6. CASE LoadResult
    <2>1. /\ rec.pc = "load" /\ rec'.pc \in {"open", "next"}
          /\ rec'.todo = rec.todo \ {rec.gate}
          /\ UNCHANGED <<current, run, eval, build>>
      BY <1>6, <1>t DEF LoadResult, Recorder
    <2> QED
      BY <2>1 DEF ProcessInv
  <1>7. CASE OpenEvidence
    <2>1. /\ rec.pc = "open" /\ rec'.pc = "write" /\ rec'.todo = rec.todo
          /\ UNCHANGED <<current, run, eval, build>>
      BY <1>7, <1>t DEF OpenEvidence, Recorder
    <2> QED
      BY <2>1 DEF ProcessInv
  <1>8. CASE WriteEvidence \/ KillRecorder
    <2>1. /\ rec'.pc = "idle" /\ rec'.todo = {}
          /\ UNCHANGED <<current, run, eval, build>>
      BY <1>8 DEF WriteEvidence, KillRecorder, NoRecorder
    <2> QED
      BY <2>1 DEF ProcessInv
  <1> QED
    BY <1>1, <1>2, <1>3, <1>4, <1>5, <1>6, <1>7, <1>8 DEF RecorderStep

\* The status builder does not touch the processes.
LEMMA ReaderProcess ==
    ASSUME ProcessInv, StatusStep
    PROVE  ProcessInv'
  <1>1. UNCHANGED <<current, run, rec, eval, build>>
    BY DEF StatusStep, ReadEvidence, BindResult, ReadResult, CheckInputs, files
  <1> QED
    BY <1>1 DEF ProcessInv

-----------------------------------------------------------------------------
(* What a status rests on.                                                  *)

\* An evaluation that has succeeded stays what it was.
LEMMA SuccessIsStable ==
    ASSUME TypeOK, ProcessInv, Next, NEW i \in Invocations, NEW g \in Gates,
           eval[i][g].pc = "exit0", build[i][g] = "exit0"
    PROVE  run'[i] = run[i] /\ eval'[i][g] = eval[i][g] /\ build'[i][g] = build[i][g]
  <1>t. /\ rec \in Recorder /\ current \in 0..MaxInvocations
        /\ run \in [Invocations -> Runs \cup {NoRun}]
        /\ eval \in [Invocations -> [Gates -> Evaluator]]
    BY DEF TypeOK
  <1>1. ASSUME NEW r \in Runs, StartRecorder(r)
        PROVE  run'[i] = run[i] /\ UNCHANGED <<eval, build>>
    <2>1. i <= current
      BY DEF ProcessInv
    <2>2. i # current + 1
      BY <1>t, <2>1
    <2> QED
      BY <1>1, <1>t, <2>2 DEF StartRecorder
  <1>2. ASSUME NEW h \in Gates, StartEvaluator(h)
        PROVE  eval'[i][g] = eval[i][g] /\ UNCHANGED <<run, build>>
    <2>1. current \in Invocations /\ eval[current][h].pc = "off"
      BY <1>2 DEF StartEvaluator, ProcessInv
    <2>2. <<i, g>> # <<current, h>>
      BY <2>1
    <2> QED
      BY <1>2, <1>t, <2>1, <2>2, ConstantTypes, BecomesEffect DEF StartEvaluator
  <1>3. CASE EvaluatorTimesOut
    <2>1. current \in Invocations /\ rec.gate \in Gates
      BY <1>3, <1>t DEF EvaluatorTimesOut, ProcessInv, Recorder
    <2>2. <<i, g>> # <<current, rec.gate>>
      BY <1>3 DEF EvaluatorTimesOut, Expires, Live
    <2> QED
      BY <1>3, <1>t, <2>1, <2>2, ConstantTypes, BecomesEffect DEF EvaluatorTimesOut
  <1>4. CASE EvaluatorReturned \/ HashResult \/ LoadResult \/ OpenEvidence \/ WriteEvidence
             \/ KillRecorder
    BY <1>4 DEF EvaluatorReturned, HashResult, LoadResult, OpenEvidence, WriteEvidence,
                KillRecorder
  <1>5. ASSUME NEW j \in Invocations, NEW h \in Gates, EvaluatorStep(j, h)
        PROVE  UNCHANGED run /\ eval'[i][g] = eval[i][g] /\ build'[i][g] = build[i][g]
    <2>1. <<i, g>> # <<j, h>>
      BY <1>5, EvaluatorEffect
    <2> QED
      BY <1>5, <2>1, EvaluatorEffect
  <1>6. ASSUME NEW j \in Invocations, NEW h \in Gates, BuilderStep(j, h)
        PROVE  UNCHANGED <<run, eval>> /\ build'[i][g] = build[i][g]
    <2>1. <<i, g>> # <<j, h>>
      BY <1>6, BuilderEffect
    <2> QED
      BY <1>6, <2>1, BuilderEffect
  <1>7. CASE StatusStep
    BY <1>7 DEF StatusStep, ReadEvidence, BindResult, ReadResult, CheckInputs
  <1> QED
    BY <1>1, <1>2, <1>3, <1>4, <1>5, <1>6, <1>7 DEF Next, RecorderStep

\* So does what can be said of a result by its origin.
LEMMA OriginIsStable ==
    ASSUME TypeOK, ProcessInv, Next, NEW g \in Gates, NEW res, Origin(g, res)
    PROVE  Origin(g, res)'
  <1>1. res \in Result /\ res.invocation \in Invocations
    BY DEF Origin, Result
  <1> QED
    BY <1>1, SuccessIsStable DEF Origin

\* A passing result was written by an evaluation that has succeeded.
LEMMA ResultStep ==
    ASSUME TypeOK, ProcessInv, ResultInv, Next
    PROVE  ResultInv'
  <1> SUFFICES ASSUME NEW g \in Gates, NEW res \in Result, res = result'[g], res.pass
               PROVE  Origin(g, res)'
    BY DEF ResultInv
  <1>t. /\ result \in [Gates -> ResultFile]
        /\ eval \in [Invocations -> [Gates -> Evaluator]]
        /\ NoFile \notin Result /\ Torn \notin Result
    BY FileAssumption DEF TypeOK
  <1>1. CASE res = result[g]
    BY <1>1, OriginIsStable DEF ResultInv
  <1>2. CASE res # result[g]
    <2>1. ~ \E r \in Runs : StartRecorder(r)
      BY <1>2 DEF StartRecorder, files
    <2>2. ~ \E h \in Gates : StartEvaluator(h)
      BY <1>2, <1>t DEF StartEvaluator
    <2>3. ~(EvaluatorReturned \/ EvaluatorTimesOut \/ HashResult \/ LoadResult
            \/ OpenEvidence \/ WriteEvidence \/ KillRecorder \/ StatusStep)
      BY <1>2 DEF EvaluatorReturned, EvaluatorTimesOut, HashResult, LoadResult, OpenEvidence,
                  WriteEvidence, KillRecorder, StatusStep, ReadEvidence, BindResult, ReadResult,
                  CheckInputs, files
    <2>4. \A i \in Invocations, h \in Gates : ~BuilderStep(i, h)
      BY <1>2, BuilderEffect
    <2>5. PICK i \in Invocations, h \in Gates : EvaluatorStep(i, h)
      BY <2>1, <2>2, <2>3, <2>4 DEF Next, RecorderStep
    <2>6. WriteResult(i, h)
      BY <1>2, <1>t, <2>5 DEF EvaluatorStep, Prepare, BuilderReturned, BuilderTimesOut,
         HashSummary, LoadSummary, OpenResult, EvaluatorFails, files
    <2> DEFINE e == eval[i][g]
               n == [e EXCEPT !.pc = "exit0"]
    <2>7. h = g /\ res = [run |-> run[i], invocation |-> i,
                             input |-> e.digest, pass |-> e.passed]
      BY <1>2, <1>t, <2>6 DEF WriteResult
    <2>8. e.passed /\ e.pc = "write" /\ e \in Evaluator
      BY <1>t, <2>6, <2>7 DEF WriteResult
    <2>9. n \in Evaluator /\ n.pc = "exit0" /\ n.digest = e.digest /\ n.passed
      BY <2>8, SetsPc
    <2>10. eval'[i][g] = n
      <3>1. Becomes(i, g, n)
        BY <2>6, <2>7, <2>8 DEF WriteResult
      <3> HIDE DEF n
      <3> QED
        BY <1>t, <2>9, <3>1, BecomesEffect
    <2>11. build[i][g] = "exit0" /\ UNCHANGED <<run, build>>
      BY <2>6, <2>7, <2>8 DEF WriteResult, ProcessInv
    <2>12. e.passed = TRUE
      BY <2>8 DEF Evaluator
    <2>13. res.invocation = i /\ eval'[i][g].digest = e.digest /\ run'[i] = run[i]
      BY <2>7, <2>9, <2>10, <2>11
    <2>14. res = [run |-> run'[i], invocation |-> i, input |-> eval'[i][g].digest, pass |-> TRUE]
      <3> HIDE DEF e, n
      <3> QED
        BY <2>7, <2>12, <2>13
    <2> QED
      BY <2>9, <2>10, <2>11, <2>13, <2>14 DEF Origin
  <1> QED
    BY <1>1, <1>2

\* What the status builder has accepted so far rests on succeeded evaluations of
\* the run of its evidence.
LEMMA ReaderStep ==
    ASSUME TypeOK, ProcessInv, ResultInv, ReaderInv, Next
    PROVE  ReaderInv'
  <1>t. reader \in Reader
    BY DEF TypeOK
  <1>o. \A g \in Gates : \A res : Origin(g, res) => Origin(g, res)'
    BY OriginIsStable
  <1>1. CASE reader' = reader
    <2>1. \A g \in Gates : Accepted(g)' => Accepted(g)
      BY <1>1 DEF Accepted
    <2> QED
      BY <1>1, <1>o, <2>1 DEF ReaderInv
  <1>2. CASE reader' = NoReader
    BY <1>2 DEF ReaderInv, NoReader
  <1>3. CASE reader' # reader /\ reader' # NoReader
    <2>1. StatusStep
      <3>1. ~ \E r \in Runs : StartRecorder(r)
        BY <1>3 DEF StartRecorder
      <3>2. ~(RecorderStep \/ KillRecorder)
        BY <1>3 DEF RecorderStep, StartEvaluator, EvaluatorReturned, EvaluatorTimesOut,
           HashResult, LoadResult, OpenEvidence, WriteEvidence, KillRecorder
      <3>3. ~ \E i \in Invocations, g \in Gates : EvaluatorStep(i, g) \/ BuilderStep(i, g)
        BY <1>3, EvaluatorEffect, BuilderEffect
      <3> QED
        BY <3>1, <3>2, <3>3 DEF Next
    <2>2. CASE ReadEvidence
      <3>1. /\ evidence \in Evidence
            /\ reader'.pc = "hash" /\ reader'.evidence = evidence /\ reader'.todo = Gates
        BY <1>3, <1>t, <2>2 DEF ReadEvidence, Reader
      <3> QED
        BY <3>1 DEF ReaderInv, Accepted
    <2>3. ASSUME NEW g \in Gates, BindResult(g) PROVE ReaderInv'
      <3>1. /\ reader.pc = "hash" /\ reader'.pc = "load" /\ reader'.todo = reader.todo
            /\ reader'.evidence = reader.evidence /\ reader'.results = reader.results
        BY <1>3, <1>t, <2>3 DEF BindResult, Reader
      <3>2. \A h \in Gates : Accepted(h)' => Accepted(h)
        BY <3>1 DEF Accepted
      <3> QED
        BY <1>o, <3>1, <3>2 DEF ReaderInv
    <2>4. CASE ReadResult
      <3> DEFINE g == reader.gate
      <3>1. /\ g \in Gates /\ reader.pc = "load" /\ reader'.pc = "inputs"
            /\ Acceptable(result[g])
            /\ reader'.todo = reader.todo /\ reader'.gate = g
            /\ reader'.evidence = reader.evidence
            /\ reader'.results[g] = result[g]
            /\ \A h \in Gates : h # g => reader'.results[h] = reader.results[h]
        BY <1>3, <1>t, <2>4 DEF ReadResult, Reader
      <3>2. Origin(g, result[g]) /\ result[g].run = reader.evidence.run
        BY <3>1 DEF Acceptable, ResultInv
      <3>3. \A h \in Gates : Accepted(h)' => Accepted(h) \/ h = g
        BY <3>1 DEF Accepted
      <3> HIDE DEF g
      <3> QED
        BY <1>o, <3>1, <3>2, <3>3 DEF ReaderInv
    <2>5. CASE CheckInputs
      <3>1. /\ reader.pc = "inputs" /\ reader'.pc = "hash"
            /\ reader'.todo = reader.todo \ {reader.gate}
            /\ reader'.evidence = reader.evidence /\ reader'.results = reader.results
        BY <1>3, <1>t, <2>5 DEF CheckInputs, Reader
      <3>2. \A h \in Gates : Accepted(h)' => Accepted(h)
        BY <3>1 DEF Accepted
      <3> QED
        BY <1>o, <3>1, <3>2 DEF ReaderInv
    <2> QED
      BY <2>1, <2>2, <2>3, <2>4, <2>5 DEF StatusStep
  <1> QED
    BY <1>1, <1>2, <1>3

\* A status is written when every gate has been accepted.
LEMMA StatusInvStep ==
    ASSUME TypeOK, ProcessInv, ReaderInv, StatusInv, Next
    PROVE  StatusInv'
  <1>t. reader \in Reader /\ NoFile \notin Status
    BY FileAssumption DEF TypeOK
  <1>o. \A g \in Gates : \A res : Origin(g, res) => Origin(g, res)'
    BY OriginIsStable
  <1>1. CASE status' = status
    BY <1>1, <1>o DEF StatusInv
  <1>2. CASE status' = NoFile
    BY <1>2 DEF StatusInv
  <1>3. CASE status' # status /\ status' # NoFile
    <2>1. CheckInputs
      <3>1. ~ \E r \in Runs : StartRecorder(r)
        BY <1>3 DEF StartRecorder, files
      <3>2. ~(RecorderStep \/ KillRecorder)
        BY <1>3 DEF RecorderStep, StartEvaluator, EvaluatorReturned, EvaluatorTimesOut,
           HashResult, LoadResult, OpenEvidence, WriteEvidence, KillRecorder, files
      <3>3. ~ \E i \in Invocations, g \in Gates : EvaluatorStep(i, g) \/ BuilderStep(i, g)
        BY <1>3, EvaluatorEffect, BuilderEffect
      <3>4. ~(ReadEvidence \/ ReadResult \/ \E g \in Gates : BindResult(g))
        BY <1>3 DEF ReadEvidence, ReadResult, BindResult, files
      <3> QED
        BY <3>1, <3>2, <3>3, <3>4 DEF Next, StatusStep
    <2>2. /\ reader.pc = "inputs" /\ reader.todo \ {reader.gate} = {}
          /\ status' = [evidence |-> reader.evidence, results |-> reader.results]
      BY <1>3, <2>1 DEF CheckInputs
    <2>3. \A g \in Gates : Accepted(g)
      BY <2>2 DEF Accepted
    <2>4. \A g \in Gates : \A res : res = reader.results[g] =>
             Origin(g, res)' /\ res.run = reader.evidence.run
      BY <2>2, <2>3, <1>o DEF ReaderInv
    <2> QED
      BY <2>2, <2>4 DEF StatusInv
  <1> QED
    BY <1>1, <1>2, <1>3

-----------------------------------------------------------------------------
(* What a step does to one evaluator, builder, summary or result.           *)

\* The steps an evaluator can make; n is what becomes of e.
Ends(e, n) ==
    /\ n.digest = NoFile /\ ~n.passed
    /\ \/ e.pc = "off" /\ n.pc = "prepare"
       \/ e.pc \in Live /\ n.pc = "failed"

Advances(e, n) ==
    /\ <<e.pc, n.pc>> \in {<<"prepare", "wait">>, <<"wait", "hash">>,
                           <<"open", "write">>, <<"write", "exit0">>}
    /\ n.digest = e.digest /\ n.loaded = e.loaded /\ n.passed = e.passed

Hashes(e, n, content) ==
    /\ e.pc = "hash" /\ n.pc = "load"
    /\ n.digest = content /\ ~n.passed

Loads(e, n, content, exit0) ==
    /\ e.pc = "load" /\ n.pc = "open"
    /\ n.digest = e.digest /\ n.loaded = content
    /\ n.passed => content \in Summary /\ exit0

EvaluatorMoves(i, g) ==
    LET e == eval[i][g]
        n == eval'[i][g]
    IN  \/ n = e
        \/ Ends(e, n)
        \/ Advances(e, n) /\ (n.pc = "hash" => build'[i][g] \in {"exit0", "failed"})
        \/ /\ Hashes(e, n, summary[g]) \/ Loads(e, n, summary[g], build[i][g] = "exit0")
           /\ UNCHANGED <<build, summary>>

\* An evaluator's own steps are of these kinds.
LEMMA EvaluatorOwnMove ==
    ASSUME TypeOK, ProcessInv, NEW i \in Invocations, NEW g \in Gates, EvaluatorStep(i, g)
    PROVE  EvaluatorMoves(i, g)
  <1> DEFINE e == eval[i][g]
  <1>t. /\ eval \in [Invocations -> [Gates -> Evaluator]]
        /\ build \in [Invocations -> [Gates -> Builder]]
        /\ e \in Evaluator /\ summary[g] \in SummaryFile
    BY DEF TypeOK
  <1>c. Coupled(e, build[i][g])
    BY DEF ProcessInv, Coupled
  <1>b. \A n \in Evaluator : Becomes(i, g, n) => eval'[i][g] = n
    BY <1>t, BecomesEffect
  <1>f. Failed \in Evaluator /\ Failed.pc = "failed" /\ ~Failed.passed /\ Failed.digest = NoFile
    BY ConstantTypes DEF Failed, Off
  <1>1. CASE Prepare(i, g)
    <2> DEFINE n == [e EXCEPT !.pc = "wait"]
    <2>1. n \in Evaluator /\ Advances(e, n) /\ n.pc = "wait"
      BY <1>1, <1>t DEF Prepare, Advances, Evaluator, Live
    <2>2. eval'[i][g] = n
      BY <1>1, <1>b, <2>1 DEF Prepare
    <2> QED
      BY <2>1, <2>2 DEF EvaluatorMoves
  <1>2. CASE BuilderReturned(i, g) \/ BuilderTimesOut(i, g)
    <2> DEFINE n == [e EXCEPT !.pc = "hash"]
    <2>1. n \in Evaluator /\ Advances(e, n)
      BY <1>2, <1>t DEF BuilderReturned, BuilderTimesOut, Advances, Evaluator, Live
    <2>2. eval'[i][g] = n
      BY <1>2, <1>b, <2>1 DEF BuilderReturned, BuilderTimesOut
    <2>3. build'[i][g] \in {"exit0", "failed"}
      BY <1>2, <1>t DEF BuilderReturned, BuilderTimesOut
    <2> QED
      BY <2>1, <2>2, <2>3 DEF EvaluatorMoves
  <1>3. CASE HashSummary(i, g)
    <2> DEFINE n == [e EXCEPT !.pc = "load", !.digest = summary[g]]
    <2>1. n \in Evaluator /\ Hashes(e, n, summary[g])
      BY <1>3, <1>t, <1>c DEF HashSummary, Hashes, Evaluator, Live, Coupled
    <2>2. eval'[i][g] = n /\ UNCHANGED <<build, summary>>
      BY <1>3, <1>b, <2>1 DEF HashSummary, files
    <2> QED
      BY <2>1, <2>2 DEF EvaluatorMoves
  <1>4. CASE LoadSummary(i, g)
    <2> DEFINE passed == Verdict(build[i][g] = "exit0", e.digest, summary[g])
               n == [e EXCEPT !.pc = "open", !.loaded = summary[g], !.passed = passed]
    <2>1. passed \in BOOLEAN /\ (passed => summary[g] \in Summary /\ build[i][g] = "exit0")
      BY DEF Verdict
    <2>2. n \in Evaluator /\ Loads(e, n, summary[g], build[i][g] = "exit0")
      <3>1. e.pc = "load"
        BY <1>4 DEF LoadSummary
      <3> HIDE DEF passed
      <3> QED
        BY <1>t, <2>1, <3>1 DEF Loads, Evaluator, Live
    <2>3. eval'[i][g] = n /\ UNCHANGED <<build, summary>>
      BY <1>4, <1>b, <2>2 DEF LoadSummary, files
    <2> HIDE DEF n
    <2> QED
      BY <2>2, <2>3 DEF EvaluatorMoves
  <1>5. CASE OpenResult(i, g)
    <2> DEFINE n == [e EXCEPT !.pc = "write"]
    <2>1. n \in Evaluator /\ Advances(e, n) /\ n.pc = "write"
      BY <1>5, <1>t DEF OpenResult, Advances, Evaluator, Live
    <2>2. eval'[i][g] = n
      BY <1>5, <1>b, <2>1 DEF OpenResult
    <2> QED
      BY <2>1, <2>2 DEF EvaluatorMoves
  <1>6. CASE WriteResult(i, g)
    <2> DEFINE n == [e EXCEPT !.pc = "exit0"]
    <2>1. e.pc = "write" /\ Becomes(i, g, IF e.passed THEN n ELSE Failed)
      BY <1>6 DEF WriteResult
    <2>2. n \in Evaluator /\ Advances(e, n) /\ n.pc = "exit0"
      BY <2>1, <1>t DEF Advances, Evaluator
    <2>3. CASE e.passed
      <3>1. eval'[i][g] = n
        BY <1>b, <2>1, <2>2, <2>3
      <3> QED
        BY <2>2, <3>1 DEF EvaluatorMoves
    <2>4. CASE ~e.passed
      <3>1. eval'[i][g] = Failed
        BY <1>b, <1>f, <2>1, <2>4
      <3> QED
        BY <1>f, <2>1, <3>1 DEF EvaluatorMoves, Ends, Live
    <2> QED
      BY <2>3, <2>4
  <1>7. CASE EvaluatorFails(i, g)
    <2>1. eval'[i][g] = Failed
      BY <1>7, <1>b, <1>f DEF EvaluatorFails
    <2> QED
      BY <1>7, <1>f, <2>1 DEF EvaluatorMoves, Ends, EvaluatorFails
  <1> QED
    BY <1>1, <1>2, <1>3, <1>4, <1>5, <1>6, <1>7 DEF EvaluatorStep

\* Nothing else moves an evaluator than itself, its start and its timeout.
LEMMA EvaluatorMove ==
    ASSUME TypeOK, ProcessInv, Next, NEW i \in Invocations, NEW g \in Gates
    PROVE  EvaluatorMoves(i, g)
  <1>t. /\ rec \in Recorder
        /\ eval \in [Invocations -> [Gates -> Evaluator]]
    BY DEF TypeOK
  <1>1. ASSUME NEW h \in Gates, StartEvaluator(h) PROVE EvaluatorMoves(i, g)
    <2> DEFINE n == [Off EXCEPT !.pc = "prepare"]
    <2>1. current \in Invocations /\ eval[current][h].pc = "off"
      BY <1>1 DEF StartEvaluator, ProcessInv
    <2>2. n \in Evaluator /\ n.pc = "prepare" /\ ~n.passed /\ n.digest = NoFile
      BY ConstantTypes DEF Off
    <2>3. /\ eval'[current][h] = n
          /\ \A j \in Invocations, k \in Gates : <<j, k>> # <<current, h>> => eval'[j][k] = eval[j][k]
      BY <1>1, <1>t, <2>1, <2>2, BecomesEffect DEF StartEvaluator
    <2> HIDE DEF n
    <2> QED
      BY <2>1, <2>2, <2>3 DEF EvaluatorMoves, Ends
  <1>2. CASE EvaluatorTimesOut
    <2>1. current \in Invocations /\ rec.gate \in Gates /\ eval[current][rec.gate].pc \in Live
      BY <1>2, <1>t DEF EvaluatorTimesOut, ProcessInv, Recorder, Expires
    <2>2. Failed \in Evaluator /\ Failed.pc = "failed" /\ ~Failed.passed /\ Failed.digest = NoFile
      BY ConstantTypes DEF Failed, Off
    <2>3. /\ eval'[current][rec.gate] = Failed
          /\ \A j \in Invocations, k \in Gates :
                <<j, k>> # <<current, rec.gate>> => eval'[j][k] = eval[j][k]
      BY <1>2, <1>t, <2>1, <2>2, BecomesEffect DEF EvaluatorTimesOut
    <2> QED
      BY <2>1, <2>2, <2>3 DEF EvaluatorMoves, Ends
  <1>3. CASE \/ \E r \in Runs : StartRecorder(r)
             \/ EvaluatorReturned \/ HashResult \/ LoadResult \/ OpenEvidence \/ WriteEvidence
             \/ KillRecorder \/ StatusStep
    <2>1. UNCHANGED eval
      BY <1>3 DEF StartRecorder, EvaluatorReturned, HashResult, LoadResult, OpenEvidence,
         WriteEvidence, KillRecorder, StatusStep, ReadEvidence, BindResult, ReadResult, CheckInputs
    <2> QED
      BY <2>1 DEF EvaluatorMoves
  <1>4. ASSUME NEW j \in Invocations, NEW h \in Gates, EvaluatorStep(j, h)
        PROVE  EvaluatorMoves(i, g)
    <2>1. CASE j = i /\ h = g
      BY <1>4, <2>1, EvaluatorOwnMove
    <2>2. CASE <<i, g>> # <<j, h>>
      <3>1. eval'[i][g] = eval[i][g]
        BY <1>4, <2>2, EvaluatorEffect
      <3> QED
        BY <3>1 DEF EvaluatorMoves
    <2> QED
      BY <2>1, <2>2
  <1>5. ASSUME NEW j \in Invocations, NEW h \in Gates, BuilderStep(j, h)
        PROVE  EvaluatorMoves(i, g)
    <2>1. UNCHANGED eval
      BY <1>5, BuilderEffect
    <2> QED
      BY <2>1 DEF EvaluatorMoves
  <1> QED
    BY <1>1, <1>2, <1>3, <1>4, <1>5 DEF Next, RecorderStep

\* A builder goes on or exits; only its evaluator starts it, once.
BuilderMoves(i, g) ==
    \/ build'[i][g] = build[i][g]
    \/ <<build[i][g], build'[i][g]>> \in
          {<<"off", "run">>, <<"run", "torn">>, <<"run", "wrote">>, <<"torn", "wrote">>,
           <<"wrote", "exit0">>, <<"run", "failed">>, <<"torn", "failed">>,
           <<"wrote", "failed">>}

LEMMA BuilderMove ==
    ASSUME TypeOK, ProcessInv, Next, NEW i \in Invocations, NEW g \in Gates
    PROVE  BuilderMoves(i, g)
  <1>t. build \in [Invocations -> [Gates -> Builder]]
    BY DEF TypeOK
  <1>p. \A j \in Invocations, h \in Gates : \A p :
           build' = [build EXCEPT ![j][h] = p] =>
              /\ build'[j][h] = p
              /\ <<i, g>> # <<j, h>> => build'[i][g] = build[i][g]
    BY <1>t
  <1>1. ASSUME NEW j \in Invocations, NEW h \in Gates, EvaluatorStep(j, h)
        PROVE  BuilderMoves(i, g)
    <2>1. CASE Prepare(j, h)
      <3>1. build[j][h] = "off" /\ build' = [build EXCEPT ![j][h] = "run"]
        BY <2>1 DEF Prepare, ProcessInv
      <3> QED
        BY <1>p, <3>1 DEF BuilderMoves
    <2>2. CASE BuilderTimesOut(j, h)
      <3>1. /\ build[j][h] \in {"run", "torn", "wrote"}
            /\ build' = [build EXCEPT ![j][h] = "failed"]
        BY <2>2 DEF BuilderTimesOut
      <3> QED
        BY <1>p, <3>1 DEF BuilderMoves
    <2>3. CASE ~Prepare(j, h) /\ ~BuilderTimesOut(j, h)
      BY <1>1, <2>3 DEF EvaluatorStep, BuilderReturned, HashSummary, LoadSummary, OpenResult,
         WriteResult, EvaluatorFails, BuilderMoves
    <2> QED
      BY <2>1, <2>2, <2>3
  <1>2. ASSUME NEW j \in Invocations, NEW h \in Gates, BuilderStep(j, h)
        PROVE  BuilderMoves(i, g)
    <2>1. \/ build[j][h] = "run" /\ build' = [build EXCEPT ![j][h] = "torn"]
          \/ build[j][h] \in {"run", "torn"} /\ build' = [build EXCEPT ![j][h] = "wrote"]
          \/ build[j][h] = "wrote" /\ build' = [build EXCEPT ![j][h] = "exit0"]
          \/ build[j][h] \in {"run", "torn", "wrote"} /\ build' = [build EXCEPT ![j][h] = "failed"]
      BY <1>2 DEF BuilderStep, OpenSummary, WriteSummary, BuilderExits
    <2> QED
      BY <1>p, <2>1 DEF BuilderMoves
  <1>3. CASE ~ \E j \in Invocations, h \in Gates : EvaluatorStep(j, h) \/ BuilderStep(j, h)
    <2>1. UNCHANGED build
      BY <1>3 DEF Next, StartRecorder, RecorderStep, StartEvaluator, EvaluatorReturned,
         EvaluatorTimesOut, HashResult, LoadResult, OpenEvidence, WriteEvidence, KillRecorder,
         StatusStep, ReadEvidence, BindResult, ReadResult, CheckInputs
    <2> QED
      BY <2>1 DEF BuilderMoves
  <1> QED
    BY <1>1, <1>2, <1>3

\* What is read or written here never is both a file's content and no content.
LEMMA ContentsDiffer ==
    /\ NoFile # Torn
    /\ NoFile \notin Summary /\ Torn \notin Summary
    /\ NoFile \notin Result /\ Torn \notin Result
    /\ NoFile \notin Evidence /\ Torn \notin Evidence /\ NoFile \notin Status
  BY FileAssumption

\* The summary changes by an evaluator's reset and by what a builder writes: an
\* empty file when it opens it, then a content that is its own.
LEMMA SummaryMove ==
    ASSUME TypeOK, ProcessInv, Next, NEW g \in Gates
    PROVE  \/ summary'[g] = summary[g]
           \/ summary'[g] = NoFile
           \/ /\ summary'[g] = Torn
              /\ \E k \in Invocations : build[k][g] = "run" /\ build'[k][g] = "torn"
           \/ \E k \in Invocations :
                 /\ build[k][g] \in {"run", "torn"} /\ build'[k][g] = "wrote"
                 /\ summary'[g] \in Summary /\ summary'[g].invocation = k
  <1>t. /\ summary \in [Gates -> SummaryFile]
        /\ build \in [Invocations -> [Gates -> Builder]]
    BY DEF TypeOK
  <1>1. ASSUME NEW k \in Invocations, NEW h \in Gates, Prepare(k, h)
        PROVE  summary'[g] = summary[g] \/ summary'[g] = NoFile
    BY <1>1, <1>t DEF Prepare
  <1>2. ASSUME NEW k \in Invocations, NEW h \in Gates, OpenSummary(k, h), summary'[g] # summary[g]
        PROVE  summary'[g] = Torn /\ build[k][g] = "run" /\ build'[k][g] = "torn"
    BY <1>2, <1>t DEF OpenSummary
  <1>3. ASSUME NEW k \in Invocations, NEW h \in Gates, WriteSummary(k, h),
               summary'[g] # summary[g]
        PROVE  /\ build[k][g] \in {"run", "torn"} /\ build'[k][g] = "wrote"
               /\ summary'[g] \in Summary /\ summary'[g].invocation = k
    <2>1. PICK pass \in BOOLEAN : summary' =
             [summary EXCEPT ![h] = [run |-> run[k], invocation |-> k, pass |-> pass]]
      BY <1>3 DEF WriteSummary
    <2>2. h = g
      BY <1>3, <1>t, <2>1
    <2>3. run[k] \in Runs
      BY <1>3 DEF WriteSummary, ProcessInv
    <2>4. [run |-> run[k], invocation |-> k, pass |-> pass] \in Summary
      BY <2>3 DEF Summary
    <2> QED
      BY <1>3, <1>t, <2>1, <2>2, <2>4 DEF WriteSummary
  <1>4. CASE ~ \E k \in Invocations, h \in Gates :
                  Prepare(k, h) \/ OpenSummary(k, h) \/ WriteSummary(k, h)
    <2>1. CASE \E r \in Runs : StartRecorder(r)
      BY <2>1 DEF StartRecorder, files
    <2>2. CASE RecorderStep \/ KillRecorder
      BY <2>2 DEF RecorderStep, StartEvaluator, EvaluatorReturned, EvaluatorTimesOut,
         HashResult, LoadResult, OpenEvidence, WriteEvidence, KillRecorder, files
    <2>3. ASSUME NEW k \in Invocations, NEW h \in Gates, EvaluatorStep(k, h) \/ BuilderStep(k, h)
          PROVE  UNCHANGED summary
      BY <1>4, <2>3 DEF EvaluatorStep, BuilderReturned, BuilderTimesOut, HashSummary,
         LoadSummary, OpenResult, WriteResult, EvaluatorFails, BuilderStep, BuilderExits, files
    <2>4. CASE StatusStep
      BY <2>4 DEF StatusStep, ReadEvidence, BindResult, ReadResult, CheckInputs, files
    <2> QED
      BY <2>1, <2>2, <2>3, <2>4 DEF Next
  <1> QED
    BY <1>1, <1>2, <1>3, <1>4

\* The result changes likewise, by evaluators.
LEMMA ResultMove ==
    ASSUME TypeOK, ProcessInv, Next, NEW g \in Gates
    PROVE  \/ result'[g] = result[g]
           \/ result'[g] = NoFile
           \/ /\ result'[g] = Torn
              /\ \E k \in Invocations : eval[k][g].pc = "open" /\ eval'[k][g].pc = "write"
           \/ \E k \in Invocations :
                 /\ eval[k][g].pc = "write" /\ eval'[k][g].pc \in {"exit0", "failed"}
                 /\ result'[g] \in Result /\ result'[g].invocation = k
  <1>t. /\ result \in [Gates -> ResultFile]
        /\ eval \in [Invocations -> [Gates -> Evaluator]]
    BY DEF TypeOK
  <1>1. ASSUME NEW k \in Invocations, NEW h \in Gates, Prepare(k, h)
        PROVE  result'[g] = result[g] \/ result'[g] = NoFile
    BY <1>1, <1>t DEF Prepare
  <1>2. ASSUME NEW h \in Gates, StartEvaluator(h)
        PROVE  result'[g] = result[g] \/ result'[g] = NoFile
    BY <1>2, <1>t DEF StartEvaluator
  <1>3. ASSUME NEW k \in Invocations, NEW h \in Gates, OpenResult(k, h), result'[g] # result[g]
        PROVE  result'[g] = Torn /\ eval[k][g].pc = "open" /\ eval'[k][g].pc = "write"
    <2> DEFINE n == [eval[k][h] EXCEPT !.pc = "write"]
    <2>1. /\ h = g /\ result'[g] = Torn /\ eval[k][g].pc = "open"
          /\ eval[k][h] \in Evaluator
      BY <1>3, <1>t DEF OpenResult
    <2>2. n \in Evaluator /\ n.pc = "write"
      BY <2>1, SetsPc DEF Live
    <2>3. Becomes(k, h, n)
      BY <1>3 DEF OpenResult
    <2> HIDE DEF n
    <2>4. eval'[k][h] = n
      BY <1>t, <2>2, <2>3, BecomesEffect
    <2> QED
      BY <2>1, <2>2, <2>4
  <1>4. ASSUME NEW k \in Invocations, NEW h \in Gates, WriteResult(k, h), result'[g] # result[g]
        PROVE  /\ eval[k][g].pc = "write" /\ eval'[k][g].pc \in {"exit0", "failed"}
               /\ result'[g] \in Result /\ result'[g].invocation = k
    <2> DEFINE e == eval[k][h]
               n == IF e.passed THEN [e EXCEPT !.pc = "exit0"] ELSE Failed
               res == [run |-> run[k], invocation |-> k, input |-> e.digest, pass |-> e.passed]
    <2>1. h = g /\ e.pc = "write" /\ result'[g] = res
      BY <1>4, <1>t DEF WriteResult
    <2>2. n \in Evaluator /\ n.pc \in {"exit0", "failed"}
      <3>1. e \in Evaluator /\ Failed \in Evaluator /\ Failed.pc = "failed"
        BY <1>t, ConstantTypes DEF Failed, Off
      <3>2. [e EXCEPT !.pc = "exit0"] \in Evaluator /\ [e EXCEPT !.pc = "exit0"].pc = "exit0"
        BY <3>1, SetsPc
      <3> QED
        BY <3>1, <3>2
    <2>3. Becomes(k, h, n)
      BY <1>4 DEF WriteResult
    <2>4. run[k] \in Runs /\ e.digest \in SummaryFile /\ e.passed \in BOOLEAN
      BY <1>t, <2>1 DEF ProcessInv, Evaluator
    <2>5. res \in Result /\ res.invocation = k
      BY <2>4 DEF Result
    <2> HIDE DEF n, res
    <2>6. eval'[k][h] = n
      BY <1>t, <2>2, <2>3, BecomesEffect
    <2> QED
      BY <2>1, <2>2, <2>5, <2>6
  <1>5. CASE ~ \/ \E h \in Gates : StartEvaluator(h)
               \/ \E k \in Invocations, h \in Gates :
                     Prepare(k, h) \/ OpenResult(k, h) \/ WriteResult(k, h)
    <2>1. ASSUME StatusStep \/ KillRecorder \/ \E r \in Runs : StartRecorder(r)
          PROVE  UNCHANGED result
      BY <2>1 DEF StartRecorder, KillRecorder, StatusStep, ReadEvidence, BindResult,
         ReadResult, CheckInputs, files
    <2>2. ASSUME RecorderStep PROVE UNCHANGED result
      BY <1>5, <2>2 DEF RecorderStep, EvaluatorReturned, EvaluatorTimesOut, HashResult,
         LoadResult, OpenEvidence, WriteEvidence, files
    <2>3. ASSUME NEW i \in Invocations, NEW h \in Gates, EvaluatorStep(i, h)
          PROVE  UNCHANGED result
      BY <1>5, <2>3 DEF EvaluatorStep, BuilderReturned, BuilderTimesOut, HashSummary,
         LoadSummary, EvaluatorFails, files
    <2>4. ASSUME NEW i \in Invocations, NEW h \in Gates, BuilderStep(i, h)
          PROVE  UNCHANGED result
      BY <2>4 DEF BuilderStep, OpenSummary, WriteSummary, BuilderExits, files
    <2> QED
      BY <2>1, <2>2, <2>3, <2>4 DEF Next
  <1> QED
    BY <1>1, <1>2, <1>3, <1>4, <1>5

\* An evaluator that has written its result, or a builder its summary, does not
\* begin again; nor do those leave that may have opened a file.
LEMMA PastStages ==
    ASSUME TypeOK, ProcessInv, Next, NEW i \in Invocations, NEW g \in Gates
    PROVE  /\ \A stages \in {{"exit0"}, {"exit0", "failed"}, {"write", "exit0", "failed"}} :
                 eval[i][g].pc \in stages => eval'[i][g].pc \in stages
           /\ \A stages \in {{"exit0"}, {"exit0", "failed"}, {"wrote", "exit0", "failed"}} :
                 build[i][g] \in stages => build'[i][g] \in stages
           /\ ResultWriters(i, g) \subseteq ResultWriters(i, g)'
           /\ SummaryWriters(i, g) \subseteq SummaryWriters(i, g)'
  <1>1. \A j \in Invocations : EvaluatorMoves(j, g) /\ BuilderMoves(j, g)
    BY EvaluatorMove, BuilderMove
  <1>2. \A j \in Invocations :
           \A stages \in {{"exit0"}, {"exit0", "failed"}, {"write", "exit0", "failed"}} :
              eval[j][g].pc \in stages => eval'[j][g].pc \in stages
    BY <1>1 DEF EvaluatorMoves, Ends, Advances, Hashes, Loads, Live
  <1>3. build \in [Invocations -> [Gates -> Builder]]
    BY DEF TypeOK
  <1>4. \A j \in Invocations :
           /\ \A stages \in {{"exit0"}, {"exit0", "failed"}, {"wrote", "exit0", "failed"}} :
                 build[j][g] \in stages => build'[j][g] \in stages
           /\ build[j][g] \notin {"off", "run"} => build'[j][g] \notin {"off", "run"}
    BY <1>1, <1>3 DEF BuilderMoves
  <1> QED
    BY <1>2, <1>4 DEF ResultWriters, SummaryWriters

-----------------------------------------------------------------------------
(* Contents that do not come back.                                          *)

\* What was written out stays written out.
LEMMA OutStays ==
    ASSUME TypeOK, ProcessInv, Next, NEW g \in Gates
    PROVE  /\ \A s \in Summary : SummaryOut(g, s) => SummaryOut(g, s)'
           /\ \A res \in Result : ResultOut(g, res) => ResultOut(g, res)'
  BY PastStages DEF SummaryOut, ResultOut, Summary, Result

\* A builder that has written has replaced what it had torn, and so has an
\* evaluator that succeeds.
LEMMA WritingReplaces ==
    ASSUME TypeOK, ProcessInv, Next, NEW i \in Invocations, NEW g \in Gates
    PROVE  /\ build[i][g] = "torn" /\ build'[i][g] = "wrote" => summary'[g] # Torn
           /\ eval[i][g].pc = "write" /\ eval'[i][g].pc = "exit0" => result'[g] # Torn
  <1>t. /\ summary \in [Gates -> SummaryFile] /\ result \in [Gates -> ResultFile]
        /\ build \in [Invocations -> [Gates -> Builder]]
    BY DEF TypeOK
  <1>1. ASSUME build[i][g] = "torn", build'[i][g] = "wrote"
        PROVE  summary'[g] # Torn
    <2>1. PICK j \in Invocations, h \in Gates : EvaluatorStep(j, h) \/ BuilderStep(j, h)
      <3>1. build' # build
        BY <1>1
      <3> QED
        BY <3>1 DEF Next, StartRecorder, RecorderStep, StartEvaluator, EvaluatorReturned,
           EvaluatorTimesOut, HashResult, LoadResult, OpenEvidence, WriteEvidence, KillRecorder,
           StatusStep, ReadEvidence, BindResult, ReadResult, CheckInputs
    <2>2. CASE EvaluatorStep(j, h)
      <3>1. <<i, g>> = <<j, h>>
        BY <1>1, <2>2, EvaluatorEffect
      <3>2. build' = [build EXCEPT ![j][h] = "run"] \/ build' = [build EXCEPT ![j][h] = "failed"]
        BY <1>1, <2>2 DEF EvaluatorStep, Prepare, BuilderReturned, BuilderTimesOut, HashSummary,
           LoadSummary, OpenResult, WriteResult, EvaluatorFails
      <3> QED
        BY <1>1, <1>t, <3>1, <3>2
    <2>3. CASE BuilderStep(j, h)
      <3>1. <<i, g>> = <<j, h>>
        BY <1>1, <2>3, BuilderEffect
      <3>2. WriteSummary(i, g)
        BY <1>1, <1>t, <2>3, <3>1 DEF BuilderStep, OpenSummary, BuilderExits
      <3>3. PICK pass \in BOOLEAN : summary' =
               [summary EXCEPT ![g] = [run |-> run[i], invocation |-> i, pass |-> pass]]
        BY <3>2 DEF WriteSummary
      <3>4. [run |-> run[i], invocation |-> i, pass |-> pass] \in Summary
        BY <1>1 DEF Summary, ProcessInv
      <3> QED
        BY <1>t, <3>3, <3>4, ContentsDiffer
    <2> QED
      BY <2>1, <2>2, <2>3
  <1>2. ASSUME eval[i][g].pc = "write", eval'[i][g].pc = "exit0"
        PROVE  result'[g] # Torn
    <2>e. eval \in [Invocations -> [Gates -> Evaluator]] /\ rec \in Recorder
      BY DEF TypeOK
    <2>1. ~ \E h \in Gates : StartEvaluator(h)
      <3> SUFFICES ASSUME NEW h \in Gates, StartEvaluator(h) PROVE FALSE
        OBVIOUS
      <3>1. current \in Invocations /\ eval[current][h].pc = "off"
        BY DEF StartEvaluator, ProcessInv
      <3>2. PICK n \in Evaluator : n = [Off EXCEPT !.pc = "prepare"]
        BY ConstantTypes
      <3>3. n.pc = "prepare" /\ Becomes(current, h, n)
        BY <3>2 DEF Off, StartEvaluator
      <3>4. /\ eval'[current][h] = n
            /\ <<i, g>> # <<current, h>> => eval'[i][g] = eval[i][g]
        BY <2>e, <3>1, <3>3, BecomesEffect
      <3> QED
        BY <1>2, <3>1, <3>3, <3>4
    <2>2. ~EvaluatorTimesOut
      <3> SUFFICES ASSUME EvaluatorTimesOut PROVE FALSE
        OBVIOUS
      <3>1. current \in Invocations /\ rec.gate \in Gates
        BY <2>e DEF EvaluatorTimesOut, ProcessInv, Recorder
      <3>2. Failed \in Evaluator /\ Failed.pc = "failed"
        BY ConstantTypes DEF Failed, Off
      <3> QED
        BY <1>2, <2>e, <3>1, <3>2, BecomesEffect DEF EvaluatorTimesOut
    <2>3. PICK j \in Invocations, h \in Gates : EvaluatorStep(j, h)
      <3>1. eval' # eval
        BY <1>2
      <3>2. \A j \in Invocations, h \in Gates : ~BuilderStep(j, h)
        BY <3>1, BuilderEffect
      <3> QED
        BY <2>1, <2>2, <3>1, <3>2 DEF Next, StartRecorder, RecorderStep, EvaluatorReturned,
           HashResult, LoadResult, OpenEvidence, WriteEvidence, KillRecorder,
           StatusStep, ReadEvidence, BindResult, ReadResult, CheckInputs
    <2>4. <<i, g>> = <<j, h>>
      BY <1>2, <2>3, EvaluatorEffect
    <2>5. WriteResult(i, g) \/ EvaluatorFails(i, g)
      BY <1>2, <2>3, <2>4 DEF EvaluatorStep, Prepare, BuilderReturned, BuilderTimesOut,
         HashSummary, LoadSummary, OpenResult
    <2>6. ~EvaluatorFails(i, g)
      <3>1. Failed \in Evaluator /\ Failed.pc = "failed"
        BY ConstantTypes DEF Failed, Off
      <3> QED
        BY <1>2, <2>e, <3>1, BecomesEffect DEF EvaluatorFails
    <2>7. PICK e : e = eval[i][g]
      OBVIOUS
    <2>8. result' = [result EXCEPT ![g] =
               [run |-> run[i], invocation |-> i, input |-> e.digest, pass |-> e.passed]]
      BY <2>5, <2>6, <2>7 DEF WriteResult
    <2>9. e \in Evaluator /\ run[i] \in Runs
      <3>1. eval[i][g].pc # "off"
        BY <1>2
      <3>2. run[i] \in Runs
        BY <3>1 DEF ProcessInv
      <3> QED
        BY <2>e, <2>7, <3>2
    <2>10. [run |-> run[i], invocation |-> i, input |-> e.digest, pass |-> e.passed] \in Result
      BY <2>9 DEF Evaluator, Result
    <2> QED
      BY <1>t, <2>8, <2>10, ContentsDiffer
  <1> QED
    BY <1>1, <1>2

\* A summary comes from the one builder that writes it.
LEMMA SummaryFileStep ==
    ASSUME TypeOK, ProcessInv, Next, NEW g \in Gates,
           summary[g] \in Summary => SummaryOut(g, summary[g]),
           summary[g] = Torn => \E j \in Invocations : build[j][g] \in {"torn", "failed"}
    PROVE  /\ summary'[g] \in Summary => SummaryOut(g, summary[g])'
           /\ summary'[g] = Torn => \E j \in Invocations : build'[j][g] \in {"torn", "failed"}
  <1>1. \A j \in Invocations : BuilderMoves(j, g)
    BY BuilderMove
  <1>2. PICK s : s = summary'[g]
    OBVIOUS
  <1>3. CASE s = summary[g]
    <2>1. ASSUME s \in Summary PROVE SummaryOut(g, s)'
      BY <1>3, <2>1, OutStays
    <2>2. ASSUME s = Torn PROVE \E j \in Invocations : build'[j][g] \in {"torn", "failed"}
      <3>1. PICK j \in Invocations : build[j][g] \in {"torn", "failed"}
        BY <1>3, <2>2
      <3>2. ~(build[j][g] = "torn" /\ build'[j][g] = "wrote")
        BY <1>2, <2>2, WritingReplaces
      <3> QED
        BY <1>1, <3>1, <3>2 DEF BuilderMoves
    <2> QED
      BY <1>2, <2>1, <2>2 DEF SummaryOut
  <1>4. CASE s # summary[g]
    <2>1. \/ s = NoFile
          \/ s = Torn /\ \E k \in Invocations : build[k][g] = "run" /\ build'[k][g] = "torn"
          \/ \E k \in Invocations : /\ build'[k][g] = "wrote"
                                    /\ s \in Summary /\ s.invocation = k
      BY <1>2, <1>4, SummaryMove
    <2> QED
      BY <1>2, <2>1, ContentsDiffer DEF SummaryOut
  <1> QED
    BY <1>3, <1>4

\* The same of a result and its evaluator.
LEMMA ResultFileStep ==
    ASSUME TypeOK, ProcessInv, Next, NEW g \in Gates,
           result[g] \in Result => ResultOut(g, result[g]),
           result[g] = Torn => \E j \in Invocations : eval[j][g].pc \in {"write", "failed"}
    PROVE  /\ result'[g] \in Result => ResultOut(g, result[g])'
           /\ result'[g] = Torn => \E j \in Invocations : eval'[j][g].pc \in {"write", "failed"}
  <1>1. \A j \in Invocations : EvaluatorMoves(j, g)
    BY EvaluatorMove
  <1>2. PICK s : s = result'[g]
    OBVIOUS
  <1>3. CASE s = result[g]
    <2>1. ASSUME s \in Result PROVE ResultOut(g, s)'
      BY <1>3, <2>1, OutStays
    <2>2. ASSUME s = Torn PROVE \E j \in Invocations : eval'[j][g].pc \in {"write", "failed"}
      <3>1. PICK j \in Invocations : eval[j][g].pc \in {"write", "failed"}
        BY <1>3, <2>2
      <3>2. ~(eval[j][g].pc = "write" /\ eval'[j][g].pc = "exit0")
        BY <1>2, <2>2, WritingReplaces
      <3> QED
        BY <1>1, <3>1, <3>2 DEF EvaluatorMoves, Ends, Advances, Hashes, Loads
    <2> QED
      BY <1>2, <2>1, <2>2 DEF ResultOut
  <1>4. CASE s # result[g]
    <2>1. \/ s = NoFile
          \/ s = Torn /\ \E k \in Invocations : eval[k][g].pc = "open" /\ eval'[k][g].pc = "write"
          \/ \E k \in Invocations : /\ eval'[k][g].pc \in {"exit0", "failed"}
                                    /\ s \in Result /\ s.invocation = k
      BY <1>2, <1>4, ResultMove
    <2> QED
      BY <1>2, <2>1, ContentsDiffer DEF ResultOut
  <1> QED
    BY <1>3, <1>4

\* What an evaluator knows of its summary stays true.
LEMMA KnowsStep ==
    ASSUME TypeOK, ProcessInv, ProcessInv', Next, SummaryInv,
           NEW i \in Invocations, NEW g \in Gates
    PROVE  Knows(i, g)'
  <1>1. PICK e : e = eval[i][g]
    OBVIOUS
  <1>2. PICK n : n = eval'[i][g]
    OBVIOUS
  <1>k. Knows(i, g)
    BY DEF SummaryInv
  <1>m. EvaluatorMoves(i, g) /\ BuilderMoves(i, g)
    BY EvaluatorMove, BuilderMove
  <1>p. /\ build[i][g] \in {"exit0"} => build'[i][g] \in {"exit0"}
        /\ build[i][g] \in {"exit0", "failed"} => build'[i][g] \in {"exit0", "failed"}
        /\ SummaryWriters(i, g) \subseteq SummaryWriters(i, g)'
    BY PastStages
  <1>c. /\ e.passed => build[i][g] = "exit0" /\ e.pc \in {"open", "write", "exit0"}
        /\ n.passed => build'[i][g] = "exit0" /\ n.pc \in {"open", "write", "exit0"}
    BY <1>1, <1>2 DEF ProcessInv
  <1>3. n.pc \in {"hash", "load"} => build'[i][g] \in {"exit0", "failed"}
    BY <1>1, <1>2, <1>k, <1>m, <1>p DEF Knows, EvaluatorMoves, Ends, Advances, Hashes, Loads
  <1>4. n.digest \in Summary => SummaryOut(g, n.digest)'
    <2> SUFFICES ASSUME n.digest \in Summary PROVE SummaryOut(g, n.digest)'
      OBVIOUS
    <2>1. PICK s : s = n.digest
      OBVIOUS
    <2>2. s = e.digest \/ s = summary[g]
      BY <1>1, <1>2, <1>m, <2>1, ContentsDiffer DEF EvaluatorMoves, Ends, Advances, Hashes, Loads
    <2>3. SummaryOut(g, s)
      BY <1>1, <1>k, <2>1, <2>2 DEF Knows, SummaryInv
    <2>4. SummaryOut(g, s)'
      BY <2>1, <2>3, OutStays
    <2> QED
      BY <2>1, <2>4 DEF SummaryOut
  <1>5. n.digest = Torn /\ build'[i][g] = "exit0" /\ (n.pc = "load" \/ n.passed) =>
           SummaryWriters(i, g)' # {}
    <2> SUFFICES ASSUME n.digest = Torn, build'[i][g] = "exit0", n.pc = "load" \/ n.passed
                 PROVE  SummaryWriters(i, g)' # {}
      OBVIOUS
    <2>1. CASE Hashes(e, n, summary[g]) /\ UNCHANGED <<build, summary>>
      <3>1. summary[g] = Torn
        BY <2>1 DEF Hashes
      <3>2. PICK j \in Invocations : build[j][g] \in {"torn", "failed"}
        BY <3>1 DEF SummaryInv
      <3>3. j \in SummaryWriters(i, g)'
        BY <2>1, <3>2 DEF SummaryWriters
      <3> QED
        BY <3>3
    <2>2. CASE Loads(e, n, summary[g], build[i][g] = "exit0") /\ UNCHANGED <<build, summary>>
      <3>1. e.digest = Torn /\ build[i][g] = "exit0" /\ e.pc = "load"
        BY <2>2 DEF Loads
      <3> QED
        BY <1>1, <1>k, <1>p, <3>1 DEF Knows
    <2>3. CASE n = e \/ Advances(e, n)
      <3>1. e.digest = Torn /\ (e.pc = "load" \/ e.passed)
        BY <2>3 DEF Advances
      <3>2. build[i][g] = "exit0"
        <4>1. e.pc = "load" => build[i][g] \in {"exit0", "failed"}
          BY <1>1, <1>k DEF Knows
        <4> QED
          BY <1>c, <1>m, <3>1, <4>1 DEF BuilderMoves
      <3> QED
        BY <1>1, <1>k, <1>p, <3>1, <3>2 DEF Knows
    <2>4. ~Ends(e, n)
      BY ContentsDiffer DEF Ends
    <2> QED
      BY <1>1, <1>2, <1>m, <2>1, <2>2, <2>3, <2>4 DEF EvaluatorMoves
  <1>6. ASSUME n.passed, n.digest # n.loaded
        PROVE  /\ n.digest \in Summary => summary'[g] # n.digest
               /\ n.digest = Torn => summary'[g] # Torn \/ Two(SummaryWriters(i, g))'
    <2>1. CASE Loads(e, n, summary[g], build[i][g] = "exit0") /\ UNCHANGED <<build, summary>>
      <3>1. n.loaded = summary[g] /\ summary[g] \in Summary /\ summary' = summary
        BY <1>6, <2>1 DEF Loads
      <3> QED
        BY <1>6, <3>1, ContentsDiffer
    <2>2. CASE n = e \/ Advances(e, n)
      <3>1. e.digest = n.digest /\ e.passed /\ e.digest # e.loaded
        BY <1>6, <2>2 DEF Advances
      <3>2. /\ e.digest \in Summary => summary[g] # e.digest /\ SummaryOut(g, e.digest)
            /\ e.digest = Torn => summary[g] # Torn \/ Two(SummaryWriters(i, g))
            /\ e.digest = Torn => SummaryWriters(i, g) # {}
        BY <1>1, <1>c, <1>k, <3>1 DEF Knows
      <3>3. ASSUME e.digest \in Summary PROVE summary'[g] # e.digest
        <4>1. \A k \in Invocations : build[k][g] \in {"run", "torn"} => k # e.digest.invocation
          BY <3>2, <3>3 DEF SummaryOut
        <4> QED
          BY <3>2, <3>3, <4>1, SummaryMove, ContentsDiffer
      <3>4. ASSUME e.digest = Torn, summary'[g] = Torn PROVE Two(SummaryWriters(i, g))'
        <4>1. CASE Two(SummaryWriters(i, g))
          BY <1>p, <4>1 DEF Two
        <4>2. CASE summary[g] # Torn
          <5>1. PICK k \in Invocations : build[k][g] = "run" /\ build'[k][g] = "torn"
            BY <3>4, <4>2, SummaryMove, ContentsDiffer
          <5>2. PICK j \in SummaryWriters(i, g) : TRUE
            BY <3>2, <3>4
          <5>3. k # i /\ k # j
            BY <1>c, <3>1, <5>1, <5>2 DEF SummaryWriters
          <5>4. k \in SummaryWriters(i, g)'
            BY <5>1, <5>3 DEF SummaryWriters
          <5> QED
            BY <1>p, <5>2, <5>3, <5>4 DEF Two
        <4> QED
          BY <3>2, <3>4, <4>1, <4>2
      <3> QED
        BY <3>1, <3>3, <3>4
    <2>3. ~Ends(e, n) /\ ~Hashes(e, n, summary[g])
      BY <1>6 DEF Ends, Hashes
    <2> QED
      BY <1>1, <1>2, <1>m, <2>1, <2>2, <2>3 DEF EvaluatorMoves
  <1> QED
    BY <1>2, <1>3, <1>4, <1>5, <1>6 DEF Knows, SummaryOut, Two

\* So does what the recorder, or its evidence, says of a gate.
LEMMA RecordsStays ==
    ASSUME TypeOK, ProcessInv, Next, NEW i \in Invocations, NEW g \in Gates, NEW o,
           Records(o, i, g)
    PROVE  Records(o, i, g)'
  <1>p. /\ eval[i][g].pc \in {"exit0"} => eval'[i][g].pc \in {"exit0"}
        /\ ResultWriters(i, g) \subseteq ResultWriters(i, g)'
    BY PastStages
  <1>1. o.digest \in Result => ResultOut(g, o.digest)'
    BY OutStays DEF Records
  <1>2. ASSUME o.passed, o.digest \in Result, ~o.digest.pass
        PROVE  result'[g] # o.digest
    <2>1. result[g] # o.digest /\ ResultOut(g, o.digest)
      BY <1>2 DEF Records
    <2>2. \A k \in Invocations : eval[k][g].pc = "write" => k # o.digest.invocation
      BY <2>1 DEF ResultOut
    <2> QED
      BY <1>2, <2>1, <2>2, ResultMove, ContentsDiffer
  <1>3. ASSUME o.passed, o.digest = Torn, result'[g] = Torn
        PROVE  Two(ResultWriters(i, g))'
    <2>1. CASE Two(ResultWriters(i, g))
      BY <1>p, <2>1 DEF Two
    <2>2. CASE result[g] # Torn
      <3>1. PICK k \in Invocations : eval[k][g].pc = "open" /\ eval'[k][g].pc = "write"
        BY <1>3, <2>2, ResultMove, ContentsDiffer
      <3>2. PICK j \in ResultWriters(i, g) : TRUE
        BY <1>3 DEF Records
      <3>3. k # i /\ k # j
        BY <1>3, <3>1, <3>2 DEF Records, ResultWriters
      <3>4. k \in ResultWriters(i, g)'
        BY <3>1, <3>3 DEF ResultWriters
      <3> QED
        BY <1>p, <3>2, <3>3, <3>4 DEF Two
    <2> QED
      BY <1>3, <2>1, <2>2 DEF Records
  <1>4. o.passed => eval'[i][g].pc = "exit0" /\ (o.digest = Torn => ResultWriters(i, g)' # {})
    BY <1>p DEF Records
  <1> QED
    BY <1>1, <1>2, <1>3, <1>4 DEF Records, ResultOut, Two

\* An outcome that says nothing.
LEMMA NothingRecorded ==
    ASSUME NEW i, NEW g, NEW o, ~o.passed, o.digest = NoFile
    PROVE  Records(o, i, g)'
  BY ContentsDiffer DEF Records

\* Who else changes the recorder's state.
LEMMA RecorderAlone ==
    ASSUME TypeOK, ProcessInv, Next
    PROVE  \/ UNCHANGED <<rec, current>>
           \/ \E r \in Runs : StartRecorder(r)
           \/ RecorderStep \/ KillRecorder
  BY EvaluatorEffect, BuilderEffect
  DEF Next, StatusStep, ReadEvidence, BindResult, ReadResult, CheckInputs

\* What the recorder holds of the gates it has been through is true of them.
LEMMA RecorderOutcomes ==
    ASSUME TypeOK, ProcessInv, Next, OutcomeInv
    PROVE  /\ rec'.pc = "idle" => rec'.gates = NoOutcomes
           /\ rec'.pc # "idle" => \A g \in Gates : Records(rec.gates[g], current, g)'
           /\ rec'.pc \in {"hash", "load"} /\ rec'.exit0 =>
                 eval'[current'][rec'.gate].pc = "exit0"
           /\ rec'.pc = "load" /\ rec'.exit0 /\ rec'.gates[rec'.gate].digest = Torn =>
                 ResultWriters(current, rec.gate)' # {}
  <1> DEFINE Goal ==
        /\ rec'.pc = "idle" => rec'.gates = NoOutcomes
        /\ rec'.pc # "idle" => \A g \in Gates : Records(rec.gates[g], current, g)'
        /\ rec'.pc \in {"hash", "load"} /\ rec'.exit0 =>
              eval'[current'][rec'.gate].pc = "exit0"
        /\ rec'.pc = "load" /\ rec'.exit0 /\ rec'.gates[rec'.gate].digest = Torn =>
              ResultWriters(current, rec.gate)' # {}
  <1>t. /\ rec \in Recorder /\ eval \in [Invocations -> [Gates -> Evaluator]]
        /\ rec.gate \in Gates /\ rec.gates \in [Gates -> Outcome]
        /\ rec.pc # "idle" => current \in Invocations
    BY DEF TypeOK, Recorder, ProcessInv
  <1>s. ASSUME current' = current, rec.pc # "idle", NEW g \in Gates, rec'.gates[g] = rec.gates[g]
        PROVE  Records(rec.gates[g], current, g)'
    <2>1. PICK o : o = rec.gates[g]
      OBVIOUS
    <2>2. PICK i \in Invocations : i = current
      BY <1>t, <1>s
    <2>3. Records(o, i, g)
      BY <1>s, <2>1, <2>2 DEF OutcomeInv
    <2>4. Records(o, i, g)'
      BY <2>3, RecordsStays
    <2> QED
      BY <1>s, <2>1, <2>2, <2>4 DEF Records, ResultOut, ResultWriters
  <1>1. CASE UNCHANGED <<rec, current>>
    <2>1. rec'.pc # "idle" => \A g \in Gates : Records(rec.gates[g], current, g)'
      BY <1>1, <1>s
    <2>2. rec'.pc \in {"hash", "load"} /\ rec'.exit0 => eval'[current'][rec'.gate].pc = "exit0"
      <3>1. rec.pc # "idle" =>
               (eval[current][rec.gate].pc \in {"exit0"} => eval'[current][rec.gate].pc \in {"exit0"})
        BY <1>t, PastStages
      <3> QED
        BY <1>1, <3>1 DEF OutcomeInv
    <2>3. rec'.pc = "load" /\ rec'.exit0 /\ rec'.gates[rec'.gate].digest = Torn =>
             ResultWriters(current, rec.gate)' # {}
      <3>1. PICK i, g : i = current /\ g = rec.gate
        OBVIOUS
      <3>2. rec.pc # "idle" => ResultWriters(i, g) \subseteq ResultWriters(i, g)'
        BY <1>t, <3>1, PastStages
      <3>3. ResultWriters(i, g)' = ResultWriters(current, rec.gate)'
        BY <1>1, <3>1 DEF ResultWriters
      <3> QED
        BY <1>1, <3>1, <3>2, <3>3 DEF OutcomeInv
    <2> QED
      BY <1>1, <2>1, <2>2, <2>3 DEF OutcomeInv
  <1>2. ASSUME NEW r \in Runs, StartRecorder(r) PROVE Goal
    <2>1. rec'.pc = "next" /\ rec'.gates = NoOutcomes
      BY <1>2, <1>t DEF StartRecorder, Recorder, OutcomeInv
    <2>2. \A g \in Gates : ~rec'.gates[g].passed /\ rec'.gates[g].digest = NoFile
      BY <2>1 DEF NoOutcomes, NoOutcome
    <2>3. \A g \in Gates : Records(rec.gates[g], current, g)'
      BY <2>2, ContentsDiffer DEF Records
    <2> QED
      BY <2>1, <2>3
  <1>3. ASSUME NEW h \in Gates, StartEvaluator(h) PROVE Goal
    <2>1. /\ rec.pc = "next" /\ rec'.pc = "wait" /\ rec'.gates = rec.gates
          /\ current' = current
      BY <1>3, <1>t DEF StartEvaluator, Recorder
    <2> QED
      BY <1>s, <2>1
  <1>4. CASE EvaluatorReturned
    <2>1. /\ rec.pc = "wait" /\ rec'.pc = "hash" /\ rec'.gates = rec.gates
          /\ rec'.gate = rec.gate /\ UNCHANGED <<current, eval>>
          /\ rec'.exit0 = (eval[current][rec.gate].pc = "exit0")
      BY <1>4, <1>t DEF EvaluatorReturned, Recorder
    <2> QED
      BY <1>s, <2>1
  <1>5. CASE EvaluatorTimesOut
    <2>1. /\ rec.pc = "wait" /\ rec'.pc = "hash" /\ rec'.gates = rec.gates
          /\ current' = current /\ ~rec'.exit0
      BY <1>5, <1>t DEF EvaluatorTimesOut, Recorder
    <2> QED
      BY <1>s, <2>1
  <1>6. CASE HashResult
    <2>1. PICK g \in Gates : g = rec.gate
      BY <1>t
    <2>2. PICK i \in Invocations : i = current
      BY <1>6, <1>t DEF HashResult
    <2>3. /\ rec.pc = "hash" /\ rec'.pc = "load" /\ rec'.gate = g /\ rec'.exit0 = rec.exit0
          /\ rec'.gates[g] = [passed |-> FALSE, digest |-> result[g]]
          /\ \A h \in Gates : h # g => rec'.gates[h] = rec.gates[h]
          /\ UNCHANGED <<current, eval, result>>
      <3>1. /\ rec.pc = "hash" /\ UNCHANGED <<current, eval, result>>
            /\ rec' = [rec EXCEPT !.pc = "load",
                                  !.gates[g] = [passed |-> FALSE, digest |-> result[g]]]
        BY <1>6, <2>1 DEF HashResult, files
      <3>2. rec \in Recorder
        BY <1>t
      <3> QED
        BY <2>1, <3>1, <3>2 DEF Recorder
    <2>4. Records(rec.gates[g], current, g)'
      BY <2>3 DEF OutcomeInv, Records, ResultOut
    <2>5. ASSUME NEW h \in Gates PROVE Records(rec.gates[h], current, h)'
      <3>1. CASE h = g
        BY <2>4, <3>1
      <3>2. CASE h # g
        BY <1>s, <2>3, <3>2
      <3> QED
        BY <3>1, <3>2
    <2>6. ASSUME rec.exit0 PROVE eval[i][g].pc = "exit0"
      BY <2>1, <2>2, <2>3, <2>6 DEF OutcomeInv
    <2>7. ASSUME rec.exit0, result[g] = Torn PROVE ResultWriters(i, g)' # {}
      <3>1. PICK j \in Invocations : eval[j][g].pc \in {"write", "failed"}
        BY <2>7 DEF OutcomeInv
      <3>2. j \in ResultWriters(i, g)'
        BY <2>3, <2>6, <2>7, <3>1 DEF ResultWriters
      <3> QED
        BY <3>2
    <2>8. ResultWriters(i, g)' = ResultWriters(current, rec.gate)'
      BY <2>2, <2>3 DEF ResultWriters
    <2> QED
      BY <2>2, <2>3, <2>5, <2>6, <2>7, <2>8
  <1>7. CASE LoadResult
    <2>1. PICK g \in Gates : g = rec.gate
      BY <1>t
    <2>2. PICK i \in Invocations : i = current
      BY <1>7, <1>t DEF LoadResult
    <2>3. PICK d : d = rec.gates[g].digest
      OBVIOUS
    <2>4. PICK passed \in BOOLEAN :
             passed = (rec.exit0 /\ d # NoFile /\ result[g] \in Result /\ result[g].pass)
      OBVIOUS
    <2>5. /\ rec.pc = "load" /\ rec'.pc \in {"open", "next"}
          /\ rec'.gates[g] = [passed |-> passed, digest |-> d]
          /\ \A h \in Gates : h # g => rec'.gates[h] = rec.gates[h]
          /\ UNCHANGED <<current, eval, result>>
      <3>1. /\ rec.pc = "load" /\ UNCHANGED <<current, eval, result>>
            /\ rec' = [rec EXCEPT
                          !.pc = IF rec.todo \ {g} = {} THEN "open" ELSE "next",
                          !.todo = rec.todo \ {g},
                          !.exit0 = FALSE,
                          !.gates[g] = [passed |-> passed, digest |-> d]]
        BY <1>7, <2>1, <2>3, <2>4 DEF LoadResult, files
      <3> QED
        BY <1>t, <2>1, <3>1 DEF Recorder
    <2>6. Records(rec.gates[g], current, g)'
      <3>1. d \in Result => ResultOut(g, d)
        BY <2>2, <2>3, <2>5 DEF OutcomeInv, Records
      <3>2. passed => eval[i][g].pc = "exit0" /\ (d = Torn => ResultWriters(i, g) # {})
        BY <2>1, <2>2, <2>3, <2>4, <2>5 DEF OutcomeInv
      <3>3. passed => result[g] # Torn /\ (d \in Result /\ ~d.pass => result[g] # d)
        BY <2>4, ContentsDiffer
      <3> QED
        BY <2>2, <2>5, <3>1, <3>2, <3>3 DEF Records, ResultOut, ResultWriters
    <2>7. ASSUME NEW h \in Gates PROVE Records(rec.gates[h], current, h)'
      <3>1. CASE h = g
        BY <2>6, <3>1
      <3>2. CASE h # g
        BY <1>s, <2>5, <3>2
      <3> QED
        BY <3>1, <3>2
    <2> QED
      BY <2>5, <2>7
  <1>8. CASE OpenEvidence
    <2>1. /\ rec.pc = "open" /\ rec'.pc = "write" /\ rec'.gates = rec.gates
          /\ current' = current
      BY <1>8, <1>t DEF OpenEvidence, Recorder
    <2> QED
      BY <1>s, <2>1
  <1>9. CASE WriteEvidence \/ KillRecorder
    BY <1>9 DEF WriteEvidence, KillRecorder, NoRecorder
  <1> HIDE DEF Goal
  <1>10. Goal
    BY <1>1, <1>2, <1>3, <1>4, <1>5, <1>6, <1>7, <1>8, <1>9, RecorderAlone
    DEF RecorderStep, Goal
  <1> QED
    BY <1>10 DEF Goal

\* So is what the evidence says.
LEMMA OutcomeStep ==
    ASSUME TypeOK, ProcessInv, Next, OutcomeInv
    PROVE  OutcomeInv'
  <1>1. \A g \in Gates :
           /\ result'[g] \in Result => ResultOut(g, result[g])'
           /\ result'[g] = Torn =>
                 \E j \in Invocations : eval'[j][g].pc \in {"write", "failed"}
    BY ResultFileStep DEF OutcomeInv
  <1>2. evidence' \in Evidence =>
           \A g \in Gates : Records(evidence.gates[g], evidence.invocation, g)'
    <2>1. CASE evidence' = evidence
      <3> SUFFICES ASSUME evidence \in Evidence, NEW g \in Gates
                   PROVE  Records(evidence.gates[g], evidence.invocation, g)'
        BY <2>1
      <3>1. PICK o, i : o = evidence.gates[g] /\ i = evidence.invocation
        OBVIOUS
      <3>2. i \in Invocations /\ Records(o, i, g)
        BY <3>1 DEF OutcomeInv, Evidence
      <3>3. Records(o, i, g)'
        BY <3>2, RecordsStays
      <3> QED
        BY <2>1, <3>1, <3>3 DEF Records, ResultOut, ResultWriters
    <2>2. CASE WriteEvidence
      <3>1. /\ rec.pc = "write" /\ UNCHANGED <<eval, result>>
            /\ evidence'.gates = rec.gates /\ evidence'.invocation = current
        BY <2>2 DEF WriteEvidence
      <3>2. ASSUME NEW g \in Gates PROVE Records(evidence.gates[g], evidence.invocation, g)'
        <4>1. PICK o, i : o = rec.gates[g] /\ i = current
          OBVIOUS
        <4>2. Records(o, i, g)
          BY <3>1, <4>1 DEF OutcomeInv
        <4>3. evidence'.gates[g] = o /\ evidence'.invocation = i
          BY <3>1, <4>1
        <4> QED
          BY <3>1, <4>2, <4>3 DEF Records, ResultOut, ResultWriters
      <3> QED
        BY <3>2
    <2>3. CASE evidence' # evidence /\ ~WriteEvidence
      <3>1. OpenEvidence
        <4>1. ~ \E r \in Runs : StartRecorder(r)
          BY <2>3 DEF StartRecorder, files
        <4>2. ~KillRecorder /\ ~StatusStep
          <5>1. ~ \E g \in Gates : BindResult(g)
            BY <2>3 DEF BindResult, files
          <5> QED
            BY <2>3, <5>1 DEF KillRecorder, StatusStep, ReadEvidence, ReadResult, CheckInputs,
                              files
        <4>3. ~ \E i \in Invocations, g \in Gates : EvaluatorStep(i, g) \/ BuilderStep(i, g)
          <5> SUFFICES ASSUME NEW i \in Invocations, NEW g \in Gates,
                              EvaluatorStep(i, g) \/ BuilderStep(i, g)
                       PROVE  evidence' = evidence
            BY <2>3
          <5> QED
            BY DEF EvaluatorStep, Prepare, BuilderReturned, BuilderTimesOut, HashSummary,
               LoadSummary, OpenResult, WriteResult, EvaluatorFails, BuilderStep, OpenSummary,
               WriteSummary, BuilderExits, files
        <4> QED
          BY <2>3, <4>1, <4>2, <4>3 DEF Next, RecorderStep, StartEvaluator, EvaluatorReturned,
             EvaluatorTimesOut, HashResult, LoadResult, files
      <3> QED
        BY <3>1, ContentsDiffer DEF OpenEvidence
    <2> QED
      BY <2>1, <2>2, <2>3
  <1> QED
    BY <1>1, <1>2, RecorderOutcomes DEF OutcomeInv

\* What the status builder has seen stays true.
LEMMA LooksStay ==
    ASSUME TypeOK, ProcessInv, Next, NEW g \in Gates
    PROVE  /\ \A e \in Evidence : Binds(g, e) => Binds(g, e)'
           /\ \A res : Origin(g, res) /\ Judged(g, res) => Judged(g, res)'
  <1>1. ASSUME NEW e \in Evidence, Binds(g, e) PROVE Binds(g, e)'
    <2>1. ResultWriters(e.invocation, g) \subseteq ResultWriters(e.invocation, g)'
      BY PastStages DEF Evidence
    <2> QED
      BY <1>1, <2>1 DEF Binds, Two
  <1>2. ASSUME NEW res, Origin(g, res), Judged(g, res) PROVE Judged(g, res)'
    <2>1. PICK i \in Invocations : i = res.invocation
      BY <1>2 DEF Origin, Result
    <2>2. eval'[i][g] = eval[i][g]
      BY <1>2, <2>1, SuccessIsStable DEF Origin
    <2>3. SummaryWriters(i, g) \subseteq SummaryWriters(i, g)'
      BY PastStages
    <2> QED
      BY <1>2, <2>1, <2>2, <2>3 DEF Judged, Two
  <1> QED
    BY <1>1, <1>2

\* The status builder's second look at the summary finds the content that was
\* judged: another content would not have come back.
LEMMA InputIsJudged ==
    ASSUME TypeOK, ProcessInv, SummaryInv, NEW g \in Gates, NEW res, Origin(g, res),
           summary[g] # NoFile, summary[g] = res.input
    PROVE  Judged(g, res)
  <1>1. PICK i \in Invocations : i = res.invocation
    BY DEF Origin, Result
  <1>2. PICK e \in Evaluator : e = eval[i][g]
    BY DEF TypeOK
  <1>3. e.passed /\ res.input = e.digest
    BY <1>1, <1>2 DEF Origin, ProcessInv
  <1>4. e.digest \in Summary \/ e.digest = Torn
    BY <1>3 DEF Evaluator, SummaryFile
  <1>5. Knows(i, g)
    BY DEF SummaryInv
  <1> QED
    BY <1>1, <1>2, <1>3, <1>4, <1>5 DEF Knows, Judged

\* Its look at the result finds one that passes.
LEMMA BoundIsPassing ==
    ASSUME TypeOK, NEW g \in Gates, NEW e \in Evidence, e.gates[g].passed,
           Records(e.gates[g], e.invocation, g),
           result[g] # NoFile, result[g] = e.gates[g].digest
    PROVE  Binds(g, e)
  <1>1. PICK o \in Outcome : o = e.gates[g]
    BY DEF Evidence
  <1>2. o.digest \in Result \/ o.digest = Torn
    BY <1>1 DEF Outcome, ResultFile
  <1> QED
    BY <1>1, <1>2 DEF Records, Binds

\* The status builder keeps what it has seen of the gates it has been through.
LEMMA LookStep ==
    ASSUME TypeOK, ProcessInv, ReaderInv, SummaryInv, OutcomeInv, LookInv, Next
    PROVE  LookInv'
  <1>t. reader \in Reader
    BY DEF TypeOK
  <1>l. ASSUME reader.pc # "idle"
        PROVE  /\ reader.evidence \in Evidence
               /\ \A g \in Gates : reader.evidence.gates[g].passed
               /\ \A g \in Gates : Records(reader.evidence.gates[g], reader.evidence.invocation, g)
               /\ \A g \in Gates : Accepted(g) => Origin(g, reader.results[g])
    BY <1>l DEF LookInv, ReaderInv
  <1>r. ASSUME reader.pc # "idle", reader'.evidence = reader.evidence, NEW g \in Gates
        PROVE  /\ reader'.evidence.gates[g].passed
               /\ Records(reader.evidence.gates[g], reader.evidence.invocation, g)'
               /\ Binds(g, reader.evidence) => Binds(g, reader.evidence)'
    <2>1. PICK e \in Evidence : e = reader.evidence
      BY <1>l, <1>r
    <2>2. Records(e.gates[g], e.invocation, g) /\ e.invocation \in Invocations
      BY <1>l, <1>r, <2>1 DEF Evidence
    <2>3. Records(e.gates[g], e.invocation, g)'
      BY <2>2, RecordsStays
    <2>4. Binds(g, e) => Binds(g, e)'
      BY LooksStay
    <2>5. reader'.evidence = e
      BY <1>r, <2>1
    <2> QED
      BY <1>l, <1>r, <2>1, <2>3, <2>4, <2>5 DEF Records, ResultOut, ResultWriters, Binds
  <1>j. ASSUME NEW g \in Gates, Origin(g, reader.results[g]), Judged(g, reader.results[g]),
               reader'.results[g] = reader.results[g]
        PROVE  Judged(g, reader.results[g])'
    <2>1. PICK res : res = reader.results[g]
      OBVIOUS
    <2>2. Judged(g, res)'
      BY <1>j, <2>1, LooksStay
    <2> QED
      BY <1>j, <2>1, <2>2 DEF Judged, SummaryWriters
  <1>1. CASE reader' = reader
    <2> SUFFICES ASSUME reader.pc # "idle" PROVE LookInv'
      BY <1>1 DEF LookInv
    <2>1. \A g \in Gates : g \notin reader.todo =>
             Origin(g, reader.results[g]) /\ Judged(g, reader.results[g])
      BY <1>l DEF LookInv, Accepted
    <2>2. \A g \in Gates : g \notin reader.todo => Judged(g, reader.results[g])'
      BY <1>1, <1>j, <2>1
    <2>3. \A g \in Gates :
             g \notin reader.todo \/ (reader.pc \in {"load", "inputs"} /\ g = reader.gate) =>
                Binds(g, reader.evidence)'
      BY <1>1, <1>r DEF LookInv
    <2> QED
      BY <1>1, <1>r, <2>2, <2>3 DEF LookInv
  <1>2. CASE reader' = NoReader
    BY <1>2 DEF LookInv, NoReader
  <1>3. CASE reader' # reader /\ reader' # NoReader
    <2>1. StatusStep
      <3>1. ~ \E r \in Runs : StartRecorder(r)
        BY <1>3 DEF StartRecorder
      <3>2. ~(RecorderStep \/ KillRecorder)
        BY <1>3 DEF RecorderStep, StartEvaluator, EvaluatorReturned, EvaluatorTimesOut,
           HashResult, LoadResult, OpenEvidence, WriteEvidence, KillRecorder
      <3>3. ~ \E i \in Invocations, g \in Gates : EvaluatorStep(i, g) \/ BuilderStep(i, g)
        BY <1>3, EvaluatorEffect, BuilderEffect
      <3> QED
        BY <3>1, <3>2, <3>3 DEF Next
    <2>2. CASE ReadEvidence
      <3>1. /\ evidence \in Evidence /\ \A g \in Gates : evidence.gates[g].passed
            /\ reader'.pc = "hash" /\ reader'.evidence = evidence /\ reader'.todo = Gates
            /\ UNCHANGED <<eval, result>>
        BY <1>3, <1>t, <2>2 DEF ReadEvidence, Reader
      <3>2. ASSUME NEW g \in Gates
            PROVE  Records(reader.evidence.gates[g], reader.evidence.invocation, g)'
        <4>1. PICK e \in Evidence : e = evidence
          BY <3>1
        <4>2. Records(e.gates[g], e.invocation, g)
          BY <4>1 DEF OutcomeInv
        <4> QED
          BY <3>1, <4>1, <4>2 DEF Records, ResultOut, ResultWriters
      <3> QED
        BY <3>1, <3>2 DEF LookInv
    <2>3. ASSUME NEW h \in Gates, BindResult(h) PROVE LookInv'
      <3>1. /\ reader.pc = "hash" /\ reader'.pc = "load" /\ h \in reader.todo
            /\ reader'.gate = h /\ reader'.todo = reader.todo
            /\ reader'.evidence = reader.evidence /\ reader'.results = reader.results
            /\ Bound(h) /\ UNCHANGED <<eval, result>>
        BY <1>3, <1>t, <2>3 DEF BindResult, Reader, files
      <3>2. PICK e \in Evidence : e = reader.evidence
        BY <1>l, <3>1
      <3>3. Binds(h, e)
        BY <1>l, <3>1, <3>2, BoundIsPassing DEF Bound
      <3>4. ASSUME NEW g \in Gates, g \notin reader.todo \/ g = h PROVE Binds(g, reader.evidence)'
        BY <1>r, <3>1, <3>2, <3>3, <3>4 DEF LookInv
      <3>5. \A g \in Gates : g \notin reader.todo => Judged(g, reader.results[g])'
        <4>1. \A g \in Gates : g \notin reader.todo =>
                 Origin(g, reader.results[g]) /\ Judged(g, reader.results[g])
          BY <1>l, <3>1 DEF LookInv, Accepted
        <4> QED
          BY <1>j, <3>1, <4>1
      <3> QED
        BY <1>r, <3>1, <3>4, <3>5 DEF LookInv
    <2>4. CASE ReadResult
      <3> DEFINE h == reader.gate
      <3>1. /\ h \in Gates /\ reader.pc = "load" /\ reader'.pc = "inputs"
            /\ reader'.todo = reader.todo /\ reader'.gate = h
            /\ reader'.evidence = reader.evidence
            /\ \A g \in Gates : g # h => reader'.results[g] = reader.results[g]
            /\ h \in reader.todo
        BY <1>3, <1>t, <2>4 DEF ReadResult, Reader, LookInv
      <3>2. \A g \in Gates : g \notin reader.todo \/ g = h => Binds(g, reader.evidence)'
        BY <1>r, <3>1 DEF LookInv
      <3>3. \A g \in Gates : g \notin reader.todo => Judged(g, reader.results[g])'
        <4>1. \A g \in Gates : g \notin reader.todo =>
                 Origin(g, reader.results[g]) /\ Judged(g, reader.results[g])
          BY <1>l, <3>1 DEF LookInv, Accepted
        <4> QED
          BY <1>j, <3>1, <4>1
      <3> HIDE DEF h
      <3> QED
        BY <1>r, <3>1, <3>2, <3>3 DEF LookInv
    <2>5. CASE CheckInputs
      <3> DEFINE h == reader.gate
      <3>1. /\ h \in Gates /\ reader.pc = "inputs" /\ reader'.pc = "hash"
            /\ reader'.todo = reader.todo \ {h}
            /\ reader'.evidence = reader.evidence /\ reader'.results = reader.results
            /\ InputsBound(h)
        BY <1>3, <1>t, <2>5 DEF CheckInputs, Reader
      <3> HIDE DEF h
      <3>2. \A g \in Gates : g \notin reader'.todo => Binds(g, reader.evidence)'
        BY <1>r, <3>1 DEF LookInv, h
      <3>3. ASSUME NEW g \in Gates, g \notin reader'.todo PROVE Judged(g, reader.results[g])'
        <4>1. Origin(g, reader.results[g])
          BY <1>l, <3>1, <3>3 DEF Accepted, h
        <4>2. Judged(g, reader.results[g])
          <5>1. CASE g = h
            BY <3>1, <4>1, <5>1, InputIsJudged DEF InputsBound
          <5>2. CASE g # h
            BY <3>1, <3>3, <5>2 DEF LookInv
          <5> QED
            BY <5>1, <5>2
        <4> QED
          BY <1>j, <3>1, <4>1, <4>2
      <3> QED
        BY <1>r, <3>1, <3>2, <3>3 DEF LookInv
    <2> QED
      BY <2>1, <2>2, <2>3, <2>4, <2>5 DEF StatusStep
  <1> QED
    BY <1>1, <1>2, <1>3

\* A status is written when the look at the last gate is done.
LEMMA StatusLookStep ==
    ASSUME TypeOK, ProcessInv, ReaderInv, StatusInv, SummaryInv, LookInv, StatusLook, Next
    PROVE  StatusLook'
  <1>t. /\ reader \in Reader /\ status \in Status \cup {NoFile}
        /\ NoFile \notin Status
    BY ContentsDiffer DEF TypeOK
  <1>a. StatusLook <=> (status # NoFile => \A g \in Gates :
                           Judged(g, status.results[g]) /\ Binds(g, status.evidence))
    BY DEF StatusLook, JudgedWhatItBinds, BoundResultPasses, Judged, Binds, Two
  <1>b. SUFFICES ASSUME status' # NoFile, NEW g \in Gates
                 PROVE  Judged(g, status.results[g])' /\ Binds(g, status.evidence)'
    BY DEF StatusLook, JudgedWhatItBinds, BoundResultPasses, Judged, Binds, Two
  <1>1. CASE status' = status
    <2>1. PICK res, e : res = status.results[g] /\ e = status.evidence
      OBVIOUS
    <2>2. e \in Evidence /\ Origin(g, res) /\ Judged(g, res) /\ Binds(g, e)
      BY <1>1, <1>a, <1>b, <1>t, <2>1 DEF StatusInv, Status
    <2>3. Judged(g, res)' /\ Binds(g, e)'
      BY <2>2, LooksStay
    <2> QED
      BY <1>1, <2>1, <2>3 DEF Judged, Binds, SummaryWriters, ResultWriters
  <1>2. CASE status' # status
    <2>1. CheckInputs
      <3>1. ~ \E r \in Runs : StartRecorder(r)
        BY <1>2 DEF StartRecorder, files
      <3>2. ~(RecorderStep \/ KillRecorder)
        BY <1>2 DEF RecorderStep, StartEvaluator, EvaluatorReturned, EvaluatorTimesOut,
           HashResult, LoadResult, OpenEvidence, WriteEvidence, KillRecorder, files
      <3>3. ~ \E i \in Invocations, h \in Gates : EvaluatorStep(i, h) \/ BuilderStep(i, h)
        BY <1>2, EvaluatorEffect, BuilderEffect
      <3>4. ~(ReadEvidence \/ ReadResult \/ \E h \in Gates : BindResult(h))
        BY <1>b, <1>2 DEF ReadEvidence, ReadResult, BindResult, files
      <3> QED
        BY <3>1, <3>2, <3>3, <3>4 DEF Next, StatusStep
    <2>2. /\ reader.pc = "inputs" /\ reader.todo \ {reader.gate} = {}
          /\ InputsBound(reader.gate)
          /\ status' = [evidence |-> reader.evidence, results |-> reader.results]
      BY <1>2, <2>1 DEF CheckInputs
    <2>3. PICK res, e : res = reader.results[g] /\ e = reader.evidence
      OBVIOUS
    <2>4. Origin(g, res) /\ e \in Evidence /\ Binds(g, e)
      BY <2>2, <2>3 DEF ReaderInv, Accepted, LookInv
    <2>5. Judged(g, res)
      <3>1. CASE g = reader.gate
        BY <2>2, <2>3, <2>4, <3>1, InputIsJudged DEF InputsBound
      <3>2. CASE g # reader.gate
        BY <2>2, <2>3, <3>2 DEF LookInv
      <3> QED
        BY <3>1, <3>2
    <2>6. Judged(g, res)' /\ Binds(g, e)'
      BY <2>4, <2>5, LooksStay
    <2>7. status'.results[g] = res /\ status'.evidence = e
      BY <2>2, <2>3
    <2> QED
      BY <2>6, <2>7 DEF Judged, Binds, SummaryWriters, ResultWriters
  <1> QED
    BY <1>1, <1>2

-----------------------------------------------------------------------------
(* The theorems.                                                            *)

\* The initial state has no process and no file.
LEMMA InitInvariant == Init => IInv
  <1> SUFFICES ASSUME Init PROVE IInv
    OBVIOUS
  <1>1. TypeOK
    BY InitType
  <1>2. ProcessInv
    BY DEF Init, ProcessInv, Off, NoRecorder
  <1>3. ResultInv
    BY FileAssumption DEF Init, ResultInv
  <1>4. ReaderInv /\ StatusInv /\ LookInv /\ StatusLook
    BY DEF Init, ReaderInv, StatusInv, NoReader, LookInv, StatusLook, JudgedWhatItBinds,
           BoundResultPasses
  <1>5. SummaryInv
    BY ContentsDiffer DEF Init, SummaryInv, Knows, Off
  <1>6. OutcomeInv
    BY ContentsDiffer DEF Init, OutcomeInv, NoRecorder
  <1> QED
    BY <1>1, <1>2, <1>3, <1>4, <1>5, <1>6 DEF IInv

\* Every step keeps the invariant.
LEMMA NextInvariant == IInv /\ [Next]_vars => IInv'
  <1> SUFFICES ASSUME IInv, [Next]_vars PROVE IInv'
    OBVIOUS
  <1>1. CASE Next
    <2>1. TypeOK' /\ ProcessInv'
      <3>1. CASE \/ \E r \in Runs : StartRecorder(r)
                 \/ RecorderStep \/ KillRecorder
        BY <3>1, RecorderType, RecorderProcess DEF IInv
      <3>2. CASE \E i \in Invocations, g \in Gates : EvaluatorStep(i, g) \/ BuilderStep(i, g)
        BY <3>2, WorkerType, WorkerProcess DEF IInv
      <3>3. CASE StatusStep
        BY <3>3, ReaderType, ReaderProcess DEF IInv
      <3> QED
        BY <1>1, <3>1, <3>2, <3>3 DEF Next
    <2>2. ResultInv' /\ ReaderInv' /\ StatusInv'
      BY <1>1, ResultStep, ReaderStep, StatusInvStep DEF IInv
    <2>3. SummaryInv'
      <3>1. \A g \in Gates :
               /\ summary'[g] \in Summary => SummaryOut(g, summary[g])'
               /\ summary'[g] = Torn =>
                     \E j \in Invocations : build'[j][g] \in {"torn", "failed"}
        BY <1>1, SummaryFileStep DEF IInv, SummaryInv
      <3>2. \A i \in Invocations, g \in Gates : Knows(i, g)'
        BY <1>1, <2>1, KnowsStep DEF IInv
      <3> QED
        BY <3>1, <3>2 DEF SummaryInv
    <2>4. OutcomeInv' /\ LookInv' /\ StatusLook'
      BY <1>1, OutcomeStep, LookStep, StatusLookStep DEF IInv
    <2> QED
      BY <2>1, <2>2, <2>3, <2>4 DEF IInv
  <1>2. CASE UNCHANGED vars
    <2>1. UNCHANGED <<current, run, rec, eval, build, summary, result, evidence, reader, status>>
      BY <1>2 DEF vars, processes, files
    <2>2. TypeOK' /\ ProcessInv'
      BY <2>1 DEF IInv, TypeOK, ProcessInv
    <2>3. ResultInv' /\ ReaderInv' /\ StatusInv'
      BY <2>1 DEF IInv, ResultInv, ReaderInv, StatusInv, Origin, Accepted
    <2>4. SummaryInv'
      BY <2>1 DEF IInv, SummaryInv, Knows, SummaryOut, SummaryWriters, Two
    <2>5. OutcomeInv'
      BY <2>1 DEF IInv, OutcomeInv, Records, ResultOut, ResultWriters, Two
    <2>6. LookInv'
      <3>1. \A o, i, g : Records(o, i, g)' <=> Records(o, i, g)
        BY <2>1 DEF Records, ResultOut, ResultWriters, Two
      <3>2. \A g, e : Binds(g, e)' <=> Binds(g, e)
        BY <2>1 DEF Binds, ResultWriters, Two
      <3>3. \A g, res : Judged(g, res)' <=> Judged(g, res)
        BY <2>1 DEF Judged, SummaryWriters, Two
      <3> QED
        BY <2>1, <3>1, <3>2, <3>3 DEF IInv, LookInv
    <2>7. StatusLook'
      BY <2>1 DEF IInv, StatusLook, JudgedWhatItBinds, BoundResultPasses, SummaryWriters,
         ResultWriters
    <2> QED
      BY <2>2, <2>3, <2>4, <2>5, <2>6, <2>7 DEF IInv
  <1> QED
    BY <1>1, <1>2

\* The inductive invariant holds in every reachable state, whatever orphans do.
THEOREM RecorderInvariance == Spec => []IInv
  <1> QED
    BY InitInvariant, NextInvariant, PTL DEF Spec

\* Every variable keeps its type: in particular a status is only written with a
\* result for every required gate (build_candidate_status).
THEOREM RecorderTypeCorrect == Spec => []TypeOK
  <1>1. IInv => TypeOK
    BY DEF IInv
  <1> QED
    BY <1>1, RecorderInvariance, PTL

\* The gates of a status were evaluated in its run by evaluators and builders that
\* succeeded, for any number of invocations and orphans.
THEOREM StatusRestsOnItsRun == Spec => []StatusOfOneRun
  <1>1. IInv => StatusOfOneRun
    <2> SUFFICES ASSUME IInv, status # NoFile, NEW g \in Gates
                 PROVE  \E i \in Invocations :
                          /\ run[i] = status.evidence.run
                          /\ eval[i][g].pc = "exit0" /\ build[i][g] = "exit0"
                          /\ status.results[g] = [run |-> run[i], invocation |-> i,
                                                  input |-> eval[i][g].digest, pass |-> TRUE]
      BY DEF StatusOfOneRun
    <2> DEFINE res == status.results[g]
    <2>1. Origin(g, res) /\ res.run = status.evidence.run
      BY DEF IInv, StatusInv
    <2>2. res.invocation \in Invocations /\ res.run = run[res.invocation]
      BY <2>1 DEF Origin, Result
    <2> QED
      BY <2>1, <2>2 DEF Origin
  <1> QED
    BY <1>1, RecorderInvariance, PTL

\* In a status the digest a result binds is of the summary that was judged: what
\* the evaluator hashed and did not judge has been overwritten and does not come
\* back before the status builder's second look, unless two others truncated the
\* file around the load (hash, then load, in evaluate_required_gate_v0.py).
THEOREM StatusBindsWhatWasJudged == Spec => []JudgedWhatItBinds
  <1>1. IInv => JudgedWhatItBinds
    BY DEF IInv, StatusLook
  <1> QED
    BY <1>1, RecorderInvariance, PTL

\* The digest the evidence binds is of a passing result, although the recorder
\* hashed one content and read the verdict of another if an orphan came between.
THEOREM StatusBindsPassingResults == Spec => []BoundResultPasses
  <1>1. IInv => BoundResultPasses
    BY DEF IInv, StatusLook
  <1> QED
    BY <1>1, RecorderInvariance, PTL
=============================================================================
