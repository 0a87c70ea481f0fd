------------------------- MODULE RelationFoldProofs -------------------------
(***************************************************************************)
(* What the fold's digests buy, for every plan, report, packet list and     *)
(* expectation.  The records stay closed: of the gates the proofs use only  *)
(* that there are three and that they are Booleans.                         *)
(*                                                                         *)
(* The argument orders gate values by extension: a status only gains gates, *)
(* so what a fold digested, what it loaded and what is on disk are in order,*)
(* and a digest that still holds makes all three equal.  That an output a   *)
(* fold vouched for extends the status on disk keeps the status growing.    *)
(***************************************************************************)
EXTENDS RelationFold, TLAPS

Extends(a, b) == \A g \in GateIds : a[g] # None => b[g] = a[g]

StatusValues == [GateIds -> BOOLEAN \cup {None}]

\* A gate has appeared in the status since the fold loaded it.
Overtaken(f) == \E g \in GateIds : f.status[g] = None /\ status[g] # None

OutputInv ==
    /\ origin \in {"unchecked", "ok"} => folded \in [GateIds -> BOOLEAN]
    /\ origin = "ok" => Extends(status, folded)

SnapshotInv ==
    fold.pc \in {"status", "relation", "validate", "derive", "write", "check"} =>
        /\ fold.snapshot.status \in StatusValues
        /\ Extends(fold.snapshot.status, status)

LoadedInv ==
    fold.pc \in {"relation", "validate", "derive", "write", "check"} =>
        /\ fold.status \in StatusValues
        /\ Extends(fold.snapshot.status, fold.status)
        /\ Extends(fold.status, status)

TogetherInv == fold.pc = "validate" => fold.together \/ Overtaken(fold)

GatesInv ==
    fold.pc \in {"write", "check"} =>
        fold.gates \in [GateIds -> BOOLEAN] /\ Extends(fold.status, fold.gates)

CheckInv == fold.pc = "check" => folded = fold.gates /\ origin = "unchecked"

FInv ==
    /\ TypeOK
    /\ OutputInv /\ SnapshotInv /\ LoadedInv /\ TogetherInv /\ GatesInv /\ CheckInv
    /\ FoldedFromOneMoment
    /\ UncheckedOnlyAfterKill

-----------------------------------------------------------------------------

\* FInv holds initially and is kept by every step.
LEMMA FoldInductive == (Init => FInv) /\ (FInv /\ [Next]_vars => FInv')
<1> USE DEF GateIds
<1>1. Init => FInv
  <2> SUFFICES ASSUME Init PROVE FInv
    OBVIOUS
  <2>1. fold.pc = "idle" /\ build.pc = "idle" /\ origin = "none"
    BY DEF Init, NoBuild, NoFold, Builder, Folding
  <2>2. TypeOK
    BY <2>1 DEF Init, TypeOK, NoGates
  <2> QED BY <2>1, <2>2 DEF FInv, OutputInv, SnapshotInv, LoadedInv, TogetherInv, GatesInv,
         CheckInv, FoldedFromOneMoment, UncheckedOnlyAfterKill
<1>2. ASSUME FInv, [Next]_vars PROVE FInv'
  <2> USE <1>2
  <2> DEFINE fileInvs == OutputInv /\ SnapshotInv /\ LoadedInv /\ TogetherInv /\ GatesInv
                         /\ CheckInv /\ FoldedFromOneMoment /\ UncheckedOnlyAfterKill
  <2>1. TypeOK /\ fileInvs
    BY DEF FInv
  <2>2. SUFFICES TypeOK' /\ fileInvs'
    BY DEF FInv
  <2> HIDE <1>2
  \* Steps that leave status, output and fold alone.
  <2>3. ASSUME UNCHANGED <<status, folded, origin, killed, fold>> PROVE fileInvs'
    BY <2>1, <2>3 DEF OutputInv, SnapshotInv, LoadedInv, TogetherInv, GatesInv, CheckInv,
       FoldedFromOneMoment, UncheckedOnlyAfterKill, Overtaken, Extends
  <2>4. ASSUME UNCHANGED vars PROVE TypeOK' /\ fileInvs'
    <3>1. TypeOK' BY <2>1, <2>4 DEF vars, files, TypeOK
    <3> QED BY <3>1, <2>3, <2>4 DEF vars, files
  <2>5. ASSUME NEW r \in scene.reports, Analyze(r) PROVE TypeOK' /\ fileInvs'
    <3>1. TypeOK' BY <2>1, <2>5 DEF Analyze, output, TypeOK
    <3> QED BY <3>1, <2>3, <2>5 DEF Analyze, output
  <2>6. ASSUME BuilderNext PROVE TypeOK' /\ fileInvs'
    <3>1. UNCHANGED <<scene, status, folded, origin, killed, fold, report>>
      BY <2>6 DEF BuilderNext, StartBuild, LoadReport, BuildRecord, GiveUpBuild, WriteRelation,
         files, output
    <3>2. build'.pc \in {"idle", "load", "build", "write", "rejected"}
      BY <2>6 DEF BuilderNext, StartBuild, LoadReport, BuildRecord, GiveUpBuild, WriteRelation,
         NoBuild, Builder
    <3>3. TypeOK' BY <2>1, <3>1, <3>2 DEF TypeOK
    <3> QED BY <3>1, <3>3, <2>3
  <2>7. ASSUME StartFold PROVE TypeOK' /\ fileInvs'
    <3>1. UNCHANGED <<scene, report, status, folded, origin, killed, build>>
      BY <2>7 DEF StartFold, files, output
    <3>2. TypeOK'
      BY <2>1, <2>7, <3>1 DEF TypeOK, StartFold, NoFold, Folding
    <3>3. /\ fold'.pc = "status" /\ fold.pc = "idle"
          /\ fold'.snapshot.status = status
      BY <2>7 DEF StartFold, Folding
    <3>4. status \in StatusValues
      BY <2>1 DEF TypeOK, StatusValues
    <3> QED BY <2>1, <3>1, <3>2, <3>3, <3>4 DEF OutputInv, SnapshotInv, LoadedInv, TogetherInv, GatesInv, CheckInv,
       FoldedFromOneMoment, UncheckedOnlyAfterKill, Extends
  <2>8. ASSUME LoadStatus PROVE TypeOK' /\ fileInvs'
    <3>1. UNCHANGED <<scene, report, status, folded, origin, killed, build>>
      BY <2>8 DEF LoadStatus, files, output
    <3>2. TypeOK'
      BY <2>1, <2>8, <3>1 DEF TypeOK, LoadStatus, NoFold, Folding
    <3>3. /\ fold'.pc = "relation" /\ fold.pc = "status"
          /\ fold'.snapshot = fold.snapshot /\ fold'.status = status
      BY <2>8 DEF LoadStatus, Folding
    <3>4. status \in StatusValues
      BY <2>1 DEF TypeOK, StatusValues
    <3> QED BY <2>1, <3>1, <3>2, <3>3, <3>4 DEF OutputInv, SnapshotInv, LoadedInv, TogetherInv, GatesInv, CheckInv,
       FoldedFromOneMoment, UncheckedOnlyAfterKill, Extends
  <2>9. ASSUME LoadRelation PROVE TypeOK' /\ fileInvs'
    <3>1. UNCHANGED <<scene, report, status, folded, origin, killed, build>>
      BY <2>9 DEF LoadRelation, files, output
    <3>2. TypeOK'
      BY <2>1, <2>9, <3>1 DEF TypeOK, LoadRelation, NoFold, Folding
    <3>3. /\ fold'.pc = "validate" /\ fold.pc = "relation"
          /\ fold'.snapshot = fold.snapshot /\ fold'.status = fold.status
          /\ fold'.together = (status = fold.status)
      BY <2>9 DEF LoadRelation, Folding
    <3>4. status = fold.status \/ Overtaken(fold)
      <4>1. status \in StatusValues /\ fold.status \in StatusValues /\ Extends(fold.status, status)
        BY <2>1, <3>3 DEF TypeOK, StatusValues, LoadedInv
      <4>2. ASSUME status # fold.status PROVE \E g \in GateIds : status[g] # fold.status[g]
        BY <4>1, <4>2 DEF StatusValues
      <4> QED BY <4>1, <4>2 DEF Overtaken, Extends
    <3>5. TogetherInv'
      BY <3>1, <3>3, <3>4 DEF TogetherInv, Overtaken
    <3> QED BY <2>1, <3>1, <3>2, <3>3, <3>5 DEF OutputInv, SnapshotInv, LoadedInv, TogetherInv, GatesInv, CheckInv,
       FoldedFromOneMoment, UncheckedOnlyAfterKill, Extends
  <2>10. ASSUME ValidateRelation PROVE TypeOK' /\ fileInvs'
    <3>1. UNCHANGED <<scene, report, status, folded, origin, killed, build>>
      BY <2>10 DEF ValidateRelation, files, output
    <3>2. TypeOK'
      BY <2>1, <2>10, <3>1 DEF TypeOK, ValidateRelation, NoFold, Folding
    <3>3. CASE fold'.pc = "idle"
      BY <2>1, <3>1, <3>2, <3>3, <2>10 DEF ValidateRelation, OutputInv, SnapshotInv, LoadedInv, TogetherInv, GatesInv, CheckInv,
       FoldedFromOneMoment, UncheckedOnlyAfterKill
    <3>4. CASE SnapshotsHold(fold)
      <4>1. /\ fold'.pc = "derive" /\ fold.pc = "validate" /\ fold.snapshot.status = status
            /\ fold'.snapshot = fold.snapshot /\ fold'.status = fold.status
            /\ fold'.together = fold.together
        BY <2>10, <3>4 DEF ValidateRelation, Folding, SnapshotsHold
      <4>2. fold.status = status
        BY <2>1, <4>1 DEF LoadedInv, SnapshotInv, TypeOK, StatusValues, Extends
      <4>3. fold.together
        BY <2>1, <4>1, <4>2 DEF TogetherInv, Overtaken
      <4> QED BY <2>1, <3>1, <3>2, <4>1, <4>2, <4>3 DEF OutputInv, SnapshotInv, LoadedInv, TogetherInv, GatesInv, CheckInv,
       FoldedFromOneMoment, UncheckedOnlyAfterKill
    <3> QED BY <2>10, <3>3, <3>4 DEF ValidateRelation, NoFold, Folding
  <2>11. ASSUME DeriveGates PROVE TypeOK' /\ fileInvs'
    <3>1. UNCHANGED <<scene, report, status, folded, origin, killed, build>>
      BY <2>11 DEF DeriveGates, files, output
    <3>2. TypeOK'
      BY <2>1, <2>11, <3>1 DEF TypeOK, DeriveGates, NoFold, Folding
    <3> DEFINE gates == CandidateGates(Record(fold.relation))
    <3>3. gates \in [GateIds -> BOOLEAN]
      BY DEF CandidateGates, TransitionPathComplete, AuthorityBindingOk, UnboundMutationAbsent
    <3> HIDE DEF gates
    <3>4. CASE fold'.pc = "idle"
      BY <2>1, <3>1, <3>2, <3>4, <2>11 DEF DeriveGates, OutputInv, SnapshotInv, LoadedInv, TogetherInv, GatesInv, CheckInv,
       FoldedFromOneMoment, UncheckedOnlyAfterKill
    <3>5. CASE ~(Conflict(fold.status, gates) \/ ~SnapshotsHold(fold))
      <4>1. /\ fold'.pc = "write" /\ fold.pc = "derive"
            /\ fold'.snapshot = fold.snapshot /\ fold'.status = fold.status
            /\ fold'.together = fold.together /\ fold'.gates = gates
        BY <2>11, <3>5 DEF DeriveGates, Folding, gates
      <4>2. Extends(fold.status, gates)
        BY <3>5 DEF Conflict, Extends
      <4> QED BY <2>1, <3>1, <3>2, <3>3, <4>1, <4>2 DEF OutputInv, SnapshotInv, LoadedInv, TogetherInv, GatesInv, CheckInv,
       FoldedFromOneMoment, UncheckedOnlyAfterKill
    <3> QED BY <2>11, <3>4, <3>5 DEF DeriveGates, NoFold, Folding, gates
  <2>12. ASSUME WriteFolded PROVE TypeOK' /\ fileInvs'
    <3>1. UNCHANGED <<scene, report, status, killed, build>>
      BY <2>12 DEF WriteFolded
    <3>2. /\ fold'.pc = "check" /\ fold.pc = "write"
          /\ fold'.snapshot = fold.snapshot /\ fold'.status = fold.status
          /\ fold'.together = fold.together /\ fold'.gates = fold.gates
          /\ folded' = fold.gates /\ origin' = "unchecked"
      BY <2>12 DEF WriteFolded, Folding
    <3>3. TypeOK'
      BY <2>1, <3>1, <3>2 DEF TypeOK, GatesInv
    <3> QED BY <2>1, <3>1, <3>2, <3>3 DEF OutputInv, SnapshotInv, LoadedInv, TogetherInv, GatesInv, CheckInv,
       FoldedFromOneMoment, UncheckedOnlyAfterKill, Extends
  <2>13. ASSUME CheckAgain PROVE TypeOK' /\ fileInvs'
    <3>1. UNCHANGED <<scene, report, status, killed, build>> /\ fold.pc = "check"
          /\ fold'.pc = "idle"
      BY <2>13 DEF CheckAgain, NoFold, Folding
    <3>2. CASE Withdrawn(fold)
      <4>1. folded' = None /\ origin' = "none"
        BY <2>13, <3>2 DEF CheckAgain
      <4> QED BY <2>1, <3>1, <4>1 DEF TypeOK, OutputInv, SnapshotInv, LoadedInv, TogetherInv, GatesInv, CheckInv,
       FoldedFromOneMoment, UncheckedOnlyAfterKill
    <3>3. CASE ~Withdrawn(fold)
      <4>1. folded' = folded /\ origin' = "ok" /\ fold.snapshot.status = status
        BY <2>13, <3>3 DEF CheckAgain, Withdrawn, SnapshotsHold
      <4>2. folded = fold.gates /\ folded \in [GateIds -> BOOLEAN]
            /\ Extends(fold.status, folded) /\ fold.status = status
        BY <2>1, <3>1, <4>1 DEF CheckInv, GatesInv, FoldedFromOneMoment
      <4> QED BY <2>1, <3>1, <4>1, <4>2 DEF TypeOK, OutputInv, SnapshotInv, LoadedInv, TogetherInv, GatesInv, CheckInv,
       FoldedFromOneMoment, UncheckedOnlyAfterKill, Extends
    <3> QED BY <3>2, <3>3
  <2>14. ASSUME KillFold PROVE TypeOK' /\ fileInvs'
    <3>1. UNCHANGED <<scene, report, status, folded, origin, build>> /\ fold'.pc = "idle"
          /\ killed' = (killed \/ fold.pc = "check")
      BY <2>14 DEF KillFold, files, NoFold, Folding
    <3>2. TypeOK'
      BY <2>1, <3>1 DEF TypeOK
    <3> QED BY <2>1, <3>1, <3>2 DEF OutputInv, SnapshotInv, LoadedInv, TogetherInv, GatesInv, CheckInv,
       FoldedFromOneMoment, UncheckedOnlyAfterKill, Extends
  <2>15. ASSUME Promote PROVE TypeOK' /\ fileInvs'
    <3>1. UNCHANGED <<scene, report, folded, origin, killed, build, fold>>
          /\ status' = folded /\ origin = "ok"
      BY <2>15 DEF Promote, output
    <3>2. folded \in [GateIds -> BOOLEAN] /\ Extends(status, folded)
      BY <2>1, <3>1 DEF OutputInv
    <3>3. TypeOK'
      BY <2>1, <3>1, <3>2 DEF TypeOK
    <3> QED BY <2>1, <3>1, <3>2, <3>3 DEF OutputInv, SnapshotInv, LoadedInv, TogetherInv, GatesInv, CheckInv,
       FoldedFromOneMoment, UncheckedOnlyAfterKill, Extends, Overtaken
  <2> HIDE DEF fileInvs
  <2> QED BY <1>2, <2>4, <2>5, <2>6, <2>7, <2>8, <2>9, <2>10, <2>11, <2>12, <2>13, <2>14, <2>15
      DEF Next, FoldNext
<1> QED BY <1>1, <1>2

\* The status, the output and the phases of both tools keep their types.
THEOREM FoldTypeOK == Spec => []TypeOK
<1>1. FInv => TypeOK BY DEF FInv
<1> QED BY FoldInductive, <1>1, PTL DEF Spec

\* The gates are derived from a status and a relation that were on disk
\* together, and from the status the fold digested.
THEOREM FoldMoment == Spec => []FoldedFromOneMoment
<1>1. FInv => FoldedFromOneMoment BY DEF FInv
<1> QED BY FoldInductive, <1>1, PTL DEF Spec

\* Only a kill leaves an output that no fold vouched for.
THEOREM FoldUnchecked == Spec => []UncheckedOnlyAfterKill
<1>1. FInv => UncheckedOnlyAfterKill BY DEF FInv
<1> QED BY FoldInductive, <1>1, PTL DEF Spec

\* No sequence of folds and promotions changes a gate that is set.
THEOREM FoldNeverFlips == Spec => GatesNeverFlip
<1> DEFINE kept == \A g \in GateIds : status[g] # None => status'[g] = status[g]
<1>1. ASSUME FInv, [Next]_vars PROVE kept
  <2>1. status' = status \/ Promote
    BY <1>1 DEF Next, BuilderNext, FoldNext, Analyze, StartBuild, LoadReport, BuildRecord,
       GiveUpBuild, WriteRelation, StartFold, LoadStatus, LoadRelation, ValidateRelation,
       DeriveGates, WriteFolded, CheckAgain, KillFold, files, vars
  <2>2. ASSUME Promote PROVE kept
    BY <1>1, <2>2 DEF Promote, FInv, OutputInv, Extends
  <2> QED BY <2>1, <2>2
<1>2. FInv /\ [Next]_vars => [kept]_vars
  BY <1>1
<1> HIDE DEF kept
<1>3. Spec => [][kept]_vars
  BY FoldInductive, <1>2, PTL DEF Spec
<1> QED BY <1>3 DEF GatesNeverFlip, kept
=============================================================================
