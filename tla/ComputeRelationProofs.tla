------------------------ MODULE ComputeRelationProofs ------------------------
(***************************************************************************)
(* What the candidate gates say of the raw records, for every plan, report, *)
(* packet list and expectation.                                             *)
(*                                                                         *)
(* The argument goes from the raw records to the gates and back.  A record  *)
(* of the inputs is a function of its observation (SeenOf); closed axes     *)
(* leave no observation open, foreign or without a role; a path gate that   *)
(* is TRUE leaves no observation unplanned and no expectation unmatched, so *)
(* that selection, which never gives one observation to two expectations,   *)
(* is the assignment the properties ask for.  The state invariant says that *)
(* a relation on disk, or read by a fold, was built from inputs the builder *)
(* did not refuse.                                                          *)
(***************************************************************************)
EXTENDS RelationFold, FiniteSetTheorems, TLAPS

WellFormedInput(in) ==
    /\ \A e, f \in in.expectations : e.id = f.id => e = f
    /\ None \notin {e.id : e \in in.expectations} \cup {Presence(op).id : op \in in.operations}
    /\ \A n \in in.report.nodes : n.authority # "unknown"
    /\ in.packets \in Seq(Packets(in))
    /\ \A p \in Packets(in) : \A x \in p.executions : x.authority # "unknown"

Built(in) == WellFormedInput(in) /\ ~Refused(in)

FirstPass(in) == Axes(in, Observations(in), Expectations(in))

-----------------------------------------------------------------------------
(* The record, field by field.                                              *)

\* A record is the second pass over its inputs, with what is derived from it.
LEMMA RecordIs ==
    ASSUME NEW in
    PROVE  /\ Record(in).from = in
           /\ Record(in).expectations = Expectations(in)
           /\ Record(in).observations = Observations(in)
           /\ Record(in).axes = FinalAxes(FirstPass(in),
                  Relations(Observations(in), Expectations(in), FirstPass(in)))
           /\ Record(in).relations =
                  Relations(Observations(in), Expectations(in), Record(in).axes)
           /\ Record(in).findings = Findings(Record(in).relations, Observations(in))
           /\ Record(in).reasons = Reasons(in, Observations(in), Record(in).axes,
                                           Record(in).relations)
           /\ Record(in).runtime = RuntimeStatus(Packets(in))
           /\ Record(in).comparison = Comparison(Record(in))
<1> DEFINE O == Observations(in)
           E == Expectations(in)
           A == FinalAxes(FirstPass(in), Relations(O, E, FirstPass(in)))
           D == Draft(in, O, E, A)
           J == Judged(D)
<1>1. Record(in) = Compared(J)
  BY DEF Record, Drafted, TwoPasses, FirstPass
<1>2. D = [from |-> in, expectations |-> E, observations |-> O, axes |-> A,
           relations |-> Relations(O, E, A), findings |-> {}, reasons |-> {},
           runtime |-> RuntimeStatus(Packets(in)), comparison |-> "unknown"]
  BY DEF Draft
<1> HIDE DEF D, A, E, O
<1>3. J = [from |-> in, expectations |-> E, observations |-> O, axes |-> A,
           relations |-> Relations(O, E, A),
           findings |-> Findings(Relations(O, E, A), O),
           reasons |-> Reasons(in, O, A, Relations(O, E, A)),
           runtime |-> RuntimeStatus(Packets(in)), comparison |-> "unknown"]
  <2>1. PICK F : F = Findings(D.relations, D.observations)
    OBVIOUS
  <2>2. PICK Q : Q = Reasons(D.from, D.observations, D.axes, D.relations)
    OBVIOUS
  <2>3. J = [D EXCEPT !.findings = F, !.reasons = Q]
    BY <2>1, <2>2 DEF Judged, J
  <2>4. D.from = in /\ D.observations = O /\ D.axes = A /\ D.relations = Relations(O, E, A)
    BY <1>2
  <2>5. F = Findings(Relations(O, E, A), O) /\ Q = Reasons(in, O, A, Relations(O, E, A))
    BY <2>1, <2>2, <2>4
  <2>6. PICK R, U : R = Relations(O, E, A) /\ U = RuntimeStatus(Packets(in))
    OBVIOUS
  <2>7. D = [from |-> in, expectations |-> E, observations |-> O, axes |-> A,
             relations |-> R, findings |-> {}, reasons |-> {},
             runtime |-> U, comparison |-> "unknown"]
    BY <1>2, <2>6
  <2>8. J = [from |-> in, expectations |-> E, observations |-> O, axes |-> A,
             relations |-> R, findings |-> F, reasons |-> Q,
             runtime |-> U, comparison |-> "unknown"]
    BY <2>3, <2>7
  <2> QED BY <2>5, <2>6, <2>8
<1> HIDE DEF J
<1>4. Compared(J) =
          [from |-> in, expectations |-> E, observations |-> O, axes |-> A,
           relations |-> Relations(O, E, A),
           findings |-> Findings(Relations(O, E, A), O),
           reasons |-> Reasons(in, O, A, Relations(O, E, A)),
           runtime |-> RuntimeStatus(Packets(in)), comparison |-> Comparison(J)]
  BY <1>3 DEF Compared
<1>5. PICK R : R = Record(in)
  OBVIOUS
<1>6. R = [from |-> in, expectations |-> E, observations |-> O, axes |-> A,
           relations |-> Relations(O, E, A),
           findings |-> Findings(Relations(O, E, A), O),
           reasons |-> Reasons(in, O, A, Relations(O, E, A)),
           runtime |-> RuntimeStatus(Packets(in)), comparison |-> Comparison(J)]
  BY <1>1, <1>4, <1>5
<1>7. /\ R.from = in /\ R.expectations = E /\ R.observations = O /\ R.axes = A
      /\ R.relations = Relations(O, E, A) /\ R.findings = Findings(Relations(O, E, A), O)
      /\ R.reasons = Reasons(in, O, A, Relations(O, E, A))
      /\ R.runtime = RuntimeStatus(Packets(in)) /\ R.comparison = Comparison(J)
  BY <1>6
<1>8. /\ J.expectations = R.expectations /\ J.observations = R.observations
      /\ J.relations = R.relations /\ J.axes = R.axes /\ J.reasons = R.reasons
  BY <1>3, <1>7
<1>9. Comparison(J) = Comparison(R)
  BY <1>8 DEF Comparison, CoverageClosed, Classified
<1> QED BY <1>5, <1>7, <1>9 DEF O, E, A

-----------------------------------------------------------------------------
(* Closed axes.                                                             *)

LEMMA CombineClosed ==
    ASSUME NEW S, CombineStatuses(S) \in {"complete", "not_required"}
    PROVE  \A s \in S : s = "complete"
BY DEF CombineStatuses

LEMMA LoweredClosed ==
    ASSUME NEW base, NEW evidence, Lowered(base, evidence) \in {"complete", "not_required"}
    PROVE  /\ "unknown" \notin evidence /\ "partial" \notin evidence
           /\ base \in {"complete", "not_required"}
<1>1. "unknown" \notin evidence
  BY DEF Lowered
<1>2. base # "unknown"
  BY <1>1 DEF Lowered
<1>3. "partial" \notin evidence
  BY <1>1, <1>2 DEF Lowered
<1>4. Lowered(base, evidence) = base
  BY <1>1, <1>3 DEF Lowered
<1> QED BY <1>1, <1>3, <1>4

\* Over closed axes every observation is of the subject's run, captured whole,
\* exact in its source and certain in its role and consumption.
LEMMA ClosedMeansWhole ==
    ASSUME NEW in, NEW O, NEW E, Closed(Axes(in, O, E))
    PROVE  /\ \A o \in O : /\ o.own /\ o.coverage = "complete" /\ o.role # "unknown"
                           /\ o.downstream # "unresolved"
           /\ in.report.level = "runtime_observed" => RuntimeStatus(Packets(in)) = "complete"
<1> DEFINE base == IF O # {} THEN CombineStatuses({o.coverage : o \in O})
                   ELSE IF \E e \in E : Executes(e) THEN "unknown" ELSE "not_required"
           incomplete == IF in.report.level = "runtime_observed"
                               /\ RuntimeStatus(Packets(in)) # "complete"
                         THEN {"partial"} ELSE {}
           foreign == IF \E o \in O : ~o.own THEN {"partial"} ELSE {}
           evidence == {n.binding : n \in in.report.nodes}
                         \cup {p.status : p \in Packets(in)} \cup incomplete \cup foreign
           roles == {IF o.role = "unknown" THEN "unknown" ELSE "complete" : o \in O}
           ends == {IF o.downstream # "unresolved" THEN "complete"
                    ELSE IF o.coverage = "unknown" THEN "unknown" ELSE "partial" : o \in O}
           A == Axes(in, O, E)
<1>1. /\ A.execution = Lowered(base, evidence)
      /\ A.role = CombineStatuses(roles)
      /\ A.downstream = CombineStatuses(ends)
      /\ {"execution", "role", "downstream"} \subseteq DOMAIN A
  BY DEF Axes
<1> HIDE DEF A
<1>2. \A a \in {"execution", "role", "downstream"} : A[a] \in {"complete", "not_required"}
  BY <1>1 DEF Closed, A
<1> HIDE DEF base, evidence, roles, ends
<1>3. /\ Lowered(base, evidence) \in {"complete", "not_required"}
      /\ CombineStatuses(roles) \in {"complete", "not_required"}
      /\ CombineStatuses(ends) \in {"complete", "not_required"}
  BY <1>1, <1>2
<1>4. "partial" \notin evidence /\ base \in {"complete", "not_required"}
  BY <1>3, LoweredClosed
<1>5. (\A s \in roles : s = "complete") /\ (\A s \in ends : s = "complete")
  BY <1>3, CombineClosed
<1>6. ASSUME NEW o \in O
      PROVE  o.own /\ o.coverage = "complete" /\ o.role # "unknown" /\ o.downstream # "unresolved"
  <2>1. o.own
    BY <1>4 DEF evidence
  <2>2. CombineStatuses({x.coverage : x \in O}) \in {"complete", "not_required"}
    BY <1>4 DEF base
  <2>3. o.coverage = "complete"
    BY <2>2, CombineClosed
  <2>4. (IF o.role = "unknown" THEN "unknown" ELSE "complete") = "complete"
    BY <1>5 DEF roles
  <2>5. (IF o.downstream # "unresolved" THEN "complete"
         ELSE IF o.coverage = "unknown" THEN "unknown" ELSE "partial") = "complete"
    BY <1>5 DEF ends
  <2> QED BY <2>1, <2>3, <2>4, <2>5
<1>7. in.report.level = "runtime_observed" => RuntimeStatus(Packets(in)) = "complete"
  BY <1>4 DEF evidence
<1> QED BY <1>6, <1>7

-----------------------------------------------------------------------------
(* Raw records and observations.                                            *)

SeenOf(o) ==
    [id |-> o.id, source |-> IF o.source = "compute_binding_report" THEN "report" ELSE "packet",
     step |-> o.step, type |-> o.type, surface |-> o.surface, digest |-> o.digest,
     own |-> o.own, role |-> o.role, authority |-> o.authority,
     consumed |-> o.downstream = "observed", decides |-> o.mutates,
     sound |-> o.binding = "complete"]

LEMMA DownstreamObserved ==
    ASSUME NEW outputs, NEW coverage
    PROVE  (Downstream(outputs, coverage) = "observed") = (outputs = "consumed")
BY DEF Downstream

LEMMA RuntimeBindingComplete ==
    ASSUME NEW capture, NEW bound, NEW surface, NEW digest
    PROVE  (RuntimeBinding(capture, bound, IdentityStatus(surface, digest)) = "complete")
           = (capture = "complete" /\ bound /\ None \notin {surface, digest})
<1> DEFINE i == IdentityStatus(surface, digest)
<1>1. i \in {"exact", "unknown", "partial"} /\ (i = "exact" <=> None \notin {surface, digest})
  BY DEF IdentityStatus
<1> HIDE DEF i
<1>2. RuntimeBinding(capture, bound, i) = "complete" <=>
          capture = "complete" /\ bound /\ None \notin {surface, digest}
  <2>1. CASE "unknown" \in {capture, i}
    BY <1>1, <2>1 DEF RuntimeBinding
  <2>2. CASE "unknown" \notin {capture, i} /\ (capture # "complete" \/ ~bound \/ i = "partial")
    BY <1>1, <2>2 DEF RuntimeBinding
  <2>3. CASE "unknown" \notin {capture, i} /\ ~(capture # "complete" \/ ~bound \/ i = "partial")
    BY <1>1, <2>3 DEF RuntimeBinding
  <2> QED BY <2>1, <2>2, <2>3
<1> QED BY <1>2 DEF i

LEMMA SeenOfNode ==
    ASSUME NEW n
    PROVE  Seen(n, "report", None, n.type, n, n.binding = "complete") = SeenOf(NodeObservation(n))
<1> DEFINE c == IF n.binding = "none" THEN "complete" ELSE n.binding
<1>1. (Downstream(n.outputs, c) = "observed") = (n.outputs = "consumed")
  BY DownstreamObserved
<1> HIDE DEF c
<1> QED BY <1>1 DEF Seen, SeenOf, NodeObservation, Observation, c

LEMMA SeenOfRuntime ==
    ASSUME NEW x, NEW type, NEW context
    PROVE  Seen(x, "packet", context.step, type, context, Whole(x, context))
           = SeenOf(RuntimeObservation(x, type, context.step, context, x.capture,
                                       x.surface, x.digest))
<1> DEFINE b == RuntimeBinding(x.capture, context.bound, IdentityStatus(x.surface, x.digest))
<1>1. (b = "complete") = Whole(x, context)
  BY RuntimeBindingComplete DEF Whole
<1>2. (Downstream(x.outputs, b) = "observed") = (x.outputs = "consumed")
  BY DownstreamObserved
<1>3. RuntimeObservation(x, type, context.step, context, x.capture, x.surface, x.digest)
      = Observation("runtime_observation_packet", x, type, context.step, context.observer,
                    context.role, context.authority, context.own, b, b)
  BY DEF RuntimeObservation
<1> HIDE DEF b
<1> QED BY <1>1, <1>2, <1>3 DEF Seen, SeenOf, Observation

\* A child whose parent is in its packet borrows from that parent.
LEMMA ParentIs ==
    ASSUME NEW p, ~SharesId(p.executions \cup p.children),
           NEW c \in p.children, NEW e \in p.executions, c.parent = e.id
    PROVE  ParentContext(c, p.executions) = e
<1>1. \A f \in p.executions : f.id = e.id => f = e
  BY DEF SharesId
<1> QED BY <1>1 DEF ParentContext

LEMMA SeenHasObservation ==
    ASSUME NEW in, ~RefusedRecords(in), NEW x \in AllSeen(in)
    PROVE  \E o \in Observations(in) : x = SeenOf(o)
<1>1. CASE \E n \in in.report.nodes :
               x = Seen(n, "report", None, n.type, n, n.binding = "complete")
  <2>1. PICK n \in in.report.nodes :
            x = Seen(n, "report", None, n.type, n, n.binding = "complete")
    BY <1>1
  <2>2. NodeObservation(n) \in Observations(in)
    BY DEF Observations
  <2> QED BY <2>1, <2>2, SeenOfNode
<1>2. ASSUME NEW p \in Packets(in), x \in SeenInPacket(p)
      PROVE  \E o \in Observations(in) : x = SeenOf(o)
  <2>1. PacketObservations(p) \subseteq Observations(in)
    BY DEF Observations
  <2>2. ~SharesId(p.executions \cup p.children)
    BY DEF RefusedRecords
  <2>3. CASE \E e \in p.executions : x = Seen(e, "packet", e.step, e.type, e, Whole(e, e))
    <3>1. PICK e \in p.executions : x = Seen(e, "packet", e.step, e.type, e, Whole(e, e))
      BY <2>3
    <3>2. x = SeenOf(ExecutionObservation(e))
      BY <3>1, SeenOfRuntime DEF ExecutionObservation
    <3> QED BY <2>1, <3>2 DEF PacketObservations
  <2>4. CASE \E m \in [child : p.children, parent : p.executions] :
                 /\ m.child.parent = m.parent.id
                 /\ x = Seen(m.child, "packet", m.parent.step, m.child.kind, m.parent,
                             Whole(m.child, m.parent))
    <3>1. PICK c \in p.children, e \in p.executions :
              /\ c.parent = e.id
              /\ x = Seen(c, "packet", e.step, c.kind, e, Whole(c, e))
      <4>1. PICK m \in [child : p.children, parent : p.executions] :
                 /\ m.child.parent = m.parent.id
                 /\ x = Seen(m.child, "packet", m.parent.step, m.child.kind, m.parent,
                             Whole(m.child, m.parent))
        BY <2>4
      <4>2. m.child \in p.children /\ m.parent \in p.executions
        OBVIOUS
      <4> QED BY <4>1, <4>2
    <3>2. ParentContext(c, p.executions) = e
      BY <2>2, <3>1, ParentIs
    <3>3. ChildObservation(c, p.executions)
          = RuntimeObservation(c, c.kind, e.step, e, c.capture, c.surface, c.digest)
      BY <3>2 DEF ChildObservation
    <3>4. x = SeenOf(ChildObservation(c, p.executions))
      BY <3>1, <3>3, SeenOfRuntime
    <3> QED BY <2>1, <3>4 DEF PacketObservations
  <2> QED BY <1>2, <2>3, <2>4 DEF SeenInPacket
<1> QED BY <1>1, <1>2 DEF AllSeen

\* An observation that is whole stands for a record of the inputs; what stands
\* for none, the child of an absent parent, is never whole.
LEMMA WholeIsSeen ==
    ASSUME NEW in, ~RefusedRecords(in),
           NEW o \in Observations(in), o.coverage = "complete"
    PROVE  SeenOf(o) \in AllSeen(in)
<1>1. CASE \E n \in in.report.nodes : o = NodeObservation(n)
  <2>1. PICK n \in in.report.nodes : o = NodeObservation(n)
    BY <1>1
  <2>2. SeenOf(o) = Seen(n, "report", None, n.type, n, n.binding = "complete")
    BY <2>1, SeenOfNode
  <2> QED BY <2>2 DEF AllSeen
<1>2. ASSUME NEW p \in Packets(in), o \in PacketObservations(p)
      PROVE  SeenOf(o) \in AllSeen(in)
  <2>1. SeenInPacket(p) \subseteq AllSeen(in)
    BY DEF AllSeen
  <2>2. CASE \E e \in p.executions : o = ExecutionObservation(e)
    <3>1. PICK e \in p.executions : o = ExecutionObservation(e)
      BY <2>2
    <3>2. SeenOf(o) = Seen(e, "packet", e.step, e.type, e, Whole(e, e))
      BY <3>1, SeenOfRuntime DEF ExecutionObservation
    <3> QED BY <2>1, <3>2 DEF SeenInPacket
  <2>3. CASE \E c \in p.children : o = ChildObservation(c, p.executions)
    <3>1. PICK c \in p.children : o = ChildObservation(c, p.executions)
      BY <2>3
    <3>2. PICK q : q = ParentContext(c, p.executions)
      OBVIOUS
    <3>3. o = RuntimeObservation(c, c.kind, q.step, q, c.capture, c.surface, c.digest)
      BY <3>1, <3>2 DEF ChildObservation
    <3>4. o.coverage = RuntimeBinding(c.capture, q.bound, IdentityStatus(c.surface, c.digest))
      BY <3>3 DEF RuntimeObservation, Observation
    <3>5. q.bound
      BY <3>4, RuntimeBindingComplete
    <3>6. q \in p.executions /\ q.id = c.parent
      BY <3>2, <3>5 DEF ParentContext
    <3>7. SeenOf(o) = Seen(c, "packet", q.step, c.kind, q, Whole(c, q))
      BY <3>3, SeenOfRuntime
    <3>8. PICK m : m = [child |-> c, parent |-> q]
      OBVIOUS
    <3>9. /\ m \in [child : p.children, parent : p.executions] /\ m.child.parent = m.parent.id
          /\ m.child = c /\ m.parent = q
      BY <3>6, <3>8
    <3>10. SeenOf(o) \in SeenInPacket(p)
      BY <3>7, <3>9 DEF SeenInPacket
    <3> QED BY <2>1, <3>10
  <2> QED BY <1>2, <2>2, <2>3 DEF PacketObservations
<1> QED BY <1>1, <1>2 DEF Observations

-----------------------------------------------------------------------------
(* Comparing an expectation with the observations selected for it.          *)

LEMMA CompareIs ==
    ASSUME NEW want, NEW got
    PROVE  /\ Compare(want, got) = "mismatch" <=> ~Agrees(want, got)
           /\ Compare(want, got) \notin {"mismatch", "unavailable"} => want = None \/ got = want
BY DEF Compare, Agrees

LEMMA VerdictIs ==
    ASSUME NEW results
    PROVE  /\ Verdict(results) = "mismatch" <=> "mismatch" \in results
           /\ Verdict(results) = "match" => "match" \in results
           /\ Verdict(results) \in {"mismatch", "match", "unavailable"}
           /\ FieldsVerdict(results) = "mismatch" <=> "mismatch" \in results
           /\ FieldsVerdict(results) = "match" =>
                  "mismatch" \notin results /\ "unavailable" \notin results
<1>1. CASE "mismatch" \in results
  BY <1>1 DEF Verdict, FieldsVerdict
<1>2. CASE "mismatch" \notin results
  <2>1. Verdict(results) = IF "match" \in results THEN "match" ELSE "unavailable"
    BY <1>2 DEF Verdict
  <2>2. FieldsVerdict(results) = IF "unavailable" \in results THEN "unavailable" ELSE "match"
    BY <1>2 DEF FieldsVerdict
  <2> QED BY <1>2, <2>1, <2>2
<1> QED BY <1>1, <1>2

\* A selector that is decided and does not differ: no observation differs in
\* tool, step or type, and together they carry what it names.
LEMMA SelectorAgrees ==
    ASSUME NEW e, NEW S, S # {}, SelectorResult(e, S) \notin {"mismatch", "unavailable"}
    PROVE  /\ \A o \in S : /\ Agrees(e.tool, o.surface) /\ Agrees(e.step, o.step)
                           /\ Agrees(e.type, o.type)
           /\ Carried(e.tool, {o.surface : o \in S})
           /\ Carried(e.step, {o.step : o \in S})
<1>1. CASE e.tool = None /\ e.step = None /\ e.type = None
  BY <1>1 DEF Agrees, Carried
<1>2. CASE ~(e.tool = None /\ e.step = None /\ e.type = None)
  <2> DEFINE fields(o) == {Compare(e.tool, o.surface), Compare(e.step, o.step),
                           Compare(e.type, o.type)}
             results == {FieldsVerdict(fields(o)) : o \in S}
  <2>1. SelectorResult(e, S) = Verdict(results)
    BY <1>2 DEF SelectorResult
  <2>2. "mismatch" \notin results /\ "match" \in results
    <3> HIDE DEF results
    <3> QED BY <2>1, VerdictIs
  <2>3. ASSUME NEW o \in S
        PROVE  /\ Agrees(e.tool, o.surface) /\ Agrees(e.step, o.step) /\ Agrees(e.type, o.type)
    <3>1. FieldsVerdict(fields(o)) # "mismatch"
      BY <2>2
    <3>2. "mismatch" \notin fields(o)
      <4> HIDE DEF fields
      <4> QED BY <3>1, VerdictIs
    <3> QED BY <3>2, CompareIs
  <2>4. PICK o \in S : FieldsVerdict(fields(o)) = "match"
    BY <2>2
  <2>5. "mismatch" \notin fields(o) /\ "unavailable" \notin fields(o)
    <3> HIDE DEF fields
    <3> QED BY <2>4, VerdictIs
  <2>6. (e.tool = None \/ o.surface = e.tool) /\ (e.step = None \/ o.step = e.step)
    BY <2>5, CompareIs
  <2>7. Carried(e.tool, {x.surface : x \in S}) /\ Carried(e.step, {x.step : x \in S})
    BY <2>6 DEF Carried
  <2> QED BY <2>3, <2>7
<1> QED BY <1>1, <1>2

LEMMA SourceDiffers ==
    ASSUME NEW e, NEW S
    PROVE  SourceResult(e, S) = "mismatch" <=>
               \E o \in S : ~Agrees(e.surface, o.surface) \/ ~Agrees(e.digest, o.digest)
<1>1. CASE e.surface = None /\ e.digest = None
  BY <1>1 DEF SourceResult, Agrees
<1>2. CASE ~(e.surface = None /\ e.digest = None)
  <2> DEFINE fields(o) == {Compare(e.surface, o.surface), Compare(e.digest, o.digest)}
             results == {FieldsVerdict(fields(o)) : o \in S}
  <2>1. SourceResult(e, S) = Verdict(results)
    BY <1>2 DEF SourceResult
  <2>2. Verdict(results) = "mismatch" <=> "mismatch" \in results
    BY VerdictIs
  <2>3. ASSUME NEW o \in S
        PROVE  FieldsVerdict(fields(o)) = "mismatch" <=>
                   ~Agrees(e.surface, o.surface) \/ ~Agrees(e.digest, o.digest)
    <3>1. FieldsVerdict(fields(o)) = "mismatch" <=> "mismatch" \in fields(o)
      BY VerdictIs
    <3> QED BY <3>1, CompareIs
  <2>4. "mismatch" \in results <=> \E o \in S : FieldsVerdict(fields(o)) = "mismatch"
    BY DEF results
  <2> HIDE DEF results, fields
  <2> QED BY <2>1, <2>2, <2>3, <2>4
<1> QED BY <1>1, <1>2

LEMMA FieldDiffers ==
    ASSUME NEW want, NEW values
    PROVE  FieldResult(want, values) = "mismatch" <=>
               \E v \in values : v # "unknown" /\ ~Agrees(want, v)
<1>1. CASE want = None
  BY <1>1 DEF FieldResult, Agrees
<1>2. CASE want # None
  <2> DEFINE known(v) == IF v = "unknown" THEN None ELSE v
             results == {Compare(want, known(v)) : v \in values}
  <2>1. FieldResult(want, values) = Verdict(results)
    BY <1>2 DEF FieldResult
  <2>2. Verdict(results) = "mismatch" <=> "mismatch" \in results
    BY VerdictIs
  <2>3. ASSUME NEW v \in values
        PROVE  Compare(want, known(v)) = "mismatch" <=> v # "unknown" /\ ~Agrees(want, v)
    <3>1. Compare(want, known(v)) = "mismatch" <=> ~Agrees(want, known(v))
      BY CompareIs
    <3>2. CASE v = "unknown"
      BY <3>1, <3>2 DEF Agrees
    <3>3. CASE v # "unknown"
      BY <3>1, <3>3
    <3> QED BY <3>2, <3>3
  <2>4. "mismatch" \in results <=> \E v \in values : Compare(want, known(v)) = "mismatch"
    BY DEF results
  <2> HIDE DEF results, known
  <2> QED BY <2>1, <2>2, <2>3, <2>4
<1> QED BY <1>1, <1>2

LEMMA DownstreamIs ==
    ASSUME NEW e, NEW S
    PROVE  /\ DownstreamResult(e, S) = "observed" => \E o \in S : o.downstream = "observed"
           /\ e.downstream => DownstreamResult(e, S) \in {"observed", "unresolved", "not_observed"}
<1> DEFINE statuses == {o.downstream : o \in S}
<1>1. CASE "observed" \in statuses
  BY <1>1 DEF DownstreamResult
<1>2. CASE "observed" \notin statuses
  BY <1>2 DEF DownstreamResult
<1> QED BY <1>1, <1>2

\* A planned relation the path gate accepts was decided over observations that
\* are not ambiguous; what it leaves open to the authority gate is a difference
\* in source, role or authority.
LEMMA AcceptedPlanned ==
    ASSUME NEW e, NEW S, NEW axes, Executes(e), \A o \in S : o.own,
           PlannedRelation(e, S, axes).status \notin PathFailures
    PROVE  /\ S # {} /\ ~Ambiguous(e, S)
           /\ PlannedRelation(e, S, axes).evaluation = FullEvaluation(e, S, axes)
           /\ SelectorResult(e, S) \notin {"mismatch", "unavailable"}
           /\ FullEvaluation(e, S, axes).source = SourceResult(e, S)
           /\ FullEvaluation(e, S, axes).role = FieldResult(e.role, {o.role : o \in S})
           /\ FullEvaluation(e, S, axes).authority =
                  FieldResult(e.authority, {o.authority : o \in S})
           /\ e.downstream =>
                  \/ DownstreamResult(e, S) = "observed"
                  \/ SourceResult(e, S) = "mismatch"
                  \/ FieldResult(e.role, {o.role : o \in S}) = "mismatch"
                  \/ FieldResult(e.authority, {o.authority : o \in S}) = "mismatch"
<1>1. PICK v : v = FullEvaluation(e, S, axes)
  OBVIOUS
<1>2. PICK t : t = StatusOf(v, e.downstream)
  OBVIOUS
<1>3. PlannedRelation(e, S, axes) =
          IF Ambiguous(e, S)
          THEN Relation(e.id, S, "ambiguous_observation_match",
                        Unresolved(CombineStatuses({o.coverage : o \in S})))
          ELSE IF t = "unresolved_due_to_coverage"
          THEN Relation(e.id, S, t, Unresolved(IncompleteCoverage(axes)))
          ELSE Relation(e.id, S, t, v)
  BY <1>1, <1>2 DEF PlannedRelation, RelationOf
<1>4. ~Ambiguous(e, S)
  <2>1. SUFFICES ASSUME Ambiguous(e, S) PROVE FALSE
    OBVIOUS
  <2>2. PICK u : u = Unresolved(CombineStatuses({o.coverage : o \in S}))
    OBVIOUS
  <2>3. PlannedRelation(e, S, axes) = Relation(e.id, S, "ambiguous_observation_match", u)
    BY <1>3, <2>1, <2>2
  <2> QED BY <2>3 DEF Relation, PathFailures
<1>5. t # "unresolved_due_to_coverage"
  <2>1. SUFFICES ASSUME t = "unresolved_due_to_coverage" PROVE FALSE
    OBVIOUS
  <2>2. PICK u : u = Unresolved(IncompleteCoverage(axes))
    OBVIOUS
  <2>3. PlannedRelation(e, S, axes) = Relation(e.id, S, t, u)
    BY <1>3, <1>4, <2>1, <2>2
  <2> QED BY <2>1, <2>3 DEF Relation, PathFailures
<1>6. PlannedRelation(e, S, axes) = Relation(e.id, S, t, v)
  BY <1>3, <1>4, <1>5
<1>7. t \notin PathFailures /\ PlannedRelation(e, S, axes).evaluation = v
  BY <1>6 DEF Relation
<1>8. S # {}
  <2>1. SUFFICES ASSUME S = {} PROVE FALSE
    OBVIOUS
  <2>2. v = IF axes.execution = "complete" THEN NothingRequired("not_observed")
            ELSE Unresolved(IncompleteCoverage(axes))
    BY <1>1, <2>1 DEF FullEvaluation
  <2>3. v.observation \in {"not_observed", "unresolved"}
    BY <2>2 DEF NothingRequired, Unresolved, Evaluation
  <2> QED BY <1>2, <1>7, <2>3 DEF StatusOf, PathFailures
<1>9. PICK c, i, s, r, a, d :
          /\ c = CombineStatuses({o.coverage : o \in S})
          /\ i = SelectorResult(e, S) /\ s = SourceResult(e, S)
          /\ r = FieldResult(e.role, {o.role : o \in S})
          /\ a = FieldResult(e.authority, {o.authority : o \in S})
          /\ d = DownstreamResult(e, S)
  OBVIOUS
<1>10. v = Evaluation("observed", "match", i, s, r, a, d, c,
                      /\ c = "complete"
                      /\ "unavailable" \notin {i, s, r, a}
                      /\ d # "unresolved")
  <2>1. RunResult(S) = "match"
    BY DEF RunResult
  <2> QED BY <1>1, <1>8, <1>9, <2>1 DEF FullEvaluation
<1>11. /\ v.observation = "observed" /\ v.run = "match" /\ v.identity = i /\ v.source = s
       /\ v.role = r /\ v.authority = a /\ v.downstream = d /\ v.coverage = c
       /\ v.decisive <=> c = "complete" /\ "unavailable" \notin {i, s, r, a} /\ d # "unresolved"
  BY <1>10 DEF Evaluation
<1>12. v.coverage = "complete" /\ v.decisive
  BY <1>2, <1>5, <1>11 DEF StatusOf
<1>13. i # "mismatch"
  <2>1. SUFFICES ASSUME i = "mismatch" PROVE FALSE
    OBVIOUS
  <2>2. t = "execution_identity_mismatch"
    BY <1>2, <1>11, <1>12, <2>1 DEF StatusOf
  <2> QED BY <1>7, <2>2 DEF PathFailures
<1>14. ~(e.downstream /\ s # "mismatch" /\ r # "mismatch" /\ a # "mismatch" /\ d = "not_observed")
  <2>1. SUFFICES ASSUME e.downstream, s # "mismatch", r # "mismatch", a # "mismatch",
                        d = "not_observed"
                 PROVE  FALSE
    OBVIOUS
  <2>2. t = "downstream_consumption_missing"
    BY <1>2, <1>11, <1>12, <1>13, <2>1 DEF StatusOf
  <2> QED BY <1>7, <2>2 DEF PathFailures
<1>15. e.downstream => d \in {"observed", "not_observed"}
  BY <1>9, <1>11, <1>12, DownstreamIs
<1> QED BY <1>1, <1>4, <1>7, <1>8, <1>9, <1>11, <1>12, <1>13, <1>14, <1>15

-----------------------------------------------------------------------------
(* The path gate.                                                           *)

\* The axes of a record the comparison closed are those of the first pass.
LEMMA CompleteIsClosed ==
    ASSUME NEW in, Record(in).comparison = "complete"
    PROVE  Closed(FirstPass(in)) /\ Record(in).axes = FirstPass(in)
<1>1. PICK R : R = Record(in)
  OBVIOUS
<1>2. PICK A : A = FirstPass(in)
  OBVIOUS
<1>3. PICK rels : rels = Relations(Observations(in), Expectations(in), A)
  OBVIOUS
<1>4. R.axes = FinalAxes(A, rels) /\ R.comparison = Comparison(R)
  BY <1>1, <1>2, <1>3, RecordIs
<1>5. CoverageClosed(R)
  BY <1>1, <1>4 DEF Comparison, IncompleteCoverage
<1>6. Closed(R.axes)
  BY <1>5 DEF CoverageClosed
<1>7. R.axes = A
  <2>1. SUFFICES ASSUME R.axes # A PROVE FALSE
    OBVIOUS
  <2>2. R.axes = [A EXCEPT !.identity = "unknown"]
    BY <1>4, <2>1 DEF FinalAxes
  <2>3. PICK i, x, r, a, d :
            A = [identity |-> i, execution |-> x, role |-> r, authority |-> a, downstream |-> d]
    BY <1>2 DEF FirstPass, Axes
  <2>4. R.axes = [identity |-> "unknown", execution |-> x, role |-> r, authority |-> a,
                  downstream |-> d]
    BY <2>2, <2>3
  <2> QED BY <1>6, <2>4 DEF Closed
<1> QED BY <1>1, <1>2, <1>6, <1>7

LEMMA BuiltMeans ==
    ASSUME NEW in, Built(in)
    PROVE  /\ \A a, b \in Observations(in) : a.id = b.id => a = b
           /\ \A e, f \in Expectations(in) :
                 \A o \in Selected(e, Observations(in)) :
                     o \in Selected(f, Observations(in)) => e = f
           /\ ~RefusedRecords(in) /\ ~ChainBroken(in)
           /\ in.report.level \in {"artifact_observed", "runtime_observed"}
           /\ in.report.level = "artifact_observed" => in.packets = <<>>
           /\ in.report.level = "runtime_observed" => in.packets # <<>>
<1>1. PICK O, E : O = Observations(in) /\ E = Expectations(in)
  OBVIOUS
<1>2. ~SharesId(O) /\ ~Overlap(E, O)
  BY <1>1 DEF Built, Refused, RefusedObservations
<1>3. \A a, b \in O : a.id = b.id => a = b
  BY <1>2 DEF SharesId
<1>4. \A e, f \in E : e # f => Selected(e, O) \cap Selected(f, O) = {}
  BY <1>2 DEF Overlap
<1>5. \A e, f \in E : \A o \in Selected(e, O) : o \in Selected(f, O) => e = f
  BY <1>4
<1>6. /\ ~RefusedRecords(in) /\ ~ChainBroken(in)
      /\ in.report.level \in {"artifact_observed", "runtime_observed"}
      /\ in.report.level = "artifact_observed" => in.packets = <<>>
      /\ in.report.level = "runtime_observed" => in.packets # <<>>
  BY DEF Built, Refused
<1> QED BY <1>1, <1>3, <1>5, <1>6

LEMMA PlannedExpectations ==
    ASSUME NEW in, NEW e
    PROVE  e \in Planned(in) <=> e \in Expectations(in) /\ Executes(e)
<1>1. \A op : ~Executes(Presence(op))
  BY DEF Presence, Executes
<1> QED BY <1>1 DEF Planned, Expectations

\* What a path gate that is TRUE says of the observations and the selection.
LEMMA PathGate ==
    ASSUME NEW in, Built(in), TransitionPathComplete(Record(in)),
           NEW O, O = Observations(in)
    PROVE  /\ \A o \in O : /\ o.own /\ o.coverage = "complete" /\ o.role # "unknown"
                           /\ \E e \in Planned(in) : o \in Selected(e, O)
           /\ \A e \in Planned(in) :
                 LET S == Selected(e, O)
                 IN  /\ PlannedRelation(e, S, Record(in).axes) \in Record(in).relations
                     /\ PlannedRelation(e, S, Record(in).axes).status \notin PathFailures
           /\ Planned(in) # {}
           /\ in.report.level = "runtime_observed" => RuntimeStatus(Packets(in)) = "complete"
<1>1. PICK R : R = Record(in)
  OBVIOUS
<1>2. PICK E : E = Expectations(in)
  OBVIOUS
<1>3. R.comparison = "complete" /\ \A r \in R.relations : r.status \notin PathFailures
  BY <1>1 DEF TransitionPathComplete
<1>4. PICK A : A = R.axes
  OBVIOUS
<1>5. Closed(A) /\ A = Axes(in, O, E)
  BY <1>1, <1>2, <1>3, <1>4, CompleteIsClosed DEF FirstPass
<1>6. R.relations = Relations(O, E, A) /\ R.expectations = E
  BY <1>1, <1>2, <1>4, RecordIs
<1>7. /\ \A o \in O : o.own /\ o.coverage = "complete" /\ o.role # "unknown"
      /\ in.report.level = "runtime_observed" => RuntimeStatus(Packets(in)) = "complete"
  BY <1>5, ClosedMeansWhole
<1>8. ASSUME NEW e \in Planned(in)
      PROVE  /\ PlannedRelation(e, Selected(e, O), A) \in R.relations
             /\ PlannedRelation(e, Selected(e, O), A).status \notin PathFailures
  <2>1. e \in E
    BY <1>2, PlannedExpectations
  <2>2. PlannedRelation(e, Selected(e, O), A) \in R.relations
    BY <1>6, <2>1 DEF Relations
  <2> QED BY <1>3, <2>2
<1>9. ASSUME NEW o \in O PROVE \E e \in Planned(in) : o \in Selected(e, O)
  <2>1. UnplannedRelation(o, A).status \in PathFailures
    BY DEF UnplannedRelation, Relation, PathFailures
  <2>2. UnplannedRelation(o, A) \notin R.relations
    BY <1>3, <2>1
  <2>3. o \in UNION {Selected(e, O) : e \in E}
    BY <1>6, <2>2 DEF Relations
  <2>4. PICK e \in E : o \in Selected(e, O)
    BY <2>3
  <2>5. Executes(e)
    BY <2>4 DEF Selected
  <2> QED BY <1>2, <2>4, <2>5, PlannedExpectations
<1>10. Planned(in) # {}
  <2>1. \E e \in R.expectations : Executes(e)
    BY <1>1 DEF TransitionPathComplete
  <2> QED BY <1>2, <1>6, <2>1, PlannedExpectations
<1> QED BY <1>1, <1>4, <1>7, <1>8, <1>9, <1>10

-----------------------------------------------------------------------------
(* The selection as an assignment of the raw records.                       *)

Match(in, x) == CHOOSE e \in Planned(in) : \E o \in Selected(e, Observations(in)) : o.id = x.id

Selection(in) == [x \in AllSeen(in) |-> Match(in, x)]

\* The records assigned to an expectation are those of its selection.
LEMMA SelectionIs ==
    ASSUME NEW in, Built(in), TransitionPathComplete(Record(in)),
           NEW O, O = Observations(in)
    PROVE  /\ Selection(in) \in Assignments(in)
           /\ \A x \in AllSeen(in) : \E e \in Planned(in) : \E o \in Selected(e, O) :
                 x = SeenOf(o) /\ Selection(in)[x] = e
           /\ \A e \in Planned(in) : \A o \in Selected(e, O) :
                 SeenOf(o) \in AllSeen(in) /\ Selection(in)[SeenOf(o)] = e
<1>1. \A a, b \in O : a.id = b.id => a = b
  BY BuiltMeans
<1>2. \A e, f \in Planned(in) : \A o \in Selected(e, O) : o \in Selected(f, O) => e = f
  BY BuiltMeans, PlannedExpectations
<1>3. \A e : Selected(e, O) \subseteq O
  BY DEF Selected
<1>4. \A o : SeenOf(o).id = o.id
  BY DEF SeenOf
<1>5. ASSUME NEW e \in Planned(in), NEW o \in Selected(e, O)
      PROVE  Match(in, SeenOf(o)) = e
  <2>1. PICK x : x = SeenOf(o)
    OBVIOUS
  <2>2. \A f \in Planned(in) : (\E b \in Selected(f, O) : b.id = x.id) => f = e
    BY <1>1, <1>2, <1>3, <1>4, <2>1
  <2>3. \E b \in Selected(e, O) : b.id = x.id
    BY <1>4, <2>1
  <2>4. Match(in, x) = e
    BY <2>2, <2>3 DEF Match
  <2> QED BY <2>1, <2>4
<1>6. ASSUME NEW x \in AllSeen(in)
      PROVE  \E e \in Planned(in) : \E o \in Selected(e, O) :
                 x = SeenOf(o) /\ Selection(in)[x] = e
  <2>1. PICK o \in O : x = SeenOf(o)
    BY BuiltMeans, SeenHasObservation
  <2>2. PICK e \in Planned(in) : o \in Selected(e, O)
    BY PathGate
  <2> QED BY <1>5, <2>1, <2>2 DEF Selection
<1>7. ASSUME NEW e \in Planned(in), NEW o \in Selected(e, O)
      PROVE  SeenOf(o) \in AllSeen(in) /\ Selection(in)[SeenOf(o)] = e
  <2>1. o \in O /\ o.coverage = "complete"
    BY <1>3, PathGate
  <2>2. SeenOf(o) \in AllSeen(in)
    BY <2>1, BuiltMeans, WholeIsSeen
  <2> QED BY <1>5, <2>2 DEF Selection
<1>8. Selection(in) \in [AllSeen(in) -> Planned(in)]
  <2>1. \A x \in AllSeen(in) : Match(in, x) \in Planned(in)
    BY <1>6 DEF Selection
  <2> QED BY <2>1 DEF Selection
<1> QED BY <1>6, <1>7, <1>8 DEF Assignments

LEMMA ObservationSource ==
    ASSUME NEW in, NEW o \in Observations(in)
    PROVE  o.source \in {"compute_binding_report", "runtime_observation_packet"}
<1>1. \A n : NodeObservation(n).source = "compute_binding_report"
  BY DEF NodeObservation, Observation
<1>2. \A x, type, step, context, capture, surface, digest :
          RuntimeObservation(x, type, step, context, capture, surface, digest).source
          = "runtime_observation_packet"
  BY DEF RuntimeObservation, Observation
<1>3. /\ \A e : ExecutionObservation(e).source = "runtime_observation_packet"
      /\ \A c, executions : ChildObservation(c, executions).source = "runtime_observation_packet"
  BY <1>2 DEF ExecutionObservation, ChildObservation
<1> QED BY <1>1, <1>3 DEF Observations, PacketObservations

\* A TRUE path gate: the selection fulfils the plan.
LEMMA SelectionFulfils ==
    ASSUME NEW in, Built(in), TransitionPathComplete(Record(in))
    PROVE  Fulfils(in, Selection(in))
<1>1. PICK O : O = Observations(in)
  OBVIOUS
<1>2. PICK a : a = Selection(in)
  OBVIOUS
<1>3. PICK A : A = Record(in).axes
  OBVIOUS
<1>4. /\ \A x \in AllSeen(in) : \E e \in Planned(in) : \E o \in Selected(e, O) :
            x = SeenOf(o) /\ a[x] = e
      /\ \A e \in Planned(in) : \A o \in Selected(e, O) :
            SeenOf(o) \in AllSeen(in) /\ a[SeenOf(o)] = e
  BY <1>1, <1>2, SelectionIs
<1>5. \A o \in O : o.own /\ o.role # "unknown"
  BY <1>1, PathGate
<1>6. \A e : Selected(e, O) \subseteq O
  BY DEF Selected
<1>7. \A o : /\ SeenOf(o).surface = o.surface /\ SeenOf(o).digest = o.digest
             /\ SeenOf(o).step = o.step /\ SeenOf(o).type = o.type
             /\ SeenOf(o).own = o.own /\ SeenOf(o).role = o.role
             /\ SeenOf(o).authority = o.authority
             /\ SeenOf(o).consumed = (o.downstream = "observed")
             /\ SeenOf(o).source = IF o.source = "compute_binding_report" THEN "report"
                                   ELSE "packet"
  BY DEF SeenOf
<1>8. ASSUME NEW e \in Planned(in), NEW S, S = Selected(e, O)
      PROVE  /\ S # {} /\ ~Ambiguous(e, S)
             /\ SelectorResult(e, S) \notin {"mismatch", "unavailable"}
             /\ e.downstream =>
                  \/ DownstreamResult(e, S) = "observed"
                  \/ SourceResult(e, S) = "mismatch"
                  \/ FieldResult(e.role, {o.role : o \in S}) = "mismatch"
                  \/ FieldResult(e.authority, {o.authority : o \in S}) = "mismatch"
  <2>1. PlannedRelation(e, S, A).status \notin PathFailures
    BY <1>1, <1>3, <1>8, PathGate
  <2>2. Executes(e)
    BY DEF Planned
  <2>3. \A o \in S : o.own
    BY <1>5, <1>6, <1>8
  <2> QED BY <2>1, <2>2, <2>3, AcceptedPlanned
<1>9. ASSUME NEW x \in AllSeen(in)
      PROVE  /\ x.own
             /\ Agrees(a[x].tool, x.surface) /\ Agrees(a[x].step, x.step)
             /\ Agrees(a[x].type, x.type)
  <2>0. PICK e \in Planned(in) : \E o \in Selected(e, O) : x = SeenOf(o) /\ a[x] = e
    BY <1>4
  <2>1. PICK o \in Selected(e, O) : x = SeenOf(o) /\ a[x] = e
    BY <2>0
  <2>2. PICK S : S = Selected(e, O)
    OBVIOUS
  <2>3. Agrees(e.tool, o.surface) /\ Agrees(e.step, o.step) /\ Agrees(e.type, o.type)
    BY <1>8, <2>1, <2>2, SelectorAgrees
  <2> QED BY <1>5, <1>6, <1>7, <2>1, <2>3
<1>10. ASSUME NEW e \in Planned(in), NEW X, X = {x \in AllSeen(in) : a[x] = e}
       PROVE  /\ X # {} /\ \A x, y \in X : x.source = y.source => x = y
              /\ Carried(e.tool, {x.surface : x \in X}) /\ Carried(e.step, {x.step : x \in X})
              /\ e.downstream => \E x \in X : x.consumed \/ ~Faithful(e, x)
  <2>1. PICK S : S = Selected(e, O)
    OBVIOUS
  <2>2. /\ \A o \in S : SeenOf(o) \in X
        /\ \A x \in X : \E o \in S : x = SeenOf(o)
    BY <1>4, <1>10, <2>1
  <2>3. X # {}
    BY <1>8, <2>1, <2>2
  <2>4. ASSUME NEW x \in X, NEW y \in X, x.source = y.source PROVE x = y
    <3>1. PICK o \in S, b \in S : x = SeenOf(o) /\ y = SeenOf(b)
      BY <2>2
    <3>2. o.source \in {"compute_binding_report", "runtime_observation_packet"}
          /\ b.source \in {"compute_binding_report", "runtime_observation_packet"}
      BY <1>1, <1>6, <2>1, <3>1, ObservationSource
    <3>3. o.source = b.source
      BY <1>7, <2>4, <3>1, <3>2
    <3>4. o = b
      BY <1>8, <2>1, <3>3 DEF Ambiguous
    <3> QED BY <3>1, <3>4
  <2>5. Carried(e.tool, {o.surface : o \in S}) /\ Carried(e.step, {o.step : o \in S})
    BY <1>8, <2>1, SelectorAgrees
  <2>6. /\ \A o \in S : o.surface \in {x.surface : x \in X}
        /\ \A o \in S : o.step \in {x.step : x \in X}
    BY <1>7, <2>2
  <2>7. Carried(e.tool, {x.surface : x \in X}) /\ Carried(e.step, {x.step : x \in X})
    BY <2>5, <2>6 DEF Carried
  <2>8. ASSUME e.downstream PROVE \E x \in X : x.consumed \/ ~Faithful(e, x)
    <3>1. CASE DownstreamResult(e, S) = "observed"
      <4>1. PICK o \in S : o.downstream = "observed"
        BY <3>1, DownstreamIs
      <4> QED BY <1>7, <2>2, <4>1
    <3>2. CASE SourceResult(e, S) = "mismatch"
      <4>1. PICK o \in S : ~Agrees(e.surface, o.surface) \/ ~Agrees(e.digest, o.digest)
        BY <3>2, SourceDiffers
      <4>2. ~Faithful(e, SeenOf(o))
        BY <1>7, <4>1 DEF Faithful
      <4> QED BY <2>2, <4>2
    <3>3. CASE FieldResult(e.role, {o.role : o \in S}) = "mismatch"
      <4>1. PICK o \in S : ~Agrees(e.role, o.role)
        BY <3>3, FieldDiffers
      <4>2. ~Faithful(e, SeenOf(o))
        BY <1>7, <4>1 DEF Faithful
      <4> QED BY <2>2, <4>2
    <3>4. CASE FieldResult(e.authority, {o.authority : o \in S}) = "mismatch"
      <4>1. PICK o \in S : ~Agrees(e.authority, o.authority)
        BY <3>4, FieldDiffers
      <4>2. ~Faithful(e, SeenOf(o))
        BY <1>7, <4>1 DEF Faithful
      <4> QED BY <2>2, <4>2
    <3> QED BY <1>8, <2>1, <2>8, <3>1, <3>2, <3>3, <3>4
  <2> QED BY <2>3, <2>4, <2>7, <2>8
<1>11. \A e \in Planned(in) :
           LET X == {x \in AllSeen(in) : a[x] = e}
           IN  /\ X # {} /\ \A x, y \in X : x.source = y.source => x = y
               /\ Carried(e.tool, {x.surface : x \in X}) /\ Carried(e.step, {x.step : x \in X})
               /\ e.downstream => \E x \in X : x.consumed \/ ~Faithful(e, x)
  BY <1>10
<1>12. Fulfils(in, a)
  BY <1>9, <1>11 DEF Fulfils
<1> QED BY <1>2, <1>12

\* No observation has an authority of "unknown".
LEMMA AuthorityKnown ==
    ASSUME NEW in, WellFormedInput(in), NEW o \in Observations(in)
    PROVE  o.authority # "unknown"
<1>1. ASSUME NEW n \in in.report.nodes, o = NodeObservation(n) PROVE o.authority # "unknown"
  BY <1>1 DEF WellFormedInput, NodeObservation, Observation
<1>2. ASSUME NEW p \in Packets(in), NEW e \in p.executions, o = ExecutionObservation(e)
      PROVE  o.authority # "unknown"
  BY <1>2 DEF WellFormedInput, ExecutionObservation, RuntimeObservation, Observation
<1>3. ASSUME NEW p \in Packets(in), NEW c \in p.children,
             o = ChildObservation(c, p.executions)
      PROVE  o.authority # "unknown"
  <2>1. PICK q : q = ParentContext(c, p.executions)
    OBVIOUS
  <2>2. q \in p.executions \/ q.authority = "none"
    BY <2>1 DEF ParentContext
  <2>3. q.authority # "unknown"
    BY <2>2 DEF WellFormedInput
  <2>4. o.authority = q.authority
    BY <1>3, <2>1 DEF ChildObservation, RuntimeObservation, Observation
  <2> QED BY <2>3, <2>4
<1> QED BY <1>1, <1>2, <1>3 DEF Observations, PacketObservations

\* With a TRUE authority gate beside it, exactly.
LEMMA SelectionFulfilsExactly ==
    ASSUME NEW in, Built(in), TransitionPathComplete(Record(in)),
           AuthorityBindingOk(Record(in))
    PROVE  FulfilsExactly(in, Selection(in))
<1>1. PICK O : O = Observations(in)
  OBVIOUS
<1>2. PICK R : R = Record(in)
  OBVIOUS
<1>3. ASSUME NEW x \in AllSeen(in) PROVE Faithful(Selection(in)[x], x)
  <2>0. PICK e \in Planned(in) : \E o \in Selected(e, O) : x = SeenOf(o) /\ Selection(in)[x] = e
    BY <1>1, SelectionIs
  <2>1. PICK o \in Selected(e, O) : x = SeenOf(o) /\ Selection(in)[x] = e
    BY <2>0
  <2>2. o \in O
    BY <2>1 DEF Selected
  <2>3. o.role # "unknown" /\ o.authority # "unknown"
    BY <1>1, <2>2, PathGate, AuthorityKnown DEF Built
  <2>4. PICK S : S = Selected(e, O)
    OBVIOUS
  <2>5. PICK r : r = PlannedRelation(e, S, R.axes)
    OBVIOUS
  <2>6. r \in R.relations /\ r.status \notin PathFailures
    BY <1>1, <1>2, <2>4, <2>5, PathGate
  <2>7. {r.evaluation.source, r.evaluation.role, r.evaluation.authority}
            \subseteq {"match", "not_required"}
    BY <1>2, <2>6 DEF AuthorityBindingOk
  <2>8. /\ r.evaluation.source = SourceResult(e, S)
        /\ r.evaluation.role = FieldResult(e.role, {b.role : b \in S})
        /\ r.evaluation.authority = FieldResult(e.authority, {b.authority : b \in S})
    <3>1. Executes(e) /\ \A b \in S : b.own
      BY <1>1, <2>4, PathGate DEF Planned, Selected
    <3>2. PICK A : A = R.axes
      OBVIOUS
    <3>3. PICK v : v = FullEvaluation(e, S, A)
      OBVIOUS
    <3>4. PlannedRelation(e, S, A).status \notin PathFailures
      BY <2>5, <2>6, <3>2
    <3>5. /\ PlannedRelation(e, S, A).evaluation = v
          /\ v.source = SourceResult(e, S)
          /\ v.role = FieldResult(e.role, {b.role : b \in S})
          /\ v.authority = FieldResult(e.authority, {b.authority : b \in S})
      BY <3>1, <3>3, <3>4, AcceptedPlanned
    <3> QED BY <2>5, <3>2, <3>5
  <2>9. SourceResult(e, S) # "mismatch"
    BY <2>7, <2>8
  <2>10. Agrees(e.surface, o.surface) /\ Agrees(e.digest, o.digest)
    BY <2>1, <2>4, <2>9, SourceDiffers
  <2>11. Agrees(e.role, o.role)
    <3>1. FieldResult(e.role, {b.role : b \in S}) # "mismatch"
      BY <2>7, <2>8
    <3> QED BY <2>1, <2>3, <2>4, <3>1, FieldDiffers
  <2>12. Agrees(e.authority, o.authority)
    <3>1. FieldResult(e.authority, {b.authority : b \in S}) # "mismatch"
      BY <2>7, <2>8
    <3> QED BY <2>1, <2>3, <2>4, <3>1, FieldDiffers
  <2> QED BY <2>1, <2>10, <2>11, <2>12 DEF Faithful, SeenOf
<1> QED BY <1>3, SelectionFulfils DEF FulfilsExactly

-----------------------------------------------------------------------------
(* The packets, and authoritative mutations.                                *)

LEMMA PacketsFinite ==
    ASSUME NEW in, WellFormedInput(in)
    PROVE  /\ IsFiniteSet(Packets(in)) /\ Cardinality(Packets(in)) \in Nat
           /\ Packets(in) = {} <=> in.packets = <<>>
<1>1. PICK P : P = Packets(in)
  OBVIOUS
<1>2. PICK l : l = in.packets
  OBVIOUS
<1>3. l \in Seq(P) /\ P = {l[i] : i \in DOMAIN l}
  BY <1>1, <1>2 DEF WellFormedInput, Packets
<1>4. Len(l) \in Nat /\ DOMAIN l = 1 .. Len(l) /\ l \in [1 .. Len(l) -> P]
  BY <1>3
<1>5. l \in Surjection(1 .. Len(l), P)
  BY <1>3, <1>4 DEF Surjection
<1>6. IsFiniteSet(1 .. Len(l))
  BY <1>4, FS_Interval
<1>7. IsFiniteSet(P) /\ Cardinality(P) \in Nat
  BY <1>5, <1>6, FS_Surjection, FS_CardinalityType
<1>8. P = {} <=> l = <<>>
  <2>1. P = {} <=> DOMAIN l = {}
    BY <1>3
  <2>2. DOMAIN l = {} <=> Len(l) = 0
    BY <1>4
  <2>3. Len(l) = 0 <=> l = <<>>
    BY <1>3
  <2> QED BY <2>1, <2>2, <2>3
<1> QED BY <1>1, <1>2, <1>7, <1>8

\* A TRUE path gate over packets: they are all complete, and each follows one
\* of them or is the first.
LEMMA PathIsGapless ==
    ASSUME NEW in, Built(in), TransitionPathComplete(Record(in))
    PROVE  Gapless(in)
<1>1. PICK P : P = Packets(in)
  OBVIOUS
<1>2. CASE P = {}
  BY <1>1, <1>2 DEF Gapless
<1>3. CASE P # {}
  <2>1. in.report.level = "runtime_observed"
    BY <1>1, <1>3, BuiltMeans, PacketsFinite DEF Built
  <2>2. RuntimeStatus(P) = "complete"
    BY <1>1, <2>1, PathGate
  <2>3. ChainComplete(P) /\ \A p \in P : p.status = "complete"
    BY <2>2 DEF RuntimeStatus
  <2>4. /\ \A p \in P : p.seq \in Nat
        /\ \A p, q \in P : Consecutive(p, q) => q.previous = p.id
    BY <1>1, BuiltMeans DEF ChainBroken
  <2>5. ASSUME NEW p \in P, p.seq > 0 PROVE \E q \in P : p.previous = q.id
    <3>1. PICK n : n = p.seq
      OBVIOUS
    <3>2. PICK c \in Nat : c = Cardinality(P)
      BY <1>1, PacketsFinite DEF Built
    <3>3. {q.seq : q \in P} = 0 .. (c - 1)
      BY <2>3, <3>2 DEF ChainComplete
    <3>4. n \in 0 .. (c - 1) /\ n > 0 /\ n \in Nat
      BY <2>4, <2>5, <3>1, <3>3
    <3>5. n - 1 \in 0 .. (c - 1)
      BY <3>4
    <3>6. PICK q \in P : q.seq = n - 1
      BY <3>3, <3>5
    <3>7. Consecutive(q, p)
      BY <3>1, <3>4, <3>6 DEF Consecutive
    <3> QED BY <2>4, <3>7
  <2> QED BY <1>1, <2>3, <2>5 DEF Gapless
<1> QED BY <1>2, <1>3

LEMMA NoHiddenMutation ==
    ASSUME NEW in, Built(in), UnboundMutationAbsent(Record(in)),
           NEW x \in AllSeen(in), x.decides
    PROVE  x.sound
<1>1. PICK o \in Observations(in) : x = SeenOf(o)
  BY BuiltMeans, SeenHasObservation
<1>2. x.decides = o.mutates /\ x.sound = (o.binding = "complete")
  BY <1>1 DEF SeenOf
<1>3. o \in Record(in).observations
  BY <1>1, RecordIs
<1>4. o.mutates => o.binding = "complete"
  BY <1>3 DEF UnboundMutationAbsent
<1> QED BY <1>2, <1>4

-----------------------------------------------------------------------------
(* The state: a relation comes from inputs that were not refused.           *)

BuildInv ==
    /\ build.pc # "idle" => build.packets \in scene.supplies
    /\ build.pc \in {"build", "write", "rejected"} => WellFormedInput(build.in)
    /\ build.pc \in {"write", "rejected"} => ~Refused(build.in)
    /\ build.pc = "rejected" => ~CheckerAccepts(Record(build.in))

RelationInv == relation # None => Built(relation)

FoldInv ==
    /\ fold.pc \in {"status", "relation"} => Built(relation)
    /\ fold.pc \in {"validate", "derive", "write", "check"} => Built(fold.relation)
    /\ fold.pc = "write" => fold.gates = CandidateGates(Record(fold.relation))

IInv ==
    /\ scene \in Scenes /\ report \in scene.reports
    /\ BuildInv /\ RelationInv /\ FoldInv

LEMMA InputsWellFormed ==
    ASSUME scene \in Scenes, NEW r \in scene.reports, NEW l \in scene.supplies
    PROVE  WellFormedInput(Inputs(r, l))
<1>1. WellFormed(scene)
  BY ScenesAssumption
<1>2. PICK in : in = Inputs(r, l)
  OBVIOUS
<1>3. /\ in.operations = scene.operations /\ in.expectations = scene.expectations
      /\ in.report = r /\ in.packets = l
  BY <1>2 DEF Inputs
<1>4. Packets(in) = {l[i] : i \in DOMAIN l}
  BY <1>3 DEF Packets
<1>5. WellFormedInput(in)
  BY <1>1, <1>3, <1>4 DEF WellFormed, WellFormedInput
<1> QED BY <1>2, <1>5

\* IInv holds initially and is kept by every step.
LEMMA RelationInductive == (Init => IInv) /\ (IInv /\ [Next]_vars => IInv')
<1>1. Init => IInv
  BY DEF Init, IInv, BuildInv, RelationInv, FoldInv, NoBuild, NoFold, Builder, Folding
<1>2. ASSUME IInv, [Next]_vars PROVE IInv'
  <2>0. scene \in Scenes /\ report \in scene.reports /\ BuildInv /\ RelationInv /\ FoldInv
    BY <1>2 DEF IInv
  <2>1. CASE UNCHANGED vars
    BY <2>0, <2>1 DEF IInv, BuildInv, RelationInv, FoldInv, vars, files
  <2>2. ASSUME NEW r \in scene.reports, Analyze(r) PROVE IInv'
    <3>1. report' = r /\ UNCHANGED <<scene, relation, build, fold>>
      BY <2>2 DEF Analyze
    <3> QED BY <2>0, <3>1 DEF IInv, BuildInv, RelationInv, FoldInv
  <2>3. CASE BuilderNext
    <3>1. UNCHANGED <<scene, report, fold>>
      BY <2>3 DEF BuilderNext, StartBuild, LoadReport, BuildRecord, GiveUpBuild, WriteRelation,
         files
    <3>2. ASSUME UNCHANGED relation, BuildInv' PROVE IInv'
      BY <2>0, <3>1, <3>2 DEF IInv, RelationInv, FoldInv
    <3>3. ASSUME NEW l \in scene.supplies, StartBuild(l) PROVE IInv'
      <4>1. build'.pc = "load" /\ build'.packets = l /\ UNCHANGED relation
        BY <3>3 DEF StartBuild, Builder, files
      <4> QED BY <3>1, <3>2, <4>1 DEF BuildInv
    <3>4. CASE LoadReport
      <4>1. PICK in : in = Inputs(report, build.packets)
        OBVIOUS
      <4>2. /\ build'.pc = "build" /\ build'.packets = build.packets /\ build'.in = in
            /\ build.pc = "load" /\ UNCHANGED relation
        BY <3>4, <4>1 DEF LoadReport, Builder, files
      <4>3. build.packets \in scene.supplies
        BY <2>0, <4>2 DEF BuildInv
      <4>4. WellFormedInput(in)
        BY <2>0, <4>1, <4>3, InputsWellFormed
      <4> QED BY <3>1, <3>2, <4>2, <4>3, <4>4 DEF BuildInv
    <3>5. CASE BuildRecord
      <4>1. UNCHANGED relation /\ build.pc = "build"
        BY <3>5 DEF BuildRecord, files
      <4>2. CASE Refused(build.in)
        BY <3>2, <3>5, <4>1, <4>2 DEF BuildRecord, NoBuild, Builder, BuildInv
      <4>3. CASE ~Refused(build.in)
        <5>1. PICK ok \in BOOLEAN : ok = CheckerAccepts(Record(build.in))
          BY DEF CheckerAccepts
        <5>2. build' = Builder(IF ok THEN "write" ELSE "rejected", build.snapshot,
                               build.packets, build.in)
          BY <3>5, <4>3, <5>1 DEF BuildRecord
        <5>3. /\ build'.pc \in {"write", "rejected"} /\ (build'.pc = "rejected" => ~ok)
              /\ build'.packets = build.packets /\ build'.in = build.in
          BY <5>2 DEF Builder
        <5>4. BuildInv'
          BY <2>0, <3>1, <4>1, <4>3, <5>1, <5>3 DEF BuildInv
        <5> QED BY <3>2, <4>1, <5>4
      <4> QED BY <4>2, <4>3
    <3>6. CASE GiveUpBuild
      BY <3>2, <3>6 DEF GiveUpBuild, NoBuild, Builder, BuildInv, files
    <3>7. CASE WriteRelation
      <4>1. build.pc = "write" /\ build'.pc = "idle" /\ relation' \in {relation, build.in}
        BY <3>7 DEF WriteRelation, NoBuild, Builder
      <4>2. Built(build.in)
        BY <2>0, <4>1 DEF BuildInv, Built
      <4>3. BuildInv' /\ RelationInv'
        BY <2>0, <4>1, <4>2 DEF BuildInv, RelationInv
      <4>4. Built(relation) => Built(relation')
        BY <4>1, <4>2
      <4>5. FoldInv'
        BY <2>0, <3>1, <4>4 DEF FoldInv
      <4> QED BY <2>0, <3>1, <4>3, <4>5 DEF IInv
    <3> QED BY <2>3, <3>3, <3>4, <3>5, <3>6, <3>7 DEF BuilderNext
  <2>4. CASE FoldNext
    <3>1. UNCHANGED <<scene, report, relation, build>>
      BY <2>4 DEF FoldNext, StartFold, LoadStatus, LoadRelation, ValidateRelation, DeriveGates,
         WriteFolded, CheckAgain, KillFold, files
    <3>2. SUFFICES FoldInv'
      BY <2>0, <3>1 DEF IInv, BuildInv, RelationInv
    <3>3. CASE StartFold
      BY <2>0, <3>1, <3>3 DEF StartFold, Folding, FoldInv, RelationInv
    <3>4. CASE LoadStatus
      <4>1. fold.pc = "status" /\ fold'.pc = "relation"
        BY <3>4 DEF LoadStatus, Folding
      <4> QED BY <2>0, <3>1, <4>1 DEF FoldInv
    <3>5. CASE LoadRelation
      <4>1. fold.pc = "relation" /\ fold'.pc = "validate" /\ fold'.relation = relation
        BY <3>5 DEF LoadRelation, Folding
      <4> QED BY <2>0, <4>1 DEF FoldInv, RelationInv
    <3>6. CASE ValidateRelation
      <4>1. fold.pc = "validate"
            /\ (fold'.pc = "idle" \/ (fold'.pc = "derive" /\ fold'.relation = fold.relation))
        BY <3>6 DEF ValidateRelation, Folding, NoFold
      <4> QED BY <2>0, <4>1 DEF FoldInv
    <3>7. CASE DeriveGates
      <4>1. PICK gates : gates = CandidateGates(Record(fold.relation))
        OBVIOUS
      <4>2. fold.pc = "derive"
            /\ \/ fold'.pc = "idle"
               \/ fold'.pc = "write" /\ fold'.relation = fold.relation /\ fold'.gates = gates
        BY <3>7, <4>1 DEF DeriveGates, Folding, NoFold
      <4>3. CASE fold'.pc = "idle"
        BY <4>3 DEF FoldInv
      <4>4. CASE fold'.pc = "write" /\ fold'.relation = fold.relation /\ fold'.gates = gates
        <5>1. Built(fold.relation)
          BY <2>0, <4>2 DEF FoldInv
        <5> QED BY <4>1, <4>4, <5>1 DEF FoldInv
      <4> QED BY <4>2, <4>3, <4>4
    <3>8. CASE WriteFolded
      BY <2>0, <3>8 DEF WriteFolded, Folding, FoldInv
    <3>9. CASE CheckAgain
      BY <3>9 DEF CheckAgain, NoFold, Folding, FoldInv
    <3>10. CASE KillFold
      BY <3>10 DEF KillFold, NoFold, Folding, FoldInv
    <3> QED BY <2>4, <3>3, <3>4, <3>5, <3>6, <3>7, <3>8, <3>9, <3>10 DEF FoldNext
  <2>5. CASE Promote
    <3>1. UNCHANGED <<scene, report, relation, build, fold>>
      BY <2>5 DEF Promote
    <3> QED BY <2>0, <3>1 DEF IInv, BuildInv, RelationInv, FoldInv
  <2> QED BY <1>2, <2>1, <2>2, <2>3, <2>4, <2>5 DEF Next
<1> QED BY <1>1, <1>2

\* A path gate is TRUE only over packets without a gap whose records, with
\* those of the report, are the planned executions, one for one.
THEOREM PathGateIsJustified == Spec => []PathCompleteJustified
<1>1. ASSUME IInv PROVE PathCompleteJustified
  <2> SUFFICES ASSUME Derived("path")
               PROVE  /\ Planned(fold.relation) # {} /\ Gapless(fold.relation)
                      /\ \E a \in Assignments(fold.relation) : Fulfils(fold.relation, a)
    BY DEF PathCompleteJustified
  <2>1. PICK in : in = fold.relation
    OBVIOUS
  <2>2. Built(in) /\ CandidateGates(Record(in))["path"]
    BY <1>1, <2>1 DEF IInv, FoldInv, Derived
  <2>3. TransitionPathComplete(Record(in))
    BY <2>2 DEF CandidateGates, GateIds
  <2>4. Planned(in) # {} /\ Gapless(in)
    BY <2>2, <2>3, PathGate, PathIsGapless
  <2>5. Selection(in) \in Assignments(in) /\ Fulfils(in, Selection(in))
    BY <2>2, <2>3, SelectionIs, SelectionFulfils
  <2> QED BY <2>1, <2>4, <2>5
<1> QED BY RelationInductive, <1>1, PTL DEF Spec

\* With the authority gate beside it, also in source, role and authority.
THEOREM AuthorityGateIsJustified == Spec => []AuthorityBindingJustified
<1>1. ASSUME IInv PROVE AuthorityBindingJustified
  <2> SUFFICES ASSUME Derived("path"), Derived("authority")
               PROVE  \E a \in Assignments(fold.relation) : FulfilsExactly(fold.relation, a)
    BY DEF AuthorityBindingJustified
  <2>1. PICK in : in = fold.relation
    OBVIOUS
  <2>2. /\ Built(in)
        /\ CandidateGates(Record(in))["path"] /\ CandidateGates(Record(in))["authority"]
    BY <1>1, <2>1 DEF IInv, FoldInv, Derived
  <2>3. TransitionPathComplete(Record(in)) /\ AuthorityBindingOk(Record(in))
    BY <2>2 DEF CandidateGates, GateIds
  <2>4. Selection(in) \in Assignments(in) /\ FulfilsExactly(in, Selection(in))
    BY <2>2, <2>3, SelectionIs, SelectionFulfilsExactly
  <2> QED BY <2>1, <2>4
<1> QED BY RelationInductive, <1>1, PTL DEF Spec

\* The third gate is TRUE only if every record that changed an authoritative
\* state is bound, captured whole and exact in its source.
THEOREM MutationIsNeverHidden == Spec => []UnboundMutationNeverHidden
<1>1. ASSUME IInv PROVE UnboundMutationNeverHidden
  <2> SUFFICES ASSUME Derived("unbound"), NEW x \in AllSeen(fold.relation), x.decides
               PROVE  x.sound
    BY DEF UnboundMutationNeverHidden
  <2>1. PICK in : in = fold.relation
    OBVIOUS
  <2>2. Built(in) /\ CandidateGates(Record(in))["unbound"] /\ x \in AllSeen(in)
    BY <1>1, <2>1 DEF IInv, FoldInv, Derived
  <2>3. UnboundMutationAbsent(Record(in))
    BY <2>2 DEF CandidateGates, GateIds
  <2> QED BY <2>2, <2>3, NoHiddenMutation
<1> QED BY RelationInductive, <1>1, PTL DEF Spec

-----------------------------------------------------------------------------
(* The builder's own checker.                                               *)

Words == {"complete", "not_required", "partial", "unknown"}

LEMMA AxesAreWords ==
    ASSUME NEW in, NEW O, NEW E
    PROVE  \A a \in DOMAIN Axes(in, O, E) : Axes(in, O, E)[a] \in Words
<1>1. \A S : CombineStatuses(S) \in Words
  BY DEF CombineStatuses, Words
<1>2. ASSUME NEW base \in Words, NEW evidence PROVE Lowered(base, evidence) \in Words
  <2>1. CASE "unknown" \in evidence
    BY <2>1 DEF Lowered, Words
  <2>2. CASE "unknown" \notin evidence /\ base # "unknown" /\ "partial" \in evidence
    BY <2>2 DEF Lowered, Words
  <2>3. CASE "unknown" \notin evidence /\ ~(base # "unknown" /\ "partial" \in evidence)
    BY <2>3 DEF Lowered
  <2> QED BY <2>1, <2>2, <2>3
<1> DEFINE base == IF O # {} THEN CombineStatuses({o.coverage : o \in O})
                   ELSE IF \E e \in E : Executes(e) THEN "unknown" ELSE "not_required"
           A == Axes(in, O, E)
<1>3. base \in Words
  BY <1>1 DEF Words
<1>4. \E evidence : A.execution = Lowered(base, evidence)
  BY DEF Axes
<1>5. A.execution \in Words
  <2> HIDE DEF A, base
  <2> QED BY <1>2, <1>3, <1>4
<1>6. /\ \E S : A.identity = CombineStatuses(S)
      /\ \E S : A.role = CombineStatuses(S)
      /\ \E S : A.authority = CombineStatuses(S)
      /\ \E S : A.downstream = CombineStatuses(S)
  <2>1. A.identity = CombineStatuses({IdentityCoverage(o) : o \in O})
    BY DEF Axes
  <2>2. A.role = CombineStatuses({IF o.role = "unknown" THEN "unknown" ELSE "complete" : o \in O})
    BY DEF Axes
  <2>3. A.authority = CombineStatuses({"complete" : o \in O})
    BY DEF Axes
  <2>4. A.downstream = CombineStatuses(
             {IF o.downstream # "unresolved" THEN "complete"
              ELSE IF o.coverage = "unknown" THEN "unknown" ELSE "partial" : o \in O})
    BY DEF Axes
  <2> HIDE DEF A
  <2> QED BY <2>1, <2>2, <2>3, <2>4
<1>7. DOMAIN A = {"identity", "execution", "role", "authority", "downstream"}
  BY DEF Axes
<1> HIDE DEF A
<1>8. A.identity \in Words /\ A.role \in Words /\ A.authority \in Words /\ A.downstream \in Words
  BY <1>1, <1>6
<1>9. \A a \in DOMAIN A : A[a] \in Words
  BY <1>5, <1>7, <1>8
<1> QED BY <1>9 DEF A

\* A relation stays open only beside an axis that is: the second pass gives the
\* identity axis up when every axis was closed.
LEMMA OpenRelationOpenAxis ==
    ASSUME NEW in, NEW r \in Record(in).relations, r.status = "unresolved_due_to_coverage"
    PROVE  AxisValues(Record(in).axes) \cap {"partial", "unknown"} # {}
<1>1. PICK O, E : O = Observations(in) /\ E = Expectations(in)
  OBVIOUS
<1>2. PICK F : F = Axes(in, O, E)
  OBVIOUS
<1>3. PICK A : A = Record(in).axes
  OBVIOUS
<1>4. A = FinalAxes(F, Relations(O, E, F)) /\ r \in Relations(O, E, A)
  BY <1>1, <1>2, <1>3, RecordIs DEF FirstPass
<1>5. CASE A # F
  <2>1. A = [F EXCEPT !.identity = "unknown"]
    BY <1>4, <1>5 DEF FinalAxes
  <2>2. "identity" \in DOMAIN F
    BY <1>2 DEF Axes
  <2>3. "identity" \in DOMAIN A /\ A["identity"] = "unknown"
    BY <2>1, <2>2
  <2>4. "unknown" \in AxisValues(A)
    BY <2>3 DEF AxisValues
  <2> QED BY <1>3, <2>4
<1>6. CASE A = F
  <2>1. ~Closed(F)
    <3>1. SUFFICES ASSUME Closed(F) PROVE FALSE
      OBVIOUS
    <3>2. \E q \in Relations(O, E, F) : q.status = "unresolved_due_to_coverage"
      BY <1>4, <1>6
    <3>3. F = [F EXCEPT !.identity = "unknown"]
      BY <1>4, <1>6, <3>1, <3>2 DEF FinalAxes
    <3>4. "identity" \in DOMAIN F
      BY <1>2 DEF Axes
    <3>5. F["identity"] = "unknown"
      BY <3>3, <3>4
    <3> QED BY <3>1, <3>4, <3>5 DEF Closed
  <2>2. PICK a \in DOMAIN F : F[a] \notin {"complete", "not_required"}
    BY <2>1 DEF Closed
  <2>3. F[a] \in {"partial", "unknown"}
    BY <1>2, <2>2, AxesAreWords DEF Words
  <2>4. F[a] \in AxisValues(A)
    BY <1>6 DEF AxisValues
  <2> QED BY <1>3, <2>3, <2>4
<1> QED BY <1>5, <1>6

LEMMA ExpectationIds ==
    ASSUME NEW in, Built(in)
    PROVE  /\ \A e, f \in Expectations(in) : e.id = f.id => e = f
           /\ \A e \in Expectations(in) : e.id # None
<1>1. \A op : Presence(op).id = <<"presence", op>>
  BY DEF Presence
<1>2. \A op, other : Presence(op).id = Presence(other).id => op = other
  BY <1>1
<1>3. \A e \in in.expectations : \A op \in Unreferenced(in) : e.id # Presence(op).id
  BY DEF Built, Refused, PresenceCollides
<1>4. \A e, f \in in.expectations : e.id = f.id => e = f
  BY DEF Built, WellFormedInput
<1>5. Expectations(in) = in.expectations \cup {Presence(op) : op \in Unreferenced(in)}
  BY DEF Expectations
<1>6. \A e \in Expectations(in) : e.id # None
  <2>1. \A e \in in.expectations : e.id # None
    BY DEF Built, WellFormedInput
  <2>2. \A op \in Unreferenced(in) : Presence(op).id # None
    BY DEF Built, WellFormedInput, Unreferenced
  <2> QED BY <1>5, <2>1, <2>2
<1>7. ASSUME NEW e \in Expectations(in), NEW f \in Expectations(in), e.id = f.id
      PROVE  e = f
  <2>1. CASE e \in in.expectations /\ f \in in.expectations
    BY <1>4, <1>7, <2>1
  <2>2. CASE e \in in.expectations /\ f \notin in.expectations
    BY <1>3, <1>5, <1>7, <2>2
  <2>3. CASE e \notin in.expectations /\ f \in in.expectations
    BY <1>3, <1>5, <1>7, <2>3
  <2>4. CASE e \notin in.expectations /\ f \notin in.expectations
    <3>1. PICK op \in Unreferenced(in), other \in Unreferenced(in) :
              e = Presence(op) /\ f = Presence(other)
      BY <1>5, <2>4
    <3> QED BY <1>2, <1>7, <3>1
  <2> QED BY <2>1, <2>2, <2>3, <2>4
<1> QED BY <1>6, <1>7

LEMMA AtMostOne ==
    ASSUME NEW T, \A a, b \in T : a = b
    PROVE  Cardinality(T) <= 1
<1>1. CASE T = {}
  BY <1>1, FS_EmptySet
<1>2. CASE T # {}
  <2>1. PICK a : T = {a}
    BY <1>2
  <2>2. Cardinality({a}) = 1
    BY FS_Singleton
  <2> QED BY <2>1, <2>2
<1> QED BY <1>1, <1>2

\* The four shapes of a planned relation.
LEMMA PlannedShape ==
    ASSUME NEW e, NEW O, NEW S, S = Selected(e, O), NEW A,
           NEW r, r = PlannedRelation(e, S, A)
    PROVE  /\ r.expectation = e.id /\ r.observations = {o.id : o \in S}
           /\ \/ /\ r.status \notin {"ambiguous_observation_match", "unresolved_due_to_coverage",
                                     "observed_but_not_planned"}
                 /\ r.evaluation = FullEvaluation(e, S, A)
                 /\ r.status = "planned_but_not_observed" => A.execution = "complete"
              \/ /\ r.status = "ambiguous_observation_match"
                 /\ r.evaluation.observation = "unresolved" /\ ~r.evaluation.decisive
              \/ /\ r.status = "unresolved_due_to_coverage"
                 /\ r.evaluation.observation = "unresolved" /\ ~r.evaluation.decisive
                 /\ r.evaluation.coverage = IncompleteCoverage(A)
<1>1. PICK v : v = FullEvaluation(e, S, A)
  OBVIOUS
<1>2. PICK t : t = StatusOf(v, e.downstream)
  OBVIOUS
<1>3. PICK u : u = Unresolved(CombineStatuses({o.coverage : o \in S}))
  OBVIOUS
<1>4. PICK w : w = Unresolved(IncompleteCoverage(A))
  OBVIOUS
<1>5. /\ u.observation = "unresolved" /\ ~u.decisive
      /\ w.observation = "unresolved" /\ ~w.decisive /\ w.coverage = IncompleteCoverage(A)
  BY <1>3, <1>4 DEF Unresolved, Evaluation
<1>6. r = IF ~Executes(e) THEN Relation(e.id, {}, "planned_presence_only", v)
          ELSE IF Ambiguous(e, S) THEN Relation(e.id, S, "ambiguous_observation_match", u)
          ELSE IF t = "unresolved_due_to_coverage" THEN Relation(e.id, S, t, w)
          ELSE Relation(e.id, S, t, v)
  BY <1>1, <1>2, <1>3, <1>4 DEF PlannedRelation, RelationOf
<1>7. CASE ~Executes(e)
  <2>1. S = {}
    BY <1>7 DEF Selected
  <2>2. r = Relation(e.id, {}, "planned_presence_only", v)
    BY <1>6, <1>7
  <2>3. r.observations = {} /\ r.expectation = e.id /\ r.status = "planned_presence_only"
        /\ r.evaluation = v
    BY <2>2 DEF Relation
  <2> QED BY <1>1, <2>1, <2>3
<1>8. CASE Executes(e) /\ Ambiguous(e, S)
  <2>1. r = Relation(e.id, S, "ambiguous_observation_match", u)
    BY <1>6, <1>8
  <2> QED BY <1>5, <2>1 DEF Relation
<1>9. CASE Executes(e) /\ ~Ambiguous(e, S) /\ t = "unresolved_due_to_coverage"
  <2>1. r = Relation(e.id, S, t, w)
    BY <1>6, <1>9
  <2> QED BY <1>5, <1>9, <2>1 DEF Relation
<1>10. CASE Executes(e) /\ ~Ambiguous(e, S) /\ t # "unresolved_due_to_coverage"
  <2>1. r = Relation(e.id, S, t, v)
    BY <1>6, <1>10
  <2>2. /\ r.expectation = e.id /\ r.observations = {o.id : o \in S} /\ r.status = t
        /\ r.evaluation = v
    BY <2>1 DEF Relation
  <2>3. t \notin {"ambiguous_observation_match", "observed_but_not_planned"}
    BY <1>2 DEF StatusOf
  <2>4. ASSUME t = "planned_but_not_observed" PROVE A.execution = "complete"
    <3>1. v.observation = "not_observed"
      BY <1>2, <2>4 DEF StatusOf
    <3>2. S = {}
      <4>1. SUFFICES ASSUME S # {} PROVE FALSE
        OBVIOUS
      <4>2. v.observation = "observed"
        BY <1>1, <1>10, <4>1 DEF FullEvaluation, Evaluation
      <4> QED BY <3>1, <4>2
    <3>3. v = IF A.execution = "complete" THEN NothingRequired("not_observed") ELSE w
      BY <1>1, <1>4, <1>10, <3>2 DEF FullEvaluation
    <3> QED BY <1>5, <3>1, <3>3
  <2> QED BY <1>1, <1>10, <2>2, <2>3, <2>4
<1> QED BY <1>7, <1>8, <1>9, <1>10

LEMMA RelationsAre ==
    ASSUME NEW in, NEW O, O = Observations(in), NEW r \in Record(in).relations
    PROVE  \/ \E e \in Expectations(in) :
                 r = PlannedRelation(e, Selected(e, O), Record(in).axes)
           \/ \E o \in O : /\ r = UnplannedRelation(o, Record(in).axes)
                           /\ \A e \in Expectations(in) : o \notin Selected(e, O)
<1>1. PICK A, E : A = Record(in).axes /\ E = Expectations(in)
  OBVIOUS
<1>2. r \in Relations(O, E, A)
  BY <1>1, RecordIs
<1>3. r \in {PlannedRelation(e, Selected(e, O), A) : e \in E}
      \/ r \in {UnplannedRelation(o, A) : o \in O \ UNION {Selected(e, O) : e \in E}}
  BY <1>2 DEF Relations
<1>4. CASE r \in {PlannedRelation(e, Selected(e, O), A) : e \in E}
  BY <1>1, <1>4
<1>5. CASE r \in {UnplannedRelation(o, A) : o \in O \ UNION {Selected(e, O) : e \in E}}
  <2>1. PICK o \in O \ UNION {Selected(e, O) : e \in E} : r = UnplannedRelation(o, A)
    BY <1>5
  <2>2. o \in O /\ \A e \in E : o \notin Selected(e, O)
    BY <2>1
  <2> QED BY <1>1, <2>1, <2>2
<1> QED BY <1>3, <1>4, <1>5

LEMMA UnplannedShape ==
    ASSUME NEW o, NEW A, NEW r, r = UnplannedRelation(o, A)
    PROVE  /\ r.expectation = None /\ r.observations = {o.id}
           /\ \/ /\ r.status = "observed_but_not_planned" /\ o.coverage = "complete" /\ o.own
                 /\ r.evaluation = UnplannedEvaluation
              \/ /\ r.status = "unresolved_due_to_coverage"
                 /\ r.evaluation.observation = "unresolved" /\ ~r.evaluation.decisive
                 /\ r.evaluation.coverage = IncompleteCoverage(A)
<1>1. PICK w : w = Unresolved(IncompleteCoverage(A))
  OBVIOUS
<1>2. w.observation = "unresolved" /\ ~w.decisive /\ w.coverage = IncompleteCoverage(A)
  BY <1>1 DEF Unresolved, Evaluation
<1>3. PICK u : u = UnplannedEvaluation
  OBVIOUS
<1>4. r = IF o.coverage = "complete" /\ o.own
          THEN Relation(None, {o}, "observed_but_not_planned", u)
          ELSE Relation(None, {o}, "unresolved_due_to_coverage", w)
  BY <1>1, <1>3 DEF UnplannedRelation
<1>5. CASE o.coverage = "complete" /\ o.own
  <2>1. r = Relation(None, {o}, "observed_but_not_planned", u)
    BY <1>4, <1>5
  <2> QED BY <1>3, <1>5, <2>1 DEF Relation
<1>6. CASE ~(o.coverage = "complete" /\ o.own)
  <2>1. r = Relation(None, {o}, "unresolved_due_to_coverage", w)
    BY <1>4, <1>6
  <2> QED BY <1>2, <2>1 DEF Relation
<1> QED BY <1>5, <1>6

\* The checker recomputes every relation to what the builder left.
LEMMA RelationsHold ==
    ASSUME NEW in, Built(in), NEW r \in Record(in).relations,
           r.status = "downstream_consumption_missing" =>
               Record(in).axes.downstream = "complete"
    PROVE  RelationHolds(r, Record(in))
<1>1. PICK R : R = Record(in)
  OBVIOUS
<1>2. PICK O, E, A : O = Observations(in) /\ E = Expectations(in) /\ A = R.axes
  OBVIOUS
<1>3. R.expectations = E /\ R.observations = O /\ R.axes = A
  BY <1>1, <1>2, RecordIs
<1>4. \A a, b \in O : a.id = b.id => a = b
  BY <1>2, BuiltMeans
<1>5. r.status = "unresolved_due_to_coverage" => AxisValues(A) \cap {"partial", "unknown"} # {}
  BY <1>1, <1>2, OpenRelationOpenAxis
<1>6. PICK T : T = {o \in R.observations : o.id \in r.observations}
  OBVIOUS
<1>7. PICK X : X = {e \in R.expectations : e.id = r.expectation}
  OBVIOUS
<1>8. ASSUME NEW e \in E, r = PlannedRelation(e, Selected(e, O), A)
      PROVE  ExpectedEvaluation(r, R)
             /\ (r.status = "planned_but_not_observed" => A.execution = "complete")
  <2>1. PICK S : S = Selected(e, O)
    OBVIOUS
  <2>2. S \subseteq O
    BY <2>1 DEF Selected
  <2>3. /\ r.expectation = e.id /\ r.observations = {o.id : o \in S}
        /\ \/ /\ r.status \notin {"ambiguous_observation_match", "unresolved_due_to_coverage",
                                  "observed_but_not_planned"}
              /\ r.evaluation = FullEvaluation(e, S, A)
              /\ r.status = "planned_but_not_observed" => A.execution = "complete"
           \/ /\ r.status = "ambiguous_observation_match"
              /\ r.evaluation.observation = "unresolved" /\ ~r.evaluation.decisive
           \/ /\ r.status = "unresolved_due_to_coverage"
              /\ r.evaluation.observation = "unresolved" /\ ~r.evaluation.decisive
              /\ r.evaluation.coverage = IncompleteCoverage(A)
    BY <1>8, <2>1, PlannedShape
  <2>4. T = S
    BY <1>3, <1>4, <1>6, <2>2, <2>3
  <2>5. e \in X
    BY <1>3, <1>7, <2>3
  <2>6. CASE /\ r.status \notin {"ambiguous_observation_match", "unresolved_due_to_coverage",
                                 "observed_but_not_planned"}
             /\ r.evaluation = FullEvaluation(e, S, A)
    <3>1. \E f \in X : r.evaluation = FullEvaluation(f, T, R.axes)
      BY <1>3, <2>4, <2>5, <2>6
    <3>2. ExpectedEvaluation(r, R)
      BY <1>6, <1>7, <2>6, <3>1 DEF ExpectedEvaluation
    <3> QED BY <2>3, <3>2
  <2>7. CASE /\ r.status = "ambiguous_observation_match"
             /\ r.evaluation.observation = "unresolved" /\ ~r.evaluation.decisive
    BY <2>7 DEF ExpectedEvaluation
  <2>8. CASE /\ r.status = "unresolved_due_to_coverage"
             /\ r.evaluation.observation = "unresolved" /\ ~r.evaluation.decisive
             /\ r.evaluation.coverage = IncompleteCoverage(A)
    BY <1>3, <2>8 DEF ExpectedEvaluation
  <2> QED BY <2>3, <2>6, <2>7, <2>8
<1>9. ASSUME NEW o \in O, r = UnplannedRelation(o, A)
      PROVE  ExpectedEvaluation(r, R) /\ r.status # "planned_but_not_observed"
  <2>1. /\ r.observations = {o.id}
        /\ \/ /\ r.status = "observed_but_not_planned" /\ o.coverage = "complete" /\ o.own
              /\ r.evaluation = UnplannedEvaluation
           \/ /\ r.status = "unresolved_due_to_coverage"
              /\ r.evaluation.observation = "unresolved" /\ ~r.evaluation.decisive
              /\ r.evaluation.coverage = IncompleteCoverage(A)
    BY <1>9, UnplannedShape
  <2>2. T = {o}
    BY <1>3, <1>4, <1>6, <2>1
  <2>3. CASE /\ r.status = "observed_but_not_planned" /\ o.coverage = "complete" /\ o.own
             /\ r.evaluation = UnplannedEvaluation
    <3>1. RunResult(T) = "match"
      BY <2>2, <2>3 DEF RunResult
    <3>2. {x.coverage : x \in T} = {"complete"}
      BY <2>2, <2>3
    <3>3. CombineStatuses({x.coverage : x \in T}) = "complete"
      BY <3>2 DEF CombineStatuses
    <3>4. UnplannedEvaluation =
              [UnplannedEvaluation EXCEPT !.run = "match", !.coverage = "complete",
                                          !.decisive = TRUE]
      <4>1. PICK u : u = UnplannedEvaluation
        OBVIOUS
      <4>2. PICK yes : yes = TRUE
        OBVIOUS
      <4>3. u = [observation |-> "observed", run |-> "match", identity |-> "not_required",
                 source |-> "not_required", role |-> "not_required",
                 authority |-> "not_required", downstream |-> "not_required",
                 coverage |-> "complete", decisive |-> yes]
        BY <4>1, <4>2 DEF UnplannedEvaluation, Evaluation
      <4>4. u = [u EXCEPT !.run = "match"]
        BY <4>3
      <4>5. u = [u EXCEPT !.coverage = "complete"]
        BY <4>3
      <4>6. u = [u EXCEPT !.decisive = yes]
        BY <4>3
      <4>7. u = [u EXCEPT !.run = "match", !.coverage = "complete", !.decisive = yes]
        BY <4>4, <4>5, <4>6
      <4> QED BY <4>1, <4>2, <4>7
    <3>5. PICK d \in BOOLEAN : d = (/\ RunResult(T) = "match"
                                    /\ {x.coverage : x \in T} = {"complete"})
      OBVIOUS
    <3>6. d = TRUE
      BY <3>1, <3>2, <3>5
    <3>7. UnplannedEvaluation =
              [UnplannedEvaluation EXCEPT !.run = RunResult(T),
                 !.coverage = CombineStatuses({x.coverage : x \in T}),
                 !.decisive = /\ RunResult(T) = "match"
                              /\ {x.coverage : x \in T} = {"complete"}]
      BY <3>1, <3>3, <3>4, <3>5, <3>6
    <3> QED BY <1>6, <2>3, <3>7 DEF ExpectedEvaluation
  <2>4. CASE /\ r.status = "unresolved_due_to_coverage"
             /\ r.evaluation.observation = "unresolved" /\ ~r.evaluation.decisive
             /\ r.evaluation.coverage = IncompleteCoverage(A)
    BY <1>3, <2>4 DEF ExpectedEvaluation
  <2> QED BY <2>1, <2>3, <2>4
<1>10. ExpectedEvaluation(r, R)
       /\ (r.status = "planned_but_not_observed" => A.execution = "complete")
  BY <1>1, <1>2, <1>8, <1>9, RelationsAre
<1>11. RelationHolds(r, R)
  BY <1>1, <1>3, <1>5, <1>10 DEF RelationHolds
<1> QED BY <1>1, <1>11

\* No expectation and no observation is in two relations.
LEMMA RelationsAreSingle ==
    ASSUME NEW in, Built(in)
    PROVE  Multiplicity(Record(in))
<1>1. PICK R : R = Record(in)
  OBVIOUS
<1>2. PICK O, E, A : O = Observations(in) /\ E = Expectations(in) /\ A = R.axes
  OBVIOUS
<1>3. R.expectations = E /\ R.observations = O
  BY <1>1, <1>2, RecordIs
<1>4. /\ \A a, b \in O : a.id = b.id => a = b
      /\ \A e, f \in E : \A o \in Selected(e, O) : o \in Selected(f, O) => e = f
      /\ \A e, f \in E : e.id = f.id => e = f
      /\ \A e \in E : e.id # None /\ Selected(e, O) \subseteq O
  BY <1>2, BuiltMeans, ExpectationIds DEF Selected
<1>5. \A r \in R.relations :
          \/ \E e \in E : r = PlannedRelation(e, Selected(e, O), A)
          \/ \E o \in O : r = UnplannedRelation(o, A) /\ \A e \in E : o \notin Selected(e, O)
  BY <1>1, <1>2, RelationsAre
<1>6. \A e : /\ PlannedRelation(e, Selected(e, O), A).expectation = e.id
             /\ PlannedRelation(e, Selected(e, O), A).observations =
                    {o.id : o \in Selected(e, O)}
  BY PlannedShape
<1>7. \A o : /\ UnplannedRelation(o, A).expectation = None
             /\ UnplannedRelation(o, A).observations = {o.id}
  BY UnplannedShape
<1>8. ASSUME NEW e \in E
      PROVE  Cardinality({r \in R.relations : r.expectation = e.id}) <= 1
  <2>1. ASSUME NEW r \in R.relations, r.expectation = e.id
        PROVE  r = PlannedRelation(e, Selected(e, O), A)
    BY <1>4, <1>5, <1>6, <1>7, <2>1
  <2>2. \A r, q \in {r \in R.relations : r.expectation = e.id} : r = q
    BY <2>1
  <2> QED BY <2>2, AtMostOne
<1>9. ASSUME NEW o \in O
      PROVE  Cardinality({r \in R.relations : o.id \in r.observations}) <= 1
  <2>1. ASSUME NEW r \in R.relations, o.id \in r.observations
        PROVE  \/ \E e \in E : o \in Selected(e, O) /\ r = PlannedRelation(e, Selected(e, O), A)
               \/ r = UnplannedRelation(o, A) /\ \A e \in E : o \notin Selected(e, O)
    <3>1. CASE \E e \in E : r = PlannedRelation(e, Selected(e, O), A)
      <4>1. PICK e \in E : r = PlannedRelation(e, Selected(e, O), A)
        BY <3>1
      <4>2. o.id \in {b.id : b \in Selected(e, O)}
        BY <1>6, <2>1, <4>1
      <4>3. o \in Selected(e, O)
        BY <1>4, <4>2
      <4> QED BY <4>1, <4>3
    <3>2. CASE \E b \in O : r = UnplannedRelation(b, A) /\ \A e \in E : b \notin Selected(e, O)
      <4>1. PICK b \in O : r = UnplannedRelation(b, A) /\ \A e \in E : b \notin Selected(e, O)
        BY <3>2
      <4>2. o = b
        BY <1>4, <1>7, <2>1, <4>1
      <4> QED BY <4>1, <4>2
    <3> QED BY <1>5, <3>1, <3>2
  <2>2. ASSUME NEW r \in R.relations, NEW q \in R.relations,
               o.id \in r.observations, o.id \in q.observations
        PROVE  r = q
    <3>1. CASE \A e \in E : o \notin Selected(e, O)
      BY <2>1, <2>2, <3>1
    <3>2. CASE \E e \in E : o \in Selected(e, O)
      <4>1. PICK e \in E : o \in Selected(e, O) /\ r = PlannedRelation(e, Selected(e, O), A)
        BY <2>1, <2>2, <3>2
      <4>2. PICK f \in E : o \in Selected(f, O) /\ q = PlannedRelation(f, Selected(f, O), A)
        BY <2>1, <2>2, <3>2
      <4>3. e = f
        BY <1>4, <4>1, <4>2
      <4> QED BY <4>1, <4>2, <4>3
    <3> QED BY <3>1, <3>2
  <2>3. \A r, q \in {r \in R.relations : o.id \in r.observations} : r = q
    BY <2>2
  <2> QED BY <2>3, AtMostOne
<1>10. Multiplicity(R)
  BY <1>3, <1>8, <1>9 DEF Multiplicity
<1> QED BY <1>1, <1>10

\* Every flagged mutation is in a finding of integrity.
LEMMA FlagsAreCovered ==
    ASSUME NEW in
    PROVE  FlagsCovered(Record(in))
<1>1. PICK R : R = Record(in)
  OBVIOUS
<1>2. PICK O, raised : O = R.observations /\ raised = RelationFindings(R.relations, O)
  OBVIOUS
<1>3. R.findings = Findings(R.relations, O)
  BY <1>1, <1>2, RecordIs
<1>4. PICK covered : covered = UNION {f.observations : f \in {f \in raised : f.integrity}}
  OBVIOUS
<1>5. R.findings = raised \cup {[type |-> "authority_class_mismatch", observations |-> {o.id},
                                 integrity |-> TRUE] : o \in {o \in O : o.unbound /\ o.id \notin covered}}
  BY <1>2, <1>3, <1>4 DEF Findings
<1>6. ASSUME NEW o \in O, o.unbound
      PROVE  \E f \in R.findings : f.integrity /\ o.id \in f.observations
  <2>1. CASE o.id \in covered
    <3>1. PICK f \in raised : f.integrity /\ o.id \in f.observations
      BY <1>4, <2>1
    <3> QED BY <1>5, <3>1
  <2>2. CASE o.id \notin covered
    <3>1. PICK f : f = [type |-> "authority_class_mismatch", observations |-> {o.id},
                        integrity |-> TRUE]
      OBVIOUS
    <3>2. f \in R.findings
      BY <1>5, <1>6, <2>2, <3>1
    <3> QED BY <3>1, <3>2
  <2> QED BY <2>1, <2>2
<1>7. FlagsCovered(R)
  BY <1>2, <1>6 DEF FlagsCovered
<1> QED BY <1>1, <1>7

LEMMA RuntimeIsAdmitted ==
    ASSUME NEW in, Built(in)
    PROVE  RuntimeAdmitted(Record(in))
<1>1. PICK R : R = Record(in)
  OBVIOUS
<1>2. PICK O, P : O = Observations(in) /\ P = Packets(in)
  OBVIOUS
<1>3. R.from = in /\ R.observations = O /\ R.runtime = RuntimeStatus(P)
  BY <1>1, <1>2, RecordIs
<1>4. P = {} <=> in.packets = <<>>
  BY <1>2, PacketsFinite DEF Built
<1>5. CASE in.report.level = "artifact_observed"
  <2>1. in.packets = <<>> /\ P = {}
    BY <1>4, <1>5, BuiltMeans
  <2>2. R.runtime = "none"
    BY <1>3, <2>1 DEF RuntimeStatus
  <2>3. \A o \in O : o.source = "compute_binding_report"
    BY <1>2, <2>1 DEF Observations, NodeObservation, Observation
  <2>4. {o \in R.observations : o.source = "runtime_observation_packet"} = {}
    BY <1>3, <2>3
  <2>5. RuntimeAdmitted(R)
    BY <1>3, <1>5, <2>1, <2>2, <2>4 DEF RuntimeAdmitted
  <2> QED BY <1>1, <2>5
<1>6. CASE in.report.level = "runtime_observed"
  <2>1. in.packets # <<>> /\ P # {}
    BY <1>4, <1>6, BuiltMeans
  <2>2. R.runtime \in {"partial", "complete"}
    BY <1>3, <2>1 DEF RuntimeStatus
  <2>3. RuntimeAdmitted(R)
    BY <1>3, <1>6, <2>1, <2>2 DEF RuntimeAdmitted
  <2> QED BY <1>1, <2>3
<1> QED BY <1>5, <1>6, BuiltMeans

\* A record no missing consumption and no observer stands against is accepted.
LEMMA RecordIsAccepted ==
    ASSUME NEW in, Built(in),
           \A r \in Record(in).relations :
               r.status = "downstream_consumption_missing" =>
                   Record(in).axes.downstream = "complete",
           \A o \in Record(in).observations : ObserverBoundaryHolds(o)
    PROVE  CheckerAccepts(Record(in))
<1>1. PICK R : R = Record(in)
  OBVIOUS
<1>2. \A r \in R.relations : RelationHolds(r, R)
  BY <1>1, RelationsHold
<1>3. CompletenessHolds(R)
  <2>1. R.comparison = Comparison(R)
    BY <1>1, RecordIs
  <2> QED BY <2>1 DEF CompletenessHolds, Comparison, IncompleteCoverage
<1>4. RuntimeAdmitted(R) /\ Multiplicity(R) /\ FlagsCovered(R)
  BY <1>1, RuntimeIsAdmitted, RelationsAreSingle, FlagsAreCovered
<1>5. CheckerAccepts(R)
  BY <1>1, <1>2, <1>3, <1>4 DEF CheckerAccepts
<1> QED BY <1>1, <1>5

\* The builder's own checker rejects a record only over a missing consumption
\* beside an open one, or over an observer its inputs describe otherwise.
THEOREM SelfCheckRejectsOnly == Spec => []SelfCheckPasses
<1>1. ASSUME IInv PROVE SelfCheckPasses
  <2>1. SUFFICES ASSUME build.pc = "rejected"
                 PROVE  LET rec == Record(build.in)
                        IN  \/ /\ \E r \in rec.relations :
                                     r.status = "downstream_consumption_missing"
                               /\ rec.axes.downstream # "complete"
                            \/ \E o \in rec.observations : ~ObserverBoundaryHolds(o)
    BY DEF SelfCheckPasses
  <2>2. PICK in : in = build.in
    OBVIOUS
  <2>3. Built(in) /\ ~CheckerAccepts(Record(in))
    BY <1>1, <2>1, <2>2 DEF IInv, BuildInv, Built
  <2> QED BY <2>2, <2>3, RecordIsAccepted
<1> QED BY RelationInductive, <1>1, PTL DEF Spec

=============================================================================
