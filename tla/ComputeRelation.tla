--------------------------- MODULE ComputeRelation ---------------------------
(***************************************************************************)
(* The planned-observed relation of the compute tools, as a function of its *)
(* inputs: what build_pulsemech_compute_planned_observed_relation_v0.py     *)
(* derives from a plan, a compute report, runtime packets and expectations; *)
(* the recomputation its checker runs on the result; and the candidate      *)
(* gates the fold derives from it.                                          *)
(*                                                                         *)
(* One record stands for one compute record of the inputs:                  *)
(*   node       in.report.nodes      [id, observer, own, type, surface,     *)
(*                digest, role, authority, mutates, binding, outputs]       *)
(*   execution  packet.executions    [... step, capture, bound ...]         *)
(*   child      packet.children      [id, parent, kind, surface, digest,    *)
(*                capture, mutates, outputs]: an external call or inference *)
(* "own" says the execution's run key is the subject's; "surface" is the    *)
(* source path, which is the tool id too; a digest of None, or a surface of *)
(* None, is an identity field the record does not carry.                    *)
(***************************************************************************)
EXTENDS Integers, FiniteSets

CONSTANT None

-----------------------------------------------------------------------------
(* Coverage words.                                                          *)

CombineStatuses(S) ==
    IF S = {} THEN "not_required"
    ELSE IF S = {"complete"} THEN "complete"
    ELSE IF "unknown" \in S THEN "unknown" ELSE "partial"

Closed(axes) == \A a \in DOMAIN axes : axes[a] \in {"complete", "not_required"}

AxisValues(axes) == {axes[a] : a \in DOMAIN axes}

IncompleteCoverage(axes) ==
    IF "unknown" \in AxisValues(axes) THEN "unknown" ELSE "partial"

-----------------------------------------------------------------------------
(* Observations: one normalised record per compute record of the inputs.    *)

IdentityStatus(surface, digest) ==
    CASE surface # None /\ digest # None -> "exact"
      [] surface = None /\ digest = None -> "unknown"
      [] OTHER -> "partial"

IdentityCoverage(o) ==
    IF IdentityStatus(o.surface, o.digest) = "exact" THEN "complete"
    ELSE IdentityStatus(o.surface, o.digest)

BindingClass(observer, role, binding) ==
    CASE observer -> "observer"
      [] ~observer /\ binding = "none" -> "unbound"
      [] ~observer /\ binding = "complete" /\ role # "unknown" -> role
      [] OTHER -> "unknown"

\* What became of the states a record produced: "none" were produced, a
\* "consumed" one, only edges of "incomplete" binding, or an "unconsumed" one.
Downstream(outputs, coverage) ==
    CASE outputs = "none" -> "not_applicable"
      [] outputs = "consumed" -> "observed"
      [] outputs = "unconsumed" /\ coverage = "complete" -> "not_observed"
      [] OTHER -> "unresolved"

Observation(source, x, type, step, observer, role, authority, own, binding, coverage) ==
    [id |-> x.id, source |-> source, type |-> type, step |-> step,
     surface |-> x.surface, digest |-> x.digest,
     observer |-> observer, own |-> own, role |-> role, authority |-> authority,
     mutates |-> x.mutates /\ authority = "authoritative",
     binding |-> binding, coverage |-> coverage,
     class |-> BindingClass(observer, role, binding),
     unbound |-> /\ BindingClass(observer, role, binding) = "unbound"
                 /\ x.mutates /\ authority = "authoritative",
     downstream |-> Downstream(x.outputs, coverage)]

NodeObservation(n) ==
    Observation("compute_binding_report", n, n.type, None, n.observer, n.role,
                n.authority, n.own, n.binding,
                IF n.binding = "none" THEN "complete" ELSE n.binding)

RuntimeBinding(capture, bound, identity) ==
    CASE "unknown" \in {capture, identity} -> "unknown"
      [] "unknown" \notin {capture, identity}
           /\ (capture # "complete" \/ ~bound \/ identity = "partial") -> "partial"
      [] OTHER -> "complete"

RuntimeObservation(x, type, step, context, capture, surface, digest) ==
    LET b == RuntimeBinding(capture, context.bound, IdentityStatus(surface, digest))
    IN  Observation("runtime_observation_packet", x, type, step, context.observer,
                    context.role, context.authority, context.own, b, b)

ExecutionObservation(e) ==
    RuntimeObservation(e, e.type, e.step, e, e.capture, e.surface, e.digest)

\* An external call or a model inference borrows its parent's run, role and
\* authority; one whose parent is not in the packet has none of them.
ParentContext(c, executions) ==
    IF \E e \in executions : e.id = c.parent
    THEN CHOOSE e \in executions : e.id = c.parent
    ELSE [observer |-> FALSE, role |-> "unknown", authority |-> "none",
          own |-> TRUE, bound |-> FALSE, step |-> None]

ChildObservation(c, executions) ==
    LET parent == ParentContext(c, executions)
    IN  RuntimeObservation(c, c.kind, parent.step, parent, c.capture, c.surface, c.digest)

PacketObservations(p) ==
    {ExecutionObservation(e) : e \in p.executions}
    \cup {ChildObservation(c, p.executions) : c \in p.children}

Packets(in) == {in.packets[i] : i \in DOMAIN in.packets}

Observations(in) ==
    {NodeObservation(n) : n \in in.report.nodes}
    \cup UNION {PacketObservations(p) : p \in Packets(in)}

-----------------------------------------------------------------------------
(* The packet chain, as far as the packets supplied show it.                *)

Consecutive(p, q) == q.seq = p.seq + 1

ChainBroken(in) ==
    \/ \E p \in Packets(in) : p.seq \notin Nat \/ (p.seq = 0 /\ p.previous # None)
                                             \/ (p.seq # 0 /\ p.previous = None)
    \/ \E i, j \in DOMAIN in.packets :
          /\ i # j
          /\ in.packets[i].seq = in.packets[j].seq \/ in.packets[i].id = in.packets[j].id
    \/ \E p, q \in Packets(in) : Consecutive(p, q) /\ q.previous # p.id

\* Mutant of ChainComplete: the chain need not start at its first packet.
ChainConsecutive(P) ==
    \A p \in P : \A q \in P : p.seq < q.seq => \E n \in P : Consecutive(p, n)

ChainComplete(P) == {p.seq : p \in P} = 0 .. (Cardinality(P) - 1)

RuntimeStatus(P) ==
    CASE P = {} -> "none"
      [] P # {} /\ ChainComplete(P) /\ \A p \in P : p.status = "complete" -> "complete"
      [] OTHER -> "partial"

-----------------------------------------------------------------------------
(* Expectations: the explicit ones, and a presence for every operation of   *)
(* the plan that none of them refers to.                                    *)

Presence(op) ==
    [id |-> <<"presence", op>>, kind |-> "planned_presence_only", operations |-> {op},
     surface |-> None, digest |-> None, tool |-> None, step |-> None, type |-> None,
     role |-> None, authority |-> None, downstream |-> FALSE]

Referenced(E) == UNION {e.operations : e \in E}

ExplicitInvalid(in) == ~(Referenced(in.expectations) \subseteq in.operations)

Unreferenced(in) == in.operations \ Referenced(in.expectations)

PresenceCollides(in) ==
    \E e \in in.expectations : \E op \in Unreferenced(in) : e.id = Presence(op).id

Expectations(in) == in.expectations \cup {Presence(op) : op \in Unreferenced(in)}

Executes(e) == e.kind # "planned_presence_only"

-----------------------------------------------------------------------------
(* Axis coverage over everything observed.                                  *)

Lowered(base, evidence) ==
    CASE "unknown" \in evidence -> "unknown"
      [] "unknown" \notin evidence /\ base # "unknown" /\ "partial" \in evidence -> "partial"
      [] OTHER -> base

Axes(in, obs, expectations) ==
    LET base == IF obs # {} THEN CombineStatuses({o.coverage : o \in obs})
                ELSE IF \E e \in expectations : Executes(e) THEN "unknown"
                ELSE "not_required"
        incomplete == IF in.report.level = "runtime_observed"
                            /\ RuntimeStatus(Packets(in)) # "complete"
                      THEN {"partial"} ELSE {}
        foreign == IF \E o \in obs : ~o.own THEN {"partial"} ELSE {}
    IN  [identity |-> CombineStatuses({IdentityCoverage(o) : o \in obs}),
         execution |-> Lowered(base, {n.binding : n \in in.report.nodes}
                                     \cup {p.status : p \in Packets(in)} \cup incomplete \cup foreign),
         role |-> CombineStatuses({IF o.role = "unknown" THEN "unknown" ELSE "complete" :
                                     o \in obs}),
         authority |-> CombineStatuses({"complete" : o \in obs}),
         downstream |-> CombineStatuses(
             {IF o.downstream # "unresolved" THEN "complete"
              ELSE IF o.coverage = "unknown" THEN "unknown" ELSE "partial" : o \in obs})]

-----------------------------------------------------------------------------
(* Matching an expectation with observations.                               *)

Anchored(want, got) == want # None /\ want = got

StrongAnchor(e, o) ==
    \/ Anchored(e.surface, o.surface)
    \/ Anchored(e.tool, o.surface)
    \/ Anchored(e.step, o.step)

Candidate(e, o) ==
    /\ o.observer => (e.role = "observer" \/ e.type = "observer_execution")
    /\ StrongAnchor(e, o)

FieldScore(want, got, weight, penalty) ==
    IF want = None \/ got = None THEN 0 ELSE IF want = got THEN weight ELSE -penalty

Bonus(want, got, bonus) == IF Anchored(want, got) THEN bonus ELSE 0

Score(e, o) ==
    Bonus(e.surface, o.surface, 120)
    + FieldScore(e.digest, o.digest, 35, -5)
    + FieldScore(e.tool, o.surface, 90, 30)
    + FieldScore(e.step, o.step, 55, 18)
    + FieldScore(e.type, o.type, 15, 5)
    + Bonus(e.role, o.role, 8)
    + Bonus(e.authority, o.authority, 8)

\* The best candidates of each kind of source record.
Selected(e, obs) ==
    LET C == {o \in obs : Candidate(e, o)}
    IN  IF ~Executes(e) THEN {}
        ELSE {o \in C : \A x \in C : x.source = o.source => Score(e, x) <= Score(e, o)}

\* A report node and a packet record are one execution only if they carry the
\* same anchor of the expectation.
CanShare(e, S) ==
    \/ \A o \in S : Anchored(e.surface, o.surface)
    \/ \A o \in S : Anchored(e.tool, o.surface)
    \/ \A o \in S : Anchored(e.step, o.step)

Ambiguous(e, S) ==
    \/ \E a, b \in S : a # b /\ a.source = b.source
    \/ Cardinality(S) > 1 /\ ~CanShare(e, S)

Overlap(expectations, obs) ==
    \E e, f \in expectations : e # f /\ Selected(e, obs) \cap Selected(f, obs) # {}

-----------------------------------------------------------------------------
(* Evaluating one relation.                                                 *)

Compare(want, got) ==
    CASE want = None -> "not_required"
      [] want # None /\ got = None -> "unavailable"
      [] OTHER -> IF want = got THEN "match" ELSE "mismatch"

\* Of one observation every wanted field must be there; of several, one that
\* carries them all is enough.
FieldsVerdict(results) ==
    CASE "mismatch" \in results -> "mismatch"
      [] "mismatch" \notin results /\ "unavailable" \in results -> "unavailable"
      [] OTHER -> "match"

\* Mutant of Verdict: one observation that matches is enough.
VerdictAnyMatch(results) ==
    IF "match" \in results THEN "match"
    ELSE IF "mismatch" \in results THEN "mismatch" ELSE "unavailable"

Verdict(results) ==
    CASE "mismatch" \in results -> "mismatch"
      [] "mismatch" \notin results /\ "match" \in results -> "match"
      [] OTHER -> "unavailable"

\* A declared role or an authority of "unknown" is none.
FieldResult(want, values) ==
    IF want = None THEN "not_required"
    ELSE Verdict({Compare(want, IF v = "unknown" THEN None ELSE v) : v \in values})

SelectorResult(e, S) ==
    IF e.tool = None /\ e.step = None /\ e.type = None THEN "not_required"
    ELSE Verdict({FieldsVerdict({Compare(e.tool, o.surface), Compare(e.step, o.step),
                                 Compare(e.type, o.type)}) : o \in S})

SourceResult(e, S) ==
    IF e.surface = None /\ e.digest = None THEN "unavailable"
    ELSE Verdict({FieldsVerdict({Compare(e.surface, o.surface),
                                 Compare(e.digest, o.digest)}) : o \in S})

RunResult(S) == IF \A o \in S : o.own THEN "match" ELSE "mismatch"

DownstreamResult(e, S) ==
    LET statuses == {o.downstream : o \in S}
    IN  CASE "observed" \in statuses -> "observed"
          [] "observed" \notin statuses /\ ~e.downstream -> "not_required"
          [] "observed" \notin statuses /\ e.downstream /\ "unresolved" \in statuses -> "unresolved"
          [] OTHER -> "not_observed"

Evaluation(observation, run, identity, source, role, authority, downstream, coverage, decisive) ==
    [observation |-> observation, run |-> run, identity |-> identity, source |-> source,
     role |-> role, authority |-> authority, downstream |-> downstream,
     coverage |-> coverage, decisive |-> decisive]

NothingRequired(observation) ==
    Evaluation(observation, "not_required", "not_required", "not_required", "not_required",
               "not_required", "not_required", "complete", TRUE)

Unresolved(coverage) ==
    Evaluation("unresolved", "unavailable", "unavailable", "unavailable", "unavailable",
               "unavailable", "unresolved", coverage, FALSE)

FullEvaluation(e, S, axes) ==
    IF ~Executes(e) THEN NothingRequired("not_required")
    ELSE IF S = {} THEN IF axes.execution = "complete" THEN NothingRequired("not_observed")
                        ELSE Unresolved(IncompleteCoverage(axes))
    ELSE LET coverage == CombineStatuses({o.coverage : o \in S})
             identity == SelectorResult(e, S)
             source == SourceResult(e, S)
             role == FieldResult(e.role, {o.role : o \in S})
             authority == FieldResult(e.authority, {o.authority : o \in S})
             downstream == DownstreamResult(e, S)
         IN  Evaluation("observed", RunResult(S), identity, source, role, authority,
                        downstream, coverage,
                        /\ coverage = "complete"
                        /\ "unavailable" \notin {identity, source, role, authority}
                        /\ downstream # "unresolved")

StatusOf(v, downstreamRequired) ==
    IF v.observation = "unresolved" THEN "unresolved_due_to_coverage"
    ELSE IF v.observation = "not_observed" THEN "planned_but_not_observed"
    ELSE IF v.coverage # "complete" \/ ~v.decisive THEN "unresolved_due_to_coverage"
    ELSE IF v.run = "mismatch" THEN "run_binding_mismatch"
    ELSE IF v.identity = "mismatch" THEN "execution_identity_mismatch"
    ELSE IF v.source = "mismatch" THEN "source_digest_mismatch"
    ELSE IF v.role = "mismatch" THEN "declared_role_mismatch"
    ELSE IF v.authority = "mismatch" THEN "authority_class_mismatch"
    ELSE IF downstreamRequired /\ v.downstream = "not_observed" THEN "downstream_consumption_missing"
    ELSE "planned_and_observed"

Relation(e, S, status, v) ==
    [expectation |-> e, observations |-> {o.id : o \in S}, status |-> status, evaluation |-> v]

\* The relation of an expectation whose observations S evaluate to v.
RelationOf(e, S, v, axes) ==
    LET status == StatusOf(v, e.downstream)
    IN  IF ~Executes(e) THEN Relation(e.id, {}, "planned_presence_only", v)
        ELSE IF Ambiguous(e, S)
        THEN Relation(e.id, S, "ambiguous_observation_match",
                      Unresolved(CombineStatuses({o.coverage : o \in S})))
        ELSE IF status = "unresolved_due_to_coverage"
        THEN Relation(e.id, S, status, Unresolved(IncompleteCoverage(axes)))
        ELSE Relation(e.id, S, status, v)

PlannedRelation(e, S, axes) == RelationOf(e, S, FullEvaluation(e, S, axes), axes)

UnplannedEvaluation ==
    Evaluation("observed", "match", "not_required", "not_required", "not_required",
               "not_required", "not_required", "complete", TRUE)

UnplannedRelation(o, axes) ==
    IF o.coverage = "complete" /\ o.own
    THEN Relation(None, {o}, "observed_but_not_planned", UnplannedEvaluation)
    ELSE Relation(None, {o}, "unresolved_due_to_coverage",
                  Unresolved(IncompleteCoverage(axes)))

Relations(obs, expectations, axes) ==
    {PlannedRelation(e, Selected(e, obs), axes) : e \in expectations}
    \cup {UnplannedRelation(o, axes) :
             o \in obs \ UNION {Selected(e, obs) : e \in expectations}}

-----------------------------------------------------------------------------
(* The relation record.                                                     *)

\* Mutant of FinalAxes: the first pass is kept.
FirstAxes(axes, relations) == axes

\* A relation may stay open although every axis is closed (an expectation that
\* names no source, say): the identity axis is then given up and the relations
\* are built again.
FinalAxes(axes, relations) ==
    IF Closed(axes) /\ \E r \in relations : r.status = "unresolved_due_to_coverage"
    THEN [axes EXCEPT !.identity = "unknown"] ELSE axes

FindingOf(status) ==
    CASE status = "planned_but_not_observed" -> "planned_execution_not_observed"
      [] status = "observed_but_not_planned" -> "observed_execution_not_planned"
      [] status = "unresolved_due_to_coverage" -> "comparison_coverage_partial"
      [] OTHER -> status

Flagged(r, obs) == {o \in obs : o.id \in r.observations /\ o.unbound}

RelationFindings(relations, obs) ==
    {[type |-> FindingOf(r.status), observations |-> r.observations,
      integrity |-> r.status = "authority_class_mismatch" \/ Flagged(r, obs) # {}] :
        r \in {r \in relations : r.status \notin {"planned_presence_only", "planned_and_observed"}}}

\* A flagged observation no finding above covers gets one of its own.
Findings(relations, obs) ==
    LET raised == RelationFindings(relations, obs)
        covered == UNION {f.observations : f \in {f \in raised : f.integrity}}
    IN  raised \cup {[type |-> "authority_class_mismatch", observations |-> {o.id},
                      integrity |-> TRUE] : o \in {o \in obs : o.unbound /\ o.id \notin covered}}

Reasons(in, obs, axes, relations) ==
    {a \in DOMAIN axes : axes[a] \in {"partial", "unknown"}}
    \cup {"observer_only_record" : o \in {o \in obs : \A x \in obs : x.observer}}
    \cup {"ambiguous_match" : r \in {r \in relations : r.status = "ambiguous_observation_match"}}
    \cup {"coverage_partial" : r \in
             {r \in relations : \/ r.status = "unresolved_due_to_coverage"
                                \/ /\ in.report.level = "runtime_observed"
                                   /\ RuntimeStatus(Packets(in)) # "complete"}}

Classified(rec) ==
    /\ \A e \in rec.expectations : \E r \in rec.relations : r.expectation = e.id
    /\ \A o \in rec.observations : \E r \in rec.relations : o.id \in r.observations

CoverageClosed(rec) ==
    /\ Classified(rec) /\ rec.reasons = {} /\ Closed(rec.axes)
    /\ \A r \in rec.relations : r.evaluation.decisive

Comparison(rec) ==
    IF CoverageClosed(rec) THEN "complete" ELSE IncompleteCoverage(rec.axes)

Draft(in, obs, expectations, axes) ==
    [from |-> in, expectations |-> expectations, observations |-> obs, axes |-> axes,
     relations |-> Relations(obs, expectations, axes), findings |-> {}, reasons |-> {},
     runtime |-> RuntimeStatus(Packets(in)), comparison |-> "unknown"]

Judged(rec) ==
    [rec EXCEPT !.findings = Findings(rec.relations, rec.observations),
                !.reasons = Reasons(rec.from, rec.observations, rec.axes, rec.relations)]

Compared(rec) == [rec EXCEPT !.comparison = Comparison(rec)]

TwoPasses(in, obs, expectations, axes) ==
    Draft(in, obs, expectations, FinalAxes(axes, Relations(obs, expectations, axes)))

Drafted(in, obs, expectations) ==
    TwoPasses(in, obs, expectations, Axes(in, obs, expectations))

Record(in) == Compared(Judged(Drafted(in, Observations(in), Expectations(in))))

\* Inputs the builder raises an error on instead: no two records of one report
\* or of one packet may share an id; records of two packets may, if their
\* observations are the same.
SharesId(R) == \E a, b \in R : a # b /\ a.id = b.id

RefusedRecords(in) ==
    \/ SharesId(in.report.nodes)
    \/ \E p \in Packets(in) : SharesId(p.executions \cup p.children)

RefusedObservations(in, obs) == SharesId(obs) \/ Overlap(Expectations(in), obs)

Refused(in) ==
    \/ ExplicitInvalid(in) \/ PresenceCollides(in)
    \/ ChainBroken(in)
    \/ in.report.level \notin {"artifact_observed", "runtime_observed"}
    \/ in.report.level = "artifact_observed" /\ in.packets # <<>>
    \/ in.report.level = "runtime_observed" /\ in.packets = <<>>
    \/ RefusedRecords(in)
    \/ RefusedObservations(in, Observations(in))

-----------------------------------------------------------------------------
(* The checker: it recomputes from the record alone.                        *)

RuntimeAdmitted(rec) ==
    LET runtime == {o \in rec.observations : o.source = "runtime_observation_packet"}
    IN  IF rec.from.report.level = "artifact_observed"
        THEN rec.runtime = "none" /\ rec.from.packets = <<>> /\ runtime = {}
        ELSE rec.runtime \in {"partial", "complete"} /\ rec.from.packets # <<>>

ObserverBoundaryHolds(o) ==
    /\ o.observer <=> o.role = "observer"
    /\ o.observer <=> o.class = "observer"
    /\ o.observer => o.authority # "authoritative"

ExpectedEvaluation(r, rec) ==
    LET E == {e \in rec.expectations : e.id = r.expectation}
        S == {o \in rec.observations : o.id \in r.observations}
        v == r.evaluation
    IN  CASE r.status = "ambiguous_observation_match" ->
                v.observation = "unresolved" /\ ~v.decisive
          [] r.status = "unresolved_due_to_coverage" ->
                /\ v.observation = "unresolved" /\ ~v.decisive
                /\ v.coverage = IncompleteCoverage(rec.axes)
          [] r.status = "observed_but_not_planned" ->
                v = [UnplannedEvaluation EXCEPT
                       !.run = RunResult(S),
                       !.coverage = CombineStatuses({o.coverage : o \in S}),
                       !.decisive = /\ RunResult(S) = "match"
                                    /\ {o.coverage : o \in S} = {"complete"}]
          [] OTHER -> \E e \in E : v = FullEvaluation(e, S, rec.axes)

RelationHolds(r, rec) ==
    /\ ExpectedEvaluation(r, rec)
    /\ r.status = "planned_but_not_observed" => rec.axes.execution = "complete"
    /\ r.status = "downstream_consumption_missing" => rec.axes.downstream = "complete"
    /\ r.status = "unresolved_due_to_coverage" =>
            AxisValues(rec.axes) \cap {"partial", "unknown"} # {}

Multiplicity(rec) ==
    /\ \A e \in rec.expectations :
          Cardinality({r \in rec.relations : r.expectation = e.id}) <= 1
    /\ \A o \in rec.observations :
          Cardinality({r \in rec.relations : o.id \in r.observations}) <= 1

CompletenessHolds(rec) ==
    rec.comparison = "complete" <=> CoverageClosed(rec)

FlagsCovered(rec) ==
    \A o \in rec.observations :
        o.unbound => \E f \in rec.findings : f.integrity /\ o.id \in f.observations

CheckerAccepts(rec) ==
    /\ RuntimeAdmitted(rec)
    /\ \A o \in rec.observations : ObserverBoundaryHolds(o)
    /\ \A r \in rec.relations : RelationHolds(r, rec)
    /\ Multiplicity(rec)
    /\ CompletenessHolds(rec)
    /\ FlagsCovered(rec)

-----------------------------------------------------------------------------
(* The candidate gates of the fold.                                         *)

PathFailures == {"planned_but_not_observed", "observed_but_not_planned",
                 "execution_identity_mismatch", "downstream_consumption_missing",
                 "ambiguous_observation_match", "unresolved_due_to_coverage"}

AuthorityFailures == {"source_digest_mismatch", "run_binding_mismatch",
                      "declared_role_mismatch", "authority_class_mismatch"}

PathFailureFindings == {FindingOf(s) : s \in PathFailures}

TransitionPathComplete(rec) ==
    /\ \E e \in rec.expectations : Executes(e)
    /\ rec.comparison = "complete" /\ CoverageClosed(rec)
    /\ \A r \in rec.relations :
          r.evaluation.coverage = "complete"
    /\ \A r \in rec.relations : r.status \notin PathFailures
    /\ \A f \in rec.findings : f.type \notin PathFailureFindings

AuthorityBindingOk(rec) ==
    /\ \A a \in {"identity", "role", "authority"} : rec.axes[a] \in {"complete", "not_required"}
    /\ \A r \in rec.relations : r.status \notin AuthorityFailures
    /\ \A f \in rec.findings : f.type \notin AuthorityFailures
    /\ \A r \in rec.relations :
          {r.evaluation.source, r.evaluation.run, r.evaluation.role, r.evaluation.authority}
              \subseteq {"match", "not_required"}

\* Mutant of UnboundMutationAbsent: the builder's flag is believed.
NoMutationFlagged(rec) == \A o \in rec.observations : ~o.unbound

UnboundMutationAbsent(rec) ==
    \A o \in rec.observations :
        /\ ~o.unbound
        /\ o.mutates => /\ o.binding = "complete"
                        /\ o.class \in {"transition", "evidence", "preservation", "advisory"}

GateIds == {"path", "authority", "unbound"}

\* Mutant of CandidateGates: a gate the comparison cannot decide is left null.
CandidateGatesOrNull(rec) ==
    [path |-> IF rec.comparison = "complete" THEN TransitionPathComplete(rec) ELSE None,
     authority |-> AuthorityBindingOk(rec),
     unbound |-> UnboundMutationAbsent(rec)]

CandidateGates(rec) ==
    [g \in GateIds |->
        CASE g = "path" -> TransitionPathComplete(rec)
          [] g = "authority" -> AuthorityBindingOk(rec)
          [] g = "unbound" -> UnboundMutationAbsent(rec)]
=============================================================================
