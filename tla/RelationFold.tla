---------------------------- MODULE RelationFold ----------------------------
(***************************************************************************)
(* The planned-observed relation on disk.  The analyzer replaces the        *)
(* compute report; the builder turns a report and the packets it is given   *)
(* into a relation file; the fold copies a status with the relation's       *)
(* candidate gates into an output file.  Each tool digests its inputs       *)
(* first, opens them one by one, and digests them again before it writes;   *)
(* the fold does so after its write too, and withdraws the output if an     *)
(* input moved.  A relation file is represented by the inputs it was built  *)
(* from: the record is a function of them.                                  *)
(***************************************************************************)
EXTENDS ComputeRelation, Sequences

CONSTANT Scenes  \* [operations, expectations, reports, supplies]: a plan, the
                 \* expectations beside it, the reports an analysis may leave
                 \* and the packet lists the builder may be given

\* Expectations are a map by id, packets a list, and the mutation authority of
\* a node or an execution is one of a list that has no "unknown".
WellFormed(s) ==
    /\ \A e, f \in s.expectations : e.id = f.id => e = f
    /\ None \notin {e.id : e \in s.expectations} \cup {Presence(op).id : op \in s.operations}
    /\ \A r \in s.reports : \A n \in r.nodes : n.authority # "unknown"
    /\ \A l \in s.supplies :
          /\ l \in Seq({l[i] : i \in DOMAIN l})
          /\ \A i \in DOMAIN l : \A x \in l[i].executions : x.authority # "unknown"

ASSUME ScenesAssumption == \A s \in Scenes : WellFormed(s)

VARIABLES
    scene,     \* what is on hand, fixed
    report,    \* the compute report file
    relation,  \* the relation file: None, or the inputs it was built from
    status,    \* the candidate gates of the base status
    folded,    \* the fold's output file: None, or its candidate gates
    origin,    \* how the output came about: none, unchecked, ok
    killed,    \* a fold was killed between its write and its last look
    build,     \* the running builder
    fold       \* the running fold

files == <<report, relation, status, folded>>
output == <<folded, origin, killed>>
vars == <<scene, files, origin, killed, build, fold>>

Inputs(r, packets) ==
    [operations |-> scene.operations, expectations |-> scene.expectations,
     report |-> r, packets |-> packets]

Builder(pc, snapshot, packets, in) ==
    [pc |-> pc, snapshot |-> snapshot, packets |-> packets, in |-> in]

NoBuild == Builder("idle", None, None, None)

\* What a fold has read so far; "together" is history: the two files it read
\* were on disk at one moment.
Folding(pc, snapshot, base, rel, together, gates) ==
    [pc |-> pc, snapshot |-> snapshot, status |-> base, relation |-> rel,
     together |-> together, gates |-> gates]

NoFold == Folding("idle", None, None, None, FALSE, None)

NoGates == [g \in GateIds |-> None]

Init ==
    /\ scene \in Scenes
    /\ report \in scene.reports
    /\ relation = None
    /\ status = NoGates
    /\ folded = None /\ origin = "none" /\ killed = FALSE
    /\ build = NoBuild /\ fold = NoFold

\* The analyzer replaces the report.
Analyze(r) ==
    /\ report' = r
    /\ UNCHANGED <<scene, relation, status, output, build, fold>>

-----------------------------------------------------------------------------
(* The builder.                                                             *)

StartBuild(packets) ==
    /\ build.pc = "idle"
    /\ build' = Builder("load", report, packets, None)
    /\ UNCHANGED <<scene, files, origin, killed, fold>>

LoadReport ==
    /\ build.pc = "load"
    /\ build' = Builder("build", build.snapshot, build.packets, Inputs(report, build.packets))
    /\ UNCHANGED <<scene, files, origin, killed, fold>>

\* The builder raises an error, or runs its own checker on the record.
BuildRecord ==
    /\ build.pc = "build"
    /\ build' = IF Refused(build.in) THEN NoBuild
                ELSE Builder(IF CheckerAccepts(Record(build.in)) THEN "write" ELSE "rejected",
                             build.snapshot, build.packets, build.in)
    /\ UNCHANGED <<scene, files, origin, killed, fold>>

GiveUpBuild ==
    /\ build.pc = "rejected"
    /\ build' = NoBuild
    /\ UNCHANGED <<scene, files, origin, killed, fold>>

\* Nothing looks at the inputs after this write.
WriteRelation ==
    /\ build.pc = "write"
    /\ relation' = IF report = build.snapshot THEN build.in ELSE relation
    /\ build' = NoBuild
    /\ UNCHANGED <<scene, report, status, output, fold>>

-----------------------------------------------------------------------------
(* The fold.                                                                *)

\* Mutant of SnapshotsHold: only the relation is digested.
RelationHeld(f) == relation = f.snapshot.relation

SnapshotsHold(f) == status = f.snapshot.status /\ relation = f.snapshot.relation

StartFold ==
    /\ fold.pc = "idle" /\ relation # None
    /\ fold' = Folding("status", [status |-> status, relation |-> relation],
                       None, None, FALSE, None)
    /\ UNCHANGED <<scene, files, origin, killed, build>>

LoadStatus ==
    /\ fold.pc = "status"
    /\ fold' = Folding("relation", fold.snapshot, status, None, FALSE, None)
    /\ UNCHANGED <<scene, files, origin, killed, build>>

LoadRelation ==
    /\ fold.pc = "relation"
    /\ fold' = Folding("validate", fold.snapshot, fold.status, relation,
                       status = fold.status, None)
    /\ UNCHANGED <<scene, files, origin, killed, build>>

\* The validator opens the file again; what the builder leaves passes it.
ValidateRelation ==
    /\ fold.pc = "validate"
    /\ fold' = IF SnapshotsHold(fold)
               THEN Folding("derive", fold.snapshot, fold.status, fold.relation,
                            fold.together, None)
               ELSE NoFold
    /\ UNCHANGED <<scene, files, origin, killed, build>>

Conflict(base, gates) == \E g \in GateIds : base[g] \notin {None, gates[g]}

DeriveGates ==
    /\ fold.pc = "derive"
    /\ LET gates == CandidateGates(Record(fold.relation))
       IN  fold' = IF Conflict(fold.status, gates) \/ ~SnapshotsHold(fold) THEN NoFold
                   ELSE Folding("write", fold.snapshot, fold.status, fold.relation,
                                fold.together, gates)
    /\ UNCHANGED <<scene, files, origin, killed, build>>

WriteFolded ==
    /\ fold.pc = "write"
    /\ folded' = fold.gates /\ origin' = "unchecked"
    /\ fold' = Folding("check", fold.snapshot, fold.status, fold.relation,
                       fold.together, fold.gates)
    /\ UNCHANGED <<scene, report, relation, status, killed, build>>

\* Mutant of Withdrawn: the inputs are not looked at after the write.
NeverWithdrawn(f) == FALSE

Withdrawn(f) == ~SnapshotsHold(f)

\* Mutant of CheckAgain: the failed fold leaves its output.
CheckAgainKeeps ==
    /\ fold.pc = "check"
    /\ origin' = IF Withdrawn(fold) THEN origin ELSE "ok"
    /\ fold' = NoFold
    /\ UNCHANGED <<scene, files, killed, build>>

CheckAgain ==
    /\ fold.pc = "check"
    /\ IF Withdrawn(fold) THEN folded' = None /\ origin' = "none"
       ELSE origin' = "ok" /\ UNCHANGED folded
    /\ fold' = NoFold
    /\ UNCHANGED <<scene, report, relation, status, killed, build>>

KillFold ==
    /\ fold.pc # "idle"
    /\ killed' = (killed \/ fold.pc = "check")
    /\ fold' = NoFold
    /\ UNCHANGED <<scene, files, origin, build>>

\* The operator takes the output of a fold that reported ok for the status.
Promote ==
    /\ origin = "ok"
    /\ status' = folded
    /\ UNCHANGED <<scene, report, relation, output, build, fold>>

-----------------------------------------------------------------------------

BuilderNext ==
    \/ \E packets \in scene.supplies : StartBuild(packets)
    \/ LoadReport \/ BuildRecord \/ GiveUpBuild \/ WriteRelation

FoldNext ==
    \/ StartFold \/ LoadStatus \/ LoadRelation \/ ValidateRelation
    \/ DeriveGates \/ WriteFolded \/ CheckAgain \/ KillFold

Next ==
    \/ \E r \in scene.reports : Analyze(r)
    \/ BuilderNext
    \/ FoldNext
    \/ Promote

Spec == Init /\ [][Next]_vars

-----------------------------------------------------------------------------
(* Properties.  The first ones judge the gates against the raw records of   *)
(* the inputs, not against the observations the builder makes of them.      *)

TypeOK ==
    /\ scene \in Scenes /\ report \in scene.reports
    /\ status \in [GateIds -> BOOLEAN \cup {None}]
    /\ folded \in [GateIds -> BOOLEAN] \cup {None}
    /\ origin \in {"none", "unchecked", "ok"} /\ killed \in BOOLEAN
    /\ build.pc \in {"idle", "load", "build", "write", "rejected"}
    /\ fold.pc \in {"idle", "status", "relation", "validate", "derive", "write", "check"}

Seen(x, source, step, type, context, sound) ==
    [id |-> x.id, source |-> source, step |-> step, type |-> type,
     surface |-> x.surface, digest |-> x.digest, own |-> context.own,
     role |-> context.role, authority |-> context.authority,
     consumed |-> x.outputs = "consumed",
     decides |-> x.mutates /\ context.authority = "authoritative", sound |-> sound]

Whole(x, e) == x.capture = "complete" /\ e.bound /\ None \notin {x.surface, x.digest}

SeenInPacket(p) ==
    {Seen(e, "packet", e.step, e.type, e, Whole(e, e)) : e \in p.executions}
    \cup {Seen(m.child, "packet", m.parent.step, m.child.kind, m.parent, Whole(m.child, m.parent)) :
            m \in {m \in [child : p.children, parent : p.executions] : m.child.parent = m.parent.id}}

AllSeen(in) ==
    {Seen(n, "report", None, n.type, n, n.binding = "complete") : n \in in.report.nodes}
    \cup UNION {SeenInPacket(p) : p \in Packets(in)}

Planned(in) == {e \in in.expectations : Executes(e)}

\* Does a record carry nothing that differs from what is wanted, and do all
\* the records of an expectation together carry everything it wants?
Agrees(want, got) == want = None \/ got \in {None, want}

Carried(want, values) == want = None \/ want \in values

Faithful(e, x) ==
    /\ Agrees(e.surface, x.surface) /\ Agrees(e.digest, x.digest)
    /\ Agrees(e.role, x.role) /\ Agrees(e.authority, x.authority)

\* a assigns every record of the inputs to the expectation it fulfils.
Fulfils(in, a) ==
    /\ \A x \in AllSeen(in) :
          /\ x.own
          /\ Agrees(a[x].tool, x.surface) /\ Agrees(a[x].step, x.step) /\ Agrees(a[x].type, x.type)
    /\ \A e \in Planned(in) :
          LET X == {x \in AllSeen(in) : a[x] = e}
          IN  /\ X # {} /\ \A x, y \in X : x.source = y.source => x = y
              /\ Carried(e.tool, {x.surface : x \in X}) /\ Carried(e.step, {x.step : x \in X})
              /\ e.downstream => \E x \in X : x.consumed \/ ~Faithful(e, x)

FulfilsExactly(in, a) ==
    /\ Fulfils(in, a)
    /\ \A x \in AllSeen(in) : Faithful(a[x], x)

Assignments(in) == [AllSeen(in) -> Planned(in)]

Gapless(in) ==
    /\ \A p \in Packets(in) : p.status = "complete"
    /\ \A p \in Packets(in) : p.seq > 0 => \E q \in Packets(in) : p.previous = q.id

Derived(g) == fold.pc = "write" /\ fold.gates[g]

\* compute_transition_path_complete is TRUE only when the packets supplied have
\* no gap and the compute records of the inputs, observers included, and the
\* planned executions match one another without rest: no record is unplanned,
\* none stands for two expectations, no expectation is without one, and what
\* must be consumed is - unless a record of that expectation differs from it in
\* source, role or authority: that difference is the relation's one status, the
\* missing consumption goes unseen, and only the authority gate is FALSE.
PathCompleteJustified ==
    Derived("path") =>
        /\ Planned(fold.relation) # {} /\ Gapless(fold.relation)
        /\ \E a \in Assignments(fold.relation) : Fulfils(fold.relation, a)

\* With compute_transition_authority_binding_ok beside it, that match also holds
\* of source, digest, declared role and mutation authority, and so nothing that
\* must be consumed is not.
AuthorityBindingJustified ==
    Derived("path") /\ Derived("authority") =>
        \E a \in Assignments(fold.relation) : FulfilsExactly(fold.relation, a)

\* compute_transition_unbound_mutation_absent is never TRUE over a record that
\* changed an authoritative state while its capture, its run binding or its
\* source identity was open, though the builder flags only those of binding
\* "none".
UnboundMutationNeverHidden ==
    Derived("unbound") => \A x \in AllSeen(fold.relation) : x.decides => x.sound

\* The builder's record passes its own checker, which recomputes it, or there is
\* no relation at all.  The exceptions are two: a missing consumption beside an
\* output whose consumption is open, and an observer that is not declared as
\* one or has authority, which the builder copies from its inputs as it is.
SelfCheckPasses ==
    build.pc = "rejected" =>
        LET rec == Record(build.in)
        IN  \/ /\ \E r \in rec.relations : r.status = "downstream_consumption_missing"
               /\ rec.axes.downstream # "complete"
            \/ \E o \in rec.observations : ~ObserverBoundaryHolds(o)

\* A fold derives gates only from a status and a relation that were on disk
\* together, and the status is the one it digested.
FoldedFromOneMoment ==
    fold.pc \in {"derive", "write", "check"} =>
        fold.together /\ fold.status = fold.snapshot.status

\* An output no fold vouched for stays on disk only if a fold was killed
\* between its write and its last look at the inputs.
UncheckedOnlyAfterKill ==
    origin = "unchecked" /\ fold.pc # "check" => killed

\* Over any sequence of folds, a candidate gate of the status once set never
\* changes: a relation that says otherwise is refused, and a fold whose status
\* moved meanwhile withdraws its output.
GatesNeverFlip ==
    [][\A g \in GateIds : status[g] # None => status'[g] = status[g]]_vars
=============================================================================
