--------------------------- MODULE MCRelationFold ---------------------------
(***************************************************************************)
(* Small inputs for the compute relation.  Each is a good case - the node   *)
(* of the deciding tool, its execution in a packet, the collector that      *)
(* wrote the packet, an expectation for each - with one or two fields of    *)
(* one record changed.                                                      *)
(***************************************************************************)
EXTENDS RelationFold

\* compute_nodes of a report.
Decide == [id |-> "node:decide", observer |-> FALSE, own |-> TRUE, type |-> "tool",
           surface |-> "decide.py", digest |-> "d1", role |-> "transition",
           authority |-> "authoritative", mutates |-> TRUE, binding |-> "complete",
           outputs |-> "consumed"]

Advise == [Decide EXCEPT !.id = "node:advise", !.surface = "advise.py", !.digest = "a1",
                         !.role = "advisory", !.authority = "advisory", !.mutates = TRUE,
                         !.outputs = "none"]

\* The analyzer's own node runs under its own key.
Analyzer == [Decide EXCEPT !.id = "node:analyzer", !.observer = TRUE, !.own = FALSE,
                           !.type = "observer_execution", !.surface = "analyze.py",
                           !.digest = "o1", !.role = "observer", !.authority = "advisory",
                           !.outputs = "none"]

Decides ==
    {Decide,
     [Decide EXCEPT !.digest = "d2"], [Decide EXCEPT !.digest = None],
     [Decide EXCEPT !.role = "evidence"], [Decide EXCEPT !.role = "unknown"],
     [Decide EXCEPT !.authority = "advisory"],
     [Decide EXCEPT !.binding = "partial"], [Decide EXCEPT !.binding = "none"],
     [Decide EXCEPT !.binding = "unknown"],
     [Decide EXCEPT !.binding = "none", !.digest = None],
     [Decide EXCEPT !.outputs = "unconsumed"], [Decide EXCEPT !.outputs = "incomplete"],
     [Decide EXCEPT !.outputs = "unconsumed", !.digest = "d2"],
     [Decide EXCEPT !.outputs = "unconsumed", !.role = "evidence"],
     [Decide EXCEPT !.type = "artifact_builder"], [Decide EXCEPT !.surface = "other.py"]}

NodeSets ==
    {{}} \cup {{n} : n \in Decides}
    \cup {{Decide, Analyzer}, {Decide, Advise}, {Advise},
          {Decide, [Decide EXCEPT !.id = "node:again"]},
          {Decide, [Decide EXCEPT !.outputs = "unconsumed"]},
          {Decide, [Analyzer EXCEPT !.authority = "authoritative"]},
          {[Decide EXCEPT !.outputs = "unconsumed"], [Advise EXCEPT !.outputs = "incomplete"]},
          {[Decide EXCEPT !.binding = "none"], [Analyzer EXCEPT !.own = TRUE]}}

Report(level, nodes) == [level |-> level, nodes |-> nodes]

\* Runtime packets.
DecideStep == [id |-> "execution:decide", observer |-> FALSE, own |-> TRUE, step |-> "decide",
               type |-> "tool", surface |-> "decide.py", digest |-> "d1",
               role |-> "transition", authority |-> "authoritative", mutates |-> TRUE,
               capture |-> "complete", bound |-> TRUE, outputs |-> "consumed"]

Collector == [DecideStep EXCEPT !.id = "execution:collector", !.observer = TRUE,
                                !.step = "collect", !.type = "observer_execution",
                                !.surface = "collect.py", !.digest = "c1",
                                !.role = "observer", !.authority = "advisory",
                                !.outputs = "none"]

Call == [id |-> "call:judge", parent |-> "execution:decide", kind |-> "model_inference",
         surface |-> "judge", digest |-> "m1", capture |-> "complete", mutates |-> FALSE,
         outputs |-> "none"]

Packet(id, seq, previous, state, executions, children) ==
    [id |-> id, seq |-> seq, previous |-> previous, status |-> state,
     executions |-> executions, children |-> children]

First(state, executions, children) ==
    Packet("p0", 0, None, state, {Collector} \cup executions, children)

Second(previous, executions) ==
    Packet("p1", 1, previous, "complete", {Collector} \cup executions, {})

Steps ==
    {DecideStep, [DecideStep EXCEPT !.digest = "d2"], [DecideStep EXCEPT !.digest = None],
     [DecideStep EXCEPT !.capture = "partial"], [DecideStep EXCEPT !.capture = "unknown"],
     [DecideStep EXCEPT !.bound = FALSE], [DecideStep EXCEPT !.step = "other"],
     [DecideStep EXCEPT !.outputs = "unconsumed"], [DecideStep EXCEPT !.role = "unknown"],
     [DecideStep EXCEPT !.role = "observer"]}

Lists ==
    {<<First("complete", {s}, {})>> : s \in Steps}
    \cup {<<First(state, {DecideStep}, {})>> : state \in {"partial", "unknown"}}
    \cup {<<First("complete", {DecideStep}, {c})>> :
            c \in {Call, [Call EXCEPT !.digest = None, !.kind = "external_service_call"]}}
    \cup {<<Packet("p0", 0, None, "complete",
                   {[Collector EXCEPT !.own = FALSE], DecideStep}, {})>>}
    \cup {<<Second("p0", {DecideStep}), First("complete", {}, {})>>,
          <<Second("px", {DecideStep}), First("complete", {}, {})>>,
          <<Second("p0", {DecideStep})>>, <<Second(None, {DecideStep})>>,
          <<First("complete", {DecideStep, [DecideStep EXCEPT !.outputs = "unconsumed"]}, {})>>,
          <<First("complete", {DecideStep}, {}), First("complete", {DecideStep}, {})>>,
          <<First("complete", {DecideStep}, {}), Second("p0", {[DecideStep EXCEPT !.digest = "d2"]})>>,
          <<First("complete", {DecideStep, [DecideStep EXCEPT !.id = "execution:retry"]}, {})>>}

\* Expectations.
WantDecide == [id |-> <<"explicit", "decide">>, kind |-> "planned_execution_expected",
               operations |-> {"op"}, surface |-> "decide.py", digest |-> "d1",
               tool |-> "decide.py", step |-> None, type |-> "tool",
               role |-> "transition", authority |-> "authoritative", downstream |-> FALSE]

Consuming(e) ==
    [e EXCEPT !.kind = "planned_execution_and_consumption_expected", !.downstream = TRUE]

WantAdvice == [WantDecide EXCEPT !.id = <<"explicit", "advise">>, !.surface = "advise.py",
                                 !.digest = "a1", !.tool = "advise.py", !.role = "advisory",
                                 !.authority = None]

WantCollector == [WantDecide EXCEPT !.id = <<"explicit", "collector">>,
                                    !.surface = "collect.py", !.digest = "c1", !.tool = None,
                                    !.step = "collect", !.type = "observer_execution",
                                    !.role = "observer", !.authority = "advisory"]

WantJudge == [WantDecide EXCEPT !.id = <<"explicit", "judge">>, !.surface = "judge",
                                !.digest = None, !.tool = "judge", !.type = "model_inference",
                                !.role = None, !.authority = None]

ExpectationSets ==
    {{}, {WantDecide}, {Consuming(WantDecide)}, {Consuming(WantDecide), WantAdvice},
     {[WantDecide EXCEPT !.surface = None, !.digest = None]},
     {[WantDecide EXCEPT !.digest = None, !.role = None]},
     {WantDecide, [WantDecide EXCEPT !.id = <<"explicit", "twice">>]},
     {[WantDecide EXCEPT !.operations = {"gone"}]},
     {[WantDecide EXCEPT !.id = <<"presence", "op">>, !.operations = {}]}}

RuntimeExpectationSets ==
    {{WantDecide, WantCollector}, {Consuming(WantDecide), WantCollector},
     {[WantDecide EXCEPT !.step = "decide", !.tool = None], WantCollector},
     {WantDecide, WantCollector, WantJudge}, {WantDecide}}

Scene(expectations, reports, supplies) ==
    [operations |-> {"op"}, expectations |-> expectations, reports |-> reports,
     supplies |-> supplies]

ArtifactScenes ==
    {Scene(e, {Report("artifact_observed", n)}, {<<>>}) : e \in ExpectationSets, n \in NodeSets}

RuntimeScenes ==
    {Scene(e, {Report("runtime_observed", n)}, {l}) :
        e \in RuntimeExpectationSets, n \in {{}, {Decide}, {[Decide EXCEPT !.digest = "d2"]}},
        l \in Lists}

\* Files that move under the tools: two reports, with and without packets.
MovingScenes ==
    {Scene({WantDecide}, {Report("artifact_observed", {Decide}),
                          Report("artifact_observed", {[Decide EXCEPT !.digest = "d2"]})}, {<<>>}),
     Scene({Consuming(WantDecide)},
           {Report("artifact_observed", {Decide}), Report("artifact_observed", {Decide, Analyzer})},
           {<<>>}),
     Scene({WantDecide, WantCollector},
           {Report("runtime_observed", {Decide}), Report("structural_declared", {Decide})},
           {<<>>, <<First("complete", {DecideStep}, {})>>, <<Second("p0", {DecideStep})>>})}

MCScenes == ArtifactScenes \cup RuntimeScenes \cup MovingScenes
=============================================================================
