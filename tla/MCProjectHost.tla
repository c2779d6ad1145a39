---------------------------- MODULE MCProjectHost ----------------------------
(* A live target and a preview of it, two proposals, two binding versions, and *)
(* dossiers that agree, disagree, or bring in the preview as a substitute.     *)
EXTENDS ProjectHost

MCPhases == ProjectPhases \cup {"COMPLETE", "FAILED", "CANCELLED"}

MCWaits == {[response |-> "BLOCKED_NEEDS_EL_LE"]}

\* Every blocker a run can record; no property looks at more of them.
MCBlockers ==
    {GateBlocker(p, {}) : p \in ProjectPhases}
    \cup {TriggerBlocker(v, "REVIEW_WAIT") : v \in Verdicts \ {"READY"}}

Target(surface, refs) == [surface |-> surface, refs |-> refs]
Live       == Target("live", {"found"})
Preview    == Target("preview", {"found"})
Substitute == Target("preview", {"approved"})

MCDiscoveries ==
    {[targets |-> {Live}, gate |-> g, refs |-> {"found"}] :
        g \in {"PLAN_REVIEW", "BLOCKED_NEEDS_EL_LE"}}

MCApprovals ==
    {[proposal |-> "q1", criteria |-> {"c1", "c2"}],
     [proposal |-> "q2", criteria |-> {"c1"}]}

Binding(version, target, surfaces, substitutes) ==
    [version |-> version, target |-> target, proposal |-> "q1",
     criteria |-> {"c1", "c2"}, surfaces |-> surfaces,
     substitutes |-> substitutes, cites |-> {"found"}]

MCBindings ==
    {Binding("v1", Live, {}, {}),
     Binding("v1", Live, {Substitute}, {"approved"}),
     Binding("v2", Substitute, {}, {"approved"}),
     Binding("v2", Preview, {}, {"approved"})}

Report(version, target, satisfied, cites) ==
    [version |-> version, target |-> target, satisfied |-> satisfied,
     unsatisfied |-> {"c1", "c2"} \ satisfied, live |-> TRUE, cites |-> cites]

MCReports ==
    {Report("v1", Live, {"c1", "c2"}, {}),
     Report("v1", Live, {"c1"}, {}),
     Report("v1", Substitute, {"c1", "c2"}, {"approved"}),
     Report("v2", Substitute, {"c1", "c2"}, {})}

MCCandidates == {Live, Preview}

MCAuths ==
    {[version |-> v, developer |-> TRUE, supervisor |-> FALSE] : v \in {"v1", "v2"}}
    \cup {[version |-> "v1", developer |-> FALSE, supervisor |-> FALSE]}

MCRoutes ==
    {<<"REVIEW_WAIT", "FEEDBACK_READY", "REVIEW_COMPLETED">>,
     <<"REVIEW_WAIT", "FIXING_REVIEW", "REVIEW_COMPLETED">>,
     <<"FIXING_REVIEW", "TASK_EXECUTION", "REVIEW_FINDINGS_ACCEPTED">>,
     <<"FEEDBACK_READY", "FEEDBACK_WAIT", "FEEDBACK_REQUESTED">>,
     <<"FEEDBACK_WAIT", "FINAL_REPORT", "FEEDBACK_RECEIVED">>,
     <<"FEEDBACK_WAIT", "DOGFOOD_GATE", "FEEDBACK_RECEIVED">>,
     <<"DOGFOOD_GATE", "MERGE_GATE", "DOGFOOD_COMPLETED">>,
     <<"MERGE_GATE", "FINAL_REPORT", "RELEASE_COMPLETED">>}
=============================================================================
