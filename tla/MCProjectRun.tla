----------------------------- MODULE MCProjectRun -----------------------------
(* The project of MCProjectHost without a dossier, with a workflow per task.  *)
EXTENDS ProjectRun

MCPhases == ProjectPhases \cup {"COMPLETE", "FAILED", "CANCELLED"}

MCWaits == {[response |-> "BLOCKED_NEEDS_EL_LE"]}

MCBlockers == {TriggerBlocker(v, "REVIEW_WAIT") : v \in Verdicts \ {"READY"}}

MCNothing == {}

MCRoutes ==
    {<<"REVIEW_WAIT", "FEEDBACK_READY", "REVIEW_COMPLETED">>,
     <<"REVIEW_WAIT", "FIXING_REVIEW", "REVIEW_COMPLETED">>,
     <<"FIXING_REVIEW", "TASK_EXECUTION", "REVIEW_FINDINGS_ACCEPTED">>,
     <<"FEEDBACK_READY", "FEEDBACK_WAIT", "FEEDBACK_REQUESTED">>,
     <<"FEEDBACK_WAIT", "FINAL_REPORT", "FEEDBACK_RECEIVED">>,
     <<"FEEDBACK_WAIT", "MERGE_GATE", "FEEDBACK_RECEIVED">>,
     <<"MERGE_GATE", "FINAL_REPORT", "RELEASE_COMPLETED">>}
=============================================================================
