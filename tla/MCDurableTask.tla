---------------------------- MODULE MCDurableTask ----------------------------
(* One task with one wait policy, one repair pass, and in two phases a blocker. *)
EXTENDS DurableTask

MCPhases == TaskPhases \cup {"DONE", "FAILED", "CANCELLED"}

MCWaits == {[response |-> "BLOCKED_NEEDS_EL_LE"]}

Report(owner, phase) ==
    [owner |-> owner, blockedPhase |-> phase, resume |-> phase,
     options |-> {phase, "RESCOPE_REQUESTED"}]

MCReported ==
    {Report("human_approver", "IMPLEMENTING"), Report("process_steward", "REVIEW_WAIT")}
    \cup {TriggerBlocker(v, "REVIEW_WAIT") : v \in Verdicts \ {"READY"}}

MCSeeds == {FreshState("TASK_ASSIGNED")}

\* A decision carries a material signal or the one of a wait.
MCSignals == MaterialSignals \cup WaitSignals
=============================================================================
