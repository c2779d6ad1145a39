--------------------------- MODULE MCGovernedEngine ---------------------------
(* The project template over a slice of its phases, with the signals, waits   *)
(* and blockers that tell them apart.                                         *)
EXTENDS GovernedEngine

MCWaits == {[response |-> r] : r \in {"BLOCKED_NEEDS_EL_LE", "FAILED"}}

Blocker(owner, blockedPhase, options) ==
    [owner |-> owner, blockedPhase |-> blockedPhase, resume |-> blockedPhase,
     options |-> options]

\* CANCELLED, FAILED and COMPLETE are phases only a terminal decision enters.
MCProjectSlice == {"PLAN_REVIEW", "TASK_EXECUTION", "REVIEW_WAIT", "FINAL_REPORT",
                   "DONE", "COMPLETE", "FAILED", "CANCELLED"} \cup BlockedNames

MCProjectSignals == {"PLAN_APPROVED", "TASK_COMPLETED", "REVIEW_COMPLETED",
                     "FINAL_REPORT_DELIVERED", "WAIT_TIMER_STARTED",
                     "BLOCKER_CREATED", "BLOCKER_RESOLVED"}

MCProjectBlockers ==
    {Blocker("reviewer", "REVIEW_WAIT", {"REVIEW_WAIT"}),
     Blocker("human_approver", "TASK_EXECUTION", {"TASK_EXECUTION", "FINAL_REPORT"}),
     Blocker("human_approver", "BLOCKED_NEEDS_EL_LE", {"FINAL_REPORT"})}
=============================================================================
