-------------------------- MODULE MCWorkflowEngine --------------------------
(* A four-phase template with one blocked phase and two blockers that resume *)
(* to different phases.                                                       *)
EXTENDS WorkflowEngine

MCPhases   == {"PLAN_REVIEW", "TASK_EXECUTION", "BLOCKED_NEEDS_EL_LE", "DONE"}
MCBlocked  == {"BLOCKED_NEEDS_EL_LE"}
MCSignals  == {"PLAN_APPROVED", "WAIT_TIMER_STARTED", "BLOCKER_CREATED", "BLOCKER_RESOLVED"}
MCBlockers == {[id |-> 1, options |-> {"PLAN_REVIEW"}],
               [id |-> 2, options |-> {"PLAN_REVIEW", "TASK_EXECUTION"}]}
=============================================================================
