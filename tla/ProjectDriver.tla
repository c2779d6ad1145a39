---------------------------- MODULE ProjectDriver ----------------------------
(***************************************************************************)
(* workflows/project_driver.py: the pure decision function of the          *)
(* software-project template.  A ProjectState is a record                  *)
(*   [phase, blocker, tasks, pr, dossier]                                  *)
(* with the phases of its child tasks, by task id, in `tasks` and whether  *)
(* pr_url is set in `pr`.                                                  *)
(***************************************************************************)
EXTENDS ProposalGate

\* The unconditional part of next_project_phase.
ProjectLine ==
    [PROJECT_INTAKE_ASSIGNED |-> "PLANNING",
     PLANNING                |-> "PLAN_REVIEW",
     PLAN_REVIEW             |-> "TASK_BREAKDOWN",
     PLAN_RETHINK            |-> "TASK_BREAKDOWN",
     REVIEW_REQUESTED        |-> "REVIEW_WAIT",
     FINAL_REPORT            |-> "DONE"]

TaskPhasesOf(s) == {s.tasks[t] : t \in DOMAIN s.tasks}

\* Fault variant: one completed task is enough.
AfterExecutionAny(s) ==
    IF "RESCOPE_REQUESTED" \in TaskPhasesOf(s) THEN "PLAN_RETHINK"
    ELSE IF "COMPLETE" \in TaskPhasesOf(s) THEN "PR_OPEN"
    ELSE "TASK_EXECUTION"

\* Fault variant: a rescope is not looked for.
AfterExecutionNoRescope(s) ==
    IF TaskPhasesOf(s) \subseteq {"COMPLETE"} THEN "PR_OPEN" ELSE "TASK_EXECUTION"

\* A rescope comes before everything; no task at all counts as all complete.
AfterExecution(s) ==
    IF "RESCOPE_REQUESTED" \in TaskPhasesOf(s) THEN "PLAN_RETHINK"
    ELSE IF TaskPhasesOf(s) \subseteq {"COMPLETE"} THEN "PR_OPEN"
    ELSE "TASK_EXECUTION"

\* next_project_phase of a project without a blocker
NextProjectPhase(s) ==
    IF s.phase \in DOMAIN ProjectLine THEN ProjectLine[s.phase]
    ELSE IF s.phase = "TASK_BREAKDOWN" /\ DOMAIN s.tasks # {} THEN "TASK_EXECUTION"
    ELSE IF s.phase = "TASK_EXECUTION" THEN AfterExecution(s)
    ELSE IF s.phase = "PR_OPEN" /\ s.pr THEN "REVIEW_REQUESTED"
    ELSE s.phase

\* Fault variant: the plan is reported reviewed once more.
ProjectSignalStale(from, to) ==
    IF to = "PLAN_RETHINK" THEN "TASK_RESCOPE_REQUESTED"
    ELSE [PROJECT_INTAKE_ASSIGNED |-> "PROJECT_ACCEPTED",
          PLANNING       |-> "PLAN_CREATED",
          PLAN_REVIEW    |-> "PLAN_APPROVED",
          PLAN_RETHINK   |-> "PLAN_APPROVED",
          TASK_BREAKDOWN |-> "TASKS_CREATED",
          TASK_EXECUTION |-> "TASK_COMPLETED",
          PR_OPEN        |-> "PR_CREATED"][from]

\* PROJECT_TRANSITION_SIGNALS, of the transitions that are not waits or the end
ProjectSignal(from, to) ==
    IF to = "PLAN_RETHINK" THEN "TASK_RESCOPE_REQUESTED"
    ELSE [PROJECT_INTAKE_ASSIGNED |-> "PROJECT_ACCEPTED",
          PLANNING       |-> "PLAN_CREATED",
          PLAN_REVIEW    |-> "PLAN_APPROVED",
          PLAN_RETHINK   |-> "PLAN_REVISED",
          TASK_BREAKDOWN |-> "TASKS_CREATED",
          TASK_EXECUTION |-> "TASK_COMPLETED",
          PR_OPEN        |-> "PR_CREATED"][from]

\* _driver_authorization_for_decision: the decision carries the authorization.
CarriesAuthorization(next, in) ==
    in.testMode /\ next \in AuthorizedPhases /\ in.auth # None

\* The DONE branch is also taken by a project that is DONE, and then without a
\* signal.  (The report's references, evidence of the decision, are left out.)
DoneDecision(s) ==
    IF AcceptanceOK(s.dossier)
    THEN Move(s.phase, "DONE",
              IF s.phase = "FINAL_REPORT" THEN "FINAL_REPORT_DELIVERED" ELSE None,
              FALSE, {}, "DONE")
    ELSE Block(s.phase, "BLOCKED_NEEDS_ZO_EL",
               [owner |-> "human_approver", category |-> "human_authority",
                blockedPhase |-> s.phase, resume |-> "FINAL_REPORT",
                options |-> {"FINAL_REPORT", "PLAN_RETHINK"}])

\* decide_next_project_transition with the arguments
\*   in = [wait, trigger, candidate, auth, testMode]
\* None where it raises ValueError.  A blocked project passes no gate: no
\* blocked phase is a gated one.
DecideProject(s, in) ==
    LET next     == NextProjectPhase(s)
        failures == GateFailures(s.dossier, s.phase, next, in.candidate, in.auth, in.testMode)
        blocker  == GateBlocker(s.phase, failures)
    IN  IF s.blocker # None THEN BlockedDecision(s.phase, s.blocker, in.wait)
        ELSE IF failures # {} THEN Block(s.phase, BlockedPhaseFor(blocker.owner), blocker)
        ELSE IF next = "DONE" THEN DoneDecision(s)
        ELSE IF s.phase = "REVIEW_REQUESTED" THEN ReviewDecision(in.wait, in.trigger)
        ELSE IF next = s.phase THEN WaitOrRaise(s.phase, next, in.wait, None)
        ELSE Move(s.phase, next, ProjectSignal(s.phase, next),
                  CarriesAuthorization(next, in), {}, None)
=============================================================================
