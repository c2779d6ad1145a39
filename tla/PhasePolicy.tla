----------------------------- MODULE PhasePolicy -----------------------------
(***************************************************************************)
(* policies/templates.py and policies/progress.py: which decisions the     *)
(* software-project and the software-task template admit from each phase.  *)
(*                                                                         *)
(* A template is given by relations instead of one PhasePolicy object per  *)
(* phase: <<phase, signal>> for the progress signals, the phases that      *)
(* allow controlled waits (their wait set is always _CONTROLLED_WAIT),     *)
(* <<phase, role>> for the blocker owners, <<phase, outcome>> for the      *)
(* terminal outcomes.                                                      *)
(*                                                                         *)
(* Here a Blocker is a record [owner, blockedPhase, resume, options] and a *)
(* WaitPolicy a record with at least the field "response".                 *)
(***************************************************************************)
EXTENDS EngineContract

CONSTANT Kind  \* the DriverKind: "project" or "task"

Roles == {"project_intake_owner", "developer", "reviewer", "proof_runner",
          "process_steward", "human_approver"}

ThresholdResponses ==
    {"BLOCKED_NEEDS_EL_LE", "BLOCKED_NEEDS_ZO_EL", "RETRY_SCHEDULED", "FAILED"}

\* policies/progress.py: every ProgressSignal but the two controlled waits.
MaterialSignals ==
    {"PROJECT_ACCEPTED", "PLAN_CREATED", "PLAN_REVIEW_REQUESTED", "PLAN_APPROVED",
     "PLAN_REVISED", "TASKS_CREATED", "TASK_STARTED", "TASK_COMPLETED", "TASK_FAILED",
     "TASK_CANCELLED", "TASK_RESCOPE_REQUESTED", "PR_CREATED", "PR_UPDATED",
     "PR_HEAD_CHANGED", "TEST_EVIDENCE_CREATED", "PROOF_AUTH_REQUESTED",
     "PROOF_STARTED", "PROOF_EVIDENCE_CREATED", "PROOF_COMPLETED",
     "PROOF_REPAIR_REQUIRED", "REVIEW_REQUESTED", "REVIEW_STARTED",
     "REVIEW_COMPLETED", "REVIEW_FINDINGS_ACCEPTED", "REVIEW_FINDINGS_FIXED",
     "FEEDBACK_REQUESTED", "FEEDBACK_RECEIVED", "DOGFOOD_STARTED",
     "DOGFOOD_COMPLETED", "MERGE_READY", "RELEASE_COMPLETED", "BLOCKER_CREATED",
     "BLOCKER_ESCALATED", "BLOCKER_RESOLVED", "FINAL_REPORT_DELIVERED"}

\* "No signal" is not one of them.
ASSUME SignalAssumption == None \notin MaterialSignals \cup WaitSignals

ProcessOrHuman == {"process_steward", "human_approver"}
BlockedNames   == {"BLOCKED_NEEDS_EL_LE", "BLOCKED_NEEDS_ZO_EL"}

-----------------------------------------------------------------------------
(* PROJECT_PHASE_POLICIES *)

ProjectPhases ==
    {"PROJECT_INTAKE_ASSIGNED", "PLANNING", "PLAN_REVIEW", "PLAN_RETHINK",
     "TASK_BREAKDOWN", "TASK_EXECUTION", "PR_OPEN", "REVIEW_REQUESTED",
     "REVIEW_WAIT", "FIXING_REVIEW", "PROOF_AUTH_WAIT", "PROOF_RUNNING",
     "PROOF_REPAIR", "FEEDBACK_READY", "FEEDBACK_WAIT", "DOGFOOD_GATE",
     "MERGE_GATE", "FINAL_REPORT", "DONE"} \cup BlockedNames

ProjectProgress ==
    ({"PROJECT_INTAKE_ASSIGNED"} \X {"PROJECT_ACCEPTED"})
    \cup ({"PLANNING"}         \X {"PLAN_CREATED"})
    \cup ({"PLAN_REVIEW"}      \X {"PLAN_APPROVED", "PLAN_REVISED"})
    \cup ({"PLAN_RETHINK"}     \X {"PLAN_REVISED"})
    \cup ({"TASK_BREAKDOWN"}   \X {"TASKS_CREATED"})
    \cup ({"TASK_EXECUTION"}   \X {"TASK_COMPLETED", "TASK_RESCOPE_REQUESTED"})
    \cup ({"PR_OPEN"}          \X {"PR_CREATED", "PR_UPDATED", "PR_HEAD_CHANGED"})
    \cup ({"REVIEW_REQUESTED"} \X {"REVIEW_REQUESTED"})
    \cup ({"REVIEW_WAIT"}      \X {"REVIEW_STARTED", "REVIEW_COMPLETED"})
    \cup ({"FIXING_REVIEW"}    \X {"REVIEW_FINDINGS_ACCEPTED", "REVIEW_FINDINGS_FIXED", "PR_UPDATED"})
    \cup ({"PROOF_AUTH_WAIT"}  \X {"PROOF_AUTH_REQUESTED"})
    \cup ({"PROOF_RUNNING"}    \X {"PROOF_STARTED", "PROOF_EVIDENCE_CREATED", "PROOF_COMPLETED"})
    \cup ({"PROOF_REPAIR"}     \X {"PROOF_REPAIR_REQUIRED", "PROOF_EVIDENCE_CREATED", "PROOF_COMPLETED"})
    \cup ({"FEEDBACK_READY"}   \X {"FEEDBACK_REQUESTED"})
    \cup ({"FEEDBACK_WAIT"}    \X {"FEEDBACK_RECEIVED"})
    \cup ({"DOGFOOD_GATE"}     \X {"DOGFOOD_STARTED", "DOGFOOD_COMPLETED"})
    \cup ({"MERGE_GATE"}       \X {"MERGE_READY", "RELEASE_COMPLETED"})
    \cup ({"FINAL_REPORT"}     \X {"FINAL_REPORT_DELIVERED"})
    \cup (BlockedNames         \X {"BLOCKER_RESOLVED"})

ProjectWaiting ==
    {"PLAN_REVIEW", "TASK_EXECUTION", "REVIEW_REQUESTED", "REVIEW_WAIT",
     "PROOF_AUTH_WAIT", "PROOF_RUNNING", "FEEDBACK_WAIT"} \cup BlockedNames

ProjectOwners ==
    ({"PROJECT_INTAKE_ASSIGNED", "PLANNING", "PLAN_RETHINK", "FEEDBACK_READY"} \X ProcessOrHuman)
    \cup ({"PLAN_REVIEW"} \X (ProcessOrHuman \cup {"reviewer"}))
    \cup ({"TASK_BREAKDOWN", "TASK_EXECUTION", "PR_OPEN", "FIXING_REVIEW"}
            \X (ProcessOrHuman \cup {"developer"}))
    \cup ({"REVIEW_REQUESTED", "REVIEW_WAIT"} \X {"reviewer", "process_steward"})
    \cup ({"PROOF_RUNNING", "PROOF_REPAIR"} \X (ProcessOrHuman \cup {"proof_runner"}))
    \cup ({"PROOF_AUTH_WAIT", "FEEDBACK_WAIT", "DOGFOOD_GATE", "MERGE_GATE"} \X {"human_approver"})
    \cup (BlockedNames \X Roles)

ProjectTerminal ==
    ({"FINAL_REPORT", "DONE"} \X {"DONE"}) \cup (BlockedNames \X {"CANCELLED"})

(* TASK_PHASE_POLICIES *)

TaskPhases ==
    {"TASK_ASSIGNED", "CLAIMED", "INSPECTING", "IMPLEMENTING", "TESTING",
     "REVIEW_REQUESTED", "REVIEW_WAIT", "FIXING_REVIEW", "RESCOPE_REQUESTED",
     "COMPLETE"} \cup BlockedNames

TaskProgress ==
    ({"TASK_ASSIGNED", "CLAIMED", "INSPECTING"} \X {"TASK_STARTED"})
    \cup ({"IMPLEMENTING"}      \X {"TEST_EVIDENCE_CREATED", "PR_UPDATED"})
    \cup ({"TESTING"}           \X {"REVIEW_REQUESTED", "TEST_EVIDENCE_CREATED"})
    \cup ({"REVIEW_REQUESTED"}  \X {"REVIEW_REQUESTED"})
    \cup ({"REVIEW_WAIT"}       \X {"REVIEW_STARTED", "REVIEW_COMPLETED"})
    \cup ({"FIXING_REVIEW"}     \X {"REVIEW_FINDINGS_ACCEPTED", "REVIEW_FINDINGS_FIXED"})
    \cup ({"RESCOPE_REQUESTED"} \X {"TASK_RESCOPE_REQUESTED"})
    \cup ({"COMPLETE"}          \X {"TASK_COMPLETED"})
    \cup (BlockedNames          \X {"BLOCKER_RESOLVED"})

TaskWaiting == {"REVIEW_REQUESTED", "REVIEW_WAIT"} \cup BlockedNames

TaskOwners ==
    ({"TASK_ASSIGNED", "CLAIMED", "INSPECTING", "IMPLEMENTING", "TESTING", "FIXING_REVIEW"}
        \X (ProcessOrHuman \cup {"developer"}))
    \cup ({"REVIEW_REQUESTED", "REVIEW_WAIT"} \X {"reviewer", "process_steward"})
    \cup (BlockedNames \X Roles)

TaskTerminal ==
    ({"RESCOPE_REQUESTED"} \X {"CANCELLED", "FAILED"})
    \cup ({"COMPLETE"} \X {"DONE"}) \cup (BlockedNames \X {"CANCELLED"})

-----------------------------------------------------------------------------
(* phase_policy_for, for the driver kind at hand *)

TemplatePhases == IF Kind = "project" THEN ProjectPhases   ELSE TaskPhases
Progress       == IF Kind = "project" THEN ProjectProgress ELSE TaskProgress
Waiting        == IF Kind = "project" THEN ProjectWaiting  ELSE TaskWaiting
Owners         == IF Kind = "project" THEN ProjectOwners   ELSE TaskOwners
Terminal       == IF Kind = "project" THEN ProjectTerminal ELSE TaskTerminal

(* classify_run_outcome, with the arguments validate_decision_... passes *)
RunOutcome(d) ==
    IF d.terminal = "DONE" THEN "DONE"
    ELSE IF d.terminal # None THEN "FAILED"
    ELSE IF d.blocker # None \/ d.signal \in BlockedSignals THEN "BLOCKED"
    ELSE IF d.signal \in MaterialSignals THEN "MATERIAL_PROGRESS"
    ELSE IF d.signal \in WaitSignals THEN "CONTROLLED_WAIT"
    ELSE "STALLED"

BlockedPhaseFor(owner) ==
    IF owner = "human_approver" THEN "BLOCKED_NEEDS_ZO_EL" ELSE "BLOCKED_NEEDS_EL_LE"

(* validate_decision_against_phase_policy *)

WaitIsAllowed(d) ==
    d.wait # None => d.signal \in WaitSignals /\ d.from \in Waiting

SignalIsAllowed(d) ==
    d.signal # None =>
        \/ <<d.from, d.signal>> \in Progress
        \/ d.signal \in WaitSignals /\ d.from \in Waiting
        \/ d.signal \in BlockedSignals /\ d.blocker # None

\* The owner a passed threshold hands the wait to.
ThresholdOwner(response) ==
    IF response = "BLOCKED_NEEDS_ZO_EL" THEN "human_approver" ELSE "process_steward"

ThresholdIsAllowed(d) ==
    d.wait # None =>
        /\ d.wait.response = "FAILED" => <<d.from, "FAILED">> \in Terminal
        /\ d.wait.response \in BlockedNames =>
              <<d.from, ThresholdOwner(d.wait.response)>> \in Owners

\* Fault variant: the owner's route is not compared with the target phase.
BlockerIsAllowedAnywhere(d) ==
    d.blocker # None =>
        /\ <<d.from, d.blocker.owner>> \in Owners
        /\ d.blocker.blockedPhase = d.from
        /\ {d.blocker.resume} \cup d.blocker.options \subseteq TemplatePhases \cup Outcomes

BlockerIsAllowed(d) ==
    d.blocker # None =>
        /\ <<d.from, d.blocker.owner>> \in Owners
        /\ d.to = BlockedPhaseFor(d.blocker.owner)
        /\ d.blocker.blockedPhase = d.from
        /\ {d.blocker.resume} \cup d.blocker.options \subseteq TemplatePhases \cup Outcomes

TerminalIsAllowed(d) ==
    d.terminal # None => <<d.from, d.terminal>> \in Terminal

\* Fault variant: a stalled run passes.
PolicyOKWithoutStall(d) ==
    /\ d.from \in TemplatePhases
    /\ WaitIsAllowed(d)
    /\ SignalIsAllowed(d)
    /\ ThresholdIsAllowed(d)
    /\ BlockerIsAllowed(d)
    /\ TerminalIsAllowed(d)

\* The policy admits the decision; a phase without a policy admits none.
PolicyOK(d) ==
    /\ d.from \in TemplatePhases
    /\ WaitIsAllowed(d)
    /\ SignalIsAllowed(d)
    /\ ThresholdIsAllowed(d)
    /\ BlockerIsAllowed(d)
    /\ TerminalIsAllowed(d)
    /\ RunOutcome(d) # "STALLED"
=============================================================================
