------------------------------ MODULE ProjectHost ------------------------------
(***************************************************************************)
(* One software project under the project driver: its record, the dossier  *)
(* its gates look at, and its child tasks.  As in TaskHost, the host that  *)
(* ticks the driver and records its decisions is not in the repository; it *)
(* does what docs/workflows/software_project_driver.md leaves to it:       *)
(*   - it reads the ProjectState off the record before every tick;         *)
(*   - it keeps the dossier: discovery, approval, binding, report;         *)
(*   - it runs the child tasks and plans new ones;                         *)
(*   - it records the transitions the driver has no rule for;              *)
(*   - it no longer ticks a project that has ended.                        *)
(***************************************************************************)
EXTENDS ProjectDriver

CONSTANTS
    Tasks,                                       \* ids of child tasks
    Discoveries, Approvals, Bindings, Reports,   \* what a dossier may hold
    Candidates, Auths,                           \* what a tick may be given
    Required,      \* proposal_required
    TestMode,      \* driver_test_mode
    Routes,        \* <<from, to, signal>> the host records by itself
    MaxBlocks      \* bound: blockers recorded in one run

ASSUME ProjectAssumption ==
    /\ Kind = "project" /\ BlockedPhases = BlockedNames
    /\ Required \in BOOLEAN /\ TestMode \in BOOLEAN
    /\ MaxBlocks \in Nat

\* The phases of a project that is, or has been, in execution.
BuiltPhases ==
    ProjectPhases \ (BlockedNames \cup {"PROJECT_INTAKE_ASSIGNED", "PLANNING", "PLAN_REVIEW",
                                        "PLAN_RETHINK", "TASK_BREAKDOWN"})

\* No host takes a project into execution by itself.
ASSUME RouteAssumption == \A r \in Routes : r[2] \in BuiltPhases => r[1] \in BuiltPhases

\* A blocker of the driver is told apart from none.
ASSUME RaisedAssumption ==
    None \notin [owner : Roles, category : {"process", "human_authority"},
                 blockedPhase : ProjectPhases, resume : ProjectPhases,
                 options : SUBSET ProjectPhases]

ASSUME DossierAssumption ==
    /\ \A d \in Discoveries : IsDiscovery(d)
    /\ \A a \in Approvals : IsApproval(a)
    /\ \A b \in Bindings : IsBinding(b)
    /\ \A r \in Reports : IsReport(r)
    /\ \A t \in Candidates : IsTarget(t)
    /\ \A a \in Auths : IsAuthorization(a)

VARIABLES
    record,   \* the WorkflowStateRecord of the project
    dossier,  \* proposal evidence, see ProposalGate
    tasks,    \* the phase of every child task, None while it does not exist
    pr,       \* pr_url is set
    blocks,   \* history: blockers recorded so far
    built     \* history: what the last gated entry of the driver was given

vars == <<record, dossier, tasks, pr, blocks, built>>

Ended == record.terminal # None

Project ==
    [phase   |-> record.phase,
     blocker |-> record.blocker,
     tasks   |-> [t \in {u \in Tasks : tasks[u] # None} |-> tasks[t]],
     pr      |-> pr,
     dossier |-> dossier]

Inputs ==
    [wait : Optional(Waits), trigger : Optional(Verdicts),
     candidate : Optional(Candidates), auth : Optional(Auths), testMode : {TestMode}]

Init ==
    /\ record = FreshState("PROJECT_INTAKE_ASSIGNED")
    /\ dossier = [required |-> Required, discovery |-> None, approval |-> None,
                  binding |-> None, report |-> None]
    /\ tasks = [t \in Tasks |-> None]
    /\ pr = FALSE
    /\ blocks = 0
    /\ built = [candidate |-> None, version |-> None]

Record(d) ==
    /\ CanApply(record, d)
    /\ record' = Apply(record, d)
    /\ blocks' = blocks + (IF d.blocker \notin {None, record.blocker} THEN 1 ELSE 0)
    /\ blocks' <= MaxBlocks

Tick(in) ==
    /\ ~Ended
    /\ LET d == DecideProject(Project, in)
       IN  /\ d # None
           /\ Record(d)
           /\ built' = IF d.to = "TASK_EXECUTION" /\ d.to # d.from
                       THEN [candidate |-> in.candidate,
                             version   |-> IF d.auth THEN in.auth.version ELSE None]
                       ELSE built
    /\ UNCHANGED <<dossier, tasks, pr>>

\* A transition the driver has no rule for: reviews, feedback, gates.
Route(from, to, signal) ==
    /\ ~Ended
    /\ record.phase = from
    /\ Record(Move(from, to, signal, FALSE, {}, None))
    /\ UNCHANGED <<dossier, tasks, pr, built>>

Resolve(to) ==
    /\ ~Ended
    /\ record.phase \in BlockedPhases
    /\ Record(Move(record.phase, to, "BLOCKER_RESOLVED", FALSE, {}, None))
    /\ UNCHANGED <<dossier, tasks, pr, built>>

\* The plan is made of tasks again: those that are missing or asked for a rescope.
PlanTasks ==
    /\ record.phase \in {"TASK_BREAKDOWN", "PLAN_RETHINK"}
    /\ \E t \in Tasks : tasks[t] \in {None, "RESCOPE_REQUESTED"}
    /\ tasks' = [t \in Tasks |-> IF tasks[t] \in {None, "RESCOPE_REQUESTED"}
                                 THEN "TASK_ASSIGNED" ELSE tasks[t]]
    /\ UNCHANGED <<record, dossier, pr, blocks, built>>

\* A child task returns.
ReturnTask(t, phase) ==
    /\ record.phase = "TASK_EXECUTION"
    /\ tasks[t] = "TASK_ASSIGNED"
    /\ tasks' = [tasks EXCEPT ![t] = phase]
    /\ UNCHANGED <<record, dossier, pr, blocks, built>>

\* The accepted findings become repair work of a task.
RepairTask(t) ==
    /\ record.phase = "FIXING_REVIEW"
    /\ tasks[t] = "COMPLETE"
    /\ tasks' = [tasks EXCEPT ![t] = "TASK_ASSIGNED"]
    /\ UNCHANGED <<record, dossier, pr, blocks, built>>

OpenPR ==
    /\ record.phase = "PR_OPEN"
    /\ ~pr /\ pr' = TRUE
    /\ UNCHANGED <<record, dossier, tasks, blocks, built>>

PlanningPhases == {"PLANNING", "PLAN_REVIEW", "PLAN_RETHINK"}

\* The dossier is revised while the project is being planned.
Revise(field, values) ==
    /\ record.phase \in PlanningPhases
    /\ \E v \in values : dossier' = [dossier EXCEPT ![field] = v]
    /\ UNCHANGED <<record, tasks, pr, blocks, built>>

ReviseDossier ==
    \/ Revise("discovery", Discoveries)
    \/ Revise("approval", Approvals)
    \/ Revise("binding", Bindings)

FileReport ==
    /\ record.phase \in {"FINAL_REPORT", "DONE", "BLOCKED_NEEDS_ZO_EL"}
    /\ \E r \in Reports : dossier' = [dossier EXCEPT !.report = r]
    /\ UNCHANGED <<record, tasks, pr, blocks, built>>

Next ==
    \/ \E in \in Inputs : Tick(in)
    \/ \E r \in Routes : Route(r[1], r[2], r[3])
    \/ \E to \in TemplatePhases : Resolve(to)
    \/ PlanTasks
    \/ \E t \in Tasks : \/ \E p \in {"COMPLETE", "RESCOPE_REQUESTED"} : ReturnTask(t, p)
                        \/ RepairTask(t)
    \/ OpenPR
    \/ ReviseDossier
    \/ FileReport

Spec == Init /\ [][Next]_vars

-----------------------------------------------------------------------------

Answers == {DecideProject(Project, in) : in \in Inputs} \ {None}

\* The driver's answer is a decision pydantic builds and apply_decision accepts.
\* (project_driver.py:143-304)
DriverDecisionsApply == \A d \in Answers : ContractOK(d) /\ CanApply(record, d)

\* Driver and template disagree on a blocker for the phase after REVIEW_REQUESTED,
\* on a blocker out of FINAL_REPORT or DONE, on a wait where the phase has none or
\* whose threshold the phase's owners do not cover, on a blocker recorded again.
OutsideTemplate(d) ==
    \/ d.blocker # None /\ d.blocker.blockedPhase # d.from
    \/ d.blocker # None /\ d.from \in {"FINAL_REPORT", "DONE"}
    \/ d.wait # None /\ d.from \notin Waiting
    \/ d.wait # None /\ d.wait.response = "BLOCKED_NEEDS_EL_LE"
       /\ d.from \in {"PROOF_AUTH_WAIT", "FEEDBACK_WAIT"}

\* Everywhere else the template admits what the driver decides.
\* (templates.py:275-359 against project_driver.py:143-304)
TemplateAdmitsDriver == \A d \in Answers : PolicyOK(d) <=> ~OutsideTemplate(d)

Sourced(target) ==
    /\ dossier.discovery # None
    /\ \/ \E t \in dossier.discovery.targets : SameSurface(target, t)
       \/ Overlap(dossier.binding.substitutes, dossier.binding.target.refs)

\* What is implemented was approved before: it is the target of a binding that
\* agrees with the approval and goes back to the discovery, or is a substitute
\* named in it.  (proposal.py:110-179, 271-297, 446-458)
ImplementationIsApproved ==
    Required /\ record.phase = "TASK_EXECUTION" =>
        /\ built.candidate # None
        /\ SameSurface(built.candidate, dossier.binding.target)
        /\ Sourced(built.candidate)
        /\ dossier.approval # None
        /\ dossier.approval.proposal = dossier.binding.proposal

\* Under driver test, review is requested only for work whose implementation was
\* authorized under the version that is approved at that time.
\* (proposal.py:460-478)
ReviewedIsAuthorized ==
    TestMode /\ record.phase = "REVIEW_REQUESTED" /\ dossier.binding # None =>
        built.version = dossier.binding.version

\* What DONE accepts is what was built, or a surface approved as its substitute,
\* and the report proves every criterion the human approved.
\* (proposal.py:300-352, project_driver.py:204-252)
DoneIsBuilt ==
    [][ Required /\ record.terminal = None /\ record'.terminal = "DONE" =>
            /\ \/ SameSurface(dossier.report.target, built.candidate)
               \/ \E s \in dossier.binding.surfaces : SameSurface(dossier.report.target, s)
            /\ dossier.approval.criteria \subseteq dossier.report.satisfied ]_vars

\* A blocker of the project is for one person: the actor the escalation policy
\* names by its category, and the one whose blocked phase the project sits in by
\* the role of its owner.  The phase that status says it resumes in is one that
\* apply_decision lets it resume in; models.py:306-310 does not ask for that.
\* (escalation.py:8-16, project_driver.py:34-37, docs/workflow_contract.md:219)
BlockersAreRouted ==
    record.blocker # None =>
        /\ record.phase = (IF EscalationOwner(record.blocker) = "EL_LE"
                           THEN "BLOCKED_NEEDS_EL_LE" ELSE "BLOCKED_NEEDS_ZO_EL")
        /\ record.blocker.resume \in record.blocker.options

\* The audit of a snapshot rejects what the gates would reject.  It holds in
\* every audited phase but PR_OPEN.  (proposal.py:355-401)
AuditCovers(phases) ==
    record.phase \in phases =>
        \A candidate \in Optional(Candidates), auth \in Optional(Auths) :
            AuditOK(dossier, record.phase, candidate, auth, TestMode) =>
                /\ TestMode => AuthorizationOK(dossier, auth)
                /\ Required => candidate # None /\ SameSurface(candidate, dossier.binding.target)

AuditRepeatsGates == AuditCovers(AuditedPhases \ {"PR_OPEN"})
=============================================================================
