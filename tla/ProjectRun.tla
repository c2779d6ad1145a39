------------------------------ MODULE ProjectRun ------------------------------
(***************************************************************************)
(* A project together with its child tasks: ProjectHost, whose list of     *)
(* task phases is now fed by child workflows of their own.  A child is a   *)
(* record of the engine and a loop counter, ticked by the task driver; it  *)
(* runs whenever it is assigned, also while its project plans or waits,    *)
(* and the project learns of it only when it returns.  The actions of the  *)
(* project are those of ProjectHost; the actions of a child are, in short, *)
(* those of TaskHost.                                                      *)
(***************************************************************************)
EXTENDS ProjectHost

CONSTANT MaxLoops  \* max_review_loops of every child

T == INSTANCE TaskDriver WITH Kind <- "task"

\* A task that is not planned is told apart from the phase of one that is.
ASSUME ChildAssumption == None \notin TaskPhases

VARIABLE child  \* the child workflows: [record, loops], None before it is planned

runVars == <<vars, child>>

NewChild == [record |-> FreshState("TASK_ASSIGNED"), loops |-> 0]

Returned == {"COMPLETE", "RESCOPE_REQUESTED"}

Working(t) == child[t] # None /\ child[t].record.phase \notin Returned

RunInit == Init /\ child = [t \in Tasks |-> None]

\* A decision is appended to the log of a child.
RecordChild(t, d) ==
    LET c == child[t]
        raised == IF d.blocker \notin {None, c.record.blocker} THEN 1 ELSE 0
    IN  /\ d # None /\ CanApply(c.record, d)
        /\ blocks + raised <= MaxBlocks /\ blocks' = blocks + raised
        /\ child' = [child EXCEPT ![t] =
               [record |-> Apply(c.record, d),
                loops  |-> IF c.record.phase = "FIXING_REVIEW" /\ d.to = "IMPLEMENTING"
                           THEN c.loops + 1 ELSE c.loops]]
        /\ UNCHANGED <<record, dossier, tasks, pr, built>>

TickChild(t, wait, verdict) ==
    /\ Working(t)
    /\ RecordChild(t, T!DecideTask([phase   |-> child[t].record.phase,
                                    blocker |-> child[t].record.blocker,
                                    loops   |-> child[t].loops], wait, verdict))

ReviewChild(t, to) ==
    /\ Working(t) /\ child[t].record.phase = "REVIEW_WAIT"
    /\ RecordChild(t, Move("REVIEW_WAIT", to, "REVIEW_COMPLETED", FALSE, {}, None))

ResolveChild(t) ==
    /\ Working(t) /\ child[t].record.phase \in BlockedPhases
    /\ \E to \in child[t].record.blocker.options :
           RecordChild(t, Move(child[t].record.phase, to, "BLOCKER_RESOLVED", FALSE, {}, None))

\* Tasks are planned, or sent into repair: a new child workflow is started.
StartChildren ==
    child' = [t \in Tasks |-> IF tasks'[t] = "TASK_ASSIGNED" /\ tasks[t] # "TASK_ASSIGNED"
                              THEN NewChild ELSE child[t]]

Plan    == PlanTasks /\ StartChildren
Repair  == (\E t \in Tasks : RepairTask(t)) /\ StartChildren
Returns(t) ==
    /\ child[t] # None
    /\ ReturnTask(t, child[t].record.phase)
    /\ child[t].record.phase \in Returned
    /\ UNCHANGED child

TickProject == UNCHANGED child /\ \E in \in Inputs : Tick(in)

\* The steps of others that a project waits for.
Onward ==
    /\ \/ \E r \in Routes : Route(r[1], r[2], r[3])
       \/ \E to \in TemplatePhases : Resolve(to)
       \/ OpenPR
    /\ UNCHANGED child

\* The dossier of ProjectHost plays no part here.
RunNext ==
    \/ TickProject \/ Onward \/ Plan \/ Repair
    \/ \E t \in Tasks :
          \/ \E w \in Optional(Waits), v \in Optional(Verdicts) : TickChild(t, w, v)
          \/ \E to \in {"COMPLETE", "FIXING_REVIEW"} : ReviewChild(t, to)
          \/ ResolveChild(t)
          \/ Returns(t)

\* As in ProjectHost and TaskHost: everybody who is scheduled is heard in the
\* end.  Reviewers may reject a task or the project as often as they like, but
\* not for ever; and a plan is made of tasks in some round of rethinking.
RunFairness ==
    /\ WF_runVars(UNCHANGED child /\ \E in \in Inputs :
                      in.wait # None /\ in.trigger = "READY" /\ Tick(in))
    /\ WF_runVars(Onward)
    /\ SF_runVars(Route("REVIEW_WAIT", "FEEDBACK_READY", "REVIEW_COMPLETED") /\ UNCHANGED child)
    /\ SF_runVars(Plan)
    /\ \A t \in Tasks :
          /\ WF_runVars(\E w \in Waits : TickChild(t, w, "READY"))
          /\ WF_runVars(ResolveChild(t) \/ Returns(t))
          /\ SF_runVars(ReviewChild(t, "COMPLETE"))

RunSpec == RunInit /\ [][RunNext]_runVars /\ RunFairness

-----------------------------------------------------------------------------

\* A change artifact is opened and reviewed for finished work only: there are
\* tasks, and the workflow of each of them has passed its review.  The driver
\* looks at a list of phases, and tests `all`, which holds of no tasks too.
\* (project_driver.py:128-133, docs/workflow_contract.md:315)
OpenedOnFinishedWork ==
    record.phase \in {"PR_OPEN", "REVIEW_REQUESTED", "REVIEW_WAIT"} =>
        /\ DOMAIN Project.tasks # {}
        /\ \A t \in Tasks : child[t] # None /\ child[t].record.phase = "COMPLETE"

\* A child that asks for a rescope is heard, once it has returned: the plan is
\* thought over again, whatever its siblings do and in whatever order they return.
\* (project_driver.py:129-130, docs/workflow_contract.md:313)
AsksForRescope(t) ==
    /\ child[t] # None /\ child[t].record.phase = "RESCOPE_REQUESTED"
    /\ tasks[t] = "TASK_ASSIGNED"

RescopeIsRethought ==
    \A t \in Tasks : AsksForRescope(t) ~> record.phase = "PLAN_RETHINK"

\* The project gets to an end.  (docs/workflows/software_project_driver.md:184-193)
ProjectFinishes == <>(record.terminal = "DONE")
=============================================================================
