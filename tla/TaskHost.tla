------------------------------- MODULE TaskHost -------------------------------
(***************************************************************************)
(* One software task from assignment to its return to the project: the     *)
(* record of the engine, and a host that ticks the task driver and records *)
(* what it decides.  The host is not in the repository; it does what the   *)
(* drivers, the CLI and docs/workflows/software_task_driver.md leave to    *)
(* it, and no more:                                                        *)
(*   - the TaskState of a tick is read off the record, plus a blocker a    *)
(*     worker reports at that moment;                                      *)
(*   - it counts review_loop_count (software_task_driver.md:118);          *)
(*   - it records what the driver never decides: the outcome of a review,  *)
(*     a passed wait threshold, the resolution of a blocker, the end.      *)
(* A host is Strict when it asks the template policy before it appends.    *)
(***************************************************************************)
EXTENDS TaskDriver

CONSTANTS
    Strict,     \* TRUE when decisions are validated against the template
    MaxBlocks,  \* bound: blockers recorded in one run
    LoopCap     \* bound: review_loop_count stops here, above MaxLoops

ASSUME HostAssumption ==
    /\ Strict \in BOOLEAN
    /\ MaxBlocks \in Nat /\ LoopCap \in Nat /\ MaxLoops + 1 < LoopCap

ASSUME TaskAssumption == Kind = "task" /\ BlockedPhases = BlockedNames

VARIABLES
    record,  \* the WorkflowStateRecord of the task
    loops,   \* review_loop_count
    blocks,  \* history: blockers recorded so far
    offered  \* history: the decision recorded last, and whether the work is tested

vars == <<record, loops, blocks, offered>>

Ended == record.terminal # None

Task(reported) ==
    [phase   |-> record.phase,
     blocker |-> IF record.blocker # None THEN record.blocker ELSE reported,
     loops   |-> loops]

\* The blockers a worker may report in a phase: from one of its owners, and
\* back to the phase or to a rescope.
Reportable(phase) ==
    {b \in [owner : Roles, blockedPhase : {phase}, resume : {phase},
            options : {{phase}, {phase, "RESCOPE_REQUESTED"}}] : <<phase, b.owner>> \in Owners}

Reports == IF record.phase \in BlockedPhases THEN {}
           ELSE Reportable(record.phase) \cap Blockers

\* Whether the work has passed TESTING since it was last changed, by decision d.
\* A repair changes it as the first implementation does.
TestedAfter(before, d) ==
    /\ d.to \notin {"IMPLEMENTING", "FIXING_REVIEW"}
    /\ \/ before
       \/ d.from = "TESTING" /\ d.to = "REVIEW_REQUESTED"

\* Append a decision, as append_decision does.
Record(d) ==
    /\ d # None
    /\ Strict => PolicyOK(d)
    /\ CanApply(record, d)
    /\ blocks + (IF d.blocker \notin {None, record.blocker} THEN 1 ELSE 0) <= MaxBlocks
    /\ record' = Apply(record, d)
    /\ blocks' = blocks + (IF d.blocker \notin {None, record.blocker} THEN 1 ELSE 0)
    /\ offered' = [decision |-> d, tested |-> TestedAfter(offered.tested, d)]

\* One tick of the driver; a pass from FIXING_REVIEW to IMPLEMENTING is counted.
Tick(reported, wait, verdict) ==
    /\ ~Ended
    /\ LET d == DecideTask(Task(reported), wait, verdict)
       IN  /\ Record(d)
           /\ loops' = IF record.phase = "FIXING_REVIEW" /\ d.to = "IMPLEMENTING"
                          /\ loops < LoopCap
                       THEN loops + 1 ELSE loops

Reviewed(to) ==
    /\ record.phase = "REVIEW_WAIT"
    /\ Record(Move("REVIEW_WAIT", to, "REVIEW_COMPLETED", FALSE, {}, None))
    /\ UNCHANGED loops

\* The threshold of the durable wait has passed; the response is carried out.
ThresholdPassed ==
    /\ record.phase = "REVIEW_WAIT" /\ record.wait # None
    /\ record.wait.response = "BLOCKED_NEEDS_EL_LE"
    /\ \E b \in Reports :
          /\ b.owner = "process_steward"
          /\ Record(Block("REVIEW_WAIT", "BLOCKED_NEEDS_EL_LE", b))
    /\ UNCHANGED loops

\* The owner of the blocker chooses one of the recorded options.
Resolve(to) ==
    /\ record.phase \in BlockedPhases /\ ~Ended
    /\ Record(Move(record.phase, to, "BLOCKER_RESOLVED", FALSE, {}, None))
    /\ UNCHANGED loops

Cancel ==
    /\ record.phase \in BlockedPhases \cup {"RESCOPE_REQUESTED"}
    /\ ~Ended
    /\ Record(Move(record.phase, "CANCELLED", None, FALSE, {}, "CANCELLED"))
    /\ UNCHANGED loops

Complete ==
    /\ record.phase = "COMPLETE" /\ ~Ended
    /\ Record(Move("COMPLETE", "COMPLETE", "TASK_COMPLETED", FALSE, {}, "DONE"))
    /\ UNCHANGED loops

Init ==
    /\ record = FreshState("TASK_ASSIGNED")
    /\ loops = 0 /\ blocks = 0
    /\ offered = [decision |-> None, tested |-> FALSE]

TickAny == \E b \in Optional(Reports), w \in Optional(Waits), v \in Optional(Verdicts) : Tick(b, w, v)

Next ==
    \/ TickAny
    \/ \E to \in {"COMPLETE", "FIXING_REVIEW"} : Reviewed(to)
    \/ ThresholdPassed
    \/ \E to \in TemplatePhases : Resolve(to)
    \/ Cancel
    \/ Complete

\* The host is scheduled (temporal_skeleton.py plans a run per tick), gives the
\* driver a wait policy, and sooner or later reviewers answer, owners decide and
\* a finished task is closed.
Fairness ==
    /\ WF_vars(\E w \in Waits, v \in Optional(Verdicts) : Tick(None, w, v))
    /\ WF_vars(\E to \in {"COMPLETE", "FIXING_REVIEW"} : Reviewed(to))
    /\ WF_vars(\E to \in TemplatePhases : Resolve(to))
    /\ WF_vars(Complete)

Spec     == Init /\ [][Next]_vars
FairSpec == Spec /\ Fairness

-----------------------------------------------------------------------------

\* What DecideTask may be asked in the present state.
Answers == {DecideTask(Task(b), w, v) :
               b \in Optional(Reports), w \in Optional(Waits), v \in Optional(Verdicts)} \ {None}

\* Whatever the driver answers is a decision pydantic builds and apply_decision
\* accepts on the record the answer was computed from.  (task_driver.py:113-118)
DriverDecisionsApply ==
    ~Ended => \A d \in Answers : ContractOK(d) /\ CanApply(record, d)

\* The three places where driver and template disagree: the template does not
\* know the rescope signal in FIXING_REVIEW, a review-trigger blocker names the
\* phase that was not reached, and a wait is refused where the phase has none or
\* a blocker is recorded again.
OutsideTemplate(d) ==
    \/ d.signal = "TASK_RESCOPE_REQUESTED"
    \/ d.blocker # None /\ d.blocker.blockedPhase # d.from
    \/ d.wait # None /\ d.from \notin Waiting

\* Everywhere else the template admits what the driver decides.
\* (templates.py:275-359 against task_driver.py:105-192)
TemplateAdmitsDriver ==
    ~Ended => \A d \in Answers : PolicyOK(d) <=> ~OutsideTemplate(d)

\* The driver sends a task into repair no more often than max_review_loops
\* says, whatever blockers come in between.  (software_task_driver.md:114-119)
RepairIsBounded == loops <= MaxLoops

\* Work that is up for review, waits for one or is complete has been tested since
\* it was last changed.  It is what the order of the phases is for, and nothing
\* checks it later: a repaired task goes through IMPLEMENTING and TESTING again, and
\* one that was blocked in between must not be resumed beyond where it stopped.
\* (task_driver.py:88-101, replay.py:33-45)
ReviewIsOfTestedWork ==
    record.phase \in {"REVIEW_REQUESTED", "REVIEW_WAIT", "COMPLETE"} => offered.tested

\* A task does not run forever: it completes, is cancelled or asks for a rescope.
\* (software_task_driver.md:110-119)
TaskReturns == <>(record.phase \in {"COMPLETE", "RESCOPE_REQUESTED", "CANCELLED"})

\* A wait that a decision starts is on record afterwards.  It does not hold, see
\* the finding.  (task_driver.py:113-118, workflow_contract.md:119)
StartedWaitIsDurable ==
    [][ offered'.decision.wait # None => record'.wait = offered'.decision.wait ]_vars
=============================================================================
