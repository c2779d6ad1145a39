------------------------------ MODULE TaskDriver ------------------------------
(***************************************************************************)
(* workflows/task_driver.py: the pure decision function of the software-   *)
(* task template.  A TaskState is a record [phase, blocker, loops] with    *)
(* MaxLoops for max_review_loops.                                          *)
(***************************************************************************)
EXTENDS DriverDecisions

CONSTANT MaxLoops  \* max_review_loops

ASSUME MaxLoopsAssumption == MaxLoops \in Nat

\* The straight line of next_task_phase.
TaskLine ==
    [TASK_ASSIGNED    |-> "CLAIMED",
     CLAIMED          |-> "INSPECTING",
     INSPECTING       |-> "IMPLEMENTING",
     IMPLEMENTING     |-> "TESTING",
     TESTING          |-> "REVIEW_REQUESTED",
     REVIEW_REQUESTED |-> "REVIEW_WAIT",
     FIXING_REVIEW    |-> "IMPLEMENTING"]

\* Fault variant: the signals of two transitions are swapped.
TaskSignalSwapped(from, to) ==
    IF to = "RESCOPE_REQUESTED" THEN "TASK_RESCOPE_REQUESTED"
    ELSE [TASK_ASSIGNED |-> "TASK_STARTED",
          CLAIMED       |-> "TASK_STARTED",
          INSPECTING    |-> "TASK_STARTED",
          IMPLEMENTING  |-> "REVIEW_REQUESTED",
          TESTING       |-> "TEST_EVIDENCE_CREATED",
          FIXING_REVIEW |-> "REVIEW_FINDINGS_ACCEPTED"][from]

\* TASK_TRANSITION_SIGNALS; the source phase decides, except in FIXING_REVIEW.
TaskSignal(from, to) ==
    IF to = "RESCOPE_REQUESTED" THEN "TASK_RESCOPE_REQUESTED"
    ELSE [TASK_ASSIGNED |-> "TASK_STARTED",
          CLAIMED       |-> "TASK_STARTED",
          INSPECTING    |-> "TASK_STARTED",
          IMPLEMENTING  |-> "TEST_EVIDENCE_CREATED",
          TESTING       |-> "REVIEW_REQUESTED",
          FIXING_REVIEW |-> "REVIEW_FINDINGS_ACCEPTED"][from]

\* Fault variant: one more repair pass than the limit.
LoopsExhaustedLate(t) == t.phase = "FIXING_REVIEW" /\ t.loops > MaxLoops

\* Fault variant: the limit is never reached.
LoopsNeverExhausted(t) == FALSE

LoopsExhausted(t) == t.phase = "FIXING_REVIEW" /\ t.loops >= MaxLoops

\* next_task_phase of a task without a blocker
NextTaskPhase(t) ==
    IF LoopsExhausted(t) THEN "RESCOPE_REQUESTED"
    ELSE IF t.phase \in DOMAIN TaskLine THEN TaskLine[t.phase]
    ELSE t.phase

\* decide_next_task_transition; None where it raises ValueError.
DecideTask(t, wait, trigger) ==
    LET next == NextTaskPhase(t)
    IN  IF t.blocker # None THEN BlockedDecision(t.phase, t.blocker, wait)
        ELSE IF t.phase = "REVIEW_REQUESTED" THEN ReviewDecision(wait, trigger)
        ELSE IF next = t.phase THEN WaitOrRaise(t.phase, next, wait, None)
        ELSE Move(t.phase, next, TaskSignal(t.phase, next), FALSE, {}, None)
=============================================================================
