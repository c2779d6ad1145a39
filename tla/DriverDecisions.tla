--------------------------- MODULE DriverDecisions ---------------------------
(***************************************************************************)
(* What the two drivers share: the shapes of WorkflowDecision they build,  *)
(* the classification of a review request (review_triggers.py) and the     *)
(* blocker they raise for one that triggers no review.  A blocker they     *)
(* raise has a category besides; escalation.py goes by it.  The helpers    *)
(* _blocked_phase_for and _blocker_for_review_trigger are written out in   *)
(* both drivers with the same body.                                        *)
(***************************************************************************)
EXTENDS PhasePolicy

Move(from, to, signal, auth, evidence, terminal) ==
    [from |-> from, to |-> to, material |-> TRUE, signal |-> signal,
     activity |-> None, wait |-> None, blocker |-> None,
     evidence |-> evidence, auth |-> auth, terminal |-> terminal]

Block(from, to, blocker) ==
    [Move(from, to, "BLOCKER_CREATED", FALSE, {}, None) EXCEPT !.blocker = blocker]

\* A wait in the same phase, or on entering REVIEW_WAIT; a wait in a blocked
\* phase records the blocker again.
Wait(from, to, wait, blocker) ==
    [from |-> from, to |-> to, material |-> FALSE, signal |-> "WAIT_TIMER_STARTED",
     activity |-> None, wait |-> wait, blocker |-> blocker,
     evidence |-> {}, auth |-> FALSE, terminal |-> None]

\* None where the driver raises because it was given no wait policy.
WaitOrRaise(from, to, wait, blocker) ==
    IF wait = None THEN None ELSE Wait(from, to, wait, blocker)

\* Fault variant: the wait in a blocked phase leaves the blocker out.
BlockedDecisionBare(phase, blocker, wait) ==
    IF BlockedPhaseFor(blocker.owner) = phase
    THEN WaitOrRaise(phase, phase, wait, None)
    ELSE Block(phase, BlockedPhaseFor(blocker.owner), blocker)

\* The state carries a blocker: enter the owner's blocked phase or, already
\* there, wait.
BlockedDecision(phase, blocker, wait) ==
    IF BlockedPhaseFor(blocker.owner) = phase
    THEN WaitOrRaise(phase, phase, wait, blocker)
    ELSE Block(phase, BlockedPhaseFor(blocker.owner), blocker)

-----------------------------------------------------------------------------
(* verify_review_trigger *)

\* What GitHub says of a review request: the reviewer is on the list of
\* requested ones, has reviewed, may read the repository; it is private.
ReviewFacts == [requested : BOOLEAN, reviewed : BOOLEAN, access : BOOLEAN, private : BOOLEAN]

TriggerState(f) ==
    IF f.requested \/ f.reviewed THEN "READY"
    ELSE IF f.private /\ ~f.access THEN "BLOCKED_REVIEWER_ACCESS"
    ELSE "WEAK_NOTIFICATION_ONLY"

\* The verdicts a host can hand to a driver.
Verdicts == {TriggerState(f) : f \in ReviewFacts}

CanWaitForReview(trigger) == trigger = "READY"

\* _blocker_for_review_trigger
TriggerBlocker(trigger, blockedPhase) ==
    [owner        |-> IF trigger = "BLOCKED_REVIEWER_ACCESS"
                      THEN "human_approver" ELSE "process_steward",
     category     |-> IF trigger = "BLOCKED_REVIEWER_ACCESS"
                      THEN "human_authority" ELSE "process",
     blockedPhase |-> blockedPhase,
     resume       |-> "REVIEW_REQUESTED",
     options      |-> {"REVIEW_REQUESTED"}]

ASSUME TriggerAssumption == \A v \in Verdicts : TriggerBlocker(v, "REVIEW_WAIT") # None

\* Fault variant: process blockers go to the human approver.
EscalationOwnerNoProcess(blocker) ==
    IF blocker.category \in {"developer", "external"} THEN "EL_LE" ELSE "ZO_EL"

\* policies/escalation.py: the actor a blocker of this category is for.
EscalationOwner(blocker) ==
    IF blocker.category \in {"developer", "process", "external"} THEN "EL_LE" ELSE "ZO_EL"

\* Entering REVIEW_WAIT.  No verification (None) is as good as a READY one.
ReviewDecision(wait, trigger) ==
    IF trigger = None \/ CanWaitForReview(trigger)
    THEN WaitOrRaise("REVIEW_REQUESTED", "REVIEW_WAIT", wait, None)
    ELSE LET b == TriggerBlocker(trigger, "REVIEW_WAIT")
         IN  Block("REVIEW_REQUESTED", BlockedPhaseFor(b.owner), b)
=============================================================================
