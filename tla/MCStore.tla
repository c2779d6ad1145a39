------------------------------- MODULE MCStore -------------------------------
(* Three phases, one of them blocked, and decisions that conflict, commute    *)
(* and depend on each other.                                                  *)
EXTENDS RecoveredStore

MCPhases  == {"PLAN_REVIEW", "TASK_BREAKDOWN", "BLOCKED_NEEDS_EL_LE"}
MCBlocked == {"BLOCKED_NEEDS_EL_LE"}
MCSignals == {"PLAN_REVISED", "PLAN_APPROVED", "BLOCKER_CREATED", "BLOCKER_RESOLVED"}
MCBlockers == {[options |-> {"PLAN_REVIEW"}]}

Decision(from, to, signal, blocker, evidence) ==
    [from |-> from, to |-> to, material |-> TRUE, signal |-> signal,
     activity |-> None, wait |-> None, blocker |-> blocker,
     evidence |-> evidence, auth |-> FALSE, terminal |-> None]

Revise     == Decision("PLAN_REVIEW", "PLAN_REVIEW", "PLAN_REVISED", None, {"e1"})
Approve    == Decision("PLAN_REVIEW", "TASK_BREAKDOWN", "PLAN_APPROVED", None, {})
Block      == Decision("TASK_BREAKDOWN", "BLOCKED_NEEDS_EL_LE", "BLOCKER_CREATED",
                       [options |-> {"PLAN_REVIEW"}], {})
Resume     == Decision("BLOCKED_NEEDS_EL_LE", "PLAN_REVIEW", "BLOCKER_RESOLVED", None, {})

\* A revision commutes with itself, the others move the phase.
MCSubmissions == {Revise, Approve, Block, Resume}

MCSeed  == {FreshState("PLAN_REVIEW")}
MCSeeds == {FreshState("PLAN_REVIEW"), FreshState("TASK_BREAKDOWN")}
=============================================================================
