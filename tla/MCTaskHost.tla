------------------------------ MODULE MCTaskHost ------------------------------
(* A task with one wait policy and, in three phases, two owners' blockers. *)
EXTENDS TaskHost

MCPhases == TaskPhases \cup {"DONE", "FAILED", "CANCELLED"}

MCWaits == {[response |-> "BLOCKED_NEEDS_EL_LE"]}

MCReported ==
    UNION {{b \in Reportable(p) : b.owner \in {"process_steward", "human_approver"}} :
              p \in {"IMPLEMENTING", "REVIEW_WAIT", "FIXING_REVIEW"}}
    \cup {TriggerBlocker(v, "REVIEW_WAIT") : v \in Verdicts \ {"READY"}}
=============================================================================
