---------------------------- MODULE DecisionReplay ----------------------------
(* policies/replay.py:replay_decisions over a sequence of decisions. *)
EXTENDS EngineContract, Sequences

ASSUME RecordAssumption == None \notin StateType

\* What a decision makes of the records S: of a record it applies to the next
\* one, and nothing of a record apply_decision raises a ValueError for.
After(S, d) == {Apply(s, d) : s \in {t \in S : CanApply(t, d)}}

\* The loop over those of the decisions whose index is in `kept`: the record it
\* ends with, and None where a decision does not apply and the loop raises.
ReplayOnly(s, decisions, kept) ==
    LET run[i \in 0..Len(decisions)] ==
            IF i = 0 THEN {s}
            ELSE IF i \in kept THEN After(run[i - 1], decisions[i])
            ELSE run[i - 1]
        final == run[Len(decisions)]
    IN  IF final = {} THEN None ELSE CHOOSE t \in final : TRUE

Replay(s, decisions) == ReplayOnly(s, decisions, DOMAIN decisions)
=============================================================================
