---------------------------- MODULE GovernedEngine ----------------------------
(***************************************************************************)
(* The engine under a template: a host that validates every decision with  *)
(* validate_decision_against_phase_policy before it appends it.  The code  *)
(* gives hosts that function and calls it nowhere itself.                  *)
(***************************************************************************)
EXTENDS StatusView

CONSTANTS
    InitialPhases, \* phases a new record may be created in
    MaxNoOps       \* bound on the observation counter, for TLC

ASSUME KindAssumption    == Kind \in {"project", "task"}
ASSUME BlockedAssumption == BlockedPhases = BlockedNames
ASSUME InitialAssumption == InitialPhases \subseteq Phases \ BlockedPhases
ASSUME BoundAssumption   == MaxNoOps \in Nat

VARIABLE state  \* the WorkflowStateRecord

\* The decisions from a phase that the contract and the template both admit.
Admitted(phase) ==
    {d \in [from : {phase}, to : Phases, material : BOOLEAN,
            signal : Optional(Signals), activity : Optional(Activities),
            wait : Optional(Waits), blocker : Optional(Blockers),
            evidence : SUBSET Evidence, auth : BOOLEAN,
            terminal : Optional(Outcomes)] : ContractOK(d) /\ PolicyOK(d)}

Init == \E p \in InitialPhases : state = FreshState(p)

Decide(d) ==
    /\ CanApply(state, d)
    /\ Apply(state, d).noops <= MaxNoOps
    /\ state' = Apply(state, d)

Next == \E d \in Admitted(state.phase) : Decide(d)

Spec == Init /\ [][Next]_state

-----------------------------------------------------------------------------

TypeOK == state \in StateType

\* A blocker is on record exactly while the workflow is blocked, in the blocked
\* phase of its owner, and never beside a wait.
BlockerMatchesPhase ==
    /\ state.blocker # None <=> state.phase \in BlockedPhases
    /\ state.blocker # None =>
          /\ state.phase = BlockedPhaseFor(state.blocker.owner)
          /\ state.wait = None

\* The observation count stays at zero until the workflow has ended: the policy
\* lets no quiet run through (docs/workflow_contract.md:281).  Repeating a
\* terminal decision is the one thing that still counts as one.
NoQuietRuns == state.noops # 0 => state.terminal # None

\* A workflow that has ended stays in a phase of its outcome.  The task template
\* does not keep this: it lets COMPLETE go on (templates.py:234-238).
EndedStaysEnded ==
    state.terminal # None => state.phase \in TerminalPhases(state.terminal)

\* While a workflow is blocked, every answer of status names the owner of the
\* blocker, and the human approver is asked for action exactly in the phase
\* reserved for them.  (state_store.py:168-232)
StatusNamesOwner ==
    state.phase \in BlockedPhases =>
        LET status == Status(state)
        IN  /\ status.next = <<"blocker", state.blocker.owner>>
            /\ status.waiting.kind = "blocker" /\ status.waiting.on = state.blocker.owner
            /\ status.human <=> status.phase = "BLOCKED_NEEDS_ZO_EL"
=============================================================================
