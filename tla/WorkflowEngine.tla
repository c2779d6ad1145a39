--------------------------- MODULE WorkflowEngine ---------------------------
(***************************************************************************)
(* One workflow instance under the engine contract: any decision pydantic  *)
(* lets a caller build may be offered, and apply_decision either rejects   *)
(* it or installs the next record.  This is the widest environment the     *)
(* engine has: no template policy, no driver, no gate.                     *)
(*                                                                         *)
(* `granted` is a history variable.  It remembers, independently of how    *)
(* apply_decision edits the record, the blocker most recently recorded,    *)
(* the wait most recently started during the present visit to the phase,   *)
(* and whether the last accepted decision was material progress.           *)
(***************************************************************************)
EXTENDS EngineContract

CONSTANTS
    InitialPhases, \* phases a new record may be created in
    MaxNoOps       \* bound on the observation counter, for TLC

\* A host creates a record before anything is decided, so never in a blocked
\* phase (every initial state in the tests and the walkthrough is of this kind).
ASSUME InitialAssumption == InitialPhases \subseteq Phases \ BlockedPhases
ASSUME BoundAssumption   == MaxNoOps \in Nat

VARIABLES
    state,   \* the WorkflowStateRecord
    granted  \* history: [wait, blocker, material]

vars == <<state, granted>>

\* The decisions a caller can construct.
Decisions == {d \in DecisionType : ContractOK(d)}

GrantedType ==
    [wait : Optional(Waits), blocker : Optional(Blockers), material : BOOLEAN]

\* Types of the two records.
TypeOK ==
    /\ state \in StateType
    /\ granted \in GrantedType

Init ==
    /\ \E p \in InitialPhases : state = FreshState(p)
    /\ granted = [wait |-> None, blocker |-> None, material |-> FALSE]

Decide(d) ==
    /\ CanApply(state, d)
    /\ Apply(state, d).noops <= MaxNoOps
    /\ state' = Apply(state, d)
    /\ granted' = [wait     |-> IF d.wait # None THEN d.wait
                                ELSE IF d.to # d.from THEN None
                                ELSE granted.wait,
                   blocker  |-> IF d.blocker # None THEN d.blocker ELSE granted.blocker,
                   material |-> d.material]

Next == \E d \in Decisions : Decide(d)

Spec == Init /\ [][Next]_vars

-----------------------------------------------------------------------------

\* A blocked phase always names the blocker that was recorded last, so the
\* owner, the required decision and the resume options are on record.
\* (replay.py:31-32 and 68-76: recording wins over clearing.)
BlockedIsExplained ==
    state.phase \in BlockedPhases =>
        /\ state.blocker # None
        /\ state.blocker = granted.blocker

\* A durable wait belongs to the present visit to the phase: it is never one
\* started before the workflow moved on.  (replay.py:63-66)
WaitIsCurrent ==
    state.wait # None => state.wait = granted.wait

\* Nothing but the options of the blocker on record, or a terminal outcome,
\* gets a workflow out of a blocked phase.  (replay.py:33-45)
ResumeIsRecorded ==
    [][ state.phase \in BlockedPhases /\ state'.phase \notin BlockedPhases =>
            \/ state'.phase \in granted.blocker.options
            \/ state'.terminal # None /\ state'.phase \in TerminalPhases(state'.terminal) ]_vars

\* The observation count is what shows that a workflow stalls.  Only a decision
\* that was material progress makes it forget, and then altogether: no wait,
\* blocker, evidence or transition without progress does.  It grows only by a
\* decision that was no progress and left phase, activity, wait and signal as
\* they were.  (replay.py:80-89)
NoOpsAreHonest ==
    [][ /\ state'.noops < state.noops => granted'.material /\ state'.noops = 0
        /\ state'.noops > state.noops =>
              /\ ~granted'.material
              /\ state'.phase = state.phase
              /\ state'.activity = None
              /\ state'.wait = state.wait /\ state'.progress = state.progress ]_vars
=============================================================================
