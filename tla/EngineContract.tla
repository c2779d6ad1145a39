--------------------------- MODULE EngineContract ---------------------------
(***************************************************************************)
(* The adapter-neutral engine contract, as operators on records.           *)
(*                                                                         *)
(* A workflow instance is one durable WorkflowStateRecord.  It changes     *)
(* only by a WorkflowDecision: ContractOK says which decisions pydantic    *)
(* lets a caller build (WorkflowDecision.enforce_run_invariant), and       *)
(* CanApply / Apply are the guard and the effect of                        *)
(* policies/replay.py:apply_decision.                                      *)
(*                                                                         *)
(* Data the contract never inspects is left out or is one opaque value:    *)
(* identifiers, timestamps, template versions, counters nothing in the     *)
(* source writes, the order and multiplicity of evidence references.       *)
(***************************************************************************)
EXTENDS Naturals, FiniteSets

CONSTANTS
    Phases,        \* phase names a decision or a state may carry
    BlockedPhases, \* those that start with "BLOCKED_NEEDS_"
    Signals,       \* members of ProgressSignal in use
    Activities,    \* ActivityRequests
    Waits,         \* WaitPolicies
    Blockers,      \* Blockers: records with at least the field "options"
    Evidence,      \* EvidenceRefs
    None           \* Python's None in an optional field

Outcomes == {"DONE", "FAILED", "CANCELLED"}

WaitSignals    == {"RETRY_SCHEDULED", "WAIT_TIMER_STARTED"}
BlockedSignals == {"BLOCKER_CREATED", "BLOCKER_ESCALATED"}

\* The phases a terminal decision may enter (terminal_phases_by_outcome).
TerminalPhases(outcome) ==
    IF outcome = "DONE" THEN {"DONE", "COMPLETE"} ELSE {outcome}

\* A terminal phase never carries the "BLOCKED_NEEDS_" prefix.
ASSUME PhasesAssumption ==
    /\ BlockedPhases \subseteq Phases
    /\ BlockedPhases \cap {"DONE", "COMPLETE", "FAILED", "CANCELLED"} = {}

\* None is told apart from every value an optional field may hold.
ASSUME NoneAssumption ==
    /\ None \notin Phases /\ None \notin Signals /\ None \notin Outcomes
    /\ None \notin Activities /\ None \notin Waits /\ None \notin Blockers

Optional(S) == S \cup {None}

DecisionType ==
    [from     : Phases,
     to       : Phases,
     material : BOOLEAN,
     signal   : Optional(Signals),
     activity : Optional(Activities),
     wait     : Optional(Waits),
     blocker  : Optional(Blockers),
     evidence : SUBSET Evidence,
     auth     : BOOLEAN,            \* carries a driver_authorization
     terminal : Optional(Outcomes)]

StateType ==
    [phase    : Phases,
     activity : Optional(Activities),
     wait     : Optional(Waits),
     blocker  : Optional(Blockers),
     evidence : SUBSET Evidence,
     progress : Optional(Signals),  \* progress_ledger.last_progress_signal
     noops    : Nat,                \* progress_ledger.no_op_observation_count
     terminal : Optional(Outcomes)]

\* A record nobody has decided anything about yet.
FreshState(phase) ==
    [phase |-> phase, activity |-> None, wait |-> None, blocker |-> None,
     evidence |-> {}, progress |-> None, noops |-> 0, terminal |-> None]

-----------------------------------------------------------------------------
(* WorkflowDecision.enforce_run_invariant *)

\* The decision carries something besides a wait that may count as progress.
CarriesProgress(d) ==
    \/ d.signal # None
    \/ d.activity # None
    \/ d.blocker # None
    \/ d.evidence # {}
    \/ d.auth
    \/ d.terminal # None

SamePhaseIsExplained(d) ==
    d.from = d.to => d.material \/ CarriesProgress(d) \/ d.wait # None

WaitSignalIsBacked(d) ==
    d.signal \in WaitSignals => d.wait # None /\ ~d.material

SignalMatchesMateriality(d) ==
    /\ d.signal # None /\ ~d.material => d.signal \in WaitSignals
    /\ d.material => CarriesProgress(d)

\* Fault variant: a terminal decision may enter any phase.
TerminalAnywhere(d) ==
    d.terminal # None => d.activity = None /\ d.wait = None /\ d.blocker = None

TerminalIsExclusive(d) ==
    d.terminal # None =>
        /\ d.activity = None /\ d.wait = None /\ d.blocker = None
        /\ d.to \in TerminalPhases(d.terminal)

BlockedIsBacked(d) ==
    d.to \in BlockedPhases \/ d.signal \in BlockedSignals => d.blocker # None

ContractOK(d) ==
    /\ SamePhaseIsExplained(d)
    /\ WaitSignalIsBacked(d)
    /\ SignalMatchesMateriality(d)
    /\ TerminalIsExclusive(d)
    /\ BlockedIsBacked(d)

-----------------------------------------------------------------------------
(* apply_decision *)

\* The decision leaves a blocked phase without ending the workflow.
ResumesFromBlock(s, d) ==
    /\ s.phase \in BlockedPhases
    /\ d.to \notin BlockedPhases
    /\ d.terminal = None

\* Fault variant: a resume is not held to the recorded options.
CanApplyAnyResume(s, d) ==
    /\ d.from = s.phase
    /\ d.to \in BlockedPhases => d.blocker # None

CanApply(s, d) ==
    /\ d.from = s.phase
    /\ d.to \in BlockedPhases => d.blocker # None
    /\ ResumesFromBlock(s, d) => s.blocker # None /\ d.to \in s.blocker.options

\* Fault variant: a wait survives the phase it was started for.
NextWaitNeverCleared(s, d) ==
    IF d.blocker # None THEN None
    ELSE IF d.wait # None THEN d.wait
    ELSE s.wait

\* A recorded blocker discards the wait, even the one of the same decision.
NextWait(s, d) ==
    IF d.blocker # None THEN None
    ELSE IF d.wait # None THEN d.wait
    ELSE IF d.to # s.phase THEN None
    ELSE s.wait

ClearsBlocker(s, d) ==
    \/ d.signal = "BLOCKER_RESOLVED"
    \/ d.terminal # None
    \/ s.phase \in BlockedPhases /\ d.to \notin BlockedPhases

\* Fault variant: the branches tested in the other order.
NextBlockerClearedFirst(s, d) ==
    IF ClearsBlocker(s, d) THEN None
    ELSE IF d.blocker # None THEN d.blocker
    ELSE s.blocker

NextBlocker(s, d) ==
    IF d.blocker # None THEN d.blocker
    ELSE IF ClearsBlocker(s, d) THEN None
    ELSE s.blocker

\* The run looked at the same phase and started nothing.
IsObservation(d) ==
    /\ ~d.material
    /\ d.from = d.to
    /\ d.wait = None /\ d.blocker = None /\ d.activity = None

\* Fault variant: the whole schedule is kept as the current activity.
ApplyKeepsSchedule(s, d) ==
    [phase    |-> d.to,
     activity |-> {d.activity},
     wait     |-> NextWait(s, d),
     blocker  |-> NextBlocker(s, d),
     evidence |-> s.evidence,
     progress |-> s.progress,
     noops    |-> s.noops,
     terminal |-> s.terminal]

\* Fault variant: an activity stays current until another one is scheduled.
ApplyKeepsActivity(s, d) ==
    [ApplyKeepsSchedule(s, d) EXCEPT
        !.activity = IF d.activity = None THEN s.activity ELSE d.activity,
        !.evidence = s.evidence \cup d.evidence,
        !.terminal = IF d.terminal # None THEN d.terminal ELSE s.terminal]

\* Fault variant: the evidence of a decision replaces that on record.
ApplyReplacesEvidence(s, d) ==
    [ApplyKeepsActivity(s, d) EXCEPT !.activity = d.activity, !.evidence = d.evidence]

\* Fault variant: the count restarts on whatever is not an observation.
ApplyRestartsCount(s, d) ==
    [ApplyKeepsActivity(s, d) EXCEPT
        !.activity = d.activity,
        !.progress = IF d.material THEN d.signal ELSE s.progress,
        !.noops    = IF IsObservation(d) THEN s.noops + 1 ELSE 0]

Apply(s, d) ==
    [phase    |-> d.to,
     activity |-> d.activity,
     wait     |-> NextWait(s, d),
     blocker  |-> NextBlocker(s, d),
     evidence |-> s.evidence \cup d.evidence,
     progress |-> IF d.material THEN d.signal ELSE s.progress,
     noops    |-> IF d.material THEN 0
                  ELSE IF IsObservation(d) THEN s.noops + 1
                  ELSE s.noops,
     terminal |-> IF d.terminal # None THEN d.terminal ELSE s.terminal]
=============================================================================
