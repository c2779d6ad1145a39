------------------------- MODULE GovernedEngineProofs -------------------------
(* What a template adds to the engine contract, proved for every set of       *)
(* phases, signals, waits, blockers and evidence.                             *)
EXTENDS GovernedEngine, TLAPS

\* An admitted decision is a decision, and passes the contract and the policy.
LEMMA AdmittedDecision ==
    ASSUME NEW p \in Phases, NEW d \in Admitted(p)
    PROVE  d \in DecisionType /\ ContractOK(d) /\ PolicyOK(d) /\ d.from = p
BY DEF Admitted, DecisionType

\* What one decision makes of a well-typed record is well typed.
LEMMA ApplyType ==
    ASSUME NEW s \in StateType, NEW d \in DecisionType
    PROVE  Apply(s, d) \in StateType
<1>1. NextWait(s, d) \in Optional(Waits)
  BY DEF NextWait, StateType, DecisionType, Optional
<1>2. NextBlocker(s, d) \in Optional(Blockers)
  BY DEF NextBlocker, StateType, DecisionType, Optional
<1> QED
  BY <1>1, <1>2 DEF Apply, StateType, DecisionType, Optional

\* The record keeps its type.
THEOREM TypeCorrect == Spec => []TypeOK
<1>1. Init => TypeOK
  BY InitialAssumption DEF Init, TypeOK, FreshState, StateType, Optional
<1>2. TypeOK /\ [Next]_state => TypeOK'
  <2> SUFFICES ASSUME TypeOK, [Next]_state PROVE TypeOK'
    OBVIOUS
  <2>1. ASSUME NEW d \in Admitted(state.phase), Decide(d) PROVE TypeOK'
    <3>1. d \in DecisionType
      BY <2>1, AdmittedDecision DEF TypeOK, StateType
    <3> QED
      BY <2>1, <3>1, ApplyType DEF Decide, TypeOK
  <2>2. CASE UNCHANGED state
    BY <2>2 DEF TypeOK
  <2> QED
    BY <2>1, <2>2 DEF Next
<1> QED
  BY <1>1, <1>2, PTL DEF Spec

\* A blocker is recorded exactly by the decisions that enter a blocked phase.
LEMMA BlockerRoute ==
    ASSUME NEW d \in DecisionType, ContractOK(d), PolicyOK(d)
    PROVE  /\ d.blocker # None <=> d.to \in BlockedPhases
           /\ d.blocker # None => d.to = BlockedPhaseFor(d.blocker.owner)
<1>1. d.blocker # None => d.to = BlockedPhaseFor(d.blocker.owner)
  BY DEF PolicyOK, BlockerIsAllowed
<1>2. d.blocker # None => d.to \in BlockedPhases
  BY <1>1, BlockedAssumption DEF BlockedPhaseFor, BlockedNames
<1>3. d.to \in BlockedPhases => d.blocker # None
  BY DEF ContractOK, BlockedIsBacked
<1> QED
  BY <1>1, <1>2, <1>3

\* A blocker is on record exactly while the workflow is in its owner's blocked
\* phase, and never beside a wait.
THEOREM BlockerMatches == Spec => []BlockerMatchesPhase
<1>1. Init => BlockerMatchesPhase
  BY InitialAssumption DEF Init, BlockerMatchesPhase, FreshState
<1>2. TypeOK /\ BlockerMatchesPhase /\ [Next]_state => BlockerMatchesPhase'
  <2> SUFFICES ASSUME TypeOK, BlockerMatchesPhase, [Next]_state
               PROVE  BlockerMatchesPhase'
    OBVIOUS
  <2>1. ASSUME NEW d \in Admitted(state.phase), Decide(d) PROVE BlockerMatchesPhase'
    <3>1. d \in DecisionType /\ ContractOK(d) /\ PolicyOK(d)
      BY <2>1, AdmittedDecision DEF TypeOK, StateType
    <3>2. /\ state'.phase = d.to
          /\ state'.wait = NextWait(state, d)
          /\ state'.blocker = NextBlocker(state, d)
      BY <2>1 DEF Decide, Apply
    <3>3. CASE d.blocker # None
      BY <3>1, <3>2, <3>3, BlockerRoute DEF NextWait, NextBlocker, BlockerMatchesPhase
    <3>4. CASE d.blocker = None
      <4>1. state'.phase \notin BlockedPhases
        BY <3>1, <3>2, <3>4, BlockerRoute
      <4>2. state'.blocker = None
        BY <3>2, <3>4, <4>1 DEF NextBlocker, ClearsBlocker, BlockerMatchesPhase
      <4> QED
        BY <4>1, <4>2 DEF BlockerMatchesPhase
    <3> QED
      BY <3>3, <3>4
  <2>2. CASE UNCHANGED state
    BY <2>2 DEF BlockerMatchesPhase
  <2> QED
    BY <2>1, <2>2 DEF Next
<1> QED
  BY <1>1, <1>2, TypeCorrect, PTL DEF Spec

\* The policy lets an observation through only when it ends the workflow.
LEMMA ObservationEnds ==
    ASSUME NEW d \in DecisionType, ContractOK(d), PolicyOK(d), IsObservation(d)
    PROVE  d.terminal # None
<1> SUFFICES ASSUME d.terminal = None PROVE FALSE
  OBVIOUS
<1>1. d.signal = None
  BY DEF ContractOK, SignalMatchesMateriality, WaitSignalIsBacked, IsObservation
<1>2. d.signal \notin BlockedSignals
  BY DEF ContractOK, BlockedIsBacked, IsObservation
<1>3. d.signal \notin WaitSignals
  BY DEF ContractOK, WaitSignalIsBacked, IsObservation
<1>4. d.signal \notin MaterialSignals
  BY <1>1, SignalAssumption
<1> QED
  BY <1>2, <1>3, <1>4, NoneAssumption DEF PolicyOK, RunOutcome, IsObservation, Outcomes

\* Under a template the observation count stays zero until the workflow ends.
THEOREM NoQuietRun == Spec => []NoQuietRuns
<1>1. Init => NoQuietRuns
  BY DEF Init, NoQuietRuns, FreshState
<1>2. TypeOK /\ NoQuietRuns /\ [Next]_state => NoQuietRuns'
  <2> SUFFICES ASSUME TypeOK, NoQuietRuns, [Next]_state PROVE NoQuietRuns'
    OBVIOUS
  <2>1. ASSUME NEW d \in Admitted(state.phase), Decide(d) PROVE NoQuietRuns'
    <3>1. d \in DecisionType /\ ContractOK(d) /\ PolicyOK(d)
      BY <2>1, AdmittedDecision DEF TypeOK, StateType
    <3>2. d.terminal # None => state'.terminal # None
      BY <2>1 DEF Decide, Apply
    <3>3. state.terminal # None => state'.terminal # None
      BY <2>1 DEF Decide, Apply
    <3>4. state'.noops # 0 => IsObservation(d) \/ state.noops # 0
      BY <2>1 DEF Decide, Apply
    <3>5. IsObservation(d) => d.terminal # None
      BY <3>1, ObservationEnds
    <3> QED
      BY <3>2, <3>3, <3>4, <3>5 DEF NoQuietRuns
  <2>2. CASE UNCHANGED state
    BY <2>2 DEF NoQuietRuns
  <2> QED
    BY <2>1, <2>2 DEF Next
<1> QED
  BY <1>1, <1>2, TypeCorrect, PTL DEF Spec

\* The project template admits only a terminal decision from a phase an ended
\* workflow can be in.
LEMMA ProjectEndDecision ==
    ASSUME Kind = "project", NEW o \in Outcomes, NEW p \in TerminalPhases(o),
           NEW d \in DecisionType, ContractOK(d), PolicyOK(d), d.from = p
    PROVE  d.terminal # None
<1> SUFFICES ASSUME d.terminal = None PROVE FALSE
  OBVIOUS
<1>1. p = "DONE"
  <2>1. p \in {"DONE", "COMPLETE", "FAILED", "CANCELLED"}
    BY DEF TerminalPhases, Outcomes
  <2>2. p \in ProjectPhases
    BY DEF PolicyOK, TemplatePhases
  <2> QED
    BY <2>1, <2>2 DEF ProjectPhases, BlockedNames
<1>2. d.from \notin Waiting
  BY <1>1 DEF Waiting, ProjectWaiting, BlockedNames
<1>3. \A r : <<d.from, r>> \notin Owners
  BY <1>1 DEF Owners, ProjectOwners, BlockedNames
<1>4. \A g : <<d.from, g>> \notin Progress
  BY <1>1 DEF Progress, ProjectProgress, BlockedNames
<1>5. d.blocker = None
  BY <1>3 DEF PolicyOK, BlockerIsAllowed
<1>6. d.signal = None
  BY <1>2, <1>4, <1>5 DEF PolicyOK, SignalIsAllowed
<1>7. d.signal \notin BlockedSignals /\ d.signal \notin WaitSignals
  BY <1>5, <1>2, <1>6 DEF ContractOK, BlockedIsBacked, WaitSignalIsBacked, PolicyOK, WaitIsAllowed
<1>8. d.signal \notin MaterialSignals
  BY <1>6, SignalAssumption
<1> QED
  BY <1>5, <1>7, <1>8, NoneAssumption DEF PolicyOK, RunOutcome, Outcomes

\* A project that has ended stays in a phase of its outcome.
THEOREM ProjectEndsForGood ==
    ASSUME Kind = "project" PROVE Spec => []EndedStaysEnded
<1>1. Init => EndedStaysEnded
  BY DEF Init, EndedStaysEnded, FreshState
<1>2. TypeOK /\ EndedStaysEnded /\ [Next]_state => EndedStaysEnded'
  <2> SUFFICES ASSUME TypeOK, EndedStaysEnded, [Next]_state PROVE EndedStaysEnded'
    OBVIOUS
  <2>1. ASSUME NEW d \in Admitted(state.phase), Decide(d) PROVE EndedStaysEnded'
    <3>1. d \in DecisionType /\ ContractOK(d) /\ PolicyOK(d) /\ d.from = state.phase
      BY <2>1, AdmittedDecision DEF TypeOK, StateType
    <3>2. /\ state'.phase = d.to
          /\ state'.terminal = IF d.terminal # None THEN d.terminal ELSE state.terminal
      BY <2>1 DEF Decide, Apply
    <3>3. CASE d.terminal # None
      BY <3>1, <3>2, <3>3 DEF ContractOK, TerminalIsExclusive, EndedStaysEnded
    <3>4. CASE d.terminal = None
      <4>1. state.terminal = None
        <5> SUFFICES ASSUME state.terminal # None PROVE FALSE
          OBVIOUS
        <5>1. state.terminal \in Outcomes
          BY DEF TypeOK, StateType, Optional
        <5>2. state.phase \in TerminalPhases(state.terminal)
          BY DEF EndedStaysEnded
        <5> QED
          BY <3>1, <3>4, <5>1, <5>2, ProjectEndDecision
      <4> QED
        BY <3>2, <3>4, <4>1 DEF EndedStaysEnded
    <3> QED
      BY <3>3, <3>4
  <2>2. CASE UNCHANGED state
    BY <2>2 DEF EndedStaysEnded
  <2> QED
    BY <2>1, <2>2 DEF Next
<1> QED
  BY <1>1, <1>2, TypeCorrect, PTL DEF Spec

\* While a project is blocked, status names the owner the blocked phase is for.
THEOREM ProjectStatusNamesOwner ==
    ASSUME Kind = "project" PROVE Spec => []StatusNamesOwner
<1>1. TypeOK /\ BlockerMatchesPhase /\ EndedStaysEnded => StatusNamesOwner
  <2> SUFFICES ASSUME TypeOK, BlockerMatchesPhase, EndedStaysEnded,
                      state.phase \in BlockedPhases
               PROVE  /\ NextTrigger(state) = <<"blocker", state.blocker.owner>>
                      /\ WaitingOn(state).kind = "blocker"
                      /\ WaitingOn(state).on = state.blocker.owner
                      /\ HumanActionRequired(state) <=> state.phase = "BLOCKED_NEEDS_ZO_EL"
    BY DEF StatusNamesOwner, Status
  <2>1. state.blocker # None /\ state.phase = BlockedPhaseFor(state.blocker.owner)
    BY DEF BlockerMatchesPhase
  <2>2. state.terminal = None
    <3>1. \A o \in Outcomes : TerminalPhases(o) \subseteq {"DONE", "COMPLETE", "FAILED", "CANCELLED"}
      BY DEF Outcomes, TerminalPhases
    <3> QED
      BY <3>1, PhasesAssumption DEF EndedStaysEnded, TypeOK, StateType, Optional
  <2> QED
    BY <2>1, <2>2 DEF NextTrigger, WaitingOn, HumanActionRequired, BlockedPhaseFor
<1> QED
  BY <1>1, TypeCorrect, BlockerMatches, ProjectEndsForGood, PTL
=============================================================================
