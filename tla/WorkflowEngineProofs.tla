------------------------ MODULE WorkflowEngineProofs ------------------------
(* Proofs about the bare engine contract, for every set of phases, signals,  *)
(* waits, blockers and evidence.                                             *)
EXTENDS WorkflowEngine, TLAPS

\* What one accepted decision makes of a well-typed record is well typed.
LEMMA ApplyType ==
    ASSUME NEW s \in StateType, NEW d \in DecisionType
    PROVE  Apply(s, d) \in StateType
<1>1. NextWait(s, d) \in Optional(Waits)
  BY DEF NextWait, StateType, DecisionType, Optional
<1>2. NextBlocker(s, d) \in Optional(Blockers)
  BY DEF NextBlocker, StateType, DecisionType, Optional
<1> QED
  BY <1>1, <1>2 DEF Apply, StateType, DecisionType, Optional

\* The records keep their types.
THEOREM TypeCorrect == Spec => []TypeOK
<1>1. Init => TypeOK
  BY InitialAssumption DEF Init, TypeOK, FreshState, StateType, GrantedType, Optional
<1>2. TypeOK /\ [Next]_vars => TypeOK'
  <2> SUFFICES ASSUME TypeOK, [Next]_vars PROVE TypeOK'
    OBVIOUS
  <2>1. ASSUME NEW d \in Decisions, Decide(d) PROVE TypeOK'
    <3>1. d \in DecisionType
      BY DEF Decisions
    <3>2. state' \in StateType
      BY <2>1, <3>1, ApplyType DEF Decide, TypeOK
    <3>3. granted' \in GrantedType
      BY <2>1, <3>1 DEF Decide, TypeOK, GrantedType, DecisionType, Optional
    <3> QED
      BY <3>2, <3>3 DEF TypeOK
  <2>2. CASE UNCHANGED vars
    BY <2>2 DEF vars, TypeOK
  <2> QED
    BY <2>1, <2>2 DEF Next
<1> QED
  BY <1>1, <1>2, PTL DEF Spec

\* Entering or staying in a blocked phase installs the decision's own blocker.
LEMMA BlockedByDecision ==
    ASSUME NEW s \in StateType, NEW d \in Decisions, CanApply(s, d),
           d.to \in BlockedPhases
    PROVE  /\ d.blocker # None
           /\ Apply(s, d).blocker = d.blocker
BY DEF CanApply, Apply, NextBlocker

\* A blocked phase always names the blocker recorded last.
THEOREM BlockedExplained == Spec => []BlockedIsExplained
<1>1. Init => BlockedIsExplained
  BY InitialAssumption DEF Init, BlockedIsExplained, FreshState
<1>2. TypeOK /\ BlockedIsExplained /\ [Next]_vars => BlockedIsExplained'
  <2> SUFFICES ASSUME TypeOK, BlockedIsExplained, [Next]_vars
               PROVE  BlockedIsExplained'
    OBVIOUS
  <2>1. ASSUME NEW d \in Decisions, Decide(d) PROVE BlockedIsExplained'
    <3> SUFFICES ASSUME state'.phase \in BlockedPhases
                 PROVE  state'.blocker # None /\ state'.blocker = granted'.blocker
      BY DEF BlockedIsExplained
    <3>1. d.to \in BlockedPhases
      BY <2>1 DEF Decide, Apply
    <3>2. d.blocker # None /\ state'.blocker = d.blocker
      BY <2>1, <3>1, BlockedByDecision DEF Decide, TypeOK
    <3>3. granted'.blocker = d.blocker
      BY <2>1, <3>2 DEF Decide
    <3> QED
      BY <3>2, <3>3
  <2>2. CASE UNCHANGED vars
    BY <2>2 DEF vars, BlockedIsExplained
  <2> QED
    BY <2>1, <2>2 DEF Next
<1> QED
  BY <1>1, <1>2, TypeCorrect, PTL DEF Spec

\* The wait on record belongs to the present visit to the phase.
THEOREM WaitCurrent == Spec => []WaitIsCurrent
<1>1. Init => WaitIsCurrent
  BY DEF Init, WaitIsCurrent, FreshState
<1>2. WaitIsCurrent /\ [Next]_vars => WaitIsCurrent'
  <2> SUFFICES ASSUME WaitIsCurrent, [Next]_vars PROVE WaitIsCurrent'
    OBVIOUS
  <2>1. ASSUME NEW d \in Decisions, Decide(d) PROVE WaitIsCurrent'
    BY <2>1 DEF Decide, CanApply, Apply, NextWait, WaitIsCurrent
  <2>2. CASE UNCHANGED vars
    BY <2>2 DEF vars, WaitIsCurrent
  <2> QED
    BY <2>1, <2>2 DEF Next
<1> QED
  BY <1>1, <1>2, PTL DEF Spec

\* A blocked workflow resumes only where the blocker on record allows.
THEOREM ResumeRecorded == Spec => ResumeIsRecorded
<1>1. ASSUME TypeOK, BlockedIsExplained, [Next]_vars,
             state.phase \in BlockedPhases, state'.phase \notin BlockedPhases
      PROVE  \/ state'.phase \in granted.blocker.options
             \/ state'.terminal # None /\ state'.phase \in TerminalPhases(state'.terminal)
  <2>1. PICK d \in Decisions : Decide(d)
    BY <1>1 DEF Next, vars
  <2>2. state.blocker = granted.blocker
    BY <1>1 DEF BlockedIsExplained
  <2>3. d.to = state'.phase
    BY <2>1 DEF Decide, Apply
  <2>4. CASE d.terminal = None
    <3>1. ResumesFromBlock(state, d)
      BY <1>1, <2>3, <2>4 DEF ResumesFromBlock
    <3> QED
      BY <2>1, <2>2, <2>3, <3>1 DEF Decide, CanApply
  <2>5. CASE d.terminal # None
    <3>1. state'.terminal = d.terminal
      BY <2>1, <2>5 DEF Decide, Apply
    <3>2. d.to \in TerminalPhases(d.terminal)
      BY <2>5 DEF Decisions, ContractOK, TerminalIsExclusive
    <3> QED
      BY <2>3, <2>5, <3>1, <3>2
  <2> QED
    BY <2>4, <2>5
<1> QED
  BY <1>1, TypeCorrect, BlockedExplained, PTL DEF Spec, ResumeIsRecorded

\* Only a material decision makes the observation count forget, and what it counts
\* is no progress and leaves phase, activity, wait and signal alone.
THEOREM NoOpsHonest == Spec => NoOpsAreHonest
<1> DEFINE Honest == /\ state'.noops < state.noops => granted'.material /\ state'.noops = 0
                     /\ state'.noops > state.noops =>
                           /\ ~granted'.material
                           /\ state'.phase = state.phase
                           /\ state'.activity = None
                           /\ state'.wait = state.wait /\ state'.progress = state.progress
<1>1. TypeOK /\ [Next]_vars => Honest
  <2> SUFFICES ASSUME TypeOK, [Next]_vars PROVE Honest
    OBVIOUS
  <2>0. state.noops \in Nat
    BY DEF TypeOK, StateType
  <2>1. ASSUME NEW d \in Decisions, Decide(d) PROVE Honest
    <3>0. d.from = state.phase
      BY <2>1 DEF Decide, CanApply
    <3>1. state' = Apply(state, d) /\ granted'.material = d.material
      BY <2>1 DEF Decide
    <3>2. CASE d.material
      <4>1. state'.noops = 0
        BY <3>1, <3>2 DEF Apply
      <4> QED
        BY <2>0, <3>1, <3>2, <4>1
    <3>3. CASE IsObservation(d)
      <4>1. d.to = state.phase /\ d.activity = None /\ NextWait(state, d) = state.wait
        BY <3>0, <3>3 DEF IsObservation, NextWait
      <4>2. /\ state'.phase = state.phase /\ state'.activity = None
            /\ state'.wait = state.wait /\ state'.progress = state.progress
            /\ state'.noops = state.noops + 1 /\ ~granted'.material
        BY <3>1, <3>3, <4>1 DEF Apply, IsObservation
      <4> QED
        BY <2>0, <4>2
    <3>4. CASE ~d.material /\ ~IsObservation(d)
      <4>1. state'.noops = state.noops
        BY <3>1, <3>4 DEF Apply
      <4> QED
        BY <2>0, <4>1
    <3> QED
      BY <3>2, <3>3, <3>4
  <2>2. CASE UNCHANGED vars
    <3>1. state' = state
      BY <2>2 DEF vars
    <3> QED
      BY <2>0, <3>1
  <2> QED
    BY <2>1, <2>2 DEF Next
<1> QED
  BY <1>1, TypeCorrect, PTL DEF Spec, NoOpsAreHonest
=============================================================================
