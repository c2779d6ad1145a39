--------------------------- MODULE ProjectHostProofs ---------------------------
(* Proofs about the project driver and its gates under its host, for every set *)
(* of dossiers, authorizations, waits and tasks, whether a proposal is required *)
(* or not, in driver test or not.                                              *)
EXTENDS ProjectRun, DriverDecisionsProofs

-----------------------------------------------------------------------------
(* The shapes of an answer *)

\* A blocker of the driver: for the person its category names, resuming in one
\* of its options, raised where the project was not blocked ...
Owned(b) ==
    /\ b # None
    /\ BlockedPhaseFor(b.owner) = (IF EscalationOwner(b) = "EL_LE"
                                   THEN "BLOCKED_NEEDS_EL_LE" ELSE "BLOCKED_NEEDS_ZO_EL")
    /\ b.resume \in b.options
    /\ b.blockedPhase \notin BlockedNames

\* The phases of a project whose change artifact is open for a review.
OpenPhases == {"PR_OPEN", "REVIEW_REQUESTED", "REVIEW_WAIT"}

\* ... resuming in execution, or in a review, only if it was raised there, and, if
\* it names the phase it was raised in, of an owner of that phase unless the
\* project is at its end.
Raised(phase, b) ==
    /\ Owned(b)
    /\ b.options \cap BuiltPhases # {} => phase \in BuiltPhases
    /\ b.options \cap OpenPhases # {} => phase \in OpenPhases
    /\ b.options \subseteq ProjectPhases
    /\ b.blockedPhase = phase =>
          (<<phase, b.owner>> \in ProjectOwners <=> phase \notin {"FINAL_REPORT", "DONE"})

Repeats(s, in, d) == s.blocker # None /\ d = BlockedDecision(s.phase, s.blocker, in.wait)

Raises(s, d) ==
    /\ s.blocker = None /\ s.phase \notin BlockedNames
    /\ \E b : Raised(s.phase, b) /\ d = Block(s.phase, BlockedPhaseFor(b.owner), b)

Pauses(s, in, d) ==
    /\ s.blocker = None /\ s.phase \notin BlockedNames /\ in.wait # None
    /\ \E to \in {s.phase, "REVIEW_WAIT"} :
          /\ to # s.phase => s.phase = "REVIEW_REQUESTED"
          /\ d = Wait(s.phase, to, in.wait, None)

Ends(s, d) ==
    /\ s.blocker = None /\ s.phase \in {"FINAL_REPORT", "DONE"} /\ AcceptanceOK(s.dossier)
    /\ d = Move(s.phase, "DONE", IF s.phase = "FINAL_REPORT" THEN "FINAL_REPORT_DELIVERED" ELSE None,
                FALSE, {}, "DONE")

Moves(s, in, d) ==
    /\ s.blocker = None /\ s.phase \notin BlockedNames
    /\ \E next \in ProjectPhases \ (BlockedNames \cup {s.phase, "REVIEW_WAIT", "DONE"}),
          signal \in MaterialSignals \ BlockedSignals :
          /\ <<s.phase, signal>> \in ProjectProgress
          /\ next \in BuiltPhases => s.phase \in BuiltPhases \/ next = "TASK_EXECUTION"
          /\ next = "TASK_EXECUTION" => s.phase = "TASK_BREAKDOWN" /\ DOMAIN s.tasks # {}
          /\ next = "PR_OPEN"
                => s.phase = "TASK_EXECUTION" /\ TaskPhasesOf(s) \subseteq {"COMPLETE"}
          /\ next = "REVIEW_REQUESTED" => s.phase = "PR_OPEN"
          /\ GateFailures(s.dossier, s.phase, next, in.candidate, in.auth, in.testMode) = {}
          /\ d = Move(s.phase, next, signal, CarriesAuthorization(next, in), {}, None)

ShapeOf(s, in, d) ==
    Repeats(s, in, d) \/ Raises(s, d) \/ Pauses(s, in, d) \/ Ends(s, d) \/ Moves(s, in, d)

\* The transitions of the driver, one by one.
LEMMA LineTransition ==
    ASSUME NEW s, NEW next, next = NextProjectPhase(s), next # s.phase
    PROVE  /\ next \in ProjectPhases \ BlockedNames
           /\ s.phase \in {"PROJECT_INTAKE_ASSIGNED", "PLANNING", "PLAN_REVIEW", "PLAN_RETHINK",
                           "TASK_BREAKDOWN", "TASK_EXECUTION", "PR_OPEN", "REVIEW_REQUESTED",
                           "FINAL_REPORT"}
           /\ next = "DONE" <=> s.phase = "FINAL_REPORT"
           /\ next = "REVIEW_WAIT" <=> s.phase = "REVIEW_REQUESTED"
           /\ next \in BuiltPhases => s.phase \in BuiltPhases \/ next = "TASK_EXECUTION"
           /\ next = "TASK_EXECUTION" => s.phase = "TASK_BREAKDOWN" /\ DOMAIN s.tasks # {}
           /\ next = "PR_OPEN"
                => s.phase = "TASK_EXECUTION" /\ TaskPhasesOf(s) \subseteq {"COMPLETE"}
           /\ next = "REVIEW_REQUESTED" => s.phase = "PR_OPEN"
           /\ s.phase \notin {"REVIEW_REQUESTED", "FINAL_REPORT"}
                => /\ ProjectSignal(s.phase, next) \in MaterialSignals \ BlockedSignals
                   /\ <<s.phase, ProjectSignal(s.phase, next)>> \in ProjectProgress
<1> DEFINE Signalled == s.phase \notin {"REVIEW_REQUESTED", "FINAL_REPORT"}
                           => <<s.phase, ProjectSignal(s.phase, next)>> \in ProjectProgress
<1>1. CASE s.phase \in DOMAIN ProjectLine
  <2>1. Signalled
    BY <1>1 DEF NextProjectPhase, ProjectLine, ProjectSignal, ProjectProgress
  <2> QED
    BY <1>1, <2>1 DEF NextProjectPhase, ProjectLine, ProjectPhases, BuiltPhases, BlockedNames,
       ProjectSignal, MaterialSignals, BlockedSignals
<1>2. CASE s.phase \notin DOMAIN ProjectLine
  <2>1. Signalled
    BY <1>2 DEF NextProjectPhase, AfterExecution, ProjectLine, ProjectSignal, ProjectProgress
  <2> QED
    BY <1>2, <2>1 DEF NextProjectPhase, AfterExecution, ProjectLine, ProjectPhases, BuiltPhases,
       BlockedNames, ProjectSignal, MaterialSignals, BlockedSignals
<1> QED
  BY <1>1, <1>2

\* A gate that fails raises a blocker.
LEMMA GateRaises ==
    ASSUME NEW phase \in {"PROJECT_INTAKE_ASSIGNED", "PLANNING", "PLAN_REVIEW", "PLAN_RETHINK",
                          "TASK_BREAKDOWN", "TASK_EXECUTION", "PR_OPEN"},
           NEW failures
    PROVE  Raised(phase, GateBlocker(phase, failures))
<1> DEFINE b == GateBlocker(phase, failures)
<1>0. phase \in ProjectPhases \ BlockedNames
  BY DEF ProjectPhases, BlockedNames
<1>1. b # None
  BY <1>0, RaisedAssumption DEF GateBlocker, Roles, ProjectPhases
<1>2. /\ b.options \cap BuiltPhases = {} /\ b.options \cap OpenPhases = {} /\ b.resume \in b.options
      /\ b.options \subseteq ProjectPhases /\ b.blockedPhase = phase
  BY DEF GateBlocker, BuiltPhases, OpenPhases, ProjectPhases
<1>4. b.owner \in ProcessOrHuman
  BY DEF GateBlocker, ProcessOrHuman
<1>5. <<phase, b.owner>> \in ProjectOwners /\ phase \notin {"FINAL_REPORT", "DONE"}
  BY <1>4 DEF ProjectOwners
<1>3. BlockedPhaseFor(b.owner) = (IF EscalationOwner(b) = "EL_LE"
                                  THEN "BLOCKED_NEEDS_EL_LE" ELSE "BLOCKED_NEEDS_ZO_EL")
  BY DEF GateBlocker, BlockedPhaseFor, EscalationOwner
<1> QED
  BY <1>0, <1>1, <1>2, <1>3, <1>5 DEF Raised, Owned

\* So does a verification that found no trigger.
LEMMA TriggerRaises ==
    ASSUME NEW v, TriggerBlocker(v, "REVIEW_WAIT") # None
    PROVE  Raised("REVIEW_REQUESTED", TriggerBlocker(v, "REVIEW_WAIT"))
<1> DEFINE b == TriggerBlocker(v, "REVIEW_WAIT")
<1>1. /\ "REVIEW_REQUESTED" \in BuiltPhases \cap ProjectPhases \cap OpenPhases
      /\ "REVIEW_WAIT" \notin BlockedNames
  BY DEF BuiltPhases, OpenPhases, ProjectPhases, BlockedNames
<1>2. BlockedPhaseFor(b.owner) = (IF EscalationOwner(b) = "EL_LE"
                                  THEN "BLOCKED_NEEDS_EL_LE" ELSE "BLOCKED_NEEDS_ZO_EL")
  BY DEF TriggerBlocker, BlockedPhaseFor, EscalationOwner
<1>3. b.resume \in b.options /\ b.options = {"REVIEW_REQUESTED"} /\ b.blockedPhase = "REVIEW_WAIT"
  BY DEF TriggerBlocker
<1> QED
  BY <1>1, <1>2, <1>3 DEF Raised, Owned

\* At the end the project is accepted, or a blocker is raised.
LEMMA DoneShapes ==
    ASSUME NEW s, s.blocker = None, s.phase \in {"FINAL_REPORT", "DONE"},
           NEW d, d = DoneDecision(s)
    PROVE  Raises(s, d) \/ Ends(s, d)
<1>1. s.phase \in ProjectPhases \ BlockedNames /\ s.phase \in BuiltPhases
  BY DEF ProjectPhases, BlockedNames, BuiltPhases
<1>2. CASE AcceptanceOK(s.dossier)
  BY <1>1, <1>2 DEF DoneDecision, Ends
<1>3. CASE ~AcceptanceOK(s.dossier)
  <2> DEFINE b == [owner |-> "human_approver", category |-> "human_authority",
                   blockedPhase |-> s.phase, resume |-> "FINAL_REPORT",
                   options |-> {"FINAL_REPORT", "PLAN_RETHINK"}]
  <2>1. b # None
    BY <1>1, RaisedAssumption DEF Roles, ProjectPhases
  <2>2. Owned(b) /\ BlockedPhaseFor(b.owner) = "BLOCKED_NEEDS_ZO_EL"
    BY <1>1, <2>1 DEF Owned, BlockedPhaseFor, EscalationOwner
  <2>4. b.options \subseteq ProjectPhases /\ b.options \cap OpenPhases = {}
    BY DEF ProjectPhases, OpenPhases
  <2>5. <<s.phase, b.owner>> \notin ProjectOwners
    BY DEF ProjectOwners, ProcessOrHuman, BlockedNames
  <2>6. Raised(s.phase, b)
    BY <1>1, <2>2, <2>4, <2>5 DEF Raised
  <2>3. d = Block(s.phase, "BLOCKED_NEEDS_ZO_EL", b)
    BY <1>3 DEF DoneDecision
  <2> QED
    BY <1>1, <2>2, <2>3, <2>6 DEF Raises
<1> QED
  BY <1>2, <1>3

\* Every answer of the project driver has one of the listed shapes.
LEMMA AnswerShapes ==
    ASSUME NEW s, s.phase \in BlockedNames => s.blocker # None,
           NEW in, in.trigger \in Optional(Verdicts),
           NEW d, d = DecideProject(s, in), d # None
    PROVE  ShapeOf(s, in, d)
<1> DEFINE next     == NextProjectPhase(s)
           failures == GateFailures(s.dossier, s.phase, next, in.candidate, in.auth, in.testMode)
<1>1. CASE s.blocker # None
  BY <1>1 DEF DecideProject, Repeats, ShapeOf
<1>2. CASE s.blocker = None /\ failures # {}
  <2>1. next # s.phase
    BY <1>2 DEF GateFailures
  <2>4. next \in GatedPhases \cup AuthorizedPhases
    BY <1>2, <2>1 DEF GateFailures, Failure
  <2>2. s.phase \in {"PROJECT_INTAKE_ASSIGNED", "PLANNING", "PLAN_REVIEW", "PLAN_RETHINK",
                     "TASK_BREAKDOWN", "TASK_EXECUTION", "PR_OPEN"}
    BY <2>1, <2>4, LineTransition DEF GatedPhases, AuthorizedPhases
  <2>3. d = Block(s.phase, BlockedPhaseFor(GateBlocker(s.phase, failures).owner),
                  GateBlocker(s.phase, failures))
    BY <1>2 DEF DecideProject
  <2>5. Raised(s.phase, GateBlocker(s.phase, failures)) /\ s.phase \notin BlockedNames
    BY <2>2, GateRaises DEF BlockedNames
  <2> QED
    BY <1>2, <2>3, <2>5 DEF Raises, ShapeOf
<1>3. CASE s.blocker = None /\ failures = {} /\ next = "DONE"
  <2>1. s.phase \in {"FINAL_REPORT", "DONE"}
    BY <1>3, LineTransition
  <2>2. d = DoneDecision(s)
    BY <1>3 DEF DecideProject
  <2> QED
    BY <1>3, <2>1, <2>2, DoneShapes DEF ShapeOf
<1>4. CASE s.blocker = None /\ failures = {} /\ next # "DONE" /\ s.phase = "REVIEW_REQUESTED"
  <2>1. d = ReviewDecision(in.wait, in.trigger)
    BY <1>4 DEF DecideProject
  <2>2. CASE in.wait # None /\ d = Wait("REVIEW_REQUESTED", "REVIEW_WAIT", in.wait, None)
    BY <1>4, <2>2 DEF Pauses, ShapeOf
  <2>3. CASE TriggerBlocker(in.trigger, "REVIEW_WAIT") # None
             /\ d = Block("REVIEW_REQUESTED",
                          BlockedPhaseFor(TriggerBlocker(in.trigger, "REVIEW_WAIT").owner),
                          TriggerBlocker(in.trigger, "REVIEW_WAIT"))
    BY <1>4, <2>3, TriggerRaises DEF Raises, ShapeOf
  <2> QED
    BY <2>1, <2>2, <2>3, TriggerAssumption DEF ReviewDecision, CanWaitForReview, WaitOrRaise, Optional, ShapeOf
<1>5. CASE /\ s.blocker = None /\ failures = {} /\ next # "DONE" /\ s.phase # "REVIEW_REQUESTED"
           /\ next = s.phase
  BY <1>5 DEF DecideProject, WaitOrRaise, Pauses, ShapeOf
<1>6. CASE /\ s.blocker = None /\ failures = {} /\ next # "DONE" /\ s.phase # "REVIEW_REQUESTED"
           /\ next # s.phase
  <2>1. d = Move(s.phase, next, ProjectSignal(s.phase, next),
                 CarriesAuthorization(next, in), {}, None)
    BY <1>6 DEF DecideProject
  <2> QED
    BY <1>6, <2>1, LineTransition DEF Moves, ShapeOf
<1> QED
  BY <1>1, <1>2, <1>3, <1>4, <1>5, <1>6 DEF ShapeOf

-----------------------------------------------------------------------------
(* Every answer of the driver applies; every blocker reaches its person *)

\* A project is in a blocked phase exactly when it has a blocker on record, and
\* then in that of the blocker's owner.
Routed ==
    /\ record.phase \in BlockedNames => record.blocker # None
    /\ record.blocker # None => /\ Owned(record.blocker)
                                /\ record.phase = BlockedPhaseFor(record.blocker.owner)

\* What is the same in every decision of a host: it is a material one, without a
\* blocker or an end, so it can only lead out of a blocked phase.
LEMMA HostDecision ==
    ASSUME Routed, NEW from, NEW to, NEW signal,
           Record(Move(from, to, signal, FALSE, {}, None))
    PROVE  /\ record'.phase = to /\ to \notin BlockedNames /\ record'.blocker = None
           /\ record'.terminal = record.terminal
           /\ record.phase \in BlockedNames => to \in record.blocker.options
BY ProjectAssumption, BlockedRoute
   DEF Routed, Record, CanApply, ResumesFromBlock, Apply, NextBlocker, ClearsBlocker, Move

\* The driver is handed the phase on record, and a blocker when it is a blocked one.
LEMMA ProjectOfRecord ==
    ASSUME Routed
    PROVE  /\ Project.phase = record.phase /\ Project.blocker = record.blocker
           /\ Project.dossier = dossier
           /\ Project.phase \in BlockedNames => Project.blocker # None
BY DEF Project, Routed

\* The fields of an input the driver looks at.
LEMMA InputFields ==
    ASSUME NEW in \in Inputs
    PROVE  in.wait \in Optional(Waits) /\ in.trigger \in Optional(Verdicts) /\ in.testMode = TestMode
BY DEF Inputs

\* A tick of a project, by the shape of the answer.
LEMMA TickShape ==
    ASSUME Routed, NEW in \in Inputs, NEW d, d = DecideProject(Project, in), d # None
    PROVE  ShapeOf(Project, in, d)
BY ProjectOfRecord, InputFields, AnswerShapes

\* Every answer can be built, keeps a blocker on record or raises one of its own
\* outside the blocked phases.
LEMMA TickDecision ==
    ASSUME Routed, NEW in \in Inputs, NEW d, d = DecideProject(Project, in), d # None
    PROVE  /\ ContractOK(d) /\ d.from = record.phase
           /\ \/ /\ record.phase \in BlockedNames /\ d.to = record.phase
                 /\ d.blocker = record.blocker /\ d.terminal = None
              \/ /\ record.phase \notin BlockedNames /\ d.to = BlockedPhaseFor(d.blocker.owner)
                 /\ Raised(record.phase, d.blocker) /\ d.terminal = None
              \/ /\ record.phase \notin BlockedNames /\ d.to \notin BlockedNames
                 /\ d.blocker = None
<1> DEFINE s == Project
<1>0. /\ s.phase = record.phase /\ s.blocker = record.blocker
      /\ s.phase \in BlockedNames => s.blocker # None
      /\ s.blocker # None => s.phase = BlockedPhaseFor(s.blocker.owner)
  BY ProjectOfRecord DEF Routed
<1>1. ShapeOf(s, in, d)
  BY TickShape
<1> HIDE DEF s
<1>2. CASE Repeats(s, in, d)
  <2>1. s.phase \in BlockedNames
    BY <1>0, <1>2, BlockedRoute DEF Repeats
  <2>2. in.wait # None /\ d = Wait(s.phase, s.phase, in.wait, s.blocker)
    BY <1>0, <1>2, BlockedAnswer DEF Repeats
  <2>3. ContractOK(d)
    BY <1>2, <2>2, WaitContract DEF Repeats
  <2> QED
    BY <1>0, <2>1, <2>2, <2>3 DEF Wait
<1>3. CASE Raises(s, d)
  <2>1. PICK b : Raised(s.phase, b) /\ d = Block(s.phase, BlockedPhaseFor(b.owner), b)
    BY <1>3 DEF Raises
  <2>2. b # None
    BY <2>1 DEF Raised, Owned
  <2>3. ContractOK(d)
    BY <2>1, <2>2, BlockContract
  <2> QED
    BY <1>0, <1>3, <2>1, <2>3, BlockFields DEF Raises
<1>4. CASE Pauses(s, in, d)
  <2>1. PICK to : /\ to \in {s.phase, "REVIEW_WAIT"}
                  /\ d = Wait(s.phase, to, in.wait, None)
    BY <1>4 DEF Pauses
  <2>2. to \notin BlockedNames /\ s.phase \notin BlockedNames /\ in.wait # None
    BY <1>4, <2>1 DEF Pauses, BlockedNames
  <2>3. ContractOK(d)
    BY <2>1, <2>2, WaitContract, ProjectAssumption
  <2> QED
    BY <1>0, <2>1, <2>2, <2>3 DEF Wait
<1>5. CASE Ends(s, d)
  <2>1. PICK signal \in {"FINAL_REPORT_DELIVERED", None} :
            d = Move(s.phase, "DONE", signal, FALSE, {}, "DONE")
    BY <1>5 DEF Ends
  <2>2. s.phase \notin BlockedNames /\ "DONE" \notin BlockedNames
    BY <1>5 DEF Ends, BlockedNames
  <2>3. signal \notin WaitSignals /\ signal \notin BlockedSignals /\ "DONE" # None
    BY NoneAssumption, SignalAssumption DEF WaitSignals, BlockedSignals, Outcomes, MaterialSignals
  <2>4. ContractOK(d)
    BY <2>1, <2>2, <2>3, ProjectAssumption DEF ContractOK, Move, SamePhaseIsExplained,
       WaitSignalIsBacked, SignalMatchesMateriality, CarriesProgress, TerminalIsExclusive,
       TerminalPhases, BlockedIsBacked
  <2> QED
    BY <1>0, <2>1, <2>2, <2>4 DEF Move
<1>6. CASE Moves(s, in, d)
  <2>1. PICK next \in ProjectPhases \ BlockedNames, signal \in MaterialSignals \ BlockedSignals :
            d = Move(s.phase, next, signal, CarriesAuthorization(next, in), {}, None)
    BY <1>6 DEF Moves
  <2>2. s.phase \notin BlockedNames
    BY <1>6 DEF Moves
  <2>3. signal # None /\ signal \notin WaitSignals
    BY SignalAssumption DEF MaterialSignals, WaitSignals
  <2>4. ContractOK(d)
    BY <2>1, <2>2, <2>3, ProjectAssumption DEF ContractOK, Move, SamePhaseIsExplained,
       WaitSignalIsBacked, SignalMatchesMateriality, CarriesProgress, TerminalIsExclusive,
       BlockedIsBacked
  <2> QED
    BY <1>0, <2>1, <2>2, <2>4 DEF Move
<1> QED
  BY <1>1, <1>2, <1>3, <1>4, <1>5, <1>6 DEF ShapeOf

\* Whoever steps, the project stays in the phase its blocker belongs to.
LEMMA RoutedStep ==
    ASSUME Routed, [Next]_record
    PROVE  Routed'
<1>1. ASSUME NEW in \in Inputs, Tick(in) PROVE Routed'
  <2> DEFINE d == DecideProject(Project, in)
  <2>1. d # None /\ record' = Apply(record, d)
    BY <1>1 DEF Tick, Record
  <2> HIDE DEF d
  <2>2. \/ /\ record.phase \in BlockedNames /\ d.to = record.phase
           /\ d.blocker = record.blocker
        \/ d.to = BlockedPhaseFor(d.blocker.owner) /\ Owned(d.blocker)
        \/ /\ record.phase \notin BlockedNames /\ d.to \notin BlockedNames
           /\ d.blocker = None
    BY <2>1, TickDecision DEF Raised, d
  <2>3. record'.phase = d.to /\ record'.blocker = NextBlocker(record, d)
    BY <2>1 DEF Apply
  <2>4. record.blocker # None => record.phase \in BlockedNames
    BY BlockedRoute DEF Routed
  <2> QED
    BY <2>2, <2>3, <2>4 DEF Routed, NextBlocker, Owned
<1>2. ASSUME NEW from, NEW to, NEW signal, Record(Move(from, to, signal, FALSE, {}, None))
      PROVE  Routed'
  BY <1>2, HostDecision DEF Routed
<1>3. CASE UNCHANGED record
  BY <1>3 DEF Routed
<1> QED
  BY <1>1, <1>2, <1>3 DEF Next, Route, Resolve, PlanTasks, ReturnTask, RepairTask, OpenPR,
     ReviseDossier, Revise, FileReport

\* A new project has no blocker and is in no blocked phase.
LEMMA RoutedInit == Init => Routed
BY DEF Init, FreshState, Routed, BlockedNames

\* A project is blocked exactly when a routed blocker is on record.
LEMMA RoutedInvariant == Spec => []Routed
<1>1. [Next]_vars => [Next]_record
  BY DEF vars
<1>2. Routed /\ [Next]_record => Routed'
  BY RoutedStep
<1> QED
  BY <1>1, <1>2, RoutedInit, PTL DEF Spec

\* What the driver answers a routed project can be built and applied.
LEMMA RoutedApplies == Routed => DriverDecisionsApply
<1> SUFFICES ASSUME Routed, NEW in \in Inputs, NEW d, d = DecideProject(Project, in), d # None
             PROVE  ContractOK(d) /\ CanApply(record, d)
  BY DEF DriverDecisionsApply, Answers
<1>1. \/ d.to \notin BlockedNames \/ d.blocker # None
  BY TickDecision DEF Raised, Owned, Routed
<1>2. record.phase \in BlockedNames => d.to \in BlockedNames
  BY TickDecision
<1> QED
  BY <1>1, <1>2, TickDecision, ProjectAssumption DEF CanApply, ResumesFromBlock

\* Whatever the project driver answers can be built and applied.
THEOREM DriverApplies == Spec => []DriverDecisionsApply
BY RoutedApplies, RoutedInvariant, PTL

\* Every blocker of a project reaches the person its category names, and resumes
\* where it says.
THEOREM BlockersRouted == Spec => []BlockersAreRouted
<1>1. Routed => BlockersAreRouted
  BY DEF Routed, Owned, BlockersAreRouted
<1> QED
  BY <1>1, RoutedInvariant, PTL

-----------------------------------------------------------------------------
(* Driver and template *)

\* What the policy says of the shapes of a decision.
LEMMA PolicyOnMove ==
    ASSUME NEW from \in ProjectPhases, NEW to, NEW auth,
           NEW signal \in MaterialSignals \ BlockedSignals, <<from, signal>> \in ProjectProgress
    PROVE  PolicyOK(Move(from, to, signal, auth, {}, None))
<1>1. signal # None /\ signal \notin WaitSignals
  BY SignalAssumption DEF MaterialSignals, WaitSignals
<1>2. "DONE" # None
  BY NoneAssumption DEF Outcomes
<1> QED
  BY <1>1, <1>2, ProjectAssumption DEF PolicyOK, Move, WaitIsAllowed, SignalIsAllowed,
     ThresholdIsAllowed, BlockerIsAllowed, TerminalIsAllowed, RunOutcome, Progress, TemplatePhases

\* The template admits the end the driver decides.
LEMMA PolicyOnEnd ==
    ASSUME NEW from \in {"FINAL_REPORT", "DONE"}
    PROVE  PolicyOK(Move(from, "DONE",
                         IF from = "FINAL_REPORT" THEN "FINAL_REPORT_DELIVERED" ELSE None,
                         FALSE, {}, "DONE"))
<1> DEFINE signal == IF from = "FINAL_REPORT" THEN "FINAL_REPORT_DELIVERED" ELSE None
           d      == Move(from, "DONE", signal, FALSE, {}, "DONE")
<1>1. /\ d.from = from /\ d.signal = signal /\ d.wait = None /\ d.blocker = None
      /\ d.terminal = "DONE"
  BY DEF Move
<1>2. from \in ProjectPhases /\ <<from, "DONE">> \in ProjectTerminal
  BY DEF ProjectPhases, ProjectTerminal
<1>3. signal # None => <<from, signal>> \in ProjectProgress
  BY DEF ProjectProgress
<1>4. RunOutcome(d) # "STALLED"
  BY <1>1 DEF RunOutcome
<1> HIDE DEF d, signal
<1>5. PolicyOK(d)
  BY <1>1, <1>2, <1>3, <1>4, ProjectAssumption DEF PolicyOK, WaitIsAllowed, SignalIsAllowed,
     ThresholdIsAllowed, BlockerIsAllowed, TerminalIsAllowed, Progress, Terminal, TemplatePhases
<1> QED
  BY <1>5 DEF d, signal

\* The template admits a blocker exactly when the phase left is named as
\* blocked and lists its owner.
LEMMA PolicyOnBlock ==
    ASSUME NEW from \in ProjectPhases, NEW b, b # None, b.resume \in b.options,
           b.options \subseteq ProjectPhases
    PROVE  PolicyOK(Block(from, BlockedPhaseFor(b.owner), b))
           <=> <<from, b.owner>> \in ProjectOwners /\ b.blockedPhase = from
<1> DEFINE d == Block(from, BlockedPhaseFor(b.owner), b)
<1>1. /\ d.from = from /\ d.to = BlockedPhaseFor(b.owner)
      /\ d.signal = "BLOCKER_CREATED" /\ d.wait = None
      /\ d.blocker = b /\ d.terminal = None
  BY BlockFields
<1>2. "DONE" # None
  BY NoneAssumption DEF Outcomes
<1>3. d.signal \in BlockedSignals /\ RunOutcome(d) # "STALLED"
  BY <1>1, <1>2 DEF BlockedSignals, RunOutcome
<1> HIDE DEF d
<1>4. PolicyOK(d) <=> <<from, b.owner>> \in ProjectOwners /\ b.blockedPhase = from
  BY <1>1, <1>3, ProjectAssumption DEF PolicyOK, WaitIsAllowed, SignalIsAllowed,
     ThresholdIsAllowed, BlockerIsAllowed, TerminalIsAllowed, TemplatePhases, Owners
<1> QED
  BY <1>4 DEF d

\* A wait that does not repeat a blocker, to be answered by the steward or retried.
LEMMA PolicyOnWait ==
    ASSUME NEW from, NEW to, NEW wait \in Waits, from \notin BlockedNames,
           wait.response \in {"BLOCKED_NEEDS_EL_LE", "RETRY_SCHEDULED"}
    PROVE  PolicyOK(Wait(from, to, wait, None))
           <=> /\ from \in Waiting
               /\ ~ (wait.response = "BLOCKED_NEEDS_EL_LE"
                     /\ from \in {"PROOF_AUTH_WAIT", "FEEDBACK_WAIT"})
<1>1. wait # None /\ "DONE" # None
  BY NoneAssumption DEF Outcomes
<1>2. "WAIT_TIMER_STARTED" \in WaitSignals \ (MaterialSignals \cup BlockedSignals)
  BY DEF WaitSignals, BlockedSignals, MaterialSignals
<1>3. from \in Waiting
      => (<<from, "process_steward">> \in Owners <=> from \notin {"PROOF_AUTH_WAIT", "FEEDBACK_WAIT"})
  BY ProjectAssumption DEF Waiting, ProjectWaiting, Owners, ProjectOwners, ProcessOrHuman,
     BlockedNames, Roles
<1>4. from \in Waiting => from \in ProjectPhases
  BY ProjectAssumption DEF Waiting, ProjectWaiting, ProjectPhases
<1> QED
  BY <1>1, <1>2, <1>3, <1>4, ProjectAssumption DEF PolicyOK, Wait, WaitIsAllowed, SignalIsAllowed,
     ThresholdIsAllowed, BlockerIsAllowed, TerminalIsAllowed, RunOutcome, TemplatePhases,
     BlockedNames, ThresholdOwner

\* Driver and template agree but for OutsideTemplate, for waits that fall to the
\* steward or are retried.
THEOREM TemplateAdmits ==
    ASSUME \A w \in Waits : w.response \in {"BLOCKED_NEEDS_EL_LE", "RETRY_SCHEDULED"}
    PROVE  Spec => []TemplateAdmitsDriver
<1>1. Routed => TemplateAdmitsDriver
  <2> SUFFICES ASSUME Routed, NEW in \in Inputs, NEW d, d = DecideProject(Project, in), d # None
               PROVE  PolicyOK(d) <=> ~OutsideTemplate(d)
    BY DEF TemplateAdmitsDriver, Answers
  <2> DEFINE s == Project
  <2>0. s.phase = record.phase /\ s.blocker = record.blocker
    BY ProjectOfRecord
  <2>1. ShapeOf(s, in, d)
    BY TickShape
  <2>2. in.wait # None => in.wait \in Waits
    BY InputFields DEF Optional
  <2> HIDE DEF s
  <2>3. CASE Repeats(s, in, d)
    <3>1. Owned(s.blocker) /\ s.phase = BlockedPhaseFor(s.blocker.owner)
      BY <2>0, <2>3 DEF Routed, Repeats
    <3>2. d = Wait(s.phase, s.phase, in.wait, s.blocker)
      BY <2>3, <3>1, BlockedAnswer DEF Repeats
    <3>3. d.from = s.phase /\ d.blocker = s.blocker /\ d.blocker # None
      BY <2>3, <3>2 DEF Wait, Repeats
    <3>4. d.blocker.blockedPhase # d.from
      BY <3>1, <3>3, BlockedRoute DEF Owned
    <3> QED
      BY <3>3, <3>4 DEF PolicyOK, BlockerIsAllowed, OutsideTemplate
  <2>4. CASE Raises(s, d)
    <3>1. PICK b : Raised(s.phase, b) /\ d = Block(s.phase, BlockedPhaseFor(b.owner), b)
      BY <2>4 DEF Raises
    <3>2. d.from = s.phase /\ d.blocker = b /\ d.blocker # None /\ d.wait = None
      BY <3>1, BlockFields DEF Raised, Owned
    <3>3. CASE b.blockedPhase # s.phase
      BY <3>2, <3>3 DEF PolicyOK, BlockerIsAllowed, OutsideTemplate
    <3>4. CASE b.blockedPhase = s.phase
      <4>1. <<s.phase, b.owner>> \in ProjectOwners <=> s.phase \notin {"FINAL_REPORT", "DONE"}
        BY <3>1, <3>4 DEF Raised
      <4>2. s.phase \in ProjectPhases
        BY <4>1 DEF ProjectOwners, ProjectPhases
      <4>3. PolicyOK(d) <=> <<s.phase, b.owner>> \in ProjectOwners /\ b.blockedPhase = s.phase
        BY <3>1, <4>2, PolicyOnBlock DEF Raised, Owned
      <4> QED
        BY <3>2, <3>4, <4>1, <4>3 DEF OutsideTemplate
    <3> QED
      BY <3>3, <3>4
  <2>5. CASE Pauses(s, in, d)
    <3>1. PICK to : d = Wait(s.phase, to, in.wait, None)
      BY <2>5 DEF Pauses
    <3>2. in.wait \in Waits /\ s.phase \notin BlockedNames
      BY <2>2, <2>5 DEF Pauses
    <3>3. PolicyOK(d) <=> /\ s.phase \in Waiting
                          /\ ~ (in.wait.response = "BLOCKED_NEEDS_EL_LE"
                                /\ s.phase \in {"PROOF_AUTH_WAIT", "FEEDBACK_WAIT"})
      BY <3>1, <3>2, PolicyOnWait
    <3>4. d.from = s.phase /\ d.blocker = None /\ d.wait = in.wait /\ d.wait # None
      BY <2>5, <3>1 DEF Wait, Pauses
    <3> QED
      BY <3>3, <3>4 DEF OutsideTemplate
  <2>6. CASE Ends(s, d)
    <3>1. PolicyOK(d)
      BY <2>6, PolicyOnEnd DEF Ends
    <3>2. d.blocker = None /\ d.wait = None
      BY <2>6 DEF Ends, Move
    <3> QED
      BY <3>1, <3>2 DEF OutsideTemplate
  <2>7. CASE Moves(s, in, d)
    <3>1. PICK next \in ProjectPhases, signal \in MaterialSignals \ BlockedSignals :
               /\ <<s.phase, signal>> \in ProjectProgress
               /\ d = Move(s.phase, next, signal, CarriesAuthorization(next, in), {}, None)
      BY <2>7 DEF Moves
    <3>2. s.phase \in ProjectPhases
      BY <3>1 DEF ProjectProgress, ProjectPhases
    <3>3. PolicyOK(d) /\ d.blocker = None /\ d.wait = None
      BY <3>1, <3>2, PolicyOnMove DEF Move
    <3> QED
      BY <3>3 DEF OutsideTemplate
  <2> QED
    BY <2>1, <2>3, <2>4, <2>5, <2>6, <2>7 DEF ShapeOf
<1> QED
  BY <1>1, RoutedInvariant, PTL

-----------------------------------------------------------------------------
(* What is built is what was approved *)

\* ImplementationIsApproved and ReviewedIsAuthorized speak of one phase; what they
\* say of it holds from the gate before TASK_EXECUTION to the end.
Approved ==
    /\ built.candidate # None
    /\ SameSurface(built.candidate, dossier.binding.target)
    /\ Sourced(built.candidate)
    /\ dossier.approval # None
    /\ dossier.approval.proposal = dossier.binding.proposal

Authorized == dossier.binding # None => built.version = dossier.binding.version

Vouched == (Required => Approved) /\ (TestMode => Authorized)

\* A blocked project counts as in execution if it may resume there.
InExecution ==
    \/ record.phase \in BuiltPhases
    \/ record.blocker # None /\ record.blocker.options \cap BuiltPhases # {}

BuiltIsVouched ==
    /\ DOMAIN dossier = {"required", "discovery", "approval", "binding", "report"}
    /\ dossier.required = Required
    /\ InExecution => Vouched

\* The gate before TASK_EXECUTION.
LEMMA GateVouches ==
    ASSUME dossier.required = Required, NEW in \in Inputs,
           GateFailures(dossier, "TASK_BREAKDOWN", "TASK_EXECUTION",
                        in.candidate, in.auth, in.testMode) = {},
           UNCHANGED dossier,
           built' = [candidate |-> in.candidate,
                     version   |-> IF CarriesAuthorization("TASK_EXECUTION", in)
                                   THEN in.auth.version ELSE None]
    PROVE  Vouched'
<1>1. ASSUME Required PROVE Approved'
  <2>1. ProposalFailures(dossier) = {} /\ CandidateFailures(dossier, in.candidate) = {}
    BY <1>1 DEF GateFailures, GatedPhases
  <2>2. dossier.binding # None /\ BindingFailures(dossier) = {}
    BY <1>1, <2>1 DEF ProposalFailures
  <2>3. /\ dossier.discovery # None /\ SourceFailures(dossier.binding, dossier.discovery) = {}
        /\ dossier.approval # None /\ ApprovalFailures(dossier.binding, dossier.approval) = {}
    BY <2>2 DEF BindingFailures
  <2>4. \/ SubstituteApproved(dossier.binding)
        \/ \E t \in dossier.discovery.targets : SameSurface(dossier.binding.target, t)
    BY <2>3 DEF SourceFailures, Failure
  <2>5. dossier.binding.proposal = dossier.approval.proposal
    BY <2>3 DEF ApprovalFailures, Failure
  <2>6. in.candidate # None /\ SameSurface(dossier.binding.target, in.candidate)
    BY <2>1 DEF CandidateFailures, Failure
  <2> QED
    BY <2>3, <2>4, <2>5, <2>6 DEF Approved, Sourced, SameSurface, SubstituteApproved
<1>2. ASSUME TestMode PROVE Authorized'
  <2>1. in.testMode = TestMode
    BY InputFields
  <2>2. AuthorizationOK(dossier, in.auth)
    BY <1>2, <2>1 DEF GateFailures, Failure, AuthorizedPhases
  <2> QED
    BY <1>2, <2>1, <2>2 DEF AuthorizationOK, Authorized, CarriesAuthorization, AuthorizedPhases
<1> QED
  BY <1>1, <1>2, ProjectAssumption DEF Vouched

\* What leaves the implementation and its evidence alone and does not bring the
\* project into execution preserves the invariant.
LEMMA StaysVouched ==
    ASSUME BuiltIsVouched, InExecution' => InExecution, UNCHANGED built,
           DOMAIN dossier' = DOMAIN dossier,
           \A f \in DOMAIN dossier \ {"report"} : dossier'[f] = dossier[f]
    PROVE  BuiltIsVouched'
<1>1. /\ dossier'.required = dossier.required /\ dossier'.discovery = dossier.discovery
      /\ dossier'.approval = dossier.approval /\ dossier'.binding = dossier.binding
  BY DEF BuiltIsVouched
<1> QED
  BY <1>1 DEF BuiltIsVouched, Vouched, Approved, Authorized, Sourced

\* A tick enters execution through the gate.
LEMMA TickVouches ==
    ASSUME Routed, BuiltIsVouched, NEW in \in Inputs, Tick(in)
    PROVE  BuiltIsVouched'
<1> DEFINE s == Project
           d == DecideProject(s, in)
<1>0. /\ s.phase = record.phase /\ s.blocker = record.blocker /\ s.dossier = dossier
      /\ d # None /\ record' = Apply(record, d) /\ UNCHANGED dossier
      /\ built' = IF d.to = "TASK_EXECUTION" /\ d.to # d.from
                  THEN [candidate |-> in.candidate,
                        version   |-> IF d.auth THEN in.auth.version ELSE None]
                  ELSE built
  BY ProjectOfRecord DEF Tick, Record
<1>1. ShapeOf(s, in, d)
  BY <1>0, TickShape
<1>2. d.from = record.phase
  BY <1>0, TickDecision
<1> HIDE DEF s, d
<1>3. record'.phase = d.to /\ record'.blocker = NextBlocker(record, d)
  BY <1>0 DEF Apply
<1>4. ASSUME InExecution' => InExecution, d.to # "TASK_EXECUTION" \/ d.to = record.phase
      PROVE  BuiltIsVouched'
  BY <1>0, <1>2, <1>4, StaysVouched
<1>5. "TASK_EXECUTION" \notin BlockedNames /\ BuiltPhases \cap BlockedNames = {}
  BY DEF BlockedNames, BuiltPhases
<1>6. CASE Repeats(s, in, d)
  <2>1. d.to = record.phase /\ d.blocker = record.blocker /\ d.blocker # None
    BY <1>0, <1>6, BlockedAnswer DEF Repeats, Routed, Wait
  <2> QED
    BY <1>3, <1>4, <2>1 DEF InExecution, NextBlocker
<1>7. CASE Raises(s, d)
  <2>1. PICK b : Raised(record.phase, b) /\ d = Block(record.phase, BlockedPhaseFor(b.owner), b)
    BY <1>0, <1>7 DEF Raises
  <2>2. d.to \in BlockedNames /\ d.blocker = b /\ b # None
    BY <2>1, BlockedRoute, BlockFields DEF Raised, Owned
  <2> QED
    BY <1>3, <1>4, <1>5, <2>1, <2>2 DEF InExecution, NextBlocker, Raised
<1>8. CASE Pauses(s, in, d)
  <2>1. /\ \/ d.to = record.phase
           \/ record.phase = "REVIEW_REQUESTED" /\ d.to = "REVIEW_WAIT"
        /\ d.blocker = None /\ record.blocker = None
    BY <1>0, <1>8 DEF Pauses, Wait
  <2>2. "REVIEW_REQUESTED" \in BuiltPhases
    BY DEF BuiltPhases, ProjectPhases, BlockedNames
  <2> QED
    BY <1>3, <1>4, <2>1, <2>2 DEF InExecution, NextBlocker
<1>9. CASE Ends(s, d)
  <2>1. record.phase \in {"FINAL_REPORT", "DONE"} /\ d.to = "DONE"
    BY <1>0, <1>9 DEF Ends, Move
  <2>2. {"FINAL_REPORT", "DONE"} \subseteq BuiltPhases
    BY DEF BuiltPhases, ProjectPhases, BlockedNames
  <2> QED
    BY <1>4, <2>1, <2>2 DEF InExecution
<1>10. CASE Moves(s, in, d)
  <2>1. PICK next \in ProjectPhases \ (BlockedNames \cup {record.phase, "REVIEW_WAIT", "DONE"}),
              signal \in MaterialSignals \ BlockedSignals :
            /\ next \in BuiltPhases => record.phase \in BuiltPhases \/ next = "TASK_EXECUTION"
            /\ next = "TASK_EXECUTION" => record.phase = "TASK_BREAKDOWN"
            /\ GateFailures(dossier, record.phase, next, in.candidate, in.auth, in.testMode) = {}
            /\ d = Move(record.phase, next, signal, CarriesAuthorization(next, in), {}, None)
    BY <1>0, <1>10 DEF Moves
  <2>2. d.to = next /\ d.auth = CarriesAuthorization(next, in) /\ d.blocker = None
        /\ record.blocker = None
    BY <1>0, <1>10, <2>1 DEF Move, Moves
  <2>3. CASE next = "TASK_EXECUTION"
    <3>1. Vouched'
      BY <1>0, <1>2, <2>1, <2>2, <2>3, GateVouches DEF BuiltIsVouched
    <3> QED
      BY <1>0, <3>1 DEF BuiltIsVouched
  <2>4. CASE next # "TASK_EXECUTION"
    BY <1>3, <1>4, <2>1, <2>2, <2>4 DEF InExecution, NextBlocker
  <2> QED
    BY <2>3, <2>4
<1> QED
  BY <1>1, <1>6, <1>7, <1>8, <1>9, <1>10 DEF ShapeOf

\* What is in execution was approved and authorized when it got there.
LEMMA VouchedInvariant == Spec => []BuiltIsVouched
<1>1. Init => BuiltIsVouched
  BY DEF Init, FreshState, BuiltIsVouched, InExecution, BuiltPhases
<1>2. Routed /\ BuiltIsVouched /\ [Next]_vars => BuiltIsVouched'
  <2> SUFFICES ASSUME Routed, BuiltIsVouched, [Next]_vars PROVE BuiltIsVouched'
    OBVIOUS
  <2>1. ASSUME NEW in \in Inputs, Tick(in) PROVE BuiltIsVouched'
    BY <2>1, TickVouches
  <2>2. ASSUME NEW r \in Routes, Route(r[1], r[2], r[3]) PROVE BuiltIsVouched'
    <3>1. record'.phase = r[2] /\ record'.blocker = None /\ record.phase = r[1]
      BY <2>2, HostDecision DEF Route
    <3>2. InExecution' => InExecution
      BY <3>1, RouteAssumption DEF InExecution
    <3> QED
      BY <2>2, <3>2, StaysVouched DEF Route
  <2>3. ASSUME NEW to, Resolve(to) PROVE BuiltIsVouched'
    <3>1. /\ record'.phase = to /\ record'.blocker = None
          /\ record.phase \in BlockedNames /\ to \in record.blocker.options
      BY <2>3, HostDecision, ProjectAssumption DEF Resolve
    <3>2. InExecution' => InExecution
      BY <3>1 DEF InExecution, Routed
    <3> QED
      BY <2>3, <3>2, StaysVouched DEF Resolve
  <2>4. CASE ReviseDossier
    <3>1. record.phase \in PlanningPhases /\ UNCHANGED record
      BY <2>4 DEF ReviseDossier, Revise
    <3>2. record.blocker = None
      BY <3>1, BlockedRoute DEF Routed, PlanningPhases, BlockedNames
    <3>3. ~InExecution'
      BY <3>1, <3>2 DEF InExecution, PlanningPhases, BuiltPhases
    <3>4. PICK f \in {"discovery", "approval", "binding"} :
              \E v : dossier' = [dossier EXCEPT ![f] = v]
      BY <2>4 DEF ReviseDossier, Revise
    <3> QED
      BY <3>3, <3>4 DEF BuiltIsVouched
  <2>5. CASE FileReport
    <3>1. PICK r : dossier' = [dossier EXCEPT !.report = r]
      BY <2>5 DEF FileReport
    <3>2. InExecution' => InExecution
      BY <2>5 DEF FileReport, InExecution
    <3> QED
      BY <2>5, <3>1, <3>2, StaysVouched DEF FileReport
  <2>6. CASE UNCHANGED <<record, dossier, built>>
    BY <2>6, StaysVouched DEF InExecution
  <2> QED
    BY <2>1, <2>2, <2>3, <2>4, <2>5, <2>6 DEF Next, PlanTasks, ReturnTask, RepairTask, OpenPR, vars
<1> QED
  BY <1>1, <1>2, RoutedInvariant, PTL DEF Spec

\* What is implemented was approved before and goes back to the discovery.
THEOREM ImplementationApproved == Spec => []ImplementationIsApproved
<1>1. BuiltIsVouched => ImplementationIsApproved
  BY DEF BuiltIsVouched, InExecution, BuiltPhases, ProjectPhases, BlockedNames, Vouched,
     Approved, ImplementationIsApproved
<1> QED
  BY <1>1, VouchedInvariant, PTL

\* Review is requested only for work authorized under the version now approved.
THEOREM ReviewAuthorized == Spec => []ReviewedIsAuthorized
<1>1. BuiltIsVouched => ReviewedIsAuthorized
  BY DEF BuiltIsVouched, InExecution, BuiltPhases, ProjectPhases, BlockedNames, Vouched,
     Authorized, ReviewedIsAuthorized
<1> QED
  BY <1>1, VouchedInvariant, PTL

-----------------------------------------------------------------------------
(* The end, and the audit *)

\* What DONE accepts is what was built, or an approved substitute of it.
THEOREM DoneAccepted == Spec => DoneIsBuilt
<1> DEFINE Accepted ==
        /\ \/ SameSurface(dossier.report.target, built.candidate)
           \/ \E s \in dossier.binding.surfaces : SameSurface(dossier.report.target, s)
        /\ dossier.approval.criteria \subseteq dossier.report.satisfied
<1>1. Routed /\ BuiltIsVouched /\ [Next]_vars
      => [Required /\ record.terminal = None /\ record'.terminal = "DONE" => Accepted]_vars
  <2> SUFFICES ASSUME Routed, BuiltIsVouched, Next, Required,
                      record.terminal = None, record'.terminal = "DONE"
               PROVE  Accepted
    OBVIOUS
  <2>0. "DONE" # None
    BY NoneAssumption DEF Outcomes
  <2>1. PICK in \in Inputs : Tick(in)
    <3>1. ASSUME NEW from, NEW to, NEW signal, Record(Move(from, to, signal, FALSE, {}, None))
          PROVE  FALSE
      BY <2>0, <3>1, HostDecision
    <3> QED
      BY <2>0, <3>1 DEF Next, Route, Resolve, PlanTasks, ReturnTask, RepairTask, OpenPR,
         ReviseDossier, Revise, FileReport
  <2> DEFINE s == Project
             d == DecideProject(s, in)
  <2>2. /\ s.phase = record.phase /\ s.dossier = dossier
        /\ d # None /\ record' = Apply(record, d)
    BY <2>1, ProjectOfRecord DEF Tick, Record
  <2>3. ShapeOf(s, in, d)
    BY <2>2, TickShape
  <2> HIDE DEF s, d
  <2>4. d.terminal # None
    BY <2>0, <2>2 DEF Apply
  <2>5. Ends(s, d)
    <3>1. CASE Repeats(s, in, d)
      <4>1. \/ d = Wait(s.phase, s.phase, in.wait, s.blocker)
            \/ d = Block(s.phase, BlockedPhaseFor(s.blocker.owner), s.blocker)
        BY <2>2, <3>1, BlockedAnswer DEF Repeats
      <4> QED
        BY <2>4, <4>1, BlockFields DEF Wait
    <3>2. CASE Raises(s, d)
      BY <2>4, <3>2, BlockFields DEF Raises
    <3>3. CASE Pauses(s, in, d)
      BY <2>4, <3>3 DEF Pauses, Wait
    <3>4. CASE Moves(s, in, d)
      BY <2>4, <3>4 DEF Moves, Move
    <3> QED
      BY <2>3, <3>1, <3>2, <3>3, <3>4 DEF ShapeOf
  <2>6. AcceptanceOK(dossier) /\ record.phase \in {"FINAL_REPORT", "DONE"}
    BY <2>2, <2>5 DEF Ends
  <2>7. Approved
    BY <2>6 DEF BuiltIsVouched, Vouched, InExecution, BuiltPhases, ProjectPhases, BlockedNames
  <2> QED
    BY <2>6, <2>7 DEF AcceptanceOK, ReportSubstituteApproved, BuiltIsVouched, Approved,
       SameSurface
<1> QED
  BY <1>1, RoutedInvariant, VouchedInvariant, PTL DEF Spec, DoneIsBuilt

\* But in PR_OPEN the audit of a snapshot rejects what the gates would reject.
THEOREM AuditRepeats == Spec => []AuditRepeatsGates
<1>1. BuiltIsVouched => AuditRepeatsGates
  <2> SUFFICES ASSUME BuiltIsVouched, record.phase \in AuditedPhases \ {"PR_OPEN"},
                      NEW candidate \in Optional(Candidates), NEW auth \in Optional(Auths),
                      AuditOK(dossier, record.phase, candidate, auth, TestMode)
               PROVE  /\ TestMode => AuthorizationOK(dossier, auth)
                      /\ Required => candidate # None
                                     /\ SameSurface(candidate, dossier.binding.target)
    BY DEF AuditRepeatsGates, AuditCovers
  <2>1. /\ GateFailures(dossier, record.phase, "PR_OPEN", candidate, auth, TestMode) = {}
        /\ ProposalFailures(dossier) = {} /\ record.phase # "PR_OPEN"
    BY DEF AuditOK
  <2>2. TestMode => AuthorizationOK(dossier, auth)
    BY <2>1 DEF GateFailures, Failure, AuthorizedPhases
  <2>3. Required => CandidateFailures(dossier, candidate) = {}
    BY <2>1 DEF GateFailures, GatedPhases, BuiltIsVouched
  <2> QED
    BY <2>2, <2>3 DEF CandidateFailures, Failure, SameSurface
<1> QED
  BY <1>1, VouchedInvariant, PTL
-----------------------------------------------------------------------------
(* A project with its child workflows: a change is opened on finished work *)

\* A project is at its review, or blocked and may resume there.
InReview ==
    \/ record.phase \in OpenPhases
    \/ record.blocker # None /\ record.blocker.options \cap OpenPhases # {}

\* All tasks are planned together; what the project believes to be complete is,
\* and stays so until it is sent into repair; execution has tasks; a review has
\* only complete ones.
FinishedInv ==
    /\ tasks = [t \in Tasks |-> tasks[t]] /\ child = [t \in Tasks |-> child[t]]
    /\ \A t, u \in Tasks : tasks[t] = None => tasks[u] = None
    /\ \A t \in Tasks : tasks[t] = "COMPLETE" =>
          child[t] # None /\ child[t].record.phase = "COMPLETE"
    /\ InExecution => \E t \in Tasks : tasks[t] # None
    /\ InReview => Tasks # {} /\ \A t \in Tasks : tasks[t] = "COMPLETE"

\* The record of the project changes only by a step of its host.
LEMMA RunIsHost == [RunNext]_runVars => [Next]_record
<1> SUFFICES ASSUME [RunNext]_runVars PROVE [Next]_record
  OBVIOUS
<1>1. CASE TickProject
  BY <1>1 DEF TickProject, Next
<1>2. CASE Onward
  BY <1>2 DEF Onward, Next
<1>3. CASE Plan \/ Repair \/ (\E t \in Tasks : Returns(t))
  BY <1>3 DEF Plan, PlanTasks, Repair, RepairTask, Returns, ReturnTask
<1>4. ASSUME NEW t \in Tasks,
             \/ \E w \in Optional(Waits), v \in Optional(Verdicts) : TickChild(t, w, v)
             \/ \E to \in {"COMPLETE", "FIXING_REVIEW"} : ReviewChild(t, to)
             \/ ResolveChild(t)
      PROVE  UNCHANGED record
  BY <1>4 DEF TickChild, ReviewChild, ResolveChild, RecordChild
<1>5. CASE UNCHANGED runVars
  BY <1>5 DEF runVars, vars
<1> QED
  BY <1>1, <1>2, <1>3, <1>4, <1>5 DEF RunNext

\* A step of the record alone, by what it must not do.
LEMMA FinishedFrame ==
    ASSUME FinishedInv, UNCHANGED <<tasks, child>>,
           InExecution' => InExecution \/ DOMAIN Project.tasks # {},
           InReview' => \/ InReview
                        \/ InExecution /\ TaskPhasesOf(Project) \subseteq {"COMPLETE"}
    PROVE  FinishedInv'
<1>1. DOMAIN Project.tasks = {t \in Tasks : tasks[t] # None}
      /\ \A t \in Tasks : tasks[t] # None => Project.tasks[t] = tasks[t]
  BY DEF Project
<1>2. (\E t \in Tasks : tasks[t] # None) => \A t \in Tasks : tasks[t] # None
  BY DEF FinishedInv
<1>3. InExecution' => \E t \in Tasks : tasks[t] # None
  BY <1>1 DEF FinishedInv
<1>4. ASSUME InExecution, TaskPhasesOf(Project) \subseteq {"COMPLETE"}
      PROVE  Tasks # {} /\ \A t \in Tasks : tasks[t] = "COMPLETE"
  <2>1. \E t \in Tasks : tasks[t] # None
    BY <1>4 DEF FinishedInv
  <2>2. \A t \in Tasks : tasks[t] \in TaskPhasesOf(Project)
    BY <1>1, <1>2, <2>1 DEF TaskPhasesOf
  <2> QED
    BY <1>4, <2>1, <2>2
<1>5. InReview' => Tasks # {} /\ \A t \in Tasks : tasks[t] = "COMPLETE"
  BY <1>4 DEF FinishedInv
<1> QED
  BY <1>3, <1>5 DEF FinishedInv

\* A tick of the project.
LEMMA FinishedTick ==
    ASSUME Routed, FinishedInv, UNCHANGED child, NEW in \in Inputs, Tick(in)
    PROVE  FinishedInv'
<1> DEFINE s == Project
           d == DecideProject(s, in)
<1>0. /\ s.phase = record.phase /\ s.blocker = record.blocker
      /\ d # None /\ record' = Apply(record, d) /\ UNCHANGED tasks
  BY ProjectOfRecord DEF Tick, Record
<1>1. ShapeOf(s, in, d)
  BY <1>0, TickShape
<1> DEFINE Built == InExecution' => InExecution \/ DOMAIN s.tasks # {}
           Open  == InReview' => InReview \/ (InExecution /\ TaskPhasesOf(s) \subseteq {"COMPLETE"})
<1>2. Built /\ Open => FinishedInv'
  BY <1>0, FinishedFrame
<1> HIDE DEF s, d
<1>3. record'.phase = d.to /\ record'.blocker = NextBlocker(record, d)
  BY <1>0 DEF Apply
<1>4. /\ BuiltPhases \cap BlockedNames = {} /\ OpenPhases \cap BlockedNames = {}
      /\ "REVIEW_REQUESTED" \in BuiltPhases \cap OpenPhases /\ "PR_OPEN" \in OpenPhases
      /\ "TASK_EXECUTION" \in BuiltPhases
      /\ {"FINAL_REPORT", "DONE"} \subseteq BuiltPhases /\ "DONE" \notin OpenPhases
  BY DEF BlockedNames, BuiltPhases, OpenPhases, ProjectPhases
<1>5. CASE Repeats(s, in, d)
  <2>1. d.to = record.phase /\ d.blocker = record.blocker /\ d.blocker # None
    BY <1>0, <1>5, BlockedAnswer DEF Repeats, Routed, Wait
  <2> QED
    BY <1>2, <1>3, <2>1 DEF InExecution, InReview, NextBlocker
<1>6. CASE Raises(s, d)
  <2>1. PICK b : Raised(record.phase, b) /\ d = Block(record.phase, BlockedPhaseFor(b.owner), b)
    BY <1>0, <1>6 DEF Raises
  <2>2. d.to \in BlockedNames /\ d.blocker = b /\ b # None
    BY <2>1, BlockedRoute, BlockFields DEF Raised, Owned
  <2> QED
    BY <1>2, <1>3, <1>4, <2>1, <2>2 DEF InExecution, InReview, NextBlocker, Raised
<1>7. CASE Pauses(s, in, d)
  <2>1. /\ \/ d.to = record.phase
           \/ record.phase = "REVIEW_REQUESTED" /\ d.to = "REVIEW_WAIT"
        /\ d.blocker = None /\ record.blocker = None
    BY <1>0, <1>7 DEF Pauses, Wait
  <2> QED
    BY <1>2, <1>3, <1>4, <2>1 DEF InExecution, InReview, NextBlocker
<1>8. CASE Ends(s, d)
  <2>1. /\ record.phase \in {"FINAL_REPORT", "DONE"} /\ d.to = "DONE"
        /\ d.blocker = None /\ record.blocker = None
    BY <1>0, <1>8 DEF Ends, Move
  <2> QED
    BY <1>2, <1>3, <1>4, <2>1 DEF InExecution, InReview, NextBlocker
<1>9. CASE Moves(s, in, d)
  <2>1. PICK next \in ProjectPhases \ (BlockedNames \cup {record.phase, "REVIEW_WAIT", "DONE"}),
              signal \in MaterialSignals \ BlockedSignals :
            /\ next \in BuiltPhases => record.phase \in BuiltPhases \/ next = "TASK_EXECUTION"
            /\ next = "TASK_EXECUTION" => DOMAIN s.tasks # {}
            /\ next = "PR_OPEN"
                  => record.phase = "TASK_EXECUTION" /\ TaskPhasesOf(s) \subseteq {"COMPLETE"}
            /\ next = "REVIEW_REQUESTED" => record.phase = "PR_OPEN"
            /\ d = Move(record.phase, next, signal, CarriesAuthorization(next, in), {}, None)
    BY <1>0, <1>9 DEF Moves
  <2>2. d.to = next /\ d.blocker = None /\ record.blocker = None
    BY <1>0, <1>9, <2>1 DEF Move, Moves
  <2>3. Built
    BY <1>3, <2>1, <2>2 DEF InExecution, NextBlocker
  <2>4. Open
    BY <1>3, <1>4, <2>1, <2>2 DEF InExecution, InReview, OpenPhases, NextBlocker
  <2> QED
    BY <1>2, <2>3, <2>4
<1> QED
  BY <1>1, <1>5, <1>6, <1>7, <1>8, <1>9 DEF ShapeOf

\* A step of the project's host beside the driver.
LEMMA FinishedOnward ==
    ASSUME \A r \in Routes : r[2] \in OpenPhases => r[1] \in OpenPhases,
           Routed, FinishedInv, Onward
    PROVE  FinishedInv'
<1>1. UNCHANGED <<tasks, child>>
  BY DEF Onward, Route, Resolve, OpenPR
<1>2. (InExecution' => InExecution) /\ (InReview' => InReview)
  <2>1. ASSUME NEW r \in Routes, Route(r[1], r[2], r[3])
        PROVE  (InExecution' => InExecution) /\ (InReview' => InReview)
    <3>1. record'.phase = r[2] /\ record'.blocker = None /\ record.phase = r[1]
      BY <2>1, HostDecision DEF Route
    <3> QED
      BY <3>1, RouteAssumption DEF InExecution, InReview
  <2>2. ASSUME NEW to, Resolve(to)
        PROVE  (InExecution' => InExecution) /\ (InReview' => InReview)
    <3>1. /\ record'.phase = to /\ record'.blocker = None
          /\ record.phase \in BlockedNames /\ to \in record.blocker.options
      BY <2>2, HostDecision, ProjectAssumption DEF Resolve
    <3> QED
      BY <3>1 DEF InExecution, InReview, Routed
  <2>3. CASE OpenPR
    BY <2>3 DEF OpenPR, InExecution, InReview
  <2> QED
    BY <2>1, <2>2, <2>3 DEF Onward
<1> QED
  BY <1>1, <1>2, FinishedFrame

\* Tasks are planned, repaired or returned while no review is under way.
LEMMA FinishedTasks ==
    ASSUME Routed, FinishedInv,
           Plan \/ Repair \/ (\E t \in Tasks : Returns(t))
    PROVE  FinishedInv'
<1>0. "COMPLETE" # None /\ "TASK_ASSIGNED" # None /\ "RESCOPE_REQUESTED" # None
  BY ChildAssumption DEF TaskPhases
<1>1. /\ UNCHANGED record /\ (InExecution' <=> InExecution)
      /\ record.phase \in {"TASK_BREAKDOWN", "PLAN_RETHINK", "FIXING_REVIEW", "TASK_EXECUTION"}
  BY DEF Plan, Repair, Returns, PlanTasks, RepairTask, ReturnTask, InExecution
<1>2. record.blocker = None
  BY <1>1, BlockedRoute DEF Routed, BlockedNames
<1>3. ~InReview'
  BY <1>1, <1>2 DEF InReview, OpenPhases
<1>4. ASSUME tasks' = [t \in Tasks |-> tasks'[t]], child' = [t \in Tasks |-> child'[t]],
             \A t \in Tasks : tasks[t] # None => tasks'[t] # None,
             \A t, u \in Tasks : tasks'[t] = None => tasks'[u] = None,
             \A t \in Tasks : tasks'[t] = "COMPLETE" =>
                 child'[t] # None /\ child'[t].record.phase = "COMPLETE"
      PROVE  FinishedInv'
  BY <1>1, <1>3, <1>4 DEF FinishedInv
<1>5. CASE Plan
  <2>1. /\ tasks' = [t \in Tasks |-> IF tasks[t] \in {None, "RESCOPE_REQUESTED"}
                                     THEN "TASK_ASSIGNED" ELSE tasks[t]]
        /\ child' = [t \in Tasks |-> IF tasks'[t] = "TASK_ASSIGNED" /\ tasks[t] # "TASK_ASSIGNED"
                                     THEN NewChild ELSE child[t]]
    BY <1>5 DEF Plan, PlanTasks, StartChildren
  <2>2. \A t \in Tasks : tasks'[t] # None
    BY <1>0, <2>1
  <2>3. \A t \in Tasks : tasks'[t] = "COMPLETE" => tasks[t] = "COMPLETE" /\ child'[t] = child[t]
    BY <2>1
  <2> QED
    BY <1>4, <2>1, <2>2, <2>3 DEF FinishedInv
<1>6. CASE Repair
  <2>1. PICK r \in Tasks : tasks[r] = "COMPLETE" /\ tasks' = [tasks EXCEPT ![r] = "TASK_ASSIGNED"]
    BY <1>6 DEF Repair, RepairTask
  <2>2. child' = [t \in Tasks |-> IF tasks'[t] = "TASK_ASSIGNED" /\ tasks[t] # "TASK_ASSIGNED"
                                  THEN NewChild ELSE child[t]]
    BY <1>6 DEF Repair, StartChildren
  <2>3. \A t \in Tasks : tasks'[t] = IF t = r THEN "TASK_ASSIGNED" ELSE tasks[t]
    BY <2>1 DEF FinishedInv
  <2>4. tasks' = [t \in Tasks |-> tasks'[t]]
    BY <2>1 DEF FinishedInv
  <2>5. \A t \in Tasks : tasks[t] # None /\ tasks'[t] # None
    BY <1>0, <2>1, <2>3 DEF FinishedInv
  <2>6. \A t \in Tasks : tasks'[t] = "COMPLETE" => tasks[t] = "COMPLETE" /\ child'[t] = child[t]
    BY <2>2, <2>3
  <2> QED
    BY <1>4, <2>2, <2>4, <2>5, <2>6 DEF FinishedInv
<1>7. ASSUME NEW r \in Tasks, Returns(r) PROVE FinishedInv'
  <2>1. /\ tasks[r] = "TASK_ASSIGNED" /\ tasks' = [tasks EXCEPT ![r] = child[r].record.phase]
        /\ child[r] # None /\ child[r].record.phase \in {"COMPLETE", "RESCOPE_REQUESTED"}
        /\ UNCHANGED child
    BY <1>7 DEF Returns, ReturnTask, Returned
  <2>2. \A t \in Tasks : tasks'[t] = IF t = r THEN child[r].record.phase ELSE tasks[t]
    BY <2>1 DEF FinishedInv
  <2>3. tasks' = [t \in Tasks |-> tasks'[t]]
    BY <2>1 DEF FinishedInv
  <2>4. \A t \in Tasks : tasks[t] # None /\ tasks'[t] # None
    BY <1>0, <2>1, <2>2 DEF FinishedInv
  <2>5. \A t \in Tasks : tasks'[t] = "COMPLETE" =>
            child[t] # None /\ child[t].record.phase = "COMPLETE"
    BY <2>1, <2>2 DEF FinishedInv
  <2> QED
    BY <1>4, <2>1, <2>3, <2>4, <2>5 DEF FinishedInv
<1> QED
  BY <1>5, <1>6, <1>7

\* A child that has returned its phase no longer moves.
LEMMA FinishedChild ==
    ASSUME FinishedInv, NEW t \in Tasks, Working(t), NEW d, RecordChild(t, d)
    PROVE  FinishedInv'
<1>1. /\ UNCHANGED <<record, tasks>> /\ tasks[t] # "COMPLETE"
      /\ \E c : child' = [child EXCEPT ![t] = c]
  BY DEF RecordChild, Working, Returned, FinishedInv
<1>2. child' = [u \in Tasks |-> child'[u]] /\ \A u \in Tasks \ {t} : child'[u] = child[u]
  BY <1>1 DEF FinishedInv
<1> QED
  BY <1>1, <1>2 DEF FinishedInv, InExecution, InReview

\* A change artifact is opened and reviewed for finished work only, whatever the
\* children do meanwhile, if no host opens one by itself.
THEOREM OpenedFinished ==
    ASSUME \A r \in Routes : r[2] \in OpenPhases => r[1] \in OpenPhases
    PROVE  RunSpec => []OpenedOnFinishedWork
<1>1. RunInit => Routed /\ FinishedInv
  <2> SUFFICES ASSUME RunInit PROVE FinishedInv
    BY RoutedInit DEF RunInit
  <2>1. ~InExecution /\ ~InReview
    BY DEF RunInit, Init, FreshState, InExecution, InReview, BuiltPhases, OpenPhases
  <2>2. \A t \in Tasks : tasks[t] # "COMPLETE"
    BY ChildAssumption DEF RunInit, Init, TaskPhases
  <2> QED
    BY <2>1, <2>2 DEF RunInit, Init, FinishedInv
<1>2. Routed /\ [RunNext]_runVars => Routed'
  BY RunIsHost, RoutedStep
<1>3. Routed /\ FinishedInv /\ [RunNext]_runVars => FinishedInv'
  <2> SUFFICES ASSUME Routed, FinishedInv, [RunNext]_runVars PROVE FinishedInv'
    OBVIOUS
  <2>1. CASE TickProject
    BY <2>1, FinishedTick DEF TickProject
  <2>2. CASE Onward
    BY <2>2, FinishedOnward
  <2>3. CASE Plan \/ Repair \/ (\E t \in Tasks : Returns(t))
    BY <2>3, FinishedTasks
  <2>4. ASSUME NEW t \in Tasks,
               \/ \E w \in Optional(Waits), v \in Optional(Verdicts) : TickChild(t, w, v)
               \/ \E to \in {"COMPLETE", "FIXING_REVIEW"} : ReviewChild(t, to)
               \/ ResolveChild(t)
        PROVE  FinishedInv'
    <3>1. Working(t) /\ \E d : RecordChild(t, d)
      BY <2>4 DEF TickChild, ReviewChild, ResolveChild
    <3> QED
      BY <3>1, FinishedChild
  <2>5. CASE UNCHANGED runVars
    BY <2>5 DEF runVars, vars, FinishedInv, InExecution, InReview
  <2> QED
    BY <2>1, <2>2, <2>3, <2>4, <2>5 DEF RunNext
<1>4. FinishedInv => OpenedOnFinishedWork
  <2> SUFFICES ASSUME FinishedInv, record.phase \in OpenPhases
               PROVE  /\ DOMAIN Project.tasks # {}
                      /\ \A t \in Tasks : child[t] # None /\ child[t].record.phase = "COMPLETE"
    BY DEF OpenedOnFinishedWork, OpenPhases
  <2>1. Tasks # {} /\ \A t \in Tasks : tasks[t] = "COMPLETE"
    BY DEF FinishedInv, InReview
  <2>2. DOMAIN Project.tasks = {t \in Tasks : tasks[t] # None}
    BY DEF Project
  <2>3. "COMPLETE" # None
    BY ChildAssumption DEF TaskPhases
  <2> QED
    BY <2>1, <2>2, <2>3 DEF FinishedInv
<1> QED
  BY <1>1, <1>2, <1>3, <1>4, PTL DEF RunSpec

\* In a project with its child workflows, too, every answer of the driver can be
\* built and applied.
THEOREM RunDriverApplies == RunSpec => []DriverDecisionsApply
<1>1. RunInit => Routed
  BY RoutedInit DEF RunInit
<1>2. Routed /\ [RunNext]_runVars => Routed'
  BY RunIsHost, RoutedStep
<1> QED
  BY <1>1, <1>2, RoutedApplies, PTL DEF RunSpec
==============================================================================
