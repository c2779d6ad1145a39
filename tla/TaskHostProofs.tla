---------------------------- MODULE TaskHostProofs ----------------------------
(* Proofs about the task driver under its host, for every repair limit, every *)
(* set of waits and blockers, and a host that validates or does not.          *)
EXTENDS TaskHost, DriverDecisionsProofs

\* The transitions of the driver, one by one.
LEMMA LineTransition ==
    ASSUME NEW t, NEW next, next = NextTaskPhase(t), next # t.phase,
           t.phase # "REVIEW_REQUESTED"
    PROVE  /\ next \in TaskPhases \ BlockedNames
           /\ TaskSignal(t.phase, next) \in MaterialSignals \ BlockedSignals
           /\ \/ <<t.phase, TaskSignal(t.phase, next)>> \in TaskProgress
              \/ TaskSignal(t.phase, next) = "TASK_RESCOPE_REQUESTED" /\ t.phase = "FIXING_REVIEW"
           /\ t.phase \in TaskPhases \ BlockedNames
           /\ TaskSignal(t.phase, next) = "TASK_RESCOPE_REQUESTED" => t.phase = "FIXING_REVIEW"
<1>1. CASE LoopsExhausted(t)
  BY <1>1 DEF NextTaskPhase, LoopsExhausted, TaskSignal, TaskPhases, MaterialSignals,
     BlockedNames, BlockedSignals
<1>2. CASE ~LoopsExhausted(t)
  <2>1. t.phase \in {"TASK_ASSIGNED", "CLAIMED", "INSPECTING", "IMPLEMENTING", "TESTING",
                     "FIXING_REVIEW"} /\ next = TaskLine[t.phase]
    BY <1>2 DEF NextTaskPhase, TaskLine
  <2>2. CASE t.phase = "TASK_ASSIGNED"
    BY <2>1, <2>2 DEF TaskLine, TaskSignal, TaskPhases, MaterialSignals, BlockedNames,
       BlockedSignals, TaskProgress
  <2>3. CASE t.phase = "CLAIMED"
    BY <2>1, <2>3 DEF TaskLine, TaskSignal, TaskPhases, MaterialSignals, BlockedNames,
       BlockedSignals, TaskProgress
  <2>4. CASE t.phase = "INSPECTING"
    BY <2>1, <2>4 DEF TaskLine, TaskSignal, TaskPhases, MaterialSignals, BlockedNames,
       BlockedSignals, TaskProgress
  <2>5. CASE t.phase = "IMPLEMENTING"
    BY <2>1, <2>5 DEF TaskLine, TaskSignal, TaskPhases, MaterialSignals, BlockedNames,
       BlockedSignals, TaskProgress
  <2>6. CASE t.phase = "TESTING"
    BY <2>1, <2>6 DEF TaskLine, TaskSignal, TaskPhases, MaterialSignals, BlockedNames,
       BlockedSignals, TaskProgress
  <2>7. CASE t.phase = "FIXING_REVIEW"
    BY <2>1, <2>7 DEF TaskLine, TaskSignal, TaskPhases, MaterialSignals, BlockedNames,
       BlockedSignals, TaskProgress
  <2> QED
    BY <2>1, <2>2, <2>3, <2>4, <2>5, <2>6, <2>7
<1> QED
  BY <1>1, <1>2

-----------------------------------------------------------------------------
(* The repair limit *)

\* The driver sends a task to repair only below the limit, whatever is reported.
LEMMA RepairBelowLimit ==
    ASSUME NEW t, t.phase = "FIXING_REVIEW", t.loops \in Nat, NEW wait, NEW verdict,
           NEW d, d = DecideTask(t, wait, verdict), d # None, d.to = "IMPLEMENTING"
    PROVE  t.loops < MaxLoops
<1>1. CASE t.blocker # None
  <2>1. d.to \in BlockedNames \cup {"FIXING_REVIEW"}
    <3>1. d = BlockedDecision("FIXING_REVIEW", t.blocker, wait)
      BY <1>1 DEF DecideTask
    <3> QED
      BY <1>1, <3>1, BlockedRoute, BlockFields DEF BlockedDecision, WaitOrRaise, Wait
  <2> QED
    BY <2>1 DEF BlockedNames
<1>2. CASE t.blocker = None
  <2>1. CASE LoopsExhausted(t)
    BY <1>2, <2>1 DEF DecideTask, NextTaskPhase, Move
  <2> QED
    BY <2>1, MaxLoopsAssumption DEF LoopsExhausted
<1> QED
  BY <1>1, <1>2

\* No task is repaired more often than max_review_loops allows.
THEOREM RepairBounded == Spec => []RepairIsBounded
<1> DEFINE Inv == loops \in Nat /\ loops <= MaxLoops
<1>1. Init => Inv
  BY MaxLoopsAssumption DEF Init
<1>2. Inv /\ [Next]_vars => Inv'
  <2> SUFFICES ASSUME Inv, [Next]_vars PROVE Inv'
    OBVIOUS
  <2>1. ASSUME NEW b, NEW w, NEW v, Tick(b, w, v) PROVE Inv'
    <3> DEFINE d == DecideTask(Task(b), w, v)
    <3>1. Task(b).phase = record.phase /\ Task(b).loops = loops
      BY DEF Task
    <3>2. d # None
      BY <2>1 DEF Tick, Record
    <3>3. CASE record.phase = "FIXING_REVIEW" /\ d.to = "IMPLEMENTING"
      <4>1. loops < MaxLoops
        BY <3>1, <3>2, <3>3, RepairBelowLimit
      <4>2. loops' = loops + 1 \/ loops' = loops
        BY <2>1 DEF Tick
      <4> QED
        BY <4>1, <4>2, MaxLoopsAssumption
    <3>4. CASE ~(record.phase = "FIXING_REVIEW" /\ d.to = "IMPLEMENTING")
      BY <2>1, <3>4 DEF Tick
    <3> QED
      BY <3>3, <3>4
  <2>2. CASE UNCHANGED loops
    BY <2>2
  <2> QED
    BY <2>1, <2>2 DEF Next, TickAny, Reviewed, ThresholdPassed, Resolve, Cancel, Complete, vars
<1> QED
  BY <1>1, <1>2, PTL DEF Spec, RepairIsBounded

-----------------------------------------------------------------------------
(* Every answer of the driver applies *)

\* A blocked task has its blocker on record.
BlockedHasBlocker == record.phase \in BlockedPhases => record.blocker # None

\* No step of a task loses the blocker of a blocked phase.
LEMMA BlockedHasBlockerInvariant == Spec => []BlockedHasBlocker
<1>1. Init => BlockedHasBlocker
  BY TaskAssumption DEF Init, FreshState, BlockedHasBlocker, BlockedNames
<1>2. BlockedHasBlocker /\ [Next]_vars => BlockedHasBlocker'
  <2> SUFFICES ASSUME BlockedHasBlocker, [Next]_vars PROVE BlockedHasBlocker'
    OBVIOUS
  <2>1. ASSUME NEW d, Record(d) PROVE BlockedHasBlocker'
    BY <2>1 DEF Record, CanApply, Apply, NextBlocker, BlockedHasBlocker
  <2>2. CASE UNCHANGED vars
    BY <2>2 DEF vars, BlockedHasBlocker
  <2> QED
    BY <2>1, <2>2 DEF Next, TickAny, Tick, Reviewed, ThresholdPassed, Resolve, Cancel, Complete
<1> QED
  BY <1>1, <1>2, PTL DEF Spec

\* The four shapes an answer has: for a blocker, for a review, for no way on, and
\* for the next phase.
ShapeOf(t, w, v, d) ==
    \/ t.blocker # None /\ d = BlockedDecision(t.phase, t.blocker, w)
    \/ t.blocker = None /\ t.phase = "REVIEW_REQUESTED" /\ d = ReviewDecision(w, v)
    \/ /\ t.blocker = None /\ t.phase \notin BlockedPhases \cup {"REVIEW_REQUESTED"}
       /\ t.phase = NextTaskPhase(t)
       /\ w # None /\ d = Wait(t.phase, t.phase, w, None)
    \/ /\ t.blocker = None /\ t.phase \notin BlockedPhases \cup {"REVIEW_REQUESTED"}
       /\ t.phase # NextTaskPhase(t)
       /\ d = Move(t.phase, NextTaskPhase(t), TaskSignal(t.phase, NextTaskPhase(t)), FALSE, {}, None)

\* Every answer of the task driver has one of the listed shapes.
LEMMA AnswerShapes ==
    ASSUME NEW t, t.phase \in BlockedPhases => t.blocker # None, NEW w, NEW v,
           NEW d, d = DecideTask(t, w, v), d # None
    PROVE  ShapeOf(t, w, v, d)
BY TaskAssumption DEF ShapeOf, DecideTask, WaitOrRaise, BlockedNames

\* The driver is handed the phase on record, and a blocker when it is a blocked one.
LEMMA TaskOfRecord ==
    ASSUME BlockedHasBlocker, NEW b
    PROVE  Task(b).phase = record.phase
           /\ (Task(b).phase \in BlockedPhases => Task(b).blocker # None)
BY DEF Task, BlockedHasBlocker

\* Whatever the driver answers can be built and applied.
THEOREM DriverApplies == Spec => []DriverDecisionsApply
<1>1. BlockedHasBlocker => DriverDecisionsApply
  <2> SUFFICES ASSUME BlockedHasBlocker,
                      NEW b \in Optional(Reports), NEW w \in Optional(Waits),
                      NEW v \in Optional(Verdicts), NEW d, d = DecideTask(Task(b), w, v),
                      d # None
               PROVE  ContractOK(d) /\ CanApply(record, d)
    BY DEF DriverDecisionsApply, Answers
  <2> DEFINE t == Task(b)
  <2>0. t.phase = record.phase /\ (t.phase \in BlockedPhases => t.blocker # None)
    BY TaskOfRecord
  <2> HIDE DEF t
  <2>1. CASE t.blocker # None /\ d = BlockedDecision(t.phase, t.blocker, w)
    <3>1. CASE w # None /\ t.phase \in BlockedNames /\ d = Wait(t.phase, t.phase, w, t.blocker)
      BY <2>0, <2>1, <3>1, WaitContract, TaskAssumption DEF CanApply, ResumesFromBlock, Wait
    <3>2. ASSUME NEW q \in BlockedNames, d = Block(t.phase, q, t.blocker)
          PROVE  ContractOK(d) /\ CanApply(record, d)
      BY <2>0, <2>1, <3>2, BlockContract, BlockFields, TaskAssumption DEF CanApply, ResumesFromBlock
    <3> QED
      BY <2>1, <3>1, <3>2, BlockedAnswer, BlockedRoute
  <2>2. CASE t.phase = "REVIEW_REQUESTED" /\ d = ReviewDecision(w, v)
    <3>1. t.phase \notin BlockedPhases /\ "REVIEW_WAIT" \notin BlockedPhases
      BY <2>2, TaskAssumption DEF BlockedNames
    <3>2. CASE w # None /\ d = Wait("REVIEW_REQUESTED", "REVIEW_WAIT", w, None)
      BY <2>0, <2>2, <3>1, <3>2, WaitContract DEF CanApply, ResumesFromBlock, Wait
    <3>3. ASSUME NEW q, TriggerBlocker(v, "REVIEW_WAIT") # None,
                 d = Block("REVIEW_REQUESTED", q, TriggerBlocker(v, "REVIEW_WAIT"))
          PROVE  ContractOK(d) /\ CanApply(record, d)
      BY <2>0, <2>2, <3>1, <3>3, BlockContract, BlockFields DEF CanApply, ResumesFromBlock
    <3> QED
      BY <2>2, <3>2, <3>3, ReviewAnswer
  <2>3. CASE t.phase \notin BlockedPhases /\ w # None /\ d = Wait(t.phase, t.phase, w, None)
    BY <2>0, <2>3, WaitContract DEF CanApply, ResumesFromBlock, Wait
  <2>4. CASE /\ t.phase \notin BlockedPhases \cup {"REVIEW_REQUESTED"}
             /\ t.phase # NextTaskPhase(t)
             /\ d = Move(t.phase, NextTaskPhase(t), TaskSignal(t.phase, NextTaskPhase(t)),
                         FALSE, {}, None)
    <3>1. /\ NextTaskPhase(t) \notin BlockedPhases
          /\ TaskSignal(t.phase, NextTaskPhase(t)) \in MaterialSignals \ BlockedSignals
      BY <2>4, LineTransition, TaskAssumption
    <3> QED
      BY <2>0, <2>4, <3>1, MoveContract DEF CanApply, ResumesFromBlock, Move
  <2>5. ShapeOf(t, w, v, d)
    BY <2>0, AnswerShapes DEF t
  <2> QED
    BY <2>1, <2>2, <2>3, <2>4, <2>5 DEF ShapeOf
<1> QED
  BY <1>1, BlockedHasBlockerInvariant, PTL

-----------------------------------------------------------------------------
(* Driver and template *)

\* A task that has not ended is in a phase of the template, and its blocker, if
\* it has one, stopped a phase it has left for a blocked one.
InPlace ==
    /\ record.terminal = None => record.phase \in TaskPhases
    /\ record.blocker # None => /\ record.phase \in BlockedNames
                                /\ record.blocker.blockedPhase \notin BlockedNames

\* Where the blocker of a tick comes from.
LEMMA TickBlocker ==
    ASSUME InPlace, NEW b \in Optional(Reports), Task(b).blocker # None
    PROVE  \/ /\ record.phase \in BlockedNames
              /\ Task(b).blocker.blockedPhase \notin BlockedNames
           \/ /\ record.phase \notin BlockedNames
              /\ Task(b).blocker \in Reportable(record.phase)
BY TaskAssumption DEF InPlace, Task, Reports, Optional

\* A blocker reported in a phase names it, and owner and options suit it.
LEMMA ReportFields ==
    ASSUME NEW phase \in TaskPhases, NEW b \in Reportable(phase)
    PROVE  /\ b.blockedPhase = phase /\ <<phase, b.owner>> \in Owners
           /\ {b.resume} \cup b.options \subseteq TaskPhases
BY DEF Reportable, TaskPhases

\* A tick stays in the template, and records a blocker only when it blocks.
LEMMA TickInPlace ==
    ASSUME InPlace, BlockedHasBlocker, record.terminal = None,
           NEW b \in Optional(Reports), NEW w \in Optional(Waits),
           NEW v \in Optional(Verdicts), NEW d, d = DecideTask(Task(b), w, v), d # None
    PROVE  /\ d.to \in TaskPhases
           /\ d.blocker # None => /\ d.to \in BlockedNames
                                  /\ d.blocker.blockedPhase \notin BlockedNames
<1> DEFINE t == Task(b)
<1>0. t.phase = record.phase /\ t.phase \in TaskPhases /\ BlockedNames \subseteq TaskPhases
  BY DEF Task, InPlace, TaskPhases
<1>1. ShapeOf(t, w, v, d)
  BY TaskOfRecord, AnswerShapes
<1>2. t.blocker # None => t.blocker.blockedPhase \notin BlockedNames
  BY <1>0, TickBlocker, ReportFields
<1> HIDE DEF t
<1>3. CASE t.blocker # None /\ d = BlockedDecision(t.phase, t.blocker, w)
  BY <1>0, <1>2, <1>3, BlockedRoute, BlockFields DEF BlockedDecision, WaitOrRaise, Wait
<1>4. CASE d = ReviewDecision(w, v)
  <2>1. "REVIEW_WAIT" \in TaskPhases \ BlockedNames
    BY DEF TaskPhases, BlockedNames
  <2>2. TriggerBlocker(v, "REVIEW_WAIT").blockedPhase = "REVIEW_WAIT"
    BY DEF TriggerBlocker
  <2> QED
    BY <1>0, <1>4, <2>1, <2>2, ReviewAnswer, BlockFields DEF Wait
<1>5. CASE d = Wait(t.phase, t.phase, w, None)
  BY <1>0, <1>5 DEF Wait
<1>6. CASE /\ t.phase \notin BlockedPhases \cup {"REVIEW_REQUESTED"}
           /\ t.phase # NextTaskPhase(t)
           /\ d = Move(t.phase, NextTaskPhase(t), TaskSignal(t.phase, NextTaskPhase(t)),
                       FALSE, {}, None)
  <2>1. NextTaskPhase(t) \in TaskPhases
    BY <1>6, LineTransition
  <2> QED
    BY <1>6, <2>1 DEF Move
<1> QED
  BY <1>1, <1>3, <1>4, <1>5, <1>6 DEF ShapeOf

\* A task that has not ended stays in the phases of its template.
LEMMA InPlaceInvariant == Spec => []InPlace
<1>1. Init => InPlace
  BY DEF Init, FreshState, InPlace, TaskPhases
<1>2. InPlace /\ BlockedHasBlocker /\ [Next]_vars => InPlace'
  <2> SUFFICES ASSUME InPlace, BlockedHasBlocker, [Next]_vars PROVE InPlace'
    OBVIOUS
  <2>1. ASSUME NEW d, Record(d), d.terminal = None => d.to \in TaskPhases,
               d.blocker # None => /\ d.to \in BlockedNames
                                   /\ d.blocker.blockedPhase \notin BlockedNames
        PROVE  InPlace'
    BY <2>1, TaskAssumption DEF Record, CanApply, Apply, NextBlocker, ClearsBlocker, InPlace
  <2>2. ASSUME NEW b \in Optional(Reports), NEW w \in Optional(Waits),
               NEW v \in Optional(Verdicts), Tick(b, w, v)
        PROVE  InPlace'
    <3>1. /\ DecideTask(Task(b), w, v) # None /\ record.terminal = None
          /\ Record(DecideTask(Task(b), w, v))
      BY <2>2 DEF Tick, Record, Ended
    <3> QED
      BY <2>1, <3>1, TickInPlace
  <2>3. ASSUME NEW phase, NEW to, NEW signal, NEW terminal,
               terminal = None => to \in TaskPhases,
               Record(Move(phase, to, signal, FALSE, {}, terminal))
        PROVE  InPlace'
    BY <2>1, <2>3 DEF Move
  <2>4. ASSUME NEW to \in {"COMPLETE", "FIXING_REVIEW"}, Reviewed(to) PROVE InPlace'
    <3>1. to \in TaskPhases
      BY <2>4 DEF TaskPhases
    <3>2. Record(Move("REVIEW_WAIT", to, "REVIEW_COMPLETED", FALSE, {}, None))
      BY <2>4 DEF Reviewed
    <3> QED
      BY <2>3, <3>1, <3>2
  <2>5. CASE ThresholdPassed
    <3>1. PICK b \in Reports :
               Record(Block("REVIEW_WAIT", "BLOCKED_NEEDS_EL_LE", b))
      BY <2>5 DEF ThresholdPassed
    <3>2. b.blockedPhase = "REVIEW_WAIT"
      BY <2>5 DEF ThresholdPassed, Reports, Reportable
    <3> QED
      BY <2>1, <3>1, <3>2, BlockFields DEF TaskPhases, BlockedNames
  <2>6. ASSUME NEW to \in TemplatePhases, Resolve(to) PROVE InPlace'
    BY <2>3, <2>6, TaskAssumption DEF Resolve, TemplatePhases
  <2>7. CASE Cancel \/ Complete
    <3>1. "CANCELLED" # None /\ "DONE" # None
      BY NoneAssumption DEF Outcomes
    <3> QED
      BY <2>3, <2>7, <3>1 DEF Cancel, Complete
  <2>8. CASE UNCHANGED vars
    BY <2>8 DEF vars, InPlace
  <2> QED
    BY <2>2, <2>4, <2>5, <2>6, <2>7, <2>8 DEF Next, TickAny
<1> QED
  BY <1>1, <1>2, BlockedHasBlockerInvariant, PTL DEF Spec

-----------------------------------------------------------------------------
(* Tested work *)

\* The phases that take the work for tested.
Judged == {"REVIEW_REQUESTED", "REVIEW_WAIT", "COMPLETE"}

\* The work is tested in these phases, and while a blocker may lead back to them.
TestedInv ==
    /\ record.phase \in Judged => offered.tested
    /\ record.phase \in BlockedNames /\ record.blocker.options \cap Judged # {}
       => offered.tested

\* What a decision must bring along to keep it so.
KeepsTested(d) ==
    /\ d.to \in Judged => TestedAfter(offered.tested, d)
    /\ d.to \in BlockedNames /\ d.blocker.options \cap Judged # {} => offered.tested

\* Only the phase a decision enters and the blocker it records matter.
LEMMA RecordKeepsTested ==
    ASSUME NEW d, Record(d), KeepsTested(d)
    PROVE  TestedInv'
<1>1. record'.phase = d.to /\ offered'.tested = TestedAfter(offered.tested, d)
  BY DEF Record, Apply
<1>2. CASE d.to \in BlockedNames
  <2>1. d.blocker # None /\ record'.blocker = d.blocker
    BY <1>2, TaskAssumption DEF Record, CanApply, Apply, NextBlocker
  <2>2. d.to \notin Judged \cup {"IMPLEMENTING", "FIXING_REVIEW"}
    BY <1>2 DEF BlockedNames, Judged
  <2>3. offered.tested => TestedAfter(offered.tested, d)
    BY <2>2 DEF TestedAfter
  <2> QED
    BY <1>1, <2>1, <2>2, <2>3 DEF TestedInv, KeepsTested
<1>3. CASE d.to \notin BlockedNames
  BY <1>1, <1>3 DEF TestedInv, KeepsTested
<1> QED
  BY <1>2, <1>3

\* A blocker reported in a phase leads back to that phase or to a rescope.
LEMMA ReportOptions ==
    ASSUME NEW phase, NEW b \in Reportable(phase), b.options \cap Judged # {}
    PROVE  phase \in Judged
BY DEF Reportable, Judged

\* No tick of the driver takes untested work for tested.
LEMMA TickKeepsTested ==
    ASSUME TestedInv, InPlace, BlockedHasBlocker,
           NEW b \in Optional(Reports), NEW w, NEW v \in Optional(Verdicts),
           NEW d, d = DecideTask(Task(b), w, v), d # None
    PROVE  KeepsTested(d)
<1> DEFINE t == Task(b)
<1>0. t.phase = record.phase
  BY DEF Task
<1>1. ShapeOf(t, w, v, d)
  BY TaskOfRecord, AnswerShapes
<1>2. t.blocker # None /\ t.blocker.options \cap Judged # {} => offered.tested
  <2> SUFFICES ASSUME t.blocker # None, t.blocker.options \cap Judged # {}
               PROVE  offered.tested
    OBVIOUS
  <2>1. CASE record.blocker # None
    BY <2>1 DEF Task, InPlace, TestedInv
  <2>2. CASE record.blocker = None
    <3>1. t.blocker \in Reportable(record.phase)
      BY <2>2 DEF Task, Reports, Optional
    <3> QED
      BY <3>1, ReportOptions DEF TestedInv
  <2> QED
    BY <2>1, <2>2
<1> HIDE DEF t
<1>3. CASE t.blocker # None /\ d = BlockedDecision(t.phase, t.blocker, w)
  <2>1. d.to \in BlockedNames /\ d.blocker = t.blocker
    BY <1>3, BlockedRoute, BlockFields DEF BlockedDecision, WaitOrRaise, Wait
  <2>2. d.to \notin Judged
    BY <2>1 DEF BlockedNames, Judged
  <2> QED
    BY <1>2, <1>3, <2>1, <2>2 DEF KeepsTested
<1>4. CASE t.phase = "REVIEW_REQUESTED" /\ d = ReviewDecision(w, v)
  <2>1. offered.tested
    BY <1>0, <1>4 DEF TestedInv, Judged
  <2>2. d.to = "REVIEW_WAIT" \/ d.to \in BlockedNames
    BY <1>4, ReviewAnswer, BlockFields DEF Wait
  <2> QED
    BY <2>1, <2>2 DEF KeepsTested, TestedAfter, Judged, BlockedNames
<1>5. CASE t.phase \notin BlockedPhases /\ d = Wait(t.phase, t.phase, w, None)
  <2>1. d.to = record.phase /\ record.phase \notin BlockedNames
    BY <1>0, <1>5, TaskAssumption DEF Wait
  <2> QED
    BY <2>1 DEF KeepsTested, TestedAfter, TestedInv, Judged
<1>6. CASE /\ t.phase \notin BlockedPhases \cup {"REVIEW_REQUESTED"}
           /\ t.phase # NextTaskPhase(t)
           /\ d = Move(t.phase, NextTaskPhase(t), TaskSignal(t.phase, NextTaskPhase(t)),
                       FALSE, {}, None)
  <2>0. /\ NextTaskPhase(t) \in TaskPhases \ BlockedNames
        /\ t.phase \in TaskPhases \ BlockedNames
    <3> DEFINE next == NextTaskPhase(t)
    <3>1. next # t.phase /\ t.phase # "REVIEW_REQUESTED"
      BY <1>6
    <3> HIDE DEF next
    <3>2. next \in TaskPhases \ BlockedNames /\ t.phase \in TaskPhases \ BlockedNames
      BY <3>1, LineTransition DEF next
    <3> QED
      BY <3>2 DEF next
  <2>1. /\ d.from = t.phase /\ d.to = NextTaskPhase(t)
        /\ d.to \in TaskPhases \ BlockedNames
    BY <1>6, <2>0 DEF Move
  <2>2. CASE d.to \in Judged
    <3>1. ~LoopsExhausted(t)
      BY <2>1, <2>2 DEF NextTaskPhase, Judged
    <3>2. t.phase \in DOMAIN TaskLine /\ d.to = TaskLine[t.phase]
      BY <1>6, <2>1, <3>1 DEF NextTaskPhase
    <3>3. t.phase \in {"TASK_ASSIGNED", "CLAIMED", "INSPECTING", "IMPLEMENTING", "TESTING",
                       "FIXING_REVIEW"}
      BY <1>6, <3>2 DEF TaskLine
    <3>4. t.phase = "TESTING" /\ d.to = "REVIEW_REQUESTED"
      <4>1. t.phase # "TASK_ASSIGNED"
        BY <2>2, <3>2 DEF TaskLine, Judged
      <4>2. t.phase # "CLAIMED"
        BY <2>2, <3>2 DEF TaskLine, Judged
      <4>3. t.phase # "INSPECTING"
        BY <2>2, <3>2 DEF TaskLine, Judged
      <4>4. t.phase # "IMPLEMENTING"
        BY <2>2, <3>2 DEF TaskLine, Judged
      <4>5. t.phase # "FIXING_REVIEW"
        BY <2>2, <3>2 DEF TaskLine, Judged
      <4> QED
        BY <3>2, <3>3, <4>1, <4>2, <4>3, <4>4, <4>5 DEF TaskLine
    <3> QED
      BY <2>1, <3>4 DEF KeepsTested, TestedAfter, BlockedNames
  <2>3. CASE d.to \notin Judged
    BY <2>1, <2>3 DEF KeepsTested
  <2> QED
    BY <2>2, <2>3
<1> QED
  BY <1>1, <1>3, <1>4, <1>5, <1>6 DEF ShapeOf

\* Reviewed and completed work has been tested since it was last changed.
THEOREM ReviewTested == Spec => []ReviewIsOfTestedWork
<1>1. Init => TestedInv
  BY DEF Init, FreshState, TestedInv, Judged, BlockedNames
<1>2. TestedInv /\ InPlace /\ BlockedHasBlocker /\ [Next]_vars => TestedInv'
  <2> SUFFICES ASSUME TestedInv, InPlace, BlockedHasBlocker, [Next]_vars PROVE TestedInv'
    OBVIOUS
  <2>1. ASSUME NEW b \in Optional(Reports), NEW w \in Optional(Waits),
               NEW v \in Optional(Verdicts), Tick(b, w, v)
        PROVE  TestedInv'
    <3>1. DecideTask(Task(b), w, v) # None /\ Record(DecideTask(Task(b), w, v))
      BY <2>1 DEF Tick, Record
    <3> QED
      BY <3>1, TickKeepsTested, RecordKeepsTested
  <2>2. ASSUME NEW phase, NEW to, NEW signal, NEW terminal, phase = record.phase,
               Record(Move(phase, to, signal, FALSE, {}, terminal)),
               to \in Judged => offered.tested
        PROVE  TestedInv'
    <3> DEFINE d == Move(phase, to, signal, FALSE, {}, terminal)
    <3>1. d.to = to /\ d.blocker = None
      BY DEF Move
    <3>2. d.to \notin BlockedNames
      BY <2>2, <3>1, TaskAssumption DEF Record, CanApply
    <3>3. KeepsTested(d)
      BY <2>2, <3>1, <3>2 DEF KeepsTested, TestedAfter, Judged
    <3> QED
      BY <2>2, <3>3, RecordKeepsTested
  <2>3. ASSUME NEW to \in {"COMPLETE", "FIXING_REVIEW"}, Reviewed(to) PROVE TestedInv'
    <3>1. record.phase = "REVIEW_WAIT" /\ offered.tested
      BY <2>3 DEF Reviewed, TestedInv, Judged
    <3> QED
      BY <2>2, <2>3, <3>1 DEF Reviewed
  <2>4. CASE ThresholdPassed
    <3>1. PICK b : Record(Block("REVIEW_WAIT", "BLOCKED_NEEDS_EL_LE", b))
      BY <2>4 DEF ThresholdPassed
    <3>2. offered.tested
      BY <2>4 DEF ThresholdPassed, TestedInv, Judged
    <3> DEFINE d == Block("REVIEW_WAIT", "BLOCKED_NEEDS_EL_LE", b)
    <3>3. d.to = "BLOCKED_NEEDS_EL_LE"
      BY BlockFields
    <3> HIDE DEF d
    <3>4. KeepsTested(d)
      BY <3>2, <3>3 DEF KeepsTested, Judged
    <3>5. Record(d)
      BY <3>1 DEF d
    <3> QED
      BY <3>4, <3>5, RecordKeepsTested
  <2>5. ASSUME NEW to \in TemplatePhases, Resolve(to) PROVE TestedInv'
    <3> DEFINE d == Move(record.phase, to, "BLOCKER_RESOLVED", FALSE, {}, None)
    <3>1. record.phase \in BlockedNames /\ Record(d)
      BY <2>5, TaskAssumption DEF Resolve
    <3>2. d.to = to /\ d.blocker = None /\ d.terminal = None
      BY DEF Move
    <3>3. to \in Judged => to \in record.blocker.options
      BY <3>1, <3>2, TaskAssumption DEF Record, CanApply, ResumesFromBlock, Judged, BlockedNames
    <3>4. to \in Judged => offered.tested
      BY <3>1, <3>3 DEF TestedInv
    <3> QED
      BY <2>2, <3>1, <3>4
  <2>6. CASE Cancel
    BY <2>2, <2>6 DEF Cancel, Judged
  <2>7. CASE Complete
    <3>1. offered.tested
      BY <2>7 DEF Complete, TestedInv, Judged
    <3> QED
      BY <2>2, <2>7, <3>1 DEF Complete
  <2>8. CASE UNCHANGED vars
    BY <2>8 DEF vars, TestedInv
  <2> QED
    BY <2>1, <2>3, <2>4, <2>5, <2>6, <2>7, <2>8 DEF Next, TickAny
<1>3. TestedInv => ReviewIsOfTestedWork
  BY DEF TestedInv, ReviewIsOfTestedWork, Judged
<1> QED
  BY <1>1, <1>2, <1>3, InPlaceInvariant, BlockedHasBlockerInvariant, PTL DEF Spec

-----------------------------------------------------------------------------
(* What the template says *)

\* What the policy says of the three shapes of a decision.
LEMMA PolicyOnMove ==
    ASSUME NEW from, NEW to, NEW signal \in MaterialSignals \ BlockedSignals
    PROVE  PolicyOK(Move(from, to, signal, FALSE, {}, None))
           <=> from \in TaskPhases /\ <<from, signal>> \in TaskProgress
<1>1. signal # None /\ signal \notin WaitSignals
  BY SignalAssumption DEF MaterialSignals, WaitSignals
<1>2. "DONE" # None
  BY NoneAssumption DEF Outcomes
<1> QED
  BY <1>1, <1>2, TaskAssumption DEF PolicyOK, Move, WaitIsAllowed, SignalIsAllowed,
     ThresholdIsAllowed, BlockerIsAllowed, TerminalIsAllowed, RunOutcome, Progress, TemplatePhases

\* The template admits a blocker exactly when it names the phase left, its
\* owner is listed there, and it leads back into the template.
LEMMA PolicyOnBlock ==
    ASSUME NEW from \in TaskPhases, NEW blocker, blocker # None
    PROVE  PolicyOK(Block(from, BlockedPhaseFor(blocker.owner), blocker))
           <=> /\ <<from, blocker.owner>> \in Owners
               /\ blocker.blockedPhase = from
               /\ {blocker.resume} \cup blocker.options \subseteq TaskPhases \cup Outcomes
<1> DEFINE d == Block(from, BlockedPhaseFor(blocker.owner), blocker)
<1>1. /\ d.from = from /\ d.to = BlockedPhaseFor(blocker.owner)
      /\ d.signal = "BLOCKER_CREATED" /\ d.wait = None
      /\ d.blocker = blocker /\ d.terminal = None
  BY BlockFields
<1>2. "DONE" # None
  BY NoneAssumption DEF Outcomes
<1>3. d.signal \in BlockedSignals /\ RunOutcome(d) # "STALLED"
  BY <1>1, <1>2 DEF BlockedSignals, RunOutcome
<1> HIDE DEF d
<1>4. PolicyOK(d) <=> /\ <<from, blocker.owner>> \in Owners
                      /\ blocker.blockedPhase = from
                      /\ {blocker.resume} \cup blocker.options \subseteq TaskPhases \cup Outcomes
  BY <1>1, <1>3, TaskAssumption DEF PolicyOK, WaitIsAllowed, SignalIsAllowed,
     ThresholdIsAllowed, BlockerIsAllowed, TerminalIsAllowed, TemplatePhases
<1> QED
  BY <1>4 DEF d

\* A wait that does not repeat a blocker, to be answered by the steward or retried.
LEMMA PolicyOnWait ==
    ASSUME NEW from \in TaskPhases, NEW to, NEW wait \in Waits, from \notin BlockedNames,
           wait.response \in {"BLOCKED_NEEDS_EL_LE", "RETRY_SCHEDULED"}
    PROVE  PolicyOK(Wait(from, to, wait, None)) <=> from \in Waiting
<1>1. wait # None /\ "DONE" # None
  BY NoneAssumption DEF Outcomes
<1>2. "WAIT_TIMER_STARTED" \in WaitSignals \ (MaterialSignals \cup BlockedSignals)
  BY DEF WaitSignals, BlockedSignals, MaterialSignals
<1>3. from \in Waiting => <<from, "process_steward">> \in Owners
  BY TaskAssumption DEF Waiting, TaskWaiting, Owners, TaskOwners, BlockedNames, Roles
<1> QED
  BY <1>1, <1>2, <1>3, TaskAssumption DEF PolicyOK, Wait, WaitIsAllowed, SignalIsAllowed,
     ThresholdIsAllowed, BlockerIsAllowed, TerminalIsAllowed, RunOutcome, TemplatePhases,
     BlockedNames, ThresholdOwner

\* Driver and template agree but for OutsideTemplate, for waits that fall to the
\* steward or are retried.
THEOREM TemplateAdmits ==
    ASSUME \A w \in Waits : w.response \in {"BLOCKED_NEEDS_EL_LE", "RETRY_SCHEDULED"}
    PROVE  Spec => []TemplateAdmitsDriver
<1>1. InPlace /\ BlockedHasBlocker => TemplateAdmitsDriver
  <2> SUFFICES ASSUME InPlace, BlockedHasBlocker, record.terminal = None,
                      NEW b \in Optional(Reports), NEW w \in Optional(Waits),
                      NEW v \in Optional(Verdicts), NEW d, d = DecideTask(Task(b), w, v),
                      d # None
               PROVE  PolicyOK(d) <=> ~OutsideTemplate(d)
    BY DEF TemplateAdmitsDriver, Answers, Ended
  <2> DEFINE t == Task(b)
  <2>0. /\ t.phase = record.phase /\ t.phase \in TaskPhases
        /\ t.phase \in BlockedPhases => t.blocker # None
    BY TaskOfRecord DEF InPlace
  <2>1. t.blocker # None
        => \/ t.phase \in BlockedNames /\ t.blocker.blockedPhase \notin BlockedNames
           \/ t.phase \notin BlockedNames /\ t.blocker \in Reportable(t.phase)
    BY <2>0, TickBlocker
  <2>2. ShapeOf(t, w, v, d)
    BY <2>0, AnswerShapes
  <2> HIDE DEF t
  <2>3. CASE t.blocker # None /\ d = BlockedDecision(t.phase, t.blocker, w)
    <3>1. CASE t.phase \in BlockedNames
      <4>1. d.from = t.phase /\ d.blocker = t.blocker
        BY <2>3, BlockedAnswer, BlockFields DEF Wait
      <4>2. d.blocker # None /\ d.blocker.blockedPhase # d.from
        BY <2>1, <2>3, <3>1, <4>1
      <4> QED
        BY <4>2 DEF OutsideTemplate, PolicyOK, BlockerIsAllowed
    <3>2. CASE t.phase \notin BlockedNames
      <4>1. d = Block(t.phase, BlockedPhaseFor(t.blocker.owner), t.blocker)
        BY <2>3, <3>2, BlockedAnswer, BlockedRoute
      <4>2. /\ t.blocker.blockedPhase = t.phase /\ <<t.phase, t.blocker.owner>> \in Owners
            /\ {t.blocker.resume} \cup t.blocker.options \subseteq TaskPhases
        BY <2>0, <2>1, <2>3, <3>2, ReportFields
      <4>3. PolicyOK(d)
        BY <2>0, <2>3, <4>1, <4>2, PolicyOnBlock
      <4> QED
        BY <4>1, <4>2, <4>3, BlockFields DEF OutsideTemplate
    <3> QED
      BY <3>1, <3>2
  <2>4. CASE t.phase = "REVIEW_REQUESTED" /\ d = ReviewDecision(w, v)
    <3>1. t.phase \in Waiting \ BlockedNames
      BY <2>4, TaskAssumption DEF Waiting, TaskWaiting, BlockedNames
    <3>2. CASE w # None /\ d = Wait("REVIEW_REQUESTED", "REVIEW_WAIT", w, None)
      <4>1. PolicyOK(d)
        BY <2>0, <2>4, <3>1, <3>2, PolicyOnWait DEF Optional
      <4> QED
        BY <2>4, <3>1, <3>2, <4>1 DEF OutsideTemplate, Wait
    <3>3. ASSUME NEW q, TriggerBlocker(v, "REVIEW_WAIT") # None,
                 d = Block("REVIEW_REQUESTED", q, TriggerBlocker(v, "REVIEW_WAIT"))
          PROVE  PolicyOK(d) <=> ~OutsideTemplate(d)
      <4>1. d.blocker # None /\ d.blocker.blockedPhase # d.from
        BY <3>3, BlockFields DEF TriggerBlocker
      <4> QED
        BY <4>1 DEF OutsideTemplate, PolicyOK, BlockerIsAllowed
    <3> QED
      BY <2>4, <3>2, <3>3, ReviewAnswer
  <2>5. CASE /\ t.phase \notin BlockedPhases /\ w # None
             /\ d = Wait(t.phase, t.phase, w, None)
    <3>1. PolicyOK(d) <=> t.phase \in Waiting
      BY <2>0, <2>5, PolicyOnWait, TaskAssumption DEF Optional
    <3> QED
      BY <2>5, <3>1 DEF OutsideTemplate, Wait
  <2>6. CASE /\ t.phase \notin BlockedPhases \cup {"REVIEW_REQUESTED"}
             /\ t.phase # NextTaskPhase(t)
             /\ d = Move(t.phase, NextTaskPhase(t), TaskSignal(t.phase, NextTaskPhase(t)),
                         FALSE, {}, None)
    <3> DEFINE signal == TaskSignal(t.phase, NextTaskPhase(t))
    <3>1. /\ signal \in MaterialSignals \ BlockedSignals
          /\ <<t.phase, signal>> \in TaskProgress <=> signal # "TASK_RESCOPE_REQUESTED"
      <4>1. /\ signal \in MaterialSignals \ BlockedSignals
            /\ \/ <<t.phase, signal>> \in TaskProgress
               \/ signal = "TASK_RESCOPE_REQUESTED"
            /\ signal = "TASK_RESCOPE_REQUESTED" => t.phase = "FIXING_REVIEW"
        BY <2>6, LineTransition
      <4>2. <<"FIXING_REVIEW", "TASK_RESCOPE_REQUESTED">> \notin TaskProgress
        BY DEF TaskProgress, BlockedNames
      <4> QED
        BY <4>1, <4>2
    <3>2. PolicyOK(d) <=> <<t.phase, signal>> \in TaskProgress
      BY <2>0, <2>6, <3>1, PolicyOnMove
    <3> QED
      BY <2>6, <3>1, <3>2 DEF OutsideTemplate, Move
  <2> QED
    BY <2>2, <2>3, <2>4, <2>5, <2>6 DEF ShapeOf
<1> QED
  BY <1>1, BlockedHasBlockerInvariant, InPlaceInvariant, PTL
=============================================================================
