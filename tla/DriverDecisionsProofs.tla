------------------------ MODULE DriverDecisionsProofs ------------------------
(* Lemmas about the decisions both drivers are built from, used by the proofs *)
(* about the task and the project.                                            *)
EXTENDS DriverDecisions, TLAPS

\* The owner of a blocker decides between the two blocked phases.
LEMMA BlockedRoute ==
    ASSUME NEW owner PROVE BlockedPhaseFor(owner) \in BlockedNames
BY DEF BlockedPhaseFor, BlockedNames

\* What the driver answers while a blocker is reported or on record.
LEMMA BlockedAnswer ==
    ASSUME NEW phase, NEW blocker, blocker # None, NEW wait,
           NEW d, d = BlockedDecision(phase, blocker, wait), d # None
    PROVE  \/ /\ phase = BlockedPhaseFor(blocker.owner) /\ wait # None
              /\ d = Wait(phase, phase, wait, blocker)
           \/ /\ phase # BlockedPhaseFor(blocker.owner)
              /\ d = Block(phase, BlockedPhaseFor(blocker.owner), blocker)
BY DEF BlockedDecision, WaitOrRaise

\* A wait, with or without a blocker, and a new blocker are decisions pydantic
\* builds.
LEMMA WaitContract ==
    ASSUME NEW from, NEW to, NEW wait, wait # None, NEW blocker,
           to \in BlockedPhases => blocker # None
    PROVE  ContractOK(Wait(from, to, wait, blocker))
BY DEF Wait, ContractOK, SamePhaseIsExplained, WaitSignalIsBacked, WaitSignals,
       BlockedSignals, SignalMatchesMateriality, TerminalIsExclusive, BlockedIsBacked

\* The fields of a decision that records a blocker.
LEMMA BlockFields ==
    ASSUME NEW from, NEW to, NEW blocker
    PROVE  /\ Block(from, to, blocker).from = from
           /\ Block(from, to, blocker).to = to
           /\ Block(from, to, blocker).signal = "BLOCKER_CREATED"
           /\ Block(from, to, blocker).wait = None
           /\ Block(from, to, blocker).blocker = blocker
           /\ Block(from, to, blocker).terminal = None
BY DEF Block, Move

\* Pydantic builds every decision that records a blocker.
LEMMA BlockContract ==
    ASSUME NEW from, NEW to, NEW blocker, blocker # None
    PROVE  ContractOK(Block(from, to, blocker))
BY DEF Block, Move, ContractOK, SamePhaseIsExplained, WaitSignalIsBacked, WaitSignals,
       SignalMatchesMateriality, TerminalIsExclusive, BlockedIsBacked, CarriesProgress

\* Pydantic builds every move on a material signal that enters no blocked
\* phase.
LEMMA MoveContract ==
    ASSUME NEW from, NEW to, to \notin BlockedPhases,
           NEW signal \in MaterialSignals, signal \notin BlockedSignals
    PROVE  ContractOK(Move(from, to, signal, FALSE, {}, None))
<1>1. signal # None /\ signal \notin WaitSignals
  BY SignalAssumption DEF MaterialSignals, WaitSignals
<1> QED
  BY <1>1 DEF Move, ContractOK, SamePhaseIsExplained, WaitSignalIsBacked,
     SignalMatchesMateriality, TerminalIsExclusive, BlockedIsBacked, CarriesProgress

\* Entering REVIEW_WAIT, or a blocker instead.
LEMMA ReviewAnswer ==
    ASSUME NEW w, NEW v \in Optional(Verdicts), NEW d, d = ReviewDecision(w, v), d # None
    PROVE  \/ v \in {None, "READY"} /\ w # None
              /\ d = Wait("REVIEW_REQUESTED", "REVIEW_WAIT", w, None)
           \/ /\ v \in Verdicts /\ v # "READY" /\ TriggerBlocker(v, "REVIEW_WAIT") # None
              /\ \E q \in BlockedNames :
                    d = Block("REVIEW_REQUESTED", q, TriggerBlocker(v, "REVIEW_WAIT"))
BY TriggerAssumption, BlockedRoute DEF ReviewDecision, CanWaitForReview, WaitOrRaise, Optional
=============================================================================
