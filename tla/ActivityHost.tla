----------------------------- MODULE ActivityHost -----------------------------
(***************************************************************************)
(* A workflow that does its work through activities: the record of the     *)
(* engine, the local runner, and a host between them, which is not in the  *)
(* repository.  It schedules the work of a phase by a decision, runs what  *)
(* status says is the current activity, and records the answer:            *)
(*   - a success moves the workflow on, with the evidence of the envelope  *)
(*     (docs/workflow_contract.md:154: the runner has counted it);         *)
(*   - a skipped duplicate moves it on if the evidence is on record;       *)
(*   - everything else is retried, and blocks when attempts run out.       *)
(* Meanwhile others use the same store: an observation that only adds      *)
(* evidence erases current_activity (replay.py:47), a blocker moves the    *)
(* workflow away under the running handler, and the host may restart.      *)
(***************************************************************************)
EXTENDS ActivityRunner, DriverDecisions, StatusView

CONSTANTS
    Work,         \* the requests each phase may schedule
    Following,    \* the phase that follows it, and the signal of that transition
    FirstPhase,
    Remark,       \* evidence an observer may add
    MaxAttempts,  \* retry_policy.max_attempts
    MaxDisturbed  \* bound: observations, interruptions, resolutions and restarts

ASSUME ActivityAssumption ==
    /\ MaxAttempts \in Nat \ {0}
    /\ MaxDisturbed \in Nat

\* Work is done in phases that are not blocked and leads to another such phase;
\* every request is the work of some phase.
ASSUME WorkAssumption ==
    /\ BlockedNames \subseteq BlockedPhases
    /\ \A p \in DOMAIN Work :
          /\ Work[p] \subseteq Requests
          /\ p \notin BlockedPhases
          /\ Following[p].to \notin BlockedPhases \cup {p}
    /\ \A r \in Requests : \E p \in DOMAIN Work : r \in Work[p]

VARIABLES
    record,    \* the WorkflowStateRecord
    attempts,  \* failed attempts at the current activity, in memory
    disturbed, \* history: how often anybody but the host did something
    dropped    \* history: the completed keys whose success came too late

vars == <<runnerVars, record, attempts, disturbed, dropped>>

PhaseOf(r) == CHOOSE p \in DOMAIN Work : r \in Work[p]

Submit(d) == CanApply(record, d) /\ record' = Apply(record, d)

\* Steps of the host that leave the runner alone but for the answer they use.
Consume == answer' = None /\ UNCHANGED <<completed, running, successes, standing>>

StewardBlocker(phase) ==
    [owner |-> "process_steward", blockedPhase |-> phase, resume |-> phase, options |-> {phase}]

Init ==
    /\ RunnerInit
    /\ record = FreshState(FirstPhase)
    /\ attempts = 0 /\ disturbed = 0 /\ dropped = {}

Schedule(r) ==
    /\ Free
    /\ NextTrigger(record)[1] = "event"
    /\ record.phase \in DOMAIN Work /\ r \in Work[record.phase]
    /\ Submit([Move(record.phase, record.phase, None, FALSE, {}, None) EXCEPT !.activity = r.id])
    /\ attempts' = 0
    /\ UNCHANGED <<runnerVars, disturbed, dropped>>

\* The record keeps the id of the request; the host finds the request again.
Start ==
    /\ NextTrigger(record)[1] = "activity"
    /\ \E r \in Requests : r.id = record.activity /\ Run(r)
    /\ UNCHANGED <<record, attempts, disturbed, dropped>>

\* The handler of the running request raises, or answers with any envelope there is.
Handle ==
    /\ running # None
    /\ \/ Raise
       \/ \E env \in {e \in Envelopes : ListOK(e) /\ ShapeOK(e)} : Answer(env)
    /\ UNCHANGED <<record, attempts, disturbed, dropped>>

\* The record names the request among its evidence: what this host asks for when
\* a call brings no evidence of its own.
Done(r) == r.needs > 0 => r.key \in record.evidence

\* The answer is good enough to go on.
Accepted ==
    \/ answer.status = "SUCCEEDED"
    \/ answer.status \in {"SKIPPED_DUPLICATE", "DECLINED"} /\ Done(answer.request)

\* What the host decides on an accepted answer, and when it gives up.
Advance(phase, evidence) ==
    Move(phase, Following[phase].to, Following[phase].signal, FALSE, evidence, None)

GiveUp(phase) == Block(phase, "BLOCKED_NEEDS_EL_LE", StewardBlocker(phase))

Verdict ==
    LET phase == PhaseOf(answer.request)
    IN  IF Accepted THEN Advance(phase, answer.evidence) ELSE GiveUp(phase)

Conclude ==
    /\ answer # None
    /\ Accepted \/ attempts + 1 >= MaxAttempts
    /\ Submit(Verdict)
    /\ Consume
    /\ attempts' = 0
    /\ UNCHANGED <<disturbed, dropped>>

\* The workflow has left the phase meanwhile: apply_decision refuses the answer.
Drop ==
    /\ answer # None
    /\ ~CanApply(record, Verdict)
    /\ dropped' = IF answer.status = "SUCCEEDED" THEN dropped \cup {answer.request.key}
                  ELSE dropped
    /\ Consume
    /\ UNCHANGED <<record, attempts, disturbed>>

Retry ==
    /\ answer # None
    /\ ~Accepted /\ attempts + 1 < MaxAttempts
    /\ CanApply(record, Verdict)
    /\ Consume
    /\ attempts' = attempts + 1
    /\ UNCHANGED <<record, disturbed, dropped>>

Disturb == disturbed < MaxDisturbed /\ disturbed' = disturbed + 1

\* Others append decisions of their own: evidence, a blocker, its resolution.
Observe ==
    /\ Disturb
    /\ record.phase \in DOMAIN Work
    /\ Submit([Move(record.phase, record.phase, None, FALSE, {Remark}, None) EXCEPT !.material = FALSE])
    /\ UNCHANGED <<runnerVars, attempts, dropped>>

Interrupt ==
    /\ Disturb
    /\ record.phase \in DOMAIN Work
    /\ Submit(GiveUp(record.phase))
    /\ UNCHANGED <<runnerVars, attempts, dropped>>

Resolve ==
    /\ Disturb
    /\ record.phase \in BlockedPhases
    /\ \E to \in record.blocker.options :
           Submit(Move(record.phase, to, "BLOCKER_RESOLVED", FALSE, {}, None))
    /\ UNCHANGED <<runnerVars, attempts, dropped>>

Restart ==
    /\ Disturb
    /\ ForgetAll
    /\ attempts' = 0 /\ dropped' = {}
    /\ UNCHANGED record

Host == (\E r \in Requests : Schedule(r)) \/ Start \/ Handle \/ Conclude \/ Drop \/ Retry

Next == Host \/ Observe \/ Interrupt \/ Resolve \/ Restart

\* The host is scheduled and every handler returns or raises.
Spec == Init /\ [][Next]_vars /\ WF_vars(Host)

-----------------------------------------------------------------------------

\* A phase is left for the next one only by the answer to work of that phase, and
\* with evidence.  Either the runner holds a success under its key, with no fewer
\* references than were required, and all of them are on record, although the host
\* believes every success, handlers answer what they like and others write the
\* record meanwhile; or nothing new was done and the record names the work.
\* Which references a success brings nothing looks at.
\* (contracts.py:110-115, 138-141, replay.py:79)
AdvanceIsEvidenced ==
    [][\A p \in DOMAIN Work :
           record.phase = p /\ record'.phase = Following[p].to
           => /\ answer # None /\ answer.request \in Work[p]
              /\ LET kept == completed[answer.request.key]
                 IN  \/ /\ kept # None /\ kept.refs >= answer.request.needs
                        /\ kept.evidence \subseteq record'.evidence
                     \/ answer.status # "SUCCEEDED" /\ Done(answer.request)]_vars

\* When a request is skipped, all the evidence of the success it repeats is on
\* record, unless apply_decision refused that answer: a skip carries none, and
\* the runner does not give the first answer out again.  (contracts.py:84-92)
SkipIsExplained ==
    answer # None /\ answer.status = "SKIPPED_DUPLICATE"
    => LET key == answer.request.key
       IN  completed[key].evidence \subseteq record.evidence \/ key \in dropped

\* Whatever observers, blockers, failing handlers and restarts do, the workflow
\* ends with its work done or with somebody asked to decide.
\* (docs/workflow_contract.md:87, replay.py:47)
WorkConcludes == <>[](record.phase \notin DOMAIN Work)
=============================================================================
