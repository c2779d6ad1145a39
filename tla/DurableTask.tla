------------------------------ MODULE DurableTask ------------------------------
(***************************************************************************)
(* A software task on the durable store: every tick consumes one typed     *)
(* event and emits one decision (docs/workflow_contract.md:85), the event  *)
(* goes to events.jsonl, the decision of the task driver to                *)
(* decisions.jsonl, and the process may die at any point, between the two  *)
(* files as well.  It starts again with a replay and goes on with what     *)
(* status says is next.                                                    *)
(*                                                                         *)
(* The two logs are not linked by the code: an event whose process died    *)
(* before the decision stays in events.jsonl without an answer.            *)
(* review_loop_count is never written to the record (models.py:365), so    *)
(* the host counts the passes in the decision log and hands the count over *)
(* with the event, as far as replay_events needs it.                       *)
(***************************************************************************)
EXTENDS RecoveredStore, TaskDriver, StatusView

CONSTANTS
    Host,      \* the one process that uses the store
    MaxBlocks  \* bound: blockers recorded in one run

\* The task has the store to itself, and its host never starts it over.
ASSUME HostAssumption ==
    /\ Procs = {Host} /\ ~Overwrite /\ ~TornWrites
    /\ Kind = "task" /\ BlockedPhases = BlockedNames
    /\ MaxBlocks \in Nat

VARIABLES
    event,     \* the event the host is working on, in its memory
    answered,  \* history: the events whose decision was logged, in order
    offered    \* history: the last logged decision, and whether the work is tested

hostVars == <<vars, event, answered, offered>>

Decisions == DecisionsIn(Lines)

LoopsIn(decisions) ==
    Cardinality({i \in DOMAIN decisions :
                    decisions[i].from = "FIXING_REVIEW" /\ decisions[i].to = "IMPLEMENTING"})

BlocksIn(decisions) ==
    Cardinality({i \in DOMAIN decisions :
                    decisions[i].blocker # None /\ decisions[i].from # decisions[i].to})

\* The task the store keeps, as the driver's own host sees it: Visible is what a
\* reader of the store sees.
Task ==
    INSTANCE TaskHost WITH record  <- Visible,
                           loops   <- LoopsIn(Decisions),
                           blocks  <- BlocksIn(Decisions),
                           Strict  <- FALSE,
                           LoopCap <- MaxLoops + 2

-----------------------------------------------------------------------------
(* Events: what happened, and what the driver is to be told with it. *)

Event(kind, report, to, wait, verdict, loops) ==
    [kind |-> kind, report |-> report, to |-> to, wait |-> wait,
     verdict |-> verdict, loops |-> loops]

EventType ==
    [kind    : {"tick", "reviewed", "threshold", "resolved", "cancelled", "completed"},
     report  : Optional(Blockers),
     to      : Optional(TemplatePhases \cup Outcomes),
     wait    : Optional(Waits),
     verdict : Optional(Verdicts),
     loops   : Nat]

\* That there is no event is told apart from every event.
ASSUME EventAssumption == None \notin EventType

\* The blockers an event may report in a phase, as in TaskHost.
ReportsIn(phase) == Task!Reportable(phase) \cap Blockers

\* The driver is ticked, with a wait policy at hand; a review may be verified.
Ticks(s, loops) ==
    {Event("tick", b, None, w, v, loops) :
        b \in Optional(ReportsIn(s.phase)), w \in Waits,
        v \in IF s.phase = "REVIEW_REQUESTED" THEN Optional(Verdicts) ELSE {None}}

Arrived(kind, to) == Event(kind, None, to, None, None, 0)

\* What may happen next, by the answer of status: an ended task is left alone,
\* a blocker waits for its owner, a wait for its signal or its threshold, and
\* everything else for a tick.
EventsFor(s, loops) ==
    CASE NextTrigger(s)[1] = "blocker" ->
            {Arrived("resolved", to) : to \in s.blocker.options \cap TemplatePhases}
            \cup {Arrived("cancelled", "CANCELLED")}
      [] NextTrigger(s)[1] = "wait" ->
            {Arrived("reviewed", to) : to \in {"COMPLETE", "FIXING_REVIEW"}}
            \cup {Event("threshold", b, None, None, None, 0) :
                     b \in {c \in ReportsIn(s.phase) :
                               c.owner = "process_steward"
                               /\ s.wait.response = "BLOCKED_NEEDS_EL_LE"}}
      [] NextTrigger(s)[1] = "event" ->
            IF s.phase = "COMPLETE" THEN {Arrived("completed", "COMPLETE")}
            ELSE IF s.phase = "RESCOPE_REQUESTED" THEN {Arrived("cancelled", "CANCELLED")}
            ELSE Ticks(s, loops)
      [] OTHER -> {}

\* The deterministic decision on an event: the driver's on a tick, and for the
\* other events the transition they stand for.
DecisionFor(s, e) ==
    CASE e.kind = "tick" ->
            DecideTask([phase   |-> s.phase,
                        blocker |-> IF s.blocker # None THEN s.blocker ELSE e.report,
                        loops   |-> e.loops],
                       e.wait, e.verdict)
      [] e.kind = "reviewed" -> Move(s.phase, e.to, "REVIEW_COMPLETED", FALSE, {}, None)
      [] e.kind = "threshold" -> Block(s.phase, "BLOCKED_NEEDS_EL_LE", e.report)
      [] e.kind = "resolved" -> Move(s.phase, e.to, "BLOCKER_RESOLVED", FALSE, {}, None)
      [] e.kind = "cancelled" -> Move(s.phase, e.to, None, FALSE, {}, "CANCELLED")
      [] e.kind = "completed" -> Move(s.phase, e.to, "TASK_COMPLETED", FALSE, {}, "DONE")

(* replay_events: the same events through the same decision function. *)

\* Fault variant: every decision is computed from the initial record.
ReplayEventsFromInitial(s, es) ==
    LET run[i \in 0..Len(es)] ==
          IF i = 0 THEN {s} ELSE After(run[i - 1], DecisionFor(s, es[i]))
    IN  run[Len(es)]

\* The one record the events lead to, or none.
ReplayEvents(s, es) ==
    LET run[i \in 0..Len(es)] ==
          IF i = 0 THEN {s}
          ELSE UNION {After({t}, DecisionFor(t, es[i])) : t \in run[i - 1]}
    IN  run[Len(es)]

-----------------------------------------------------------------------------

Init ==
    /\ ReadyInit
    /\ event = None
    /\ answered = <<>>
    /\ offered = [decision |-> None, tested |-> FALSE]

\* The host reads status and records the next event.
Receive(e) ==
    /\ event = None /\ ~stale
    /\ e \in EventsFor(snap, LoopsIn(Decisions))
    /\ BlocksIn(Decisions) + (IF e.report # None THEN 1 ELSE 0) <= MaxBlocks
    /\ e.verdict \notin {None, "READY"} => BlocksIn(Decisions) < MaxBlocks
    /\ AppendEvent(Host, e)
    /\ event' = e
    /\ UNCHANGED <<answered, offered>>

\* The host decides on the event and submits the decision.
Decide ==
    /\ event # None
    /\ BeginAppend(Host, DecisionFor(snap, event))
    /\ UNCHANGED <<event, answered, offered>>

\* The store call goes on.  With the line in the log the event has its answer.
Proceed ==
    /\ Continue(Host)
    /\ IF pc[Host] = "append"
       THEN /\ event' = None
            /\ answered' = Append(answered, event)
            /\ offered' = [decision |-> line[Host],
                           tested   |-> Task!TestedAfter(offered.tested, line[Host])]
       ELSE UNCHANGED <<event, answered, offered>>

\* The process dies, in a store call or between two of them.
Die ==
    /\ \/ Crash(Host)
       \/ /\ pc[Host] = "idle" /\ event # None
          /\ crashes < MaxCrashes /\ crashes' = crashes + 1
          /\ stale' = TRUE
          /\ UNCHANGED <<files, procs, acked, seeded>>
    /\ event' = None
    /\ UNCHANGED <<answered, offered>>

\* The next process replays before it does anything else.
Restart ==
    /\ stale
    /\ BeginReplay(Host)
    /\ UNCHANGED <<event, answered, offered>>

Arrives == IsRecord(snap) /\ \E e \in EventsFor(snap, LoopsIn(Decisions)) : Receive(e)

HostNext == Arrives \/ Decide \/ Proceed \/ Die \/ Restart

\* The host is scheduled and restarted, reviewers and owners answer in the end,
\* and it dies only so often (MaxCrashes).
HostFairness ==
    /\ WF_hostVars(Arrives) /\ WF_hostVars(Decide)
    /\ WF_hostVars(Proceed) /\ WF_hostVars(Restart)

HostSpec == Init /\ [][HostNext]_hostVars /\ HostFairness

-----------------------------------------------------------------------------

\* What readers of the store see of a task, through crashes, restarts and half
\* written snapshots, is one task as TaskHost runs it: no phase is skipped or
\* passed twice, and the loop counter survives.  (state_store.py:94-110,
\* task_driver.py:105-192)
ImplementsTask == Task!Spec

\* Whatever crashes, the task returns to its project, if the host dies only so
\* often.  (software_task_driver.md:110-119)
ReturnsThroughCrashes == Task!TaskReturns

\* Replaying the events that were answered reaches the recorded decisions, and
\* every unanswered one is in the hands of the host or was lost with it
\* (docs/workflow_contract.md:312).  With the lost ones it would not: the code
\* does not tell the two apart.
EventsExplainRecord ==
    /\ ReplayEvents(seed, answered) = {Visible}
    /\ Len(events) - Len(answered) <= crashes + (IF event # None THEN 1 ELSE 0)
=============================================================================
