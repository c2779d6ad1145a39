--------------------------- MODULE DurableTaskProofs ---------------------------
(* Proofs about a task on the durable store, for every set of waits and       *)
(* blockers, every repair limit and any number of crashes: the events that    *)
(* were answered explain the record.                                          *)
EXTENDS DurableTask, RecoveredStoreProofs, DriverDecisionsProofs

\* The store takes every event and every decision, and the phases, signals and
\* blockers of the driver are among those a decision may carry.
Hosted ==
    /\ Submissions = DecisionType /\ Events = EventType
    /\ TaskPhases \cup {"CANCELLED"} \subseteq Phases
    /\ MaterialSignals \cup WaitSignals \subseteq Signals
    /\ \A v \in Verdicts \ {"READY"} : TriggerBlocker(v, "REVIEW_WAIT") \in Blockers

\* The host has the store to itself.
LEMMA HostIsSerial == Serial /\ Host \in Procs /\ \A p \in Procs : p = Host
BY HostAssumption DEF Serial

-----------------------------------------------------------------------------
(* Events and their decisions *)

\* What may happen next is an event, and is decided on with a wait policy.
LEMMA EventsAreTyped ==
    ASSUME NEW s \in StateType, NEW n \in Nat, NEW e \in EventsFor(s, n)
    PROVE  /\ e \in EventType
           /\ e.kind = "tick" => /\ e.wait \in Waits /\ s.blocker = None
                                 /\ e.loops = n /\ s.terminal = None
                                 /\ e.report \in Optional(ReportsIn(s.phase))
                                 /\ e.verdict # None => s.phase = "REVIEW_REQUESTED"
           /\ e.kind = "threshold" => e.report \in ReportsIn(s.phase)
           /\ e.kind \in {"reviewed", "resolved", "cancelled", "completed"}
                 => e.to \in TaskPhases \cup {"CANCELLED"}
<1>0. /\ TemplatePhases = TaskPhases /\ "CANCELLED" \in Outcomes
      /\ {"COMPLETE", "FIXING_REVIEW"} \subseteq TaskPhases
      /\ ReportsIn(s.phase) \subseteq Blockers
  BY HostAssumption DEF TemplatePhases, Outcomes, TaskPhases, ReportsIn
<1>1. CASE NextTrigger(s)[1] = "blocker"
  BY <1>0, <1>1 DEF EventsFor, Arrived, Event, EventType, Optional
<1>2. CASE NextTrigger(s)[1] = "wait"
  BY <1>0, <1>2 DEF EventsFor, Arrived, Event, EventType, Optional
<1>3. CASE NextTrigger(s)[1] = "event"
  <2>1. s.blocker = None /\ s.terminal = None
    BY <1>3 DEF NextTrigger
  <2>2. CASE s.phase \in {"COMPLETE", "RESCOPE_REQUESTED"}
    BY <1>0, <1>3, <2>2 DEF EventsFor, Arrived, Event, EventType, Optional
  <2>3. CASE s.phase \notin {"COMPLETE", "RESCOPE_REQUESTED"}
    <3>1. e \in Ticks(s, n)
      BY <1>3, <2>3 DEF EventsFor
    <3> QED
      BY <1>0, <2>1, <3>1 DEF Ticks, Event, EventType, Optional
  <2> QED
    BY <2>2, <2>3
<1> QED
  BY <1>1, <1>2, <1>3 DEF EventsFor

\* The next phase of a task, and the signal of the way there.
LEMMA LineSignal ==
    ASSUME NEW t, t.phase # "REVIEW_REQUESTED", t.phase # NextTaskPhase(t)
    PROVE  NextTaskPhase(t) \in TaskPhases
           /\ TaskSignal(t.phase, NextTaskPhase(t)) \in MaterialSignals
<1>1. CASE LoopsExhausted(t)
  BY <1>1 DEF NextTaskPhase, TaskSignal, TaskPhases, MaterialSignals
<1>2. CASE ~LoopsExhausted(t)
  <2>1. t.phase \in {"TASK_ASSIGNED", "CLAIMED", "INSPECTING", "IMPLEMENTING", "TESTING",
                     "FIXING_REVIEW"} /\ NextTaskPhase(t) = TaskLine[t.phase]
    BY <1>2 DEF NextTaskPhase, TaskLine
  <2> QED
    BY <2>1 DEF TaskLine, TaskSignal, TaskPhases, MaterialSignals
<1> QED
  BY <1>1, <1>2

\* The decision on an event that may happen is a decision.
LEMMA AnswersAreTyped ==
    ASSUME Hosted, NEW s \in StateType, NEW n \in Nat, NEW e \in EventsFor(s, n)
    PROVE  DecisionFor(s, e) \in Submissions
<1>0. /\ s.phase \in Phases /\ BlockedNames \subseteq TaskPhases /\ TaskPhases \subseteq Phases
      /\ "CANCELLED" \in Phases /\ "REVIEW_REQUESTED" \in TaskPhases /\ "REVIEW_WAIT" \in TaskPhases
      /\ {"BLOCKER_CREATED", "WAIT_TIMER_STARTED", "REVIEW_COMPLETED", "BLOCKER_RESOLVED",
          "TASK_COMPLETED"} \subseteq Signals
      /\ Submissions = DecisionType
  BY DEF Hosted, StateType, TaskPhases, MaterialSignals, WaitSignals
<1>1. ASSUME NEW from \in Phases, NEW to \in Phases, NEW signal \in Optional(Signals),
             NEW terminal \in Optional(Outcomes)
      PROVE  Move(from, to, signal, FALSE, {}, terminal) \in DecisionType
  BY DEF Move, DecisionType, Optional
<1>2. ASSUME NEW from \in Phases, NEW to \in Phases, NEW b \in Blockers
      PROVE  Block(from, to, b) \in DecisionType
  BY <1>0 DEF Block, Move, DecisionType, Optional
<1>3. ASSUME NEW from \in Phases, NEW to \in Phases, NEW w \in Waits, NEW b \in Optional(Blockers)
      PROVE  Wait(from, to, w, b) \in DecisionType
  BY <1>0 DEF Wait, DecisionType, Optional
<1>4. e \in EventType /\ ReportsIn(s.phase) \subseteq Blockers /\ None \notin Waits
  BY EventsAreTyped, NoneAssumption DEF ReportsIn
<1>5. CASE e.kind = "tick"
  <2> DEFINE t == [phase |-> s.phase, loops |-> e.loops, blocker |-> e.report]
  <2>1. /\ e.wait \in Waits /\ e.report \in Optional(Blockers)
        /\ e.verdict \in Optional(Verdicts)
        /\ DecisionFor(s, e) = DecideTask(t, e.wait, e.verdict)
    BY <1>4, <1>5, EventsAreTyped DEF DecisionFor, EventType
  <2>2. t.phase = s.phase /\ t.blocker = e.report
    OBVIOUS
  <2> HIDE DEF t
  <2>3. CASE t.blocker # None
    <3>1. DecideTask(t, e.wait, e.verdict) = BlockedDecision(s.phase, e.report, e.wait)
      BY <2>2, <2>3 DEF DecideTask
    <3>2. \/ DecideTask(t, e.wait, e.verdict) = Wait(s.phase, s.phase, e.wait, e.report)
          \/ \E q \in BlockedNames : DecideTask(t, e.wait, e.verdict) = Block(s.phase, q, e.report)
      BY <1>4, <2>1, <3>1, BlockedRoute DEF BlockedDecision, WaitOrRaise
    <3>3. e.report \in Blockers
      BY <2>1, <2>2, <2>3 DEF Optional
    <3> QED
      BY <1>0, <1>2, <1>3, <2>1, <3>2, <3>3
  <2>4. CASE t.blocker = None /\ t.phase = "REVIEW_REQUESTED"
    <3>1. DecideTask(t, e.wait, e.verdict) = ReviewDecision(e.wait, e.verdict)
      BY <2>4 DEF DecideTask
    <3>2. ReviewDecision(e.wait, e.verdict) # None
      <4>1. CASE e.verdict = None \/ CanWaitForReview(e.verdict)
        <5>1. ReviewDecision(e.wait, e.verdict) \in DecisionType
          BY <1>0, <1>3, <1>4, <2>1, <4>1 DEF ReviewDecision, WaitOrRaise, Optional
        <5> QED
          BY <1>0, <5>1, ModelAssumption
      <4>2. CASE ~(e.verdict = None \/ CanWaitForReview(e.verdict))
        <5>1. e.verdict \in Verdicts \ {"READY"}
          BY <2>1, <4>2 DEF Optional, CanWaitForReview
        <5>2. TriggerBlocker(e.verdict, "REVIEW_WAIT") \in Blockers
          BY <5>1 DEF Hosted
        <5>3. ReviewDecision(e.wait, e.verdict) \in DecisionType
          BY <1>0, <1>2, <4>2, <5>2, BlockedRoute DEF ReviewDecision
        <5> QED
          BY <1>0, <5>3, ModelAssumption
      <4> QED
        BY <4>1, <4>2
    <3>3. \/ ReviewDecision(e.wait, e.verdict) = Wait("REVIEW_REQUESTED", "REVIEW_WAIT", e.wait, None)
          \/ /\ e.verdict \in Verdicts \ {"READY"}
             /\ \E q \in BlockedNames :
                   ReviewDecision(e.wait, e.verdict)
                     = Block("REVIEW_REQUESTED", q, TriggerBlocker(e.verdict, "REVIEW_WAIT"))
      BY <2>1, <3>2, ReviewAnswer
    <3> QED
      BY <1>0, <1>2, <1>3, <2>1, <3>1, <3>3 DEF Hosted, Optional
  <2>5. CASE t.blocker = None /\ t.phase # "REVIEW_REQUESTED" /\ t.phase = NextTaskPhase(t)
    BY <1>0, <1>3, <1>4, <2>1, <2>2, <2>5 DEF DecideTask, WaitOrRaise, Optional
  <2>6. CASE t.blocker = None /\ t.phase # "REVIEW_REQUESTED" /\ t.phase # NextTaskPhase(t)
    <3>1. NextTaskPhase(t) \in Phases /\ TaskSignal(t.phase, NextTaskPhase(t)) \in Optional(Signals)
      BY <1>0, <2>6, LineSignal DEF Hosted, Optional
    <3>2. DecideTask(t, e.wait, e.verdict)
            = Move(t.phase, NextTaskPhase(t), TaskSignal(t.phase, NextTaskPhase(t)), FALSE, {}, None)
      BY <2>6 DEF DecideTask
    <3> QED
      BY <1>0, <1>1, <2>1, <2>2, <3>1, <3>2 DEF Optional
  <2> QED
    BY <1>0, <2>1, <2>3, <2>4, <2>5, <2>6
<1>6. CASE e.kind \in {"reviewed", "resolved", "cancelled", "completed"}
  <2>1. e.to \in Phases
    BY <1>0, <1>6, EventsAreTyped
  <2>2. \E signal \in Optional(Signals), terminal \in Optional(Outcomes) :
            DecisionFor(s, e) = Move(s.phase, e.to, signal, FALSE, {}, terminal)
    BY <1>0, <1>6 DEF DecisionFor, Optional, Outcomes
  <2> QED
    BY <1>0, <1>1, <2>1, <2>2
<1>7. CASE e.kind = "threshold"
  <2>1. e.report \in Blockers /\ "BLOCKED_NEEDS_EL_LE" \in Phases
    BY <1>0, <1>4, <1>7, EventsAreTyped DEF BlockedNames
  <2>2. DecisionFor(s, e) = Block(s.phase, "BLOCKED_NEEDS_EL_LE", e.report)
    BY <1>7 DEF DecisionFor
  <2> QED
    BY <1>0, <1>2, <2>1, <2>2
<1> QED
  BY <1>4, <1>5, <1>6, <1>7 DEF EventType

-----------------------------------------------------------------------------
(* replay_events, one event more at a time *)

\* The records one event more leads to.
Turned(S, e) == UNION {After({t}, DecisionFor(t, e)) : t \in S}

\* `run` holds the records of the loop after each of n events.
IsEventRun(run, n, s, es) ==
    run = [i \in 0..n |->
              IF i = 0 THEN {s} ELSE Turned(run[i - 1], es[i])]

\* The loop has a run of every length.
LEMMA EventRunExists ==
    ASSUME NEW s, NEW es, NEW n \in Nat
    PROVE  \E run : IsEventRun(run, n, s, es)
<1> DEFINE T == {k \in Nat : ~ \E run : IsEventRun(run, k, s, es)}
<1> SUFFICES ASSUME T # {} PROVE FALSE
  OBVIOUS
<1>1. PICK k \in T : \A m \in T : k <= m
  BY LeastNatural
<1>2. CASE k = 0
  <2>1. IsEventRun([i \in 0..0 |-> {s}], 0, s, es)
    BY DEF IsEventRun
  <2> QED
    BY <1>1, <1>2, <2>1
<1>3. CASE k # 0
  <2>1. k - 1 \in Nat /\ k - 1 \notin T
    BY <1>1, <1>3
  <2>2. PICK run : IsEventRun(run, k - 1, s, es)
    BY <2>1
  <2> DEFINE r == [i \in 0..k |->
                      IF i < k THEN run[i]
                      ELSE Turned(run[k - 1], es[k])]
  <2>3. ASSUME NEW i \in 0..k
        PROVE  r[i] = IF i = 0 THEN {s} ELSE Turned(r[i - 1], es[i])
    <3>1. CASE i = k
      <4>1. r[i] = Turned(run[k - 1], es[k])
        BY <2>1, <3>1
      <4>2. r[i - 1] = run[k - 1]
        BY <2>1, <3>1
      <4> HIDE DEF r
      <4>3. i # 0 /\ i = k
        BY <1>3, <3>1
      <4> QED
        BY <4>1, <4>2, <4>3
    <3>2. CASE i # k
      <4>1. i \in 0..(k - 1) /\ (i # 0 => i - 1 \in 0..(k - 1))
        BY <2>1, <3>2
      <4>2. r[i] = run[i] /\ (i # 0 => r[i - 1] = run[i - 1])
        BY <2>1, <4>1
      <4>3. run[i] = IF i = 0 THEN {s} ELSE Turned(run[i - 1], es[i])
        BY <2>2, <4>1 DEF IsEventRun
      <4> HIDE DEF r
      <4>4. CASE i = 0
        BY <4>2, <4>3, <4>4
      <4>5. CASE i # 0
        BY <4>2, <4>3, <4>5
      <4> QED
        BY <4>4, <4>5
    <3> QED
      BY <3>1, <3>2
  <2>4. IsEventRun(r, k, s, es)
    BY <2>3 DEF IsEventRun
  <2> QED
    BY <1>1, <2>4
<1> QED
  BY <1>2, <1>3

\* Two runs agree as far as both reach.
LEMMA EventRunUnique ==
    ASSUME NEW s, NEW f, NEW g, NEW es, NEW fs, NEW m \in Nat, NEW n \in Nat, m <= n,
           IsEventRun(f, m, s, es), IsEventRun(g, n, s, fs),
           \A i \in 1..m : es[i] = fs[i]
    PROVE  \A i \in 0..m : f[i] = g[i]
<1> DEFINE T == {i \in 0..m : f[i] # g[i]}
<1> SUFFICES ASSUME T # {} PROVE FALSE
  OBVIOUS
<1>1. PICK i \in T : \A j \in T : i <= j
  <2>1. T \subseteq Nat
    OBVIOUS
  <2> HIDE DEF T
  <2> QED
    BY <2>1, LeastNatural
<1>2. i \in 0..m /\ i \in 0..n /\ f[i] # g[i]
  BY <1>1
<1>3. /\ f[i] = IF i = 0 THEN {s} ELSE Turned(f[i - 1], es[i])
      /\ g[i] = IF i = 0 THEN {s} ELSE Turned(g[i - 1], fs[i])
  BY <1>2 DEF IsEventRun
<1>4. i # 0
  BY <1>2, <1>3
<1>5. i - 1 \in 0..m /\ ~ (i <= i - 1)
  BY <1>2, <1>4
<1>6. f[i - 1] = g[i - 1]
  BY <1>1, <1>5
<1>7. es[i] = fs[i]
  BY <1>2, <1>4
<1> HIDE DEF T
<1> QED
  BY <1>2, <1>3, <1>4, <1>6, <1>7

\* What ReplayEvents computes is the end of a run.
LEMMA ReplayEventsIsRun ==
    ASSUME NEW s, NEW es, Len(es) \in Nat
    PROVE  \E run : IsEventRun(run, Len(es), s, es) /\ ReplayEvents(s, es) = run[Len(es)]
<1> DEFINE run[i \in 0..Len(es)] ==
            IF i = 0 THEN {s}
            ELSE UNION {After({t}, DecisionFor(t, es[i])) : t \in run[i - 1]}
<1>1. \E r : IsEventRun(r, Len(es), s, es)
  BY EventRunExists
<1>2. run = CHOOSE r : IsEventRun(r, Len(es), s, es)
  BY Zenon DEF IsEventRun, Turned
<1>3. IsEventRun(run, Len(es), s, es)
  BY <1>1, <1>2, Zenon
<1>4. ReplayEvents(s, es) = run[Len(es)]
  BY DEF ReplayEvents
<1> QED
  BY <1>3, <1>4

\* Replaying no event gives the record itself.
THEOREM ReplayOfNoEvent ==
    ASSUME NEW s
    PROVE  ReplayEvents(s, <<>>) = {s}
<1>1. Len(<<>>) = 0
  OBVIOUS
<1>2. PICK run : IsEventRun(run, 0, s, <<>>) /\ ReplayEvents(s, <<>>) = run[0]
  BY <1>1, ReplayEventsIsRun
<1> QED
  BY <1>2 DEF IsEventRun

\* One event more is one decision more, on what the events before it led to.
THEOREM ReplayOfEvent ==
    ASSUME NEW s, NEW es \in Seq(EventType), NEW e \in EventType, NEW r,
           ReplayEvents(s, es) = {r}
    PROVE  ReplayEvents(s, Append(es, e)) = After({r}, DecisionFor(r, e))
<1> DEFINE n  == Len(es)
           ee == Append(es, e)
<1>1. /\ n \in Nat /\ n + 1 \in Nat /\ n = Len(es) /\ n <= n + 1
      /\ Len(ee) = n + 1 /\ ee[n + 1] = e /\ \A i \in 1..n : es[i] = ee[i]
  OBVIOUS
<1> HIDE DEF n, ee
<1>2. PICK f : IsEventRun(f, n, s, es) /\ ReplayEvents(s, es) = f[n]
  BY <1>1, ReplayEventsIsRun
<1>3. PICK g : IsEventRun(g, n + 1, s, ee) /\ ReplayEvents(s, ee) = g[n + 1]
  <2>1. PICK g : IsEventRun(g, Len(ee), s, ee) /\ ReplayEvents(s, ee) = g[Len(ee)]
    BY <1>1, ReplayEventsIsRun
  <2> QED
    BY <1>1, <2>1
<1>4. f[n] = g[n]
  <2>1. PICK k \in Nat : k = n + 1
    BY <1>1
  <2>2. n <= k /\ IsEventRun(g, k, s, ee) /\ n \in 0..n
    BY <1>1, <1>3, <2>1
  <2>3. \A i \in 0..n : f[i] = g[i]
    BY <1>1, <1>2, <2>2, EventRunUnique
  <2> QED
    BY <2>2, <2>3
<1>5. g[n + 1] = Turned(g[n], e)
  <2>1. n + 1 \in 0..(n + 1) /\ n + 1 # 0 /\ (n + 1) - 1 = n
    BY <1>1
  <2> QED
    BY <1>1, <1>3, <2>1 DEF IsEventRun
<1>6. Turned({r}, e) = After({r}, DecisionFor(r, e))
  BY DEF Turned
<1> QED
  BY <1>2, <1>3, <1>4, <1>5, <1>6 DEF ee

-----------------------------------------------------------------------------
(* The host and its store *)

\* The host works on one event at a time, and not before it has replayed; what
\* it submits is the decision on that event; and the answered events lead to
\* what the log replays to.
HostInv ==
    /\ StoreInv /\ IsRecord(seed)
    /\ pc[Host] \in {"idle", "append", "read_log", "snap_open", "snap_write"}
    /\ event # None =>
          /\ ~stale /\ pc[Host] \in {"idle", "append"}
          /\ IsRecord(snap) /\ event \in EventsFor(snap, LoopsIn(Decisions))
    /\ pc[Host] = "append" => event # None /\ line[Host] = DecisionFor(snap, event)
    /\ answered \in Seq(EventType)
    /\ ReplayEvents(seed, answered) = {LogReplay}
    /\ Len(events) <= Len(answered) + crashes + (IF event # None THEN 1 ELSE 0)

\* The passes and the blockers in a log are finitely many.
LEMMA LoopsAreCounted ==
    ASSUME NEW X, NEW ds \in Seq(X)
    PROVE  LoopsIn(ds) \in Nat /\ BlocksIn(ds) \in Nat
<1>1. IsFiniteSet(DOMAIN ds)
  <2>1. DOMAIN ds = 1..Len(ds) /\ Len(ds) \in Nat
    OBVIOUS
  <2> QED
    BY <2>1, FS_Interval
<1>2. ASSUME NEW S \in SUBSET DOMAIN ds
      PROVE  Cardinality(S) \in Nat
  <2>1. IsFiniteSet(S)
    BY <1>1, FS_Subset
  <2> QED
    BY <2>1, FS_CardinalityType
<1> DEFINE L == {i \in DOMAIN ds : ds[i].from = "FIXING_REVIEW" /\ ds[i].to = "IMPLEMENTING"}
           B == {i \in DOMAIN ds : ds[i].blocker # None /\ ds[i].from # ds[i].to}
<1>3. L \in SUBSET DOMAIN ds /\ B \in SUBSET DOMAIN ds
  OBVIOUS
<1>4. LoopsIn(ds) = Cardinality(L) /\ BlocksIn(ds) = Cardinality(B)
  BY DEF LoopsIn, BlocksIn
<1> HIDE DEF L, B
<1> QED
  BY <1>2, <1>3, <1>4

\* A new store with no event answered.
LEMMA HostInit == Init => HostInv
<1> SUFFICES ASSUME Init PROVE HostInv
  OBVIOUS
<1>1. StoreInv /\ IsRecord(seed) /\ Lines = <<>>
  BY StoreInit, ModelAssumption, FileAssumption DEF Init, ReadyInit, IsRecord, Lines
<1>2. LogReplay = seed
  BY <1>1, EmptyReplay DEF LogReplay
<1>3. answered \in Seq(EventType) /\ Len(answered) = 0 /\ ReplayEvents(seed, answered) = {seed}
  BY ReplayOfNoEvent, EmptySeq DEF Init
<1>4. pc[Host] = "idle" /\ event = None /\ Len(events) = 0 /\ crashes = 0
  BY HostIsSerial DEF Init, ReadyInit, ProcInit
<1> QED
  BY <1>1, <1>2, <1>3, <1>4 DEF HostInv

\* Every step of the host, and every crash, keeps HostInv.
LEMMA HostStep == Hosted /\ HostInv /\ [HostNext]_hostVars => HostInv'
<1> SUFFICES ASSUME Hosted, HostInv, [HostNext]_hostVars PROVE HostInv'
  OBVIOUS
<1>0. /\ Host \in Procs /\ StoreInv /\ TypeOK /\ ProcInv(Host) /\ Working(Host) /\ CleanLog
      /\ seed \in StateType /\ snap \in Files(StateType)
      /\ DecisionsIn(Lines) \in Seq(DecisionType)
      /\ pc \in [Procs -> Steps] /\ line \in [Procs -> Optional(Submissions)]
      /\ Len(events) \in Nat /\ Len(answered) \in Nat /\ crashes \in Nat
      /\ LoopsIn(Decisions) \in Nat
  BY HostIsSerial, CleanReplay, LoopsAreCounted DEF HostInv, StoreInv, TypeInv, TypeOK, Decisions
<1>1. ASSUME RecoveredNext PROVE StoreInv'
  BY <1>1, HostIsSerial, StoreStep DEF HostInv
<1>2. ASSUME UNCHANGED <<seed, log, answered>>
      PROVE  /\ IsRecord(seed)' /\ answered' \in Seq(EventType)
             /\ ReplayEvents(seed, answered)' = {LogReplay'}
             /\ LoopsIn(Decisions)' = LoopsIn(Decisions)
  BY <1>2, ReplayFrame DEF HostInv, Decisions, Lines
<1>3. CASE Arrives
  <2>1. PICK e \in EventsFor(snap, LoopsIn(Decisions)) : Receive(e)
    BY <1>3 DEF Arrives, Receive
  <2>2. snap \in StateType /\ LoopsIn(Decisions) \in Nat
    BY <1>0, <1>3, LoopsAreCounted DEF Arrives, IsRecord, Files, Decisions
  <2>3. e \in EventType /\ e # None
    BY <2>2, EventsAreTyped, EventAssumption
  <2>4. StoreInv'
    BY <1>0, <1>1, <2>1, <2>3 DEF Receive, RecoveredNext, Hosted
  <2>5. /\ UNCHANGED <<seed, log, answered>> /\ UNCHANGED <<snap, pc, line, stale, crashes>>
        /\ event = None /\ ~stale /\ event' = e /\ pc[Host] = "idle"
        /\ events' = Append(events, e) /\ IsRecord(snap)
    BY <1>3, <2>1 DEF Receive, AppendEvent, procs, history, Arrives
  <2>6. Len(events') = Len(events) + 1
    BY <1>0, <2>5 DEF TypeOK
  <2>7. event' # None /\ ~stale' /\ pc'[Host] = "idle" /\ IsRecord(snap)'
    BY <2>3, <2>5 DEF IsRecord
  <2>9. event' \in EventsFor(snap', LoopsIn(Decisions)')
    <3>1. snap' = snap /\ LoopsIn(Decisions)' = LoopsIn(Decisions) /\ event' = e
      BY <1>2, <2>5
    <3> QED
      BY <2>1, <3>1
  <2>8. Len(events') <= Len(answered') + crashes' + (IF event' # None THEN 1 ELSE 0)
    BY <1>0, <2>3, <2>5, <2>6 DEF HostInv
  <2> QED
    BY <1>2, <2>4, <2>5, <2>7, <2>8, <2>9 DEF HostInv
<1>4. CASE Decide
  <2> DEFINE d == DecisionFor(snap, event)
  <2>1. event # None /\ BeginAppend(Host, d) /\ UNCHANGED <<event, answered>>
    BY <1>4 DEF Decide
  <2>2. ~stale /\ snap \in StateType
    BY <1>0, <2>1 DEF HostInv, IsRecord, Files
  <2>3. d \in Submissions
    BY <1>0, <2>1, <2>2, AnswersAreTyped DEF HostInv
  <2> HIDE DEF d
  <2>4. StoreInv'
    BY <1>0, <1>1, <2>1, <2>2, <2>3 DEF RecoveredNext
  <2>5. /\ UNCHANGED <<seed, log, answered>> /\ UNCHANGED <<snap, stale, crashes, events, event>>
        /\ pc'[Host] = "append" /\ line'[Host] = d
    BY <1>0, <2>1 DEF BeginAppend, Goto, files, history
  <2> QED
    BY <1>0, <1>2, <2>1, <2>4, <2>5 DEF HostInv, IsRecord, d
<1>5. CASE Proceed /\ pc[Host] = "append"
  <2>1. /\ AppendLine(Host) /\ event' = None /\ answered' = Append(answered, event)
        /\ event # None /\ ~stale /\ line[Host] = DecisionFor(snap, event)
        /\ IsRecord(seed) /\ IsRecord(snap)
    BY <1>5 DEF Proceed, Continue, ReadLog, OpenSeed, WriteSeed, ResetEvents, ResetLog,
                OpenSnapshot, WriteSnapshot, HostInv
  <2>2. StoreInv'
    BY <1>0, <1>1, <2>1 DEF RecoveredNext, Continue
  <2>3. /\ UNCHANGED <<seed, snap, crashes, events, stale>> /\ log' = AddText(Lines, line[Host], TRUE)
        /\ pc'[Host] = "snap_open"
    BY <1>0, <2>1 DEF AppendLine, Goto, history
  <2>4. line[Host] \in Submissions /\ snap = LogReplay /\ CanApply(snap, line[Host])
    BY <1>0, <1>5, <2>1 DEF ProcInv, Working, Optional
  <2>5. LogReplay # None
    BY <1>0, <2>1 DEF StoreInv, SeedInv
  <2>6. LogReplay' = Apply(snap, line[Host])
    BY <1>0, <2>1, <2>3, <2>4, <2>5, AppendReplay DEF Turn
  <2>7. event \in EventType
    <3>1. snap \in StateType
      BY <1>0, <2>1 DEF IsRecord, Files
    <3> QED
      BY <1>0, <2>1, <3>1, EventsAreTyped DEF HostInv
  <2>8. ReplayEvents(seed, answered') = After({snap}, line[Host])
    BY <2>1, <2>4, <2>7, ReplayOfEvent DEF HostInv
  <2>9. After({snap}, line[Host]) = {Apply(snap, line[Host])}
    BY <2>4 DEF After
  <2>10. answered' \in Seq(EventType) /\ Len(answered') = Len(answered) + 1
    BY <1>0, <2>1, <2>7 DEF HostInv
  <2>11. ReplayEvents(seed', answered') = {LogReplay'}
    BY <2>3, <2>4, <2>6, <2>8, <2>9
  <2>12. Len(events') <= Len(answered') + crashes' + (IF event' # None THEN 1 ELSE 0)
    BY <1>0, <2>1, <2>3, <2>10 DEF HostInv
  <2>13. event' = None /\ pc'[Host] = "snap_open" /\ IsRecord(seed)'
    BY <2>1, <2>3 DEF IsRecord
  <2> QED
    BY <2>2, <2>10, <2>11, <2>12, <2>13 DEF HostInv
<1>6. CASE Proceed /\ pc[Host] # "append"
  <2>1. Continue(Host) /\ UNCHANGED <<event, answered>>
    BY <1>6 DEF Proceed
  <2>2. ReadLog(Host) \/ OpenSnapshot(Host) \/ WriteSnapshot(Host)
    BY <1>6, <2>1 DEF Continue, HostInv, AppendLine, OpenSeed, WriteSeed, ResetEvents, ResetLog
  <2>3. StoreInv'
    BY <1>0, <1>1, <2>1 DEF RecoveredNext
  <2>4. event = None
    BY <2>2 DEF HostInv, ReadLog, OpenSnapshot, WriteSnapshot
  <2>5. /\ UNCHANGED <<seed, log, answered>> /\ UNCHANGED <<crashes, events, event>>
        /\ pc'[Host] \in {"idle", "snap_open", "snap_write"}
    BY <1>0, <2>1, <2>2 DEF ReadLog, OpenSnapshot, WriteSnapshot, Returned, Goto, files, history
  <2> QED
    BY <1>0, <1>2, <2>3, <2>4, <2>5 DEF HostInv
<1>7. CASE Die
  <2>1. /\ UNCHANGED <<seed, log, answered>> /\ UNCHANGED events
        /\ crashes' = crashes + 1 /\ event' = None /\ pc'[Host] = "idle"
    BY <1>0, <1>7, HostAssumption DEF Die, Crash, Returned, Goto, files, procs
  <2>2. StoreInv'
    <3>1. CASE Crash(Host)
      BY <1>0, <1>1, <3>1 DEF RecoveredNext
    <3>2. ASSUME pc[Host] = "idle", crashes' = crashes + 1, stale' = TRUE,
                 UNCHANGED <<files, procs, acked, seeded>>
          PROVE  StoreInv'
      <4>1. UNCHANGED <<seed, log>> /\ UNCHANGED <<events, snap, pc, draft, line, acked, seeded>>
        BY <3>2 DEF files, procs
      <4>2. TypeInv'
        BY <1>0, <3>2, <4>1 DEF StoreInv, TypeInv, TypeOK, Working
      <4>3. CleanLog' /\ SeedInv'
        BY <1>0, <4>1, ReplayFrame DEF StoreInv, SeedInv
      <4>4. ProcInv(Host)'
        BY <1>0, <3>2, <4>1, ReplayFrame DEF ProcInv
      <4> QED
        BY <4>2, <4>3, <4>4, HostIsSerial DEF StoreInv
    <3> QED
      BY <1>7, <3>1, <3>2 DEF Die
  <2> QED
    BY <1>0, <1>2, <2>1, <2>2 DEF HostInv
<1>8. CASE Restart
  <2>1. stale /\ BeginReplay(Host) /\ UNCHANGED <<event, answered>>
    BY <1>8 DEF Restart
  <2>2. StoreInv'
    BY <1>0, <1>1, <2>1 DEF RecoveredNext
  <2>3. event = None
    BY <2>1 DEF HostInv
  <2>4. /\ UNCHANGED <<seed, log, answered>> /\ UNCHANGED <<crashes, events>>
        /\ pc'[Host] = "read_log"
    BY <1>0, <2>1 DEF BeginReplay, Goto, files, history
  <2> QED
    BY <1>0, <1>2, <2>1, <2>2, <2>3, <2>4 DEF HostInv
<1>9. CASE UNCHANGED hostVars
  <2>1. /\ UNCHANGED <<seed, log, answered>> /\ UNCHANGED vars
        /\ UNCHANGED <<event, snap, pc, line, stale, crashes, events>>
    BY <1>9 DEF hostVars, vars, files, procs, history
  <2>2. StoreInv'
    BY <2>1, HostIsSerial, StoreStep DEF HostInv
  <2> QED
    BY <1>0, <1>2, <2>1, <2>2 DEF HostInv, IsRecord
<1> QED
  BY <1>3, <1>4, <1>5, <1>6, <1>7, <1>8, <1>9 DEF HostNext

\* Feeding the answered events through replay_events and the driver rebuilds what
\* readers of the store see, wherever the host died; and no event is lost but by
\* a crash.  (replay.py:108-125, state_store.py:87-110)
THEOREM EventsExplain ==
    ASSUME Hosted
    PROVE  HostSpec => []EventsExplainRecord
<1>1. HostInv /\ [HostNext]_hostVars => HostInv'
  BY HostStep
<1>2. HostInv => EventsExplainRecord
  <2> SUFFICES ASSUME HostInv PROVE EventsExplainRecord
    OBVIOUS
  <2>1. Visible = LogReplay
    BY HostIsSerial, VisibleIsReplay DEF HostInv
  <2>2. Len(events) \in Nat /\ Len(answered) \in Nat /\ crashes \in Nat
    BY DEF HostInv, StoreInv, TypeInv, TypeOK
  <2> QED
    BY <2>1, <2>2 DEF HostInv, EventsExplainRecord
<1> QED
  BY <1>1, <1>2, HostInit, PTL DEF HostSpec

-----------------------------------------------------------------------------
(* The refinement of TaskHost *)

\* A running task is in a phase of its template, blocked exactly when it has a
\* blocker on record, and waits for a review only.
Ordinary(s) ==
    /\ s.wait # None => s.phase = "REVIEW_WAIT"
    /\ s.terminal = None =>
          /\ s.phase \in TaskPhases
          /\ s.blocker # None <=> s.phase \in BlockedNames

\* There is room for the blocker that the decision on an event may record.
Room(e, n) ==
    /\ n + (IF e.report # None THEN 1 ELSE 0) <= MaxBlocks
    /\ e.verdict \notin {None, "READY"} => n < MaxBlocks

RefineInv ==
    /\ HostInv
    /\ Ordinary(LogReplay)
    /\ event # None => Room(event, BlocksIn(Decisions))

\* What a running task can be told.
LEMMA EventOfTask ==
    ASSUME NEW s \in StateType, Ordinary(s), NEW n \in Nat, NEW e \in EventsFor(s, n)
    PROVE  /\ s.terminal = None /\ s.phase \in TaskPhases
           /\ \/ /\ e.kind = "tick" /\ s.blocker = None
                 /\ s.phase \in TaskPhases \ (BlockedNames \cup {"COMPLETE", "RESCOPE_REQUESTED"})
                 /\ e.wait \in Waits /\ e.loops = n
                 /\ e.report \in Optional(ReportsIn(s.phase))
                 /\ e.verdict \in Optional(Verdicts)
                 /\ e.verdict # None => s.phase = "REVIEW_REQUESTED"
              \/ /\ e.kind = "reviewed" /\ e.to \in {"COMPLETE", "FIXING_REVIEW"}
                 /\ s.phase = "REVIEW_WAIT" /\ s.blocker = None
                 /\ e.verdict = None
              \/ /\ e.kind = "threshold" /\ e.report \in ReportsIn(s.phase)
                 /\ s.phase = "REVIEW_WAIT" /\ s.blocker = None /\ s.wait # None
                 /\ s.wait.response = "BLOCKED_NEEDS_EL_LE"
                 /\ e.report.owner = "process_steward" /\ e.verdict = None
              \/ /\ e.kind = "resolved" /\ e.to \in TaskPhases
                 /\ s.phase \in BlockedNames /\ e.verdict = None
              \/ /\ e.kind = "cancelled" /\ e.to = "CANCELLED" /\ e.verdict = None
                 /\ s.phase \in BlockedNames \cup {"RESCOPE_REQUESTED"}
              \/ /\ e.kind = "completed" /\ e.to = "COMPLETE" /\ e.verdict = None
                 /\ s.phase = "COMPLETE" /\ s.blocker = None
<1>0. TemplatePhases = TaskPhases
  BY HostAssumption DEF TemplatePhases
<1>1. CASE NextTrigger(s)[1] = "blocker"
  <2>1. s.terminal = None /\ s.blocker # None /\ s.phase \in TaskPhases /\ s.phase \in BlockedNames
    BY <1>1 DEF NextTrigger, Ordinary
  <2> QED
    BY <1>0, <1>1, <2>1 DEF EventsFor, Arrived, Event
<1>2. CASE NextTrigger(s)[1] = "wait"
  <2>1. s.terminal = None /\ s.blocker = None /\ s.wait # None /\ s.phase = "REVIEW_WAIT"
        /\ s.phase \in TaskPhases
    BY <1>2 DEF NextTrigger, Ordinary
  <2>2. CASE e \in {Arrived("reviewed", to) : to \in {"COMPLETE", "FIXING_REVIEW"}}
    BY <2>1, <2>2 DEF Arrived, Event
  <2>3. CASE e \in {Event("threshold", b, None, None, None, 0) :
                     b \in {c \in ReportsIn(s.phase) :
                               c.owner = "process_steward"
                               /\ s.wait.response = "BLOCKED_NEEDS_EL_LE"}}
    BY <2>1, <2>3 DEF Event
  <2> QED
    BY <1>2, <2>2, <2>3 DEF EventsFor
<1>3. CASE NextTrigger(s)[1] = "event"
  <2>1. s.terminal = None /\ s.blocker = None /\ s.phase \in TaskPhases /\ s.phase \notin BlockedNames
    BY <1>3 DEF NextTrigger, Ordinary
  <2>2. CASE s.phase = "COMPLETE"
    BY <1>3, <2>1, <2>2 DEF EventsFor, Arrived, Event
  <2>3. CASE s.phase = "RESCOPE_REQUESTED"
    BY <1>3, <2>1, <2>3 DEF EventsFor, Arrived, Event
  <2>4. CASE s.phase \notin {"COMPLETE", "RESCOPE_REQUESTED"}
    <3>1. e \in Ticks(s, n)
      BY <1>3, <2>4 DEF EventsFor
    <3> QED
      BY <2>1, <2>4, <3>1 DEF Ticks, Event, Optional
  <2> QED
    BY <2>2, <2>3, <2>4
<1> QED
  BY <1>1, <1>2, <1>3 DEF EventsFor

\* A blocker that is recorded leads out of a phase that had none.
Blocking(s, e, d) ==
    /\ s.blocker = None /\ s.phase \in TaskPhases \ BlockedNames
    /\ e.report # None \/ e.verdict \notin {None, "READY"}
    /\ \E q \in BlockedNames : \E b : b # None /\ d = Block(s.phase, q, b)

\* A wait is for a review.
AwaitingReview(s, d) ==
    /\ s.blocker = None /\ s.phase \in {"REVIEW_REQUESTED", "REVIEW_WAIT"}
    /\ \E w : w # None /\ d = Wait(s.phase, "REVIEW_WAIT", w, None)

\* Every other decision is a move that leaves no blocker behind, and starts a
\* repair pass below the limit only.
Moving(s, e, n, d) ==
    \E to, signal, terminal :
        /\ d = Move(s.phase, to, signal, FALSE, {}, terminal)
        /\ to = s.phase => to = "COMPLETE"
        /\ terminal = None => /\ to \in TaskPhases
                              /\ s.blocker = None \/ signal = "BLOCKER_RESOLVED"
        /\ s.phase = "FIXING_REVIEW" /\ to = "IMPLEMENTING" => e.kind = "tick" /\ n < MaxLoops

\* Every decision on an event blocks, waits for a review, or moves on.
LEMMA DecisionOfTask ==
    ASSUME NEW s \in StateType, Ordinary(s), NEW n \in Nat, NEW e \in EventsFor(s, n),
           NEW d, d = DecisionFor(s, e), d # None, CanApply(s, d)
    PROVE  Blocking(s, e, d) \/ AwaitingReview(s, d) \/ Moving(s, e, n, d)
<1> USE DEF Blocking, AwaitingReview, Moving
<1>0. /\ None \notin ReportsIn(s.phase) /\ None \notin Waits
      /\ "CANCELLED" \notin TaskPhases /\ "CANCELLED" # None /\ "DONE" # None
      /\ BlockedNames \subseteq TaskPhases
  BY NoneAssumption DEF ReportsIn, TaskPhases, Outcomes, BlockedNames
<1>1. CASE e.kind = "tick"
  <2> DEFINE t == [phase |-> s.phase, blocker |-> e.report, loops |-> e.loops]
  <2>1. /\ s.blocker = None /\ e.wait \in Waits /\ e.loops = n /\ e.wait # None
        /\ s.phase \in TaskPhases \ (BlockedNames \cup {"COMPLETE", "RESCOPE_REQUESTED"})
        /\ e.verdict \in Optional(Verdicts)
    BY <1>0, <1>1, EventOfTask
  <2>2. d = DecideTask(t, e.wait, e.verdict)
    BY <1>1, <2>1 DEF DecisionFor
  <2>3. t.phase = s.phase /\ t.blocker = e.report /\ t.loops = n
    BY <2>1
  <2> HIDE DEF t
  <2>4. CASE e.report # None
    <3>1. d = BlockedDecision(s.phase, e.report, e.wait)
      BY <2>2, <2>3, <2>4 DEF DecideTask
    <3>2. d = Block(s.phase, BlockedPhaseFor(e.report.owner), e.report)
          /\ BlockedPhaseFor(e.report.owner) \in BlockedNames
      BY <2>1, <2>4, <3>1, BlockedAnswer, BlockedRoute
    <3> QED
      BY <2>1, <2>4, <3>2
  <2>5. CASE e.report = None /\ s.phase = "REVIEW_REQUESTED"
    <3>1. d = ReviewDecision(e.wait, e.verdict)
      BY <2>2, <2>3, <2>5 DEF DecideTask
    <3>2. CASE e.verdict \in {None, "READY"}
      <4>1. d = Wait(s.phase, "REVIEW_WAIT", e.wait, None)
        BY <2>1, <2>5, <3>1, <3>2 DEF ReviewDecision, CanWaitForReview, WaitOrRaise
      <4> QED
        BY <2>1, <2>5, <4>1
    <3>3. CASE e.verdict \notin {None, "READY"}
      <4> DEFINE b == TriggerBlocker(e.verdict, "REVIEW_WAIT")
      <4>1. e.verdict \in Verdicts
        BY <2>1, <3>3 DEF Optional
      <4>2. b # None
        BY <4>1, TriggerAssumption
      <4>3. d = Block(s.phase, BlockedPhaseFor(b.owner), b) /\ BlockedPhaseFor(b.owner) \in BlockedNames
        BY <2>5, <3>1, <3>3, BlockedRoute DEF ReviewDecision, CanWaitForReview
      <4> HIDE DEF b
      <4> QED
        BY <2>1, <3>3, <4>2, <4>3
    <3> QED
      BY <3>2, <3>3
  <2>6. CASE e.report = None /\ s.phase # "REVIEW_REQUESTED" /\ NextTaskPhase(t) = s.phase
    <3>1. s.phase = "REVIEW_WAIT"
      BY <2>1, <2>3, <2>6 DEF NextTaskPhase, LoopsExhausted, TaskLine, TaskPhases
    <3>2. d = Wait(s.phase, "REVIEW_WAIT", e.wait, None)
      BY <2>1, <2>2, <2>3, <2>6, <3>1 DEF DecideTask, WaitOrRaise
    <3> QED
      BY <2>1, <3>1, <3>2
  <2>7. CASE e.report = None /\ s.phase # "REVIEW_REQUESTED" /\ NextTaskPhase(t) # s.phase
    <3>1. d = Move(s.phase, NextTaskPhase(t), TaskSignal(s.phase, NextTaskPhase(t)), FALSE, {}, None)
      BY <2>2, <2>3, <2>7 DEF DecideTask
    <3>2. NextTaskPhase(t) \in TaskPhases
      BY <2>3, <2>7, LineSignal
    <3>3. s.phase = "FIXING_REVIEW" /\ NextTaskPhase(t) = "IMPLEMENTING" => n < MaxLoops
      BY <2>3, MaxLoopsAssumption DEF NextTaskPhase, LoopsExhausted
    <3> QED
      BY <1>1, <2>1, <2>7, <3>1, <3>2, <3>3
  <2> QED
    BY <2>4, <2>5, <2>6, <2>7
<1>2. CASE e.kind = "reviewed"
  <2>1. s.phase = "REVIEW_WAIT" /\ s.blocker = None /\ e.to \in {"COMPLETE", "FIXING_REVIEW"}
    BY <1>2, EventOfTask
  <2>2. d = Move(s.phase, e.to, "REVIEW_COMPLETED", FALSE, {}, None)
    BY <1>2 DEF DecisionFor
  <2>3. e.to \in TaskPhases
    BY <2>1 DEF TaskPhases
  <2> QED
    BY <2>1, <2>2, <2>3
<1>3. CASE e.kind = "threshold"
  <2>1. /\ s.phase = "REVIEW_WAIT" /\ s.blocker = None /\ e.report \in ReportsIn(s.phase)
    BY <1>3, EventOfTask
  <2>2. d = Block(s.phase, "BLOCKED_NEEDS_EL_LE", e.report)
    BY <1>3 DEF DecisionFor
  <2>3. s.phase \in TaskPhases \ BlockedNames /\ "BLOCKED_NEEDS_EL_LE" \in BlockedNames
    BY <2>1 DEF TaskPhases, BlockedNames
  <2> QED
    BY <1>0, <2>1, <2>2, <2>3
<1>4. CASE e.kind = "resolved"
  <2>1. s.phase \in BlockedNames /\ e.to \in TaskPhases
    BY <1>4, EventOfTask
  <2>2. d = Move(s.phase, e.to, "BLOCKER_RESOLVED", FALSE, {}, None)
    BY <1>4 DEF DecisionFor
  <2>3. e.to \notin BlockedNames
    BY <2>2, HostAssumption DEF CanApply, Move
  <2> QED
    BY <2>1, <2>2, <2>3 DEF BlockedNames
<1>5. CASE e.kind = "cancelled"
  <2>1. s.phase \in BlockedNames \cup {"RESCOPE_REQUESTED"} /\ e.to = "CANCELLED"
    BY <1>5, EventOfTask
  <2>2. d = Move(s.phase, "CANCELLED", None, FALSE, {}, "CANCELLED")
    BY <1>5, <2>1 DEF DecisionFor
  <2> QED
    BY <1>0, <2>1, <2>2 DEF BlockedNames
<1>6. CASE e.kind = "completed"
  <2>1. s.phase = "COMPLETE" /\ e.to = "COMPLETE"
    BY <1>6, EventOfTask
  <2>2. d = Move(s.phase, "COMPLETE", "TASK_COMPLETED", FALSE, {}, "DONE")
    BY <1>6, <2>1 DEF DecisionFor
  <2> QED
    BY <1>0, <2>1, <2>2
<1> QED
  BY <1>1, <1>2, <1>3, <1>4, <1>5, <1>6, EventOfTask

\* The decision on an event leaves an ordinary task.
LEMMA OrdinaryStep ==
    ASSUME NEW s \in StateType, Ordinary(s), NEW n \in Nat, NEW e \in EventsFor(s, n),
           NEW d, d = DecisionFor(s, e), d # None, CanApply(s, d)
    PROVE  Ordinary(Apply(s, d))
<1>0. s.phase \in TaskPhases /\ s.terminal = None /\ BlockedPhases = BlockedNames
      /\ "COMPLETE" \notin BlockedNames /\ BlockedNames \subseteq TaskPhases
      /\ "REVIEW_WAIT" \in TaskPhases \ BlockedNames
  BY EventOfTask, HostAssumption DEF BlockedNames, TaskPhases
<1>1. ASSUME NEW q \in BlockedNames, NEW b, b # None, d = Block(s.phase, q, b)
      PROVE  Ordinary(Apply(s, d))
  <2>1. d.to = q /\ d.blocker = b
    BY <1>1, BlockFields
  <2>2. Apply(s, d).phase = q /\ Apply(s, d).wait = None /\ Apply(s, d).blocker = b
    BY <1>1, <2>1 DEF Apply, NextWait, NextBlocker
  <2> QED
    BY <1>0, <1>1, <2>2 DEF Ordinary
<1>2. ASSUME NEW w, d = Wait(s.phase, "REVIEW_WAIT", w, None), s.blocker = None
      PROVE  Ordinary(Apply(s, d))
  <2>1. d.to = "REVIEW_WAIT" /\ d.blocker = None
    BY <1>2 DEF Wait
  <2>2. Apply(s, d).phase = "REVIEW_WAIT" /\ Apply(s, d).blocker = None
    BY <1>2, <2>1 DEF Apply, NextBlocker
  <2> QED
    BY <1>0, <2>2 DEF Ordinary
<1>3. ASSUME NEW to, NEW signal, NEW terminal, d = Move(s.phase, to, signal, FALSE, {}, terminal),
             to = s.phase => to = "COMPLETE",
             terminal = None => /\ to \in TaskPhases
                                /\ s.blocker = None \/ signal = "BLOCKER_RESOLVED"
      PROVE  Ordinary(Apply(s, d))
  <2>1. /\ d.to = to /\ d.blocker = None /\ d.wait = None
        /\ d.signal = signal /\ d.terminal = terminal
    BY <1>3 DEF Move
  <2>2. Apply(s, d).phase = to /\ Apply(s, d).wait = None
    BY <1>3, <2>1 DEF Apply, NextWait, Ordinary
  <2>3. CASE terminal = None
    <3>1. to \notin BlockedNames
      BY <1>0, <2>1 DEF CanApply
    <3>2. Apply(s, d).blocker = None
      BY <1>3, <2>1, <2>3 DEF Apply, NextBlocker, ClearsBlocker
    <3> QED
      BY <1>3, <2>2, <2>3, <3>1, <3>2 DEF Ordinary
  <2>4. CASE terminal # None
    <3>1. Apply(s, d).terminal # None
      BY <2>1, <2>4 DEF Apply
    <3> QED
      BY <2>2, <3>1 DEF Ordinary
  <2> QED
    BY <2>3, <2>4
<1>4. CASE Blocking(s, e, d)
  BY <1>1, <1>4 DEF Blocking
<1>5. CASE AwaitingReview(s, d)
  BY <1>2, <1>5 DEF AwaitingReview
<1>6. CASE Moving(s, e, n, d)
  <2>1. PICK to, signal, terminal :
            /\ d = Move(s.phase, to, signal, FALSE, {}, terminal)
            /\ to = s.phase => to = "COMPLETE"
            /\ terminal = None => /\ to \in TaskPhases
                                  /\ s.blocker = None \/ signal = "BLOCKER_RESOLVED"
    BY <1>6 DEF Moving
  <2> QED
    BY <1>3, <2>1
<1> QED
  BY <1>4, <1>5, <1>6, DecisionOfTask

\* Contract, decisions and driver are the same in the task that TaskHost runs.
LEMMA SameApply ==
    ASSUME NEW s, NEW d
    PROVE  (Task!CanApply(s, d) <=> CanApply(s, d)) /\ Task!Apply(s, d) = Apply(s, d)
BY DEF Task!CanApply, CanApply, Task!ResumesFromBlock, ResumesFromBlock,
       Task!Apply, Apply, Task!NextWait, NextWait, Task!NextBlocker, NextBlocker,
       Task!ClearsBlocker, ClearsBlocker, Task!IsObservation, IsObservation

\* The decision shapes of Task are those of the driver here.
LEMMA SameMove ==
    ASSUME NEW from, NEW to, NEW signal, NEW terminal
    PROVE  Task!Move(from, to, signal, FALSE, {}, terminal) = Move(from, to, signal, FALSE, {}, terminal)
BY DEF Task!Move, Move

\* The same for a blocker.
LEMMA SameBlock ==
    ASSUME NEW from, NEW to, NEW b
    PROVE  Task!Block(from, to, b) = Block(from, to, b)
BY DEF Task!Block, Block, Task!Move, Move

\* Task has the phases and blocked phases of the task template.
LEMMA SameSets ==
    /\ Task!Verdicts = Verdicts /\ Task!TemplatePhases = TemplatePhases
    /\ \A S : Task!Optional(S) = Optional(S)
    /\ \A phase : Task!FreshState(phase) = FreshState(phase)
<1>1. Task!Verdicts = Verdicts
  BY DEF Task!Verdicts, Verdicts, Task!TriggerState, TriggerState, Task!ReviewFacts, ReviewFacts
<1>2. Task!TemplatePhases = TemplatePhases
  BY DEF Task!TemplatePhases, TemplatePhases, Task!TaskPhases, TaskPhases,
         Task!ProjectPhases, ProjectPhases, Task!BlockedNames, BlockedNames
<1> QED
  BY <1>1, <1>2 DEF Task!Optional, Optional, Task!FreshState, FreshState

\* The driver of Task decides as the driver here.
LEMMA SameDriver ==
    ASSUME NEW t, NEW w, NEW v
    PROVE  Task!DecideTask(t, w, v) = DecideTask(t, w, v)
<1>1. Task!NextTaskPhase(t) = NextTaskPhase(t)
  BY DEF Task!NextTaskPhase, NextTaskPhase, Task!LoopsExhausted, LoopsExhausted,
         Task!TaskLine, TaskLine
<1>2. \A from, to : Task!TaskSignal(from, to) = TaskSignal(from, to)
  BY DEF Task!TaskSignal, TaskSignal
<1>3. \A from, to, b : Task!WaitOrRaise(from, to, w, b) = WaitOrRaise(from, to, w, b)
  BY DEF Task!WaitOrRaise, WaitOrRaise, Task!Wait, Wait
<1>4. \A owner : Task!BlockedPhaseFor(owner) = BlockedPhaseFor(owner)
  BY DEF Task!BlockedPhaseFor, BlockedPhaseFor
<1>5. \A from, b : Task!BlockedDecision(from, b, w) = BlockedDecision(from, b, w)
  BY <1>3, <1>4, SameBlock DEF Task!BlockedDecision, BlockedDecision
<1>6. Task!ReviewDecision(w, v) = ReviewDecision(w, v)
  <2>1. Task!TriggerBlocker(v, "REVIEW_WAIT") = TriggerBlocker(v, "REVIEW_WAIT")
    BY DEF Task!TriggerBlocker, TriggerBlocker
  <2> QED
    BY <1>3, <1>4, <2>1, SameBlock DEF Task!ReviewDecision, ReviewDecision,
       Task!CanWaitForReview, CanWaitForReview
<1> QED
  BY <1>1, <1>2, <1>3, <1>5, <1>6, SameMove DEF Task!DecideTask, DecideTask

\* A decision more in the log is counted once.
LEMMA CountsAfter ==
    ASSUME NEW X, NEW ds \in Seq(X), NEW d \in X
    PROVE  /\ LoopsIn(Append(ds, d))
                = LoopsIn(ds) + (IF d.from = "FIXING_REVIEW" /\ d.to = "IMPLEMENTING" THEN 1 ELSE 0)
           /\ BlocksIn(Append(ds, d))
                = BlocksIn(ds) + (IF d.blocker # None /\ d.from # d.to THEN 1 ELSE 0)
<1> DEFINE n    == Len(ds)
           L(s) == {i \in DOMAIN s : s[i].from = "FIXING_REVIEW" /\ s[i].to = "IMPLEMENTING"}
           B(s) == {i \in DOMAIN s : s[i].blocker # None /\ s[i].from # s[i].to}
           all  == Append(ds, d)
<1>1. /\ n \in Nat /\ DOMAIN ds = 1..n /\ DOMAIN all = 1..(n + 1)
      /\ all[n + 1] = d /\ \A i \in 1..n : all[i] = ds[i]
  OBVIOUS
<1> HIDE DEF n, all
<1>2. DOMAIN all = DOMAIN ds \cup {n + 1} /\ n + 1 \notin DOMAIN ds
  BY <1>1
<1>3. /\ L(all) = IF d.from = "FIXING_REVIEW" /\ d.to = "IMPLEMENTING" THEN L(ds) \cup {n + 1} ELSE L(ds)
      /\ B(all) = IF d.blocker # None /\ d.from # d.to THEN B(ds) \cup {n + 1} ELSE B(ds)
  BY <1>1, <1>2
<1>4. n + 1 \notin L(ds) /\ n + 1 \notin B(ds)
  BY <1>2
<1>5. ASSUME NEW S \in SUBSET DOMAIN ds
      PROVE  IsFiniteSet(S) /\ Cardinality(S) \in Nat
             /\ (n + 1 \notin S => Cardinality(S \cup {n + 1}) = Cardinality(S) + 1)
  <2>1. IsFiniteSet(DOMAIN ds)
    BY <1>1, FS_Interval
  <2>2. IsFiniteSet(S)
    BY <2>1, FS_Subset
  <2> QED
    BY <2>2, FS_CardinalityType, FS_AddElement
<1>6. L(ds) \in SUBSET DOMAIN ds /\ B(ds) \in SUBSET DOMAIN ds
  OBVIOUS
<1>7. /\ LoopsIn(all) = Cardinality(L(all)) /\ LoopsIn(ds) = Cardinality(L(ds))
      /\ BlocksIn(all) = Cardinality(B(all)) /\ BlocksIn(ds) = Cardinality(B(ds))
  BY DEF LoopsIn, BlocksIn
<1> HIDE DEF L, B
<1>8. /\ Cardinality(L(ds)) \in Nat /\ Cardinality(L(ds) \cup {n + 1}) = Cardinality(L(ds)) + 1
      /\ Cardinality(B(ds)) \in Nat /\ Cardinality(B(ds) \cup {n + 1}) = Cardinality(B(ds)) + 1
  BY <1>4, <1>5, <1>6
<1>9. LoopsIn(all) = LoopsIn(ds) + (IF d.from = "FIXING_REVIEW" /\ d.to = "IMPLEMENTING" THEN 1 ELSE 0)
  <2>1. CASE d.from = "FIXING_REVIEW" /\ d.to = "IMPLEMENTING"
    BY <1>3, <1>7, <1>8, <2>1
  <2>2. CASE ~(d.from = "FIXING_REVIEW" /\ d.to = "IMPLEMENTING")
    BY <1>3, <1>7, <1>8, <2>2
  <2> QED
    BY <2>1, <2>2
<1>10. BlocksIn(all) = BlocksIn(ds) + (IF d.blocker # None /\ d.from # d.to THEN 1 ELSE 0)
  <2>1. CASE d.blocker # None /\ d.from # d.to
    BY <1>3, <1>7, <1>8, <2>1
  <2>2. CASE ~(d.blocker # None /\ d.from # d.to)
    BY <1>3, <1>7, <1>8, <2>2
  <2> QED
    BY <2>1, <2>2
<1> QED
  BY <1>9, <1>10 DEF all

\* The blocker of a decision is new exactly when the log counts it, and the task
\* has room for it.
LEMMA BlockersAreCounted ==
    ASSUME NEW s \in StateType, Ordinary(s), NEW n \in Nat, NEW e \in EventsFor(s, n),
           NEW d, d = DecisionFor(s, e), d # None, CanApply(s, d), NEW k \in Nat, Room(e, k)
    PROVE  /\ d.blocker \notin {None, s.blocker} <=> d.blocker # None /\ d.from # d.to
           /\ k + (IF d.blocker \notin {None, s.blocker} THEN 1 ELSE 0) <= MaxBlocks
<1>0. MaxBlocks \in Nat /\ k <= MaxBlocks
  BY HostAssumption DEF Room
<1>1. CASE Blocking(s, e, d)
  <2>0. PICK q \in BlockedNames : \E b : b # None /\ d = Block(s.phase, q, b)
    BY <1>1 DEF Blocking
  <2>1. PICK b : b # None /\ d = Block(s.phase, q, b)
    BY <2>0
  <2>2. d.from = s.phase /\ d.to = q /\ d.blocker = b /\ d.blocker # None
    BY <2>1, BlockFields
  <2>3. s.blocker = None /\ d.from # d.to
    BY <1>1, <2>2 DEF Blocking
  <2>4. k + 1 <= MaxBlocks
    BY <1>0, <1>1 DEF Blocking, Room
  <2> QED
    BY <2>2, <2>3, <2>4
<1>2. CASE AwaitingReview(s, d)
  <2>1. d.blocker = None
    BY <1>2 DEF AwaitingReview, Wait
  <2> QED
    BY <1>0, <2>1
<1>3. CASE Moving(s, e, n, d)
  <2>1. d.blocker = None
    BY <1>3 DEF Moving, Move
  <2> QED
    BY <1>0, <2>1
<1> QED
  BY <1>1, <1>2, <1>3, DecisionOfTask

\* A decision that enters the log is a step of the task.
LEMMA TaskStepOf ==
    ASSUME NEW s \in StateType, Ordinary(s), NEW n \in Nat, NEW e \in EventsFor(s, n),
           NEW d, d = DecisionFor(s, e), d # None, CanApply(s, d), NEW k \in Nat, Room(e, k),
           Visible = s, LoopsIn(Decisions) = n, BlocksIn(Decisions) = k,
           Visible' = Apply(s, d),
           LoopsIn(Decisions)'
             = n + (IF d.from = "FIXING_REVIEW" /\ d.to = "IMPLEMENTING" THEN 1 ELSE 0),
           BlocksIn(Decisions)' = k + (IF d.blocker # None /\ d.from # d.to THEN 1 ELSE 0),
           offered' = [decision |-> d, tested |-> Task!TestedAfter(offered.tested, d)]
    PROVE  Task!Next
<1>0. /\ d.from = s.phase /\ s.terminal = None /\ s.phase \in TaskPhases /\ ~Task!Ended
      /\ TemplatePhases = TaskPhases /\ BlockedPhases = BlockedNames
      /\ "FIXING_REVIEW" \notin BlockedNames
  BY EventOfTask, HostAssumption DEF CanApply, Task!Ended, TemplatePhases, BlockedNames
<1>1. Task!Record(d)
  <2>1. /\ d.blocker \notin {None, s.blocker} <=> d.blocker # None /\ d.from # d.to
        /\ k + (IF d.blocker \notin {None, s.blocker} THEN 1 ELSE 0) <= MaxBlocks
    BY BlockersAreCounted
  <2> QED
    BY <2>1, SameApply DEF Task!Record
<1>2. CASE e.kind = "tick"
  <2>1. /\ s.blocker = None /\ s.phase \notin BlockedNames
        /\ e.report \in Optional(ReportsIn(s.phase))
        /\ e.wait \in Optional(Waits) /\ e.verdict \in Optional(Verdicts) /\ e.loops = n
    BY <1>2, EventOfTask DEF Optional
  <2>2. Task!Task(e.report)
          = [phase |-> s.phase, blocker |-> IF s.blocker # None THEN s.blocker ELSE e.report,
             loops |-> e.loops]
    BY <2>1 DEF Task!Task
  <2>3. d = Task!DecideTask(Task!Task(e.report), e.wait, e.verdict)
    BY <1>2, <2>2, SameDriver DEF DecisionFor
  <2>4. d.from = "FIXING_REVIEW" /\ d.to = "IMPLEMENTING" => n < MaxLoops + 2
    <3>1. CASE Moving(s, e, n, d)
      <4>1. PICK to : /\ d.to = to
                      /\ s.phase = "FIXING_REVIEW" /\ to = "IMPLEMENTING" => n < MaxLoops
        BY <3>1 DEF Moving, Move
      <4> QED
        BY <1>0, <4>1, MaxLoopsAssumption
    <3>2. CASE Blocking(s, e, d)
      BY <3>2, BlockFields DEF Blocking, BlockedNames
    <3>3. CASE AwaitingReview(s, d)
      BY <3>3 DEF AwaitingReview, Wait
    <3> QED
      BY <3>1, <3>2, <3>3, DecisionOfTask
  <2>5. LoopsIn(Decisions)' = IF Visible.phase = "FIXING_REVIEW" /\ d.to = "IMPLEMENTING"
                                 /\ LoopsIn(Decisions) < MaxLoops + 2
                              THEN LoopsIn(Decisions) + 1 ELSE LoopsIn(Decisions)
    BY <1>0, <2>4
  <2>6. Task!Tick(e.report, e.wait, e.verdict)
    BY <1>0, <1>1, <2>3, <2>5 DEF Task!Tick
  <2>7. Task!Reports = ReportsIn(s.phase)
    BY <1>0, <2>1 DEF Task!Reports, ReportsIn
  <2> QED
    BY <2>1, <2>6, <2>7, SameSets DEF Task!Next, Task!TickAny
<1>3. CASE s.phase # "FIXING_REVIEW"
  <2>0. UNCHANGED LoopsIn(Decisions)
    BY <1>0, <1>3
  <2>1. CASE e.kind = "reviewed"
    <3>1. /\ e.to \in {"COMPLETE", "FIXING_REVIEW"} /\ s.phase = "REVIEW_WAIT"
      BY <2>1, EventOfTask
    <3>2. d = Task!Move("REVIEW_WAIT", e.to, "REVIEW_COMPLETED", FALSE, {}, None)
      <4>1. d = Move("REVIEW_WAIT", e.to, "REVIEW_COMPLETED", FALSE, {}, None)
        BY <2>1, <3>1 DEF DecisionFor
      <4> QED
        BY <4>1, SameMove
    <3> QED
      BY <1>1, <2>0, <3>1, <3>2 DEF Task!Next, Task!Reviewed
  <2>2. CASE e.kind = "threshold"
    <3>1. /\ e.report \in ReportsIn(s.phase) /\ s.phase = "REVIEW_WAIT" /\ s.wait # None
          /\ s.wait.response = "BLOCKED_NEEDS_EL_LE"
          /\ e.report.owner = "process_steward"
      BY <2>2, EventOfTask
    <3>2. d = Task!Block("REVIEW_WAIT", "BLOCKED_NEEDS_EL_LE", e.report)
      BY <2>2, <3>1, SameBlock DEF DecisionFor
    <3>3. Task!Reports = ReportsIn(s.phase)
      BY <1>0, <3>1 DEF Task!Reports, ReportsIn, BlockedNames
    <3> QED
      BY <1>1, <2>0, <3>1, <3>2, <3>3 DEF Task!Next, Task!ThresholdPassed
  <2>3. CASE e.kind = "resolved"
    <3>1. e.to \in TaskPhases /\ s.phase \in BlockedNames
      BY <2>3, EventOfTask
    <3>2. d = Task!Move(s.phase, e.to, "BLOCKER_RESOLVED", FALSE, {}, None)
      <4>1. d = Move(s.phase, e.to, "BLOCKER_RESOLVED", FALSE, {}, None)
        BY <2>3 DEF DecisionFor
      <4> QED
        BY <4>1, SameMove
    <3> QED
      BY <1>0, <1>1, <2>0, <3>1, <3>2, SameSets DEF Task!Next, Task!Resolve
  <2>4. CASE e.kind = "cancelled"
    <3>1. e.to = "CANCELLED" /\ s.phase \in BlockedNames \cup {"RESCOPE_REQUESTED"}
      BY <2>4, EventOfTask
    <3>2. d = Task!Move(s.phase, "CANCELLED", None, FALSE, {}, "CANCELLED")
      <4>1. d = Move(s.phase, "CANCELLED", None, FALSE, {}, "CANCELLED")
        BY <2>4, <3>1 DEF DecisionFor
      <4> QED
        BY <4>1, SameMove
    <3> QED
      BY <1>0, <1>1, <2>0, <3>1, <3>2 DEF Task!Next, Task!Cancel
  <2>5. CASE e.kind = "completed"
    <3>1. e.to = "COMPLETE" /\ s.phase = "COMPLETE"
      BY <2>5, EventOfTask
    <3>2. d = Task!Move("COMPLETE", "COMPLETE", "TASK_COMPLETED", FALSE, {}, "DONE")
      <4>1. d = Move("COMPLETE", "COMPLETE", "TASK_COMPLETED", FALSE, {}, "DONE")
        BY <2>5, <3>1 DEF DecisionFor
      <4> QED
        BY <4>1, SameMove
    <3>3. Task!Record(Task!Move("COMPLETE", "COMPLETE", "TASK_COMPLETED", FALSE, {}, "DONE"))
      BY <1>1, <3>1, <3>2
    <3>4. Task!Complete
      BY <1>0, <2>0, <3>1, <3>3 DEF Task!Complete
    <3> QED
      BY <3>4 DEF Task!Next
  <2> QED
    BY <1>2, <2>1, <2>2, <2>3, <2>4, <2>5, EventOfTask
<1>4. CASE s.phase = "FIXING_REVIEW"
  <2>1. e.kind = "tick"
    BY <1>0, <1>4, EventOfTask
  <2> QED
    BY <1>2, <2>1
<1> QED
  BY <1>3, <1>4

\* Nothing but the line of a decision is seen by the readers of the store.
LEMMA HostFrame ==
    ASSUME HostInv, [HostNext]_hostVars, ~(Proceed /\ pc[Host] = "append")
    PROVE  /\ UNCHANGED <<seed, log>> /\ UNCHANGED offered
           /\ event' \in {None, event} \/ Room(event', BlocksIn(Decisions))
<1>1. CASE Arrives
  <2>1. PICK e \in EventsFor(snap, LoopsIn(Decisions)) : Receive(e)
    BY <1>1 DEF Arrives
  <2> QED
    BY <2>1 DEF Receive, AppendEvent, Room
<1>2. CASE Decide
  BY <1>2 DEF Decide, BeginAppend, files
<1>3. CASE Proceed /\ pc[Host] # "append"
  <2>1. Continue(Host) /\ UNCHANGED <<event, offered>>
    BY <1>3 DEF Proceed
  <2>2. ReadLog(Host) \/ OpenSnapshot(Host) \/ WriteSnapshot(Host)
    BY <1>3, <2>1 DEF Continue, HostInv, AppendLine, OpenSeed, WriteSeed, ResetEvents, ResetLog
  <2> QED
    BY <2>1, <2>2 DEF ReadLog, OpenSnapshot, WriteSnapshot, files
<1>4. CASE Die
  <2>1. event' = None /\ UNCHANGED offered
    BY <1>4 DEF Die
  <2>2. UNCHANGED <<seed, log>>
    BY <1>4, HostAssumption DEF Die, Crash, files
  <2> QED
    BY <2>1, <2>2
<1>5. CASE Restart
  BY <1>5 DEF Restart, BeginReplay, files
<1>6. CASE UNCHANGED hostVars
  BY <1>6 DEF hostVars, vars, files
<1> QED
  BY <1>1, <1>2, <1>3, <1>4, <1>5, <1>6 DEF HostNext

\* The line of the decision on an event is a step of the task, and leaves it as a
\* task may be; everything else is no step of it.
LEMMA RefineStep ==
    ASSUME Hosted, RefineInv, HostInv', [HostNext]_hostVars,
           Visible = LogReplay, Visible' = LogReplay'
    PROVE  RefineInv' /\ [Task!Next]_(Task!vars)
<1>1. CASE ~(Proceed /\ pc[Host] = "append")
  <2>1. /\ UNCHANGED <<seed, log>> /\ UNCHANGED offered
        /\ event' \in {None, event} \/ Room(event', BlocksIn(Decisions))
    BY <1>1, HostFrame DEF RefineInv
  <2>2. UNCHANGED LogReplay /\ UNCHANGED Decisions
    BY <2>1, ReplayFrame DEF Decisions, Lines
  <2>3. UNCHANGED LoopsIn(Decisions) /\ UNCHANGED BlocksIn(Decisions)
    BY <2>2
  <2>4. Ordinary(LogReplay)'
    BY <2>2 DEF RefineInv
  <2>5. event' # None => Room(event', BlocksIn(Decisions)')
    BY <2>1, <2>3 DEF RefineInv
  <2>6. UNCHANGED Task!vars
    BY <2>1, <2>2, <2>3 DEF Task!vars
  <2> QED
    BY <2>4, <2>5, <2>6 DEF RefineInv
<1>2. CASE Proceed /\ pc[Host] = "append"
  <2>0. /\ Host \in Procs /\ StoreInv /\ ProcInv(Host) /\ CleanLog /\ Working(Host)
        /\ TypeInv /\ Decisions \in Seq(DecisionType)
    BY HostIsSerial, CleanReplay DEF RefineInv, HostInv, StoreInv, TypeInv, Decisions
  <2>1. /\ AppendLine(Host) /\ event' = None /\ event # None
        /\ line[Host] = DecisionFor(snap, event)
        /\ offered' = [decision |-> line[Host],
                       tested   |-> Task!TestedAfter(offered.tested, line[Host])]
        /\ IsRecord(seed) /\ IsRecord(snap) /\ event \in EventsFor(snap, LoopsIn(Decisions))
        /\ Room(event, BlocksIn(Decisions))
    BY <1>2 DEF Proceed, Continue, ReadLog, OpenSeed, WriteSeed, ResetEvents, ResetLog,
                OpenSnapshot, WriteSnapshot, HostInv, RefineInv
  <2>2. snap \in StateType
    BY <2>0, <2>1 DEF TypeInv, TypeOK, IsRecord, Files
  <2>3. /\ line[Host] \in Submissions /\ line[Host] # None /\ line[Host] \in DecisionType
        /\ snap = LogReplay /\ CanApply(snap, line[Host])
    BY <1>2, <2>0, <2>1, ModelAssumption DEF ProcInv, Working, Optional, TypeInv, TypeOK
  <2>4. LogReplay # None
    BY <2>0, <2>1 DEF StoreInv, SeedInv
  <2>5. /\ Decisions' = Append(Decisions, line[Host])
        /\ LogReplay' = Apply(LogReplay, line[Host])
    <3>1. UNCHANGED seed /\ log' = AddText(Lines, line[Host], TRUE) /\ TypeOK
      BY <2>0, <2>1, HostAssumption DEF AppendLine, TypeInv
    <3>2. DecisionsIn(Lines)' = Append(DecisionsIn(Lines), line[Host])
          /\ LogReplay' = Turn(LogReplay, line[Host])
      BY <2>0, <2>1, <2>3, <3>1, AppendReplay
    <3> QED
      BY <2>3, <2>4, <3>2 DEF Decisions, Turn
  <2>6. LoopsIn(Decisions) \in Nat /\ BlocksIn(Decisions) \in Nat
    BY <2>0, LoopsAreCounted
  <2>7. /\ LoopsIn(Decisions)'
             = LoopsIn(Decisions) + (IF line[Host].from = "FIXING_REVIEW"
                                        /\ line[Host].to = "IMPLEMENTING" THEN 1 ELSE 0)
        /\ BlocksIn(Decisions)'
             = BlocksIn(Decisions) + (IF line[Host].blocker # None
                                         /\ line[Host].from # line[Host].to THEN 1 ELSE 0)
    BY <2>0, <2>3, <2>5, CountsAfter
  <2>8. Ordinary(snap) /\ Visible = snap /\ Visible' = Apply(snap, line[Host])
    BY <2>3, <2>5 DEF RefineInv
  <2>9. Ordinary(Apply(snap, line[Host]))
    BY <2>1, <2>2, <2>3, <2>6, <2>8, OrdinaryStep
  <2>10. Task!Next
    <3>1. PICK s \in StateType, n \in Nat, k \in Nat :
            s = snap /\ n = LoopsIn(Decisions) /\ k = BlocksIn(Decisions)
      BY <2>2, <2>6
    <3>0. PICK d, e : d = line[Host] /\ e = event
      OBVIOUS
    <3>2. /\ Ordinary(s) /\ e \in EventsFor(s, n) /\ d = DecisionFor(s, e) /\ d # None
          /\ CanApply(s, d) /\ Room(e, k) /\ Visible = s /\ Visible' = Apply(s, d)
          /\ offered' = [decision |-> d, tested |-> Task!TestedAfter(offered.tested, d)]
      BY <2>1, <2>3, <2>8, <3>0, <3>1
    <3>3. /\ LoopsIn(Decisions)'
               = n + (IF d.from = "FIXING_REVIEW" /\ d.to = "IMPLEMENTING" THEN 1 ELSE 0)
          /\ BlocksIn(Decisions)' = k + (IF d.blocker # None /\ d.from # d.to THEN 1 ELSE 0)
      BY <2>7, <3>0, <3>1
    <3> QED
      BY <3>1, <3>2, <3>3, TaskStepOf
  <2> QED
    BY <2>1, <2>3, <2>5, <2>9, <2>10 DEF RefineInv
<1> QED
  BY <1>1, <1>2

\* Through any number of crashes, restarts and half-written files, what readers of
\* the store see is one task as TaskHost runs it: no phase is skipped or passed
\* twice, no repair pass is forgotten.  (state_store.py:87-110, task_driver.py:105-192)
THEOREM StoreImplementsTask ==
    ASSUME Hosted, Seeds = {FreshState("TASK_ASSIGNED")}
    PROVE  HostSpec => ImplementsTask
<1> DEFINE Seen == Visible = LogReplay
<1>1. Init => RefineInv
  <2> SUFFICES ASSUME Init PROVE RefineInv
    OBVIOUS
  <2>1. HostInv /\ seed = FreshState("TASK_ASSIGNED") /\ event = None /\ Lines = <<>>
    BY HostInit DEF Init, ReadyInit, Lines
  <2>2. LogReplay = seed
    BY <2>1, EmptyReplay DEF LogReplay
  <2>3. Ordinary(FreshState("TASK_ASSIGNED"))
    BY DEF Ordinary, FreshState, TaskPhases, BlockedNames
  <2> QED
    BY <2>1, <2>2, <2>3 DEF RefineInv
<1>2. HostInv => Seen
  BY HostIsSerial, VisibleIsReplay DEF HostInv
<1>3. RefineInv => HostInv
  BY DEF RefineInv
<1>4. HostInv /\ [HostNext]_hostVars => HostInv'
  BY HostStep
<1>5. /\ RefineInv /\ HostInv' /\ [HostNext]_hostVars /\ Seen /\ Seen'
      => RefineInv' /\ [Task!Next]_(Task!vars)
  BY RefineStep
<1>6. Init /\ Seen => Task!Init
  <2> SUFFICES ASSUME Init, Visible = LogReplay PROVE Task!Init
    OBVIOUS
  <2>1. seed = FreshState("TASK_ASSIGNED") /\ Lines = <<>> /\ LogReplay = seed
    BY EmptyReplay DEF Init, ReadyInit, Lines, LogReplay
  <2>2. Decisions = <<>>
    BY <2>1, EmptyReplay DEF Decisions
  <2>3. LoopsIn(Decisions) = 0 /\ BlocksIn(Decisions) = 0
    BY <2>2, FS_EmptySet DEF LoopsIn, BlocksIn
  <2> QED
    BY <2>1, <2>3, SameSets DEF Init, Task!Init
<1> HIDE DEF Seen
<1> QED
  BY <1>1, <1>2, <1>3, <1>4, <1>5, <1>6, PTL DEF HostSpec, ImplementsTask, Task!Spec
=============================================================================
