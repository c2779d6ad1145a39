---------------------------- MODULE RecoveredStore ----------------------------
(***************************************************************************)
(* The store as the contract expects a host to use it                      *)
(* (docs/workflow_contract.md:198-200): after a crash the next thing that  *)
(* touches the decisions is a replay.  With one CLI process at a time this *)
(* store implements DurableHistory.                                        *)
(***************************************************************************)
EXTENDS WorkflowStore

RecoveredNext ==
    \E p \in Procs :
        \/ ~stale /\ \E d \in Submissions : BeginAppend(p, d)
        \/ \E s \in Seeds : BeginInit(p, s)
        \/ BeginReplay(p)
        \/ \E e \in Events : AppendEvent(p, e)
        \/ Continue(p)
        \/ Crash(p)

\* A running process keeps running unless it crashes, and the host does replay
\* after a crash.  Nobody has to submit anything.
Fairness ==
    /\ \A p \in Procs : WF_vars(Continue(p))
    /\ WF_vars(stale /\ \E p \in Procs : BeginReplay(p))

RecoveredSpec == FreshInit /\ [][RecoveredNext]_vars /\ Fairness

\* What a reader is entitled to see: the snapshot when it is trustworthy, the
\* record that is about to replace it, and otherwise what replay would rebuild.
\* Before there is a seed there is nothing.
Visible ==
    IF ~IsRecord(seed) THEN None
    ELSE IF \E p \in Procs : pc[p] \in {"snap_open", "snap_write"}
    THEN draft[CHOOSE p \in Procs : pc[p] \in {"snap_open", "snap_write"}]
    ELSE IF ~stale /\ \A p \in Procs : pc[p] \in {"idle", "append", "read_log"}
    THEN snap
    ELSE LogReplay

History ==
    INSTANCE DurableHistory WITH origin  <- IF IsRecord(seed) THEN seed ELSE None,
                                 history <- DecisionsIn(Lines),
                                 view    <- Visible

\* The files, taken together, behave as one atomic history: it is created once,
\* every logged decision applies to what readers saw when it was logged, and a
\* crash, a replay, a half-written snapshot or an initialization that was
\* interrupted after its seed is invisible.  (state_store.py:65-110)
ImplementsHistory == History!HistorySpec

\* Whatever crashes, initialization included, the snapshot of a store that has a
\* seed always becomes the replay of the log again.  (state_store.py:3-5)
SnapshotConverges == []<>(IsRecord(seed) => snap = LogReplay)
=============================================================================
