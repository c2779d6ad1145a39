---------------------------- MODULE WorkflowStore ----------------------------
(***************************************************************************)
(* state_store.py:JsonWorkflowStore, file by file, under any number of CLI *)
(* processes.  There is no lock, no rename and no fsync in the code, so    *)
(* every file-system call is a step of its own and a process may die       *)
(* between any two of them.                                                *)
(*                                                                         *)
(*   seed   initial_state.json       log    decisions.jsonl                *)
(*   snap   current_state.json       events events.jsonl                   *)
(*                                                                         *)
(* Calls that raise before they change anything (a failed exists check, an *)
(* unreadable snapshot, a rejected decision) leave the store as it was and *)
(* are not steps.  status() and load_* only read `snap` and `seed`.        *)
(***************************************************************************)
EXTENDS DecisionReplay, SequencesExt

CONSTANTS
    Procs,        \* CLI invocations that may run at the same time
    Submissions,  \* decisions they may submit
    Events,       \* WorkflowEvents they may submit
    Seeds,        \* records they may initialize the store with
    Overwrite,    \* TRUE when operators use "init --overwrite"
    TornWrites,   \* TRUE when a crash may cut a JSONL line short
    Absent,       \* no such file
    Empty,        \* a file truncated by open(..., "w") and not yet written
    Garbage,      \* bytes that are not one valid JSON document
    MaxLog, MaxEvents, MaxCrashes, MaxSeeds   \* bounds, for TLC

ASSUME StoreAssumption ==
    /\ Overwrite \in BOOLEAN /\ TornWrites \in BOOLEAN
    /\ MaxLog \in Nat /\ MaxEvents \in Nat /\ MaxCrashes \in Nat /\ MaxSeeds \in Nat
    /\ IsFiniteSet(Procs)

\* pydantic validates what a caller hands over before the store sees it.
ASSUME ModelAssumption ==
    /\ Submissions \subseteq DecisionType /\ Seeds \subseteq StateType
    /\ None \notin Submissions

\* A file that holds a record is told apart from one that does not, and a line
\* that decodes from one that does not.
ASSUME FileAssumption ==
    /\ Absent \notin StateType /\ Empty \notin StateType /\ Garbage \notin StateType
    /\ Absent # Empty /\ Absent # Garbage /\ Empty # Garbage
    /\ Garbage \notin Submissions

VARIABLES
    seed, log, events, snap,   \* the four files
    pc,       \* what each process does next
    draft,    \* the record each process is about to write
    line,     \* the decision each process is about to append
    acked,    \* history: decisions append_decision returned for, in order
    seeded,   \* history: number of times a seed record was written
    stale,    \* history: a crash happened and no replay has completed since
    crashes   \* history: number of crashes

files   == <<seed, log, events, snap>>
procs   == <<pc, draft, line>>
history == <<acked, seeded, stale, crashes>>
vars    == <<files, procs, history>>

Files(S) == S \cup {Absent, Empty, Garbage}

\* A line of decisions.jsonl: what it decodes to, and whether it is terminated.
LineType == [dec : Submissions \cup {Garbage}, end : BOOLEAN]

\* A log that is there is told apart from one that is not.
ASSUME LogAssumption == Absent \notin Seq(LineType)

Steps == {"idle", "append", "read_log",
          "seed_open", "seed_write", "events_reset", "log_reset",
          "snap_open", "snap_write"}

TypeOK ==
    /\ seed \in Files(StateType) /\ snap \in Files(StateType)
    /\ log = Absent \/ log \in Seq(LineType)
    /\ events \in Seq(Events)
    /\ pc \in [Procs -> Steps]
    /\ draft \in [Procs -> Optional(StateType)]
    /\ line \in [Procs -> Optional(Submissions)]
    /\ acked \in Seq(Submissions)
    /\ seeded \in Nat /\ stale \in BOOLEAN /\ crashes \in Nat

-----------------------------------------------------------------------------
(* Reading and writing files *)

IsRecord(file) == file \notin {Absent, Empty, Garbage}

Lines == IF log = Absent THEN <<>> ELSE log

\* _read_jsonl: every line must decode.
Readable(lines) == \A i \in DOMAIN lines : lines[i].dec # Garbage

DecisionsIn(lines) == [i \in DOMAIN lines |-> lines[i].dec]

\* Fault variant: the log is opened with "w" instead of "a".
AddTextTruncating(lines, d, end) == <<[dec |-> d, end |-> end]>>

\* Text appended after an unterminated line becomes part of that line.
AddText(lines, d, end) ==
    IF lines # <<>> /\ ~Last(lines).end
    THEN Append(Front(lines), [dec |-> Garbage, end |-> end])
    ELSE Append(lines, [dec |-> d, end |-> end])

\* Two writers that both truncated a file before either wrote: the second
\* writes over the first from offset 0, and what is left of a longer first
\* text makes the file unreadable.
Overlay(old, new) ==
    IF old \in {Empty, new} THEN {new} ELSE {new, Garbage}

Goto(p, step) == pc' = [pc EXCEPT ![p] = step]

-----------------------------------------------------------------------------
(* append_decision *)

InFlight == Cardinality({p \in Procs : pc[p] = "append"})

\* Fault variant: the decision is logged before it is applied.
BeginAppendUnchecked(p, d) ==
    /\ pc[p] = "idle"
    /\ Len(Lines) + InFlight < MaxLog
    /\ seed # Absent
    /\ IsRecord(snap)
    /\ draft' = [draft EXCEPT ![p] = Apply(snap, d)]
    /\ line' = [line EXCEPT ![p] = d]
    /\ Goto(p, "append")
    /\ UNCHANGED <<files, history>>

\* _require_initialized, load_current_state and apply_decision.  The file that
\* is checked for never disappears, so the check and the read are one step.
BeginAppend(p, d) ==
    /\ pc[p] = "idle"
    /\ Len(Lines) + InFlight < MaxLog
    /\ seed # Absent
    /\ IsRecord(snap)
    /\ CanApply(snap, d)
    /\ draft' = [draft EXCEPT ![p] = Apply(snap, d)]
    /\ line' = [line EXCEPT ![p] = d]
    /\ Goto(p, "append")
    /\ UNCHANGED <<files, history>>

\* Fault variant: the appended text never leaves the process.
AppendLineUnflushed(p) ==
    /\ pc[p] = "append"
    /\ Goto(p, "snap_open")
    /\ UNCHANGED <<files, draft, line, history>>

AppendLine(p) ==
    /\ pc[p] = "append"
    /\ log' = AddText(Lines, line[p], TRUE)
    /\ Goto(p, "snap_open")
    /\ UNCHANGED <<seed, events, snap, draft, line, history>>

(* replay *)

\* Fault variant: the seed is not validated.
BeginReplayUnvalidated(p) ==
    /\ pc[p] = "idle"
    /\ seed # Absent
    /\ draft' = [draft EXCEPT ![p] = seed]
    /\ Goto(p, "read_log")
    /\ UNCHANGED <<files, line, history>>

BeginReplay(p) ==
    /\ pc[p] = "idle"
    /\ IsRecord(seed)
    /\ draft' = [draft EXCEPT ![p] = seed]
    /\ Goto(p, "read_log")
    /\ UNCHANGED <<files, line, history>>

\* Fault variant: replay returns the record and does not refresh the snapshot.
ReadLogWithoutRefresh(p) ==
    /\ pc[p] = "read_log"
    /\ Goto(p, "idle")
    /\ draft' = [draft EXCEPT ![p] = None]
    /\ UNCHANGED <<files, line, history>>

\* Fault variant: the last line is taken for an incomplete one and dropped.
ReadLogButLast(p) ==
    /\ pc[p] = "read_log"
    /\ LET lines == IF Lines = <<>> THEN <<>> ELSE Front(Lines)
           replayed == Replay(draft[p], DecisionsIn(lines))
       IN  /\ draft' = [draft EXCEPT ![p] = replayed]
           /\ Goto(p, IF replayed = None THEN "idle" ELSE "snap_open")
    /\ UNCHANGED <<files, line, history>>

\* iter_decisions and replay_decisions; either may raise, and then replay
\* leaves the snapshot alone.
ReadLog(p) ==
    /\ pc[p] = "read_log"
    /\ LET replayed == IF Readable(Lines) THEN Replay(draft[p], DecisionsIn(Lines)) ELSE None
       IN  /\ draft' = [draft EXCEPT ![p] = replayed]
           /\ Goto(p, IF replayed = None THEN "idle" ELSE "snap_open")
    /\ UNCHANGED <<files, line, history>>

(* _write_model of current_state.json: the last step of append_decision, replay
   and initialize.  The call then returns. *)

OpenSnapshot(p) ==
    /\ pc[p] = "snap_open"
    /\ snap' = Empty
    /\ Goto(p, "snap_write")
    /\ UNCHANGED <<seed, log, events, draft, line, history>>

Returned(p) ==
    /\ Goto(p, "idle")
    /\ draft' = [draft EXCEPT ![p] = None]
    /\ line' = [line EXCEPT ![p] = None]

WriteSnapshot(p) ==
    /\ pc[p] = "snap_write"
    /\ snap' \in Overlay(snap, draft[p])
    /\ Returned(p)
    /\ acked' = IF line[p] # None THEN Append(acked, line[p]) ELSE acked
    /\ stale' = (stale /\ line[p] # None)
    /\ UNCHANGED <<seed, log, events, seeded, crashes>>

-----------------------------------------------------------------------------
(* initialize *)

\* Fault variant: an existing store is not looked for.
BeginInitAnyway(p, s) ==
    /\ pc[p] = "idle"
    /\ seeded < MaxSeeds
    /\ draft' = [draft EXCEPT ![p] = s]
    /\ Goto(p, "seed_open")
    /\ UNCHANGED <<files, line, history>>

BeginInit(p, s) ==
    /\ pc[p] = "idle"
    /\ seed = Absent \/ Overwrite
    /\ seeded < MaxSeeds
    /\ draft' = [draft EXCEPT ![p] = s]
    /\ Goto(p, "seed_open")
    /\ UNCHANGED <<files, line, history>>

OpenSeed(p) ==
    /\ pc[p] = "seed_open"
    /\ seed' = Empty
    /\ Goto(p, "seed_write")
    /\ UNCHANGED <<log, events, snap, draft, line, history>>

WriteSeed(p) ==
    /\ pc[p] = "seed_write"
    /\ seed' \in Overlay(seed, draft[p])
    /\ seeded' = seeded + 1
    /\ Goto(p, "events_reset")
    /\ UNCHANGED <<log, events, snap, draft, line, acked, stale, crashes>>

ResetEvents(p) ==
    /\ pc[p] = "events_reset"
    /\ events' = <<>>
    /\ Goto(p, "log_reset")
    /\ UNCHANGED <<seed, log, snap, draft, line, history>>

ResetLog(p) ==
    /\ pc[p] = "log_reset"
    /\ log' = <<>>
    /\ Goto(p, "snap_open")
    /\ UNCHANGED <<seed, events, snap, draft, line, history>>

(* append_event: nothing in the program reads the events back, and no decision
   refers to one.  (A torn line of this file is not modelled.) *)
AppendEvent(p, e) ==
    /\ pc[p] = "idle"
    /\ seed # Absent
    /\ Len(events) < MaxEvents
    /\ events' = Append(events, e)
    /\ UNCHANGED <<seed, log, snap, procs, history>>

(* A process dies, the files stay as they are.  One that was appending may
   leave part of its line behind: a fragment, or all of it but the newline. *)
Crash(p) ==
    /\ pc[p] # "idle"
    /\ crashes < MaxCrashes
    /\ crashes' = crashes + 1
    /\ stale' = TRUE
    /\ Returned(p)
    /\ \/ log' = log
       \/ /\ TornWrites /\ pc[p] = "append"
          /\ \E d \in {line[p], Garbage} : log' = AddText(Lines, d, FALSE)
    /\ UNCHANGED <<seed, events, snap, acked, seeded>>

-----------------------------------------------------------------------------

Continue(p) ==
    \/ AppendLine(p)
    \/ ReadLog(p)
    \/ OpenSeed(p) \/ WriteSeed(p) \/ ResetEvents(p) \/ ResetLog(p)
    \/ OpenSnapshot(p) \/ WriteSnapshot(p)

Next ==
    \E p \in Procs :
        \/ \E d \in Submissions : BeginAppend(p, d)
        \/ \E s \in Seeds : BeginInit(p, s)
        \/ BeginReplay(p)
        \/ \E e \in Events : AppendEvent(p, e)
        \/ Continue(p)
        \/ Crash(p)

ProcInit ==
    /\ pc = [p \in Procs |-> "idle"]
    /\ draft = [p \in Procs |-> None]
    /\ line = [p \in Procs |-> None]
    /\ acked = <<>> /\ seeded = 0 /\ stale = FALSE /\ crashes = 0

\* A directory nobody has initialized.
FreshInit ==
    /\ ProcInit
    /\ seed = Absent /\ log = Absent /\ events = <<>> /\ snap = Absent

\* A store one initialize call has completed on.
ReadyInit ==
    /\ ProcInit
    /\ \E s \in Seeds : seed = s /\ snap = s
    /\ log = <<>> /\ events = <<>>

Spec      == FreshInit /\ [][Next]_vars
ReadySpec == ReadyInit /\ [][Next]_vars

-----------------------------------------------------------------------------

Idle == \A p \in Procs : pc[p] = "idle"

LogReplay == IF Readable(Lines) THEN Replay(seed, DecisionsIn(Lines)) ELSE None

\* Whatever is on disk, but for an initialize at work, replay can rebuild the
\* record from it (state_store.py:3-5).
LogIsReplayable ==
    /\ IsRecord(seed)
    /\ \A p \in Procs : pc[p] \notin {"events_reset", "log_reset"}
    => LogReplay # None

\* Once no call is running and no crash is waiting for its replay, the snapshot
\* is the replay of the log (docs/workflow_contract.md:198-200).
SettledSnapshotIsReplay ==
    Idle /\ ~stale /\ IsRecord(seed) => snap = LogReplay

\* A decision whose append returned is in the log, as often as it returned,
\* unless a torn line has made the log unreadable: replay reports every loss.
\* (state_store.py:99-101: logged before the snapshot is touched; 147-149.)
AckedIsDurable ==
    Readable(Lines) => \A d \in Submissions :
        Cardinality({i \in DOMAIN acked : acked[i] = d})
            <= Cardinality({i \in DOMAIN Lines : Lines[i].dec = d})

\* A readable snapshot is the replay of some of the logged decisions, in log
\* order: processes may lose each other's updates, but never invent a record.
\* (Nothing is said of a log that replay refuses to read.)
SnapshotIsExplained ==
    IsRecord(seed) /\ IsRecord(snap) /\ Readable(Lines) =>
        \E kept \in SUBSET DOMAIN Lines : snap = ReplayOnly(seed, DecisionsIn(Lines), kept)

\* Without --overwrite a store gets one seed in its life (state_store.py:68-69).
OneSeed == ~Overwrite => seeded <= 1
=============================================================================
