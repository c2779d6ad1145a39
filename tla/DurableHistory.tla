---------------------------- MODULE DurableHistory ----------------------------
(***************************************************************************)
(* What the durable store promises (docs/workflow_contract.md, "Local      *)
(* durable store contract"): one seed record, given once, one append-only  *)
(* history of decisions, and a visible record that is always the replay of *)
(* that history.  A decision enters the history and the visible record in  *)
(* one step, and only if it applies to what every reader sees.             *)
(***************************************************************************)
EXTENDS DecisionReplay

CONSTANTS
    Submissions,  \* the decisions callers submit
    Seeds         \* the records a store may be created with

VARIABLES
    origin,   \* the seed record, None before the store exists
    history,  \* the decisions accepted so far
    view      \* the record a reader sees

historyVars == <<origin, history, view>>

HistoryInit ==
    /\ origin = None
    /\ history = <<>>
    /\ view = None

Create(s) ==
    /\ origin = None
    /\ origin' = s
    /\ view' = s
    /\ UNCHANGED history

Record(d) ==
    /\ origin # None
    /\ CanApply(view, d)
    /\ history' = Append(history, d)
    /\ view' = Apply(view, d)
    /\ UNCHANGED origin

HistoryNext ==
    \/ \E s \in Seeds : Create(s)
    \/ \E d \in Submissions : Record(d)

HistorySpec == HistoryInit /\ [][HistoryNext]_historyVars
=============================================================================
